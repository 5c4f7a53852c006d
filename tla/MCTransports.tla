---------------------------- MODULE MCTransports ----------------------------
(***************************************************************************)
(* All three wrappers over one session, each used at least twice.          *)
(***************************************************************************)
EXTENDS Transports

AllWrappers == {"http", "grpc", "ws"}
=============================================================================
