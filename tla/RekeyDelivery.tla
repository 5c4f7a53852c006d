---------------------------- MODULE RekeyDelivery ----------------------------
(***************************************************************************)
(* One session of two objects whose applications pass every token on.      *)
(* Rekey returns the token; the application sends it, and the application  *)
(* at the other end calls ApplyRekey with it.  A token that ApplyRekey     *)
(* refuses is gone: the error is returned, nothing in the code repeats     *)
(* the call, and the sender is not told.  So convergence is only as good   *)
(* as the delivery, which is what this module adds to SessionPair: each    *)
(* end has the tokens it was sent and has not passed on, the oldest first. *)
(* Tokens may also come early, late or again (ApplyRekey of SessionPair),  *)
(* but the application that counts on convergence passes each of them on   *)
(* in order.  Dispose and restarts end a session and are left out.         *)
(***************************************************************************)
EXTENDS SessionPair

VARIABLE inbox    \* per end: tokens to pass to ApplyRekey, in order

deliveryVars == <<vars, inbox>>

DeliveryInit == Init /\ inbox = [e \in Endpoints |-> <<>>]

(* The token that Rekey returned is sent. *)
SendToken(e) ==
    /\ Rekey(e)
    /\ inbox' = [inbox EXCEPT ![Peer(e)] = Append(@, Token(e))]

(* An end passes tokens on once its handshake is complete (before, they    *)
(* would be lost to ErrSessionNotEstablished).  A token that was passed to *)
(* ApplyRekey is not passed to it again, whatever came of it.              *)
Deliver(e) ==
    /\ sessionKey[e] # Nil
    /\ inbox[e] # <<>>
    /\ ApplyToken(e, Head(inbox[e]))
    /\ inbox' = [inbox EXCEPT ![e] = Tail(@)]

OtherCall(e) ==
    /\ \/ GenerateKeyPair(e) \/ InitializeSession(e) \/ FinalizeSession(e)
       \/ Encrypt(e) \/ Decrypt(e)
       \/ ApplyRekey(e)
    /\ UNCHANGED inbox

DeliveryNext ==
    \E e \in Endpoints : SendToken(e) \/ Deliver(e) \/ OtherCall(e)

(* The transport loses no token, and its receiver passes on the next one   *)
(* in the end.  Nothing more is assumed: no call is repeated.              *)
DeliverySpec ==
    /\ DeliveryInit /\ [][DeliveryNext]_deliveryVars
    /\ \A e \in Endpoints : WF_deliveryVars(Deliver(e))
-----------------------------------------------------------------------------
Apart ==
    \E e, d \in Endpoints :
        SameSession(e, d) /\ sessionKey[e] # sessionKey[d]

(* Rotation ends in agreement: whenever the two ends of a session hold     *)
(* different keys, they come to hold the same ones (CHANGELOG.md:18, "the  *)
(* intermediate token can be decrypted with the old keys on both sides,    *)
(* avoiding desynchronization"), unless a counter has outgrown the payload *)
(* and every later token is refused.                                       *)
RekeyConverges ==
    Apart ~> ~Apart \/ \E e \in Endpoints : rekeyCounter[e] > CounterMod
=============================================================================
