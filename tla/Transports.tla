----------------------------- MODULE Transports -----------------------------
(***************************************************************************)
(* The HTTP, gRPC and WebSocket wrappers between a client and a server     *)
(* that share one established session.  The wrappers hold no state of      *)
(* their own but the handlers of a WebSocket; what they add is what they   *)
(* do with an error of Encrypt or Decrypt, and the order in which calls of *)
(* many exchanges reach the one window and the one sequence number of the  *)
(* session.                                                                *)
(*                                                                         *)
(* An exchange is one HTTP request or one gRPC call.  A client library or  *)
(* a proxy may send an HTTP request again; gRPC delivers a call once, and  *)
(* a WebSocket keeps the order of what is written to it.  The session may  *)
(* rotate its keys, or an end may Dispose its object, at any time.         *)
(***************************************************************************)
EXTENDS PacketWindow, Sequences

CONSTANTS
    Nil,
    Wrappers,       \* the wrappers in use: some of "http", "grpc", "ws"
    MaxUses,        \* bounds: WebSocket messages, an exchange being two,
    MaxServed,      \* requests that reach a handler,
    MaxHandlers,    \* calls of OnDecrypted,
    MaxChanges      \* and changes of keys

ASSUME WrappersAssumption == Wrappers \subseteq {"http", "grpc", "ws"}
ASSUME BoundsAssumption ==
    {MaxUses, MaxServed, MaxHandlers, MaxChanges} \subseteq Nat

VARIABLES
    key,               \* per end: the number of its keys, or Nil
    sendSeq, receivedPackets,
    tokens,            \* rotation payloads on their way
    requests,          \* requests on the network
    running,           \* requests that a handler is working on
    responses,         \* responses on the network
    outbox,            \* WebSocket messages sealed and not yet written
    socket,            \* WebSocket messages written and not yet read
    heard,             \* per handler of OnDecrypted: what it was called with
    exchanges, sent,   \* bounds: exchanges begun, messages sealed by Send,
    changes,           \* calls of Rekey, ApplyRekey and Dispose
    served,            \* history: every call of a handler
    results,           \* history: what the client's calls returned
    written,           \* history: messages written to the WebSocket
    calm               \* history: texts sent since an end last changed keys

session == <<key, sendSeq, receivedPackets, tokens, changes>>
web == <<outbox, socket, heard, sent, written>>
rpc == <<requests, running, responses, exchanges, served, results>>
vars == <<session, web, rpc, calm>>

Ends == {"client", "server"}

(* What travels: a text, in the clear or in a packet.  Texts say what they *)
(* are: the request of an exchange, the answer of a call of a handler...   *)
Plain(text) == [text |-> text, seal |-> Nil]
Request(x) == <<"request", x>>
Answer(n) == <<"answer", n>>
Token(n) == <<"token", n>>
Nothing == Plain(<<"nothing", 0>>)

(* Encrypt at an end that has keys. *)
Sealed(e, text) ==
    [text |-> text, seal |-> [key |-> key[e], seq |-> sendSeq[e]]]

(* Mistaken variant: the number does not move. *)
SpendNone(e) == sendSeq' = [sendSeq EXCEPT ![e] = @]

Spend(e) == sendSeq' = [sendSeq EXCEPT ![e] = NextSeq(@)]

(* Mistaken variant: numbers have to grow. *)
OpensNewer(e, m) ==
    /\ m.seal # Nil
    /\ key[e] # Nil
    /\ m.seal.key = key[e]
    /\ \A s \in receivedPackets[e] : s < m.seal.seq

(* Whether Decrypt returns the text, or an error.  Both directions share   *)
(* the keys of the session.                                                *)
Opens(e, m) ==
    /\ m.seal # Nil
    /\ key[e] # Nil
    /\ m.seal.key = key[e]
    /\ m.seal.seq \notin receivedPackets[e]

Consume(e, m) ==
    receivedPackets' = [receivedPackets EXCEPT ![e] =
                           IF Opens(e, m) THEN Admit(@, m.seal.seq) ELSE @]

Init ==
    /\ key = [e \in Ends |-> 0]
    /\ sendSeq = [e \in Ends |-> 0]
    /\ receivedPackets = [e \in Ends |-> {}]
    /\ tokens = {}
    /\ requests = {}
    /\ running = {}
    /\ responses = {}
    /\ outbox = {}
    /\ socket = <<>>
    /\ heard = <<>>
    /\ exchanges = 0
    /\ sent = 0
    /\ changes = 0
    /\ served = {}
    /\ results = {}
    /\ written = <<>>
    /\ calm = {}
-----------------------------------------------------------------------------
(* Rotation and Dispose, called by the application beside the wrappers. *)
Change == changes < MaxChanges /\ changes' = changes + 1 /\ calm' = {}

Rekey ==
    /\ key["client"] # Nil
    /\ Change
    /\ tokens' = tokens \cup {Sealed("client", Token(key["client"]))}
    /\ Spend("client")
    /\ key' = [key EXCEPT !["client"] = @ + 1]
    /\ UNCHANGED <<receivedPackets, web, rpc>>

ApplyRekey ==
    /\ \E m \in tokens :
          /\ Opens("server", m)
          /\ Consume("server", m)
    /\ key' = [key EXCEPT !["server"] = @ + 1]
    /\ Change
    /\ UNCHANGED <<sendSeq, tokens, web, rpc>>

Dispose(e) ==
    /\ key[e] # Nil
    /\ Change
    /\ key' = [key EXCEPT ![e] = Nil]
    /\ receivedPackets' = [receivedPackets EXCEPT ![e] = {}]
    /\ UNCHANGED <<sendSeq, tokens, web, rpc>>
-----------------------------------------------------------------------------
(* What begins while the ends hold the same keys is calm until either end  *)
(* changes them.                                                           *)
Calmly(text) ==
    calm' = IF key["client"] # Nil /\ key["client"] = key["server"]
              THEN calm \cup {text}
              ELSE calm

Begin(kind) ==
    /\ kind \in Wrappers
    /\ 2 * (exchanges + 1) + sent <= MaxUses
    /\ exchanges' = exchanges + 1
    /\ Calmly(Request(exchanges + 1))

Post(kind, marked, message) ==
    requests' = requests \cup {[x |-> exchanges + 1, kind |-> kind,
                                marked |-> marked, message |-> message]}

(* A call of the client returns: a text, perhaps of a response, or an error. *)
Returned(response, message) ==
    results' = results \cup {[response EXCEPT !.message = message]}

Failed == Plain(<<"error", 0>>)

NoResponse(x, kind) ==
    [x |-> x, n |-> 0, kind |-> kind, marked |-> FALSE, status |-> 0,
     message |-> Nothing]

(* QDHTTP.EncryptRequest and the sending of the request.  A request with   *)
(* no body is not marked; one that cannot be encrypted is not sent.        *)
EncryptRequest ==
    /\ Begin("http")
    /\ \/ /\ Post("http", FALSE, Nothing)
          /\ UNCHANGED <<sendSeq, results>>
       \/ /\ key["client"] # Nil
          /\ Post("http", TRUE, Sealed("client", Request(exchanges + 1)))
          /\ Spend("client")
          /\ UNCHANGED results
       \/ /\ key["client"] = Nil
          /\ Returned(NoResponse(exchanges + 1, "http"), Failed)
          /\ UNCHANGED <<requests, sendSeq>>
    /\ UNCHANGED <<key, receivedPackets, tokens, changes, web, running,
                   responses, served>>

(* wrappedGRPCClient.Invoke, up to the call of the client it wraps.  A     *)
(* wrapped value that has no Invoke makes it return its own ciphertext.    *)
Invoke ==
    LET packet == Sealed("client", Request(exchanges + 1))
    IN  /\ Begin("grpc")
        /\ \/ /\ key["client"] # Nil
              /\ Spend("client")
              /\ \/ Post("grpc", FALSE, packet) /\ UNCHANGED results
                 \/ /\ Returned(NoResponse(exchanges + 1, "none"), packet)
                    /\ UNCHANGED requests
           \/ /\ key["client"] = Nil
              /\ Returned(NoResponse(exchanges + 1, "grpc"), Failed)
              /\ UNCHANGED <<requests, sendSeq>>
        /\ UNCHANGED <<key, receivedPackets, tokens, changes, web, running,
                       responses, served>>

(* net/http sends a request again with the body that GetBody still has,    *)
(* the plaintext, under the headers of the ciphertext: the lengths differ  *)
(* and the server cannot read the body.                                    *)
Resend ==
    /\ \E r \in requests :
          /\ r.kind = "http" /\ r.marked
          /\ requests' = requests \cup {[r EXCEPT !.message = Nothing]}
    /\ UNCHANGED <<session, web, running, responses, exchanges, served,
                   results, calm>>
-----------------------------------------------------------------------------
(* A handler is called with a body, marked or not.  The headers of the     *)
(* request still promise a packet where one was promised.                  *)
Serve(r, marked, message) ==
    LET act == [n |-> Cardinality(served) + 1, x |-> r.x, kind |-> r.kind,
                promised |-> r.marked, arrived |-> r.message,
                marked |-> marked, message |-> message]
    IN  /\ Cardinality(served) < MaxServed
        /\ served' = served \cup {act}
        /\ running' = running \cup {act}

(* Mistaken variant: the mark follows the header, not the decryption. *)
MiddlewareMarksAll ==
    /\ \E r \in requests :
          /\ r.kind = "http"
          /\ Consume("server", r.message)
          /\ Serve(r, r.marked, IF Opens("server", r.message)
                                  THEN Plain(r.message.text) ELSE Nothing)
    /\ UNCHANGED <<key, sendSeq, tokens, changes, web, requests, responses,
                   exchanges, results, calm>>

(* QDHTTP.Middleware up to the handler.  A body that comes with the header *)
(* is read to its end before it is decrypted: one that decrypts is put     *)
(* back as plaintext and marked X-QD-Decrypted, of one that does not the   *)
(* handler reads nothing.  Without the header the body is not touched.     *)
Middleware ==
    /\ \E r \in requests :
          /\ r.kind = "http"
          /\ \/ /\ r.marked /\ Opens("server", r.message)
                /\ Consume("server", r.message)
                /\ Serve(r, TRUE, Plain(r.message.text))
             \/ /\ r.marked /\ ~Opens("server", r.message)
                /\ Serve(r, FALSE, Nothing)
                /\ UNCHANGED receivedPackets
             \/ /\ ~r.marked
                /\ Serve(r, FALSE, r.message)
                /\ UNCHANGED receivedPackets
    /\ UNCHANGED <<key, sendSeq, tokens, changes, web, requests, responses,
                   exchanges, results, calm>>

(* QDGRPC.ServerInterceptor up to the handler. *)
ServerInterceptor ==
    /\ \E r \in requests :
          /\ r.kind = "grpc"
          /\ requests' = requests \ {r}
          /\ Consume("server", r.message)
          /\ Serve(r, FALSE, IF Opens("server", r.message)
                               THEN Plain(r.message.text) ELSE r.message)
    /\ UNCHANGED <<key, sendSeq, tokens, changes, web, responses, exchanges,
                   results, calm>>
-----------------------------------------------------------------------------
Understood(act) == act.message = Plain(Request(act.x))

(* The status a careful handler sets: it refuses a request whose headers   *)
(* promise a packet that the middleware did not decrypt.                   *)
Verdict(act) == IF Understood(act) \/ ~act.promised THEN 200 ELSE 400

Unanswered(x) == \A r \in results : r.x # x

Respond(act, marked, status, message) ==
    /\ running' = running \ {act}
    /\ responses' = IF Unanswered(act.x)
                      THEN responses \cup
                              {[x |-> act.x, n |-> act.n, kind |-> act.kind,
                                marked |-> marked, status |-> status,
                                message |-> message]}
                      ELSE responses

(* Mistaken variant: the header is set on the recorder, which drops it. *)
WriteBackUnmarked ==
    /\ \E act \in running :
          /\ act.kind = "http"
          /\ key["server"] # Nil
          /\ Respond(act, FALSE, Verdict(act), Sealed("server", Answer(act.n)))
          /\ Spend("server")
    /\ UNCHANGED <<key, receivedPackets, tokens, changes, web, requests,
                   exchanges, served, results, calm>>

(* Middleware after the handler, which may have written a body to the      *)
(* recorder or only a status.  An encrypted body goes out under the        *)
(* implicit status 200.  Without a body, or when Encrypt fails, the status *)
(* and the body go out as they are, without the header.                    *)
WriteBack ==
    /\ \E act \in running :
          /\ act.kind = "http"
          /\ \/ /\ key["server"] # Nil
                /\ Respond(act, TRUE, 200, Sealed("server", Answer(act.n)))
                /\ Spend("server")
             \/ /\ key["server"] = Nil
                /\ Respond(act, FALSE, Verdict(act), Plain(Answer(act.n)))
                /\ UNCHANGED sendSeq
             \/ /\ Respond(act, FALSE, Verdict(act), Nothing)
                /\ UNCHANGED sendSeq
    /\ UNCHANGED <<key, receivedPackets, tokens, changes, web, requests,
                   exchanges, served, results, calm>>

(* ServerInterceptor after the handler: an error is passed on, bytes and   *)
(* maps are encrypted if they can be, anything else is returned as it is.  *)
InterceptorReturn ==
    /\ \E act \in running :
          /\ act.kind = "grpc"
          /\ \/ /\ key["server"] # Nil
                /\ Respond(act, FALSE, 200, Sealed("server", Answer(act.n)))
                /\ Spend("server")
             \/ Respond(act, FALSE, 200, Plain(Answer(act.n)))
                /\ UNCHANGED sendSeq
             \/ Respond(act, FALSE, 500, Failed) /\ UNCHANGED sendSeq
    /\ UNCHANGED <<key, receivedPackets, tokens, changes, web, requests,
                   exchanges, served, results, calm>>
-----------------------------------------------------------------------------
(* The client reads one response of an exchange; later ones reach nobody. *)
Settle(x) == responses' = {q \in responses : q.x # x}

(* QDHTTP.DecryptResponse: decrypts what carries the header. *)
DecryptResponse ==
    /\ \E r \in responses :
          /\ r.kind = "http"
          /\ Settle(r.x)
          /\ IF r.marked
               THEN /\ Consume("client", r.message)
                    /\ Returned(r, IF Opens("client", r.message)
                                 THEN Plain(r.message.text) ELSE Failed)
               ELSE /\ Returned(r, r.message)
                    /\ UNCHANGED receivedPackets
    /\ UNCHANGED <<key, sendSeq, tokens, changes, web, requests, running,
                   exchanges, served, calm>>

(* The rest of Invoke: what does not decrypt is returned as it came, and   *)
(* with no error.                                                          *)
InvokeReturn ==
    /\ \E r \in responses :
          /\ r.kind = "grpc"
          /\ Settle(r.x)
          /\ Consume("client", r.message)
          /\ Returned(r, IF Opens("client", r.message)
                                     THEN Plain(r.message.text) ELSE r.message)
    /\ UNCHANGED <<key, sendSeq, tokens, changes, web, requests, running,
                   exchanges, served, calm>>
-----------------------------------------------------------------------------
Message(i) == <<"message", i>>

(* Mistaken variant: a session is not asked for. *)
SendUnchecked ==
    /\ "ws" \in Wrappers
    /\ 2 * exchanges + sent < MaxUses
    /\ sent' = sent + 1
    /\ outbox' = outbox \cup {Sealed("client", Message(sent + 1))}
    /\ Spend("client")
    /\ Calmly(Message(sent + 1))
    /\ UNCHANGED <<key, receivedPackets, tokens, changes, socket, heard,
                   written, rpc>>

(* QDWebSocket.Send encrypts and then writes; two goroutines may write in  *)
(* the other order.                                                        *)
Send ==
    /\ "ws" \in Wrappers
    /\ key["client"] # Nil
    /\ 2 * exchanges + sent < MaxUses
    /\ sent' = sent + 1
    /\ outbox' = outbox \cup {Sealed("client", Message(sent + 1))}
    /\ Spend("client")
    /\ Calmly(Message(sent + 1))
    /\ UNCHANGED <<key, receivedPackets, tokens, changes, socket, heard,
                   written, rpc>>

Write ==
    /\ \E m \in outbox :
          /\ outbox' = outbox \ {m}
          /\ socket' = Append(socket, m)
          /\ written' = Append(written, m.text)
    /\ UNCHANGED <<session, heard, sent, rpc, calm>>

OnDecrypted ==
    /\ "ws" \in Wrappers
    /\ Len(heard) < MaxHandlers
    /\ heard' = Append(heard, <<>>)
    /\ UNCHANGED <<session, outbox, socket, sent, written, rpc, calm>>

(* The callback that attach subscribes: a message that does not decrypt is *)
(* dropped, any other goes to the handlers there are by now.               *)
OnMessage ==
    /\ socket # <<>>
    /\ socket' = Tail(socket)
    /\ Consume("server", Head(socket))
    /\ heard' = IF Opens("server", Head(socket))
                  THEN [h \in DOMAIN heard |->
                           Append(heard[h], Head(socket).text)]
                  ELSE heard
    /\ UNCHANGED <<key, sendSeq, tokens, changes, outbox, sent, written, rpc,
                   calm>>

Next ==
    \/ Rekey \/ ApplyRekey \/ (\E e \in Ends : Dispose(e))
    \/ EncryptRequest \/ Invoke \/ Resend
    \/ Middleware \/ ServerInterceptor \/ WriteBack \/ InterceptorReturn
    \/ DecryptResponse \/ InvokeReturn
    \/ Send \/ Write \/ OnDecrypted \/ OnMessage

Spec == Init /\ [][Next]_vars
-----------------------------------------------------------------------------
Seals == [key : Nat, seq : Seqs]

ASSUME NilAssumption == Nil \notin Seals

(* The type invariant. *)
TypeOK ==
    /\ key \in [Ends -> Nat \cup {Nil}]
    /\ sendSeq \in [Ends -> Seqs]
    /\ receivedPackets \in [Ends -> SUBSET Seqs]
    /\ \A m \in tokens \cup outbox \cup {socket[i] : i \in DOMAIN socket} :
          m.seal \in Seals
    /\ \A r \in requests \cup responses : r.message.seal \in Seals \cup {Nil}
    /\ running \subseteq served
    /\ \A r \in results : r.x \in 1 .. exchanges

(* A handler behind the middleware may trust the mark: a marked body is    *)
(* the plaintext of its exchange, and of a packet that is not marked it    *)
(* reads nothing, not the ciphertext either.  However often the network    *)
(* repeats a request, through rotations and Dispose, no handler, of HTTP   *)
(* or of gRPC, is handed its plaintext a second time.                      *)
RequestsOnce ==
    /\ \A a \in served :
          a.kind = "http"
              => IF a.marked THEN Understood(a) ELSE a.message = Nothing
    /\ \A a, b \in served :
          a.x = b.x /\ Understood(a) /\ Understood(b) => a = b

(* What DecryptResponse returns without an error is what one handler wrote *)
(* for that exchange, or nothing: never the bytes of a packet, whichever   *)
(* end lost its keys between the request and the answer; and only behind   *)
(* an encrypted answer is the status not the one that handler set.         *)
AnswersIntact ==
    \A r \in results :
        r.kind = "http" /\ r.message # Failed
            => \E a \in served :
                  /\ a.n = r.n /\ a.x = r.x
                  /\ r.message \in {Nothing, Plain(Answer(a.n))}
                  /\ r.marked \/ r.status = Verdict(a)

(* Only a change of keys disturbs an exchange: while neither end rotates   *)
(* or disposes, a packet that arrives is withheld from the handler only if *)
(* it was handed over before, HTTP never answers with an error and Invoke  *)
(* never returns a packet, however many exchanges share the window.        *)
CalmExchange ==
    /\ \A a \in served :
          \/ Request(a.x) \notin calm
          \/ Understood(a) \/ a.arrived = Nothing
          \/ \E b \in served : b.x = a.x /\ Understood(b)
    /\ \A r \in results :
          Request(r.x) \in calm
              => CASE r.kind = "http" -> r.message # Failed
                   [] r.kind = "grpc" -> r.message.seal = Nil
                   [] OTHER -> TRUE

Position(text) == CHOOSE i \in DOMAIN written : written[i] = text

(* A handler hears the messages in the order they were written, whatever   *)
(* the order they were sealed in, none twice, and between two that it      *)
(* hears it misses only messages that a change of keys caught on the way.  *)
HeardInOrder ==
    \A h \in DOMAIN heard :
        \A i \in 1 .. Len(heard[h]) - 1 :
            LET p == Position(heard[h][i])
                q == Position(heard[h][i + 1])
            IN  p < q /\ \A j \in p + 1 .. q - 1 : written[j] \notin calm
=============================================================================
