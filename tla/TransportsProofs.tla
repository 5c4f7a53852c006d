-------------------------- MODULE TransportsProofs --------------------------
(***************************************************************************)
(* What holds of the wrappers for any number of exchanges, messages,       *)
(* handlers and changes of keys.                                           *)
(*                                                                         *)
(* The argument.  While the numbers of an end do not wrap, a number names  *)
(* one packet.  The server's window holds numbers of packets it has        *)
(* opened, so a request whose number is there has been handed to a         *)
(* handler; and as long as nothing is evicted the converse holds until the *)
(* server loses its keys for good.  A text is calm only while both ends    *)
(* hold the keys it was sent under: its packet then fails to open only if  *)
(* its number is in the window.  An answer is read once, so its number is  *)
(* not, and a WebSocket message is read once, in the order written.        *)
(***************************************************************************)
EXTENDS Transports, FiniteSetTheorems, SequenceTheorems, TLAPS

(* The numbers of neither end wrap. *)
NoWrap == MaxUses + MaxChanges < SeqMod /\ MaxServed < SeqMod

(* The server's window is never full. *)
NothingEvicted == MaxUses + MaxChanges <= MaxPacketWindow

(* Texts, the packets that seal them, and what carries them. *)
Texts == {"nothing", "error", "token", "request", "answer", "message"} \X Nat
Packets == [text : Texts, seal : Seals]
Messages == [text : Texts, seal : Seals \cup {Nil}]
Requests ==
    [x : Nat, kind : {"http", "grpc"}, marked : BOOLEAN, message : Messages]
Acts ==
    [n : Nat, x : Nat, kind : {"http", "grpc"}, promised : BOOLEAN,
     arrived : Messages, marked : BOOLEAN, message : Messages]
Responses ==
    [x : Nat, n : Nat, kind : {"http", "grpc", "none"}, marked : BOOLEAN,
     status : Nat, message : Messages]

(* Every variable keeps its type; TypeOK is a part of it. *)
TypeInv ==
    /\ key \in [Ends -> Nat \cup {Nil}]
    /\ sendSeq \in [Ends -> Seqs]
    /\ receivedPackets \in [Ends -> SUBSET Seqs]
    /\ tokens \subseteq Packets
    /\ requests \subseteq Requests
    /\ served \subseteq Acts /\ IsFiniteSet(served)
    /\ running \subseteq served
    /\ responses \subseteq Responses
    /\ results \subseteq Responses
    /\ outbox \subseteq Packets
    /\ socket \in Seq(Packets)
    /\ written \in Seq(Texts)
    /\ heard \in Seq(Seq(Texts))
    /\ exchanges \in Nat /\ sent \in Nat /\ changes \in Nat
    /\ \A r \in requests : r.x \in 1 .. exchanges
    /\ \A a \in served : a.x \in 1 .. exchanges
    /\ \A r \in responses : r.x \in 1 .. exchanges
    /\ \A r \in results : r.x \in 1 .. exchanges

(* What a request on the network carries, and what a handler is handed.    *)
Faithful ==
    /\ \A r \in requests :
          \/ r.message = Nothing
          \/ /\ r.message.seal # Nil
             /\ r.message.text = Request(r.x)
             /\ r.kind = "http" => r.marked
    /\ \A a \in served :
          a.kind = "http"
              => IF a.marked THEN Understood(a) ELSE a.message = Nothing

(* An answer of HTTP on its way is what one handler wrote.                 *)
Answers ==
    /\ \A r \in responses :
          r.kind = "http"
              => \E a \in served :
                    /\ a.n = r.n /\ a.x = r.x
                    /\ IF r.marked
                         THEN /\ r.message.seal # Nil
                              /\ r.message.text = Answer(a.n)
                         ELSE /\ r.message \in {Nothing, Plain(Answer(a.n))}
                              /\ r.status = Verdict(a)
    /\ AnswersIntact

(* The numbers an end has used. *)
Used(e) == {s \in Seqs : s < sendSeq[e]}

(* The client's numbers are spent by exchanges, messages and rotations.    *)
ClientCount ==
    /\ 2 * exchanges + sent <= MaxUses
    /\ changes <= MaxChanges
    /\ sendSeq["client"] <= exchanges + sent + changes

(* The server's are spent by answers, one for each call of a handler.      *)
ServerCount ==
    /\ Cardinality(served) <= MaxServed
    /\ \A a \in served : a.n <= Cardinality(served)
    /\ sendSeq["server"] <= Cardinality(served \ running)

(* The packets of the client on their way. *)
OnSocket == {socket[i] : i \in DOMAIN socket}
Sent == {r.message : r \in {q \in requests : q.message.seal # Nil}}
            \cup tokens \cup outbox \cup OnSocket

(* The client's packets bear numbers it used, no two the same.             *)
ClientNumbers ==
    /\ receivedPackets["server"] \subseteq Used("client")
    /\ \A m \in Sent : m.seal.seq \in Used("client")
    /\ \A m, o \in Sent : m.seal.seq = o.seal.seq => m.text = o.text

(* A message of the WebSocket is on one way only and not read yet.         *)
MessagesUnread ==
    /\ \A m \in outbox \cup OnSocket :
          /\ m.seal.seq \notin receivedPackets["server"]
          /\ m.text \in {Message(i) : i \in 1 .. sent}
    /\ \A m \in tokens : m.text[1] = "token"
    /\ \A i \in DOMAIN written : written[i] \in {Message(j) : j \in 1 .. sent}
    /\ \A m \in outbox : \A i \in DOMAIN written : m.text # written[i]
    /\ \A m, o \in outbox : m.text = o.text => m = o

(* The messages read so far, in the order they were written.               *)
Read == Len(written) - Len(socket)

(* What is on the socket was written last, and nothing was written twice.  *)
Order ==
    /\ Len(socket) <= Len(written)
    /\ \A i \in DOMAIN socket : socket[i].text = written[Read + i]
    /\ \A i, j \in DOMAIN written : written[i] = written[j] => i = j

(* A handler was handed the plaintext of the exchange.                     *)
Handed(x) == \E a \in served : a.x = x /\ Understood(a)

(* A request whose number the server has seen was handed to a handler.     *)
SeenIsHanded ==
    \A r \in requests :
        /\ r.message.seal # Nil
        /\ r.message.seal.seq \in receivedPackets["server"]
        => Handed(r.x)

(* The converse, until the server has no keys any more.  An exchange has   *)
(* one packet.                                                             *)
HandedIsSeen ==
    /\ \A r \in requests :
          r.message.seal # Nil /\ Handed(r.x)
              => \/ key["server"] = Nil
                 \/ r.message.seal.seq \in receivedPackets["server"]
    /\ \A r, q \in requests :
          r.message.seal # Nil /\ q.message.seal # Nil /\ r.x = q.x
              => r.message = q.message

(* An answer on its way has a number the server used, the client has not   *)
(* seen and the answer of no other exchange bears.                         *)
AnswersUnread ==
    /\ receivedPackets["client"] \subseteq Used("server")
    /\ \A r \in responses : r.message.seal # Nil =>
          /\ r.message.seal.seq \in Used("server")
          /\ r.message.seal.seq \notin receivedPackets["client"]
    /\ \A r, q \in responses :
          /\ r.message.seal # Nil /\ q.message.seal # Nil
          /\ r.message.seal.seq = q.message.seal.seq
          => r.x = q.x

(* Calm texts are under the keys that both ends hold.                      *)
CalmKeys ==
    /\ calm # {} => key["client"] # Nil /\ key["client"] = key["server"]
    /\ calm \subseteq {Request(x) : x \in 1 .. exchanges}
                          \cup {Message(i) : i \in 1 .. sent}
    /\ \A m \in Sent : m.text \in calm => m.seal.key = key["client"]
    /\ \A r \in responses :
          Request(r.x) \in calm /\ r.message.seal # Nil
              => r.message.seal.key = key["server"]

(* The text a handler heard at i was written, and so was the next it       *)
(* heard, later; between the two, or since, it missed none that is calm.   *)
Turn(texts, i, w, read, c) ==
    \E p \in 1 .. read :
        /\ w[p] = texts[i]
        /\ IF i = Len(texts)
             THEN \A j \in p + 1 .. read : w[j] \notin c
             ELSE \E q \in p + 1 .. read :
                     /\ w[q] = texts[i + 1]
                     /\ \A j \in p + 1 .. q - 1 : w[j] \notin c

InTurn(texts, i) == Turn(texts, i, written, Read, calm)

(* So with every text of every handler. *)
Heard ==
    \A h \in DOMAIN heard : \A i \in DOMAIN heard[h] : InTurn(heard[h], i)
-----------------------------------------------------------------------------
(* Texts and what wraps them. *)
LEMMA TextFacts ==
    /\ \A n \in Nat :
          {Request(n), Answer(n), Token(n), Message(n)} \subseteq Texts
    /\ Nothing \in Messages /\ Failed \in Messages
    /\ Nothing.seal = Nil /\ Failed.seal = Nil
    /\ \A t \in Texts : /\ Plain(t) \in Messages
                        /\ Plain(t).text = t /\ Plain(t).seal = Nil
    /\ Packets \subseteq Messages
    /\ \A m \in Packets : m.seal # Nil
BY NilAssumption
   DEF Texts, Request, Answer, Token, Message, Nothing, Failed, Plain,
       Messages, Packets

(* What Encrypt returns.                                                   *)
LEMMA SealedFacts ==
    ASSUME TypeInv, NEW e \in Ends, key[e] # Nil, NEW t \in Texts
    PROVE  /\ Sealed(e, t) \in Packets
           /\ Sealed(e, t).text = t
           /\ Sealed(e, t).seal.key = key[e]
           /\ Sealed(e, t).seal.seq = sendSeq[e]
BY DEF TypeInv, Sealed, Packets, Seals

(* sendSeq++ at one end.                                                   *)
LEMMA SpendFacts ==
    ASSUME TypeInv, NEW e \in Ends, Spend(e)
    PROVE  /\ sendSeq' \in [Ends -> Seqs]
           /\ sendSeq[e] + 1 < SeqMod => sendSeq'[e] = sendSeq[e] + 1
           /\ \A d \in Ends \ {e} : sendSeq'[d] = sendSeq[d]
<1>1. sendSeq[e] \in Seqs
  BY DEF TypeInv
<1>2. NextSeq(sendSeq[e]) \in Seqs
  BY <1>1, SeqModAssumption DEF NextSeq, Seqs
<1>3. sendSeq[e] + 1 < SeqMod => NextSeq(sendSeq[e]) = sendSeq[e] + 1
  BY <1>1, SeqModAssumption DEF NextSeq, Seqs
<1> QED
  BY <1>2, <1>3 DEF TypeInv, Spend

(* What opens is under the end's keys, and not in its window yet.          *)
LEMMA OpensFacts ==
    ASSUME TypeInv, NEW e \in Ends, NEW m \in Messages, Opens(e, m)
    PROVE  /\ m.seal \in Seals /\ m.seal.seq \in Seqs /\ m.text \in Texts
           /\ key[e] \in Nat /\ key[e] # Nil
BY DEF TypeInv, Opens, Messages, Seals

(* Decrypt takes the number of what it opens into the window.              *)
LEMMA ConsumeFacts ==
    ASSUME TypeInv, NEW e \in Ends, NEW m \in Messages, Consume(e, m)
    PROVE  /\ receivedPackets' \in [Ends -> SUBSET Seqs]
           /\ \A d \in Ends \ {e} : receivedPackets'[d] = receivedPackets[d]
           /\ receivedPackets'[e] =
                IF Opens(e, m) THEN Admit(receivedPackets[e], m.seal.seq)
                               ELSE receivedPackets[e]
           /\ receivedPackets'[e] \subseteq
                receivedPackets[e] \cup
                   (IF Opens(e, m) THEN {m.seal.seq} ELSE {})
<1>1. \A R, s : Admit(R, s) \subseteq R \cup {s}
  BY DEF Admit
<1>2. receivedPackets[e] \in SUBSET Seqs
  BY DEF TypeInv
<1>3. Opens(e, m) => m.seal.seq \in Seqs
  BY OpensFacts
<1> QED
  BY <1>1, <1>2, <1>3 DEF TypeInv, Consume
-----------------------------------------------------------------------------
(* Nothing is on its way at first.                                         *)
LEMMA TypeInit == Init => TypeInv
BY SeqModAssumption, FS_EmptySet DEF Init, TypeInv, Seqs

(* A request is sent. *)
LEMMA PostFacts ==
    ASSUME TypeInv, NEW kind \in {"http", "grpc"}, NEW marked \in BOOLEAN,
           NEW message \in Messages, Post(kind, marked, message)
    PROVE  \E r \in Requests :
              /\ requests' = requests \cup {r}
              /\ r.x = exchanges + 1 /\ r.kind = kind
              /\ r.marked = marked /\ r.message = message
<1> DEFINE r == [x |-> exchanges + 1, kind |-> kind, marked |-> marked,
                 message |-> message]
<1>1. r \in Requests
  BY DEF TypeInv, Requests
<1> QED
  BY <1>1 DEF Post

(* A call of the client returns. *)
LEMMA ReturnedFacts ==
    ASSUME NEW r \in Responses, NEW m \in Messages, Returned(r, m)
    PROVE  \E o \in Responses :
              /\ results' = results \cup {o}
              /\ o.x = r.x /\ o.n = r.n /\ o.kind = r.kind
              /\ o.marked = r.marked /\ o.status = r.status
              /\ o.message = m
<1> DEFINE o == [r EXCEPT !.message = m]
<1>1. /\ o \in Responses
      /\ o.x = r.x /\ o.n = r.n /\ o.kind = r.kind
      /\ o.marked = r.marked /\ o.status = r.status
      /\ o.message = m
  BY DEF Responses
<1> QED
  BY <1>1 DEF Returned

(* What a client has when there is no response. *)
LEMMA NoResponseFacts ==
    ASSUME NEW x \in Nat, NEW kind \in {"http", "grpc", "none"}
    PROVE  /\ NoResponse(x, kind) \in Responses
           /\ NoResponse(x, kind).x = x /\ NoResponse(x, kind).kind = kind
BY TextFacts DEF NoResponse, Responses

(* What the two calls that begin an exchange do: they send a request       *)
(* without a packet or with one, or return at once.                        *)
LEMMA BeginEffect ==
    ASSUME TypeInv, EncryptRequest \/ Invoke
    PROVE  /\ exchanges' = exchanges + 1
           /\ 2 * exchanges' + sent <= MaxUses
           /\ \/ calm' = calm
              \/ /\ calm' = calm \cup {Request(exchanges')}
                 /\ key["client"] # Nil /\ key["client"] = key["server"]
           /\ UNCHANGED <<key, receivedPackets, tokens, changes, web, running,
                          responses, served>>
           /\ \/ \E r \in Requests :
                    /\ requests' = requests \cup {r}
                    /\ r.x = exchanges' /\ r.message = Nothing
                    /\ UNCHANGED <<sendSeq, results>>
              \/ \E r \in Requests :
                    /\ requests' = requests \cup {r}
                    /\ r.x = exchanges'
                    /\ r.kind = "http" => r.marked
                    /\ key["client"] # Nil
                    /\ r.message = Sealed("client", Request(exchanges'))
                    /\ Spend("client")
                    /\ UNCHANGED results
              \/ \E o \in Responses :
                    /\ results' = results \cup {o}
                    /\ o.x = exchanges' /\ o.message = Failed
                    /\ key["client"] = Nil
                    /\ calm' = calm
                    /\ UNCHANGED <<requests, sendSeq>>
              \/ \E o \in Responses :
                    /\ results' = results \cup {o}
                    /\ o.x = exchanges' /\ o.kind = "none"
                    /\ Spend("client")
                    /\ UNCHANGED requests
<1>1. \E kind : Begin(kind)
  BY DEF EncryptRequest, Invoke
<1>2. exchanges' = exchanges + 1 /\ exchanges' \in Nat
  BY <1>1 DEF TypeInv, Begin
<1>3. 2 * exchanges' + sent <= MaxUses
  BY <1>1, <1>2 DEF Begin
<1>4. /\ \/ calm' = calm
         \/ /\ calm' = calm \cup {Request(exchanges')}
            /\ key["client"] # Nil /\ key["client"] = key["server"]
      /\ key["client"] = Nil => calm' = calm
  BY <1>1, <1>2 DEF Begin, Calmly
<1>5. UNCHANGED <<key, receivedPackets, tokens, changes, web, running,
                  responses, served>>
  BY DEF EncryptRequest, Invoke
<1>6. key["client"] # Nil =>
        Sealed("client", Request(exchanges')) \in Messages
  BY <1>2, TextFacts, SealedFacts DEF Ends
<1>7. CASE EncryptRequest
  <2>1. CASE Post("http", FALSE, Nothing) /\ UNCHANGED <<sendSeq, results>>
    <3>1. PICK r \in Requests :
             /\ requests' = requests \cup {r}
             /\ r.x = exchanges + 1 /\ r.kind = "http"
             /\ r.marked = FALSE /\ r.message = Nothing
      BY <2>1, TextFacts, PostFacts
    <3> QED
      BY <1>2, <1>3, <1>4, <1>5, <2>1, <3>1
  <2>2. CASE /\ key["client"] # Nil
             /\ Post("http", TRUE, Sealed("client", Request(exchanges + 1)))
             /\ Spend("client")
             /\ UNCHANGED results
    <3>1. PICK r \in Requests :
             /\ requests' = requests \cup {r}
             /\ r.x = exchanges + 1 /\ r.kind = "http"
             /\ r.marked = TRUE
             /\ r.message = Sealed("client", Request(exchanges + 1))
      BY <1>2, <1>6, <2>2, PostFacts
    <3> QED
      BY <1>2, <1>3, <1>4, <1>5, <2>2, <3>1
  <2>3. CASE /\ key["client"] = Nil
             /\ Returned(NoResponse(exchanges + 1, "http"), Failed)
             /\ UNCHANGED <<requests, sendSeq>>
    <3>1. PICK o \in Responses : results' = results \cup {o}
                                 /\ o.x = exchanges + 1 /\ o.message = Failed
      BY <1>2, <2>3, TextFacts, NoResponseFacts, ReturnedFacts
    <3> QED
      BY <1>2, <1>3, <1>4, <1>5, <2>3, <3>1
  <2> QED
    BY <1>7, <2>1, <2>2, <2>3 DEF EncryptRequest
<1>8. CASE Invoke
  <2> DEFINE packet == Sealed("client", Request(exchanges + 1))
  <2>1. CASE /\ key["client"] # Nil /\ Spend("client")
             /\ Post("grpc", FALSE, packet) /\ UNCHANGED results
    <3>1. PICK r \in Requests :
             /\ requests' = requests \cup {r}
             /\ r.x = exchanges + 1 /\ r.kind = "grpc"
             /\ r.marked = FALSE /\ r.message = packet
      BY <1>2, <1>6, <2>1, PostFacts
    <3> QED
      BY <1>2, <1>3, <1>4, <1>5, <2>1, <3>1
  <2>2. CASE /\ key["client"] # Nil /\ Spend("client")
             /\ Returned(NoResponse(exchanges + 1, "none"), packet)
             /\ UNCHANGED requests
    <3>1. PICK o \in Responses : results' = results \cup {o}
                                 /\ o.x = exchanges + 1 /\ o.kind = "none"
      BY <1>2, <1>6, <2>2, NoResponseFacts, ReturnedFacts
    <3> QED
      BY <1>2, <1>3, <1>4, <1>5, <2>2, <3>1
  <2>3. CASE /\ key["client"] = Nil
             /\ Returned(NoResponse(exchanges + 1, "grpc"), Failed)
             /\ UNCHANGED <<requests, sendSeq>>
    <3>1. PICK o \in Responses : results' = results \cup {o}
                                 /\ o.x = exchanges + 1 /\ o.message = Failed
      BY <1>2, <2>3, TextFacts, NoResponseFacts, ReturnedFacts
    <3> QED
      BY <1>2, <1>3, <1>4, <1>5, <2>3, <3>1
  <2> QED
    BY <1>8, <2>1, <2>2, <2>3 DEF Invoke
<1> QED
  BY <1>7, <1>8

(* A handler is called. *)
LEMMA ServeFacts ==
    ASSUME TypeInv, NEW r \in requests,
           NEW marked \in BOOLEAN, NEW m \in Messages, Serve(r, marked, m)
    PROVE  \E act \in Acts :
              /\ served' = served \cup {act} /\ running' = running \cup {act}
              /\ act.n = Cardinality(served) + 1
              /\ act.x = r.x /\ act.kind = r.kind
              /\ act.arrived = r.message
              /\ act.marked = marked /\ act.message = m
              /\ Cardinality(served) < MaxServed
<1> DEFINE act == [n |-> Cardinality(served) + 1, x |-> r.x, kind |-> r.kind,
                   promised |-> r.marked, arrived |-> r.message,
                   marked |-> marked, message |-> m]
<1>1. Cardinality(served) \in Nat
  BY FS_CardinalityType DEF TypeInv
<1>2. act \in Acts
  BY <1>1 DEF TypeInv, Requests, Acts
<1> QED
  BY <1>2 DEF Serve

(* What the two sides of the server do before the handler: they hand it    *)
(* the plaintext of what opens; what does not, it reads as it came or, if  *)
(* HTTP announced it, not at all.                                          *)
LEMMA ServeEffect ==
    ASSUME TypeInv, Middleware \/ ServerInterceptor
    PROVE  \E r \in requests, act \in Acts :
              /\ served' = served \cup {act} /\ running' = running \cup {act}
              /\ act.n = Cardinality(served) + 1
              /\ act.x = r.x /\ act.kind = r.kind
              /\ act.arrived = r.message
              /\ Cardinality(served) < MaxServed
              /\ requests' \subseteq requests
              /\ UNCHANGED <<key, sendSeq, tokens, changes, web, responses,
                             exchanges, results, calm>>
              /\ \/ /\ Opens("server", r.message)
                    /\ act.message = Plain(r.message.text)
                    /\ r.kind = "http" => act.marked
                    /\ Consume("server", r.message)
                 \/ /\ r.kind = "http" /\ r.marked
                          => ~Opens("server", r.message)
                    /\ r.kind = "grpc" => ~Opens("server", r.message)
                    /\ act.message = IF r.kind = "http" /\ r.marked
                                       THEN Nothing ELSE r.message
                    /\ r.kind = "http" => ~act.marked
                    /\ UNCHANGED receivedPackets
<1>1. \A r \in requests : /\ r.message \in Messages
                          /\ r.kind \in {"http", "grpc"}
                          /\ r.message.text \in Texts
  BY DEF TypeInv, Requests, Messages
<1>2. \A r \in requests : Plain(r.message.text) \in Messages
  BY <1>1, TextFacts
<1>3. CASE Middleware
  <2>1. UNCHANGED <<key, sendSeq, tokens, changes, web, requests, responses,
                    exchanges, results, calm>>
    BY <1>3 DEF Middleware
  <2>2. PICK r \in requests :
           /\ r.kind = "http"
           /\ \/ /\ r.marked /\ Opens("server", r.message)
                 /\ Consume("server", r.message)
                 /\ Serve(r, TRUE, Plain(r.message.text))
              \/ /\ r.marked /\ ~Opens("server", r.message)
                 /\ Serve(r, FALSE, Nothing)
                 /\ UNCHANGED receivedPackets
              \/ /\ ~r.marked
                 /\ Serve(r, FALSE, r.message)
                 /\ UNCHANGED receivedPackets
    BY <1>3 DEF Middleware
  <2>3. CASE r.marked /\ Opens("server", r.message)
    <3>1. PICK act \in Acts :
             /\ served' = served \cup {act} /\ running' = running \cup {act}
             /\ act.n = Cardinality(served) + 1
             /\ act.x = r.x /\ act.kind = r.kind
             /\ act.arrived = r.message
             /\ act.marked = TRUE /\ act.message = Plain(r.message.text)
             /\ Cardinality(served) < MaxServed
      BY <1>2, <2>2, <2>3, ServeFacts
    <3> QED
      BY <2>1, <2>2, <2>3, <3>1
  <2>4. CASE ~(r.marked /\ Opens("server", r.message))
    <3>1. PICK act \in Acts :
             /\ served' = served \cup {act} /\ running' = running \cup {act}
             /\ act.n = Cardinality(served) + 1
             /\ act.x = r.x /\ act.kind = r.kind
             /\ act.arrived = r.message /\ act.marked = FALSE
             /\ act.message = IF r.marked THEN Nothing ELSE r.message
             /\ Cardinality(served) < MaxServed
      <4> DEFINE m == IF r.marked THEN Nothing ELSE r.message
      <4>1. m \in Messages
        BY <1>1, TextFacts
      <4>2. Serve(r, FALSE, m)
        BY <2>2, <2>4
      <4> HIDE DEF m
      <4>3. PICK act \in Acts :
             /\ served' = served \cup {act} /\ running' = running \cup {act}
             /\ act.n = Cardinality(served) + 1
             /\ act.x = r.x /\ act.kind = r.kind
             /\ act.arrived = r.message
             /\ act.marked = FALSE /\ act.message = m
             /\ Cardinality(served) < MaxServed
        BY <4>1, <4>2, ServeFacts
      <4> QED
        BY <4>3 DEF m
    <3> QED
      BY <2>1, <2>2, <2>4, <3>1
  <2> QED
    BY <2>3, <2>4
<1>4. CASE ServerInterceptor
  <2>1. UNCHANGED <<key, sendSeq, tokens, changes, web, responses, exchanges,
                    results, calm>>
    BY <1>4 DEF ServerInterceptor
  <2>2. PICK r \in requests :
           /\ r.kind = "grpc"
           /\ requests' = requests \ {r}
           /\ Consume("server", r.message)
           /\ Serve(r, FALSE, IF Opens("server", r.message)
                                THEN Plain(r.message.text) ELSE r.message)
    BY <1>4 DEF ServerInterceptor
  <2>3. PICK act \in Acts :
           /\ served' = served \cup {act} /\ running' = running \cup {act}
           /\ act.n = Cardinality(served) + 1
           /\ act.x = r.x /\ act.kind = r.kind
           /\ act.arrived = r.message
           /\ act.message = IF Opens("server", r.message)
                              THEN Plain(r.message.text) ELSE r.message
           /\ Cardinality(served) < MaxServed
    <3> DEFINE m == IF Opens("server", r.message)
                      THEN Plain(r.message.text) ELSE r.message
    <3>1. m \in Messages
      BY <1>1, <1>2
    <3>2. Serve(r, FALSE, m)
      BY <2>2
    <3> HIDE DEF m
    <3>3. PICK act \in Acts :
             /\ served' = served \cup {act} /\ running' = running \cup {act}
             /\ act.n = Cardinality(served) + 1
             /\ act.x = r.x /\ act.kind = r.kind
             /\ act.arrived = r.message
             /\ act.marked = FALSE /\ act.message = m
             /\ Cardinality(served) < MaxServed
      BY <3>1, <3>2, ServeFacts
    <3> QED
      BY <3>3 DEF m
  <2>4. ~Opens("server", r.message) => UNCHANGED receivedPackets
    BY <2>2 DEF TypeInv, Consume, Ends
  <2> QED
    BY <2>1, <2>2, <2>3, <2>4
<1> QED
  BY <1>3, <1>4

(* A handler's answer goes out, unless nobody waits for it any more.       *)
Reply(act, marked, status, m) ==
    [x |-> act.x, n |-> act.n, kind |-> act.kind,
     marked |-> marked, status |-> status, message |-> m]

(* What a handler returns is of the right type.                            *)
LEMMA RespondFacts ==
    ASSUME TypeInv, NEW act \in running, NEW marked \in BOOLEAN,
           NEW status \in Nat, NEW m \in Messages,
           Respond(act, marked, status, m)
    PROVE  /\ running' = running \ {act}
           /\ \/ responses' = responses
              \/ responses' = responses \cup {Reply(act, marked, status, m)}
           /\ Reply(act, marked, status, m) \in Responses
BY DEF TypeInv, Acts, Responses, Respond, Reply

(* What the two sides of the server do after the handler: the answer is    *)
(* sealed, or goes out in the clear.                                       *)
LEMMA RespondEffect ==
    ASSUME TypeInv, WriteBack \/ InterceptorReturn
    PROVE  \E act \in running, r \in Responses :
              /\ running' = running \ {act}
              /\ responses' = responses \/ responses' = responses \cup {r}
              /\ r.x = act.x /\ r.n = act.n /\ r.kind = act.kind
              /\ UNCHANGED <<key, receivedPackets, tokens, changes, web,
                             requests, exchanges, served, results, calm>>
              /\ \/ /\ key["server"] # Nil
                    /\ r.message = Sealed("server", Answer(act.n))
                    /\ r.kind = "http" => r.marked
                    /\ Spend("server")
                 \/ /\ r.message.seal = Nil
                    /\ r.kind = "http"
                         => /\ ~r.marked /\ r.status = Verdict(act)
                            /\ r.message \in {Nothing, Plain(Answer(act.n))}
                    /\ UNCHANGED sendSeq
<1>1. \A act \in running :
         /\ act \in served /\ Answer(act.n) \in Texts
         /\ Plain(Answer(act.n)) \in Messages
         /\ Plain(Answer(act.n)).seal = Nil
         /\ Verdict(act) \in Nat
         /\ key["server"] # Nil
               => Sealed("server", Answer(act.n)) \in Messages
  BY TextFacts, SealedFacts DEF TypeInv, Acts, Verdict, Ends
<1>2. UNCHANGED <<key, receivedPackets, tokens, changes, web, requests,
                  exchanges, served, results, calm>>
  BY DEF WriteBack, InterceptorReturn
<1>3. CASE WriteBack
  <2>1. PICK act \in running :
           /\ act.kind = "http"
           /\ \/ /\ key["server"] # Nil
                 /\ Respond(act, TRUE, 200, Sealed("server", Answer(act.n)))
                 /\ Spend("server")
              \/ /\ key["server"] = Nil
                 /\ Respond(act, FALSE, Verdict(act), Plain(Answer(act.n)))
                 /\ UNCHANGED sendSeq
              \/ /\ Respond(act, FALSE, Verdict(act), Nothing)
                 /\ UNCHANGED sendSeq
    BY <1>3 DEF WriteBack
  <2>2. CASE /\ key["server"] # Nil
             /\ Respond(act, TRUE, 200, Sealed("server", Answer(act.n)))
             /\ Spend("server")
    <3> DEFINE r == Reply(act, TRUE, 200, Sealed("server", Answer(act.n)))
    <3>1. /\ running' = running \ {act}
          /\ responses' = responses \/ responses' = responses \cup {r}
          /\ r \in Responses
      <4>1. Sealed("server", Answer(act.n)) \in Messages
        BY <1>1, <2>2
      <4> DEFINE m == Sealed("server", Answer(act.n))
      <4> HIDE DEF m
      <4> QED
        BY <2>2, <4>1, 200 \in Nat, RespondFacts
    <3>2. /\ r.x = act.x /\ r.n = act.n /\ r.kind = act.kind
          /\ r.marked = TRUE
          /\ r.message = Sealed("server", Answer(act.n))
      BY DEF Reply
    <3> HIDE DEF r
    <3> QED
      BY <1>2, <2>1, <2>2, <3>1, <3>2
  <2>3. ASSUME NEW m \in {Nothing, Plain(Answer(act.n))},
               Respond(act, FALSE, Verdict(act), m), UNCHANGED sendSeq
        PROVE  \E r \in Responses :
                  /\ running' = running \ {act}
                  /\ responses' = responses \/ responses' = responses \cup {r}
                  /\ r.x = act.x /\ r.n = act.n /\ r.kind = act.kind
                  /\ r.message.seal = Nil
                  /\ ~r.marked /\ r.status = Verdict(act)
                  /\ r.message \in {Nothing, Plain(Answer(act.n))}
    <3>1. m \in Messages /\ m.seal = Nil
      BY <1>1, TextFacts
    <3> DEFINE r == Reply(act, FALSE, Verdict(act), m)
    <3>2. /\ running' = running \ {act}
          /\ responses' = responses \/ responses' = responses \cup {r}
          /\ r \in Responses
      BY <1>1, <2>3, <3>1, RespondFacts
    <3>3. /\ r.x = act.x /\ r.n = act.n /\ r.kind = act.kind
          /\ r.marked = FALSE /\ r.status = Verdict(act)
          /\ r.message = m
      BY DEF Reply
    <3> HIDE DEF r
    <3> QED
      BY <3>1, <3>2, <3>3
  <2> QED
    BY <1>2, <2>1, <2>2, <2>3
<1>4. CASE InterceptorReturn
  <2>1. PICK act \in running :
           /\ act.kind = "grpc"
           /\ \/ /\ key["server"] # Nil
                 /\ Respond(act, FALSE, 200, Sealed("server", Answer(act.n)))
                 /\ Spend("server")
              \/ /\ Respond(act, FALSE, 200, Plain(Answer(act.n)))
                 /\ UNCHANGED sendSeq
              \/ Respond(act, FALSE, 500, Failed) /\ UNCHANGED sendSeq
    BY <1>4 DEF InterceptorReturn
  <2>2. CASE /\ key["server"] # Nil
             /\ Respond(act, FALSE, 200, Sealed("server", Answer(act.n)))
             /\ Spend("server")
    <3> DEFINE r == Reply(act, FALSE, 200, Sealed("server", Answer(act.n)))
    <3>1. /\ running' = running \ {act}
          /\ responses' = responses \/ responses' = responses \cup {r}
          /\ r \in Responses
      <4>1. Sealed("server", Answer(act.n)) \in Messages
        BY <1>1, <2>2
      <4> DEFINE m == Sealed("server", Answer(act.n))
      <4> HIDE DEF m
      <4> QED
        BY <2>2, <4>1, 200 \in Nat, RespondFacts
    <3>2. /\ r.x = act.x /\ r.n = act.n /\ r.kind = act.kind
          /\ r.marked = FALSE
          /\ r.message = Sealed("server", Answer(act.n))
      BY DEF Reply
    <3> HIDE DEF r
    <3> QED
      BY <1>2, <2>1, <2>2, <3>1, <3>2
  <2>3. ASSUME NEW status \in Nat, NEW m \in {Failed, Plain(Answer(act.n))},
               Respond(act, FALSE, status, m), UNCHANGED sendSeq
        PROVE  \E r \in Responses :
                  /\ running' = running \ {act}
                  /\ responses' = responses \/ responses' = responses \cup {r}
                  /\ r.x = act.x /\ r.n = act.n /\ r.kind = "grpc"
                  /\ r.message.seal = Nil
    <3>1. m \in Messages /\ m.seal = Nil
      BY <1>1, TextFacts
    <3> DEFINE r == Reply(act, FALSE, status, m)
    <3>2. /\ running' = running \ {act}
          /\ responses' = responses \/ responses' = responses \cup {r}
          /\ r \in Responses
      BY <1>1, <2>3, <3>1, RespondFacts
    <3>3. /\ r.x = act.x /\ r.n = act.n /\ r.kind = act.kind
          /\ r.marked = FALSE /\ r.status = status
          /\ r.message = m
      BY DEF Reply
    <3> HIDE DEF r
    <3> QED
      BY <2>1, <3>1, <3>2, <3>3
  <2>4. CASE /\ Respond(act, FALSE, 200, Plain(Answer(act.n)))
             /\ UNCHANGED sendSeq
    <3>1. PICK r \in Responses :
             /\ running' = running \ {act}
             /\ responses' = responses \/ responses' = responses \cup {r}
             /\ r.x = act.x /\ r.n = act.n /\ r.kind = "grpc"
             /\ r.message.seal = Nil
      <4>1. /\ 200 \in Nat
            /\ Plain(Answer(act.n)) \in {Failed, Plain(Answer(act.n))}
        OBVIOUS
      <4> QED
        BY <2>3, <2>4, <4>1, Zenon
    <3> QED
      BY <1>2, <2>1, <2>4, <3>1
  <2>5. CASE Respond(act, FALSE, 500, Failed) /\ UNCHANGED sendSeq
    <3>1. PICK r \in Responses :
             /\ running' = running \ {act}
             /\ responses' = responses \/ responses' = responses \cup {r}
             /\ r.x = act.x /\ r.n = act.n /\ r.kind = "grpc"
             /\ r.message.seal = Nil
      <4>1. 500 \in Nat /\ Failed \in {Failed, Plain(Answer(act.n))}
        OBVIOUS
      <4> QED
        BY <2>3, <2>5, <4>1, Zenon
    <3> QED
      BY <1>2, <2>1, <2>5, <3>1
  <2> QED
    BY <2>1, <2>2, <2>4, <2>5
<1> QED
  BY <1>3, <1>4

(* What the client does with a response: it returns the plaintext of what  *)
(* opens; of HTTP an error for a packet that does not; and otherwise what  *)
(* came.                                                                   *)
LEMMA ReadEffect ==
    ASSUME TypeInv, DecryptResponse \/ InvokeReturn
    PROVE  \E r \in responses, o \in Responses :
              /\ Settle(r.x)
              /\ results' = results \cup {o}
              /\ o.x = r.x /\ o.n = r.n /\ o.kind = r.kind
              /\ o.marked = r.marked /\ o.status = r.status
              /\ UNCHANGED <<key, sendSeq, tokens, changes, web, requests,
                             running, exchanges, served, calm>>
              /\ \/ /\ Opens("client", r.message)
                    /\ r.kind = "http" => r.marked
                    /\ o.message = Plain(r.message.text)
                    /\ Consume("client", r.message)
                 \/ /\ ~Opens("client", r.message)
                    /\ IF r.kind = "http" THEN r.marked /\ o.message = Failed
                                          ELSE o.message = r.message
                    /\ UNCHANGED receivedPackets
                 \/ /\ r.kind = "http" /\ ~r.marked
                    /\ o.message = r.message
                    /\ UNCHANGED receivedPackets
<1>1. \A r \in responses :
         /\ r \in Responses /\ r.message \in Messages
         /\ Plain(r.message.text) \in Messages
  BY TextFacts DEF TypeInv, Responses, Messages
<1>2. UNCHANGED <<key, sendSeq, tokens, changes, web, requests, running,
                  exchanges, served, calm>>
  BY DEF DecryptResponse, InvokeReturn
<1>3. ASSUME NEW r \in responses, ~Opens("client", r.message),
             Consume("client", r.message)
      PROVE  UNCHANGED receivedPackets
  BY <1>3 DEF TypeInv, Consume, Ends
<1>4. CASE DecryptResponse
  <2>1. PICK r \in responses :
           /\ r.kind = "http"
           /\ Settle(r.x)
           /\ IF r.marked
                THEN /\ Consume("client", r.message)
                     /\ Returned(r, IF Opens("client", r.message)
                                      THEN Plain(r.message.text) ELSE Failed)
                ELSE /\ Returned(r, r.message)
                     /\ UNCHANGED receivedPackets
    BY <1>4 DEF DecryptResponse
  <2> DEFINE m == IF ~r.marked THEN r.message
                  ELSE IF Opens("client", r.message)
                         THEN Plain(r.message.text) ELSE Failed
  <2>2. m \in Messages /\ Returned(r, m)
    BY <1>1, <2>1, TextFacts
  <2> HIDE DEF m
  <2>3. PICK o \in Responses :
           /\ results' = results \cup {o}
           /\ o.x = r.x /\ o.n = r.n /\ o.kind = r.kind
           /\ o.marked = r.marked /\ o.status = r.status
           /\ o.message = m
    BY <1>1, <2>2, ReturnedFacts
  <2> QED
    BY <1>2, <1>3, <2>1, <2>3 DEF m
<1>5. CASE InvokeReturn
  <2>1. PICK r \in responses :
           /\ r.kind = "grpc"
           /\ Settle(r.x)
           /\ Consume("client", r.message)
           /\ Returned(r, IF Opens("client", r.message)
                            THEN Plain(r.message.text) ELSE r.message)
    BY <1>5 DEF InvokeReturn
  <2> DEFINE m == IF Opens("client", r.message)
                    THEN Plain(r.message.text) ELSE r.message
  <2>2. m \in Messages /\ Returned(r, m)
    BY <1>1, <2>1
  <2> HIDE DEF m
  <2>3. PICK o \in Responses :
           /\ results' = results \cup {o}
           /\ o.x = r.x /\ o.n = r.n /\ o.kind = r.kind
           /\ o.marked = r.marked /\ o.status = r.status
           /\ o.message = m
    BY <1>1, <2>2, ReturnedFacts
  <2> QED
    BY <1>2, <1>3, <2>1, <2>3 DEF m
<1> QED
  BY <1>4, <1>5

(* The other actions, with what they seal or take from the network.        *)
LEMMA RekeyEffect ==
    ASSUME TypeInv, Rekey
    PROVE  /\ key["client"] # Nil
           /\ key' \in [Ends -> Nat \cup {Nil}]
           /\ \E n \in Nat :
                 tokens' = tokens \cup {Sealed("client", Token(n))}
           /\ Spend("client")
           /\ key'["server"] = key["server"]
<1>1. /\ key["client"] # Nil /\ key["client"] \in Nat
      /\ key' = [key EXCEPT !["client"] = @ + 1]
  BY DEF TypeInv, Rekey, Ends
<1>2. /\ key' \in [Ends -> Nat \cup {Nil}]
      /\ key'["server"] = key["server"]
  BY <1>1, key["client"] + 1 \in Nat DEF TypeInv, Ends
<1> QED
  BY <1>1, <1>2 DEF Rekey

(* The server applies a token it can open, and holds keys when it does.    *)
LEMMA ApplyEffect ==
    ASSUME TypeInv, ApplyRekey
    PROVE  \E m \in tokens :
              /\ Opens("server", m) /\ Consume("server", m)
              /\ m \in Messages
              /\ key' \in [Ends -> Nat \cup {Nil}]
              /\ key["server"] # Nil
<1>1. PICK m \in tokens : Opens("server", m) /\ Consume("server", m)
  BY DEF ApplyRekey
<1>2. m \in Messages
  BY TextFacts DEF TypeInv
<1>3. key["server"] \in Nat
  BY <1>1, <1>2, OpensFacts DEF Ends
<1>4. key' \in [Ends -> Nat \cup {Nil}]
  BY <1>3, key["server"] + 1 \in Nat DEF TypeInv, ApplyRekey, Ends
<1> QED
  BY <1>1, <1>2, <1>4 DEF Opens

(* A request is sent again, with a body that cannot be read.               *)
LEMMA ResendEffect ==
    ASSUME TypeInv, Resend
    PROVE  \E r \in requests, q \in Requests :
              /\ requests' = requests \cup {q}
              /\ q.x = r.x /\ q.kind = r.kind /\ q.marked = r.marked
              /\ q.message = Nothing
<1>1. PICK r \in requests :
         requests' = requests \cup {[r EXCEPT !.message = Nothing]}
  BY DEF Resend
<1> DEFINE q == [r EXCEPT !.message = Nothing]
<1>2. r \in Requests /\ Nothing \in Messages
  BY TextFacts DEF TypeInv
<1>3. /\ q \in Requests
      /\ q.x = r.x /\ q.kind = r.kind /\ q.marked = r.marked
      /\ q.message = Nothing
  BY <1>2 DEF Requests
<1> HIDE DEF q
<1>4. requests' = requests \cup {q}
  BY <1>1 DEF q
<1> QED
  BY <1>3, <1>4
-----------------------------------------------------------------------------
(* The actions by what they have in common; stuttering left out.           *)
LEMMA NextCases ==
    ASSUME [Next]_vars
    PROVE  \/ Rekey \/ ApplyRekey \/ (\E e \in Ends : Dispose(e))
           \/ (EncryptRequest \/ Invoke) \/ Resend
           \/ (Middleware \/ ServerInterceptor)
           \/ (WriteBack \/ InterceptorReturn)
           \/ (DecryptResponse \/ InvokeReturn)
           \/ Send \/ Write \/ OnDecrypted \/ OnMessage
           \/ UNCHANGED vars
BY DEF Next

(* The head of what is on the socket. *)
LEMMA SocketFacts ==
    ASSUME TypeInv, socket # <<>>
    PROVE  /\ Head(socket) \in Packets /\ Head(socket) \in Messages
           /\ Head(socket) = socket[1] /\ 1 \in DOMAIN socket
           /\ Tail(socket) \in Seq(Packets)
           /\ Len(Tail(socket)) = Len(socket) - 1
           /\ \A i \in 1 .. Len(socket) - 1 : Tail(socket)[i] = socket[i + 1]
BY HeadTailProperties, TextFacts DEF TypeInv

(* Every action keeps the types.                                           *)
LEMMA TypeStep == TypeInv /\ [Next]_vars => TypeInv'
<1> SUFFICES ASSUME TypeInv, [Next]_vars PROVE TypeInv'
  OBVIOUS
<1>1. CASE Rekey
  <2>1. PICK n \in Nat : tokens' = tokens \cup {Sealed("client", Token(n))}
    BY <1>1, RekeyEffect
  <2>2. Sealed("client", Token(n)) \in Packets
    BY <1>1, <2>1, RekeyEffect, TextFacts, SealedFacts DEF Ends
  <2>3. sendSeq' \in [Ends -> Seqs]
    BY <1>1, RekeyEffect, SpendFacts DEF Ends
  <2>4. key' \in [Ends -> Nat \cup {Nil}] /\ changes' \in Nat
    BY <1>1, RekeyEffect DEF TypeInv, Rekey, Change
  <2>5. UNCHANGED <<receivedPackets, web, rpc>>
    BY <1>1 DEF Rekey
  <2> QED
    BY <2>1, <2>2, <2>3, <2>4, <2>5 DEF TypeInv, web, rpc
<1>2. CASE ApplyRekey
  <2>1. receivedPackets' \in [Ends -> SUBSET Seqs]
    BY <1>2, ApplyEffect, ConsumeFacts DEF Ends
  <2>2. key' \in [Ends -> Nat \cup {Nil}] /\ changes' \in Nat
    BY <1>2, ApplyEffect DEF TypeInv, ApplyRekey, Change
  <2>3. UNCHANGED <<sendSeq, tokens, web, rpc>>
    BY <1>2 DEF ApplyRekey
  <2> QED
    BY <2>1, <2>2, <2>3 DEF TypeInv, web, rpc
<1>3. CASE \E e \in Ends : Dispose(e)
  <2>1. /\ receivedPackets' \in [Ends -> SUBSET Seqs]
        /\ key' \in [Ends -> Nat \cup {Nil}] /\ changes' \in Nat
    BY <1>3 DEF TypeInv, Dispose, Change
  <2>2. UNCHANGED <<sendSeq, tokens, web, rpc>>
    BY <1>3 DEF Dispose
  <2> QED
    BY <2>1, <2>2 DEF TypeInv, web, rpc
<1>4. CASE EncryptRequest \/ Invoke
  <2>1. /\ exchanges' \in Nat
        /\ exchanges' \in 1 .. exchanges'
        /\ 1 .. exchanges \subseteq 1 .. exchanges'
        /\ UNCHANGED <<key, receivedPackets, tokens, changes, web, running,
                       responses, served>>
    BY <1>4, BeginEffect DEF TypeInv
  <2>2. sendSeq' \in [Ends -> Seqs]
    <3>1. UNCHANGED sendSeq \/ Spend("client")
      BY <1>4, BeginEffect
    <3> QED
      BY <3>1, SpendFacts DEF TypeInv, Ends
  <2>3. /\ requests' \subseteq Requests
        /\ \A r \in requests' : r \in requests \/ r.x = exchanges'
    BY <1>4, BeginEffect DEF TypeInv
  <2>4. /\ results' \subseteq Responses
        /\ \A r \in results' : r \in results \/ r.x = exchanges'
    BY <1>4, BeginEffect DEF TypeInv
  <2> QED
    BY <2>1, <2>2, <2>3, <2>4 DEF TypeInv, web
<1>5. CASE Resend
  <2>1. UNCHANGED <<session, web, running, responses, exchanges, served,
                    results, calm>>
    BY <1>5 DEF Resend
  <2> QED
    BY <1>5, <2>1, ResendEffect DEF TypeInv, session, web
<1>6. CASE Middleware \/ ServerInterceptor
  <2>1. PICK r \in requests, act \in Acts :
           /\ served' = served \cup {act} /\ running' = running \cup {act}
           /\ act.x = r.x
           /\ requests' \subseteq requests
           /\ UNCHANGED <<key, sendSeq, tokens, changes, web, responses,
                          exchanges, results, calm>>
           /\ UNCHANGED receivedPackets \/ Consume("server", r.message)
    BY <1>6, ServeEffect
  <2>2. r.message \in Messages
    BY DEF TypeInv, Requests
  <2>3. receivedPackets' \in [Ends -> SUBSET Seqs]
    BY <2>1, <2>2, ConsumeFacts DEF TypeInv, Ends
  <2>4. IsFiniteSet(served')
    BY <2>1, FS_AddElement DEF TypeInv
  <2> QED
    BY <2>1, <2>3, <2>4 DEF TypeInv, web
<1>7. CASE WriteBack \/ InterceptorReturn
  <2>1. PICK act \in running, r \in Responses :
           /\ running' = running \ {act}
           /\ responses' = responses \/ responses' = responses \cup {r}
           /\ r.x = act.x
           /\ UNCHANGED <<key, receivedPackets, tokens, changes, web,
                          requests, exchanges, served, results, calm>>
           /\ UNCHANGED sendSeq \/ Spend("server")
    BY <1>7, RespondEffect
  <2>2. sendSeq' \in [Ends -> Seqs]
    BY <2>1, SpendFacts DEF TypeInv, Ends
  <2> QED
    BY <2>1, <2>2 DEF TypeInv, web
<1>8. CASE DecryptResponse \/ InvokeReturn
  <2>1. PICK r \in responses, o \in Responses :
           /\ Settle(r.x)
           /\ results' = results \cup {o}
           /\ o.x = r.x
           /\ UNCHANGED <<key, sendSeq, tokens, changes, web, requests,
                          running, exchanges, served, calm>>
           /\ UNCHANGED receivedPackets \/ Consume("client", r.message)
    BY <1>8, ReadEffect
  <2>2. r.message \in Messages
    BY DEF TypeInv, Responses
  <2>3. receivedPackets' \in [Ends -> SUBSET Seqs]
    BY <2>1, <2>2, ConsumeFacts DEF TypeInv, Ends
  <2> QED
    BY <2>1, <2>3 DEF TypeInv, web, Settle
<1>9. CASE Send
  <2>1. Sealed("client", Message(sent + 1)) \in Packets
    BY <1>9, TextFacts, SealedFacts DEF TypeInv, Send, Ends
  <2>2. sendSeq' \in [Ends -> Seqs]
    BY <1>9, SpendFacts DEF Send, Ends
  <2> QED
    BY <1>9, <2>1, <2>2 DEF TypeInv, Send, rpc
<1>10. CASE Write
  <2>1. PICK m \in outbox : /\ outbox' = outbox \ {m}
                            /\ socket' = Append(socket, m)
                            /\ written' = Append(written, m.text)
    BY <1>10 DEF Write
  <2>2. m \in Packets /\ m.text \in Texts
    BY DEF TypeInv, Packets
  <2>3. socket' \in Seq(Packets) /\ written' \in Seq(Texts)
    BY <2>1, <2>2, AppendProperties DEF TypeInv
  <2>4. UNCHANGED <<session, heard, sent, rpc, calm>>
    BY <1>10 DEF Write
  <2> QED
    BY <2>1, <2>3, <2>4 DEF TypeInv, session, rpc
<1>11. CASE OnDecrypted
  <2>1. heard' \in Seq(Seq(Texts))
    BY <1>11, AppendProperties, EmptySeq DEF TypeInv, OnDecrypted
  <2> QED
    BY <1>11, <2>1 DEF TypeInv, OnDecrypted, session, rpc
<1>12. CASE OnMessage
  <2>1. /\ socket' \in Seq(Packets)
        /\ Head(socket).text \in Texts
        /\ Head(socket) \in Messages
    BY <1>12, SocketFacts DEF OnMessage, Messages
  <2>2. receivedPackets' \in [Ends -> SUBSET Seqs]
    BY <1>12, <2>1, ConsumeFacts DEF OnMessage, Ends
  <2>3. heard' \in Seq(Seq(Texts))
    <3> DEFINE longer == [h \in DOMAIN heard |->
                            Append(heard[h], Head(socket).text)]
    <3>1. \A h \in DOMAIN heard :
             Append(heard[h], Head(socket).text) \in Seq(Texts)
      BY <2>1, AppendProperties DEF TypeInv
    <3>2. DOMAIN heard = 1 .. Len(heard) /\ Len(heard) \in Nat
      BY DEF TypeInv
    <3>3. longer \in [1 .. Len(heard) -> Seq(Texts)]
      BY <3>1, <3>2
    <3>4. longer \in Seq(Seq(Texts))
      BY <3>2, <3>3, IsASeq
    <3> QED
      BY <1>12, <3>4 DEF TypeInv, OnMessage
  <2>4. UNCHANGED <<key, sendSeq, tokens, changes, outbox, sent, written, rpc,
                    calm>>
    BY <1>12 DEF OnMessage
  <2> QED
    BY <2>1, <2>2, <2>3, <2>4 DEF TypeInv, rpc
<1>13. CASE UNCHANGED vars
  BY <1>13 DEF TypeInv, vars, session, web, rpc
<1> QED
  BY <1>1, <1>2, <1>3, <1>4, <1>5, <1>6, <1>7, <1>8, <1>9, <1>10, <1>11,
     <1>12, <1>13, NextCases

(* The types hold throughout.                                              *)
LEMMA TypeHolds == Spec => []TypeInv
BY TypeInit, TypeStep, PTL DEF Spec

(* The wrappers keep their types: whatever travels is a text, in the clear *)
(* or in a packet of one of the ends, and what returned was begun.         *)
THEOREM TypeCorrect == Spec => []TypeOK
<1>1. TypeInv => TypeOK
  <2> SUFFICES ASSUME TypeInv PROVE TypeOK
    OBVIOUS
  <2>1. \A i \in DOMAIN socket : socket[i] \in Packets
    BY DEF TypeInv
  <2> QED
    BY <2>1 DEF TypeInv, TypeOK, Packets, Messages, Requests, Responses
<1> QED
  BY TypeHolds, <1>1, PTL
-----------------------------------------------------------------------------
(* Messages of different kinds differ. *)
LEMMA KindsDiffer ==
    ASSUME NEW n \in Nat, NEW k \in Nat
    PROVE  /\ Nothing # Plain(Request(n)) /\ Nothing # Plain(Answer(n))
           /\ Failed # Plain(Answer(n)) /\ Failed # Nothing
           /\ Request(n) # Token(k) /\ Request(n) # Message(k)
           /\ Token(n) # Message(k)
           /\ Request(n) = Request(k) => n = k
           /\ Message(n) = Message(k) => n = k
           /\ Token(n)[1] = "token" /\ Request(n)[1] = "request"
           /\ Message(n)[1] = "message"
BY DEF Nothing, Failed, Plain, Request, Answer, Token, Message

(* The actions that touch neither requests nor handlers.                   *)
LEMMA FaithfulElse ==
    ASSUME Faithful, UNCHANGED <<requests, served>>
    PROVE  Faithful'
BY DEF Faithful, Understood

(* Faithful needs nothing but the types.                                   *)
LEMMA FaithfulStep == TypeInv /\ Faithful /\ [Next]_vars => Faithful'
<1> SUFFICES ASSUME TypeInv, Faithful, [Next]_vars PROVE Faithful'
  OBVIOUS
<1>1. CASE EncryptRequest \/ Invoke
  <2>1. exchanges' \in Nat /\ exchanges' = exchanges + 1 /\ served' = served
    BY <1>1, BeginEffect DEF TypeInv
  <2>2. \A r \in requests' :
           \/ r \in requests
           \/ r.x = exchanges' /\ r.message = Nothing
           \/ /\ r.x = exchanges'
              /\ r.kind = "http" => r.marked
              /\ key["client"] # Nil
              /\ r.message = Sealed("client", Request(exchanges'))
    BY <1>1, BeginEffect
  <2>3. key["client"] # Nil
           => /\ Sealed("client", Request(exchanges')).seal # Nil
              /\ Sealed("client", Request(exchanges')).text
                    = Request(exchanges')
    BY <2>1, TextFacts, SealedFacts DEF Ends
  <2> QED
    BY <2>1, <2>2, <2>3 DEF Faithful, Understood
<1>2. CASE Resend
  BY <1>2, ResendEffect DEF Faithful, Understood, Resend
<1>3. CASE Middleware \/ ServerInterceptor
  <2>1. PICK r \in requests, act \in Acts :
           /\ served' = served \cup {act}
           /\ act.x = r.x /\ act.kind = r.kind
           /\ requests' \subseteq requests
           /\ \/ /\ Opens("server", r.message)
                 /\ act.message = Plain(r.message.text)
                 /\ r.kind = "http" => act.marked
              \/ /\ act.message = IF r.kind = "http" /\ r.marked
                                    THEN Nothing ELSE r.message
                 /\ r.kind = "http" => ~act.marked
    BY <1>3, ServeEffect
  <2>2. r.x \in Nat
    BY DEF TypeInv, Requests
  <2>3. act.kind = "http"
            => IF act.marked THEN Understood(act) ELSE act.message = Nothing
    <3>1. CASE /\ Opens("server", r.message)
               /\ act.message = Plain(r.message.text)
               /\ r.kind = "http" => act.marked
      <4>1. r.message.seal # Nil
        BY <3>1 DEF Opens
      <4>2. r.message.text = Request(r.x)
        BY <4>1, TextFacts DEF Faithful
      <4> QED
        BY <2>1, <3>1, <4>2 DEF Understood
    <3>2. CASE /\ act.message = IF r.kind = "http" /\ r.marked
                                  THEN Nothing ELSE r.message
               /\ r.kind = "http" => ~act.marked
      BY <2>1, <3>2 DEF Faithful
    <3> QED
      BY <2>1, <3>1, <3>2
  <2> QED
    BY <2>1, <2>3 DEF Faithful, Understood
<1>4. ASSUME ~(EncryptRequest \/ Invoke), ~Resend,
             ~(Middleware \/ ServerInterceptor)
      PROVE  UNCHANGED <<requests, served>>
  BY <1>4, NextCases
     DEF Rekey, ApplyRekey, Dispose, WriteBack, InterceptorReturn,
         DecryptResponse, InvokeReturn, Send, Write, OnDecrypted, OnMessage,
         vars, rpc
<1> QED
  BY <1>1, <1>2, <1>3, <1>4, FaithfulElse

(* The actions that touch neither responses nor results.                   *)
LEMMA AnswersElse ==
    ASSUME Answers, served \subseteq served',
           UNCHANGED <<responses, results>>
    PROVE  Answers'
BY DEF Answers, AnswersIntact, Verdict, Understood

(* Neither do the answers.                                                 *)
LEMMA AnswersStep == TypeInv /\ Answers /\ [Next]_vars => Answers'
<1> SUFFICES ASSUME TypeInv, Answers, [Next]_vars PROVE Answers'
  OBVIOUS
<1>1. CASE EncryptRequest \/ Invoke
  <2>1. /\ responses' = responses /\ served' = served
        /\ \A o \in results' : o \in results
                               \/ o.message = Failed \/ o.kind = "none"
    BY <1>1, BeginEffect
  <2>2. \A o \in results' :
           o \in results \/ o.kind # "http" \/ o.message = Failed
    BY <2>1
  <2> QED
    BY <2>1, <2>2 DEF Answers, AnswersIntact, Verdict, Understood
<1>2. CASE WriteBack \/ InterceptorReturn
  <2>1. PICK act \in running, r \in Responses :
              /\ responses' = responses \/ responses' = responses \cup {r}
              /\ r.x = act.x /\ r.n = act.n /\ r.kind = act.kind
              /\ UNCHANGED <<served, results>>
              /\ \/ /\ key["server"] # Nil
                    /\ r.message = Sealed("server", Answer(act.n))
                    /\ r.kind = "http" => r.marked
                 \/ /\ r.message.seal = Nil
                    /\ r.kind = "http"
                         => /\ ~r.marked /\ r.status = Verdict(act)
                            /\ r.message \in {Nothing, Plain(Answer(act.n))}
    BY <1>2, RespondEffect
  <2>2. act \in served /\ act.n \in Nat
    BY DEF TypeInv, Acts
  <2>3. r.kind = "http"
            => /\ act.n = r.n /\ act.x = r.x
               /\ IF r.marked
                    THEN /\ r.message.seal # Nil
                         /\ r.message.text = Answer(act.n)
                    ELSE /\ r.message \in {Nothing, Plain(Answer(act.n))}
                         /\ r.status = Verdict(act)
    BY <2>1, <2>2, TextFacts, SealedFacts DEF Ends
  <2> QED
    BY <2>1, <2>2, <2>3 DEF Answers, AnswersIntact, Verdict, Understood
<1>3. CASE DecryptResponse \/ InvokeReturn
  <2>1. PICK r \in responses, o \in Responses :
              /\ Settle(r.x)
              /\ results' = results \cup {o}
              /\ o.x = r.x /\ o.n = r.n /\ o.kind = r.kind
              /\ o.marked = r.marked /\ o.status = r.status
              /\ served' = served
              /\ \/ /\ Opens("client", r.message)
                    /\ r.kind = "http" => r.marked
                    /\ o.message = Plain(r.message.text)
                 \/ /\ IF r.kind = "http" THEN r.marked /\ o.message = Failed
                                          ELSE o.message = r.message
                 \/ /\ r.kind = "http" /\ ~r.marked
                    /\ o.message = r.message
    BY <1>3, ReadEffect
  <2>2. responses' \subseteq responses
    BY <2>1 DEF Settle
  <2>3. o.kind = "http" /\ o.message # Failed
            => \E a \in served :
                  /\ a.n = o.n /\ a.x = o.x
                  /\ o.message \in {Nothing, Plain(Answer(a.n))}
                  /\ o.marked \/ o.status = Verdict(a)
    <3> SUFFICES ASSUME o.kind = "http", o.message # Failed
                 PROVE  \E a \in served :
                           /\ a.n = o.n /\ a.x = o.x
                           /\ o.message \in {Nothing, Plain(Answer(a.n))}
                           /\ o.marked \/ o.status = Verdict(a)
      OBVIOUS
    <3>1. PICK a \in served :
             /\ a.n = r.n /\ a.x = r.x
             /\ IF r.marked
                  THEN /\ r.message.seal # Nil
                       /\ r.message.text = Answer(a.n)
                  ELSE /\ r.message \in {Nothing, Plain(Answer(a.n))}
                       /\ r.status = Verdict(a)
      BY <2>1 DEF Answers
    <3>2. CASE r.marked
      BY <2>1, <3>1, <3>2
    <3>3. CASE ~r.marked
      BY <2>1, <3>1, <3>3
    <3> QED
      BY <3>2, <3>3
  <2> QED
    BY <2>1, <2>2, <2>3 DEF Answers, AnswersIntact, Verdict, Understood
<1>4. ASSUME ~(EncryptRequest \/ Invoke), ~(WriteBack \/ InterceptorReturn),
             ~(DecryptResponse \/ InvokeReturn)
      PROVE  served \subseteq served' /\ UNCHANGED <<responses, results>>
  BY <1>4, NextCases, ServeEffect
     DEF Rekey, ApplyRekey, Dispose, Resend, Send, Write, OnDecrypted,
         OnMessage, vars, rpc
<1> QED
  BY <1>1, <1>2, <1>3, <1>4, AnswersElse

(* Whatever DecryptResponse returns without an error is what a handler     *)
(* wrote for the exchange, or nothing, whoever lost its keys meanwhile.    *)
THEOREM AnswersAreIntact == Spec => []AnswersIntact
<1>1. Init => Answers
  BY DEF Init, Answers, AnswersIntact
<1>2. Answers => AnswersIntact
  BY DEF Answers
<1> QED
  BY <1>1, <1>2, TypeHolds, AnswersStep, PTL DEF Spec
-----------------------------------------------------------------------------
(* The bounds are numbers.                                                 *)
LEMMA Bounds ==
    /\ MaxUses \in Nat /\ MaxServed \in Nat /\ MaxChanges \in Nat
    /\ SeqMod \in Nat /\ MaxPacketWindow \in Nat
BY BoundsAssumption, SeqModAssumption, MaxPacketWindowAssumption

(* Two numbers for an exchange are more than enough. *)
LEMMA UsesSum ==
    ASSUME NEW x \in Nat, NEW s \in Nat, NEW c \in Nat, NEW n \in Nat,
           NEW x1 \in Nat, NEW s1 \in Nat, NEW c1 \in Nat,
           NEW M \in Nat, NEW C \in Nat,
           n <= x + s + c, x1 + s1 + c1 = x + s + c + 1,
           2 * x1 + s1 <= M, c1 <= C
    PROVE  n + 1 <= x1 + s1 + c1 /\ n + 1 <= M + C
OBVIOUS

(* An end that has a packet to seal has a number left.                     *)
LEMMA ClientRoom ==
    ASSUME NoWrap, TypeInv, ClientCount,
           Rekey \/ (EncryptRequest \/ Invoke) \/ Send
    PROVE  /\ sendSeq["client"] + 1 < SeqMod
           /\ sendSeq["client"] + 1 <= exchanges' + sent' + changes'
           /\ 2 * exchanges' + sent' <= MaxUses
           /\ changes' <= MaxChanges
<1>1. /\ sendSeq["client"] \in Nat
      /\ exchanges \in Nat /\ sent \in Nat /\ changes \in Nat
  BY SeqModAssumption DEF TypeInv, Seqs, Ends
<1>2. /\ exchanges' \in Nat /\ sent' \in Nat /\ changes' \in Nat
      /\ exchanges' + sent' + changes' = exchanges + sent + changes + 1
      /\ 2 * exchanges' + sent' <= MaxUses
      /\ changes' <= MaxChanges
  <2>1. CASE Rekey
    BY <1>1, <2>1, Bounds DEF Rekey, Change, ClientCount, web, rpc
  <2>2. CASE EncryptRequest \/ Invoke
    BY <1>1, <2>2, Bounds, BeginEffect DEF ClientCount, web
  <2>3. CASE Send
    BY <1>1, <2>3, Bounds DEF Send, ClientCount, rpc
  <2> QED
    BY <2>1, <2>2, <2>3
<1>3. sendSeq["client"] <= exchanges + sent + changes
  BY DEF ClientCount
<1>4. /\ sendSeq["client"] + 1 <= exchanges' + sent' + changes'
      /\ sendSeq["client"] + 1 <= MaxUses + MaxChanges
  <2> DEFINE n == sendSeq["client"]
  <2> HIDE DEF n
  <2>1. n + 1 <= exchanges' + sent' + changes' /\ n + 1 <= MaxUses + MaxChanges
    <3>1. n \in Nat /\ n <= exchanges + sent + changes
      BY <1>1, <1>3 DEF n
    <3>2. MaxUses \in Nat /\ MaxChanges \in Nat
      BY Bounds
    <3> HIDE <1>1, <1>3
    <3> QED
      BY <1>1, <1>2, <3>1, <3>2, UsesSum
  <2> QED
    BY <2>1 DEF n
<1>5. \A n \in Nat : n + 1 <= MaxUses + MaxChanges => n + 1 < SeqMod
  BY Bounds DEF NoWrap
<1> QED
  BY <1>1, <1>2, <1>4, <1>5

(* A handler that returns has a number left: a call uses one at most.      *)
LEMMA ServerRoom ==
    ASSUME NoWrap, TypeInv, ServerCount, NEW act \in running
    PROVE  /\ sendSeq["server"] + 1 < SeqMod
           /\ \A R : R = running \ {act}
                => sendSeq["server"] + 1 <= Cardinality(served \ R)
<1>1. sendSeq["server"] \in Nat
  BY SeqModAssumption DEF TypeInv, Seqs, Ends
<1> DEFINE done == served \ running
<1>2. IsFiniteSet(done) /\ act \notin done
  BY FS_Difference DEF TypeInv
<1>3. /\ Cardinality(done \cup {act}) = Cardinality(done) + 1
      /\ IsFiniteSet(done \cup {act})
      /\ Cardinality(done) \in Nat
  BY <1>2, FS_AddElement, FS_CardinalityType
<1>4. done \cup {act} = served \ (running \ {act})
  BY DEF TypeInv
<1>5. /\ Cardinality(done \cup {act}) <= Cardinality(served)
      /\ Cardinality(served) \in Nat
  BY <1>4, FS_Subset, FS_CardinalityType DEF TypeInv
<1>6. sendSeq["server"] <= Cardinality(done) /\ Cardinality(served) < SeqMod
  BY <1>5, Bounds DEF NoWrap, ServerCount
<1> HIDE DEF done
<1>7. sendSeq["server"] + 1 <= Cardinality(done \cup {act})
  BY <1>1, <1>3, <1>6
<1> QED
  BY <1>1, <1>3, <1>4, <1>5, <1>6, <1>7, Bounds

(* A handler that is called has a number of its own.                       *)
LEMMA ServedGrows ==
    ASSUME TypeInv, ServerCount, Middleware \/ ServerInterceptor
    PROVE  /\ Cardinality(served') = Cardinality(served) + 1
           /\ Cardinality(served) < MaxServed
           /\ \E act \in Acts \ served :
                 /\ served' = served \cup {act}
                 /\ running' = running \cup {act}
                 /\ act.n = Cardinality(served) + 1
           /\ sendSeq' = sendSeq
<1>1. PICK act \in Acts :
         /\ served' = served \cup {act} /\ running' = running \cup {act}
         /\ act.n = Cardinality(served) + 1
         /\ Cardinality(served) < MaxServed
         /\ sendSeq' = sendSeq
  BY ServeEffect
<1>2. Cardinality(served) \in Nat
  BY FS_CardinalityType DEF TypeInv
<1>3. act \notin served
  BY <1>1, <1>2 DEF ServerCount
<1> QED
  BY <1>1, <1>3, FS_AddElement DEF TypeInv

(* How far either end can have counted.                                    *)
Counts == ClientCount /\ ServerCount

(* No end has used a number at first.                                      *)
LEMMA CountsInit == Init => Counts
<1> SUFFICES ASSUME Init PROVE Counts
  OBVIOUS
<1>1. Cardinality({}) = 0
  BY FS_EmptySet
<1> QED
  BY <1>1, Bounds DEF Init, Counts, ClientCount, ServerCount, Ends

(* Every use of a number is an exchange, a message, a change of keys or a  *)
(* call of a handler.                                                      *)
LEMMA CountsStep ==
    ASSUME NoWrap
    PROVE  TypeInv /\ Counts /\ [Next]_vars => Counts'
<1> SUFFICES ASSUME TypeInv, ClientCount, ServerCount, [Next]_vars
             PROVE  ClientCount' /\ ServerCount'
  BY DEF Counts
<1>1. CASE Rekey \/ (EncryptRequest \/ Invoke) \/ Send
  <2>1. /\ sendSeq["client"] + 1 < SeqMod
        /\ sendSeq["client"] + 1 <= exchanges' + sent' + changes'
        /\ 2 * exchanges' + sent' <= MaxUses
        /\ changes' <= MaxChanges
    BY <1>1, ClientRoom
  <2>2. UNCHANGED sendSeq \/ Spend("client")
    BY <1>1, BeginEffect DEF Rekey, Send
  <2>3. /\ sendSeq'["server"] = sendSeq["server"]
        /\ sendSeq'["client"] <= sendSeq["client"] + 1
        /\ sendSeq'["client"] \in Nat /\ sendSeq["client"] \in Nat
    BY <2>1, <2>2, SpendFacts, SeqModAssumption DEF TypeInv, Ends, Seqs
  <2>4. UNCHANGED <<served, running>>
    BY <1>1, BeginEffect DEF Rekey, Send, rpc
  <2>5. exchanges' \in Nat /\ sent' \in Nat /\ changes' \in Nat
    BY TypeStep DEF TypeInv
  <2> QED
    BY <2>1, <2>3, <2>4, <2>5 DEF ClientCount, ServerCount
<1>2. CASE Middleware \/ ServerInterceptor
  <2>1. /\ Cardinality(served') = Cardinality(served) + 1
        /\ Cardinality(served) < MaxServed
        /\ sendSeq' = sendSeq
        /\ Cardinality(served) \in Nat
    BY <1>2, ServedGrows, FS_CardinalityType DEF TypeInv
  <2>2. PICK act \in Acts \ served :
           /\ served' = served \cup {act}
           /\ running' = running \cup {act}
           /\ act.n = Cardinality(served) + 1
    BY <1>2, ServedGrows
  <2>3. served' \ running' = served \ running
    BY <2>2
  <2>4. UNCHANGED <<exchanges, sent, changes>>
    BY <1>2, ServeEffect DEF web
  <2>5. \A a \in served : a.n \in Nat
    BY DEF TypeInv, Acts
  <2>6. \A a \in served' : a.n <= Cardinality(served')
    BY <2>1, <2>2, <2>5 DEF ServerCount
  <2>7. /\ Cardinality(served') <= MaxServed
        /\ sendSeq'["server"] <= Cardinality(served' \ running')
    <3>1. sendSeq["server"] <= Cardinality(served \ running)
      BY DEF ServerCount
    <3> QED
      BY <2>1, <2>3, <3>1, Bounds
  <2> QED
    BY <2>1, <2>4, <2>6, <2>7 DEF ClientCount, ServerCount
<1>3. CASE WriteBack \/ InterceptorReturn
  <2>1. PICK act \in running :
           /\ running' = running \ {act}
           /\ UNCHANGED <<served, exchanges, sent, changes>>
           /\ UNCHANGED sendSeq \/ Spend("server")
    BY <1>3, RespondEffect DEF web
  <2>2. /\ sendSeq["server"] + 1 < SeqMod
        /\ sendSeq["server"] + 1 <= Cardinality(served \ running')
    BY <2>1, ServerRoom
  <2>3. /\ sendSeq'["client"] = sendSeq["client"]
        /\ sendSeq'["server"] <= sendSeq["server"] + 1
        /\ sendSeq'["server"] \in Nat /\ sendSeq["server"] \in Nat
    BY <2>1, <2>2, SpendFacts, SeqModAssumption DEF TypeInv, Ends, Seqs
  <2>4. Cardinality(served \ running') \in Nat
    BY FS_Difference, FS_CardinalityType DEF TypeInv
  <2> QED
    BY <2>1, <2>2, <2>3, <2>4 DEF ClientCount, ServerCount
<1>4. CASE ApplyRekey \/ \E e \in Ends : Dispose(e)
  <2>1. /\ changes' = changes + 1 /\ changes < MaxChanges
        /\ UNCHANGED <<sendSeq, web, rpc>>
    BY <1>4 DEF ApplyRekey, Dispose, Change
  <2>2. /\ sendSeq["client"] \in Nat
        /\ exchanges \in Nat /\ sent \in Nat /\ changes \in Nat
    BY SeqModAssumption DEF TypeInv, Seqs, Ends
  <2>3. ClientCount'
    BY <2>1, <2>2, Bounds DEF ClientCount, web, rpc
  <2> QED
    BY <2>1, <2>3 DEF ServerCount, rpc
<1>5. ASSUME Resend \/ (DecryptResponse \/ InvokeReturn) \/ Write
             \/ OnDecrypted \/ OnMessage \/ UNCHANGED vars
      PROVE  UNCHANGED <<sendSeq, served, running, exchanges, sent, changes>>
  BY <1>5
     DEF Resend, DecryptResponse, InvokeReturn, Write, OnDecrypted, OnMessage,
         vars, session, web, rpc
<1>6. CASE Resend \/ (DecryptResponse \/ InvokeReturn) \/ Write
             \/ OnDecrypted \/ OnMessage \/ UNCHANGED vars
  BY <1>5, <1>6 DEF ClientCount, ServerCount
<1> QED
  BY <1>1, <1>2, <1>3, <1>4, <1>6, NextCases
-----------------------------------------------------------------------------
(* The steps that seal a packet at the client. *)
Sealing == Rekey \/ (EncryptRequest \/ Invoke) \/ Send

(* What a sealing step puts on the way: at most one packet, with the       *)
(* number the client is at.                                                *)
LEMMA SealingEffect ==
    ASSUME NoWrap, TypeInv, ClientCount, Sealing
    PROVE  /\ receivedPackets' = receivedPackets
           /\ served' = served /\ responses' = responses
           /\ sendSeq'["server"] = sendSeq["server"]
           /\ sendSeq[ "client"] \in Nat /\ sendSeq'["client"] \in Nat
           /\ \/ sendSeq' = sendSeq /\ Sent' = Sent
              \/ /\ sendSeq'["client"] = sendSeq["client"] + 1
                 /\ \/ Sent' = Sent
                    \/ \E p \in Packets :
                          /\ Sent' = Sent \cup {p}
                          /\ p.seal.key = key["client"]
                          /\ p.seal.seq = sendSeq["client"]
                          /\ \/ /\ Rekey /\ p.text[1] = "token"
                                /\ tokens' = tokens \cup {p}
                             \/ /\ EncryptRequest \/ Invoke
                                /\ p.text = Request(exchanges')
                             \/ /\ Send /\ p.text = Message(sent')
                                /\ outbox' = outbox \cup {p}
<1>1. sendSeq["client"] \in Nat /\ sendSeq'["client"] \in Nat
  BY TypeStep, SeqModAssumption DEF Sealing, TypeInv, Seqs, Ends, Next
<1>2. /\ sendSeq["client"] + 1 < SeqMod
      /\ UNCHANGED <<receivedPackets, served, responses>>
  BY ClientRoom, BeginEffect DEF Sealing, Rekey, Send, rpc
<1>3. Spend("client") => /\ sendSeq'["client"] = sendSeq["client"] + 1
                         /\ sendSeq'["server"] = sendSeq["server"]
  BY <1>2, SpendFacts DEF Ends
<1>4. CASE Rekey
  <2>1. PICK n \in Nat : tokens' = tokens \cup {Sealed("client", Token(n))}
    BY <1>4, RekeyEffect
  <2> DEFINE p == Sealed("client", Token(n))
  <2>2. /\ p \in Packets /\ p.text = Token(n)
        /\ p.seal.seq = sendSeq["client"] /\ p.seal.key = key["client"]
    BY <1>4, RekeyEffect, TextFacts, SealedFacts DEF Ends
  <2>3. p.text[1] = "token"
    BY <2>2 DEF Token
  <2>4. tokens' = tokens \cup {p}
    BY <2>1
  <2> HIDE DEF p
  <2>5. Sent' = Sent \cup {p} /\ Spend("client")
    BY <1>4, <2>4 DEF Rekey, Sent, OnSocket, web, rpc
  <2> QED
    BY <1>1, <1>2, <1>3, <1>4, <2>2, <2>3, <2>4, <2>5
<1>5. CASE EncryptRequest \/ Invoke
  <2>1. UNCHANGED <<tokens, outbox, socket>>
    BY <1>5, BeginEffect DEF web
  <2>2. exchanges' \in Nat
    BY <1>5, BeginEffect DEF TypeInv
  <2>3. CASE requests' = requests
    <3>1. Sent' = Sent
      BY <2>1, <2>3 DEF Sent, OnSocket
    <3>2. UNCHANGED sendSeq \/ Spend("client")
      BY <1>5, BeginEffect
    <3> QED
      BY <1>1, <1>2, <1>3, <3>1, <3>2
  <2>4. CASE \E r \in Requests :
                /\ requests' = requests \cup {r}
                /\ r.x = exchanges' /\ r.message = Nothing
                /\ UNCHANGED <<sendSeq, results>>
    <3>1. Sent' = Sent
      BY <2>1, <2>4, TextFacts DEF Sent, OnSocket
    <3> QED
      BY <1>1, <1>2, <1>3, <2>4, <3>1
  <2>5. CASE \E r \in Requests :
                /\ requests' = requests \cup {r}
                /\ r.x = exchanges'
                /\ r.kind = "http" => r.marked
                /\ key["client"] # Nil
                /\ r.message = Sealed("client", Request(exchanges'))
                /\ Spend("client")
                /\ UNCHANGED results
    <3> DEFINE p == Sealed("client", Request(exchanges'))
    <3>1. /\ p \in Packets
          /\ p.text = Request(exchanges')
          /\ p.seal.seq = sendSeq["client"] /\ p.seal.key = key["client"]
          /\ p.seal # Nil
      BY <2>2, <2>5, TextFacts, SealedFacts DEF Ends
    <3>2. \E r \in Requests : /\ requests' = requests \cup {r}
                              /\ r.message = p
      BY <2>5
    <3> HIDE DEF p
    <3>3. Sent' = Sent \cup {p}
      BY <2>1, <3>1, <3>2 DEF Sent, OnSocket
    <3> QED
      BY <1>1, <1>2, <1>3, <1>5, <2>5, <3>1, <3>3
  <2> QED
    BY <1>5, <2>3, <2>4, <2>5, BeginEffect
<1>6. CASE Send
  <2> DEFINE p == Sealed("client", Message(sent + 1))
  <2>1. /\ p \in Packets
        /\ p.text = Message(sent + 1)
        /\ p.seal.seq = sendSeq["client"] /\ p.seal.key = key["client"]
    BY <1>6, TextFacts, SealedFacts DEF TypeInv, Send, Ends
  <2>2. outbox' = outbox \cup {p} /\ sent' = sent + 1
    BY <1>6 DEF Send
  <2> HIDE DEF p
  <2>3. Sent' = Sent \cup {p} /\ Spend("client")
    BY <1>6, <2>2 DEF Send, Sent, OnSocket, rpc
  <2> QED
    BY <1>1, <1>2, <1>3, <1>6, <2>1, <2>2, <2>3
<1> QED
  BY <1>4, <1>5, <1>6 DEF Sealing

(* No other step puts anything of the client on the way.                   *)
LEMMA NothingSealed ==
    ASSUME TypeInv, [Next]_vars, ~Sealing
    PROVE  /\ Sent' \subseteq Sent
           /\ sendSeq'["client"] = sendSeq["client"]
           /\ exchanges' = exchanges /\ sent' = sent
           /\ tokens' = tokens
           /\ \A r \in requests' :
                 r.message.seal # Nil => r \in requests
           /\ (outbox \cup OnSocket)' \subseteq outbox \cup OnSocket
<1>1. CASE ApplyRekey \/ (\E e \in Ends : Dispose(e)) \/ OnDecrypted
           \/ UNCHANGED vars \/ (DecryptResponse \/ InvokeReturn)
  BY <1>1
     DEF ApplyRekey, Dispose, OnDecrypted, vars, session, web, rpc, Sent,
         OnSocket, DecryptResponse, InvokeReturn
<1>2. CASE Resend
  <2>1. \A r \in requests' : r \in requests \/ r.message = Nothing
    BY <1>2, ResendEffect
  <2>2. UNCHANGED <<tokens, outbox, socket, sendSeq, exchanges, sent>>
    BY <1>2 DEF Resend, session, web
  <2> QED
    BY <2>1, <2>2, TextFacts DEF Sent, OnSocket
<1>3. CASE Middleware \/ ServerInterceptor
  <2>1. /\ requests' \subseteq requests
        /\ UNCHANGED <<tokens, outbox, socket, sendSeq, exchanges, sent>>
    BY <1>3, ServeEffect DEF web
  <2> QED
    BY <2>1 DEF Sent, OnSocket
<1>4. CASE WriteBack \/ InterceptorReturn
  <2>1. UNCHANGED <<requests, tokens, outbox, socket, exchanges, sent>>
    BY <1>4, RespondEffect DEF web
  <2>2. UNCHANGED sendSeq \/ Spend("server")
    BY <1>4, RespondEffect
  <2>3. sendSeq'["client"] = sendSeq["client"]
    BY <2>2, SpendFacts DEF Ends
  <2> QED
    BY <2>1, <2>3 DEF Sent, OnSocket
<1>5. CASE Write
  <2>1. PICK m \in outbox : /\ outbox' = outbox \ {m}
                            /\ socket' = Append(socket, m)
    BY <1>5 DEF Write
  <2>2. m \in Packets /\ socket \in Seq(Packets)
    BY DEF TypeInv
  <2>3. \A i \in DOMAIN socket' : socket'[i] = m \/ socket'[i] \in OnSocket
    BY <2>1, <2>2, AppendProperties DEF OnSocket
  <2>4. UNCHANGED <<requests, tokens, sendSeq, exchanges, sent>>
    BY <1>5 DEF Write, session, rpc
  <2>5. (outbox \cup OnSocket)' \subseteq outbox \cup OnSocket
    BY <2>1, <2>3 DEF OnSocket
  <2> QED
    BY <2>4, <2>5 DEF Sent
<1>6. CASE OnMessage
  <2>1. \A i \in DOMAIN socket' : socket'[i] \in OnSocket
    <3>1. socket # <<>> /\ socket' = Tail(socket)
      BY <1>6 DEF OnMessage
    <3>2. /\ Len(socket) \in Nat /\ DOMAIN socket = 1 .. Len(socket)
          /\ DOMAIN socket' = 1 .. Len(socket) - 1
          /\ \A i \in 1 .. Len(socket) - 1 : socket'[i] = socket[i + 1]
      BY <3>1, SocketFacts, TypeStep DEF TypeInv
    <3> QED
      BY <3>2 DEF OnSocket
  <2>2. UNCHANGED <<requests, tokens, outbox, sendSeq, exchanges, sent>>
    BY <1>6 DEF OnMessage, rpc
  <2>3. OnSocket' \subseteq OnSocket
    BY <2>1 DEF OnSocket
  <2> QED
    BY <2>2, <2>3 DEF Sent
<1> QED
  BY <1>1, <1>2, <1>3, <1>4, <1>5, <1>6, NextCases DEF Sealing

(* The server's window grows by the number of a packet on its way.         *)
LEMMA WindowGrows ==
    ASSUME TypeInv, [Next]_vars, ~Sealing
    PROVE  \/ receivedPackets'["server"] \subseteq receivedPackets["server"]
           \/ \E m \in Sent :
                 /\ Opens("server", m) /\ Consume("server", m)
                 /\ m \in Messages
                 /\ \/ ApplyRekey /\ m \in tokens
                    \/ /\ Middleware \/ ServerInterceptor
                       /\ \E r \in requests, act \in Acts :
                             /\ r.message = m
                             /\ served' = served \cup {act}
                             /\ act.x = r.x /\ act.message = Plain(m.text)
                    \/ OnMessage /\ socket # <<>> /\ m = Head(socket)
<1>1. CASE ApplyRekey
  BY <1>1, ApplyEffect DEF Sent
<1>2. CASE \E e \in Ends : Dispose(e)
  BY <1>2 DEF TypeInv, Dispose, Ends
<1>3. CASE Middleware \/ ServerInterceptor
  <2>1. PICK r \in requests, act \in Acts :
           /\ served' = served \cup {act} /\ act.x = r.x
           /\ \/ /\ Opens("server", r.message)
                 /\ act.message = Plain(r.message.text)
                 /\ Consume("server", r.message)
              \/ UNCHANGED receivedPackets
    BY <1>3, ServeEffect
  <2>2. r.message \in Messages
    BY DEF TypeInv, Requests
  <2>3. Opens("server", r.message) => r.message \in Sent
    BY DEF Opens, Sent
  <2> QED
    BY <1>3, <2>1, <2>2, <2>3
<1>4. CASE DecryptResponse \/ InvokeReturn
  <2>1. PICK r \in responses :
           UNCHANGED receivedPackets \/ Consume("client", r.message)
    BY <1>4, ReadEffect
  <2>2. r.message \in Messages
    BY DEF TypeInv, Responses
  <2> QED
    BY <2>1, <2>2, ConsumeFacts DEF Ends
<1>5. CASE OnMessage
  <2>1. socket # <<>> /\ Consume("server", Head(socket))
    BY <1>5 DEF OnMessage
  <2>2. Head(socket) \in Messages /\ Head(socket) \in Sent
    BY <2>1, SocketFacts DEF Sent, OnSocket
  <2>3. ~Opens("server", Head(socket))
           => receivedPackets'["server"] = receivedPackets["server"]
    BY <2>1, <2>2, ConsumeFacts DEF Ends
  <2> QED
    BY <1>5, <2>1, <2>2, <2>3
<1>6. CASE Resend \/ (WriteBack \/ InterceptorReturn) \/ Write \/ OnDecrypted
           \/ UNCHANGED vars
  BY <1>6
     DEF Resend, WriteBack, InterceptorReturn, Write, OnDecrypted, vars,
         session
<1> QED
  BY <1>1, <1>2, <1>3, <1>4, <1>5, <1>6, NextCases DEF Sealing
-----------------------------------------------------------------------------
(* A number that is sealed under is the next one, which no packet bears.   *)
LEMMA ClientNumbersStep ==
    ASSUME NoWrap
    PROVE  TypeInv /\ ClientCount /\ ClientNumbers /\ [Next]_vars
               => ClientNumbers'
<1> SUFFICES ASSUME TypeInv, ClientCount, ClientNumbers, [Next]_vars
             PROVE  ClientNumbers'
  OBVIOUS
<1>1. sendSeq["client"] \in Seqs /\ sendSeq'["client"] \in Seqs
  BY TypeStep DEF TypeInv, Ends
<1>2. CASE Sealing
  <2>1. /\ sendSeq["client"] \in Nat
        /\ receivedPackets' = receivedPackets
        /\ \/ sendSeq' = sendSeq
           \/ sendSeq'["client"] = sendSeq["client"] + 1
    BY <1>2, SealingEffect
  <2>2. Used("client") \subseteq Used("client")'
    BY <2>1 DEF Used, Seqs
  <2>3. CASE Sent' = Sent
    BY <2>1, <2>2, <2>3 DEF ClientNumbers
  <2>4. CASE \E p \in Packets :
                /\ Sent' = Sent \cup {p}
                /\ p.seal.seq = sendSeq["client"]
                /\ sendSeq'["client"] = sendSeq["client"] + 1
    <3>1. PICK p \in Packets :
                /\ Sent' = Sent \cup {p}
                /\ p.seal.seq = sendSeq["client"]
                /\ sendSeq'["client"] = sendSeq["client"] + 1
      BY <2>4
    <3>2. /\ p.seal.seq \in Used("client")'
          /\ p.seal.seq \notin Used("client")
      BY <1>1, <2>1, <3>1 DEF Used, Seqs
    <3> QED
      BY <2>1, <2>2, <3>1, <3>2 DEF ClientNumbers
  <2> QED
    BY <1>2, <2>3, <2>4, SealingEffect
<1>3. CASE ~Sealing
  <2>1. Sent' \subseteq Sent /\ sendSeq'["client"] = sendSeq["client"]
    BY <1>3, NothingSealed
  <2>2. Used("client")' = Used("client")
    BY <2>1 DEF Used
  <2>3. receivedPackets'["server"] \subseteq Used("client")
    <3>1. CASE receivedPackets'["server"] \subseteq receivedPackets["server"]
      BY <3>1 DEF ClientNumbers
    <3>2. CASE \E m \in Sent : Consume("server", m) /\ m \in Messages
      <4>1. PICK m \in Sent : Consume("server", m) /\ m \in Messages
        BY <3>2
      <4>2. receivedPackets'["server"] \subseteq
               receivedPackets["server"] \cup {m.seal.seq}
        BY <4>1, ConsumeFacts DEF Ends
      <4> QED
        BY <4>1, <4>2 DEF ClientNumbers
    <3> QED
      BY <1>3, <3>1, <3>2, WindowGrows
  <2> QED
    BY <2>1, <2>2, <2>3 DEF ClientNumbers
<1> QED
  BY <1>2, <1>3

(* The socket is a queue.                                                  *)
LEMMA OrderStep ==
    TypeInv /\ MessagesUnread /\ Order /\ [Next]_vars => Order'
<1> SUFFICES ASSUME TypeInv, MessagesUnread, Order, [Next]_vars
             PROVE  Order'
  OBVIOUS
<1>1. /\ Len(socket) \in Nat /\ Len(written) \in Nat
      /\ DOMAIN socket = 1 .. Len(socket)
      /\ DOMAIN written = 1 .. Len(written)
  BY DEF TypeInv
<1>2. CASE Write
  <2>1. PICK m \in outbox : /\ socket' = Append(socket, m)
                            /\ written' = Append(written, m.text)
    BY <1>2 DEF Write
  <2>2. /\ m \in Packets /\ socket \in Seq(Packets)
        /\ m.text \in Texts /\ written \in Seq(Texts)
    BY DEF TypeInv, Packets
  <2>3. /\ Len(socket') = Len(socket) + 1
        /\ \A i \in 1 .. Len(socket) : socket'[i] = socket[i]
        /\ socket'[Len(socket) + 1] = m
        /\ DOMAIN socket' = 1 .. Len(socket) + 1
    BY <2>1, <2>2, AppendProperties
  <2>4. /\ Len(written') = Len(written) + 1
        /\ \A i \in 1 .. Len(written) : written'[i] = written[i]
        /\ written'[Len(written) + 1] = m.text
        /\ DOMAIN written' = 1 .. Len(written) + 1
    BY <2>1, <2>2, AppendProperties
  <2>5. Read' = Read
    BY <1>1, <2>3, <2>4 DEF Read
  <2>6. \A i \in DOMAIN socket' : socket'[i].text = written'[Read' + i]
    <3> SUFFICES ASSUME NEW i \in 1 .. Len(socket) + 1
                 PROVE  socket'[i].text = written'[Read + i]
      BY <2>3, <2>5
    <3>1. CASE i = Len(socket) + 1
      <4>1. Read + i = Len(written) + 1
        BY <1>1, <3>1 DEF Read
      <4> QED
        BY <2>3, <2>4, <3>1, <4>1
    <3>2. CASE i \in 1 .. Len(socket)
      <4>1. Read + i \in 1 .. Len(written)
        BY <1>1, <3>2 DEF Read, Order
      <4> QED
        BY <1>1, <2>3, <2>4, <3>2, <4>1 DEF Order
    <3> QED
      BY <1>1, <3>1, <3>2
  <2>7. \A i, j \in DOMAIN written' : written'[i] = written'[j] => i = j
    <3>1. \A i \in 1 .. Len(written) : m.text # written[i]
      BY <1>1 DEF MessagesUnread
    <3> QED
      BY <1>1, <2>4, <3>1 DEF Order
  <2> QED
    BY <1>1, <2>3, <2>4, <2>6, <2>7 DEF Order
<1>3. CASE OnMessage
  <2>1. /\ written' = written /\ socket' = Tail(socket)
        /\ socket # <<>>
    BY <1>3 DEF OnMessage
  <2>2. /\ Len(socket') = Len(socket) - 1
        /\ \A i \in 1 .. Len(socket) - 1 : socket'[i] = socket[i + 1]
        /\ DOMAIN socket' = 1 .. Len(socket) - 1
        /\ 1 \in 1 .. Len(socket)
    BY <1>1, <2>1, SocketFacts
  <2>3. \A i \in DOMAIN socket' : socket'[i].text = written'[Read' + i]
    <3> SUFFICES ASSUME NEW i \in 1 .. Len(socket) - 1
                 PROVE  socket'[i].text = written'[Read' + i]
      BY <2>2
    <3>1. Read' + i = Read + (i + 1) /\ i + 1 \in 1 .. Len(socket)
      BY <1>1, <2>1, <2>2 DEF Read
    <3> QED
      BY <1>1, <2>1, <2>2, <3>1 DEF Order
  <2> QED
    BY <1>1, <2>1, <2>2, <2>3 DEF Order
<1>4. ASSUME ~Write, ~OnMessage
      PROVE  UNCHANGED <<socket, written>>
  <2>1. CASE EncryptRequest \/ Invoke
    BY <2>1, BeginEffect DEF web
  <2>2. CASE Middleware \/ ServerInterceptor
    BY <2>2, ServeEffect DEF web
  <2> QED
    BY <1>4, <2>1, <2>2, NextCases
       DEF Rekey, ApplyRekey, Dispose, Resend, WriteBack, InterceptorReturn,
           DecryptResponse, InvokeReturn, Send, OnDecrypted, vars, web
<1>5. CASE UNCHANGED <<socket, written>>
  BY <1>5 DEF Order, Read
<1> QED
  BY <1>2, <1>3, <1>4, <1>5

(* A message of the WebSocket shares its number with no other packet.      *)
LEMMA MessageAlone ==
    ASSUME TypeInv, Faithful, ClientNumbers, MessagesUnread, Order,
           NEW o \in outbox \cup OnSocket, NEW m \in Sent,
           m.seal.seq = o.seal.seq
    PROVE  /\ m \notin tokens
           /\ \A r \in requests : r.message # m
           /\ \A i \in DOMAIN socket, j \in DOMAIN socket :
                 m = socket[i] /\ o = socket[j] => i = j
           /\ \A i \in DOMAIN socket : m = socket[i] => o \notin outbox
<1>1. o \in Sent
  BY DEF Sent
<1>2. m.text = o.text
  BY <1>1 DEF ClientNumbers
<1>3. PICK k \in 1 .. sent : o.text = Message(k)
  BY DEF MessagesUnread
<1>4. k \in Nat
  BY DEF TypeInv
<1>5. m \notin tokens
  BY <1>2, <1>3, <1>4, KindsDiffer DEF MessagesUnread
<1>6. \A r \in requests : r.message # m
  <2> SUFFICES ASSUME NEW r \in requests, r.message = m PROVE FALSE
    OBVIOUS
  <2>1. r.x \in Nat
    BY DEF TypeInv, Requests
  <2>2. m.text = Request(r.x)
    <3>1. m # Nothing
      BY <1>2, <1>3, <1>4 DEF Nothing, Plain, Message
    <3> QED
      BY <3>1 DEF Faithful
  <2> QED
    BY <1>2, <1>3, <1>4, <2>1, <2>2, KindsDiffer
<1>7. /\ DOMAIN socket = 1 .. Len(socket) /\ Len(socket) \in Nat
      /\ DOMAIN written = 1 .. Len(written) /\ Len(written) \in Nat
  BY DEF TypeInv
<1>8. \A i \in DOMAIN socket : /\ Read + i \in DOMAIN written
                               /\ socket[i].text = written[Read + i]
  BY <1>7 DEF Order, Read
<1>9. ASSUME NEW i \in DOMAIN socket, NEW j \in DOMAIN socket,
             m = socket[i], o = socket[j]
      PROVE  i = j
  <2>1. written[Read + i] = written[Read + j]
    BY <1>2, <1>8, <1>9
  <2>2. Read + i = Read + j
    BY <1>8, <2>1 DEF Order
  <2> QED
    BY <1>7, <2>2 DEF Read
<1>10. ASSUME NEW i \in DOMAIN socket, m = socket[i], o \in outbox
       PROVE  FALSE
  BY <1>2, <1>8, <1>10 DEF MessagesUnread
<1> QED
  BY <1>5, <1>6, <1>9, <1>10

(* A message leaves the socket when its number enters the window.          *)
LEMMA MessagesUnreadStep ==
    ASSUME NoWrap
    PROVE  TypeInv /\ ClientCount /\ Faithful /\ ClientNumbers
           /\ MessagesUnread /\ Order /\ [Next]_vars => MessagesUnread'
<1> SUFFICES ASSUME TypeInv, ClientCount, Faithful, ClientNumbers,
                    MessagesUnread, Order, [Next]_vars
             PROVE  MessagesUnread'
  OBVIOUS
<1>1. CASE Rekey
  <2>1. PICK p : tokens' = tokens \cup {p} /\ p.text[1] = "token"
    <3>1. PICK n \in Nat : tokens' = tokens \cup {Sealed("client", Token(n))}
      BY <1>1, RekeyEffect
    <3>2. Sealed("client", Token(n)).text[1] = "token"
      BY DEF Sealed, Token
    <3> QED
      BY <3>1, <3>2
  <2>2. UNCHANGED <<receivedPackets, outbox, socket, written, sent>>
    BY <1>1 DEF Rekey, web
  <2> QED
    BY <2>1, <2>2 DEF MessagesUnread, OnSocket
<1>2. CASE EncryptRequest \/ Invoke
  <2>1. UNCHANGED <<receivedPackets, outbox, socket, written, sent, tokens>>
    BY <1>2, BeginEffect DEF web
  <2> QED
    BY <2>1 DEF MessagesUnread, OnSocket
<1>3. CASE Send
  <2>1. /\ key["client"] # Nil
        /\ outbox' = outbox \cup {Sealed("client", Message(sent + 1))}
        /\ sent' = sent + 1
        /\ UNCHANGED <<receivedPackets, socket, written, tokens>>
    BY <1>3 DEF Send
  <2> DEFINE p == Sealed("client", Message(sent + 1))
  <2>2. /\ outbox' = outbox \cup {p}
        /\ p.text = Message(sent + 1)
        /\ p.seal.seq = sendSeq["client"]
    BY <2>1 DEF Sealed
  <2> HIDE DEF p
  <2>3. sent \in Nat
    BY DEF TypeInv
  <2>4. /\ \A i \in 1 .. sent : Message(i) # Message(sent + 1)
        /\ 1 .. sent' = 1 .. sent \cup {sent + 1}
    BY <2>1, <2>3 DEF Message
  <2>5. sendSeq["client"] \notin receivedPackets["server"]
    BY SeqModAssumption DEF ClientNumbers, Used, TypeInv, Seqs, Ends
  <2>6. \A m \in outbox : m.text # p.text
    BY <2>2, <2>4 DEF MessagesUnread
  <2>7. \A i \in DOMAIN written : written[i] # p.text
    BY <2>2, <2>4 DEF MessagesUnread
  <2>8. \A m \in (outbox \cup OnSocket)' : m \in outbox \cup OnSocket \/ m = p
    BY <2>1, <2>2 DEF OnSocket
  <2>9. {Message(i) : i \in 1 .. sent'} =
           {Message(i) : i \in 1 .. sent} \cup {p.text}
    BY <2>2, <2>4
  <2>10. \A m \in (outbox \cup OnSocket)' :
            /\ m.seal.seq \notin receivedPackets["server"]
            /\ m.text \in {Message(i) : i \in 1 .. sent'}
    BY <2>2, <2>5, <2>8, <2>9 DEF MessagesUnread
  <2>11. \A i \in DOMAIN written :
            written[i] \in {Message(j) : j \in 1 .. sent'}
    BY <2>9 DEF MessagesUnread
  <2> QED
    BY <2>1, <2>2, <2>6, <2>7, <2>10, <2>11 DEF MessagesUnread
<1>4. CASE ~Sealing
  <2>1. /\ (outbox \cup OnSocket)' \subseteq outbox \cup OnSocket
        /\ sent' = sent /\ tokens' = tokens
    BY <1>4, NothingSealed
  <2>2. \A o \in (outbox \cup OnSocket)' :
           o.seal.seq \notin receivedPackets'["server"]
    <3> SUFFICES ASSUME NEW o \in (outbox \cup OnSocket)',
                        o.seal.seq \in receivedPackets'["server"]
                 PROVE  FALSE
      OBVIOUS
    <3>1. /\ o \in outbox \cup OnSocket
          /\ o.seal.seq \notin receivedPackets["server"]
      BY <2>1 DEF MessagesUnread
    <3>2. PICK m \in Sent :
             /\ Consume("server", m) /\ m \in Messages
             /\ \/ m \in tokens
                \/ \E r \in requests : r.message = m
                \/ OnMessage /\ socket # <<>> /\ m = Head(socket)
      BY <1>4, <3>1, WindowGrows
    <3>3. o.seal.seq = m.seal.seq
      BY <3>1, <3>2, ConsumeFacts DEF Ends
    <3>4. /\ OnMessage /\ socket # <<>> /\ m = Head(socket)
          /\ \A i \in DOMAIN socket, j \in DOMAIN socket :
                m = socket[i] /\ o = socket[j] => i = j
          /\ \A i \in DOMAIN socket : m = socket[i] => o \notin outbox
      BY <3>1, <3>2, <3>3, MessageAlone
    <3>5. /\ m = socket[1] /\ 1 \in DOMAIN socket
          /\ outbox' = outbox /\ socket' = Tail(socket)
      BY <3>4, SocketFacts DEF OnMessage
    <3>6. PICK i \in DOMAIN socket' : o = socket'[i]
      BY <3>4, <3>5 DEF OnSocket
    <3>7. i + 1 \in DOMAIN socket /\ o = socket[i + 1] /\ i \in Nat /\ i > 0
      BY <3>4, <3>5, <3>6, SocketFacts DEF TypeInv
    <3> QED
      BY <3>4, <3>5, <3>7
  <2>3. CASE Write
    <3>1. PICK m \in outbox : /\ outbox' = outbox \ {m}
                              /\ written' = Append(written, m.text)
      BY <2>3 DEF Write
    <3>2. m.text \in Texts /\ written \in Seq(Texts)
      BY DEF TypeInv, Packets
    <3>3. \A i \in DOMAIN written' :
             \/ i \in DOMAIN written /\ written'[i] = written[i]
             \/ written'[i] = m.text
      BY <3>1, <3>2, AppendProperties
    <3>4. /\ \A i \in DOMAIN written' :
                written'[i] \in {Message(j) : j \in 1 .. sent}
          /\ \A o \in outbox' : \A i \in DOMAIN written' :
                o.text # written'[i]
      BY <3>1, <3>3 DEF MessagesUnread
    <3> QED
      BY <2>1, <2>2, <3>1, <3>4 DEF MessagesUnread
  <2>4. CASE ~Write
    <3>1. written' = written /\ outbox' = outbox
      <4>1. CASE Middleware \/ ServerInterceptor
        BY <4>1, ServeEffect DEF web
      <4> QED
        BY <1>4, <2>4, <4>1, NextCases
           DEF Sealing, ApplyRekey, Dispose, Resend, WriteBack,
               InterceptorReturn, DecryptResponse, InvokeReturn, OnDecrypted,
               OnMessage, vars, web
    <3> QED
      BY <2>1, <2>2, <3>1 DEF MessagesUnread
  <2> QED
    BY <2>3, <2>4
<1> QED
  BY <1>1, <1>2, <1>3, <1>4 DEF Sealing

(* No handler call is forgotten. *)
LEMMA ServedStays == TypeInv /\ [Next]_vars => served \subseteq served'
<1> SUFFICES ASSUME TypeInv, [Next]_vars PROVE served \subseteq served'
  OBVIOUS
<1> QED
  BY NextCases, ServeEffect, BeginEffect
     DEF Rekey, ApplyRekey, Dispose, Resend, WriteBack, InterceptorReturn,
         DecryptResponse, InvokeReturn, Send, Write, OnDecrypted, OnMessage,
         vars, rpc

(* Requests new to the network are of a new exchange, or carry nothing.    *)
LEMMA NewRequests ==
    ASSUME TypeInv, [Next]_vars, NEW r \in requests', r.message.seal # Nil
    PROVE  \/ r \in requests
           \/ /\ EncryptRequest \/ Invoke
              /\ r.x = exchanges + 1
              /\ r.message = Sealed("client", Request(exchanges + 1))
<1>1. CASE EncryptRequest \/ Invoke
  BY <1>1, BeginEffect, TextFacts
<1>2. CASE Rekey \/ Send
  BY <1>2 DEF Rekey, Send, rpc
<1>3. CASE ~Sealing
  BY <1>3, NothingSealed
<1> QED
  BY <1>1, <1>2, <1>3 DEF Sealing

(* A number enters the window when the packet it names is opened; the      *)
(* packet of a request is opened on the way to a handler only.             *)
LEMMA SeenIsHandedStep ==
    ASSUME NoWrap
    PROVE  TypeInv /\ ClientCount /\ Faithful /\ ClientNumbers
           /\ MessagesUnread /\ Order /\ SeenIsHanded /\ [Next]_vars
               => SeenIsHanded'
<1> SUFFICES ASSUME TypeInv, ClientCount, Faithful, ClientNumbers,
                    MessagesUnread, Order, SeenIsHanded, [Next]_vars,
                    NEW r \in requests', r.message.seal # Nil,
                    r.message.seal.seq \in receivedPackets'["server"]
             PROVE  Handed(r.x)'
  BY DEF SeenIsHanded
<1>1. Handed(r.x) => Handed(r.x)'
  BY ServedStays DEF Handed, Understood
<1>2. CASE Sealing
  <2>1. receivedPackets' = receivedPackets
    BY <1>2, SealingEffect
  <2>2. r \in requests
    <3>1. sendSeq["client"] \notin receivedPackets["server"]
      BY SeqModAssumption DEF ClientNumbers, Used, TypeInv, Seqs, Ends
    <3>2. Sealed("client", Request(exchanges + 1)).seal.seq
             = sendSeq["client"]
      BY DEF Sealed
    <3> QED
      BY <2>1, <3>1, <3>2, NewRequests
  <2> QED
    BY <1>1, <2>1, <2>2 DEF SeenIsHanded
<1>3. CASE ~Sealing
  <2>1. r \in requests /\ r.message \in Sent
    BY <1>3, NothingSealed DEF Sent
  <2>2. CASE r.message.seal.seq \in receivedPackets["server"]
    BY <1>1, <2>1, <2>2 DEF SeenIsHanded
  <2>3. CASE r.message.seal.seq \notin receivedPackets["server"]
    <3>1. PICK m \in Sent :
             /\ Opens("server", m) /\ Consume("server", m) /\ m \in Messages
             /\ \/ m \in tokens
                \/ \E q \in requests, act \in Acts :
                      /\ q.message = m /\ served' = served \cup {act}
                      /\ act.x = q.x /\ act.message = Plain(m.text)
                \/ socket # <<>> /\ m = Head(socket)
      BY <1>3, <2>3, WindowGrows
    <3>2. r.message.seal.seq = m.seal.seq
      BY <2>3, <3>1, ConsumeFacts DEF Ends
    <3>3. r.message.text = m.text
      BY <2>1, <3>1, <3>2 DEF ClientNumbers
    <3>4. r.message.text = Request(r.x) /\ r.x \in Nat
      BY <2>1, TextFacts DEF Faithful, TypeInv, Requests
    <3>5. m \notin tokens
      BY <3>3, <3>4, KindsDiffer DEF MessagesUnread
    <3>6. ~(socket # <<>> /\ m = Head(socket))
      <4>1. socket # <<>> /\ m = Head(socket) => m \in OnSocket
        BY SocketFacts DEF OnSocket
      <4> QED
        BY <2>1, <3>2, <4>1, MessageAlone
    <3>7. PICK q \in requests, act \in Acts :
             /\ q.message = m /\ served' = served \cup {act}
             /\ act.x = q.x /\ act.message = Plain(m.text)
      BY <3>1, <3>5, <3>6
    <3>8. m.text = Request(q.x) /\ q.x \in Nat
      BY <3>1, <3>7, TextFacts DEF Faithful, TypeInv, Requests, Opens
    <3>9. q.x = r.x
      <4>1. Request(q.x) = Request(r.x)
        BY <3>3, <3>4, <3>8
      <4> QED
        BY <3>4, <3>8, <4>1, KindsDiffer
    <3> QED
      BY <3>3, <3>4, <3>7, <3>9 DEF Handed, Understood
  <2> QED
    BY <2>2, <2>3
<1> QED
  BY <1>2, <1>3

(* As long as nothing is evicted the window only grows until the keys go.  *)
LEMMA WindowKeeps ==
    ASSUME NoWrap, NothingEvicted, TypeInv, ClientCount, ClientNumbers,
           NEW m \in Sent, m \in Messages, Opens("server", m),
           Consume("server", m)
    PROVE  receivedPackets'["server"] =
              receivedPackets["server"] \cup {m.seal.seq}
<1> DEFINE grown == receivedPackets["server"] \cup {m.seal.seq}
           n == sendSeq["client"]
<1>1. n \in Nat /\ n <= MaxPacketWindow
  <2>1. /\ n \in Nat /\ exchanges \in Nat /\ sent \in Nat
        /\ changes \in Nat
    BY SeqModAssumption DEF TypeInv, Seqs, Ends
  <2>2. /\ n <= exchanges + sent + changes
        /\ 2 * exchanges + sent <= MaxUses /\ changes <= MaxChanges
    BY DEF ClientCount
  <2> HIDE DEF n
  <2>3. exchanges + sent + changes <= MaxUses + MaxChanges
    BY <2>1, <2>2, Bounds
  <2> QED
    BY <2>1, <2>2, <2>3, Bounds DEF NothingEvicted
<1>2. grown \subseteq 0 .. n - 1
  BY SeqModAssumption DEF ClientNumbers, Used, Seqs, TypeInv, Ends
<1>3. IsFiniteSet(0 .. n - 1) /\ Cardinality(0 .. n - 1) <= n
  <2> HIDE DEF n
  <2>1. 0 \in Int /\ n - 1 \in Int
    BY <1>1
  <2>2. /\ IsFiniteSet(0 .. n - 1)
        /\ Cardinality(0 .. n - 1) = IF 0 > n - 1 THEN 0 ELSE n - 1 - 0 + 1
    BY <2>1, FS_Interval
  <2> QED
    BY <1>1, <2>2
<1>4. /\ Cardinality(grown) \in Nat /\ Cardinality(0 .. n - 1) \in Nat
      /\ Cardinality(grown) <= Cardinality(0 .. n - 1)
  <2> HIDE DEF grown
  <2> QED
    BY <1>2, <1>3, FS_Subset, FS_CardinalityType
<1>5. ~(Cardinality(grown) > MaxPacketWindow)
  <2> HIDE DEF grown, n
  <2> QED
    BY <1>1, <1>3, <1>4, Bounds
<1>6. Admit(receivedPackets["server"], m.seal.seq) = grown
  BY <1>5 DEF Admit
<1> QED
  BY <1>6, ConsumeFacts DEF Ends

(* A window that is never full forgets nothing.                            *)
LEMMA HandedIsSeenStep ==
    ASSUME NoWrap, NothingEvicted
    PROVE  TypeInv /\ ClientCount /\ Faithful /\ ClientNumbers
           /\ HandedIsSeen /\ [Next]_vars => HandedIsSeen'
<1> SUFFICES ASSUME TypeInv, ClientCount, Faithful, ClientNumbers,
                    HandedIsSeen, [Next]_vars
             PROVE  HandedIsSeen'
  OBVIOUS
<1>1. \A r \in requests, q \in requests' :
         q.x = exchanges + 1 => r.x # q.x
  BY DEF TypeInv
<1>2. ASSUME NEW r \in requests', NEW q \in requests',
             r.message.seal # Nil, q.message.seal # Nil, r.x = q.x
      PROVE  r.message = q.message
  BY <1>1, <1>2, NewRequests DEF HandedIsSeen
<1>3. ASSUME NEW r \in requests', r.message.seal # Nil, Handed(r.x)',
             key'["server"] # Nil
      PROVE  r.message.seal.seq \in receivedPackets'["server"]
  <2>1. CASE Middleware \/ ServerInterceptor
    <3>1. PICK q \in requests, act \in Acts :
             /\ served' = served \cup {act}
             /\ act.x = q.x
             /\ requests' \subseteq requests /\ key' = key
             /\ \/ /\ Opens("server", q.message)
                   /\ Consume("server", q.message)
                \/ /\ act.message \in {q.message, Nothing}
                   /\ UNCHANGED receivedPackets
      BY <2>1, ServeEffect
    <3>2. CASE Opens("server", q.message) /\ Consume("server", q.message)
      <4>1. q.message \in Sent /\ q.message \in Messages
        BY <3>2 DEF Opens, Sent, TypeInv, Requests
      <4>2. receivedPackets'["server"] =
               receivedPackets["server"] \cup {q.message.seal.seq}
        BY <3>2, <4>1, WindowKeeps
      <4>3. q.message.seal # Nil
        BY <3>2 DEF Opens
      <4>4. CASE Handed(r.x)
        BY <1>3, <3>1, <4>2, <4>4 DEF HandedIsSeen
      <4>5. CASE ~Handed(r.x)
        <5>1. r.x = act.x
          BY <1>3, <3>1, <4>5 DEF Handed, Understood
        <5>2. r.message = q.message
          BY <1>3, <3>1, <4>3, <5>1 DEF HandedIsSeen
        <5> QED
          BY <4>2, <5>2
      <4> QED
        BY <4>4, <4>5
    <3>3. CASE /\ act.message \in {q.message, Nothing}
               /\ UNCHANGED receivedPackets
      <4>1. ~Understood(act)
        <5>1. q.x \in Nat
          BY DEF TypeInv, Requests
        <5>2. Plain(Request(q.x)).seal = Nil
          BY <5>1, TextFacts
        <5> QED
          BY <3>1, <3>3, <5>1, <5>2, KindsDiffer DEF Understood, Faithful
      <4>2. Handed(r.x)
        BY <1>3, <3>1, <4>1 DEF Handed, Understood
      <4> QED
        BY <1>3, <3>1, <3>3, <4>2 DEF HandedIsSeen
    <3> QED
      BY <3>1, <3>2, <3>3
  <2>2. CASE ~(Middleware \/ ServerInterceptor)
    <3>1. served' = served
      BY <2>2, NextCases, BeginEffect
         DEF Rekey, ApplyRekey, Dispose, Resend, WriteBack,
             InterceptorReturn, DecryptResponse, InvokeReturn, Send, Write,
             OnDecrypted, OnMessage, vars, rpc
    <3>2. Handed(r.x)
      BY <1>3, <3>1 DEF Handed, Understood
    <3>3. r \in requests
      <4>1. r.x # exchanges + 1
        BY <3>2 DEF Handed, TypeInv
      <4> QED
        BY <1>3, <4>1, NewRequests
    <3>4. CASE Sealing
      <4>1. receivedPackets' = receivedPackets
        BY <3>4, SealingEffect
      <4>2. key'["server"] = key["server"]
        BY <3>4, BeginEffect DEF Sealing, Rekey, Send, TypeInv, Ends
      <4> QED
        BY <1>3, <3>2, <3>3, <4>1, <4>2 DEF HandedIsSeen
    <3>5. CASE ~Sealing
      <4>1. /\ key["server"] # Nil
            /\ receivedPackets["server"] \subseteq receivedPackets'["server"]
        <5>1. CASE ApplyRekey
          <6>1. PICK m \in tokens :
                   /\ Opens("server", m) /\ Consume("server", m)
                   /\ m \in Messages
            BY <5>1, ApplyEffect
          <6>2. receivedPackets'["server"] =
                   receivedPackets["server"] \cup {m.seal.seq}
            BY <6>1, WindowKeeps DEF Sent
          <6> QED
            BY <6>1, <6>2 DEF Opens
        <5>2. CASE \E e \in Ends : Dispose(e)
          <6>1. PICK e \in Ends : Dispose(e)
            BY <5>2
          <6>2. e # "server"
            BY <1>3, <6>1 DEF Dispose, TypeInv
          <6> QED
            BY <1>3, <6>1, <6>2 DEF Dispose, TypeInv, Ends
        <5>3. CASE OnMessage
          <6>1. /\ socket # <<>> /\ Consume("server", Head(socket))
                /\ key' = key
            BY <5>3 DEF OnMessage
          <6>2. Head(socket) \in Sent /\ Head(socket) \in Messages
            BY <6>1, SocketFacts DEF Sent, OnSocket
          <6>3. CASE Opens("server", Head(socket))
            BY <1>3, <6>1, <6>2, <6>3, WindowKeeps
          <6>4. CASE ~Opens("server", Head(socket))
            BY <1>3, <6>1, <6>2, <6>4, ConsumeFacts DEF Ends
          <6> QED
            BY <6>3, <6>4
        <5>4. CASE DecryptResponse \/ InvokeReturn
          <6>1. PICK q \in responses :
                   /\ key' = key
                   /\ UNCHANGED receivedPackets
                      \/ Consume("client", q.message)
            BY <5>4, ReadEffect
          <6>2. q.message \in Messages
            BY DEF TypeInv, Responses
          <6> QED
            BY <1>3, <6>1, <6>2, ConsumeFacts DEF Ends
        <5>5. CASE Resend \/ (WriteBack \/ InterceptorReturn) \/ Write
                   \/ OnDecrypted \/ UNCHANGED vars
          BY <1>3, <5>5
             DEF Resend, WriteBack, InterceptorReturn, Write, OnDecrypted,
                 vars, session
        <5> QED
          BY <2>2, <3>5, <5>1, <5>2, <5>3, <5>4, <5>5, NextCases DEF Sealing
      <4> QED
        BY <1>3, <3>2, <3>3, <4>1 DEF HandedIsSeen
    <3> QED
      BY <3>4, <3>5
  <2> QED
    BY <2>1, <2>2
<1> QED
  BY <1>2, <1>3 DEF HandedIsSeen

(* A request that was handed over is in the window and does not open again.*)
LEMMA RequestsOnceStep ==
    TypeInv /\ Faithful /\ HandedIsSeen /\ RequestsOnce /\ [Next]_vars
        => RequestsOnce'
<1> SUFFICES ASSUME TypeInv, Faithful, HandedIsSeen, RequestsOnce,
                    [Next]_vars
             PROVE  RequestsOnce'
  OBVIOUS
<1>1. \A a \in served' :
         a.kind = "http"
             => IF a.marked THEN Understood(a) ELSE a.message = Nothing
  BY FaithfulStep DEF Faithful, Understood
<1>2. CASE Middleware \/ ServerInterceptor
  <2>1. PICK r \in requests, act \in Acts :
           /\ served' = served \cup {act}
           /\ act.x = r.x
           /\ \/ Opens("server", r.message)
              \/ act.message \in {r.message, Nothing}
    BY <1>2, ServeEffect
  <2>2. Understood(act) => ~Handed(act.x)
    <3>1. r.x \in Nat
      BY DEF TypeInv, Requests
    <3>2. Plain(Request(r.x)).seal = Nil
      BY <3>1, TextFacts
    <3>3. Understood(act) => Opens("server", r.message)
      BY <2>1, <3>1, <3>2, KindsDiffer DEF Understood, Faithful
    <3>4. Opens("server", r.message) => ~Handed(r.x)
      BY DEF Opens, HandedIsSeen
    <3> QED
      BY <2>1, <3>3, <3>4
  <2> QED
    BY <1>1, <2>1, <2>2 DEF RequestsOnce, Handed, Understood
<1>3. CASE ~(Middleware \/ ServerInterceptor)
  <2>1. served' = served
    BY <1>3, NextCases, BeginEffect
       DEF Rekey, ApplyRekey, Dispose, Resend, WriteBack,
           InterceptorReturn, DecryptResponse, InvokeReturn, Send, Write,
           OnDecrypted, OnMessage, vars, rpc
  <2> QED
    BY <1>1, <2>1 DEF RequestsOnce, Understood
<1> QED
  BY <1>2, <1>3

(* The client's side, together. *)
ClientInv ==
    Counts /\ Faithful /\ ClientNumbers /\ MessagesUnread /\ Order
    /\ SeenIsHanded

(* The client has sent nothing at first.                                   *)
LEMMA ClientInit == Init => ClientInv
BY CountsInit
   DEF Init, ClientInv, Faithful, ClientNumbers, MessagesUnread, Order,
       SeenIsHanded, Sent, OnSocket, Used, Ends, Read

(* The parts about the client's packets hold together.                     *)
LEMMA ClientStep ==
    ASSUME NoWrap
    PROVE  TypeInv /\ ClientInv /\ [Next]_vars => ClientInv'
BY CountsStep, FaithfulStep, ClientNumbersStep, MessagesUnreadStep, OrderStep,
   SeenIsHandedStep
   DEF ClientInv, Counts

(* A handler may trust the mark of the middleware, and is handed the       *)
(* plaintext of an exchange once, through resends, rotations and Dispose,  *)
(* as long as the numbers do not wrap and the window does not evict.       *)
THEOREM HandedOnce ==
    ASSUME NoWrap, NothingEvicted
    PROVE  Spec => []RequestsOnce
<1> DEFINE I == ClientInv /\ HandedIsSeen /\ RequestsOnce
<1>1. Init => I
  BY ClientInit DEF Init, HandedIsSeen, RequestsOnce
<1>2. TypeInv /\ I /\ [Next]_vars => I'
  BY ClientStep, HandedIsSeenStep, RequestsOnceStep DEF ClientInv, Counts
<1>3. I => RequestsOnce
  OBVIOUS
<1> QED
  BY <1>1, <1>2, <1>3, TypeHolds, PTL DEF Spec
-----------------------------------------------------------------------------
(* The actions that neither answer, nor read an answer, nor take keys away *)
(* leave the server's side alone.                                          *)
LEMMA AnswersUnreadElse ==
    ASSUME TypeInv, [Next]_vars, ~(WriteBack \/ InterceptorReturn),
           ~(DecryptResponse \/ InvokeReturn)
    PROVE  /\ responses' = responses
           /\ sendSeq'["server"] = sendSeq["server"]
           /\ receivedPackets'["client"] \subseteq receivedPackets["client"]
<1>1. CASE Rekey
  BY <1>1, SpendFacts DEF Rekey, rpc, Ends
<1>2. CASE EncryptRequest \/ Invoke
  <2>1. /\ UNCHANGED <<responses, receivedPackets>>
        /\ UNCHANGED sendSeq \/ Spend("client")
    BY <1>2, BeginEffect
  <2> QED
    BY <2>1, SpendFacts DEF Ends
<1>3. CASE Send
  BY <1>3, SpendFacts DEF Send, rpc, Ends
<1>4. CASE ApplyRekey
  <2>1. /\ UNCHANGED <<sendSeq, responses>>
        /\ \E m \in Messages : Consume("server", m)
    BY <1>4, ApplyEffect DEF ApplyRekey, rpc
  <2> QED
    BY <2>1, ConsumeFacts DEF Ends
<1>5. CASE \E e \in Ends : Dispose(e)
  BY <1>5 DEF Dispose, rpc, TypeInv, Ends
<1>6. CASE Middleware \/ ServerInterceptor
  <2>1. PICK r \in requests :
           /\ UNCHANGED <<sendSeq, responses>>
           /\ UNCHANGED receivedPackets \/ Consume("server", r.message)
    BY <1>6, ServeEffect
  <2>2. r.message \in Messages
    BY DEF TypeInv, Requests
  <2> QED
    BY <2>1, <2>2, ConsumeFacts DEF Ends
<1>7. CASE OnMessage
  <2>1. /\ UNCHANGED <<sendSeq, responses>>
        /\ socket # <<>> /\ Consume("server", Head(socket))
    BY <1>7 DEF OnMessage, rpc
  <2> QED
    BY <2>1, SocketFacts, ConsumeFacts DEF Ends
<1>8. CASE Resend \/ Write \/ OnDecrypted \/ UNCHANGED vars
  BY <1>8 DEF Resend, Write, OnDecrypted, vars, session, rpc
<1> QED
  BY <1>1, <1>2, <1>3, <1>4, <1>5, <1>6, <1>7, <1>8, NextCases

(* An answer is read where its number enters the client's window.          *)
LEMMA AnswersUnreadStep ==
    ASSUME NoWrap
    PROVE  TypeInv /\ ServerCount /\ AnswersUnread /\ [Next]_vars
               => AnswersUnread'
<1> SUFFICES ASSUME TypeInv, ServerCount, AnswersUnread, [Next]_vars
             PROVE  AnswersUnread'
  OBVIOUS
<1>1. /\ sendSeq["server"] \in Seqs /\ sendSeq'["server"] \in Seqs
      /\ Seqs \subseteq Nat
  <2>1. Seqs \subseteq Nat
    BY SeqModAssumption DEF Seqs
  <2> QED
    BY <2>1, TypeStep DEF TypeInv, Ends
<1>2. CASE WriteBack \/ InterceptorReturn
  <2>1. PICK act \in running, r \in Responses :
           /\ responses' = responses \/ responses' = responses \cup {r}
           /\ receivedPackets' = receivedPackets
           /\ \/ /\ key["server"] # Nil
                 /\ r.message = Sealed("server", Answer(act.n))
                 /\ Spend("server")
              \/ r.message.seal = Nil /\ UNCHANGED sendSeq
    BY <1>2, RespondEffect
  <2>2. CASE r.message.seal = Nil /\ UNCHANGED sendSeq
    <3>1. Used("server")' = Used("server")
      BY <2>2 DEF Used
    <3> QED
      BY <2>1, <2>2, <3>1 DEF AnswersUnread
  <2>3. CASE /\ r.message = Sealed("server", Answer(act.n))
             /\ Spend("server")
    <3>1. sendSeq'["server"] = sendSeq["server"] + 1
      BY <2>3, ServerRoom, SpendFacts DEF Ends
    <3>2. /\ r.message.seal.seq = sendSeq["server"]
      BY <2>3 DEF Sealed
    <3>3. /\ Used("server") \subseteq Used("server")'
          /\ sendSeq["server"] \in Used("server")'
          /\ sendSeq["server"] \notin Used("server")
      BY <1>1, <3>1 DEF Used, Seqs
    <3> HIDE <2>3
    <3> QED
      BY <2>1, <3>2, <3>3 DEF AnswersUnread
  <2> QED
    BY <2>1, <2>2, <2>3
<1>3. CASE DecryptResponse \/ InvokeReturn
  <2>1. PICK r \in responses :
           /\ Settle(r.x)
           /\ sendSeq' = sendSeq
           /\ \/ /\ Opens("client", r.message)
                 /\ Consume("client", r.message)
              \/ UNCHANGED receivedPackets
    BY <1>3, ReadEffect
  <2>2. /\ responses' = {q \in responses : q.x # r.x}
        /\ Used("server")' = Used("server")
    BY <2>1 DEF Settle, Used
  <2>3. CASE UNCHANGED receivedPackets
    BY <2>2, <2>3 DEF AnswersUnread
  <2>4. CASE Opens("client", r.message) /\ Consume("client", r.message)
    <3>1. r.message \in Messages /\ r.message.seal # Nil
      BY <2>4 DEF TypeInv, Responses, Opens
    <3>2. receivedPackets'["client"] \subseteq
             receivedPackets["client"] \cup {r.message.seal.seq}
      BY <2>4, <3>1, ConsumeFacts DEF Ends
    <3> QED
      BY <2>2, <3>1, <3>2 DEF AnswersUnread
  <2> QED
    BY <2>1, <2>3, <2>4
<1>4. ASSUME ~(WriteBack \/ InterceptorReturn),
             ~(DecryptResponse \/ InvokeReturn)
      PROVE  AnswersUnread'
  <2>1. /\ responses' = responses
        /\ sendSeq'["server"] = sendSeq["server"]
        /\ receivedPackets'["client"] \subseteq receivedPackets["client"]
    BY <1>4, AnswersUnreadElse
  <2>2. Used("server")' = Used("server")
    BY <2>1 DEF Used
  <2> QED
    BY <2>1, <2>2 DEF AnswersUnread
<1> QED
  BY <1>2, <1>3, <1>4

(* How the calm texts change: a change of keys ends the calm, and what is  *)
(* new in it is the text of a call that begins.                            *)
LEMMA CalmEffect ==
    ASSUME TypeInv, [Next]_vars
    PROVE  \/ calm' = {}
           \/ calm' = calm /\ key' = key
           \/ /\ key' = key
              /\ key["client"] # Nil /\ key["client"] = key["server"]
              /\ \/ /\ EncryptRequest \/ Invoke
                    /\ calm' = calm \cup {Request(exchanges + 1)}
                 \/ Send /\ calm' = calm \cup {Message(sent + 1)}
<1>1. CASE Rekey \/ ApplyRekey \/ \E e \in Ends : Dispose(e)
  BY <1>1 DEF Rekey, ApplyRekey, Dispose, Change
<1>2. CASE EncryptRequest \/ Invoke
  BY <1>2, BeginEffect
<1>3. CASE Send
  BY <1>3 DEF Send, Calmly
<1>4. CASE Middleware \/ ServerInterceptor
  BY <1>4, ServeEffect
<1>5. CASE Resend \/ (WriteBack \/ InterceptorReturn)
           \/ (DecryptResponse \/ InvokeReturn) \/ Write \/ OnDecrypted
           \/ OnMessage \/ UNCHANGED vars
  BY <1>5
     DEF Resend, WriteBack, InterceptorReturn, DecryptResponse, InvokeReturn,
         Write, OnDecrypted, OnMessage, vars, session
<1> QED
  BY <1>1, <1>2, <1>3, <1>4, <1>5, NextCases

(* What the exchanges and the messages so far are called.                  *)
Names ==
    {Request(x) : x \in 1 .. exchanges} \cup {Message(i) : i \in 1 .. sent}

(* The text that becomes calm is new.                                      *)
LEMMA NewNames ==
    ASSUME TypeInv
    PROVE  /\ Request(exchanges + 1) \notin Names
           /\ Message(sent + 1) \notin Names
<1>1. exchanges \in Nat /\ sent \in Nat
  BY DEF TypeInv
<1> QED
  BY <1>1 DEF Names, Request, Message

(* Nothing that travels names an exchange or a message to come.            *)
LEMMA OldNames ==
    ASSUME TypeInv, Faithful, MessagesUnread
    PROVE  /\ \A m \in Sent : m.text \in Names \/ m.text[1] = "token"
           /\ \A r \in requests : Request(r.x) \in Names
           /\ \A a \in served : Request(a.x) \in Names
           /\ \A r \in responses : Request(r.x) \in Names
           /\ \A r \in results : Request(r.x) \in Names
           /\ \A i \in DOMAIN written : written[i] \in Names
           /\ \A t \in Names : t[1] # "token"
<1>1. /\ \A r \in requests : Request(r.x) \in Names
      /\ \A a \in served : Request(a.x) \in Names
      /\ \A r \in responses : Request(r.x) \in Names
      /\ \A r \in results : Request(r.x) \in Names
  BY DEF TypeInv, Names
<1>2. \A t \in Names : t[1] # "token"
  BY DEF Names, Request, Message
<1>3. \A i \in DOMAIN written : written[i] \in Names
  BY DEF MessagesUnread, Names
<1>4. ASSUME NEW m \in Sent
      PROVE  m.text \in Names \/ m.text[1] = "token"
  <2>1. CASE m \in tokens
    BY <2>1 DEF MessagesUnread
  <2>2. CASE m \in outbox \cup OnSocket
    BY <2>2 DEF MessagesUnread, Names
  <2>3. CASE \E r \in requests : m = r.message /\ m.seal # Nil
    BY <1>1, <2>3, TextFacts DEF Faithful
  <2> QED
    BY <2>1, <2>2, <2>3 DEF Sent
<1> QED
  BY <1>1, <1>2, <1>3, <1>4

(* A text is calm from its sealing until the next change of keys.          *)
LEMMA CalmKeysStep ==
    ASSUME NoWrap
    PROVE  TypeInv /\ ClientCount /\ Faithful /\ MessagesUnread /\ CalmKeys
           /\ [Next]_vars => CalmKeys'
<1> SUFFICES ASSUME TypeInv, ClientCount, Faithful, MessagesUnread, CalmKeys,
                    [Next]_vars
             PROVE  CalmKeys'
  OBVIOUS
<1>1. CASE calm' = {}
  BY <1>1 DEF CalmKeys
<1>2. CASE calm' # {}
  <2>1. /\ key' = key
        /\ key["client"] # Nil /\ key["client"] = key["server"]
        /\ \A t \in calm' : \/ t \in calm
                            \/ /\ EncryptRequest \/ Invoke
                               /\ t = Request(exchanges + 1)
                            \/ Send /\ t = Message(sent + 1)
    BY <1>2, CalmEffect DEF CalmKeys
  <2>2. calm \subseteq Names
    BY DEF CalmKeys, Names
  <2>3. calm' \subseteq Names'
    <3>1. Names \subseteq Names'
      <4>1. /\ exchanges \in Nat /\ sent \in Nat
            /\ exchanges' \in Nat /\ sent' \in Nat
            /\ exchanges <= exchanges' /\ sent <= sent'
        <5>1. CASE Sealing
          <6>1. /\ exchanges' = exchanges \/ exchanges' = exchanges + 1
                /\ sent' = sent \/ sent' = sent + 1
            BY <5>1, BeginEffect DEF Sealing, Rekey, Send, web, rpc
          <6> QED
            BY <6>1, TypeStep DEF TypeInv
        <5>2. CASE ~Sealing
          BY <5>2, NothingSealed DEF TypeInv
        <5> QED
          BY <5>1, <5>2
      <4> QED
        BY <4>1 DEF Names
    <3>2. EncryptRequest \/ Invoke => Request(exchanges + 1) \in Names'
      <4>1. EncryptRequest \/ Invoke => exchanges + 1 \in 1 .. exchanges'
        BY BeginEffect DEF TypeInv
      <4> QED
        BY <4>1 DEF Names
    <3>3. Send => Message(sent + 1) \in Names'
      BY DEF Names, TypeInv, Send
    <3> QED
      BY <2>1, <2>2, <3>1, <3>2, <3>3
  <2>4. \A t \in Names : t \in calm' => t \in calm
    BY <2>1, NewNames
  <2>5. ASSUME NEW m \in Sent', m.text \in calm'
        PROVE  m.seal.key = key["client"]
    <3>1. CASE m \in Sent
      <4>1. m.text \in Names \/ m.text[1] = "token"
        BY <3>1, OldNames
      <4>2. m.text \in calm
        BY <2>1, <2>2, <2>4, <2>5, <4>1, OldNames DEF Request, Message
      <4> QED
        BY <3>1, <4>2 DEF CalmKeys
    <3>2. CASE m \notin Sent
      <4>1. Sealing
        BY <2>5, <3>2, NothingSealed
      <4> QED
        BY <2>5, <3>2, <4>1, SealingEffect
    <3> QED
      BY <3>1, <3>2
  <2>6. ASSUME NEW r \in responses', Request(r.x) \in calm',
               r.message.seal # Nil
        PROVE  r.message.seal.key = key["server"]
    <3>1. CASE r \in responses
      BY <2>4, <2>6, <3>1, OldNames DEF CalmKeys
    <3>2. CASE r \notin responses
      <4>1. WriteBack \/ InterceptorReturn
        BY <2>6, <3>2, ReadEffect, AnswersUnreadElse DEF Settle
      <4>2. PICK act \in running :
               \/ r.message = Sealed("server", Answer(act.n))
               \/ r.message.seal = Nil
        BY <2>6, <3>2, <4>1, RespondEffect
      <4> QED
        BY <2>6, <4>2 DEF Sealed
    <3> QED
      BY <3>1, <3>2
  <2> QED
    BY <2>1, <2>3, <2>5, <2>6 DEF CalmKeys, Names
<1> QED
  BY <1>1, <1>2

(* A calm request that does not open has been handed over before.          *)
LEMMA CalmRequestOpens ==
    ASSUME TypeInv, Faithful, ClientNumbers, SeenIsHanded, CalmKeys,
           NEW r \in requests, r.message.seal # Nil, Request(r.x) \in calm,
           ~Opens("server", r.message)
    PROVE  Handed(r.x)
<1>1. r.message \in Sent /\ r.message.text = Request(r.x)
  BY TextFacts DEF Sent, Faithful
<1>2. /\ r.message.seal.key = key["server"] /\ key["server"] # Nil
  BY <1>1 DEF ClientNumbers, CalmKeys
<1>3. r.message.seal.seq \in receivedPackets["server"]
  BY <1>2 DEF Opens
<1> QED
  BY <1>3 DEF SeenIsHanded

(* A calm answer opens.                                                    *)
LEMMA CalmAnswerOpens ==
    ASSUME AnswersUnread, CalmKeys, NEW r \in responses,
           r.message.seal # Nil, Request(r.x) \in calm
    PROVE  Opens("client", r.message)
BY DEF AnswersUnread, CalmKeys, Opens

(* A calm request opens unless its number was seen, a calm answer opens.   *)
LEMMA CalmExchangeStep ==
    ASSUME NoWrap
    PROVE  TypeInv /\ ClientInv /\ Answers /\ AnswersUnread /\ CalmKeys
           /\ CalmExchange /\ [Next]_vars => CalmExchange'
<1> SUFFICES ASSUME TypeInv, ClientInv, Answers, AnswersUnread, CalmKeys,
                    CalmExchange, [Next]_vars
             PROVE  CalmExchange'
  OBVIOUS
<1>1. Faithful /\ MessagesUnread /\ ClientNumbers /\ SeenIsHanded
  BY DEF ClientInv
<1>2. \A t \in Names : t \in calm' => t \in calm
  BY CalmEffect, NewNames
<1>3. ASSUME NEW a \in served'
      PROVE  \/ Request(a.x) \notin calm'
             \/ Understood(a) \/ a.arrived = Nothing
             \/ \E b \in served' : b.x = a.x /\ Understood(b)
  <2>1. CASE a \in served
    <3>1. Request(a.x) \in calm' => Request(a.x) \in calm
      BY <1>1, <1>2, <2>1, OldNames
    <3> QED
      BY <2>1, <3>1, ServedStays DEF CalmExchange
  <2>2. CASE a \notin served
    <3>1. Middleware \/ ServerInterceptor
      BY <1>3, <2>2, NextCases, BeginEffect
         DEF Rekey, ApplyRekey, Dispose, Resend, WriteBack,
             InterceptorReturn, DecryptResponse, InvokeReturn, Send, Write,
             OnDecrypted, OnMessage, vars, rpc
    <3>2. PICK r \in requests, act \in Acts :
             /\ served' = served \cup {act}
             /\ act.x = r.x /\ act.arrived = r.message
             /\ calm' = calm
             /\ \/ /\ Opens("server", r.message)
                   /\ act.message = Plain(r.message.text)
                \/ /\ r.kind = "http" /\ r.marked
                         => ~Opens("server", r.message)
                   /\ r.kind = "grpc" => ~Opens("server", r.message)
      BY <3>1, ServeEffect
    <3>3. a = act
      BY <1>3, <2>2, <3>2
    <3>4. CASE /\ Opens("server", r.message)
               /\ act.message = Plain(r.message.text)
      <4>1. r.message.text = Request(r.x)
        BY <1>1, <3>4, TextFacts DEF Opens, Faithful
      <4> QED
        BY <3>2, <3>3, <3>4, <4>1 DEF Understood
    <3>5. CASE /\ r.kind = "http" /\ r.marked => ~Opens("server", r.message)
               /\ r.kind = "grpc" => ~Opens("server", r.message)
      <4>1. CASE r.message = Nothing
        BY <3>2, <3>3, <4>1
      <4>2. CASE r.message # Nothing
        <5>1. /\ r.message.seal # Nil
              /\ r.kind = "http" => r.marked
              /\ r.kind \in {"http", "grpc"}
          BY <1>1, <4>2 DEF Faithful, TypeInv, Requests
        <5>2. ~Opens("server", r.message)
          BY <3>5, <5>1
        <5>3. Request(r.x) \in calm => Handed(r.x)
          BY <1>1, <5>1, <5>2, CalmRequestOpens
        <5> QED
          BY <3>2, <3>3, <5>3 DEF Handed
      <4> QED
        BY <4>1, <4>2
    <3> QED
      BY <3>2, <3>4, <3>5
  <2> QED
    BY <2>1, <2>2
<1>4. ASSUME NEW o \in results', Request(o.x) \in calm'
      PROVE  CASE o.kind = "http" -> o.message # Failed
               [] o.kind = "grpc" -> o.message.seal = Nil
               [] OTHER -> TRUE
  <2>1. CASE o \in results
    <3>1. Request(o.x) \in calm
      BY <1>1, <1>2, <1>4, <2>1, OldNames
    <3> QED
      BY <2>1, <3>1 DEF CalmExchange
  <2>2. CASE o \notin results /\ (EncryptRequest \/ Invoke)
    <3>1. \/ /\ o.x = exchanges + 1 /\ calm' = calm
          \/ o.kind = "none"
      BY <1>4, <2>2, BeginEffect
    <3>2. ~(o.x = exchanges + 1 /\ calm' = calm)
      BY <1>4, NewNames DEF CalmKeys, Names
    <3> QED
      BY <3>1, <3>2
  <2>3. CASE o \notin results /\ (DecryptResponse \/ InvokeReturn)
    <3>1. PICK r \in responses, p \in Responses :
              /\ results' = results \cup {p}
              /\ p.x = r.x /\ p.kind = r.kind
              /\ calm' = calm
              /\ \/ /\ Opens("client", r.message)
                    /\ r.kind = "http" => r.marked
                    /\ p.message = Plain(r.message.text)
                 \/ /\ ~Opens("client", r.message)
                    /\ IF r.kind = "http" THEN r.marked /\ p.message = Failed
                                          ELSE p.message = r.message
                 \/ /\ r.kind = "http" /\ ~r.marked
                    /\ p.message = r.message
      BY <2>3, ReadEffect
    <3>2. o = p /\ Request(r.x) \in calm
      BY <1>4, <2>3, <3>1
    <3>3. r.kind = "http" =>
             \E a \in served :
                IF r.marked
                  THEN /\ r.message.seal # Nil
                       /\ r.message.text = Answer(a.n)
                  ELSE r.message \in {Nothing, Plain(Answer(a.n))}
      BY DEF Answers
    <3>4. \A a \in served : /\ Failed # Plain(Answer(a.n))
                            /\ Failed # Nothing
      BY KindsDiffer DEF TypeInv, Acts
    <3>5. r.message.seal # Nil => Opens("client", r.message)
      BY <3>2, CalmAnswerOpens
    <3>6. CASE r.kind = "http"
      <4>1. PICK a \in served :
                IF r.marked
                  THEN /\ r.message.seal # Nil
                       /\ r.message.text = Answer(a.n)
                  ELSE r.message \in {Nothing, Plain(Answer(a.n))}
        BY <3>3, <3>6
      <4>2. CASE r.marked
        <5>1. /\ Opens("client", r.message)
              /\ r.message.text = Answer(a.n)
          BY <3>5, <4>1, <4>2
        <5>2. p.message = Plain(Answer(a.n))
          BY <3>1, <3>6, <4>2, <5>1
        <5> QED
          BY <3>1, <3>2, <3>4, <3>6, <5>2
      <4>3. CASE ~r.marked
        <5>1. p.message \in {Nothing, Plain(Answer(a.n))}
          BY <3>1, <3>6, <4>1, <4>3
        <5> QED
          BY <3>1, <3>2, <3>4, <3>6, <5>1
      <4> QED
        BY <4>2, <4>3
    <3>7. CASE r.kind # "http"
      <4>1. \/ p.message = Plain(r.message.text)
            \/ ~Opens("client", r.message) /\ p.message = r.message
        BY <3>1, <3>7
      <4>2. Plain(r.message.text).seal = Nil
        BY DEF Plain
      <4>3. p.message.seal = Nil
        BY <3>5, <4>1, <4>2
      <4> QED
        BY <3>1, <3>2, <3>7, <4>3
    <3> QED
      BY <3>6, <3>7
  <2>4. CASE ~(EncryptRequest \/ Invoke) /\ ~(DecryptResponse \/ InvokeReturn)
    <3>1. results' = results
      BY <2>4, NextCases, ServeEffect
         DEF Rekey, ApplyRekey, Dispose, Resend, WriteBack,
             InterceptorReturn, Send, Write, OnDecrypted, OnMessage, vars,
             rpc
    <3> QED
      BY <1>4, <2>1, <3>1
  <2> QED
    BY <2>1, <2>2, <2>3, <2>4
<1> QED
  BY <1>3, <1>4 DEF CalmExchange

(* The order of what a handler heard. *)
LEMMA HeardStep ==
    TypeInv /\ ClientInv /\ CalmKeys /\ Heard /\ [Next]_vars => Heard'
<1> SUFFICES ASSUME TypeInv, ClientInv, CalmKeys, Heard, [Next]_vars
             PROVE  Heard'
  OBVIOUS
<1>1. /\ Faithful /\ MessagesUnread /\ ClientNumbers /\ Order
      /\ Len(written) \in Nat /\ Len(socket) \in Nat
      /\ DOMAIN written = 1 .. Len(written)
      /\ Read \in Nat /\ Read <= Len(written)
  BY DEF ClientInv, Order, Read, TypeInv
<1>2. \A j \in DOMAIN written : written[j] \in calm' => written[j] \in calm
  BY <1>1, CalmEffect, NewNames, OldNames
<1>3. CASE OnMessage
  <2> DEFINE m == Head(socket)
  <2>1. /\ socket # <<>> /\ socket' = Tail(socket) /\ written' = written
        /\ calm' = calm
    BY <1>3 DEF OnMessage
  <2>2. /\ m = socket[1] /\ 1 \in DOMAIN socket
        /\ Len(socket') = Len(socket) - 1
    BY <2>1, SocketFacts
  <2>3. /\ Read' = Read + 1 /\ Read + 1 <= Len(written)
        /\ m.text = written[Read + 1]
    <3>1. Len(socket) >= 1
      BY <1>1, <2>2 DEF TypeInv
    <3>2. Read' = Read + 1 /\ Read + 1 <= Len(written)
      BY <1>1, <2>1, <2>2, <3>1 DEF Read
    <3> QED
      BY <1>1, <2>2, <3>2 DEF Order
  <2>4. m \in Sent /\ m \in OnSocket
    BY <2>1, <2>2 DEF Sent, OnSocket
  <2>5. CASE Opens("server", m)
    <3>1. heard' = [h \in DOMAIN heard |-> Append(heard[h], m.text)]
      BY <1>3, <2>5 DEF OnMessage
    <3> SUFFICES ASSUME NEW h \in DOMAIN heard, NEW i \in DOMAIN heard'[h]
                 PROVE  Turn(heard'[h], i, written, Read + 1, calm)
      <4>1. \A h \in DOMAIN heard : \A i \in DOMAIN heard'[h] :
               InTurn(heard[h], i)'
        BY <2>1, <2>3 DEF InTurn
      <4> QED
        BY <3>1, <4>1 DEF Heard
    <3>2. heard[h] \in Seq(Texts) /\ m.text \in Texts
      BY <2>1, SocketFacts DEF TypeInv, Packets
    <3>3. /\ heard'[h] = Append(heard[h], m.text)
          /\ Len(heard[h]) \in Nat
          /\ DOMAIN heard[h] = 1 .. Len(heard[h])
          /\ Len(heard'[h]) = Len(heard[h]) + 1
          /\ DOMAIN heard'[h] = 1 .. Len(heard[h]) + 1
          /\ \A k \in 1 .. Len(heard[h]) : heard'[h][k] = heard[h][k]
          /\ heard'[h][Len(heard[h]) + 1] = m.text
      BY <3>1, <3>2, AppendProperties
    <3>4. CASE i = Len(heard[h]) + 1
      <4>1. /\ Read + 1 \in 1 .. Read + 1
            /\ written[Read + 1] = heard'[h][i]
            /\ \A j \in (Read + 1) + 1 .. Read + 1 : FALSE
        BY <1>1, <2>3, <3>3, <3>4
      <4> QED
        BY <3>3, <3>4, <4>1 DEF Turn
    <3>5. CASE i \in 1 .. Len(heard[h])
      <4>1. PICK p \in 1 .. Read :
               /\ written[p] = heard[h][i]
               /\ IF i = Len(heard[h])
                    THEN \A j \in p + 1 .. Read : written[j] \notin calm
                    ELSE \E q \in p + 1 .. Read :
                            /\ written[q] = heard[h][i + 1]
                            /\ \A j \in p + 1 .. q - 1 :
                                  written[j] \notin calm
        <5>1. InTurn(heard[h], i)
          BY <3>3, <3>5 DEF Heard
        <5> QED
          BY <5>1 DEF InTurn, Turn
      <4>2. /\ p \in 1 .. Read + 1 /\ i # Len(heard'[h])
            /\ written[p] = heard'[h][i]
        BY <1>1, <3>3, <3>5, <4>1
      <4>3. CASE i = Len(heard[h])
        <5>1. /\ Read + 1 \in p + 1 .. Read + 1
              /\ written[Read + 1] = heard'[h][i + 1]
              /\ \A j \in p + 1 .. (Read + 1) - 1 : written[j] \notin calm
          BY <1>1, <2>3, <3>3, <4>1, <4>3
        <5> QED
          BY <4>2, <5>1 DEF Turn
      <4>4. CASE i # Len(heard[h])
        <5>1. PICK q \in p + 1 .. Read :
                 /\ written[q] = heard[h][i + 1]
                 /\ \A j \in p + 1 .. q - 1 : written[j] \notin calm
          BY <4>1, <4>4
        <5>2. /\ q \in p + 1 .. Read + 1
              /\ written[q] = heard'[h][i + 1]
          BY <1>1, <3>3, <3>5, <4>1, <4>4, <5>1
        <5> QED
          BY <4>2, <5>1, <5>2 DEF Turn
      <4> QED
        BY <4>3, <4>4
    <3> QED
      BY <3>3, <3>4, <3>5
  <2>6. CASE ~Opens("server", m)
    <3>1. heard' = heard
      BY <1>3, <2>6 DEF OnMessage
    <3>2. m.text \notin calm
      <4>1. /\ m.seal.seq \notin receivedPackets["server"]
            /\ m.seal # Nil
        BY <1>1, <2>1, <2>4, SocketFacts, TextFacts
           DEF ClientNumbers, MessagesUnread
      <4>2. m.text \in calm => /\ m.seal.key = key["server"]
                               /\ key["server"] # Nil
        BY <2>4 DEF CalmKeys
      <4> QED
        BY <2>6, <4>1, <4>2 DEF Opens
    <3>3. \A p \in 1 .. Read :
             (\A j \in p + 1 .. Read : written[j] \notin calm)
                => \A j \in p + 1 .. Read + 1 : written[j] \notin calm
      BY <1>1, <2>3, <3>2
    <3>4. \A p \in 1 .. Read : /\ p \in 1 .. Read + 1
                               /\ p + 1 .. Read \subseteq p + 1 .. Read + 1
      BY <1>1
    <3> SUFFICES ASSUME NEW h \in DOMAIN heard, NEW i \in DOMAIN heard[h]
                 PROVE  Turn(heard'[h], i, written, Read + 1, calm)
      <4>1. \A h \in DOMAIN heard : \A i \in DOMAIN heard[h] :
               InTurn(heard[h], i)'
        BY <2>1, <2>3 DEF InTurn
      <4> QED
        BY <3>1, <4>1 DEF Heard
    <3>5. PICK p \in 1 .. Read :
             /\ written[p] = heard[h][i]
             /\ IF i = Len(heard[h])
                  THEN \A j \in p + 1 .. Read : written[j] \notin calm
                  ELSE \E q \in p + 1 .. Read :
                          /\ written[q] = heard[h][i + 1]
                          /\ \A j \in p + 1 .. q - 1 : written[j] \notin calm
      <4>1. InTurn(heard[h], i)
        BY DEF Heard
      <4> QED
        BY <4>1 DEF InTurn, Turn
    <3>6. CASE i = Len(heard[h])
      BY <3>1, <3>3, <3>4, <3>5, <3>6 DEF Turn
    <3>7. CASE i # Len(heard[h])
      BY <3>1, <3>4, <3>5, <3>7 DEF Turn
    <3> QED
      BY <3>6, <3>7
  <2> QED
    BY <2>5, <2>6
<1>4. CASE ~OnMessage
  <2>1. /\ Read' = Read
        /\ \A j \in 1 .. Read : written'[j] = written[j]
    <3>1. CASE Write
      <4>1. PICK m \in outbox : /\ socket' = Append(socket, m)
                                /\ written' = Append(written, m.text)
        BY <3>1 DEF Write
      <4>2. /\ m \in Packets /\ socket \in Seq(Packets)
            /\ m.text \in Texts /\ written \in Seq(Texts)
        BY DEF TypeInv, Packets
      <4>3. /\ Len(socket') = Len(socket) + 1
            /\ Len(written') = Len(written) + 1
            /\ \A i \in 1 .. Len(written) : written'[i] = written[i]
        BY <4>1, <4>2, AppendProperties
      <4> QED
        BY <1>1, <4>3 DEF Read
    <3>2. CASE ~Write
      <4>1. CASE Middleware \/ ServerInterceptor
        BY <4>1, ServeEffect DEF web, Read
      <4>2. CASE EncryptRequest \/ Invoke
        BY <4>2, BeginEffect DEF web, Read
      <4> QED
        BY <1>4, <3>2, <4>1, <4>2, NextCases
           DEF Rekey, ApplyRekey, Dispose, Resend, WriteBack,
               InterceptorReturn, DecryptResponse, InvokeReturn, Send,
               OnDecrypted, vars, web, Read
    <3> QED
      BY <3>1, <3>2
  <2>2. \A j \in 1 .. Read : written'[j] \in calm' => written[j] \in calm
    BY <1>1, <1>2, <2>1
  <2>3. \/ heard' = heard
        \/ heard' = Append(heard, <<>>)
    <3>1. CASE Middleware \/ ServerInterceptor
      BY <3>1, ServeEffect DEF web
    <3>2. CASE EncryptRequest \/ Invoke
      BY <3>2, BeginEffect DEF web
    <3> QED
      BY <1>4, <3>1, <3>2, NextCases
         DEF Rekey, ApplyRekey, Dispose, Resend, WriteBack,
             InterceptorReturn, DecryptResponse, InvokeReturn, Send, Write,
             OnDecrypted, vars, web
  <2>4. \A h \in DOMAIN heard' :
           \/ h \in DOMAIN heard /\ heard'[h] = heard[h]
           \/ DOMAIN heard'[h] = {}
    <3>1. heard \in Seq(Seq(Texts)) /\ <<>> \in Seq(Texts)
      BY DEF TypeInv
    <3> QED
      <4>1. CASE heard' = Append(heard, <<>>)
        <5>1. /\ DOMAIN heard' = 1 .. Len(heard) + 1
              /\ DOMAIN heard = 1 .. Len(heard) /\ Len(heard) \in Nat
              /\ \A h \in 1 .. Len(heard) : heard'[h] = heard[h]
              /\ heard'[Len(heard) + 1] = <<>>
          BY <3>1, <4>1, AppendProperties
        <5> QED
          BY <5>1
      <4> QED
        BY <2>3, <4>1
  <2> SUFFICES ASSUME NEW h \in DOMAIN heard, NEW i \in DOMAIN heard[h],
                      heard'[h] = heard[h]
               PROVE  Turn(heard'[h], i, written', Read, calm')
    <3>1. \A h \in DOMAIN heard : \A i \in DOMAIN heard[h] :
             heard'[h] = heard[h] => InTurn(heard[h], i)'
      BY <2>1 DEF InTurn
    <3> QED
      BY <2>4, <3>1 DEF Heard
  <2>5. PICK p \in 1 .. Read :
           /\ written[p] = heard[h][i]
           /\ IF i = Len(heard[h])
                THEN \A j \in p + 1 .. Read : written[j] \notin calm
                ELSE \E q \in p + 1 .. Read :
                        /\ written[q] = heard[h][i + 1]
                        /\ \A j \in p + 1 .. q - 1 : written[j] \notin calm
    <3>1. InTurn(heard[h], i)
      BY DEF Heard
    <3> QED
      BY <3>1 DEF InTurn, Turn
  <2>6. /\ p + 1 .. Read \subseteq 1 .. Read
        /\ \A q \in p + 1 .. Read : p + 1 .. q - 1 \subseteq 1 .. Read
    BY <1>1
  <2>7. CASE i = Len(heard[h])
    BY <2>1, <2>2, <2>5, <2>6, <2>7 DEF Turn
  <2>8. CASE i # Len(heard[h])
    <3>1. PICK q \in p + 1 .. Read :
             /\ written[q] = heard[h][i + 1]
             /\ \A j \in p + 1 .. q - 1 : written[j] \notin calm
      BY <2>5, <2>8
    <3>2. /\ written'[q] = heard[h][i + 1]
          /\ \A j \in p + 1 .. q - 1 : written'[j] \notin calm'
      BY <2>1, <2>2, <2>6, <3>1
    <3> QED
      BY <2>1, <2>5, <2>8, <3>1, <3>2 DEF Turn
  <2> QED
    BY <2>7, <2>8
<1> QED
  BY <1>3, <1>4

(* Everything that holds without a word on what the window evicts.         *)
CalmInv == ClientInv /\ Answers /\ AnswersUnread /\ CalmKeys

(* Nothing is calm at first.                                               *)
LEMMA CalmInit == Init => CalmInv
BY ClientInit
   DEF Init, CalmInv, Answers, AnswersIntact, AnswersUnread, CalmKeys, Sent,
       OnSocket, Used, Ends

(* Every action keeps the parts together.                                  *)
LEMMA CalmStep ==
    ASSUME NoWrap
    PROVE  TypeInv /\ CalmInv /\ [Next]_vars => CalmInv'
BY ClientStep, AnswersStep, AnswersUnreadStep, CalmKeysStep
   DEF CalmInv, ClientInv, Counts

(* They hold throughout.                                                   *)
LEMMA CalmHolds ==
    ASSUME NoWrap
    PROVE  Spec => []CalmInv
BY CalmInit, CalmStep, TypeHolds, PTL DEF Spec

(* As long as the numbers do not wrap only a change of keys disturbs an    *)
(* exchange: what begins in the calm is handed over, and answered without  *)
(* an error, unless it could not be read or was handed over before.        *)
THEOREM CalmIsServed ==
    ASSUME NoWrap
    PROVE  Spec => []CalmExchange
<1>1. Init => CalmExchange
  BY DEF Init, CalmExchange
<1>2. TypeInv /\ CalmInv /\ CalmExchange /\ [Next]_vars => CalmExchange'
  BY CalmExchangeStep DEF CalmInv
<1> QED
  BY <1>1, <1>2, TypeHolds, CalmHolds, PTL DEF Spec

(* As long as the client's numbers do not wrap every handler hears the     *)
(* WebSocket's messages in the order they were written, none twice, and    *)
(* misses between two of them none that no change of keys caught.          *)
THEOREM HeardInTurn ==
    ASSUME NoWrap
    PROVE  Spec => []HeardInOrder
<1>1. Init => Heard
  BY DEF Init, Heard
<1>2. TypeInv /\ CalmInv /\ Heard /\ [Next]_vars => Heard'
  BY HeardStep DEF CalmInv
<1>3. TypeInv /\ CalmInv /\ Heard => HeardInOrder
  <2> SUFFICES ASSUME TypeInv, Order, Heard,
                      NEW h \in DOMAIN heard,
                      NEW i \in 1 .. Len(heard[h]) - 1
               PROVE  LET p == Position(heard[h][i])
                          q == Position(heard[h][i + 1])
                      IN  p < q /\ \A j \in p + 1 .. q - 1 :
                                      written[j] \notin calm
    BY DEF HeardInOrder, CalmInv, ClientInv
  <2>1. /\ DOMAIN heard[h] = 1 .. Len(heard[h]) /\ Len(heard[h]) \in Nat
        /\ DOMAIN written = 1 .. Len(written)
        /\ Len(written) \in Nat /\ Len(socket) \in Nat
    BY DEF TypeInv
  <2>2. /\ i \in DOMAIN heard[h] /\ i # Len(heard[h])
        /\ Read \in Nat /\ 1 .. Read \subseteq DOMAIN written
    <3>1. i \in DOMAIN heard[h] /\ i # Len(heard[h])
      BY <2>1
    <3>2. Len(socket) <= Len(written)
      BY DEF Order
    <3>3. Read \in Nat /\ Read <= Len(written)
      BY <2>1, <3>2 DEF Read
    <3>4. 1 .. Read \subseteq 1 .. Len(written)
      BY <2>1, <3>3
    <3> QED
      BY <2>1, <3>1, <3>3, <3>4
  <2>3. PICK p \in 1 .. Read :
           /\ written[p] = heard[h][i]
           /\ \E q \in p + 1 .. Read :
                 /\ written[q] = heard[h][i + 1]
                 /\ \A j \in p + 1 .. q - 1 : written[j] \notin calm
    <3>1. InTurn(heard[h], i)
      BY <2>2 DEF Heard
    <3> QED
      BY <2>2, <3>1 DEF InTurn, Turn
  <2>4. PICK q \in p + 1 .. Read :
           /\ written[q] = heard[h][i + 1]
           /\ \A j \in p + 1 .. q - 1 : written[j] \notin calm
    BY <2>3
  <2>5. \A k \in DOMAIN written : Position(written[k]) = k
    BY DEF Position, Order
  <2>6. Position(heard[h][i]) = p
    BY <2>2, <2>3, <2>5
  <2>7. Position(heard[h][i + 1]) = q
    <3>1. q \in DOMAIN written
      BY <2>2, <2>3, <2>4
    <3> QED
      BY <2>4, <2>5, <3>1
  <2> QED
    BY <2>2, <2>3, <2>4, <2>6, <2>7
<1> QED
  BY <1>1, <1>2, <1>3, TypeHolds, CalmHolds, PTL DEF Spec
=============================================================================
