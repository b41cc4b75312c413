----------------------------- MODULE SessionProofs -----------------------------
(***************************************************************************)
(* Proofs about Session, for any number of calls, connections and items:   *)
(* a call is ended by its own request's answer, and only while client and  *)
(* server count alike.  The second part says whose items a call returns,   *)
(* and that it returns them all: what dropped calls leave in the socket    *)
(* may come before the items of a call in what it returns, but nothing of  *)
(* a call that ended does; get_entity, which takes the last, returns its   *)
(* own; and a call for edges or ids has its whole answer at the end.       *)
(* Fairness is not needed for these.                                       *)
(***************************************************************************)
EXTENDS Session, SequenceTheorems, TLAPS

-----------------------------------------------------------------------------
(* Messages *)

(* What the constructors build are messages: the greeting, *)
LEMMA HelloMessage == Hello \in Messages
  BY DEF Messages

(* an error, *)
LEMMA ErrorMessage ==
    ASSUME NEW id \in 0 .. MaxCalls, NEW of \in 0 .. MaxCalls
    PROVE  ErrorFor(id, of) \in Messages
  BY DEF Messages

(* the end of an answer, *)
LEMMA DoneMessage ==
    ASSUME NEW id \in 0 .. MaxCalls, NEW of \in 0 .. MaxCalls, NEW n \in 0 .. MaxItems
    PROVE  Done(id, of, n) \in Messages
  BY DEF Messages

(* and an item. *)
LEMMA ItemMessage ==
    ASSUME NEW kind \in Kinds, NEW of \in 0 .. MaxCalls, NEW n \in 1 .. MaxItems
    PROVE  Item(kind, of, n) \in Messages
  BY DEF Messages

(* A Done or Error carries two numbers. *)
LEMMA Numbers ==
    ASSUME NEW m \in Messages, m.type \in {"Done", "Error"}
    PROVE  m.id \in 0 .. MaxCalls /\ m.of \in 0 .. MaxCalls
<1>1. CASE m = Hello BY <1>1 DEF Hello
<1>2. ASSUME NEW kind \in Kinds, NEW of \in 0 .. MaxCalls, NEW n \in 1 .. MaxItems,
             m = Item(kind, of, n)
      PROVE  FALSE
  BY <1>2 DEF Item, ItemType, Kinds
<1>3. ASSUME NEW id \in 0 .. MaxCalls, NEW of \in 0 .. MaxCalls, m = ErrorFor(id, of)
      PROVE  m.id \in 0 .. MaxCalls /\ m.of \in 0 .. MaxCalls
  BY <1>3 DEF ErrorFor
<1>4. ASSUME NEW id \in 0 .. MaxCalls, NEW of \in 0 .. MaxCalls, NEW n \in 0 .. MaxItems,
             m = Done(id, of, n)
      PROVE  m.id \in 0 .. MaxCalls /\ m.of \in 0 .. MaxCalls
  BY <1>4 DEF Done
<1>. QED BY <1>1, <1>2, <1>3, <1>4 DEF Messages

-----------------------------------------------------------------------------
(* Sequences of sound messages *)

(* Counters only grow, which keeps a sequence sound. *)
LEMMA SoundLater ==
    ASSUME NEW s \in Seq(Messages), NEW p \in Int, NEW q \in Int, NEW m \in Int, NEW n \in Int,
           p <= q, m <= n, AllSound(s, p, m)
    PROVE  AllSound(s, q, n)
<1> SUFFICES ASSUME NEW i \in 1 .. Len(s), s[i].type \in {"Done", "Error"}
             PROVE  s[i].id <= s[i].of /\ s[i].id < q /\ s[i].of < n
  BY DEF AllSound, Sound
<1>1. s[i] \in Messages OBVIOUS
<1>2. s[i].id \in 0 .. MaxCalls /\ s[i].of \in 0 .. MaxCalls BY <1>1, Numbers
<1>3. s[i].id <= s[i].of /\ s[i].id < p /\ s[i].of < m BY DEF AllSound, Sound
<1>. QED BY <1>2, <1>3, SessionBounds

(* Reading the first message of a sound sequence. *)
LEMMA SoundTail ==
    ASSUME NEW s \in Seq(Messages), s # <<>>, NEW q, NEW n, AllSound(s, q, n)
    PROVE  Tail(s) \in Seq(Messages) /\ AllSound(Tail(s), q, n)
           /\ Head(s) \in Messages /\ Sound(Head(s), q, n)
<1>1. /\ Tail(s) \in Seq(Messages) /\ Head(s) \in Messages
      /\ Len(Tail(s)) = Len(s) - 1 /\ \A i \in 1 .. Len(Tail(s)) : Tail(s)[i] = s[i + 1]
  BY HeadTailProperties
<1>2. Len(s) \in Nat /\ Len(s) > 0 /\ Head(s) = s[1] OBVIOUS
<1>3. AllSound(Tail(s), q, n) BY <1>1, <1>2 DEF AllSound
<1>4. Sound(Head(s), q, n) BY <1>2 DEF AllSound
<1>. QED BY <1>1, <1>3, <1>4

(* Writing a sound message after it. *)
LEMMA SoundAppend ==
    ASSUME NEW s \in Seq(Messages), NEW m \in Messages, NEW q, NEW n,
           AllSound(s, q, n), Sound(m, q, n)
    PROVE  Append(s, m) \in Seq(Messages) /\ AllSound(Append(s, m), q, n)
<1>1. /\ Append(s, m) \in Seq(Messages) /\ Len(Append(s, m)) = Len(s) + 1
      /\ \A i \in 1 .. Len(s) : Append(s, m)[i] = s[i]
      /\ Append(s, m)[Len(s) + 1] = m
  BY AppendProperties
<1>2. Len(s) \in Nat OBVIOUS
<1>. QED BY <1>1, <1>2 DEF AllSound

(* Losing what comes after some point. *)
LEMMA SoundPrefix ==
    ASSUME NEW s \in Seq(Messages), NEW k \in 0 .. Len(s), NEW q, NEW n, AllSound(s, q, n)
    PROVE  SubSeq(s, 1, k) \in Seq(Messages) /\ AllSound(SubSeq(s, 1, k), q, n)
<1>1. k \in Int /\ Len(s) \in Nat /\ \A i \in 1 .. k : s[i] \in Messages OBVIOUS
<1>2. /\ SubSeq(s, 1, k) \in Seq(Messages)
      /\ Len(SubSeq(s, 1, k)) = IF 1 <= k THEN k - 1 + 1 ELSE 0
      /\ \A i \in 1 .. k - 1 + 1 : SubSeq(s, 1, k)[i] = s[1 + i - 1]
  BY <1>1, SubSeqProperties
<1>. QED BY <1>1, <1>2 DEF AllSound

(* Losing everything. *)
LEMMA SoundEmpty == ASSUME NEW q, NEW n PROVE AllSound(<<>>, q, n)
  BY DEF AllSound

-----------------------------------------------------------------------------
(* What the server sends for a request *)

(* Items are never taken for the end of a call. *)
LEMMA ItemSound ==
    ASSUME NEW kind \in Kinds, NEW of \in 0 .. MaxCalls, NEW n \in 1 .. MaxItems,
           NEW q, NEW c
    PROVE  Item(kind, of, n) \in Messages /\ Sound(Item(kind, of, n), q, c)
<1>1. Item(kind, of, n) \in Messages BY ItemMessage
<1>2. Item(kind, of, n).type = ItemType(kind) BY DEF Item
<1>3. ItemType(kind) \notin {"Done", "Error"} BY DEF ItemType
<1>. QED BY <1>1, <1>2, <1>3 DEF Sound

(* Everything a script holds is sound for the numbers after it. *)
LEMMA ScriptSound ==
    ASSUME NEW req \in [kind : Kinds, of : 0 .. MaxCalls], NEW id \in Nat, NEW c \in Nat,
           id <= req.of, req.of < c,
           NEW answer \in Dispatch(req, id)
    PROVE  LET script == Script(answer, Done(id, req.of, ItemsIn(answer)))
           IN  script \in Seq(Messages) /\ AllSound(script, id + 1, c)
<1>0. /\ req.kind \in Kinds /\ req.of \in 0 .. MaxCalls /\ id \in 0 .. MaxCalls
      /\ MaxItems \in Nat \ {0} /\ MaxCalls \in Nat
  BY SessionBounds
<1>1. /\ answer \in Seq(Messages) /\ AllSound(answer, id + 1, c)
      /\ ItemsIn(answer) \in 0 .. MaxItems
  <2>1. CASE answer = <<ErrorFor(id, req.of)>>
    <3>1. ErrorFor(id, req.of) \in Messages BY <1>0, ErrorMessage
    <3>2. Sound(ErrorFor(id, req.of), id + 1, c) BY <1>0 DEF Sound, ErrorFor
    <3>3. Len(answer) = 1 /\ answer[1] = ErrorFor(id, req.of) BY <2>1
    <3>4. answer \in Seq(Messages) BY <2>1, <3>1
    <3>5. AllSound(answer, id + 1, c) BY <3>2, <3>3 DEF AllSound
    <3>6. ItemsIn(answer) = 0 BY <2>1, <3>3 DEF ItemsIn, ErrorFor
    <3>. QED BY <3>4, <3>5, <3>6, <1>0
  <2>2. ASSUME NEW n \in 0 .. MaxItems, answer = Items(req.kind, req.of, n)
        PROVE  /\ answer \in Seq(Messages) /\ AllSound(answer, id + 1, c)
               /\ ItemsIn(answer) \in 0 .. MaxItems
    <3>1. \A i \in 1 .. n : /\ Item(req.kind, req.of, i) \in Messages
                            /\ Sound(Item(req.kind, req.of, i), id + 1, c)
      BY <1>0, ItemSound
    <3>2. answer = [i \in 1 .. n |-> Item(req.kind, req.of, i)] BY <2>2 DEF Items
    <3>3. answer \in Seq(Messages) /\ Len(answer) = n BY <3>1, <3>2, <1>0
    <3>4. AllSound(answer, id + 1, c) BY <3>1, <3>2, <3>3 DEF AllSound
    <3>. QED BY <3>3, <3>4, <1>0 DEF ItemsIn
  <2>. QED BY <2>1, <2>2, <1>0 DEF Dispatch
<1>2. Done(id, req.of, ItemsIn(answer)) \in Messages BY <1>0, <1>1, DoneMessage
<1>3. Sound(Done(id, req.of, ItemsIn(answer)), id + 1, c) BY <1>0 DEF Sound, Done
<1>. QED BY <1>1, <1>2, <1>3, SoundAppend DEF Script

-----------------------------------------------------------------------------
(* Every step keeps the invariant *)

(* A new client is in the invariant. *)
LEMMA InitSession == Init => SessionInv
<1> SUFFICES ASSUME Init PROVE SessionInv OBVIOUS
<1>1. TypeOK
  <2>1. /\ sending \in Seq(Messages) /\ replies \in Seq(Messages)
        /\ requests \in Seq([kind : Kinds, of : 0 .. MaxCalls])
    BY DEF Init
  <2>2. call \in {Idle} /\ dropped = {} /\ connected = FALSE /\ alive = FALSE BY DEF Init
  <2>3. next_query_id \in 0 .. MaxCalls /\ connects \in 0 .. MaxConnects
        /\ query_id \in 0 .. next_query_id
    BY SessionBounds DEF Init
  <2>. QED BY <2>1, <2>2, <2>3 DEF TypeOK
<1>2. Numbered BY DEF Init, Numbered
<1>3. LastCall BY DEF Init, LastCall, Idle
<1>4. OwnEnd /\ AnsweredInStep BY DEF Init, OwnEnd, AnsweredInStep, Answered
<1>5. /\ AllSound(sending, query_id, next_query_id)
      /\ AllSound(replies, query_id, next_query_id)
  BY SoundEmpty DEF Init
<1>. QED BY <1>1, <1>2, <1>3, <1>4, <1>5 DEF SessionInv

(* A call is in progress only in the shape Send gave it. *)
LEMMA CollectingCall ==
    ASSUME TypeOK, call.phase = "collect"
    PROVE  call \in [phase : {"collect"}, id : 0 .. MaxCalls, kind : Kinds,
                     results : Seq(Messages)]
  BY DEF TypeOK, Idle, Greeted

(* handle_socket takes the next request and numbers it. *)
LEMMA ReceiveKeeps == ASSUME SessionInv, Receive PROVE SessionInv'
<1>0. TypeOK /\ Numbered /\ LastCall BY DEF SessionInv
<1> DEFINE req == Head(requests)
<1>1. PICK answer \in Dispatch(req, query_id) :
         sending' = Script(answer, Done(query_id, req.of, ItemsIn(answer)))
  BY DEF Receive
<1>2. /\ requests \in Seq([kind : Kinds, of : 0 .. MaxCalls]) /\ requests # <<>>
      /\ query_id \in Nat /\ next_query_id \in Nat /\ MaxCalls \in Nat
      /\ next_query_id \in 0 .. MaxCalls
  BY <1>0, SessionBounds DEF TypeOK, Receive
<1>3. /\ req \in [kind : Kinds, of : 0 .. MaxCalls]
      /\ Tail(requests) \in Seq([kind : Kinds, of : 0 .. MaxCalls])
      /\ Len(requests) \in Nat \ {0} /\ Len(Tail(requests)) = Len(requests) - 1
      /\ req = requests[1]
      /\ \A i \in 1 .. Len(Tail(requests)) : Tail(requests)[i] = requests[i + 1]
  <2> HIDE DEF req
  <2>1. Len(requests) \in Nat \ {0} /\ Head(requests) = requests[1] BY <1>2
  <2>2. /\ Head(requests) \in [kind : Kinds, of : 0 .. MaxCalls]
        /\ Tail(requests) \in Seq([kind : Kinds, of : 0 .. MaxCalls])
        /\ Len(Tail(requests)) = Len(requests) - 1
        /\ \A i \in 1 .. Len(Tail(requests)) : Tail(requests)[i] = requests[i + 1]
    BY <1>2, HeadTailProperties
  <2>. QED BY <2>1, <2>2 DEF req
<1>4. query_id <= req.of /\ req.of < next_query_id
  BY <1>0, <1>2, <1>3 DEF Numbered
<1>5. sending' \in Seq(Messages) /\ AllSound(sending', query_id + 1, next_query_id)
  BY <1>1, <1>2, <1>3, <1>4, ScriptSound
<1>6. /\ next_query_id' = next_query_id /\ query_id' = query_id + 1 /\ replies' = replies
      /\ requests' = Tail(requests) /\ alive' = alive /\ outcome' = outcome /\ call' = call
      /\ connects' = connects /\ connected' = connected /\ dropped' = dropped
  BY DEF Receive, client
<1>7. query_id + Len(requests) <= next_query_id BY <1>0 DEF Numbered
<1>8. TypeOK' BY <1>0, <1>2, <1>3, <1>5, <1>6, <1>7 DEF TypeOK
<1>9. Numbered'
  <2>1. query_id' + Len(requests') <= next_query_id' BY <1>2, <1>3, <1>6, <1>7
  <2>2. ASSUME NEW i \in 1 .. Len(requests')
        PROVE  query_id' + i <= requests'[i].of + 1 /\ requests'[i].of < next_query_id'
    <3>1. i + 1 \in 1 .. Len(requests) /\ requests'[i] = requests[i + 1]
      BY <1>3, <1>6
    <3>2. query_id + (i + 1) <= requests[i + 1].of + 1 /\ requests[i + 1].of < next_query_id
      BY <3>1, <1>0 DEF Numbered
    <3>. QED BY <3>1, <3>2, <1>2, <1>6
  <2>. QED BY <2>1, <2>2 DEF Numbered
<1>10. LastCall' BY <1>0, <1>6 DEF LastCall
<1>11. AllSound(replies, query_id + 1, next_query_id)
  <2>1. AllSound(replies, query_id, next_query_id) /\ replies \in Seq(Messages)
    BY DEF SessionInv, TypeOK
  <2>. QED BY <2>1, <1>2, SoundLater
<1>12. OwnEnd' BY <1>6 DEF SessionInv, OwnEnd, Answered
<1>13. AnsweredInStep'
  <2>1. next_query_id = query_id + Len(requests)
           => next_query_id' = query_id' + Len(requests')
    BY <1>2, <1>3, <1>6
  <2>. QED BY <2>1, <1>6 DEF SessionInv, AnsweredInStep, Answered, InStep
<1>. QED BY <1>5, <1>6, <1>8, <1>9, <1>10, <1>11, <1>12, <1>13 DEF SessionInv

(* What the steps that only move or lose messages leave alone. *)
LEMMA MessagesOnly ==
    ASSUME SessionInv, UNCHANGED <<next_query_id, connected, call, outcome, query_id,
                                   requests, alive, connects, dropped>>,
           sending' \in Seq(Messages), AllSound(sending', query_id, next_query_id),
           replies' \in Seq(Messages), AllSound(replies', query_id, next_query_id)
    PROVE  SessionInv'
<1>1. TypeOK' BY DEF SessionInv, TypeOK
<1>2. Numbered' BY DEF SessionInv, Numbered
<1>3. LastCall' /\ OwnEnd' /\ AnsweredInStep'
  BY DEF SessionInv, LastCall, OwnEnd, AnsweredInStep, Answered, InStep
<1>. QED BY <1>1, <1>2, <1>3 DEF SessionInv

(* It sends the next message of its answer. *)
LEMMA SendNextKeeps == ASSUME SessionInv, SendNext PROVE SessionInv'
<1>1. /\ sending \in Seq(Messages) /\ AllSound(sending, query_id, next_query_id)
      /\ replies \in Seq(Messages) /\ AllSound(replies, query_id, next_query_id)
      /\ sending # <<>> /\ sending' = Tail(sending)
      /\ replies' = Append(replies, Head(sending))
  BY DEF SessionInv, TypeOK, SendNext
<1>2. /\ sending' \in Seq(Messages) /\ AllSound(sending', query_id, next_query_id)
      /\ Head(sending) \in Messages /\ Sound(Head(sending), query_id, next_query_id)
  BY <1>1, SoundTail
<1>3. replies' \in Seq(Messages) /\ AllSound(replies', query_id, next_query_id)
  BY <1>1, <1>2, SoundAppend
<1>. QED BY <1>2, <1>3, MessagesOnly DEF SendNext, client

(* A dead connection has no requests under way, and nothing to be in step with. *)
LEMMA DeadKeeps ==
    ASSUME SessionInv, UNCHANGED <<next_query_id, call, outcome, query_id, connects, dropped>>,
           connected' \in BOOLEAN, alive' = FALSE, requests' = <<>>, sending' = <<>>,
           replies' \in Seq(Messages), AllSound(replies', query_id, next_query_id)
    PROVE  SessionInv'
<1>0. TypeOK BY DEF SessionInv
<1>1. TypeOK'
  <2>1. sending' \in Seq(Messages) /\ requests' \in Seq([kind : Kinds, of : 0 .. MaxCalls])
    OBVIOUS
  <2>. QED BY <1>0, <2>1 DEF TypeOK
<1>2. Numbered' BY <1>0, SessionBounds DEF TypeOK, Numbered
<1>3. LastCall' /\ OwnEnd' /\ AnsweredInStep'
  BY DEF SessionInv, LastCall, OwnEnd, AnsweredInStep, Answered
<1>4. AllSound(sending', query_id', next_query_id') BY SoundEmpty
<1>. QED BY <1>1, <1>2, <1>3, <1>4 DEF SessionInv

(* The connection breaks. *)
LEMMA BreakKeeps == ASSUME SessionInv, Break PROVE SessionInv'
<1>1. PICK n \in 0 .. Len(replies) : replies' = SubSeq(replies, 1, n) BY DEF Break
<1>2. replies \in Seq(Messages) /\ AllSound(replies, query_id, next_query_id)
  BY DEF SessionInv, TypeOK
<1>3. replies' \in Seq(Messages) /\ AllSound(replies', query_id, next_query_id)
  BY <1>1, <1>2, SoundPrefix
<1>4. connected' \in BOOLEAN BY DEF SessionInv, TypeOK, Break, client
<1>. QED BY <1>3, <1>4, DeadKeeps DEF Break, client

(* The client closes it. *)
LEMMA DisconnectKeeps == ASSUME SessionInv, Disconnect PROVE SessionInv'
<1>1. replies' \in Seq(Messages) /\ AllSound(replies', query_id, next_query_id)
  BY SoundEmpty DEF Disconnect
<1>. QED BY <1>1, DeadKeeps DEF Disconnect

(* It opens another, and the server counts from 0 again. *)
LEMMA ConnectKeeps == ASSUME SessionInv, Connect PROVE SessionInv'
<1>0. TypeOK BY DEF SessionInv
<1>1. sending' \in Seq(Messages)
  BY HelloMessage DEF Connect
<1>2. AllSound(sending', query_id', next_query_id')
  BY DEF Connect, AllSound, Sound, Hello
<1>3. AllSound(replies', query_id', next_query_id') BY SoundEmpty DEF Connect
<1>4. TypeOK' BY <1>0, <1>1, SessionBounds DEF TypeOK, Connect
<1>5. Numbered' BY <1>0, SessionBounds DEF TypeOK, Numbered, Connect
<1>6. LastCall' /\ OwnEnd' /\ AnsweredInStep'
  BY DEF Connect, LastCall, OwnEnd, AnsweredInStep, Answered, Greeted
<1>. QED BY <1>2, <1>3, <1>4, <1>5, <1>6 DEF SessionInv

(* Requests carry the number of a call. *)
LEMMA RequestNumbers ==
    ASSUME NEW s \in Seq([kind : Kinds, of : 0 .. MaxCalls])
    PROVE  Len(s) \in Nat /\ \A i \in 1 .. Len(s) : s[i].of \in 0 .. MaxCalls
<1>1. Len(s) \in Nat OBVIOUS
<1>2. ASSUME NEW i \in 1 .. Len(s) PROVE s[i].of \in 0 .. MaxCalls
  <2>1. s[i] \in [kind : Kinds, of : 0 .. MaxCalls] BY ElementOfSeq
  <2>. QED BY <2>1
<1>. QED BY <1>1, <1>2

(* send_request numbers a call and writes it. *)
LEMMA SendKeeps == ASSUME SessionInv, NEW kind \in Kinds, Send(kind) PROVE SessionInv'
<1>0. /\ TypeOK /\ Numbered
      /\ AllSound(sending, query_id, next_query_id)
      /\ AllSound(replies, query_id, next_query_id)
  BY DEF SessionInv
<1>1. /\ next_query_id \in Nat /\ next_query_id < MaxCalls /\ MaxCalls \in Nat
      /\ next_query_id' = next_query_id + 1 /\ query_id \in Nat /\ query_id <= next_query_id
      /\ requests \in Seq([kind : Kinds, of : 0 .. MaxCalls])
      /\ sending \in Seq(Messages) /\ replies \in Seq(Messages)
  BY <1>0, SessionBounds DEF TypeOK, Send, TakeId
<1>2. /\ query_id' = query_id /\ sending' = sending /\ replies' = replies
      /\ connected' = connected /\ alive' = alive /\ connects' = connects
      /\ dropped' = dropped /\ outcome' = [status |-> "none"]
      /\ call' = Collecting(next_query_id, kind)
  BY DEF Send, server
<1> DEFINE req == [kind |-> kind, of |-> next_query_id]
<1>3. req \in [kind : Kinds, of : 0 .. MaxCalls] BY <1>1
<1>4. requests' = requests \/ requests' = Append(requests, req) BY DEF Send
<1>5. requests' \in Seq([kind : Kinds, of : 0 .. MaxCalls])
  <2> DEFINE Request == [kind : Kinds, of : 0 .. MaxCalls]
  <2>1. requests \in Seq(Request) /\ req \in Request BY <1>1, <1>3
  <2> HIDE DEF req, Request
  <2>2. Append(requests, req) \in Seq(Request) BY <2>1, AppendProperties
  <2>3. requests' \in Seq(Request) BY <2>1, <2>2, <1>4
  <2>. QED BY <2>3 DEF Request
<1>6. call' \in [phase : {"collect"}, id : 0 .. MaxCalls, kind : Kinds, results : Seq(Messages)]
  BY <1>1, <1>2 DEF Collecting
<1>7. TypeOK' BY <1>0, <1>1, <1>2, <1>5, <1>6 DEF TypeOK
<1>8. Numbered'
  <2>1. CASE requests' = requests
    <3>1. Len(requests) \in Nat
          /\ \A i \in 1 .. Len(requests) : requests[i].of \in 0 .. MaxCalls
      BY <1>1, RequestNumbers
    <3>. QED BY <3>1, <2>1, <1>0, <1>1, <1>2 DEF Numbered
  <2>2. CASE requests' = Append(requests, req)
    <3>1. /\ Len(requests') = Len(requests) + 1 /\ Len(requests) \in Nat
          /\ requests'[Len(requests) + 1] = req
          /\ \A i \in 1 .. Len(requests) : requests'[i] = requests[i]
      BY <2>2, <1>1, <1>3
    <3>2. query_id + Len(requests) <= next_query_id BY <1>0 DEF Numbered
    <3>3. ASSUME NEW i \in 1 .. Len(requests')
          PROVE  query_id' + i <= requests'[i].of + 1 /\ requests'[i].of < next_query_id'
      <4>1. CASE i = Len(requests) + 1
        <5>1. requests'[i].of = next_query_id BY <3>1, <4>1
        <5>. QED BY <5>1, <4>1, <3>1, <3>2, <1>1, <1>2
      <4>2. CASE i \in 1 .. Len(requests)
        <5>1. requests'[i] = requests[i] BY <3>1, <4>2
        <5>2. requests[i].of \in 0 .. MaxCalls BY <1>1, <4>2, RequestNumbers
        <5>3. query_id + i <= requests[i].of + 1 /\ requests[i].of < next_query_id
          BY <4>2, <1>0 DEF Numbered
        <5>. QED BY <5>1, <5>2, <5>3, <4>2, <1>1, <1>2
      <4>. QED BY <4>1, <4>2, <3>1
    <3>. QED BY <3>1, <3>2, <3>3, <1>1, <1>2 DEF Numbered
  <2>. QED BY <1>4, <2>1, <2>2
<1>9. LastCall' BY <1>1, <1>2 DEF LastCall, Collecting
<1>10. AllSound(sending', query_id', next_query_id') /\ AllSound(replies', query_id', next_query_id')
  BY <1>0, <1>1, <1>2, SoundLater
<1>11. OwnEnd' /\ AnsweredInStep' BY <1>2 DEF OwnEnd, AnsweredInStep, Answered
<1>. QED BY <1>7, <1>8, <1>9, <1>10, <1>11 DEF SessionInv

(* send_request numbers a call it cannot write. *)
LEMMA SendFailsKeeps == ASSUME SessionInv, SendFails PROVE SessionInv'
<1>0. /\ TypeOK /\ Numbered
      /\ AllSound(sending, query_id, next_query_id)
      /\ AllSound(replies, query_id, next_query_id)
  BY DEF SessionInv
<1>1. /\ next_query_id \in Nat /\ next_query_id < MaxCalls /\ MaxCalls \in Nat
      /\ next_query_id' = next_query_id + 1 /\ query_id \in Nat /\ query_id <= next_query_id
      /\ requests \in Seq([kind : Kinds, of : 0 .. MaxCalls])
      /\ sending \in Seq(Messages) /\ replies \in Seq(Messages)
  BY <1>0, SessionBounds DEF TypeOK, SendFails, TakeId
<1>2. /\ query_id' = query_id /\ sending' = sending /\ replies' = replies
      /\ connected' = connected /\ alive' = alive /\ connects' = connects
      /\ dropped' = dropped /\ outcome' = [status |-> "ws"] /\ call' = call /\ call = Idle
      /\ requests' = requests
  BY DEF SendFails, TakeId, server
<1>3. TypeOK' BY <1>0, <1>1, <1>2 DEF TypeOK
<1>4. Numbered'
  <2>1. Len(requests) \in Nat
        /\ \A i \in 1 .. Len(requests) : requests[i].of \in 0 .. MaxCalls
    BY <1>1, RequestNumbers
  <2>. QED BY <2>1, <1>0, <1>1, <1>2 DEF Numbered
<1>5. LastCall' BY <1>2 DEF LastCall, Idle
<1>6. AllSound(sending', query_id', next_query_id') /\ AllSound(replies', query_id', next_query_id')
  BY <1>0, <1>1, <1>2, SoundLater
<1>7. OwnEnd' /\ AnsweredInStep' BY <1>2 DEF OwnEnd, AnsweredInStep, Answered
<1>. QED BY <1>3, <1>4, <1>5, <1>6, <1>7 DEF SessionInv

(* The Done or Error that ends a call is its own, and the sides count alike. *)
LEMMA EndedInStep ==
    ASSUME SessionInv, call.phase = "collect", replies # <<>>, Ends(Head(replies))
    PROVE  Head(replies).of = call.id /\ (alive => InStep)
<1> DEFINE m == Head(replies)
<1>1. m \in Messages /\ Sound(m, query_id, next_query_id)
  BY SoundTail DEF SessionInv, TypeOK
<1>2. m.type \in {"Done", "Error"} /\ m.id = call.id BY DEF Ends
<1>3. m.id \in 0 .. MaxCalls /\ m.of \in 0 .. MaxCalls BY <1>1, <1>2, Numbers
<1>4. m.id <= m.of /\ m.id < query_id /\ m.of < next_query_id BY <1>1, <1>2 DEF Sound
<1>5. call.id = next_query_id - 1 BY DEF SessionInv, LastCall
<1>6. /\ query_id \in Nat /\ next_query_id \in Nat /\ MaxCalls \in Nat
      /\ query_id + Len(requests) <= next_query_id
  BY SessionBounds DEF SessionInv, TypeOK, Numbered
<1>7. Len(requests) \in Nat BY RequestNumbers DEF SessionInv, TypeOK
<1> HIDE DEF m
<1>8. m.of = call.id BY <1>2, <1>3, <1>4, <1>5, <1>6
<1>9. next_query_id = query_id + Len(requests) BY <1>2, <1>3, <1>4, <1>5, <1>6, <1>7
<1>. QED BY <1>8, <1>9 DEF InStep, m

(* collect_results reads one message. *)
LEMMA CollectKeeps == ASSUME SessionInv, Collect PROVE SessionInv'
<1>0. TypeOK /\ Numbered /\ LastCall /\ OwnEnd /\ AnsweredInStep BY DEF SessionInv
<1> DEFINE m == Head(replies)
<1>1. /\ call.phase = "collect" /\ replies # <<>> /\ replies' = Tail(replies)
      /\ next_query_id' = next_query_id /\ query_id' = query_id /\ sending' = sending
      /\ connected' = connected /\ alive' = alive /\ requests' = requests
      /\ connects' = connects /\ dropped' = dropped
  BY DEF Collect, server
<1>2. /\ replies' \in Seq(Messages) /\ AllSound(replies', query_id, next_query_id)
      /\ m \in Messages
  BY <1>1, SoundTail DEF SessionInv, TypeOK
<1>3. /\ AllSound(sending', query_id', next_query_id')
      /\ AllSound(replies', query_id', next_query_id')
  BY <1>1, <1>2 DEF SessionInv
<1>4. Numbered' BY <1>0, <1>1 DEF Numbered
<1>5. CASE Ends(m)
  <2>1. call' = Idle
    BY <1>5 DEF Collect
  <2>2. \/ outcome' = Returned(m)
        \/ outcome' = [status |-> "server", id |-> call.id, by |-> m.of]
    BY <1>5 DEF Collect
  <2>3. m.of = call.id /\ (alive => InStep) BY <1>1, <1>5, EndedInStep
  <2>4. outcome'.by = outcome'.id
    BY <2>2, <2>3 DEF Returned
  <2>5. TypeOK' BY <1>0, <1>1, <1>2, <2>1 DEF TypeOK
  <2>6. LastCall' BY <2>1 DEF LastCall, Idle
  <2>7. OwnEnd' BY <2>4 DEF OwnEnd
  <2>8. AnsweredInStep' BY <1>1, <2>3 DEF AnsweredInStep, InStep
  <2>. QED BY <1>3, <1>4, <2>5, <2>6, <2>7, <2>8 DEF SessionInv
<1>6. CASE ~ Ends(m)
  <2>1. outcome' = outcome /\ (call' = call \/ call' = [call EXCEPT !.results = Append(@, m)])
    BY <1>6 DEF Collect
  <2>2. call \in [phase : {"collect"}, id : 0 .. MaxCalls, kind : Kinds, results : Seq(Messages)]
    BY <1>0, <1>1, CollectingCall
  <2>3. Append(call.results, m) \in Seq(Messages) BY <1>2, <2>2, AppendProperties
  <2>4. /\ call' \in [phase : {"collect"}, id : 0 .. MaxCalls, kind : Kinds,
                      results : Seq(Messages)]
        /\ call'.id = call.id
    BY <2>1, <2>2, <2>3
  <2>5. TypeOK' BY <1>0, <1>1, <1>2, <2>4 DEF TypeOK
  <2>6. LastCall' BY <1>0, <1>1, <2>4 DEF LastCall
  <2>7. OwnEnd' BY <1>0, <2>1 DEF OwnEnd, Answered
  <2>8. AnsweredInStep' BY <1>0, <1>1, <2>1 DEF AnsweredInStep, Answered, InStep
  <2>. QED BY <1>3, <1>4, <2>5, <2>6, <2>7, <2>8 DEF SessionInv
<1>. QED BY <1>5, <1>6

(* What the steps that end a call without an answer leave alone. *)
LEMMA EndingKeeps ==
    ASSUME SessionInv, call' = Idle, outcome' = outcome \/ ~ Answered',
           UNCHANGED <<next_query_id, connected, server, alive, requests, connects>>,
           dropped' \subseteq 0 .. MaxCalls,
           replies' \in Seq(Messages), AllSound(replies', query_id, next_query_id)
    PROVE  SessionInv'
<1>1. TypeOK' BY DEF SessionInv, TypeOK, server
<1>2. Numbered' BY DEF SessionInv, Numbered, server
<1>3. LastCall' BY DEF LastCall, Idle
<1>4. OwnEnd' /\ AnsweredInStep'
  BY DEF SessionInv, OwnEnd, AnsweredInStep, Answered, InStep, server
<1>. QED BY <1>1, <1>2, <1>3, <1>4 DEF SessionInv, server

(* connect reads one message. *)
LEMMA WelcomeKeeps == ASSUME SessionInv, Welcome PROVE SessionInv'
<1>1. replies' \in Seq(Messages) /\ AllSound(replies', query_id, next_query_id)
  BY SoundTail DEF Welcome, SessionInv, TypeOK
<1>2. ~ Answered' BY DEF Welcome, Answered
<1>. QED BY <1>1, <1>2, EndingKeeps DEF Welcome, SessionInv, TypeOK

(* A call finds the connection broken. *)
LEMMA HangupKeeps == ASSUME SessionInv, Hangup PROVE SessionInv'
<1>1. ~ Answered' BY DEF Hangup, Answered
<1>. QED BY <1>1, EndingKeeps DEF Hangup, SessionInv, TypeOK

(* The caller drops a call. *)
LEMMA DropKeeps == ASSUME SessionInv, Drop PROVE SessionInv'
<1>1. dropped' \subseteq 0 .. MaxCalls
  BY CollectingCall DEF Drop, SessionInv, TypeOK
<1>. QED BY <1>1, EndingKeeps DEF Drop, SessionInv, TypeOK

-----------------------------------------------------------------------------
(* The client's and the server's counters, the numbers under way and the call in
   progress stay as SessionInv says: graph_client.rs send_request and
   collect_results, http.rs handle_socket, under every loss and reconnect. *)
THEOREM SessionInvariant == Spec => []SessionInv
<1>1. SessionInv /\ [Next]_vars => SessionInv'
  <2> SUFFICES ASSUME SessionInv, [Next]_vars PROVE SessionInv' OBVIOUS
  <2>1. CASE ServerNext BY <2>1, ReceiveKeeps, SendNextKeeps DEF ServerNext
  <2>2. CASE Break BY <2>2, BreakKeeps
  <2>3. CASE Connect BY <2>3, ConnectKeeps
  <2>4. CASE Disconnect BY <2>4, DisconnectKeeps
  <2>5. CASE SendFails BY <2>5, SendFailsKeeps
  <2>6. CASE Drop BY <2>6, DropKeeps
  <2>7. ASSUME NEW kind \in Kinds, Send(kind) PROVE SessionInv' BY <2>7, SendKeeps
  <2>8. CASE Read BY <2>8, CollectKeeps, WelcomeKeeps, HangupKeeps DEF Read
  <2>9. CASE UNCHANGED vars
    BY <2>9 DEF vars, client, server, SessionInv, TypeOK, Numbered, LastCall, OwnEnd,
                AnsweredInStep, Answered, InStep
  <2>. QED BY <2>1, <2>2, <2>3, <2>4, <2>5, <2>6, <2>7, <2>8, <2>9 DEF Next
<1>. QED BY InitSession, <1>1, PTL DEF Spec

(* Messages, requests and the call in progress keep their shapes, and the
   server's counter never passes the client's. *)
THEOREM SessionTypes == Spec => []TypeOK
<1>1. SessionInv => TypeOK BY DEF SessionInv
<1>. QED BY SessionInvariant, <1>1, PTL

(* A call is ended by the Done or Error of its own request (graph_client.rs
   collect_results), whatever dropped calls left in the socket. *)
THEOREM EndedByOwn == Spec => []OwnEnd
<1>1. SessionInv => OwnEnd BY DEF SessionInv
<1>. QED BY SessionInvariant, <1>1, PTL

(* A call that the server answered on a live connection finds the two counters
   (graph_client.rs next_query_id, http.rs query_id) in step. *)
THEOREM AnsweredCountsAlike == Spec => []AnsweredInStep
<1>1. SessionInv => AnsweredInStep BY DEF SessionInv
<1>. QED BY SessionInvariant, <1>1, PTL

-----------------------------------------------------------------------------
(* What is still to be read *)

IsItem(m) == m.type \in {"Edge", "BlobChunk", "Entity"}
IsEnd(m) == m.type \in {"Done", "Error"}

\* All the client has still to read, in order.
Stream == replies \o sending

\* The calls whose items may still come.
Live == dropped \cup (IF call.phase = "collect" THEN {call.id} ELSE {})

\* The items of a stream are those of such calls,
ItemsLive(s, live) == \A i \in 1 .. Len(s) : IsItem(s[i]) => s[i].of \in live

\* and those behind an end are of later ones.
EndsFirst(s) == \A i, j \in 1 .. Len(s) :
    i < j /\ IsEnd(s[i]) /\ IsItem(s[j]) => s[i].of < s[j].of

EndsBelow(s, n) == \A i \in 1 .. Len(s) : IsEnd(s[i]) => s[i].of < n

\* Requests under way come behind the stream, in the order of their numbers.
RequestsAfter(s, reqs, live) == \A k \in 1 .. Len(reqs) :
    /\ reqs[k].of \in live
    /\ EndsBelow(s, reqs[k].of)
    /\ \A l \in 1 .. k - 1 : reqs[l].of < reqs[k].of

\* The Done of a get_entity in progress follows its entity or its error,
\* which were read before it if it is the first of the stream: the entity is
\* then the last result, and an error of its number would have ended the call.
OwnEntity(s, c) == c.phase = "collect" /\ c.kind = "entity" =>
    \A k \in 1 .. Len(s) : s[k].type = "Done" /\ s[k].of = c.id =>
        IF k > 1 THEN s[k - 1] \in {Item("entity", c.id, 1), ErrorFor(s[k].id, c.id)}
        ELSE s[k].id # c.id \/ (c.results # <<>> /\ c.results[Len(c.results)].of = c.id)

ResultsLive(live, c) == c.phase = "collect" =>
    \A i \in 1 .. Len(c.results) : c.results[i].of \in live

SameKind(reqs, c) == c.phase = "collect" =>
    \A k \in 1 .. Len(reqs) : reqs[k].of = c.id => reqs[k].kind = c.kind

Quiet == ~ alive => requests = <<>> /\ sending = <<>>

\* All of this, of the stream s, the requests reqs, the call c in progress and
\* the calls whose items may come.
Answers(s, reqs, live, c) ==
    /\ ItemsLive(s, live) /\ EndsFirst(s)
    /\ RequestsAfter(s, reqs, live)
    /\ OwnEntity(s, c) /\ ResultsLive(live, c) /\ SameKind(reqs, c)

AnswerInv ==
    /\ Answers(Stream, requests, Live, call) /\ Quiet
    /\ OnlyDroppedLeak /\ EntityOwn

-----------------------------------------------------------------------------
(* Messages *)

Request == [kind : Kinds, of : 0 .. MaxCalls]

(* An item carries the number of its call; nothing is item and end at once. *)
LEMMA ItemNumber ==
    ASSUME NEW m \in Messages, IsItem(m)
    PROVE  m.of \in 0 .. MaxCalls
<1>1. CASE m = Hello BY <1>1 DEF Hello, IsItem
<1>2. ASSUME NEW kind \in Kinds, NEW of \in 0 .. MaxCalls, NEW n \in 1 .. MaxItems,
             m = Item(kind, of, n)
      PROVE  m.of \in 0 .. MaxCalls
  BY <1>2 DEF Item
<1>3. ASSUME NEW id \in 0 .. MaxCalls, NEW of \in 0 .. MaxCalls, m = ErrorFor(id, of)
      PROVE  FALSE
  BY <1>3 DEF ErrorFor, IsItem
<1>4. ASSUME NEW id \in 0 .. MaxCalls, NEW of \in 0 .. MaxCalls, NEW n \in 0 .. MaxItems,
             m = Done(id, of, n)
      PROVE  FALSE
  BY <1>4 DEF Done, IsItem
<1>. QED BY <1>1, <1>2, <1>3, <1>4 DEF Messages

(* The types of what the constructors build. *)
LEMMA Shapes ==
    ASSUME NEW kind \in Kinds, NEW id, NEW of, NEW n
    PROVE  /\ IsItem(Item(kind, of, n)) /\ ~ IsEnd(Item(kind, of, n))
           /\ Item(kind, of, n).of = of /\ Item(kind, of, n).type # "Done"
           /\ IsEnd(ErrorFor(id, of)) /\ ~ IsItem(ErrorFor(id, of))
           /\ ErrorFor(id, of).of = of /\ ErrorFor(id, of).type # "Done"
           /\ IsEnd(Done(id, of, n)) /\ ~ IsItem(Done(id, of, n))
           /\ Done(id, of, n).of = of /\ Done(id, of, n).id = id
  BY DEF Item, ItemType, ErrorFor, Done, IsItem, IsEnd, Kinds

(* What is still to be read is a sequence of messages, replies first. *)
LEMMA StreamParts ==
    ASSUME NEW s \in Seq(Messages), NEW t \in Seq(Messages)
    PROVE  /\ s \o t \in Seq(Messages)
           /\ Len(s) \in Nat /\ Len(t) \in Nat /\ Len(s \o t) = Len(s) + Len(t)
           /\ \A i \in 1 .. Len(s) : (s \o t)[i] = s[i]
           /\ \A i \in 1 .. Len(t) : (s \o t)[Len(s) + i] = t[i]
<1>1. /\ s \o t \in Seq(Messages) /\ Len(s \o t) = Len(s) + Len(t)
      /\ \A i \in 1 .. Len(s) + Len(t) :
            (s \o t)[i] = IF i <= Len(s) THEN s[i] ELSE t[i - Len(s)]
  BY ConcatProperties
<1>2. Len(s) \in Nat /\ Len(t) \in Nat OBVIOUS
<1>3. ASSUME NEW i \in 1 .. Len(t) PROVE (s \o t)[Len(s) + i] = t[i]
  <2>1. Len(s) + i \in 1 .. Len(s) + Len(t) /\ ~ (Len(s) + i <= Len(s))
        /\ Len(s) + i - Len(s) = i
    BY <1>2
  <2>. QED BY <1>1, <2>1
<1>. QED BY <1>1, <1>2, <1>3

-----------------------------------------------------------------------------
(* Streams that move or lose messages *)

(* A break cuts a stream off. *)
LEMMA PrefixKeeps ==
    ASSUME NEW s \in Seq(Messages), NEW t \in Seq(Messages), Len(t) <= Len(s),
           \A i \in 1 .. Len(t) : t[i] = s[i],
           NEW live, NEW c, ItemsLive(s, live), EndsFirst(s), OwnEntity(s, c)
    PROVE  ItemsLive(t, live) /\ EndsFirst(t) /\ OwnEntity(t, c)
<1>1. Len(s) \in Nat /\ Len(t) \in Nat OBVIOUS
<1>2. ItemsLive(t, live) BY <1>1 DEF ItemsLive
<1>3. EndsFirst(t) BY <1>1 DEF EndsFirst
<1>4. OwnEntity(t, c)
  <2> SUFFICES ASSUME c.phase = "collect", c.kind = "entity",
                      NEW k \in 1 .. Len(t), t[k].type = "Done", t[k].of = c.id
               PROVE  IF k > 1
                      THEN t[k - 1] \in {Item("entity", c.id, 1), ErrorFor(t[k].id, c.id)}
                      ELSE t[k].id # c.id
                             \/ (c.results # <<>> /\ c.results[Len(c.results)].of = c.id)
    BY DEF OwnEntity
  <2>1. k \in 1 .. Len(s) /\ t[k] = s[k] BY <1>1
  <2>2. k > 1 => t[k - 1] = s[k - 1] BY <1>1
  <2>. QED BY <2>1, <2>2 DEF OwnEntity
<1>. QED BY <1>2, <1>3, <1>4

(* Reading the first message leaves the rest; an end that was read is of an *)
(* earlier call than every item left.                                       *)
LEMMA TailKeeps ==
    ASSUME NEW s \in Seq(Messages), s # <<>>, NEW live,
           ItemsLive(s, live), EndsFirst(s)
    PROVE  /\ ItemsLive(Tail(s), live) /\ EndsFirst(Tail(s))
           /\ \A n : EndsBelow(s, n) => EndsBelow(Tail(s), n)
           /\ \A j \in 1 .. Len(Tail(s)) :
                 IsEnd(Head(s)) /\ IsItem(Tail(s)[j]) => Head(s).of < Tail(s)[j].of
           /\ IsItem(Head(s)) => Head(s).of \in live
           /\ \A n : EndsBelow(s, n) /\ IsEnd(Head(s)) => Head(s).of < n
<1>1. /\ Tail(s) \in Seq(Messages) /\ Len(Tail(s)) = Len(s) - 1
      /\ \A i \in 1 .. Len(Tail(s)) : Tail(s)[i] = s[i + 1]
  BY HeadTailProperties
<1>2. Len(s) \in Nat /\ Len(s) > 0 /\ Head(s) = s[1] OBVIOUS
<1>3. \A i \in 1 .. Len(Tail(s)) : i + 1 \in 1 .. Len(s) BY <1>1, <1>2
<1>4. ItemsLive(Tail(s), live) BY <1>1, <1>3 DEF ItemsLive
<1>5. EndsFirst(Tail(s))
  <2> SUFFICES ASSUME NEW i \in 1 .. Len(Tail(s)), NEW j \in 1 .. Len(Tail(s)),
                      i < j, IsEnd(Tail(s)[i]), IsItem(Tail(s)[j])
               PROVE  Tail(s)[i].of < Tail(s)[j].of
    BY DEF EndsFirst
  <2>1. /\ i + 1 \in 1 .. Len(s) /\ j + 1 \in 1 .. Len(s) /\ i + 1 < j + 1
        /\ Tail(s)[i] = s[i + 1] /\ Tail(s)[j] = s[j + 1]
    BY <1>1, <1>2, <1>3
  <2>. QED BY <2>1 DEF EndsFirst
<1>6. \A n : EndsBelow(s, n) => EndsBelow(Tail(s), n) BY <1>1, <1>3 DEF EndsBelow
<1>7. ASSUME NEW j \in 1 .. Len(Tail(s)), IsEnd(Head(s)), IsItem(Tail(s)[j])
      PROVE  Head(s).of < Tail(s)[j].of
  <2>1. /\ 1 \in 1 .. Len(s) /\ j + 1 \in 1 .. Len(s) /\ 1 < j + 1
        /\ Tail(s)[j] = s[j + 1]
    BY <1>1, <1>2, <1>3
  <2>. QED BY <2>1, <1>2, <1>7 DEF EndsFirst
<1>8. 1 \in 1 .. Len(s) BY <1>2
<1>9. IsItem(Head(s)) => Head(s).of \in live BY <1>2, <1>8 DEF ItemsLive
<1>10. \A n : EndsBelow(s, n) /\ IsEnd(Head(s)) => Head(s).of < n
  BY <1>2, <1>8 DEF EndsBelow
<1>. QED BY <1>4, <1>5, <1>6, <1>7, <1>9, <1>10

(* The client reads the first message of the stream, *)
LEMMA TailStream ==
    ASSUME NEW s \in Seq(Messages), NEW t \in Seq(Messages), s # <<>>
    PROVE  s \o t # <<>> /\ Head(s \o t) = Head(s) /\ Tail(s) \o t = Tail(s \o t)
<1>1. /\ Tail(s) \in Seq(Messages) /\ Len(Tail(s)) = Len(s) - 1
      /\ \A i \in 1 .. Len(Tail(s)) : Tail(s)[i] = s[i + 1]
  BY HeadTailProperties
<1>2. Len(s) \in Nat /\ Len(s) > 0 /\ Head(s) = s[1] OBVIOUS
<1>3. /\ s \o t \in Seq(Messages) /\ Len(t) \in Nat /\ Len(s \o t) = Len(s) + Len(t)
      /\ \A i \in 1 .. Len(s) : (s \o t)[i] = s[i]
      /\ \A i \in 1 .. Len(t) : (s \o t)[Len(s) + i] = t[i]
  BY StreamParts
<1>4. Len(s \o t) > 0 BY <1>2, <1>3
<1>5. s \o t # <<>> BY <1>3, <1>4
<1>6. Head(s \o t) = Head(s) BY <1>2, <1>3, <1>5
<1>7. /\ Tail(s \o t) \in Seq(Messages) /\ Len(Tail(s \o t)) = Len(s \o t) - 1
      /\ \A i \in 1 .. Len(Tail(s \o t)) : Tail(s \o t)[i] = (s \o t)[i + 1]
  BY <1>3, <1>5, HeadTailProperties
<1>8. /\ Tail(s) \o t \in Seq(Messages) /\ Len(Tail(s) \o t) = Len(Tail(s)) + Len(t)
      /\ \A i \in 1 .. Len(Tail(s)) : (Tail(s) \o t)[i] = Tail(s)[i]
      /\ \A i \in 1 .. Len(t) : (Tail(s) \o t)[Len(Tail(s)) + i] = t[i]
  BY <1>1, StreamParts
<1>9. Len(Tail(s) \o t) = Len(Tail(s \o t)) BY <1>1, <1>2, <1>3, <1>7, <1>8
<1>10. ASSUME NEW i \in 1 .. Len(Tail(s) \o t)
       PROVE  (Tail(s) \o t)[i] = Tail(s \o t)[i]
  <2>1. CASE i <= Len(Tail(s))
    <3>1. i \in 1 .. Len(Tail(s)) /\ i + 1 \in 1 .. Len(s) BY <2>1, <1>1, <1>2
    <3>. QED BY <3>1, <1>1, <1>3, <1>7, <1>8, <1>9
  <2>2. CASE ~ (i <= Len(Tail(s)))
    <3> DEFINE k == i - Len(Tail(s))
    <3>1. /\ k \in 1 .. Len(t) /\ i = Len(Tail(s)) + k /\ i + 1 = Len(s) + k
      BY <2>2, <1>1, <1>2, <1>3, <1>8
    <3>2. (Tail(s) \o t)[i] = t[k] BY <3>1, <1>8
    <3>3. Tail(s \o t)[i] = (s \o t)[Len(s) + k] BY <3>1, <1>7, <1>9
    <3>. QED BY <3>1, <3>2, <3>3, <1>3
  <2>. QED BY <2>1, <2>2
<1>11. Tail(s) \o t = Tail(s \o t) BY <1>7, <1>8, <1>9, <1>10, SeqEqual
<1>. QED BY <1>5, <1>6, <1>11

(* and the server only moves one within it. *)
LEMMA ShiftStream ==
    ASSUME NEW s \in Seq(Messages), NEW t \in Seq(Messages), t # <<>>
    PROVE  Append(s, Head(t)) \o Tail(t) = s \o t
<1> DEFINE u == Append(s, Head(t))
           v == Tail(t)
<1>1. /\ Tail(t) \in Seq(Messages) /\ Len(Tail(t)) = Len(t) - 1 /\ Head(t) \in Messages
      /\ \A i \in 1 .. Len(Tail(t)) : Tail(t)[i] = t[i + 1]
  BY HeadTailProperties
<1>2. Len(s) \in Nat /\ Len(t) \in Nat /\ Len(t) > 0 /\ Head(t) = t[1] OBVIOUS
<1>3. /\ u \in Seq(Messages) /\ Len(u) = Len(s) + 1
      /\ \A i \in 1 .. Len(s) : u[i] = s[i]
      /\ u[Len(s) + 1] = Head(t)
  BY <1>1, AppendProperties
<1>4. /\ s \o t \in Seq(Messages) /\ Len(s \o t) = Len(s) + Len(t)
      /\ \A i \in 1 .. Len(s) : (s \o t)[i] = s[i]
      /\ \A i \in 1 .. Len(t) : (s \o t)[Len(s) + i] = t[i]
  BY StreamParts
<1>5. v \in Seq(Messages) BY <1>1
<1> HIDE DEF u
<1>6. /\ u \o v \in Seq(Messages) /\ Len(u \o v) = Len(u) + Len(v)
      /\ \A i \in 1 .. Len(u) : (u \o v)[i] = u[i]
      /\ \A i \in 1 .. Len(v) : (u \o v)[Len(u) + i] = v[i]
  <2> HIDE DEF v
  <2>. QED BY <1>3, <1>5, StreamParts
<1>7. Len(u \o v) = Len(s \o t) BY <1>1, <1>2, <1>3, <1>4, <1>6
<1>8. ASSUME NEW i \in 1 .. Len(u \o v) PROVE (u \o v)[i] = (s \o t)[i]
  <2>1. CASE i <= Len(s)
    <3>1. i \in 1 .. Len(s) /\ i \in 1 .. Len(u) BY <2>1, <1>2, <1>3
    <3>. QED BY <3>1, <1>3, <1>4, <1>6
  <2>2. CASE i = Len(s) + 1
    <3>1. i \in 1 .. Len(u) /\ 1 \in 1 .. Len(t) BY <2>2, <1>2, <1>3
    <3>2. (u \o v)[i] = Head(t) BY <3>1, <2>2, <1>3, <1>6
    <3>3. (s \o t)[i] = t[1] BY <3>1, <2>2, <1>4
    <3>. QED BY <3>2, <3>3, <1>2
  <2>3. CASE i > Len(s) + 1
    <3> DEFINE k == i - Len(u)
    <3>1. /\ k \in 1 .. Len(v) /\ i = Len(u) + k /\ k + 1 \in 1 .. Len(t)
          /\ i = Len(s) + (k + 1)
      BY <2>3, <1>1, <1>2, <1>3, <1>6
    <3>2. (u \o v)[i] = v[k] BY <3>1, <1>6
    <3>3. (s \o t)[i] = t[k + 1] BY <3>1, <1>4
    <3>. QED BY <3>1, <3>2, <3>3, <1>1
  <2>. QED BY <2>1, <2>2, <2>3, <1>2, <1>3, <1>6
<1>9. u \o v = s \o t BY <1>4, <1>6, <1>7, <1>8, SeqEqual
<1>. QED BY <1>9 DEF u

-----------------------------------------------------------------------------
(* An answer *)

(* Appending to a sequence of one. *)
LEMMA AppendToOne ==
    ASSUME NEW a, NEW b
    PROVE  /\ Len(Append(<<a>>, b)) = 2
           /\ Append(<<a>>, b)[1] = a /\ Append(<<a>>, b)[2] = b
<1>1. <<a>> \in Seq({a, b}) /\ b \in {a, b} /\ Len(<<a>>) = 1 /\ <<a>>[1] = a OBVIOUS
<1>2. /\ Len(Append(<<a>>, b)) = Len(<<a>>) + 1
      /\ \A i \in 1 .. Len(<<a>>) : Append(<<a>>, b)[i] = <<a>>[i]
      /\ Append(<<a>>, b)[Len(<<a>>) + 1] = b
  BY <1>1, AppendProperties
<1>. QED BY <1>1, <1>2

(* What a script holds: items and ends of its call, the items first; one    *)
(* Done, at its end; for get_entity an item or an error before it.          *)
LEMMA ScriptShape ==
    ASSUME NEW req \in Request, NEW id \in Nat, NEW answer \in Dispatch(req, id),
           NEW script, script = Script(answer, Done(id, req.of, ItemsIn(answer)))
    PROVE  /\ \A i \in 1 .. Len(script) : script[i].of = req.of
           /\ \A i, j \in 1 .. Len(script) :
                 i < j /\ IsEnd(script[i]) => ~ IsItem(script[j])
           /\ \A i \in 1 .. Len(script) :
                 script[i].type = "Done" => i = Len(script) /\ script[i].id = id
           /\ req.kind = "entity" =>
                 /\ Len(script) = 2
                 /\ script[1] \in {Item("entity", req.of, 1), ErrorFor(id, req.of)}
<1> DEFINE done == Done(id, req.of, ItemsIn(answer))
<1>0. req.kind \in Kinds /\ MaxItems \in Nat \ {0} BY SessionBounds DEF Request
<1>1. CASE answer = <<ErrorFor(id, req.of)>>
  <2>1. script = Append(<<ErrorFor(id, req.of)>>, done) BY <1>1 DEF Script
  <2>2. Len(script) = 2 /\ script[1] = ErrorFor(id, req.of) /\ script[2] = done
    BY <2>1, AppendToOne
  <2>3. /\ ErrorFor(id, req.of).of = req.of /\ ErrorFor(id, req.of).type # "Done"
        /\ done.of = req.of /\ done.id = id /\ ~ IsItem(done)
    BY <1>0, Shapes
  <2> HIDE DEF done
  <2>4. \A i \in 1 .. Len(script) : i = 1 \/ i = 2 BY <2>2
  <2>. QED BY <2>2, <2>3, <2>4 DEF done
<1>2. ASSUME NEW n \in 0 .. MaxItems, answer = Items(req.kind, req.of, n),
             req.kind = "entity" => n = 1
      PROVE  /\ \A i \in 1 .. Len(script) : script[i].of = req.of
             /\ \A i, j \in 1 .. Len(script) :
                   i < j /\ IsEnd(script[i]) => ~ IsItem(script[j])
             /\ \A i \in 1 .. Len(script) :
                   script[i].type = "Done" => i = Len(script) /\ script[i].id = id
             /\ req.kind = "entity" =>
                   Len(script) = 2 /\ script[1] = Item("entity", req.of, 1)
  <2>1. answer = [i \in 1 .. n |-> Item(req.kind, req.of, i)] /\ n \in Nat
    BY <1>0, <1>2 DEF Items
  <2>2. Len(answer) = n /\ \A i \in 1 .. n : answer[i] = Item(req.kind, req.of, i)
    BY <2>1
  <2>3. /\ Len(script) = n + 1 /\ script[n + 1] = done
        /\ \A i \in 1 .. n : script[i] = answer[i]
    <3>1. answer \in Seq({Item(req.kind, req.of, i) : i \in 1 .. n} \cup {done})
      BY <2>1
    <3>. QED BY <2>2, <3>1 DEF Script
  <2>4. \A i \in 1 .. n : /\ script[i].of = req.of /\ ~ IsEnd(script[i])
                          /\ script[i].type # "Done"
    <3> HIDE DEF done
    <3>1. ASSUME NEW i \in 1 .. n
          PROVE  /\ Item(req.kind, req.of, i).of = req.of
                 /\ ~ IsEnd(Item(req.kind, req.of, i))
                 /\ Item(req.kind, req.of, i).type # "Done"
      BY <1>0, Shapes
    <3>. QED BY <2>2, <2>3, <3>1
  <2>5. done.of = req.of /\ done.id = id /\ ~ IsItem(done) BY <1>0, Shapes
  <2> HIDE DEF done
  <2>6. \A i \in 1 .. Len(script) : i \in 1 .. n \/ i = n + 1 BY <2>1, <2>3
  <2>7. \A i \in 1 .. Len(script) : script[i].of = req.of BY <2>3, <2>4, <2>5, <2>6
  <2>8. ASSUME NEW i \in 1 .. Len(script), NEW j \in 1 .. Len(script),
               i < j, IsEnd(script[i])
        PROVE  ~ IsItem(script[j])
    <3>1. i = n + 1 BY <2>4, <2>6, <2>8
    <3>. QED BY <3>1, <2>1, <2>3, <2>8
  <2>9. \A i \in 1 .. Len(script) :
           script[i].type = "Done" => i = Len(script) /\ script[i].id = id
    BY <2>3, <2>4, <2>5, <2>6
  <2>10. req.kind = "entity" => Len(script) = 2 /\ script[1] = Item("entity", req.of, 1)
    BY <1>2, <2>1, <2>2, <2>3
  <2>. QED BY <2>7, <2>8, <2>9, <2>10
<1>. QED BY <1>0, <1>1, <1>2 DEF Dispatch

-----------------------------------------------------------------------------
(* What each kind of step does to a stream *)

(* The server takes the first request, and its script follows what was sent. *)
LEMMA AnswerStream ==
    ASSUME NEW s \in Seq(Messages), NEW reqs \in Seq(Request), reqs # <<>>,
           NEW live, NEW c, Answers(s, reqs, live, c),
           NEW id \in Nat, NEW answer \in Dispatch(Head(reqs), id),
           NEW t \in Seq(Messages),
           t = Script(answer, Done(id, Head(reqs).of, ItemsIn(answer)))
    PROVE  Answers(s \o t, Tail(reqs), live, c)
<1> DEFINE req == Head(reqs)
           u == s \o t
           rest == Tail(reqs)
<1>1. /\ rest \in Seq(Request) /\ Len(rest) = Len(reqs) - 1
      /\ \A k \in 1 .. Len(rest) : rest[k] = reqs[k + 1]
      /\ req \in Request
  BY HeadTailProperties
<1>2. Len(reqs) \in Nat /\ Len(reqs) > 0 /\ req = reqs[1] OBVIOUS
<1>3. /\ u \in Seq(Messages) /\ Len(s) \in Nat /\ Len(t) \in Nat
      /\ Len(u) = Len(s) + Len(t)
      /\ \A i \in 1 .. Len(s) : u[i] = s[i]
      /\ \A i \in 1 .. Len(t) : u[Len(s) + i] = t[i]
  BY StreamParts
<1>4. /\ \A i \in 1 .. Len(t) : t[i].of = req.of
      /\ \A i, j \in 1 .. Len(t) : i < j /\ IsEnd(t[i]) => ~ IsItem(t[j])
      /\ \A i \in 1 .. Len(t) : t[i].type = "Done" => i = Len(t) /\ t[i].id = id
      /\ req.kind = "entity" =>
            Len(t) = 2 /\ t[1] \in {Item("entity", req.of, 1), ErrorFor(id, req.of)}
  <2> HIDE DEF req
  <2>1. req \in Request /\ answer \in Dispatch(req, id) BY <1>1 DEF req
  <2>2. t = Script(answer, Done(id, req.of, ItemsIn(answer))) BY DEF req
  <2>. QED BY <2>1, <2>2, ScriptShape
<1>5. /\ ItemsLive(s, live) /\ EndsFirst(s) /\ RequestsAfter(s, reqs, live)
      /\ OwnEntity(s, c) /\ ResultsLive(live, c) /\ SameKind(reqs, c)
  BY DEF Answers
<1>6. 1 \in 1 .. Len(reqs) /\ \A k \in 1 .. Len(rest) : k + 1 \in 1 .. Len(reqs)
  BY <1>1, <1>2
<1>7. req.of \in live /\ EndsBelow(s, req.of) BY <1>2, <1>5, <1>6 DEF RequestsAfter
<1> HIDE DEF req, u, rest
<1>0. Len(s) \in Nat /\ Len(t) \in Nat /\ Len(u) = Len(s) + Len(t) BY <1>3
<1>8. ASSUME NEW i \in 1 .. Len(u)
      PROVE  \/ i \in 1 .. Len(s) /\ u[i] = s[i]
             \/ i - Len(s) \in 1 .. Len(t) /\ u[i] = t[i - Len(s)] /\ i > Len(s)
  <2>1. CASE i <= Len(s)
    <3>1. i \in 1 .. Len(s) BY <2>1, <1>0
    <3>. QED BY <3>1, <1>3
  <2>2. CASE i > Len(s)
    <3>1. i - Len(s) \in 1 .. Len(t) /\ i = Len(s) + (i - Len(s)) BY <2>2, <1>0
    <3>2. u[Len(s) + (i - Len(s))] = t[i - Len(s)] BY <3>1, <1>3
    <3>. QED BY <3>1, <3>2, <2>2
  <2>. QED BY <2>1, <2>2, <1>0
<1>9. ItemsLive(u, live) BY <1>4, <1>5, <1>7, <1>8 DEF ItemsLive
<1>10. EndsFirst(u)
  <2> SUFFICES ASSUME NEW i \in 1 .. Len(u), NEW j \in 1 .. Len(u),
                      i < j, IsEnd(u[i]), IsItem(u[j])
               PROVE  u[i].of < u[j].of
    BY DEF EndsFirst
  <2>1. CASE i \in 1 .. Len(s) /\ u[i] = s[i]
    <3>1. CASE j \in 1 .. Len(s) /\ u[j] = s[j] BY <2>1, <3>1, <1>5 DEF EndsFirst
    <3>2. CASE j - Len(s) \in 1 .. Len(t) /\ u[j] = t[j - Len(s)]
      BY <2>1, <3>2, <1>4, <1>7 DEF EndsBelow
    <3>. QED BY <3>1, <3>2, <1>8
  <2>2. CASE i - Len(s) \in 1 .. Len(t) /\ u[i] = t[i - Len(s)] /\ i > Len(s)
    <3>1. j > Len(s) /\ i - Len(s) < j - Len(s) BY <2>2, <1>0
    <3>2. ~ (j \in 1 .. Len(s)) BY <3>1, <1>0
    <3>3. j - Len(s) \in 1 .. Len(t) /\ u[j] = t[j - Len(s)] BY <3>2, <1>8
    <3>. QED BY <2>2, <3>1, <3>3, <1>4
  <2>. QED BY <2>1, <2>2, <1>8
<1>11. RequestsAfter(u, rest, live)
  <2> SUFFICES ASSUME NEW k \in 1 .. Len(rest)
               PROVE  /\ rest[k].of \in live /\ EndsBelow(u, rest[k].of)
                      /\ \A l \in 1 .. k - 1 : rest[l].of < rest[k].of
    BY DEF RequestsAfter
  <2>1. k + 1 \in 1 .. Len(reqs) /\ rest[k] = reqs[k + 1] BY <1>1, <1>6
  <2>2. /\ rest[k].of \in live /\ EndsBelow(s, rest[k].of)
        /\ \A l \in 1 .. k : reqs[l].of < rest[k].of
    <3>1. \A l \in 1 .. (k + 1) - 1 : reqs[l].of < reqs[k + 1].of
      BY <2>1, <1>5 DEF RequestsAfter
    <3>2. (k + 1) - 1 = k BY <1>1, <1>2
    <3>. QED BY <2>1, <3>1, <3>2, <1>5 DEF RequestsAfter
  <2>3. req.of < rest[k].of
    <3>1. 1 \in 1 .. k BY <1>1, <1>2
    <3>. QED BY <3>1, <2>2, <1>2
  <2>4. EndsBelow(u, rest[k].of) BY <2>2, <2>3, <1>4, <1>8 DEF EndsBelow
  <2>5. ASSUME NEW l \in 1 .. k - 1 PROVE rest[l].of < rest[k].of
    <3>1. l \in 1 .. Len(rest) /\ l + 1 \in 1 .. k BY <1>1, <1>2
    <3>. QED BY <3>1, <2>2, <1>1
  <2>. QED BY <2>2, <2>4, <2>5
<1>12. OwnEntity(u, c)
  <2> SUFFICES ASSUME c.phase = "collect", c.kind = "entity",
                      NEW k \in 1 .. Len(u), u[k].type = "Done", u[k].of = c.id
               PROVE  IF k > 1
                      THEN u[k - 1] \in {Item("entity", c.id, 1), ErrorFor(u[k].id, c.id)}
                      ELSE u[k].id # c.id
                             \/ (c.results # <<>> /\ c.results[Len(c.results)].of = c.id)
    BY DEF OwnEntity
  <2>1. CASE k \in 1 .. Len(s) /\ u[k] = s[k]
    <3>0. k > 1 => k - 1 \in 1 .. Len(s) BY <2>1, <1>0
    <3>1. k > 1 => u[k - 1] = s[k - 1] BY <3>0, <1>3
    <3>2. IF k > 1
          THEN s[k - 1] \in {Item("entity", c.id, 1), ErrorFor(s[k].id, c.id)}
          ELSE s[k].id # c.id
                 \/ (c.results # <<>> /\ c.results[Len(c.results)].of = c.id)
      BY <2>1, <1>5 DEF OwnEntity
    <3>. QED BY <2>1, <3>1, <3>2
  <2>2. CASE k - Len(s) \in 1 .. Len(t) /\ u[k] = t[k - Len(s)] /\ k > Len(s)
    <3>1. k - Len(s) = Len(t) /\ u[k].id = id /\ req.of = c.id BY <2>2, <1>4
    <3>2. req.kind = "entity" BY <3>1, <1>2, <1>5, <1>6 DEF SameKind
    <3>3. Len(t) = 2 /\ t[1] \in {Item("entity", c.id, 1), ErrorFor(id, c.id)}
      BY <3>1, <3>2, <1>4
    <3>4. k > 1 /\ k - 1 = Len(s) + 1 /\ 1 \in 1 .. Len(t)
      <4>1. Len(t) = 2 /\ k - Len(s) = 2 BY <3>1, <3>3
      <4>2. k \in Int BY <1>0
      <4>3. \A a, b, d \in Int :
               d - a = 2 /\ a >= 0 /\ b = 2 => d > 1 /\ d - 1 = a + 1 /\ 1 \in 1 .. b
        OBVIOUS
      <4>4. Len(s) \in Int /\ Len(s) >= 0 /\ Len(t) \in Int BY <1>0
      <4>. QED BY <4>1, <4>2, <4>3, <4>4
    <3>5. u[Len(s) + 1] = t[1] BY <3>4, <1>3
    <3>. QED BY <3>1, <3>3, <3>4, <3>5
  <2>. QED BY <2>1, <2>2, <1>8
<1>13. SameKind(rest, c) BY <1>1, <1>5, <1>6 DEF SameKind
<1>. QED BY <1>5, <1>9, <1>10, <1>11, <1>12, <1>13 DEF Answers, u, rest

(* The connection breaks: a part of the stream is left, and no request. *)
LEMMA BreakStream ==
    ASSUME NEW s \in Seq(Messages), NEW t \in Seq(Messages), Len(t) <= Len(s),
           \A i \in 1 .. Len(t) : t[i] = s[i],
           NEW reqs, NEW live, NEW c, Answers(s, reqs, live, c)
    PROVE  Answers(t, <<>>, live, c)
<1>1. ItemsLive(t, live) /\ EndsFirst(t) /\ OwnEntity(t, c) BY PrefixKeeps DEF Answers
<1>. QED BY <1>1 DEF Answers, RequestsAfter, SameKind

(* A call ends, by its own end or dropped: fewer items may still come. *)
LEMMA EndStream ==
    ASSUME NEW s, NEW reqs, NEW live, NEW less, NEW c, Answers(s, reqs, live, c),
           \A i \in 1 .. Len(s) : IsItem(s[i]) => s[i].of \in less,
           \A k \in 1 .. Len(reqs) : reqs[k].of \in less
    PROVE  Answers(s, reqs, less, Idle)
  BY DEF Answers, ItemsLive, RequestsAfter, OwnEntity, ResultsLive, SameKind, Idle

(* The client sends a request, with the next number; on a broken connection it *)
(* goes nowhere.                                                               *)
LEMMA SendStream ==
    ASSUME NEW s \in Seq(Messages), NEW reqs \in Seq(Request), NEW live,
           Answers(s, reqs, live, Idle), NEW n \in 0 .. MaxCalls, NEW kind \in Kinds,
           EndsBelow(s, n), \A k \in 1 .. Len(reqs) : reqs[k].of < n,
           NEW more, more = reqs \/ more = Append(reqs, [kind |-> kind, of |-> n])
    PROVE  Answers(s, more, live \cup {n}, Collecting(n, kind))
<1> DEFINE req == [kind |-> kind, of |-> n]
           c == Collecting(n, kind)
<1>1. ItemsLive(s, live) /\ EndsFirst(s) /\ RequestsAfter(s, reqs, live) BY DEF Answers
<1>2. c.phase = "collect" /\ c.id = n /\ c.kind = kind /\ c.results = <<>> BY DEF Collecting
<1>3. Len(reqs) \in Nat OBVIOUS
<1>4. /\ Len(more) \in Nat
      /\ \A k \in 1 .. Len(more) :
            (k \in 1 .. Len(reqs) /\ more[k] = reqs[k]) \/ (k = Len(reqs) + 1 /\ more[k] = req)
      /\ \A k \in 1 .. Len(reqs) : more[k] = reqs[k]
  <2>1. CASE more = reqs BY <2>1, <1>3
  <2>2. CASE more = Append(reqs, req)
    <3>1. req \in Request BY DEF Request
    <3>2. /\ Len(more) = Len(reqs) + 1 /\ more[Len(reqs) + 1] = req
          /\ \A k \in 1 .. Len(reqs) : more[k] = reqs[k]
      <4> HIDE DEF req
      <4>. QED BY <2>2, <3>1, AppendProperties
    <3>. QED BY <3>2, <1>3
  <2>. QED BY <2>1, <2>2
<1>5. req.of = n /\ req.kind = kind OBVIOUS
<1> HIDE DEF req, c
<1>6. ItemsLive(s, live \cup {n}) BY <1>1 DEF ItemsLive
<1>7. RequestsAfter(s, more, live \cup {n})
  <2> SUFFICES ASSUME NEW k \in 1 .. Len(more)
               PROVE  /\ more[k].of \in live \cup {n} /\ EndsBelow(s, more[k].of)
                      /\ \A l \in 1 .. k - 1 : more[l].of < more[k].of
    BY DEF RequestsAfter
  <2>1. CASE k \in 1 .. Len(reqs) /\ more[k] = reqs[k]
    <3>1. \A l \in 1 .. k - 1 : l \in 1 .. Len(reqs) BY <2>1, <1>3
    <3>. QED BY <2>1, <3>1, <1>1, <1>4 DEF RequestsAfter
  <2>2. CASE k = Len(reqs) + 1 /\ more[k] = req
    <3>1. \A l \in 1 .. k - 1 : l \in 1 .. Len(reqs) BY <2>2, <1>3
    <3>. QED BY <2>2, <3>1, <1>4, <1>5
  <2>. QED BY <2>1, <2>2, <1>4
<1>8. OwnEntity(s, c)
  <2>1. ASSUME NEW k \in 1 .. Len(s), s[k].type = "Done", s[k].of = n PROVE FALSE
    <3>1. s[k].of < n BY <2>1 DEF EndsBelow, IsEnd
    <3>. QED BY <3>1, <2>1
  <2>. QED BY <2>1, <1>2 DEF OwnEntity
<1>9. ResultsLive(live \cup {n}, c) BY <1>2 DEF ResultsLive
<1>10. SameKind(more, c)
  <2> SUFFICES ASSUME NEW k \in 1 .. Len(more), more[k].of = n PROVE more[k].kind = kind
    BY <1>2 DEF SameKind
  <2>. QED BY <1>4, <1>5
<1>. QED BY <1>1, <1>6, <1>7, <1>8, <1>9, <1>10 DEF Answers, c

(* The client reads the first message. *)
LEMMA ReadStream ==
    ASSUME NEW s \in Seq(Messages), s # <<>>, NEW reqs, NEW live, NEW c,
           Answers(s, reqs, live, c)
    PROVE  Answers(Tail(s), reqs, live, Idle)
<1>1. /\ ItemsLive(Tail(s), live) /\ EndsFirst(Tail(s))
      /\ \A n : EndsBelow(s, n) => EndsBelow(Tail(s), n)
  BY TailKeeps DEF Answers
<1>2. RequestsAfter(Tail(s), reqs, live) BY <1>1 DEF Answers, RequestsAfter
<1>. QED BY <1>1, <1>2 DEF Answers, OwnEntity, ResultsLive, SameKind, Idle

(* It ends the call: nothing of the call is left. *)
LEMMA FinishStream ==
    ASSUME NEW s \in Seq(Messages), s # <<>>, NEW reqs \in Seq(Request), NEW less,
           NEW c, Answers(s, reqs, less \cup {c.id}, c),
           IsEnd(Head(s)), Head(s).of = c.id, c.id \in Nat
    PROVE  Answers(Tail(s), reqs, less, Idle)
<1> DEFINE live == less \cup {c.id}
<1>0. MaxCalls \in Nat BY SessionBounds
<1>1. /\ ItemsLive(s, live) /\ EndsFirst(s) /\ RequestsAfter(s, reqs, live)
  BY DEF Answers
<1>2. /\ Tail(s) \in Seq(Messages) /\ ItemsLive(Tail(s), live)
      /\ \A j \in 1 .. Len(Tail(s)) :
            IsItem(Tail(s)[j]) => Head(s).of < Tail(s)[j].of
      /\ \A n : EndsBelow(s, n) => Head(s).of < n
  BY <1>1, TailKeeps, HeadTailProperties
<1>3. ASSUME NEW i \in 1 .. Len(Tail(s)), IsItem(Tail(s)[i]) PROVE Tail(s)[i].of \in less
  <2>1. Tail(s)[i] \in Messages BY <1>2, ElementOfSeq
  <2>2. Tail(s)[i].of \in 0 .. MaxCalls BY <2>1, <1>3, ItemNumber
  <2>3. c.id < Tail(s)[i].of /\ Tail(s)[i].of \in live BY <1>2, <1>3 DEF ItemsLive
  <2>. QED BY <2>2, <2>3, <1>0
<1>4. ASSUME NEW k \in 1 .. Len(reqs) PROVE reqs[k].of \in less
  <2>1. reqs[k].of \in 0 .. MaxCalls BY RequestNumbers DEF Request
  <2>2. reqs[k].of \in live /\ c.id < reqs[k].of BY <1>1, <1>2 DEF RequestsAfter
  <2>. QED BY <2>1, <2>2, <1>0
<1>5. Answers(Tail(s), reqs, live, Idle) BY ReadStream
<1>. QED BY <1>3, <1>4, <1>5, EndStream

(* The call goes on, with one more result if the message is an item for it. *)
LEMMA KeepStream ==
    ASSUME NEW s \in Seq(Messages), s # <<>>, NEW reqs, NEW live,
           NEW c \in [phase : {"collect"}, id : 0 .. MaxCalls, kind : Kinds,
                      results : Seq(Messages)],
           Answers(s, reqs, live, c),
           ~ (Head(s).type \in {"Done", "Error"} /\ Head(s).id = c.id),
           NEW d, d = IF Head(s).type = ItemType(c.kind)
                      THEN [c EXCEPT !.results = Append(@, Head(s))] ELSE c
    PROVE  Answers(Tail(s), reqs, live, d)
<1> DEFINE m == Head(s)
<1>1. /\ Tail(s) \in Seq(Messages) /\ Len(Tail(s)) = Len(s) - 1
      /\ \A i \in 1 .. Len(Tail(s)) : Tail(s)[i] = s[i + 1]
      /\ m \in Messages
  BY HeadTailProperties
<1>2. Len(s) \in Nat /\ Len(s) > 0 /\ m = s[1] OBVIOUS
<1>3. OwnEntity(s, c) /\ ResultsLive(live, c) /\ SameKind(reqs, c) /\ ItemsLive(s, live)
  BY DEF Answers
<1>4. c.results \in Seq(Messages) /\ Len(c.results) \in Nat /\ c.phase = "collect"
  OBVIOUS
<1>5. /\ d.phase = "collect" /\ d.id = c.id /\ d.kind = c.kind
      /\ d.results = IF m.type = ItemType(c.kind) THEN Append(c.results, m) ELSE c.results
  OBVIOUS
<1>6. IsItem(m) => m.of \in live BY <1>2, <1>3 DEF ItemsLive
<1>7. m.type = ItemType(c.kind) => IsItem(m) BY DEF ItemType, IsItem
<1>8. /\ Len(Append(c.results, m)) = Len(c.results) + 1
      /\ \A i \in 1 .. Len(c.results) : Append(c.results, m)[i] = c.results[i]
      /\ Append(c.results, m)[Len(c.results) + 1] = m
  <2> HIDE DEF m
  <2>. QED BY <1>1, <1>4, AppendProperties
<1>9. ~ (m.type \in {"Done", "Error"} /\ m.id = c.id) OBVIOUS
<1> HIDE DEF m
<1>10. ResultsLive(live, d)
  <2> SUFFICES ASSUME NEW i \in 1 .. Len(d.results) PROVE d.results[i].of \in live
    BY DEF ResultsLive
  <2>1. CASE d.results = c.results BY <2>1, <1>3, <1>4 DEF ResultsLive
  <2>2. CASE m.type = ItemType(c.kind) /\ d.results = Append(c.results, m)
    <3>1. i \in 1 .. Len(c.results) \/ i = Len(c.results) + 1 BY <2>2, <1>4, <1>8
    <3>. QED BY <2>2, <3>1, <1>3, <1>4, <1>6, <1>7, <1>8 DEF ResultsLive
  <2>. QED BY <2>1, <2>2, <1>5
<1>11. OwnEntity(Tail(s), d)
  <2> DEFINE T == Tail(s)
  <2> SUFFICES ASSUME c.kind = "entity",
                      NEW k \in 1 .. Len(T), T[k].type = "Done", T[k].of = c.id
               PROVE  IF k > 1
                      THEN T[k - 1] \in {Item("entity", c.id, 1), ErrorFor(T[k].id, c.id)}
                      ELSE T[k].id # c.id
                             \/ (d.results # <<>> /\ d.results[Len(d.results)].of = c.id)
    BY <1>5 DEF OwnEntity
  <2>1. k \in Nat /\ k >= 1 /\ k + 1 \in 1 .. Len(s) /\ k + 1 > 1 /\ (k + 1) - 1 = k
    BY <1>1, <1>2
  <2>2. T[k] = s[k + 1] BY <1>1
  <2>3. s[(k + 1) - 1] \in {Item("entity", c.id, 1), ErrorFor(s[k + 1].id, c.id)}
    BY <2>1, <2>2, <1>3, <1>4 DEF OwnEntity
  <2>4. s[k] \in {Item("entity", c.id, 1), ErrorFor(T[k].id, c.id)} BY <2>1, <2>2, <2>3
  <2>5. CASE k > 1
    <3>1. k - 1 \in 1 .. Len(T) /\ (k - 1) + 1 = k BY <2>5, <2>1
    <3>2. T[k - 1] = s[(k - 1) + 1] BY <3>1, <1>1
    <3>. QED BY <2>4, <2>5, <3>1, <3>2
  <2>6. CASE k = 1
    <3>1. m \in {Item("entity", c.id, 1), ErrorFor(T[k].id, c.id)} BY <2>4, <2>6, <1>2
    <3>2. CASE m = Item("entity", c.id, 1)
      <4>1. m.type = ItemType(c.kind) /\ m.of = c.id BY <3>2 DEF Item
      <4>2. d.results = Append(c.results, m) BY <4>1, <1>5
      <4>3. /\ Len(d.results) = Len(c.results) + 1
            /\ d.results[Len(c.results) + 1] = m
        BY <4>2, <1>8
      <4>4. Len(d.results) > 0 BY <4>3, <1>4
      <4>5. ASSUME NEW r, Len(r) > 0 PROVE r # <<>> BY <4>5
      <4>6. d.results # <<>> BY <4>4, <4>5
      <4>7. d.results[Len(d.results)].of = c.id BY <4>1, <4>3
      <4>. QED BY <4>6, <4>7, <2>6
    <3>3. CASE m = ErrorFor(T[k].id, c.id)
      <4>1. m.type = "Error" /\ m.id = T[k].id BY <3>3 DEF ErrorFor
      <4>. QED BY <4>1, <1>9, <2>6
    <3>. QED BY <3>1, <3>2, <3>3
  <2>7. k > 1 \/ k = 1 BY <2>1
  <2>. QED BY <2>5, <2>6, <2>7
<1>12. SameKind(reqs, d) BY <1>3, <1>4, <1>5 DEF SameKind
<1>13. Answers(Tail(s), reqs, live, Idle) BY ReadStream
<1>. QED BY <1>10, <1>11, <1>12, <1>13 DEF Answers

-----------------------------------------------------------------------------
(* The steps *)

(* What SessionInv says of the stream and the requests. *)
LEMMA StreamType ==
    ASSUME SessionInv
    PROVE  /\ replies \in Seq(Messages) /\ sending \in Seq(Messages)
           /\ Stream \in Seq(Messages) /\ (sending = <<>> => Stream = replies)
           /\ requests \in Seq(Request) /\ query_id \in Nat /\ next_query_id \in Nat
           /\ EndsBelow(Stream, next_query_id)
           /\ \A k \in 1 .. Len(requests) : requests[k].of < next_query_id
<1>1. /\ replies \in Seq(Messages) /\ sending \in Seq(Messages)
      /\ requests \in Seq(Request) /\ query_id \in Nat /\ next_query_id \in Nat
  BY SessionBounds DEF SessionInv, TypeOK, Request
<1>2. /\ replies \o sending \in Seq(Messages)
      /\ Len(replies) \in Nat /\ Len(sending) \in Nat
      /\ Len(replies \o sending) = Len(replies) + Len(sending)
      /\ \A i \in 1 .. Len(replies) : (replies \o sending)[i] = replies[i]
      /\ \A i \in 1 .. Len(sending) : (replies \o sending)[Len(replies) + i] = sending[i]
  BY <1>1, StreamParts
<1>3. sending = <<>> => replies \o sending = replies BY <1>1
<1>4. /\ AllSound(replies, query_id, next_query_id)
      /\ AllSound(sending, query_id, next_query_id)
  BY DEF SessionInv
<1>5. ASSUME NEW i \in 1 .. Len(Stream), IsEnd(Stream[i]) PROVE Stream[i].of < next_query_id
  <2>1. CASE i <= Len(replies)
    <3>1. i \in 1 .. Len(replies) BY <2>1, <1>2
    <3>2. Stream[i] = replies[i] BY <3>1, <1>2 DEF Stream
    <3>. QED BY <3>1, <3>2, <1>4, <1>5 DEF AllSound, Sound, IsEnd
  <2>2. CASE i > Len(replies)
    <3>1. /\ i - Len(replies) \in 1 .. Len(sending)
          /\ i = Len(replies) + (i - Len(replies))
      BY <2>2, <1>2 DEF Stream
    <3>2. Stream[i] = sending[i - Len(replies)] BY <3>1, <1>2 DEF Stream
    <3>. QED BY <3>1, <3>2, <1>4, <1>5 DEF AllSound, Sound, IsEnd
  <2>. QED BY <2>1, <2>2, <1>2 DEF Stream
<1>6. \A k \in 1 .. Len(requests) : requests[k].of < next_query_id
  BY DEF SessionInv, Numbered
<1>. QED BY <1>1, <1>2, <1>3, <1>5, <1>6 DEF Stream, EndsBelow

(* Nothing under way, no call in progress. *)
LEMMA InitAnswers == Init => AnswerInv
<1> SUFFICES ASSUME Init PROVE AnswerInv OBVIOUS
<1>1. Stream = <<>> /\ requests = <<>> /\ call = Idle BY DEF Init, Stream
<1>2. Answers(Stream, requests, Live, call)
  BY <1>1 DEF Answers, ItemsLive, EndsFirst, RequestsAfter, OwnEntity, ResultsLive,
              SameKind, Idle
<1>3. Quiet /\ OnlyDroppedLeak /\ EntityOwn
  BY DEF Init, Quiet, OnlyDroppedLeak, EntityOwn
<1>. QED BY <1>2, <1>3 DEF AnswerInv

(* The connection carries a message, *)
LEMMA SendNextAnswers == ASSUME SessionInv, AnswerInv, SendNext PROVE AnswerInv'
<1>1. replies \in Seq(Messages) /\ sending \in Seq(Messages) BY StreamType
<1>2. /\ sending # <<>> /\ sending' = Tail(sending)
      /\ replies' = Append(replies, Head(sending))
      /\ alive /\ alive' = alive
      /\ requests' = requests /\ dropped' = dropped /\ call' = call /\ outcome' = outcome
  BY DEF SendNext, client
<1>3. Stream' = Stream BY <1>1, <1>2, ShiftStream DEF Stream
<1>4. Live' = Live BY <1>2 DEF Live
<1>. QED BY <1>2, <1>3, <1>4 DEF AnswerInv, Quiet, OnlyDroppedLeak, EntityOwn

(* the server takes a request, *)
LEMMA ReceiveAnswers ==
    ASSUME SessionInv, SessionInv', AnswerInv, Receive PROVE AnswerInv'
<1>1. /\ replies \in Seq(Messages) /\ requests \in Seq(Request) /\ query_id \in Nat
      /\ Stream = replies
  BY StreamType DEF Receive
<1>2. sending' \in Seq(Messages) BY DEF SessionInv, TypeOK
<1>3. /\ requests # <<>> /\ requests' = Tail(requests) /\ replies' = replies
      /\ alive /\ alive' = alive
      /\ dropped' = dropped /\ call' = call /\ outcome' = outcome
  BY DEF Receive, client
<1>4. PICK answer \in Dispatch(Head(requests), query_id) :
         sending' = Script(answer, Done(query_id, Head(requests).of, ItemsIn(answer)))
  BY DEF Receive
<1>5. Answers(replies, requests, Live, call) BY <1>1 DEF AnswerInv
<1>6. Answers(replies \o sending', Tail(requests), Live, call)
  BY <1>1, <1>2, <1>3, <1>4, <1>5, AnswerStream
<1>7. Stream' = replies \o sending' /\ Live' = Live BY <1>3 DEF Stream, Live
<1>. QED BY <1>3, <1>6, <1>7 DEF AnswerInv, Quiet, OnlyDroppedLeak, EntityOwn

(* it breaks, *)
LEMMA BreakAnswers == ASSUME SessionInv, AnswerInv, Break PROVE AnswerInv'
<1>1. /\ replies \in Seq(Messages) /\ sending \in Seq(Messages)
      /\ Stream \in Seq(Messages) /\ Len(replies) \in Nat
  BY StreamType
<1>2. /\ Len(Stream) = Len(replies) + Len(sending) /\ Len(sending) \in Nat
      /\ \A i \in 1 .. Len(replies) : Stream[i] = replies[i]
  BY <1>1, StreamParts DEF Stream
<1>3. PICK n \in 0 .. Len(replies) : replies' = SubSeq(replies, 1, n) BY DEF Break
<1>4. /\ replies' \in Seq(Messages) /\ Len(replies') = n
      /\ \A i \in 1 .. n : replies'[i] = replies[i]
  BY <1>1, <1>3
<1>5. Len(replies') <= Len(Stream) /\ \A i \in 1 .. Len(replies') : replies'[i] = Stream[i]
  BY <1>1, <1>2, <1>4
<1>6. /\ sending' = <<>> /\ requests' = <<>>
      /\ dropped' = dropped /\ call' = call /\ outcome' = outcome
  BY DEF Break, client
<1>7. Stream' = replies' /\ Live' = Live BY <1>4, <1>6 DEF Stream, Live
<1>8. Answers(replies', <<>>, Live, call)
  <2>1. Answers(Stream, requests, Live, call) BY DEF AnswerInv
  <2> HIDE DEF Stream, Live
  <2>. QED BY <2>1, <1>1, <1>4, <1>5, BreakStream
<1>. QED BY <1>6, <1>7, <1>8 DEF AnswerInv, Quiet, OnlyDroppedLeak, EntityOwn

(* the client opens another, *)
LEMMA ConnectAnswers == ASSUME Connect PROVE AnswerInv'
<1>1. /\ Stream' = <<Hello>> /\ requests' = <<>> /\ call' = Greeted /\ alive'
      /\ outcome' = [status |-> "none"]
  BY DEF Connect, Stream
<1>2. Answers(<<Hello>>, <<>>, Live', Greeted)
  BY DEF Answers, ItemsLive, EndsFirst, RequestsAfter, OwnEntity, ResultsLive,
         SameKind, Greeted, Hello, IsItem, IsEnd
<1>. QED BY <1>1, <1>2 DEF AnswerInv, Quiet, OnlyDroppedLeak, EntityOwn

(* or closes it. *)
LEMMA DisconnectAnswers == ASSUME AnswerInv, Disconnect PROVE AnswerInv'
<1>1. /\ Stream' = <<>> /\ requests' = <<>> /\ sending' = <<>> /\ call' = Idle
      /\ outcome' = outcome /\ dropped' = dropped
  BY DEF Disconnect, Stream
<1>2. Answers(<<>>, <<>>, Live', Idle)
  BY DEF Answers, ItemsLive, EndsFirst, RequestsAfter, OwnEntity, ResultsLive,
         SameKind, Idle
<1>. QED BY <1>1, <1>2 DEF AnswerInv, Quiet, OnlyDroppedLeak, EntityOwn

(* A call begins. *)
LEMMA SendAnswers ==
    ASSUME SessionInv, AnswerInv, NEW kind \in Kinds, Send(kind) PROVE AnswerInv'
<1>1. /\ Stream \in Seq(Messages) /\ requests \in Seq(Request)
      /\ EndsBelow(Stream, next_query_id)
      /\ \A k \in 1 .. Len(requests) : requests[k].of < next_query_id
  BY StreamType
<1>2. /\ call = Idle /\ call' = Collecting(next_query_id, kind)
      /\ replies' = replies /\ sending' = sending /\ alive' = alive /\ dropped' = dropped
      /\ \/ requests' = requests
         \/ alive /\ requests' = Append(requests, [kind |-> kind, of |-> next_query_id])
      /\ outcome' = [status |-> "none"]
  BY DEF Send, TakeId, server
<1>3. next_query_id \in 0 .. MaxCalls BY DEF SessionInv, TypeOK
<1>4. Stream' = Stream BY <1>2 DEF Stream
<1>5. Live = dropped /\ Live' = dropped \cup {next_query_id}
  BY <1>2 DEF Live, Idle, Collecting
<1>6. Answers(Stream, requests, dropped, Idle) BY <1>2, <1>5 DEF AnswerInv
<1>7. Answers(Stream, requests', dropped \cup {next_query_id}, Collecting(next_query_id, kind))
  <2> HIDE DEF Stream
  <2>. QED BY <1>1, <1>2, <1>3, <1>6, SendStream
<1>. QED BY <1>2, <1>4, <1>5, <1>7 DEF AnswerInv, Quiet, OnlyDroppedLeak, EntityOwn

(* A call cannot begin. *)
LEMMA SendFailsAnswers == ASSUME AnswerInv, SendFails PROVE AnswerInv'
<1>1. /\ call' = call /\ replies' = replies /\ sending' = sending /\ alive' = alive
      /\ dropped' = dropped /\ requests' = requests /\ outcome' = [status |-> "ws"]
  BY DEF SendFails, server
<1>2. Stream' = Stream /\ Live' = Live BY <1>1 DEF Stream, Live
<1>. QED BY <1>1, <1>2 DEF AnswerInv, Quiet, OnlyDroppedLeak, EntityOwn

(* What reading leaves alone, and what it does to the stream. *)
LEMMA ReadParts ==
    ASSUME SessionInv, AnswerInv, replies # <<>>, replies' = Tail(replies),
           UNCHANGED <<server, alive, requests, dropped>>
    PROVE  /\ Stream \in Seq(Messages) /\ Stream # <<>>
           /\ Head(Stream) = Head(replies) /\ Stream' = Tail(Stream)
           /\ requests \in Seq(Request) /\ requests' = requests
           /\ Answers(Stream, requests, Live, call) /\ Quiet'
<1>1. /\ replies \in Seq(Messages) /\ sending \in Seq(Messages)
      /\ Stream \in Seq(Messages) /\ requests \in Seq(Request)
  BY StreamType
<1>2. sending' = sending BY DEF server
<1>3. Stream # <<>> /\ Head(Stream) = Head(replies) /\ Stream' = Tail(Stream)
  BY <1>1, <1>2, TailStream DEF Stream
<1>. QED BY <1>1, <1>2, <1>3 DEF AnswerInv, Quiet

(* A call reads a message, *)
LEMMA CollectAnswers == ASSUME SessionInv, AnswerInv, Collect PROVE AnswerInv'
<1> DEFINE m == Head(replies)
<1>1. /\ call.phase = "collect" /\ replies # <<>> /\ replies' = Tail(replies)
      /\ UNCHANGED <<server, alive, requests, dropped>>
  BY DEF Collect
<1>2. /\ Stream \in Seq(Messages) /\ Stream # <<>>
      /\ Head(Stream) = m /\ Stream' = Tail(Stream)
      /\ requests \in Seq(Request) /\ requests' = requests
      /\ Answers(Stream, requests, Live, call) /\ Quiet'
  BY <1>1, ReadParts
<1>3. Live = dropped \cup {call.id} /\ dropped' = dropped BY <1>1 DEF Live
<1>4. call \in [phase : {"collect"}, id : 0 .. MaxCalls, kind : Kinds, results : Seq(Messages)]
  BY <1>1, CollectingCall DEF SessionInv
<1>5. CASE Ends(m)
  <2>1. call' = Idle /\ ((outcome' = Returned(m) /\ m.type = "Done") \/ outcome'.status # "ok")
    BY <1>5 DEF Collect, Ends
  <2>2. m.of = call.id /\ IsEnd(m) /\ m.id = call.id
    BY <1>1, <1>5, EndedInStep DEF Ends, IsEnd
  <2>3. call.id \in Nat BY <1>4, SessionBounds
  <2>4. Answers(Tail(Stream), requests, dropped, Idle)
    <3> HIDE DEF Stream, Live, m
    <3>. QED BY <1>2, <1>3, <2>2, <2>3, FinishStream
  <2>5. Live' = dropped BY <1>3, <2>1 DEF Live, Idle
  <2>6. OnlyDroppedLeak' /\ EntityOwn'
    <3> SUFFICES ASSUME outcome'.status = "ok" PROVE OnlyDroppedLeak' /\ EntityOwn'
      BY DEF OnlyDroppedLeak, EntityOwn
    <3>1. outcome' = Returned(m) /\ m.type = "Done" BY <2>1
    <3>2. /\ outcome'.value = Popped(call.kind, call.results)
          /\ outcome'.id = call.id /\ outcome'.kind = call.kind
      BY <3>1 DEF Returned
    <3>3. ~ (call.kind \in {"entity", "blob"} /\ outcome'.value = <<>>)
      BY <3>1, <3>2 DEF Returned
    <3>4. call.results \in Seq(Messages) /\ Len(call.results) \in Nat BY <1>4
    <3>5. \A i \in 1 .. Len(call.results) : call.results[i].of \in Live
      BY <1>1, <1>2 DEF Answers, ResultsLive
    <3>6. CASE call.kind \in {"entity", "blob"}
      <4>1. call.results # <<>> BY <3>2, <3>3, <3>6 DEF Popped
      <4>2. /\ outcome'.value = <<call.results[Len(call.results)]>>
            /\ Len(outcome'.value) = 1 /\ outcome'.value[1] = call.results[Len(call.results)]
        BY <3>2, <3>6, <4>1 DEF Popped
      <4>3. Len(call.results) \in 1 .. Len(call.results) BY <3>4, <4>1
      <4>4. OnlyDroppedLeak'
        BY <1>3, <3>2, <3>5, <4>2, <4>3 DEF OnlyDroppedLeak
      <4>5. call.kind = "entity" => call.results[Len(call.results)].of = call.id
        <5> SUFFICES ASSUME call.kind = "entity"
                     PROVE  call.results[Len(call.results)].of = call.id
          OBVIOUS
        <5>1. 1 \in 1 .. Len(Stream) /\ Stream[1] = m
          <6> HIDE DEF Stream, m
          <6>. QED BY <1>2
        <5>2. OwnEntity(Stream, call) BY <1>2 DEF Answers
        <5>. QED BY <5>1, <5>2, <1>1, <2>2, <3>1 DEF OwnEntity
      <4>6. EntityOwn' BY <3>2, <4>2, <4>5 DEF EntityOwn
      <4>. QED BY <4>4, <4>6
    <3>7. CASE call.kind \notin {"entity", "blob"}
      <4>1. outcome'.value = call.results BY <3>2, <3>7 DEF Popped
      <4>. QED BY <1>3, <3>2, <3>5, <3>7, <4>1 DEF OnlyDroppedLeak, EntityOwn
    <3>. QED BY <3>6, <3>7
  <2>. QED BY <1>2, <2>1, <2>4, <2>5, <2>6 DEF AnswerInv
<1>6. CASE ~ Ends(m)
  <2>1. /\ outcome' = outcome
        /\ call' = IF m.type = ItemType(call.kind)
                   THEN [call EXCEPT !.results = Append(@, m)] ELSE call
    BY <1>6 DEF Collect
  <2>2. ~ (m.type \in {"Done", "Error"} /\ m.id = call.id) BY <1>6 DEF Ends
  <2>3. Answers(Tail(Stream), requests, Live, call')
    <3> HIDE DEF Stream, Live, m
    <3>. QED BY <1>2, <1>4, <2>1, <2>2, KeepStream
  <2>4. call'.phase = "collect" /\ call'.id = call.id BY <1>4, <2>1
  <2>5. Live' = Live BY <1>3, <2>4 DEF Live
  <2>6. OnlyDroppedLeak' /\ EntityOwn'
    BY <1>3, <2>1 DEF AnswerInv, OnlyDroppedLeak, EntityOwn
  <2>. QED BY <1>2, <2>3, <2>5, <2>6 DEF AnswerInv
<1>. QED BY <1>5, <1>6

(* connect reads one, *)
LEMMA WelcomeAnswers == ASSUME SessionInv, AnswerInv, Welcome PROVE AnswerInv'
<1>1. /\ call.phase = "hello" /\ replies # <<>> /\ replies' = Tail(replies)
      /\ UNCHANGED <<server, alive, requests, dropped>>
      /\ call' = Idle /\ outcome'.status # "ok"
  BY DEF Welcome
<1>2. /\ Stream \in Seq(Messages) /\ Stream # <<>> /\ Stream' = Tail(Stream)
      /\ requests' = requests
      /\ Answers(Stream, requests, Live, call) /\ Quiet'
  BY <1>1, ReadParts
<1>3. Live' = Live BY <1>1 DEF Live, Idle
<1>4. Answers(Tail(Stream), requests, Live, Idle)
  <2> HIDE DEF Stream, Live
  <2>. QED BY <1>2, ReadStream
<1>5. OnlyDroppedLeak' /\ EntityOwn' BY <1>1 DEF OnlyDroppedLeak, EntityOwn
<1>. QED BY <1>1, <1>2, <1>3, <1>4, <1>5 DEF AnswerInv

(* it finds the connection broken, when nothing is left to read, *)
LEMMA HangupAnswers == ASSUME SessionInv, AnswerInv, Hangup PROVE AnswerInv'
<1>1. /\ call' = Idle /\ outcome'.status # "ok" /\ ~ alive /\ replies = <<>>
      /\ replies' = replies /\ sending' = sending /\ alive' = alive
      /\ requests' = requests /\ dropped' = dropped
  BY DEF Hangup, server
<1>2. requests = <<>> /\ sending = <<>> BY <1>1 DEF AnswerInv, Quiet
<1>3. Stream = <<>> /\ Stream' = Stream BY <1>1, <1>2 DEF Stream
<1>4. Answers(<<>>, <<>>, Live', Idle)
  BY DEF Answers, ItemsLive, EndsFirst, RequestsAfter, OwnEntity, ResultsLive,
         SameKind, Idle
<1>5. OnlyDroppedLeak' /\ EntityOwn' BY <1>1 DEF OnlyDroppedLeak, EntityOwn
<1>. QED BY <1>1, <1>2, <1>3, <1>4, <1>5 DEF AnswerInv, Quiet

(* or it is dropped, and its items may still come. *)
LEMMA DropAnswers == ASSUME SessionInv, AnswerInv, Drop PROVE AnswerInv'
<1>1. /\ call' = Idle /\ outcome' = outcome
      /\ replies' = replies /\ sending' = sending /\ alive' = alive
      /\ requests' = requests
      /\ dropped' = Live
  BY DEF Drop, server, Live
<1>2. Stream' = Stream /\ Live' = Live BY <1>1 DEF Stream, Live, Idle
<1>3. Answers(Stream, requests, Live, Idle)
  BY DEF AnswerInv, Answers, OwnEntity, ResultsLive, SameKind, Idle
<1>4. OnlyDroppedLeak' /\ EntityOwn'
  BY <1>1 DEF AnswerInv, OnlyDroppedLeak, EntityOwn, Live
<1>. QED BY <1>1, <1>2, <1>3, <1>4 DEF AnswerInv, Quiet

-----------------------------------------------------------------------------
(* What is still to be read holds items of the call in progress and of dropped
   calls only, an end of a call before every item of a later one: http.rs
   handle_socket answers requests one after the other, and graph_client.rs
   collect_results reads to the end of its own call. *)
THEOREM AnswersKept == Spec => []AnswerInv
<1>1. SessionInv /\ SessionInv' /\ AnswerInv /\ [Next]_vars => AnswerInv'
  <2> SUFFICES ASSUME SessionInv, SessionInv', AnswerInv, [Next]_vars PROVE AnswerInv'
    OBVIOUS
  <2>1. CASE ServerNext BY <2>1, ReceiveAnswers, SendNextAnswers DEF ServerNext
  <2>2. CASE Break BY <2>2, BreakAnswers
  <2>3. CASE Connect BY <2>3, ConnectAnswers
  <2>4. CASE Disconnect BY <2>4, DisconnectAnswers
  <2>5. CASE SendFails BY <2>5, SendFailsAnswers
  <2>6. CASE Drop BY <2>6, DropAnswers
  <2>7. ASSUME NEW kind \in Kinds, Send(kind) PROVE AnswerInv' BY <2>7, SendAnswers
  <2>8. CASE Read BY <2>8, CollectAnswers, WelcomeAnswers, HangupAnswers DEF Read
  <2>9. CASE UNCHANGED vars
    <3>1. /\ Stream' = Stream /\ requests' = requests /\ Live' = Live /\ call' = call
          /\ alive' = alive /\ sending' = sending /\ outcome' = outcome
          /\ dropped' = dropped
      BY <2>9 DEF vars, client, server, Stream, Live
    <3>. QED BY <3>1 DEF AnswerInv, Quiet, OnlyDroppedLeak, EntityOwn
  <2>. QED BY <2>1, <2>2, <2>3, <2>4, <2>5, <2>6, <2>7, <2>8, <2>9 DEF Next
<1>. QED BY InitAnswers, SessionInvariant, <1>1, PTL DEF Spec

(* What a call returns besides its own items is of calls that were dropped on
   this connection (graph_client.rs collect_results), never of one that ended. *)
THEOREM LeaksOnlyDropped == Spec => []OnlyDroppedLeak
<1>1. AnswerInv => OnlyDroppedLeak BY DEF AnswerInv
<1>. QED BY AnswersKept, <1>1, PTL

(* get_entity, which takes the last of what it collected (graph_client.rs),
   returns the entity of its own request. *)
THEOREM EntityIsOwn == Spec => []EntityOwn
<1>1. AnswerInv => EntityOwn BY DEF AnswerInv
<1>. QED BY AnswersKept, <1>1, PTL

-----------------------------------------------------------------------------
(* Whole answers *)

\* What a call has read and what is still to be read, as one sequence.
Tape(s, c) == c.results \o s

NotOf(m, id) == IsItem(m) => m.of # id

\* Before the Done at k stand the items it counts, and before them none of the
\* call.
Whole(t, k, c) ==
    LET before == k - 1 - t[k].n
    IN  /\ before >= 0
        /\ \A j \in 1 .. t[k].n : t[before + j] = Item(c.kind, c.id, j)
        /\ \A p \in 1 .. before : NotOf(t[p], c.id)

Listing(c) == c.phase = "collect" /\ c.kind \in {"edges", "ids"}

\* The Done of the call in progress, if it is under way, has the answer before
\* it, whether read or not.
OwnAnswer(t, c) == \A k \in Len(c.results) + 1 .. Len(t) :
    t[k].type = "Done" /\ t[k].of = c.id => Whole(t, k, c)

\* While the request waits there is no item of it.
NotYet(t, reqs, c) == \A i \in 1 .. Len(reqs) : reqs[i].of = c.id =>
    \A p \in 1 .. Len(t) : NotOf(t[p], c.id)

OneType(c) == \A i \in 1 .. Len(c.results) : c.results[i].type = ItemType(c.kind)

Kept(s, reqs, c) == Listing(c) =>
    OwnAnswer(Tape(s, c), c) /\ NotYet(Tape(s, c), reqs, c) /\ OneType(c)

CompleteInv ==
    /\ Kept(Stream, requests, call)
    /\ dropped \subseteq 0 .. next_query_id - 1
    /\ Complete

(* A Done says how many items it follows. *)
LEMMA DoneCounts ==
    ASSUME NEW m \in Messages, m.type = "Done"
    PROVE  m.n \in Nat
<1>1. CASE m = Hello BY <1>1 DEF Hello
<1>2. ASSUME NEW kind \in Kinds, NEW of \in 0 .. MaxCalls, NEW n \in 1 .. MaxItems,
             m = Item(kind, of, n)
      PROVE  FALSE
  BY <1>2 DEF Item, ItemType, Kinds
<1>3. ASSUME NEW id \in 0 .. MaxCalls, NEW of \in 0 .. MaxCalls, m = ErrorFor(id, of)
      PROVE  FALSE
  BY <1>3 DEF ErrorFor
<1>4. ASSUME NEW id \in 0 .. MaxCalls, NEW of \in 0 .. MaxCalls, NEW n \in 0 .. MaxItems,
             m = Done(id, of, n)
      PROVE  m.n \in Nat
  BY <1>4, SessionBounds DEF Done
<1>. QED BY <1>1, <1>2, <1>3, <1>4 DEF Messages

(* Whether an answer is whole depends on what is before its Done only. *)
LEMMA WholeSame ==
    ASSUME NEW t, NEW u, NEW k \in Nat, NEW c, k >= 1,
           \A i \in 1 .. k : u[i] = t[i], t[k].n \in Nat, Whole(t, k, c)
    PROVE  Whole(u, k, c)
<1> DEFINE n == t[k].n
           before == k - 1 - n
<1>1. u[k] = t[k] OBVIOUS
<1>2. /\ before >= 0 /\ n \in Nat /\ before \in Int
      /\ \A j \in 1 .. n : t[before + j] = Item(c.kind, c.id, j)
      /\ \A p \in 1 .. before : NotOf(t[p], c.id)
  BY DEF Whole
<1>3. ASSUME NEW j \in 1 .. n PROVE u[before + j] = Item(c.kind, c.id, j)
  <2>1. before + j \in 1 .. k BY <1>2
  <2>. QED BY <2>1, <1>2
<1>4. ASSUME NEW p \in 1 .. before PROVE NotOf(u[p], c.id)
  <2>1. p \in 1 .. k BY <1>2
  <2>. QED BY <2>1, <1>2
<1>. QED BY <1>1, <1>2, <1>3, <1>4 DEF Whole

(* A message before the items of an answer may go. *)
LEMMA WholeCut ==
    ASSUME NEW t, NEW u, NEW k \in Nat, NEW c, NEW q \in Nat \ {0},
           \A i \in 1 .. q - 1 : u[i] = t[i],
           \A i \in q .. k : u[i] = t[i + 1],
           t[k + 1].n \in Nat, Whole(t, k + 1, c), q <= k - t[k + 1].n
    PROVE  Whole(u, k, c)
<1> DEFINE n == t[k + 1].n
           before == k - n
<1>1. q <= k /\ n \in Nat /\ before >= 1 /\ before \in Int /\ q <= before OBVIOUS
<1>2. u[k] = t[k + 1] BY <1>1
<1>3. (k + 1) - 1 - n = before OBVIOUS
<1>4. /\ \A j \in 1 .. n : t[before + j] = Item(c.kind, c.id, j)
      /\ \A p \in 1 .. before : NotOf(t[p], c.id)
  BY <1>3 DEF Whole
<1>5. k - 1 - n >= 0 BY <1>1
<1>6. ASSUME NEW j \in 1 .. n PROVE u[(k - 1 - n) + j] = Item(c.kind, c.id, j)
  <2>1. (k - 1 - n) + j \in q .. k \/ (j = 1 /\ before = q) BY <1>1
  <2>2. CASE (k - 1 - n) + j \in q .. k
    <3>1. ((k - 1 - n) + j) + 1 = before + j BY <1>1
    <3>. QED BY <2>2, <3>1, <1>4
  <2>3. CASE ~ ((k - 1 - n) + j \in q .. k)
    <3>1. FALSE BY <2>1, <2>3, <1>1
    <3>. QED BY <3>1
  <2>. QED BY <2>2, <2>3
<1>7. ASSUME NEW p \in 1 .. k - 1 - n PROVE NotOf(u[p], c.id)
  <2>1. CASE p < q
    <3>1. p \in 1 .. q - 1 /\ p \in 1 .. before BY <2>1, <1>1
    <3>. QED BY <3>1, <1>4
  <2>2. CASE p >= q
    <3>1. p \in q .. k /\ p + 1 \in 1 .. before BY <2>2, <1>1
    <3>. QED BY <3>1, <1>4
  <2>. QED BY <2>1, <2>2
<1>. QED BY <1>2, <1>5, <1>6, <1>7 DEF Whole

(* An answer stays whole when nothing of the call came before it. *)
LEMMA WholeAfter ==
    ASSUME NEW t, NEW s, NEW u, NEW c, NEW l \in Nat, NEW k \in Nat, k >= 1,
           \A p \in 1 .. l : u[p] = t[p] /\ NotOf(t[p], c.id),
           \A p \in 1 .. k : u[l + p] = s[p],
           s[k].n \in Nat, Whole(s, k, c)
    PROVE  Whole(u, l + k, c)
<1> DEFINE n == s[k].n
           before == k - 1 - n
<1>1. /\ before >= 0 /\ n \in Nat /\ before \in Int
      /\ \A j \in 1 .. n : s[before + j] = Item(c.kind, c.id, j)
      /\ \A p \in 1 .. before : NotOf(s[p], c.id)
  BY DEF Whole
<1>2. u[l + k] = s[k] OBVIOUS
<1>3. l + k - 1 - n = l + before OBVIOUS
<1>4. l + before >= 0 BY <1>1
<1>5. ASSUME NEW j \in 1 .. n PROVE u[(l + before) + j] = Item(c.kind, c.id, j)
  <2>1. before + j \in 1 .. k /\ (l + before) + j = l + (before + j) BY <1>1
  <2>. QED BY <2>1, <1>1
<1>6. ASSUME NEW p \in 1 .. l + before PROVE NotOf(u[p], c.id)
  <2>1. CASE p <= l BY <2>1
  <2>2. CASE p > l
    <3>1. p - l \in 1 .. before /\ p - l \in 1 .. k /\ p = l + (p - l) BY <2>2, <1>1
    <3>. QED BY <3>1, <1>1
  <2>. QED BY <2>1, <2>2
<1> HIDE DEF before
<1>. QED BY <1>2, <1>3, <1>4, <1>5, <1>6 DEF Whole

(* What the server sends for the request of a call is a whole answer. *)
LEMMA ScriptWhole ==
    ASSUME NEW req \in Request, NEW id \in Nat, NEW answer \in Dispatch(req, id),
           NEW script, script = Script(answer, Done(id, req.of, ItemsIn(answer))),
           NEW c, c.kind = req.kind, c.id = req.of
    PROVE  Whole(script, Len(script), c)
<1> DEFINE done == Done(id, req.of, ItemsIn(answer))
<1>0. req.kind \in Kinds /\ MaxItems \in Nat \ {0} BY SessionBounds DEF Request
<1>1. CASE answer = <<ErrorFor(id, req.of)>>
  <2>1. script = Append(<<ErrorFor(id, req.of)>>, done) BY <1>1 DEF Script
  <2>2. Len(script) = 2 /\ script[1] = ErrorFor(id, req.of) /\ script[2] = done
    BY <2>1, AppendToOne
  <2>3. ~ IsItem(ErrorFor(id, req.of)) BY <1>0, Shapes
  <2>4. ItemsIn(answer) = 0
    <3>1. answer # <<>> /\ answer[1].type = "Error" BY <1>1 DEF ErrorFor
    <3>. QED BY <3>1 DEF ItemsIn
  <2>5. done.n = 0 BY <2>4 DEF Done
  <2>6. \A p \in 1 .. 1 : NotOf(script[p], c.id) BY <2>2, <2>3 DEF NotOf
  <2>. QED BY <2>2, <2>5, <2>6 DEF Whole
<1>2. ASSUME NEW n \in 0 .. MaxItems, answer = Items(req.kind, req.of, n)
      PROVE  Whole(script, Len(script), c)
  <2>1. answer = [i \in 1 .. n |-> Item(req.kind, req.of, i)] /\ n \in Nat
    BY <1>0, <1>2 DEF Items
  <2>2. Len(answer) = n /\ \A i \in 1 .. n : answer[i] = Item(req.kind, req.of, i)
    BY <2>1
  <2>3. /\ Len(script) = n + 1 /\ script[n + 1] = done
        /\ \A i \in 1 .. n : script[i] = answer[i]
    <3>1. answer \in Seq({Item(req.kind, req.of, i) : i \in 1 .. n} \cup {done})
      BY <2>1
    <3>. QED BY <2>2, <3>1 DEF Script
  <2>4. ItemsIn(answer) = n
    <3>1. CASE n = 0
      <4>1. answer = <<>> BY <2>1, <3>1
      <4>. QED BY <4>1, <2>2 DEF ItemsIn
    <3>2. CASE n > 0
      <4>1. answer[1] = Item(req.kind, req.of, 1) BY <2>2, <3>2
      <4>2. answer[1].type # "Error" BY <4>1 DEF Item, ItemType
      <4>. QED BY <4>2, <2>2 DEF ItemsIn
    <3>. QED BY <2>1, <3>1, <3>2
  <2>5. done.n = n BY <2>4 DEF Done
  <2>6. Len(script) - 1 - script[Len(script)].n = 0 /\ script[Len(script)].n = n
    BY <2>1, <2>3, <2>5
  <2>7. ASSUME NEW j \in 1 .. n PROVE script[0 + j] = Item(c.kind, c.id, j)
    BY <2>2, <2>3, <2>7
  <2> HIDE DEF done
  <2>. QED BY <2>6, <2>7 DEF Whole
<1>. QED BY <1>1, <1>2, <1>0 DEF Dispatch

-----------------------------------------------------------------------------
(* What each kind of step does to a tape *)

(* Losing messages. *)
LEMMA TapePrefix ==
    ASSUME NEW t \in Seq(Messages), NEW u \in Seq(Messages), Len(u) <= Len(t),
           \A i \in 1 .. Len(u) : u[i] = t[i],
           NEW c, Len(c.results) \in Nat, OwnAnswer(t, c)
    PROVE  OwnAnswer(u, c)
<1>1. Len(t) \in Nat /\ Len(u) \in Nat OBVIOUS
<1> SUFFICES ASSUME NEW k \in Len(c.results) + 1 .. Len(u), u[k].type = "Done", u[k].of = c.id
             PROVE  Whole(u, k, c)
  BY DEF OwnAnswer
<1>2. k \in Len(c.results) + 1 .. Len(t) /\ k \in 1 .. Len(u) /\ k \in Nat /\ k >= 1 BY <1>1
<1>3. u[k] = t[k] /\ t[k] \in Messages BY <1>1, <1>2
<1>4. t[k].n \in Nat BY <1>3, DoneCounts
<1>5. Whole(t, k, c) BY <1>2, <1>3 DEF OwnAnswer
<1>6. \A i \in 1 .. k : t[i] = u[i] /\ u[i] = t[i] BY <1>1, <1>2
<1>. QED BY <1>2, <1>4, <1>5, <1>6, WholeSame

(* The answer to the next request is written. *)
LEMMA TapeScript ==
    ASSUME NEW t \in Seq(Messages), NEW reqs \in Seq(Request), reqs # <<>>,
           NEW c, Len(c.results) \in Nat, c.phase = "collect", Len(c.results) <= Len(t),
           OwnAnswer(t, c), NotYet(t, reqs, c), SameKind(reqs, c),
           \A k \in 1 .. Len(reqs) : \A l \in 1 .. k - 1 : reqs[l].of < reqs[k].of,
           NEW id \in Nat, NEW answer \in Dispatch(Head(reqs), id),
           NEW s \in Seq(Messages),
           s = Script(answer, Done(id, Head(reqs).of, ItemsIn(answer)))
    PROVE  OwnAnswer(t \o s, c) /\ NotYet(t \o s, Tail(reqs), c)
<1> DEFINE req == Head(reqs)
           u == t \o s
           rest == Tail(reqs)
<1>1. /\ rest \in Seq(Request) /\ Len(rest) = Len(reqs) - 1
      /\ \A k \in 1 .. Len(rest) : rest[k] = reqs[k + 1]
      /\ req \in Request
  BY HeadTailProperties
<1>2. Len(reqs) \in Nat /\ Len(reqs) > 0 /\ req = reqs[1] OBVIOUS
<1>3. /\ u \in Seq(Messages) /\ Len(t) \in Nat /\ Len(s) \in Nat
      /\ Len(u) = Len(t) + Len(s)
      /\ \A i \in 1 .. Len(t) : u[i] = t[i]
      /\ \A i \in 1 .. Len(s) : u[Len(t) + i] = s[i]
  BY StreamParts
<1>4. /\ \A i \in 1 .. Len(s) : s[i].of = req.of
      /\ \A i \in 1 .. Len(s) : s[i].type = "Done" => i = Len(s)
  BY <1>1, ScriptShape
<1>5. req.of = c.id => req.kind = c.kind /\ \A p \in 1 .. Len(t) : NotOf(t[p], c.id)
  BY <1>2 DEF SameKind, NotYet
<1>6. req.of = c.id => Whole(s, Len(s), c)
  <2> HIDE DEF req
  <2>. QED BY <1>1, <1>5, ScriptWhole DEF req
<1> HIDE DEF u, req, rest
<1>7. ASSUME NEW k \in Len(c.results) + 1 .. Len(u), u[k].type = "Done", u[k].of = c.id
      PROVE  Whole(u, k, c)
  <2>1. u[k] \in Messages /\ k \in Nat /\ k >= 1 BY <1>3
  <2>2. u[k].n \in Nat BY <2>1, <1>7, DoneCounts
  <2>3. CASE k <= Len(t)
    <3>1. u[k] = t[k] /\ k \in Len(c.results) + 1 .. Len(t) BY <2>3, <2>1, <1>3
    <3>2. Whole(t, k, c) BY <3>1, <1>7 DEF OwnAnswer
    <3>3. ASSUME NEW i \in 1 .. k PROVE u[i] = t[i]
      <4>1. i \in 1 .. Len(t) BY <2>1, <2>3, <1>3
      <4>. QED BY <4>1, <1>3
    <3>. QED BY <2>1, <2>2, <3>1, <3>2, <3>3, WholeSame
  <2>4. CASE k > Len(t)
    <3> DEFINE i == k - Len(t)
    <3>1. i \in 1 .. Len(s) /\ k = Len(t) + i BY <2>4, <1>3
    <3>2. u[k] = s[i] BY <3>1, <1>3
    <3>3. i = Len(s) /\ req.of = c.id BY <3>1, <3>2, <1>4, <1>7
    <3>4. Whole(s, i, c) /\ s[i].n \in Nat BY <3>2, <3>3, <1>6, <2>2
    <3>5. \A p \in 1 .. Len(t) : u[p] = t[p] /\ NotOf(t[p], c.id) BY <3>3, <1>3, <1>5
    <3>6. \A p \in 1 .. i : u[Len(t) + p] = s[p] BY <3>3, <1>3
    <3>7. i \in Nat /\ i >= 1 BY <3>1
    <3> HIDE DEF i
    <3>8. Whole(u, Len(t) + i, c) BY <3>4, <3>5, <3>6, <3>7, <1>3, WholeAfter
    <3>. QED BY <3>1, <3>8
  <2>. QED BY <2>1, <2>3, <2>4, <1>3
<1>8. ASSUME NEW i \in 1 .. Len(rest), rest[i].of = c.id, NEW p \in 1 .. Len(u)
      PROVE  NotOf(u[p], c.id)
  <2>1. /\ i + 1 \in 1 .. Len(reqs) /\ 1 \in 1 .. (i + 1) - 1
        /\ reqs[i + 1].of = c.id
    BY <1>1, <1>2, <1>8
  <2>2. req.of < c.id BY <2>1, <1>2
  <2>3. req.of # c.id
    <3>1. req.of \in Nat /\ c.id \in Nat
      <4>1. req \in Request /\ reqs[i + 1] \in Request BY <1>1, <2>1
      <4>. QED BY <4>1, <2>1, SessionBounds DEF Request
    <3>. QED BY <3>1, <2>2
  <2>4. CASE p <= Len(t)
    <3>1. p \in 1 .. Len(t) /\ u[p] = t[p] BY <2>4, <1>3
    <3>. QED BY <3>1, <2>1 DEF NotYet
  <2>5. CASE p > Len(t)
    <3>1. p - Len(t) \in 1 .. Len(s) /\ p = Len(t) + (p - Len(t)) BY <2>5, <1>3
    <3>2. u[p].of = req.of BY <3>1, <1>3, <1>4
    <3>. QED BY <3>2, <2>3 DEF NotOf
  <2>. QED BY <2>4, <2>5, <1>3
<1>9. OwnAnswer(u, c) BY <1>7 DEF OwnAnswer
<1>10. NotYet(u, rest, c) BY <1>8 DEF NotYet
<1>. QED BY <1>9, <1>10 DEF u, rest

(* A message that is not an item of the kind asked for is read and left. *)
LEMMA TapeSkip ==
    ASSUME NEW t \in Seq(Messages), NEW u \in Seq(Messages), NEW reqs,
           NEW c, Len(c.results) \in Nat, Len(c.results) < Len(t),
           Len(u) = Len(t) - 1,
           \A i \in 1 .. Len(c.results) : u[i] = t[i],
           \A i \in Len(c.results) + 1 .. Len(u) : u[i] = t[i + 1],
           t[Len(c.results) + 1].type # ItemType(c.kind),
           OwnAnswer(t, c), NotYet(t, reqs, c)
    PROVE  OwnAnswer(u, c) /\ NotYet(u, reqs, c)
<1> DEFINE r == Len(c.results)
<1>1. /\ Len(t) \in Nat /\ Len(u) \in Nat /\ r \in Nat /\ Len(u) = Len(t) - 1 /\ r < Len(t)
      /\ \A i \in 1 .. r : u[i] = t[i]
      /\ \A i \in r + 1 .. Len(u) : u[i] = t[i + 1]
      /\ t[r + 1].type # ItemType(c.kind)
  OBVIOUS
<1>own. \A k \in r + 1 .. Len(t) : t[k].type = "Done" /\ t[k].of = c.id => Whole(t, k, c)
  BY DEF OwnAnswer
<1> HIDE DEF r
<1>2. ASSUME NEW k \in r + 1 .. Len(u), u[k].type = "Done", u[k].of = c.id
      PROVE  Whole(u, k, c)
  <2>1. k \in Nat /\ k + 1 \in r + 1 .. Len(t) /\ u[k] = t[k + 1] BY <1>1
  <2>2. t[k + 1] \in Messages BY <1>1, <2>1
  <2>3. t[k + 1].n \in Nat BY <1>2, <2>1, <2>2, DoneCounts
  <2>4. Whole(t, k + 1, c) BY <1>2, <2>1, <1>own
  <2> DEFINE n == t[k + 1].n
  <2>nat. n \in Nat BY <2>3
  <2>5. r + 1 <= k - n
    <3> SUFFICES ASSUME ~ (r + 1 <= k - n) PROVE FALSE OBVIOUS
    <3> DEFINE j == r + 1 - (k - n)
    <3>1. j \in 1 .. n /\ (k + 1) - 1 - n + j = r + 1
      <4> HIDE DEF n
      <4>. QED BY <1>1, <2>1, <2>nat
    <3>2. t[(k + 1) - 1 - n + j] = Item(c.kind, c.id, j)
      <4> HIDE DEF j
      <4>. QED BY <3>1, <2>4 DEF Whole
    <3>3. t[r + 1].type = ItemType(c.kind) BY <3>1, <3>2 DEF Item
    <3>. QED BY <3>3, <1>1
  <2>6. r + 1 \in Nat \ {0} BY <1>1
  <2>7. ASSUME NEW i \in 1 .. (r + 1) - 1 PROVE u[i] = t[i]
    <3>1. i \in 1 .. r BY <1>1
    <3>. QED BY <3>1, <1>1
  <2>8. ASSUME NEW i \in r + 1 .. k PROVE u[i] = t[i + 1]
    <3>1. i \in r + 1 .. Len(u) BY <1>1, <1>2, <2>1
    <3>. QED BY <3>1, <1>1
  <2>. QED BY <2>1, <2>3, <2>4, <2>5, <2>6, <2>7, <2>8, WholeCut
<1>3. ASSUME NEW i \in 1 .. Len(reqs), reqs[i].of = c.id, NEW p \in 1 .. Len(u)
      PROVE  NotOf(u[p], c.id)
  <2>1. \A q \in 1 .. Len(t) : NotOf(t[q], c.id) BY <1>3 DEF NotYet
  <2>2. CASE p <= r BY <2>1, <2>2, <1>1
  <2>3. CASE p > r
    <3>1. p \in r + 1 .. Len(u) /\ p + 1 \in 1 .. Len(t) BY <2>3, <1>1
    <3>. QED BY <2>1, <3>1
  <2>. QED BY <2>2, <2>3, <1>1
<1>. QED BY <1>2, <1>3 DEF OwnAnswer, NotYet, r

-----------------------------------------------------------------------------
(* The steps once more *)

(* Without a call that lists there is nothing to keep. *)
LEMMA IdleKept == \A s, reqs : Kept(s, reqs, Idle) /\ Kept(s, reqs, Greeted)
  BY DEF Kept, Listing, Idle, Greeted

(* The parts of a tape. *)
LEMMA TapeParts ==
    ASSUME SessionInv, call.phase = "collect", NEW s \in Seq(Messages)
    PROVE  /\ Tape(s, call) \in Seq(Messages)
           /\ Len(call.results) \in Nat /\ Len(s) \in Nat
           /\ Len(Tape(s, call)) = Len(call.results) + Len(s)
           /\ \A i \in 1 .. Len(call.results) : Tape(s, call)[i] = call.results[i]
           /\ \A i \in 1 .. Len(s) : Tape(s, call)[Len(call.results) + i] = s[i]
           /\ call.results \in Seq(Messages)
<1>1. call.results \in Seq(Messages) BY CollectingCall DEF SessionInv
<1>. QED BY <1>1, StreamParts DEF Tape

(* Nothing asked yet, *)
LEMMA InitComplete == Init => CompleteInv
<1> SUFFICES ASSUME Init PROVE CompleteInv OBVIOUS
<1>1. Kept(Stream, requests, call) BY IdleKept DEF Init
<1>2. Complete BY DEF Init, Complete
<1>3. dropped = {} BY DEF Init
<1>. QED BY <1>1, <1>2, <1>3 DEF CompleteInv

(* the connection carries a message, *)
LEMMA SendNextComplete == ASSUME SessionInv, CompleteInv, SendNext PROVE CompleteInv'
<1>1. replies \in Seq(Messages) /\ sending \in Seq(Messages) BY StreamType
<1>2. /\ sending # <<>> /\ sending' = Tail(sending)
      /\ replies' = Append(replies, Head(sending))
      /\ requests' = requests /\ dropped' = dropped /\ call' = call /\ outcome' = outcome
      /\ next_query_id' = next_query_id
  BY DEF SendNext, client
<1>3. Stream' = Stream BY <1>1, <1>2, ShiftStream DEF Stream
<1>. QED BY <1>2, <1>3 DEF CompleteInv, Complete

(* the server takes a request, *)
LEMMA ReceiveComplete ==
    ASSUME SessionInv, SessionInv', AnswerInv, CompleteInv, Receive PROVE CompleteInv'
<1>1. /\ replies \in Seq(Messages) /\ requests \in Seq(Request) /\ query_id \in Nat
      /\ Stream = replies
  BY StreamType DEF Receive
<1>2. sending' \in Seq(Messages) BY DEF SessionInv, TypeOK
<1>3. /\ requests # <<>> /\ requests' = Tail(requests) /\ replies' = replies
      /\ dropped' = dropped /\ call' = call /\ outcome' = outcome
      /\ next_query_id' = next_query_id
  BY DEF Receive, client
<1>4. PICK answer \in Dispatch(Head(requests), query_id) :
         sending' = Script(answer, Done(query_id, Head(requests).of, ItemsIn(answer)))
  BY DEF Receive
<1>5. Stream' = replies \o sending' BY <1>3 DEF Stream
<1>6. /\ SameKind(requests, call)
      /\ \A k \in 1 .. Len(requests) : \A l \in 1 .. k - 1 : requests[l].of < requests[k].of
  BY DEF AnswerInv, Answers, RequestsAfter
<1>7. Kept(replies \o sending', Tail(requests), call)
  <2> SUFFICES ASSUME Listing(call)
               PROVE  LET t == Tape(replies \o sending', call)
                      IN  OwnAnswer(t, call) /\ NotYet(t, Tail(requests), call) /\ OneType(call)
    BY DEF Kept
  <2>1. call.phase = "collect" BY DEF Listing
  <2>2. /\ Tape(replies, call) \in Seq(Messages) /\ Len(call.results) \in Nat
        /\ Len(call.results) <= Len(Tape(replies, call))
        /\ call.results \in Seq(Messages)
    BY <1>1, <2>1, TapeParts
  <2>3. Tape(replies \o sending', call) = Tape(replies, call) \o sending'
    <3>1. \A s, t, u \in Seq(Messages) : s \o (t \o u) = (s \o t) \o u BY ConcatAssociative
    <3>2. call.results \o (replies \o sending') = (call.results \o replies) \o sending'
      BY <1>1, <1>2, <2>2, <3>1
    <3>. QED BY <3>2 DEF Tape
  <2>4. /\ OwnAnswer(Tape(replies, call), call) /\ NotYet(Tape(replies, call), requests, call)
        /\ OneType(call)
    BY <1>1 DEF CompleteInv, Kept
  <2>5. /\ OwnAnswer(Tape(replies, call) \o sending', call)
        /\ NotYet(Tape(replies, call) \o sending', Tail(requests), call)
    BY <1>1, <1>2, <1>3, <1>4, <1>6, <2>1, <2>2, <2>4, TapeScript
  <2>. QED BY <2>3, <2>4, <2>5
<1>. QED BY <1>3, <1>5, <1>7 DEF CompleteInv, Complete

(* it breaks, *)
LEMMA BreakComplete == ASSUME SessionInv, CompleteInv, Break PROVE CompleteInv'
<1>1. /\ replies \in Seq(Messages) /\ sending \in Seq(Messages)
      /\ Stream \in Seq(Messages) /\ Len(replies) \in Nat
  BY StreamType
<1>2. /\ Len(Stream) = Len(replies) + Len(sending) /\ Len(sending) \in Nat
      /\ \A i \in 1 .. Len(replies) : Stream[i] = replies[i]
  BY <1>1, StreamParts DEF Stream
<1>3. PICK n \in 0 .. Len(replies) : replies' = SubSeq(replies, 1, n) BY DEF Break
<1>4. /\ replies' \in Seq(Messages) /\ Len(replies') = n
      /\ \A i \in 1 .. n : replies'[i] = replies[i]
  BY <1>1, <1>3
<1>5. Len(replies') <= Len(Stream) /\ \A i \in 1 .. Len(replies') : replies'[i] = Stream[i]
  BY <1>1, <1>2, <1>4
<1>6. /\ sending' = <<>> /\ requests' = <<>> /\ next_query_id' = next_query_id
      /\ dropped' = dropped /\ call' = call /\ outcome' = outcome
  BY DEF Break, client
<1>7. Stream' = replies' BY <1>4, <1>6 DEF Stream
<1>8. Kept(replies', <<>>, call)
  <2> HIDE DEF Stream
  <2> SUFFICES ASSUME Listing(call)
               PROVE  OwnAnswer(Tape(replies', call), call)
                      /\ NotYet(Tape(replies', call), <<>>, call) /\ OneType(call)
    BY DEF Kept
  <2>1. call.phase = "collect" BY DEF Listing
  <2> DEFINE t == Tape(Stream, call)
             u == Tape(replies', call)
             r == Len(call.results)
  <2>2. OwnAnswer(t, call) /\ OneType(call) BY DEF CompleteInv, Kept
  <2>3. /\ t \in Seq(Messages) /\ r \in Nat /\ Len(Stream) \in Nat
        /\ Len(t) = r + Len(Stream)
        /\ \A i \in 1 .. r : t[i] = call.results[i]
        /\ \A i \in 1 .. Len(Stream) : t[r + i] = Stream[i]
    BY <1>1, <2>1, TapeParts
  <2>4. /\ u \in Seq(Messages) /\ Len(replies') \in Nat
        /\ Len(u) = r + Len(replies')
        /\ \A i \in 1 .. r : u[i] = call.results[i]
        /\ \A i \in 1 .. Len(replies') : u[r + i] = replies'[i]
    BY <1>4, <2>1, TapeParts
  <2> HIDE DEF t, u, r
  <2>5. Len(u) <= Len(t) BY <2>3, <2>4, <1>5
  <2>6. ASSUME NEW i \in 1 .. Len(u) PROVE u[i] = t[i]
    <3>1. CASE i <= r
      <4>1. i \in 1 .. r BY <3>1, <2>3
      <4>. QED BY <4>1, <2>3, <2>4
    <3>2. CASE i > r
      <4>1. i - r \in 1 .. Len(replies') /\ i - r \in 1 .. Len(Stream) /\ i = r + (i - r)
        BY <3>2, <2>3, <2>4, <1>5
      <4>. QED BY <4>1, <2>3, <2>4, <1>5
    <3>. QED BY <3>1, <3>2, <2>3, <2>4
  <2>7. OwnAnswer(u, call) BY <2>2, <2>3, <2>4, <2>5, <2>6, TapePrefix DEF r
  <2>8. NotYet(u, <<>>, call) BY DEF NotYet
  <2>. QED BY <2>2, <2>7, <2>8 DEF u
<1>. QED BY <1>6, <1>7, <1>8 DEF CompleteInv, Complete

(* the client opens another, *)
LEMMA ConnectComplete == ASSUME SessionInv', Connect PROVE CompleteInv'
<1>1. call' = Greeted /\ dropped' = {} /\ outcome' = [status |-> "none"] BY DEF Connect
<1>2. Kept(Stream', requests', call') BY <1>1, IdleKept
<1>. QED BY <1>1, <1>2 DEF CompleteInv, Complete

(* or closes it. *)
LEMMA DisconnectComplete == ASSUME CompleteInv, Disconnect PROVE CompleteInv'
<1>1. /\ call' = Idle /\ dropped' = dropped /\ outcome' = outcome
      /\ next_query_id' = next_query_id
  BY DEF Disconnect
<1>2. Kept(Stream', requests', call') BY <1>1, IdleKept
<1>. QED BY <1>1, <1>2 DEF CompleteInv, Complete

(* A call begins: nothing of it is under way. *)
LEMMA SendComplete ==
    ASSUME SessionInv, AnswerInv, CompleteInv, NEW kind \in Kinds, Send(kind)
    PROVE  CompleteInv'
<1>1. /\ Stream \in Seq(Messages) /\ EndsBelow(Stream, next_query_id)
      /\ next_query_id \in Nat
  BY StreamType
<1>2. /\ call = Idle /\ call' = Collecting(next_query_id, kind)
      /\ replies' = replies /\ sending' = sending /\ dropped' = dropped
      /\ outcome' = [status |-> "none"] /\ next_query_id' = next_query_id + 1
  BY DEF Send, TakeId, server
<1>3. Stream' = Stream BY <1>2 DEF Stream
<1>4. ItemsLive(Stream, dropped)
  <2>1. Live = dropped BY <1>2 DEF Live, Idle
  <2>. QED BY <2>1 DEF AnswerInv, Answers
<1> HIDE DEF Stream
<1>5. \A i \in 1 .. Len(Stream) : NotOf(Stream[i], next_query_id)
  <2> SUFFICES ASSUME NEW i \in 1 .. Len(Stream), IsItem(Stream[i])
               PROVE  Stream[i].of # next_query_id
    BY DEF NotOf
  <2>1. Stream[i].of \in 0 .. next_query_id - 1 BY <1>4 DEF ItemsLive, CompleteInv
  <2>. QED BY <2>1, <1>1
<1>6. ASSUME NEW i \in 1 .. Len(Stream), Stream[i].type = "Done", Stream[i].of = next_query_id
      PROVE  FALSE
  <2>1. Stream[i].of < next_query_id BY <1>1, <1>6 DEF EndsBelow, IsEnd
  <2>. QED BY <2>1, <1>6, <1>1
<1> DEFINE c == Collecting(next_query_id, kind)
<1>7. c.results = <<>> /\ c.id = next_query_id /\ Len(c.results) = 0 BY DEF Collecting
<1>8. Tape(Stream, c) = Stream BY <1>1, <1>7, ConcatEmptySeq DEF Tape
<1> HIDE DEF c
<1>9. OwnAnswer(Stream, c) BY <1>6, <1>7 DEF OwnAnswer
<1>10. NotYet(Stream, requests', c) BY <1>5, <1>7 DEF NotYet
<1>11. OneType(c) BY <1>7 DEF OneType
<1>12. Kept(Stream, requests', c) BY <1>8, <1>9, <1>10, <1>11 DEF Kept
<1>13. dropped' \subseteq 0 .. next_query_id' - 1 BY <1>1, <1>2 DEF CompleteInv
<1>. QED BY <1>2, <1>3, <1>12, <1>13 DEF CompleteInv, Complete, c

(* A call cannot begin. *)
LEMMA SendFailsComplete == ASSUME SessionInv, CompleteInv, SendFails PROVE CompleteInv'
<1>1. /\ call' = call /\ replies' = replies /\ sending' = sending
      /\ dropped' = dropped /\ requests' = requests /\ outcome' = [status |-> "ws"]
      /\ next_query_id' = next_query_id + 1
  BY DEF SendFails, TakeId, server
<1>2. Stream' = Stream BY <1>1 DEF Stream
<1>3. next_query_id \in Nat BY StreamType
<1>4. dropped' \subseteq 0 .. next_query_id' - 1 BY <1>1, <1>3 DEF CompleteInv
<1>. QED BY <1>1, <1>2, <1>4 DEF CompleteInv, Complete

(* connect reads a message, finds the connection broken, *)
LEMMA EndingComplete ==
    ASSUME CompleteInv, call' = Idle, outcome'.status # "ok",
           dropped' = dropped, next_query_id' = next_query_id
    PROVE  CompleteInv'
<1>1. Kept(Stream', requests', call') BY IdleKept
<1>. QED BY <1>1 DEF CompleteInv, Complete

(* or a call is dropped. *)
LEMMA DropComplete == ASSUME SessionInv, CompleteInv, Drop PROVE CompleteInv'
<1>1. call' = Idle /\ outcome' = outcome /\ next_query_id' = next_query_id
  BY DEF Drop
<1>2. Kept(Stream', requests', call') BY <1>1, IdleKept
<1>3. dropped' \subseteq 0 .. next_query_id - 1
  <2>1. CASE call.phase = "collect"
    <3>1. dropped' = dropped \cup {call.id} BY <2>1 DEF Drop
    <3>2. call.id = next_query_id - 1 BY <2>1 DEF SessionInv, LastCall
    <3>3. call.id \in Nat BY <2>1, CollectingCall, SessionBounds DEF SessionInv
    <3>4. next_query_id \in Nat BY StreamType
    <3>. QED BY <3>1, <3>2, <3>3, <3>4 DEF CompleteInv
  <2>2. CASE call.phase # "collect" BY <2>2 DEF Drop, CompleteInv
  <2>. QED BY <2>1, <2>2
<1>. QED BY <1>1, <1>2, <1>3 DEF CompleteInv, Complete

(* A call reads a message: one of the wrong kind is left, the others move from
   what is to be read to what was, and its own Done comes when all have. *)
LEMMA CollectComplete ==
    ASSUME SessionInv, AnswerInv, CompleteInv, Collect PROVE CompleteInv'
<1> DEFINE m == Head(replies)
           r == Len(call.results)
           t == Tape(Stream, call)
<1>1. /\ call.phase = "collect" /\ replies # <<>> /\ replies' = Tail(replies)
      /\ UNCHANGED <<server, alive, requests, dropped>> /\ next_query_id' = next_query_id
  BY DEF Collect
<1>2. /\ Stream \in Seq(Messages) /\ Stream # <<>>
      /\ Head(Stream) = m /\ Stream' = Tail(Stream)
      /\ requests' = requests
  BY <1>1, ReadParts
<1>3. dropped' = dropped BY <1>1
<1>4. call \in [phase : {"collect"}, id : 0 .. MaxCalls, kind : Kinds, results : Seq(Messages)]
  BY <1>1, CollectingCall DEF SessionInv
<1>5. /\ t \in Seq(Messages) /\ r \in Nat /\ Len(Stream) \in Nat
      /\ Len(t) = r + Len(Stream)
      /\ \A i \in 1 .. r : t[i] = call.results[i]
      /\ \A i \in 1 .. Len(Stream) : t[r + i] = Stream[i]
      /\ call.results \in Seq(Messages)
  BY <1>1, <1>2, TapeParts
<1>6. /\ Len(Stream) > 0 /\ Stream[1] = m
      /\ Len(Tail(Stream)) = Len(Stream) - 1 /\ Tail(Stream) \in Seq(Messages)
      /\ \A i \in 1 .. Len(Tail(Stream)) : Tail(Stream)[i] = Stream[i + 1]
  <2> HIDE DEF Stream, m
  <2>. QED BY <1>2, HeadTailProperties
<1>7. r + 1 \in r + 1 .. Len(t) /\ t[r + 1] = m
  <2> HIDE DEF Stream, m, t, r
  <2>1. 1 \in 1 .. Len(Stream) BY <1>5, <1>6
  <2>. QED BY <2>1, <1>5, <1>6
<1>8. Listing(call) => /\ OwnAnswer(t, call) /\ NotYet(t, requests, call)
                       /\ OneType(call)
  BY DEF CompleteInv, Kept
<1>9. CASE Ends(m)
  <2>1. call' = Idle /\ ((outcome' = Returned(m) /\ m.type = "Done") \/ outcome'.status # "ok")
    BY <1>9 DEF Collect, Ends
  <2>2. m.of = call.id BY <1>1, <1>9, EndedInStep
  <2>3. Kept(Stream', requests', call') BY <2>1, IdleKept
  <2>4. Complete'
    <3> SUFFICES ASSUME outcome'.status = "ok", outcome'.kind \in {"edges", "ids"}
                 PROVE  LET before == Len(outcome'.value) - outcome'.sent
                        IN  /\ before >= 0
                            /\ \A i \in 1 .. before : outcome'.value[i].of # outcome'.id
                            /\ \A i \in 1 .. outcome'.sent :
                                 outcome'.value[before + i] = Item(outcome'.kind, outcome'.id, i)
      BY DEF Complete
    <3>1. outcome' = Returned(m) /\ m.type = "Done" BY <2>1
    <3>2. /\ outcome'.value = Popped(call.kind, call.results) /\ outcome'.sent = m.n
          /\ outcome'.id = call.id /\ outcome'.kind = call.kind
      BY <3>1 DEF Returned
    <3>3. outcome'.value = call.results BY <3>2 DEF Popped
    <3>4. Listing(call) BY <1>1, <3>2 DEF Listing
    <3> HIDE DEF t, r, m
    <3>5. Whole(t, r + 1, call) BY <1>7, <1>8, <2>2, <3>1, <3>4 DEF OwnAnswer, r
    <3>6. m.n \in Nat
      <4>1. m \in Messages BY <1>5, <1>6, <1>7
      <4>. QED BY <4>1, <3>1, DoneCounts
    <3> DEFINE before == r - m.n
    <3>7. r + 1 - 1 - t[r + 1].n = before BY <1>5, <1>7, <3>6
    <3>8. /\ before >= 0 /\ before <= r /\ before \in Int
          /\ \A j \in 1 .. m.n : t[before + j] = Item(call.kind, call.id, j)
          /\ \A p \in 1 .. before : NotOf(t[p], call.id)
      BY <1>5, <1>7, <3>5, <3>6, <3>7 DEF Whole
    <3>9. ASSUME NEW p \in 1 .. before PROVE call.results[p].of # call.id
      <4>1. p \in 1 .. r BY <1>5, <3>8
      <4>2. call.results[p].type = ItemType(call.kind) BY <4>1, <1>8, <3>4 DEF OneType, r
      <4>3. IsItem(call.results[p]) BY <4>2 DEF IsItem, ItemType
      <4>. QED BY <4>1, <4>3, <1>5, <3>8 DEF NotOf
    <3>10. ASSUME NEW j \in 1 .. m.n
           PROVE  call.results[before + j] = Item(call.kind, call.id, j)
      <4>1. before + j \in 1 .. r BY <1>5, <3>6, <3>8
      <4>. QED BY <4>1, <1>5, <3>8
    <3>11. Len(outcome'.value) - outcome'.sent = before BY <3>2, <3>3 DEF r
    <3> HIDE DEF before
    <3>. QED BY <3>2, <3>3, <3>8, <3>9, <3>10, <3>11
  <2>. QED BY <1>1, <1>3, <2>3, <2>4 DEF CompleteInv
<1>10. CASE ~ Ends(m)
  <2>1. /\ outcome' = outcome
        /\ call' = IF m.type = ItemType(call.kind)
                   THEN [call EXCEPT !.results = Append(@, m)] ELSE call
    BY <1>10 DEF Collect
  <2>2. Kept(Tail(Stream), requests, call')
    <3>1. call'.phase = "collect" /\ call'.id = call.id /\ call'.kind = call.kind
      BY <1>4, <2>1
    <3> SUFFICES ASSUME Listing(call)
                 PROVE  LET u == Tape(Tail(Stream), call')
                        IN  OwnAnswer(u, call') /\ NotYet(u, requests, call') /\ OneType(call')
      BY <1>1, <3>1 DEF Kept, Listing
    <3>2. CASE m.type = ItemType(call.kind)
      <4>1. call'.results = Append(call.results, m) BY <1>4, <2>1, <3>2
      <4>2. Tape(Tail(Stream), call') = t
        <5> HIDE DEF Stream, m
        <5>1. Append(call.results, Head(Stream)) \o Tail(Stream) = call.results \o Stream
          BY <1>2, <1>5, ShiftStream
        <5>. QED BY <5>1, <4>1, <1>2 DEF Tape, t
      <4>3. /\ Len(call'.results) = r + 1
            /\ \A i \in 1 .. r : call'.results[i] = call.results[i]
            /\ call'.results[r + 1] = m
        <5>1. m \in Messages BY <1>5, <1>6, <1>7
        <5> HIDE DEF m
        <5>. QED BY <5>1, <4>1, <1>5, AppendProperties
      <4> HIDE DEF t, r, m
      <4>4. OwnAnswer(t, call')
        <5> SUFFICES ASSUME NEW k \in Len(call'.results) + 1 .. Len(t),
                            t[k].type = "Done", t[k].of = call.id
                     PROVE  Whole(t, k, call')
          BY <3>1 DEF OwnAnswer
        <5>1. k \in r + 1 .. Len(t) BY <4>3, <1>5
        <5>2. Whole(t, k, call) BY <5>1, <1>8 DEF OwnAnswer, r
        <5>. QED BY <5>2, <3>1 DEF Whole
      <4>5. NotYet(t, requests, call') BY <1>8, <3>1 DEF NotYet
      <4>6. OneType(call')
        <5>1. \A i \in 1 .. r : call.results[i].type = ItemType(call.kind)
          BY <1>8 DEF OneType, r
        <5>2. \A i \in 1 .. r + 1 : i \in 1 .. r \/ i = r + 1 BY <1>5
        <5>. QED BY <5>1, <5>2, <3>1, <3>2, <4>3 DEF OneType
      <4>. QED BY <4>2, <4>4, <4>5, <4>6
    <3>3. CASE m.type # ItemType(call.kind)
      <4>1. call' = call BY <2>1, <3>3
      <4> DEFINE u == Tape(Tail(Stream), call)
      <4>2. /\ u \in Seq(Messages) /\ Len(u) = r + Len(Tail(Stream))
            /\ \A i \in 1 .. r : u[i] = call.results[i]
            /\ \A i \in 1 .. Len(Tail(Stream)) : u[r + i] = Tail(Stream)[i]
        BY <1>1, <1>6, TapeParts
      <4> HIDE DEF t, u, r, m, Stream
      <4>3. Len(u) = Len(t) - 1 /\ r < Len(t) BY <1>5, <1>6, <4>2
      <4>4. \A i \in 1 .. r : u[i] = t[i] BY <1>5, <4>2
      <4>5. ASSUME NEW i \in r + 1 .. Len(u) PROVE u[i] = t[i + 1]
        <5> DEFINE j == i - r
        <5>1. /\ j \in 1 .. Len(Tail(Stream)) /\ i = r + j
              /\ j + 1 \in 1 .. Len(Stream) /\ i + 1 = r + (j + 1)
          BY <1>5, <1>6, <4>2
        <5> HIDE DEF j
        <5>2. u[i] = Tail(Stream)[j] BY <5>1, <4>2
        <5>3. t[i + 1] = Stream[j + 1] BY <5>1, <1>5
        <5>. QED BY <5>1, <5>2, <5>3, <1>6
      <4>6. t[r + 1].type # ItemType(call.kind) BY <1>7, <3>3
      <4>7. OwnAnswer(u, call) /\ NotYet(u, requests, call)
        BY <1>5, <1>8, <4>2, <4>3, <4>4, <4>5, <4>6, TapeSkip DEF r
      <4>. QED BY <1>8, <4>1, <4>7 DEF u
    <3>. QED BY <3>2, <3>3
  <2>3. Complete' BY <2>1 DEF CompleteInv, Complete
  <2>. QED BY <1>1, <1>2, <1>3, <2>2, <2>3 DEF CompleteInv
<1>. QED BY <1>9, <1>10

(* The Done of the call in progress has its whole answer before it, whatever
   was dropped, lost or left in the socket: http.rs handle_socket sends an
   answer in one piece, and collect_results keeps what it reads in order. *)
THEOREM AnswersWhole == Spec => []CompleteInv
<1>1. SessionInv /\ SessionInv' /\ AnswerInv /\ CompleteInv /\ [Next]_vars => CompleteInv'
  <2> SUFFICES ASSUME SessionInv, SessionInv', AnswerInv, CompleteInv, [Next]_vars
               PROVE  CompleteInv'
    OBVIOUS
  <2>1. CASE ServerNext BY <2>1, ReceiveComplete, SendNextComplete DEF ServerNext
  <2>2. CASE Break BY <2>2, BreakComplete
  <2>3. CASE Connect BY <2>3, ConnectComplete
  <2>4. CASE Disconnect BY <2>4, DisconnectComplete
  <2>5. CASE SendFails BY <2>5, SendFailsComplete
  <2>6. CASE Drop BY <2>6, DropComplete
  <2>7. ASSUME NEW kind \in Kinds, Send(kind) PROVE CompleteInv' BY <2>7, SendComplete
  <2>8. CASE Read
    <3>1. CASE Collect BY <3>1, CollectComplete
    <3>2. CASE Welcome BY <3>2, EndingComplete DEF Welcome
    <3>3. CASE Hangup BY <3>3, EndingComplete DEF Hangup
    <3>. QED BY <2>8, <3>1, <3>2, <3>3 DEF Read
  <2>9. CASE UNCHANGED vars
    <3>1. /\ Stream' = Stream /\ requests' = requests /\ call' = call
          /\ outcome' = outcome /\ dropped' = dropped /\ next_query_id' = next_query_id
      BY <2>9 DEF vars, client, server, Stream
    <3>. QED BY <3>1 DEF CompleteInv, Complete
  <2>. QED BY <2>1, <2>2, <2>3, <2>4, <2>5, <2>6, <2>7, <2>8, <2>9 DEF Next
<1>. QED BY InitComplete, SessionInvariant, AnswersKept, <1>1, PTL DEF Spec

(* get_edges, traverse and search return all that the server sent for them, in
   order (graph_client.rs collect_results). *)
THEOREM ListsComplete == Spec => []Complete
<1>1. CompleteInv => Complete BY DEF CompleteInv
<1>. QED BY AnswersWhole, <1>1, PTL

=============================================================================
