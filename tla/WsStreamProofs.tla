---------------------------- MODULE WsStreamProofs ----------------------------
(***************************************************************************)
(* Proofs about WsStream, for any tasks, messages and number of messages:  *)
(* no wake-up is lost, and every step is a step of Channel.  Fairness is   *)
(* not needed for these.                                                   *)
(***************************************************************************)
EXTENDS WsStream, SequenceTheorems, TLAPS

(* A caller that is not going to be polled has left its waker, or waits for *)
(* the oneshot, and there is nothing it waits for yet.                      *)
Asleep ==
    /\ call = "next" /\ caller \notin scheduled =>
          stream_waker = caller /\ queue = <<>> /\ ready_state # "Closed"
    /\ call = "connect" /\ caller \notin scheduled => opened = "no"
    /\ sink_waker = NoTask

(* How far connect has come, on both sides.                                 *)
Phases ==
    /\ call = "next" => stream = "live"
    /\ stream = "none" <=> call = "connect"
    /\ opened = "no" <=> ready_state = "Connecting"
    /\ stream = "live" => opened = "ok"
    /\ call = "connect" => result = "none"

(* The queue is what has arrived and was not delivered.                     *)
Kept == stream # "dropped" => arrived = delivered \o queue

WsInv == TypeOK /\ Asleep /\ Phases /\ Kept

(* A message that arrives extends what is delivered and queued at the end.  *)
LEMMA AppendKept ==
    ASSUME NEW d \in Seq(Messages), NEW q \in Seq(Messages), NEW m \in Messages
    PROVE  Append(d \o q, m) = d \o Append(q, m)
<1>1. <<m>> \in Seq(Messages) OBVIOUS
<1>2. (d \o q) \o <<m>> = d \o (q \o <<m>>) BY <1>1, ConcatAssociative
<1>3. d \o q \in Seq(Messages) BY ConcatProperties
<1>. QED BY <1>2, <1>3, AppendIsConcat

(* Moving the head of the queue to what is delivered keeps the whole, and   *)
(* takes the first message not delivered yet.                               *)
LEMMA PopKept ==
    ASSUME NEW d \in Seq(Messages), NEW q \in Seq(Messages), q # <<>>
    PROVE  /\ Head(q) \in Messages /\ Tail(q) \in Seq(Messages)
           /\ Append(d, Head(q)) \o Tail(q) = d \o q
           /\ Len(d) < Len(d \o q)
           /\ (d \o q)[Len(d) + 1] = Head(q)
<1>1. /\ Head(q) \in Messages /\ Tail(q) \in Seq(Messages)
      /\ Len(Tail(q)) = Len(q) - 1 /\ Head(q) = q[1]
      /\ \A i \in 1 .. Len(Tail(q)) : Tail(q)[i] = q[i + 1]
  BY HeadTailProperties
<1>2. Len(q) \in Nat \ {0} /\ Len(d) \in Nat BY EmptySeq, LenProperties
<1>3. /\ d \o q \in Seq(Messages) /\ Len(d \o q) = Len(d) + Len(q)
      /\ \A i \in 1 .. Len(d) + Len(q) :
            (d \o q)[i] = IF i <= Len(d) THEN d[i] ELSE q[i - Len(d)]
  BY ConcatProperties
<1> DEFINE e == Append(d, Head(q))
<1>4. /\ e \in Seq(Messages) /\ Len(e) = Len(d) + 1
      /\ \A i \in 1 .. Len(d) + 1 : e[i] = IF i <= Len(d) THEN d[i] ELSE q[1]
  BY <1>1, <1>2, AppendProperties
<1> HIDE DEF e
<1>5. /\ e \o Tail(q) \in Seq(Messages)
      /\ Len(e \o Tail(q)) = Len(e) + Len(Tail(q))
      /\ \A i \in 1 .. Len(e) + Len(Tail(q)) :
            (e \o Tail(q))[i] = IF i <= Len(e) THEN e[i] ELSE Tail(q)[i - Len(e)]
  BY <1>1, <1>4, ConcatProperties
<1>6. Len(e \o Tail(q)) = Len(d \o q) BY <1>1, <1>2, <1>3, <1>4, <1>5
<1>7. ASSUME NEW i \in 1 .. Len(e \o Tail(q))
      PROVE  (e \o Tail(q))[i] = (d \o q)[i]
  <2>1. i \in 1 .. Len(d) + Len(q) BY <1>3, <1>6
  <2>2. CASE i <= Len(d) BY <1>1, <1>2, <1>3, <1>4, <1>5, <2>1, <2>2
  <2>3. CASE i = Len(d) + 1 BY <1>1, <1>2, <1>3, <1>4, <1>5, <2>1, <2>3
  <2>4. CASE i > Len(d) + 1
    <3>1. (e \o Tail(q))[i] = Tail(q)[i - (Len(d) + 1)]
      BY <1>1, <1>2, <1>4, <1>5, <2>1, <2>4
    <3>2. i - (Len(d) + 1) \in 1 .. Len(Tail(q)) BY <1>1, <1>2, <2>1, <2>4
    <3>3. Tail(q)[i - (Len(d) + 1)] = q[i - Len(d)] BY <1>1, <1>2, <3>2
    <3>. QED BY <1>2, <1>3, <2>1, <2>4, <3>1, <3>3
  <2>. QED BY <1>2, <2>1, <2>2, <2>3, <2>4
<1>8. e \o Tail(q) = d \o q BY <1>3, <1>5, <1>6, <1>7, SeqEqual
<1>9. (d \o q)[Len(d) + 1] = Head(q) BY <1>1, <1>2, <1>3
<1>. QED BY <1>1, <1>2, <1>3, <1>8, <1>9 DEF e

-----------------------------------------------------------------------------
(* The invariant *)

(* A page that has just called connect is in it. *)
LEMMA InitWs == Init => WsInv
<1> SUFFICES ASSUME Init PROVE WsInv OBVIOUS
<1>1. <<>> \in Seq(Messages) /\ Len(<<>>) = 0 BY EmptySeq
<1>2. TypeOK BY <1>1, MaxMessagesNat, NoTaskFresh DEF Init, TypeOK, Holders
<1>3. Asleep BY DEF Init, Asleep
<1>4. Phases BY DEF Init, Phases
<1>5. Kept BY <1>1, ConcatEmptySeq DEF Init, Kept
<1>. QED BY <1>2, <1>3, <1>4, <1>5 DEF WsInv

(* Events of the browser keep it. *)
LEMMA EventInv ==
    ASSUME WsInv, Event
    PROVE  WsInv'
<1>1. CASE OnOpen \/ OnError
  <2>1. TypeOK' BY <1>1, NoTaskFresh DEF WsInv, TypeOK, Phases, OnOpen, OnError, Wake, Holders, wakers, history
  <2>2. Asleep' BY <1>1 DEF WsInv, TypeOK, Asleep, Phases, OnOpen, OnError, Wake, Holders, wakers, history
  <2>3. Phases' BY <1>1 DEF WsInv, Phases, OnOpen, OnError
  <2>4. Kept' BY <1>1 DEF WsInv, Kept, OnOpen, OnError, history
  <2>. QED BY <2>1, <2>2, <2>3, <2>4 DEF WsInv
<1>2. ASSUME NEW m \in Messages, OnMessage(m) PROVE WsInv'
  <2>1. stream = "live"
    BY <1>2 DEF WsInv, TypeOK, Asleep, Phases, OnMessage, Resumed
  <2>2. /\ arrived' = Append(arrived, m) /\ queue' = Append(queue, m)
        /\ Len(arrived) < MaxMessages
        /\ Wake(stream_waker) /\ stream_waker' = NoTask
        /\ UNCHANGED <<ready_state, opened, stream, sink_waker, call, caller, result, delivered>>
    BY <1>2, <2>1 DEF OnMessage, browser
  <2>3. /\ Append(arrived, m) \in Seq(Messages) /\ Len(Append(arrived, m)) = Len(arrived) + 1
        /\ Append(queue, m) \in Seq(Messages) /\ Append(queue, m) # <<>>
        /\ Len(arrived) \in Nat
    BY AppendProperties, LenProperties DEF WsInv, TypeOK
  <2>4. TypeOK'
    BY <2>2, <2>3, MaxMessagesNat DEF WsInv, TypeOK, Wake, Holders
  <2>5. Asleep' BY <2>2 DEF WsInv, TypeOK, Asleep, Phases, Wake, Holders
  <2>6. Phases' BY <2>2 DEF WsInv, Phases
  <2>7. Kept' BY <2>1, <2>2, AppendKept DEF WsInv, Kept, TypeOK
  <2>. QED BY <2>4, <2>5, <2>6, <2>7 DEF WsInv
<1>3. CASE OnClosing \/ OnClose
  <2>1. TypeOK' BY <1>3 DEF WsInv, TypeOK, OnClosing, OnClose, Holders, wakers, history
  <2>2. Asleep'
    BY <1>3, NoTaskFresh DEF WsInv, TypeOK, Asleep, Phases, OnClosing, OnClose, Holders, wakers, history
  <2>3. Phases' BY <1>3 DEF WsInv, Phases, OnClosing, OnClose
  <2>4. Kept' BY <1>3 DEF WsInv, Kept, OnClosing, OnClose, history
  <2>. QED BY <2>1, <2>2, <2>3, <2>4 DEF WsInv
<1>. QED BY <1>1, <1>2, <1>3 DEF Event

(* Polls of a task keep it. *)
LEMMA PollInv ==
    ASSUME WsInv, NEW t \in Tasks, Poll(t)
    PROVE  WsInv'
<1>1. CASE Deliver(t)
  <2>1. queue \in Seq(Messages) /\ queue # <<>> /\ delivered \in Seq(Messages)
    BY <1>1 DEF WsInv, TypeOK, Deliver
  <2>2. /\ Head(queue) \in Messages /\ Tail(queue) \in Seq(Messages)
        /\ Append(delivered, Head(queue)) \o Tail(queue) = delivered \o queue
    BY <2>1, PopKept
  <2>3. Append(delivered, Head(queue)) \in Seq(Messages) BY <2>1, <2>2, AppendProperties
  <2>4. TypeOK'
    BY <1>1, <2>2, <2>3 DEF WsInv, TypeOK, Deliver, Polled, Return, browser, wakers, Holders
  <2>5. Asleep' BY <1>1 DEF WsInv, Asleep, Deliver, Return, browser, wakers
  <2>6. Phases' BY <1>1 DEF WsInv, Phases, Deliver, Return, browser
  <2>7. Kept' BY <1>1, <2>2 DEF WsInv, Kept, Deliver
  <2>. QED BY <2>4, <2>5, <2>6, <2>7 DEF WsInv
<1>2. CASE Resume(t) \/ Park(t) \/ End(t) \/ Spurious(t)
  <2>1. TypeOK'
    BY <1>2 DEF WsInv, TypeOK, Phases, Resume, Park, End, Spurious, Polled, Return,
       browser, wakers, history, Holders
  <2>2. Asleep'
    BY <1>2 DEF WsInv, TypeOK, Asleep, Resume, Park, End, Spurious, Polled, Return,
       browser, wakers, history
  <2>3. Phases'
    BY <1>2 DEF WsInv, TypeOK, Phases, Resume, Park, End, Spurious, Return, browser
  <2>4. Kept'
    BY <1>2 DEF WsInv, Kept, Phases, Resume, Park, End, Spurious, history
  <2>. QED BY <2>1, <2>2, <2>3, <2>4 DEF WsInv
<1>. QED BY <1>1, <1>2 DEF Poll

(* Calls of the client, and their end before an answer, keep it. *)
LEMMA CallInv ==
    ASSUME WsInv,
           (\E t \in Tasks : Next_(t) \/ Send(t)) \/ DropCall \/ DropStream
    PROVE  WsInv'
<1>1. ASSUME NEW t \in Tasks, Next_(t) \/ Send(t) PROVE WsInv'
  <2>1. TypeOK'
    BY <1>1, NoTaskFresh DEF WsInv, TypeOK, Next_, Send, Wake, browser, wakers, history, Holders
  <2>2. Asleep'
    BY <1>1, NoTaskFresh DEF WsInv, TypeOK, Asleep, Phases, Next_, Send, Wake, browser, wakers
  <2>3. Phases' BY <1>1 DEF WsInv, Phases, Next_, Send, browser
  <2>4. Kept' BY <1>1 DEF WsInv, Kept, Next_, Send, history
  <2>. QED BY <2>1, <2>2, <2>3, <2>4 DEF WsInv
<1>2. CASE DropCall
  <2>1. TypeOK'
    BY <1>2 DEF WsInv, TypeOK, Phases, DropCall, Return, browser, wakers, history, Holders
  <2>2. Asleep' BY <1>2 DEF WsInv, Asleep, DropCall, Return, wakers
  <2>3. Phases' BY <1>2 DEF WsInv, Phases, DropCall, Return, browser
  <2>4. Kept' BY <1>2 DEF WsInv, Kept, DropCall, history
  <2>. QED BY <2>1, <2>2, <2>3, <2>4 DEF WsInv
<1>3. CASE DropStream
  <2>0. <<>> \in Seq(Messages) BY EmptySeq
  <2>1. TypeOK' BY <1>3, <2>0 DEF WsInv, TypeOK, DropStream, history, Holders
  <2>2. Asleep' BY <1>3 DEF WsInv, Asleep, DropStream
  <2>3. Phases' BY <1>3 DEF WsInv, Phases, DropStream
  <2>4. Kept' BY <1>3 DEF Kept, DropStream
  <2>. QED BY <2>1, <2>2, <2>3, <2>4 DEF WsInv
<1>. QED BY <1>1, <1>2, <1>3

(* Every step keeps it. *)
LEMMA WsStep == WsInv /\ [Next]_vars => WsInv'
<1> SUFFICES ASSUME WsInv, [Next]_vars PROVE WsInv' OBVIOUS
<1>1. CASE UNCHANGED vars
  BY <1>1 DEF vars, browser, wakers, history, WsInv, TypeOK, Asleep, Phases, Kept, Holders
<1>. QED BY <1>1, EventInv, PollInv, CallInv DEF Next

(* Types, wake-ups, phases and the queue hold whatever events, polls and    *)
(* dropped calls come in whatever order.                                    *)
THEOREM WsInvariant == Spec => []WsInv
<1>. QED BY InitWs, WsStep, PTL DEF Spec

(* Queue, wakers, calls and the socket's state keep their types, and no     *)
(* stream is live before the socket has opened.                             *)
THEOREM WsTypes == Spec => []TypeOK
<1>1. WsInv => TypeOK BY DEF WsInv
<1>. QED BY <1>1, WsInvariant, PTL

(* A task that waits for a message, an end or the open socket is woken when *)
(* it comes, or was never put to sleep.                                     *)
THEOREM WakeUps == Spec => []NoLostWakeup
<1>1. WsInv => NoLostWakeup BY DEF WsInv, Asleep, NoLostWakeup
<1>. QED BY <1>1, WsInvariant, PTL

-----------------------------------------------------------------------------
(* The refinement *)

(* Each step of the page is one of the channel, or changes nothing there. *)
LEMMA StepMaps == WsInv /\ [Next]_vars => [C!Next]_(C!vars)
<1> SUFFICES ASSUME WsInv, [Next]_vars PROVE [C!Next]_(C!vars) OBVIOUS
<1> USE DEF C!vars
<1>1. ASSUME OnOpen \/ OnError PROVE UNCHANGED C!vars \/ C!Close
  BY <1>1 DEF OnOpen, OnError, history, C!Close
<1>2. ASSUME NEW m \in Messages, OnMessage(m) PROVE C!Arrive
  BY <1>2 DEF OnMessage, browser, C!Arrive
<1>3. ASSUME OnClosing \/ OnClose PROVE UNCHANGED C!vars \/ C!Close
  BY <1>3 DEF OnClosing, OnClose, history, C!Close
<1>4. ASSUME NEW t \in Tasks, Resume(t) PROVE UNCHANGED C!vars \/ C!Close
  <2>1. stream = "none" /\ opened # "no" /\ call = "connect" /\ ready_state # "Connecting"
    BY <1>4 DEF Resume, WsInv, Phases
  <2>. QED BY <1>4, <2>1 DEF Resume, Return, browser, history, C!Close
<1>5. ASSUME NEW t \in Tasks, Deliver(t) PROVE C!Deliver
  <2>1. /\ queue \in Seq(Messages) /\ queue # <<>> /\ delivered \in Seq(Messages)
        /\ arrived = delivered \o queue
    BY <1>5 DEF WsInv, TypeOK, Phases, Kept, Deliver
  <2>2. Len(delivered) < Len(arrived) /\ arrived[Len(delivered) + 1] = Head(queue)
    BY <2>1, PopKept
  <2>. QED BY <1>5, <2>2, NoTaskFresh DEF Deliver, Return, browser, C!Deliver
<1>6. ASSUME NEW t \in Tasks, End(t) PROVE C!End
  <2>1. queue = <<>> /\ delivered \in Seq(Messages) /\ arrived = delivered \o queue
    BY <1>6 DEF WsInv, TypeOK, Phases, Kept, End
  <2>2. arrived = delivered BY <2>1, ConcatEmptySeq
  <2>. QED BY <1>6, <2>2, NoTaskFresh DEF End, Return, browser, history, C!End
<1>7. ASSUME NEW t \in Tasks, Park(t) \/ Spurious(t) \/ Send(t) PROVE UNCHANGED C!vars
  BY <1>7 DEF Park, Spurious, Send, browser, history, wakers
<1>8. ASSUME NEW t \in Tasks, Next_(t) PROVE C!Ask
  BY <1>8 DEF Next_, browser, history, C!Ask
<1>9. ASSUME DropCall PROVE UNCHANGED C!vars \/ C!Close \/ C!Cancel
  <2>1. CASE call = "next"
    BY <1>9, <2>1, NoTaskFresh DEF DropCall, Return, browser, history, C!Cancel, WsInv, TypeOK, Holders
  <2>2. CASE call = "connect"
    <3>1. result = "none" BY <2>2 DEF WsInv, Phases
    <3>. QED BY <1>9, <2>2, <3>1 DEF DropCall, Return, browser, history, C!Close
  <2>. QED BY <1>9, <2>1, <2>2 DEF DropCall, WsInv, TypeOK
<1>10. ASSUME DropStream PROVE C!Close
  BY <1>10 DEF DropStream, history, C!Close
<1>11. CASE UNCHANGED vars
  BY <1>11 DEF vars, browser, history
<1>. QED
  BY <1>1, <1>2, <1>3, <1>4, <1>5, <1>6, <1>7, <1>8, <1>9, <1>10, <1>11
  DEF Next, Event, Poll, C!Next

(* The safety part of Promise: messages in order, each once, and the end    *)
(* after all of them.                                                       *)
THEOREM InOrder == Spec => C!Init /\ [][C!Next]_(C!vars)
<1>1. Init => C!Init BY DEF Init, C!Init
<1>. QED BY <1>1, StepMaps, WsInvariant, PTL DEF Spec

=============================================================================
