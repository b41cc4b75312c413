------------------------------- MODULE WsStream -------------------------------
(***************************************************************************)
(* waw_client's WebSocket in the browser: WebSocket::connect and WsStream, *)
(* for one socket.  The page has one thread: a callback of the browser and *)
(* a poll of a task each run to their end, in any order.                   *)
(*                                                                         *)
(* A task in a call waits to be woken: by the oneshot of connect, or by    *)
(* the waker poll_next stored, which the next message or the close takes.  *)
(* Calls come one at a time (&mut self), from any task; a call can be      *)
(* dropped at any time and leaves its waker behind.  The library delivers  *)
(* binary messages only as ArrayBuffers (binary_type), so every message    *)
(* that arrives is converted.  ready_state is the browser's: messages are  *)
(* dispatched while it is Open, and Closed comes with the close event.     *)
(***************************************************************************)
EXTENDS Naturals, Sequences, FiniteSets

CONSTANTS
    Tasks, NoTask,
    Messages,
    MaxMessages     \* bound: messages that arrive on the socket

ASSUME NoTaskFresh == NoTask \notin Tasks
ASSUME MaxMessagesNat == MaxMessages \in Nat

VARIABLES
    ready_state,    \* the browser's readyState
    opened,         \* what the oneshot of connect carries
    stream,         \* "none" before connect returns it, "live", "dropped"
    queue,          \* WsStream.queue
    stream_waker, sink_waker,   \* the tasks their wakers wake
    call,           \* the call in progress
    caller,         \* the task that is in it
    scheduled,      \* woken tasks the executor still has to poll
    result,         \* how the last call of next ended
    arrived,        \* history: messages dispatched for the stream
    delivered       \* history: messages next has returned

browser == <<ready_state, opened>>
wakers == <<stream_waker, sink_waker>>
history == <<arrived, delivered>>
vars == <<browser, stream, queue, wakers, call, caller, scheduled, result, history>>

Holders == Tasks \cup {NoTask}

TypeOK ==
    /\ ready_state \in {"Connecting", "Open", "Closing", "Closed"}
    /\ opened \in {"no", "ok", "error"}
    /\ stream \in {"none", "live", "dropped"}
    /\ stream = "live" => ready_state # "Connecting"
    /\ queue \in Seq(Messages)
    /\ stream_waker \in Holders /\ sink_waker \in Holders
    /\ call \in {"none", "connect", "next"}
    /\ caller \in Holders /\ (caller = NoTask <=> call = "none")
    /\ scheduled \subseteq Tasks
    /\ result \in {"none", "message", "end"}
    /\ arrived \in Seq(Messages) /\ delivered \in Seq(Messages)
    /\ Len(arrived) <= MaxMessages

\* Some task has polled connect: the socket is made, its open and error
\* handlers are set, and the task waits for the oneshot.
Init ==
    /\ ready_state = "Connecting" /\ opened = "no"
    /\ stream = "none" /\ queue = <<>>
    /\ stream_waker = NoTask /\ sink_waker = NoTask
    /\ call = "connect" /\ caller \in Tasks
    /\ scheduled = {} /\ result = "none"
    /\ arrived = <<>> /\ delivered = <<>>

Wake(waker) == scheduled' = scheduled \cup ({waker} \ {NoTask})

Return ==
    /\ call' = "none" /\ caller' = NoTask

-----------------------------------------------------------------------------
\* Events of the browser

\* An executor of the page runs woken tasks as microtasks, before the next
\* event: whoever waits in connect has its stream, and its handlers, by then.
Resumed == call = "connect" => caller \notin scheduled

OnOpen ==
    /\ ready_state = "Connecting" /\ ready_state' = "Open"
    /\ opened' = "ok"
    /\ IF call = "connect" THEN Wake(caller) ELSE UNCHANGED scheduled
    /\ UNCHANGED <<stream, queue, wakers, call, caller, result, history>>

\* A socket that cannot connect fires error and is closed.
OnError ==
    /\ ready_state = "Connecting" /\ ready_state' = "Closed"
    /\ opened' = "error"
    /\ IF call = "connect" THEN Wake(caller) ELSE UNCHANGED scheduled
    /\ UNCHANGED <<stream, queue, wakers, call, caller, result, history>>

\* Without a stream there is no handler, and the message is lost.
OnMessage(m) ==
    /\ ready_state = "Open" /\ Resumed /\ stream # "dropped"
    /\ Len(arrived) < MaxMessages
    /\ arrived' = Append(arrived, m)
    /\ IF stream = "live"
       THEN queue' = Append(queue, m) /\ Wake(stream_waker) /\ stream_waker' = NoTask
       ELSE UNCHANGED <<queue, scheduled, stream_waker>>
    /\ UNCHANGED <<browser, stream, sink_waker, call, caller, result, delivered>>

\* The server starts the closing handshake: no event is fired.
OnClosing ==
    /\ ready_state = "Open" /\ Resumed
    /\ ready_state' = "Closing"
    /\ UNCHANGED <<opened, stream, queue, wakers, call, caller, scheduled, result, history>>

\* The handshake ends, or the connection breaks.
OnClose ==
    /\ ready_state \in {"Open", "Closing"} /\ Resumed
    /\ ready_state' = "Closed"
    /\ IF stream = "live"
       THEN /\ scheduled' = scheduled \cup ({stream_waker, sink_waker} \ {NoTask})
            /\ stream_waker' = NoTask /\ sink_waker' = NoTask
       ELSE UNCHANGED <<scheduled, wakers>>
    /\ UNCHANGED <<opened, stream, queue, call, caller, result, history>>

-----------------------------------------------------------------------------
\* Polls of a woken task

Polled(t) == t \in scheduled /\ scheduled' = scheduled \ {t}

\* Fault: connect makes the stream without waiting for the socket to open.
ResumeEarly(t) ==
    /\ call = "connect" /\ caller = t
    /\ stream' = "live" /\ scheduled' = scheduled \ {t}
    /\ Return
    /\ UNCHANGED <<browser, queue, wakers, result, history>>

\* connect goes on behind rx.await: WsStream::new, or the error.
Resume(t) ==
    /\ call = "connect" /\ caller = t /\ opened # "no"
    /\ Polled(t)
    /\ stream' = IF opened = "ok" THEN "live" ELSE "dropped"
    /\ Return
    /\ UNCHANGED <<browser, queue, wakers, result, history>>

\* poll_next pops a message before anything else.
Deliver(t) ==
    /\ call = "next" /\ caller = t /\ queue # <<>>
    /\ Polled(t)
    /\ delivered' = Append(delivered, Head(queue))
    /\ queue' = Tail(queue)
    /\ result' = "message" /\ Return
    /\ UNCHANGED <<browser, stream, wakers, arrived>>

\* Faults: a waker that is there is kept; an end does not wait for the
\* queue to be empty.
ParkOnce(t) ==
    /\ call = "next" /\ caller = t /\ queue = <<>> /\ ready_state # "Closed"
    /\ Polled(t)
    /\ stream_waker' = IF stream_waker = NoTask THEN t ELSE stream_waker
    /\ UNCHANGED <<browser, stream, queue, sink_waker, call, caller, result, history>>
EndFirst(t) ==
    /\ call = "next" /\ caller = t /\ ready_state = "Closed"
    /\ Polled(t)
    /\ stream_waker' = t
    /\ result' = "end" /\ Return
    /\ UNCHANGED <<browser, stream, queue, sink_waker, history>>

\* Then it stores its waker, whatever was stored before.
Park(t) ==
    /\ call = "next" /\ caller = t /\ queue = <<>> /\ ready_state # "Closed"
    /\ Polled(t)
    /\ stream_waker' = t
    /\ UNCHANGED <<browser, stream, queue, sink_waker, call, caller, result, history>>

End(t) ==
    /\ call = "next" /\ caller = t /\ queue = <<>> /\ ready_state = "Closed"
    /\ Polled(t)
    /\ stream_waker' = t
    /\ result' = "end" /\ Return
    /\ UNCHANGED <<browser, stream, queue, sink_waker, history>>

\* A waker left by a dropped call wakes a task that waits for nothing here.
Spurious(t) ==
    /\ caller # t
    /\ Polled(t)
    /\ UNCHANGED <<browser, stream, queue, wakers, call, caller, result, history>>

Poll(t) == Resume(t) \/ Deliver(t) \/ Park(t) \/ End(t) \/ Spurious(t)

-----------------------------------------------------------------------------
\* Calls of the client

\* receive_message: next() is polled for the first time soon.
Next_(t) ==
    /\ stream = "live" /\ call = "none"
    /\ call' = "next" /\ caller' = t /\ Wake(t)
    /\ result' = "none"
    /\ UNCHANGED <<browser, stream, queue, wakers, history>>

\* A timeout or a select drops the future.  A dropped connect leaves a
\* socket without a stream.
DropCall ==
    /\ call # "none" /\ Return
    /\ stream' = IF call = "connect" THEN "dropped" ELSE stream
    /\ result' = "none"
    /\ UNCHANGED <<browser, queue, wakers, scheduled, history>>

\* send_message: poll_ready parks while Connecting, and sends or fails at
\* once otherwise.
Send(t) ==
    /\ stream = "live" /\ call = "none"
    /\ sink_waker' = IF ready_state = "Connecting" THEN t ELSE sink_waker
    /\ UNCHANGED <<browser, stream, queue, stream_waker, call, caller, scheduled, result, history>>

\* disconnect, or a new connection in its place: poll_close and Drop.
DropStream ==
    /\ stream = "live" /\ call = "none"
    /\ stream' = "dropped" /\ queue' = <<>>
    /\ stream_waker' = NoTask /\ sink_waker' = NoTask
    /\ ready_state' = IF ready_state = "Open" THEN "Closing" ELSE ready_state
    /\ UNCHANGED <<opened, call, caller, scheduled, result, history>>

Event == OnOpen \/ OnError \/ (\E m \in Messages : OnMessage(m)) \/ OnClosing \/ OnClose

Next ==
    \/ Event
    \/ \E t \in Tasks : Poll(t) \/ Next_(t) \/ Send(t)
    \/ DropCall \/ DropStream

\* The executor polls a task it was told to wake.
Spec == Init /\ [][Next]_vars /\ \A t \in Tasks : WF_vars(Poll(t))

-----------------------------------------------------------------------------
\* Properties

\* A task never sleeps through what it waits for, whichever task waited
\* before it and wherever the event falls between a look at the queue and
\* the next poll; and no send waits, since only the close would wake it.
NoLostWakeup ==
    /\ call = "next" /\ (queue # <<>> \/ ready_state = "Closed") => caller \in scheduled
    /\ call = "connect" /\ opened # "no" => caller \in scheduled
    /\ sink_waker = NoTask

\* Calls of next return the messages of the socket in order, each once,
\* then its end, and always return when there is something to return.
C == INSTANCE Channel WITH
    sent <- arrived, got <- delivered,
    closed <- ready_state = "Closed" \/ stream = "dropped",
    reader <- IF call = "next" THEN caller ELSE NoTask,
    Readers <- Tasks, NoReader <- NoTask

Promise == C!Spec
=============================================================================
