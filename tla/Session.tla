-------------------------------- MODULE Session --------------------------------
(***************************************************************************)
(* One GraphClient (waw_client) and the connection it has to the server    *)
(* (handle_socket in waw_server's http.rs).                                *)
(*                                                                         *)
(* No message carries the id of the request it answers except Done and     *)
(* Error, and no request carries an id at all: client and server each      *)
(* count.  The client counts for its lifetime, the server per connection.  *)
(*                                                                         *)
(* The ghost field `of` tags every request and answer with the client's id *)
(* of the call; nothing but the properties reads it.  Entities sent in one *)
(* EntityBatch are single messages here: the client unpacks a batch in one *)
(* go.  Messages of undecodable bytes, which neither side produces, are    *)
(* left out, and so is the wrap of the two u32 counters.                   *)
(***************************************************************************)
EXTENDS Integers, Sequences

CONSTANTS
    MaxItems,       \* bound: items in an answer
    MaxCalls,       \* bound: calls the client makes
    MaxConnects     \* bound: connections it opens

ASSUME SessionBounds ==
    MaxItems \in Nat \ {0} /\ MaxCalls \in Nat /\ MaxConnects \in Nat

VARIABLES
    next_query_id,  \* the client's counter
    connected,      \* WsClient.socket is Some
    call,           \* the call in progress, or [phase |-> "idle"]
    outcome,        \* what the last call returned
    alive,          \* the connection of the socket still works
    query_id,       \* the server's counter for it
    sending,        \* what the server's handler has still to send
    requests, replies,          \* the two directions of the connection
    connects, dropped           \* ghosts: connections so far; calls dropped

client == <<next_query_id, connected, call, outcome>>
server == <<query_id, sending>>
vars == <<client, server, alive, requests, replies, connects, dropped>>

-----------------------------------------------------------------------------
\* Messages

Kinds == {"entity", "edges", "ids", "blob"}   \* of calls; ids: traverse, search

\* The message that carries an item of an answer.
ItemType(kind) ==
    IF kind = "edges" THEN "Edge" ELSE IF kind = "blob" THEN "BlobChunk" ELSE "Entity"

Hello == [type |-> "Hello"]
Item(kind, of, n) == [type |-> ItemType(kind), of |-> of, n |-> n]
ErrorFor(id, of) == [type |-> "Error", id |-> id, of |-> of]
Done(id, of, n) == [type |-> "Done", id |-> id, of |-> of, n |-> n]

Idle == [phase |-> "idle"]
Greeted == [phase |-> "hello"]
Collecting(id, kind) ==
    [phase |-> "collect", id |-> id, kind |-> kind, results |-> <<>>]

Init ==
    /\ next_query_id = 0 /\ connected = FALSE /\ call = Idle
    /\ outcome = [status |-> "none"]
    /\ alive = FALSE /\ query_id = 0 /\ sending = <<>>
    /\ requests = <<>> /\ replies = <<>>
    /\ connects = 0 /\ dropped = {}

-----------------------------------------------------------------------------
\* The server

Items(kind, of, n) == [i \in 1 .. n |-> Item(kind, of, i)]

\* Fault: after an error what was found is sent all the same.
DispatchBoth(req, id) ==
    {failure \o Items(req.kind, req.of, n) :
        failure \in {<<>>, <<ErrorFor(id, req.of)>>}, n \in 1 .. MaxItems}

\* The dispatch_ functions: items, or one error.
Dispatch(req, id) ==
    {Items(req.kind, req.of, n) :
        n \in IF req.kind = "entity" THEN {1} ELSE 0 .. MaxItems}
    \cup {<<ErrorFor(id, req.of)>>}

ItemsIn(answer) == IF answer # <<>> /\ answer[1].type = "Error" THEN 0 ELSE Len(answer)

\* Fault: Done overtakes the items.
ScriptDoneFirst(answer, done) == <<done>> \o answer

\* Fault: an empty answer is not ended.
ScriptSilent(answer, done) == IF answer = <<>> THEN <<>> ELSE Append(answer, done)

\* Done follows, an error too.
Script(answer, done) == Append(answer, done)

\* The loop of handle_socket takes the next request.
Receive ==
    /\ alive /\ sending = <<>> /\ requests # <<>>
    /\ \E answer \in Dispatch(Head(requests), query_id) :
          /\ sending' = Script(answer, Done(query_id, Head(requests).of, ItemsIn(answer)))
    /\ query_id' = query_id + 1
    /\ requests' = Tail(requests)
    /\ UNCHANGED <<client, alive, replies, connects, dropped>>

SendNext ==
    /\ alive /\ sending # <<>>
    /\ replies' = Append(replies, Head(sending))
    /\ sending' = Tail(sending)
    /\ UNCHANGED <<client, alive, query_id, requests, connects, dropped>>

\* The connection breaks: the replies under way may be lost from some point on.
Break ==
    /\ alive
    /\ alive' = FALSE
    /\ \E n \in 0 .. Len(replies) : replies' = SubSeq(replies, 1, n)
    /\ requests' = <<>> /\ sending' = <<>>
    /\ UNCHANGED <<client, query_id, connects, dropped>>

-----------------------------------------------------------------------------
\* The client.  Its methods take &mut self: one call at a time.

\* connect: WsClient::connect replaces the socket, and the server greets.
Connect ==
    /\ call = Idle /\ connects < MaxConnects
    /\ connects' = connects + 1
    /\ connected' = TRUE /\ call' = Greeted
    /\ alive' = TRUE /\ query_id' = 0 /\ sending' = <<Hello>>
    /\ requests' = <<>> /\ replies' = <<>>
    /\ outcome' = [status |-> "none"] /\ dropped' = {}
    /\ UNCHANGED next_query_id

\* Fault: the socket is forgotten, not closed.
DisconnectOpen ==
    /\ call = Idle /\ connected
    /\ connected' = FALSE
    /\ UNCHANGED <<next_query_id, call, outcome, server, alive, requests, replies,
                   connects, dropped>>

Disconnect ==
    /\ call = Idle /\ connected
    /\ connected' = FALSE /\ alive' = FALSE
    /\ sending' = <<>> /\ requests' = <<>> /\ replies' = <<>>
    /\ UNCHANGED <<next_query_id, call, outcome, query_id, connects, dropped>>

\* send_request takes a number before it knows whether the request goes out.
TakeId ==
    /\ call = Idle /\ next_query_id < MaxCalls
    /\ next_query_id' = next_query_id + 1

\* The request is written; on a broken connection nobody reads it.
Send(kind) ==
    /\ TakeId /\ connected
    /\ call' = Collecting(next_query_id, kind)
    /\ requests' = IF alive THEN Append(requests, [kind |-> kind, of |-> next_query_id])
                            ELSE requests
    /\ outcome' = [status |-> "none"]
    /\ UNCHANGED <<connected, server, alive, replies, connects, dropped>>

\* It is not: no socket, a broken connection, or a call dropped while the
\* socket was not ready to take it.
SendFails ==
    /\ TakeId
    /\ outcome' = [status |-> "ws"]
    /\ UNCHANGED <<connected, call, server, alive, requests, replies, connects, dropped>>

\* Fault: the results are read from the front.
PoppedFront(kind, results) ==
    IF results = <<>> THEN <<>> ELSE <<results[1]>>

\* get_entity and get_blob_chunk return the last result, the others them all.
Popped(kind, results) ==
    IF kind \in {"entity", "blob"} /\ results # <<>>
    THEN <<results[Len(results)]>> ELSE results

\* What the call returns on the Done message m.
Returned(m) ==
    LET value == Popped(call.kind, call.results)
    IN  [status |-> IF call.kind \in {"entity", "blob"} /\ value = <<>>
                    THEN "protocol" ELSE "ok",
         id |-> call.id, kind |-> call.kind, value |-> value,
         by |-> m.of, sent |-> m.n]

\* Fault: any Done and any Error end the call.
EndsAny(m) == m.type \in {"Done", "Error"}

Ends(m) == m.type \in {"Done", "Error"} /\ m.id = call.id

\* One turn of the loop of collect_results.
Collect ==
    /\ call.phase = "collect" /\ replies # <<>>
    /\ replies' = Tail(replies)
    /\ LET m == Head(replies)
       IN  \/ /\ Ends(m)
              /\ outcome' = IF m.type = "Done" THEN Returned(m)
                            ELSE [status |-> "server", id |-> call.id, by |-> m.of]
              /\ call' = Idle
           \/ /\ ~ Ends(m)
              /\ call' = IF m.type = ItemType(call.kind)
                         THEN [call EXCEPT !.results = Append(@, m)] ELSE call
              /\ UNCHANGED outcome
    /\ UNCHANGED <<next_query_id, connected, server, alive, requests, connects, dropped>>

\* connect gets its Hello.
Welcome ==
    /\ call.phase = "hello" /\ replies # <<>>
    /\ outcome' = [status |-> IF Head(replies) = Hello THEN "hello" ELSE "protocol"]
    /\ replies' = Tail(replies) /\ call' = Idle
    /\ UNCHANGED <<next_query_id, connected, server, alive, requests, connects, dropped>>

\* Nothing more comes from a broken connection: NotConnected.  The socket stays.
Hangup ==
    /\ call # Idle /\ ~ alive /\ replies = <<>>
    /\ outcome' = [status |-> "ws"] /\ call' = Idle
    /\ UNCHANGED <<next_query_id, connected, server, alive, requests, replies,
                   connects, dropped>>

\* The caller drops the future (a timeout, a select): what the server sends for
\* it stays in the socket.
Drop ==
    /\ call # Idle
    /\ call' = Idle
    /\ dropped' = IF call.phase = "collect" THEN dropped \cup {call.id} ELSE dropped
    /\ UNCHANGED <<next_query_id, connected, outcome, server, alive, requests, replies,
                   connects>>

-----------------------------------------------------------------------------
ServerNext == Receive \/ SendNext
Read == Collect \/ Welcome \/ Hangup

Next ==
    \/ ServerNext \/ Break
    \/ Connect \/ Disconnect \/ SendFails \/ Drop
    \/ \E kind \in Kinds : Send(kind)
    \/ Read

\* The runtimes poll the handler and the call in progress; nobody must call,
\* drop a call or break the connection.
Fairness == WF_vars(ServerNext) /\ WF_vars(Read)

Spec == Init /\ [][Next]_vars /\ Fairness

-----------------------------------------------------------------------------
Messages ==
    {Hello}
    \cup {Item(kind, of, n) : kind \in Kinds, of \in 0 .. MaxCalls, n \in 1 .. MaxItems}
    \cup {ErrorFor(id, of) : id \in 0 .. MaxCalls, of \in 0 .. MaxCalls}
    \cup {Done(id, of, n) : id \in 0 .. MaxCalls, of \in 0 .. MaxCalls, n \in 0 .. MaxItems}

TypeOK ==
    /\ next_query_id \in 0 .. MaxCalls /\ connects \in 0 .. MaxConnects
    /\ connected \in BOOLEAN /\ alive \in BOOLEAN /\ (alive => connected)
    /\ dropped \subseteq 0 .. MaxCalls
    /\ query_id \in 0 .. next_query_id
    /\ sending \in Seq(Messages) /\ replies \in Seq(Messages)
    /\ requests \in Seq([kind : Kinds, of : 0 .. MaxCalls])
    /\ call \in {Idle, Greeted}
          \cup [phase : {"collect"}, id : 0 .. MaxCalls, kind : Kinds, results : Seq(Messages)]

\* The server gave the last request the number the client waits for.
InStep == alive /\ next_query_id = query_id + Len(requests)

\* The last call was ended by a Done or an Error, not by the connection.
Answered == outcome.status \in {"ok", "server"}

\* A call is ended by the Done or Error of its own request: those of dropped
\* calls, still in the socket, do not end it (collect_results compares ids).
OwnEnd == Answered => outcome.by = outcome.id

\* A call that returned Ok has every item the server sent for it, in order and
\* to the last; what it has before them is of other calls.
Complete == outcome.status = "ok" /\ outcome.kind \in {"edges", "ids"} =>
    LET before == Len(outcome.value) - outcome.sent
    IN  /\ before >= 0
        /\ \A i \in 1 .. before : outcome.value[i].of # outcome.id
        /\ \A i \in 1 .. outcome.sent :
              outcome.value[before + i] = Item(outcome.kind, outcome.id, i)

\* What a call returns besides its own items comes from calls dropped on this
\* connection, never from one that returned.
OnlyDroppedLeak == outcome.status = "ok" =>
    \A i \in 1 .. Len(outcome.value) : outcome.value[i].of \in dropped \cup {outcome.id}

\* get_entity returns its own entity, whatever was left in the socket before.
EntityOwn == outcome.status = "ok" /\ outcome.kind = "entity" =>
    outcome.value[1].of = outcome.id

\* The counters never meet again once a send failed or the client connected
\* anew: a call is answered only while the two sides count alike.
AnsweredInStep == alive /\ Answered => InStep

\* A call made while the two sides count alike comes back.
InStepReturns == (call.phase = "collect" /\ InStep) ~> (call.phase # "collect")

-----------------------------------------------------------------------------
\* Why it holds

\* A Done or Error has a number at most its request's own, and both sides are
\* past the numbers it names.
Sound(m, server_next, client_next) == m.type \in {"Done", "Error"} =>
    m.id <= m.of /\ m.id < server_next /\ m.of < client_next

AllSound(s, server_next, client_next) ==
    \A i \in 1 .. Len(s) : Sound(s[i], server_next, client_next)

\* Requests under way will get numbers at most their own: the server's counter
\* never overtakes the client's.
Numbered ==
    /\ query_id + Len(requests) <= next_query_id
    /\ \A i \in 1 .. Len(requests) :
          query_id + i <= requests[i].of + 1 /\ requests[i].of < next_query_id

\* The call in progress is the one that took the last number.
LastCall == call.phase = "collect" => call.id = next_query_id - 1

SessionInv ==
    /\ TypeOK /\ Numbered /\ LastCall
    /\ AllSound(sending, query_id, next_query_id)
    /\ AllSound(replies, query_id, next_query_id)
    /\ OwnEnd /\ AnsweredInStep
=============================================================================
