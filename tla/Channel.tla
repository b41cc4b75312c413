------------------------------- MODULE Channel -------------------------------
(***************************************************************************)
(* What a connection promises the one call that reads from it: messages in *)
(* the order they arrived, each once; the end only after the last of them; *)
(* and an answer to every call that waits for one that is there.           *)
(***************************************************************************)
EXTENDS Naturals, Sequences

CONSTANTS Messages, Readers, NoReader

VARIABLES
    sent,       \* messages that have arrived, in order
    got,        \* messages calls have returned, in order
    closed,     \* the connection has ended
    reader,     \* who waits in a call
    result      \* how the last call ended

vars == <<sent, got, closed, reader, result>>

Init ==
    /\ sent = <<>> /\ got = <<>> /\ closed = FALSE
    /\ reader = NoReader /\ result = "none"

Arrive == \E m \in Messages :
    /\ ~closed
    /\ sent' = Append(sent, m)
    /\ UNCHANGED <<got, closed, reader, result>>

Close ==
    /\ closed' = TRUE
    /\ UNCHANGED <<sent, got, reader, result>>

Ask == \E r \in Readers :
    /\ reader = NoReader
    /\ reader' = r /\ result' = "none"
    /\ UNCHANGED <<sent, got, closed>>

Deliver ==
    /\ reader # NoReader /\ Len(got) < Len(sent)
    /\ got' = Append(got, sent[Len(got) + 1])
    /\ reader' = NoReader /\ result' = "message"
    /\ UNCHANGED <<sent, closed>>

End ==
    /\ reader # NoReader /\ closed /\ got = sent
    /\ reader' = NoReader /\ result' = "end"
    /\ UNCHANGED <<sent, got, closed>>

Cancel ==
    /\ reader # NoReader
    /\ reader' = NoReader /\ result' = "none"
    /\ UNCHANGED <<sent, got, closed>>

Next == Arrive \/ Close \/ Ask \/ Deliver \/ End \/ Cancel

Spec == Init /\ [][Next]_vars /\ WF_vars(Deliver \/ End)
=============================================================================
