--------------------------- MODULE MCIngestThreads ---------------------------
(* The instances of IngestThreads that TLC checks. *)
EXTENDS IngestThreads

CONSTANT c1

Ev(kind) == [kind |-> kind]
Call(kind) == [kind |-> kind, call |-> c1]
Result(failed, test) ==
    [kind |-> "command.completed", call |-> c1, failed |-> failed, test |-> test]

\* Logs that end in the completion of the task.
CompletingLogs ==
    {<<e, Ev("session.completed")>> :
        e \in {Ev("session.meta"), Ev("turn.started"), Ev("input.required"),
               Result(TRUE, "FAILED")}}

\* Every event, after one that gives it something to change.
EventPairs ==
    {<<f, Ev(kind)>> : f \in {Ev("input.required"), Ev("session.completed")},
                       kind \in PlainKinds}
    \cup {<<Call("command.started"), e>> : e \in Events \ [kind : PlainKinds]}

\* One managed run whose process may fail.
TurnLog == {<<Ev("turn.started"), Ev("message.agent")>>}

\* A completed task.
CompletionLog == {<<Ev("turn.started"), Ev("session.completed")>>}

\* A question and its answer.
AnsweredLog == {<<Ev("input.required"), Ev("message.user")>>}

=============================================================================
