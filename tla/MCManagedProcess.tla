-------------------------- MODULE MCManagedProcess --------------------------
(* ManagedProcess for TLC: lines of each treatment, naming the thread or not. *)
EXTENDS ManagedProcess

MCLines == {[kind |-> "turn.started", names |-> TRUE],
            [kind |-> "session.completed", names |-> FALSE],
            [kind |-> "process.output", names |-> FALSE]}

=============================================================================
