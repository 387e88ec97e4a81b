--------------------------- MODULE SerialExecutor ---------------------------
(***************************************************************************)
(* What an event queue promises its users: tasks run one at a time, in the *)
(* order they were submitted, each from its beginning to its end however   *)
(* many asynchronous operations it takes, and every task gets its turn.    *)
(***************************************************************************)
EXTENDS Sequences

CONSTANT Task

VARIABLES
    tasks,      \* submitted and not finished, oldest first
    running     \* TRUE when the first of them has begun

Init == tasks = <<>> /\ running = FALSE

Submit ==
    /\ \E i \in DOMAIN tasks' : tasks'[i] \in Task /\ tasks' = Append(tasks, tasks'[i])
    /\ UNCHANGED running

Begin ==
    /\ tasks # <<>> /\ ~running
    /\ running' = TRUE
    /\ UNCHANGED tasks

Finish ==
    /\ running
    /\ tasks' = Tail(tasks)
    /\ running' = FALSE

Next == Submit \/ Begin \/ Finish
view == <<tasks, running>>

Spec     == Init /\ [][Next]_view
Fairness == WF_view(Begin) /\ WF_view(Finish)
=============================================================================
