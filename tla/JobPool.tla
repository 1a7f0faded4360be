------------------------------- MODULE JobPool -------------------------------
(***************************************************************************)
(* What a thread pool promises, with no threads, locks or wakeups: jobs    *)
(* are started in the order they were submitted, each at most once, and    *)
(* the pool is closed only when no job is running; closing drops the jobs  *)
(* that were still waiting (common/thread_pool.h).                         *)
(***************************************************************************)
EXTENDS Integers, Sequences

CONSTANT Jobs

VARIABLES
  waiting,    \* submitted jobs, first in first out
  running,    \* jobs being run
  finished,   \* jobs that have returned
  closed      \* the pool is gone

vars == <<waiting, running, finished, closed>>

Submitted == running \cup finished \cup {waiting[i] : i \in 1..Len(waiting)}

Init ==
  /\ waiting = <<>>
  /\ running = {}
  /\ finished = {}
  /\ closed = FALSE

Submit(j) ==
  /\ ~closed
  /\ j \notin Submitted
  /\ waiting' = Append(waiting, j)
  /\ UNCHANGED <<running, finished, closed>>

Start ==
  /\ waiting # <<>>
  /\ waiting' = Tail(waiting)
  /\ running' = running \cup {Head(waiting)}
  /\ UNCHANGED <<finished, closed>>

Finish(j) ==
  /\ j \in running
  /\ running' = running \ {j}
  /\ finished' = finished \cup {j}
  /\ UNCHANGED <<waiting, closed>>

Close ==
  /\ ~closed
  /\ running = {}
  /\ waiting' = <<>>
  /\ closed' = TRUE
  /\ UNCHANGED <<running, finished>>

Next ==
  \/ \E j \in Jobs : Submit(j) \/ Finish(j)
  \/ Start
  \/ Close

Spec == Init /\ [][Next]_vars
=============================================================================
