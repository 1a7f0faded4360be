---------------------------- MODULE MCThreadPool ----------------------------
(* Instances of ThreadPool for TLC: two workers, two clients, three jobs.  *)
EXTENDS ThreadPool, TLC

CONSTANTS c1, c2

\* Every call of the interface, spread over two clients.
AllCalls == c1 :> {"add_work", "wait", "destroy"} @@
            c2 :> {"add_work", "pause", "resume"}

\* No signals: one client that waits and destroys, one that adds work.
PlainCalls == c1 :> {"add_work", "wait", "destroy"} @@
              c2 :> {"add_work"}

Symmetry == Permutations(Workers) \cup Permutations(Jobs)
=============================================================================
