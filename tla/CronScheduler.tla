--------------------------- MODULE CronScheduler ---------------------------
(***************************************************************************)
(* The crontab service: crontab_thread_proc and its trigger callback of    *)
(* main.c, over the job table of cron/crontab.c, handing each run to the   *)
(* thread pool.  The pool is JobPool, the specification that ThreadPool    *)
(* implements, limited to the number of threads the service asks for.      *)
(*                                                                         *)
(* What cronexpr_next answers is a parameter, as CronExpr shows how little *)
(* can be taken for granted: it may skip an instant of the expression, and *)
(* on the day before the clocks go forward it may answer a date that is    *)
(* already past.                                                           *)
(***************************************************************************)
EXTENDS Integers, Sequences, FiniteSets

CONSTANTS
  CronJobs,      \* the jobs of the crontab file
  Files,         \* the crontab files there may be: their jobs, in order
  JobSize,       \* crontab->job_size, the slots of the table
  NoJob,         \* an empty slot
  MaxTime,       \* bound: the last second of the clock
  MaxBack,       \* bound: how often the clock is set back
  MaxRuns,       \* bound: how often a job is triggered
  Fires,         \* Fires[j]: the instants job j's expression matches
  Timers,        \* Timers[j]: what job j's timer, cronexpr_next, answers to a date
  OnLoad,        \* the jobs with trigger_on_load
  CountGarbage   \* what crontab_get_job_count's counter may start from

Invalid == -1    \* CRON_INVALID_INSTANT

Clock == 1..MaxTime
Runs  == CronJobs \X (1..MaxRuns)   \* the k-th run of job j

ASSUME CronAssumption ==
  /\ IsFiniteSet(CronJobs)
  /\ NoJob \notin CronJobs
  /\ Files \subseteq Seq(CronJobs)
  /\ JobSize \in Nat
  /\ MaxTime \in Nat \ {0}
  /\ MaxBack \in Nat
  /\ MaxRuns \in Nat
  /\ Fires \in [CronJobs -> SUBSET Clock]
  /\ Timers \in [CronJobs -> [Clock -> Clock \cup {Invalid}]]
  /\ OnLoad \subseteq CronJobs
  /\ CountGarbage \subseteq Int

VARIABLES
  cron_pc,            \* where the crontab thread is
  jobs,               \* crontab->jobs
  slot,               \* the slot crontab_iterate is at
  rested,             \* sleep(1) is over
  next_trigger_time,  \* per job; 0 before it is first tested
  last_trigger_time,  \* per job; 0 before it is first triggered
  now,                \* time(NULL)
  backs,              \* how often the clock was set back
  signal,             \* s_context.signal # 0
  threads,            \* the threads of crontab_thread_pool
  waiting, running, finished, closed,   \* the pool
  armed_at,           \* history: when a job was first tested, 0 before
  tested,             \* history: the latest time a job was tested at
  handed_in           \* history: how often a job was triggered

Pool == INSTANCE JobPool WITH Jobs <- Runs

poolVars  == <<waiting, running, finished, closed>>
timeVars  == <<now, backs>>
tableVars == <<jobs, threads>>
jobVars   == <<next_trigger_time, last_trigger_time, armed_at, tested, handed_in>>
vars == <<cron_pc, slot, rested, signal, poolVars, timeVars, tableVars, jobVars>>

-----------------------------------------------------------------------------
Ended == {"stopped", "aborted"}   \* the crontab thread has returned, or died

CronStates ==
  {"load", "iterated", "sleep", "iterate", "destroy", "free"} \cup Ended

(* The operators named ..._Bug are faulty variants of the definition they    *)
(* stand before; no specification uses them.  Each shows that a property     *)
(* tells the code from code with that bug.                                   *)

\* (*job->timer)(job->cron_expr, date), the two calls the callback makes of it.
Timer(j, date) == Timers[j][date]

\* crontab_add_job without the test that there is a slot left.
TableOf_Bug(read) ==
  [i \in DOMAIN read \cup 1..JobSize |-> IF i <= Len(read) THEN read[i] ELSE NoJob]

\* crontab_add_job for each job of a file: it goes to the first free slot.
TableOf(read) == [i \in 1..JobSize |-> IF i <= Len(read) THEN read[i] ELSE NoJob]

EmptyTable == TableOf(<<>>)

\* A count that leaves out the jobs.
JobCount_Bug(start, table) == start

\* crontab_get_job_count: its counter is not initialised.
JobCount(start, table) == start + Cardinality({i \in 1..JobSize : table[i] # NoJob})

\* thpool_init makes no thread when it is asked for less than one.
PoolSize(asked) == IF asked < 0 THEN 0 ELSE asked

Init ==
  /\ cron_pc = "load"
  /\ jobs = EmptyTable
  /\ slot = 1
  /\ rested = FALSE
  /\ next_trigger_time = [j \in CronJobs |-> 0]
  /\ last_trigger_time = [j \in CronJobs |-> 0]
  /\ now = 1
  /\ backs = 0
  /\ signal = FALSE
  /\ threads = 0
  /\ Pool!Init
  /\ armed_at = [j \in CronJobs |-> 0]
  /\ tested = [j \in CronJobs |-> 0]
  /\ handed_in = [j \in CronJobs |-> 0]

\* crontab_new and crontab_load.  A file that cannot be read is an empty one; a
\* file with more jobs than slots fails, and the service goes straight to its
\* cleanup.  Then the pool is made, with two threads per job counted.
Load ==
  /\ cron_pc = "load"
  /\ \E read \in Files, start \in CountGarbage :
       /\ jobs' = TableOf(read)
       /\ \/ /\ Len(read) > JobSize
             /\ cron_pc' = "free"
             /\ UNCHANGED threads
          \/ /\ Len(read) <= JobSize
             /\ cron_pc' = "iterated"
             /\ threads' = PoolSize(2 * JobCount(start, jobs'))
  /\ UNCHANGED <<slot, rested, signal, poolVars, timeVars, jobVars>>

\* A loop that does not look at the signal.
LoopTest_Bug ==
  /\ cron_pc = "iterated"
  /\ cron_pc' = "sleep"
  /\ rested' = FALSE
  /\ UNCHANGED <<slot, signal, poolVars, timeVars, tableVars, jobVars>>

\* The test of the service's loop, and the sleep it begins with.
LoopTest ==
  /\ cron_pc = "iterated"
  /\ cron_pc' = IF signal THEN "destroy" ELSE "sleep"
  /\ rested' = FALSE
  /\ UNCHANGED <<slot, signal, poolVars, timeVars, tableVars, jobVars>>

\* sleep(1) returns after a second, or early when a signal arrives.
Wake ==
  /\ cron_pc = "sleep"
  /\ rested \/ signal
  /\ cron_pc' = "iterate"
  /\ slot' = 1
  /\ UNCHANGED <<rested, signal, poolVars, timeVars, tableVars, jobVars>>

-----------------------------------------------------------------------------
(* crontab_iterate with crontab_job_trigger_callback.                       *)

\* The next trigger time the callback compares with the clock: on the first
\* test it is computed, or is now for a job that runs when it is loaded.
Armed(j) ==
  IF next_trigger_time[j] # 0 THEN next_trigger_time[j]
  ELSE IF j \in OnLoad THEN now
  ELSE Timer(j, now)

\* now > next_trigger_time.
Due_Bug(j) == Armed(j) # Invalid /\ now > Armed(j)

Due(j) == Armed(j) # Invalid /\ now >= Armed(j)

\* The job at this slot is tested at this second.
Test(j) ==
  /\ cron_pc = "iterate"
  /\ slot <= JobSize
  /\ jobs[slot] = j
  /\ slot' = slot + 1
  /\ armed_at' = [armed_at EXCEPT ![j] = IF @ = 0 THEN now ELSE @]
  /\ tested' = [tested EXCEPT ![j] = IF now > @ THEN now ELSE @]
  /\ UNCHANGED <<cron_pc, rested, signal, timeVars, tableVars>>

NotDue(j) ==
  /\ Test(j)
  /\ ~Due(j)
  /\ next_trigger_time' = [next_trigger_time EXCEPT ![j] = Armed(j)]
  /\ UNCHANGED <<last_trigger_time, handed_in, poolVars>>

\* thpool_add_work: the job's next run is queued.
HandIn(j) ==
  /\ handed_in[j] < MaxRuns
  /\ handed_in' = [handed_in EXCEPT ![j] = @ + 1]
  /\ Pool!Submit(<<j, handed_in[j] + 1>>)

\* The next instant taken from the one that was due, not from the clock: the
\* job fires again for every instant it is late.
Trigger_Bug(j) ==
  /\ Test(j)
  /\ Due(j)
  /\ last_trigger_time' = [last_trigger_time EXCEPT ![j] = now]
  /\ next_trigger_time' = [next_trigger_time EXCEPT ![j] = Timer(j, Armed(j))]
  /\ HandIn(j)

Trigger(j) ==
  /\ Test(j)
  /\ Due(j)
  /\ last_trigger_time' = [last_trigger_time EXCEPT ![j] = now]
  /\ next_trigger_time' = [next_trigger_time EXCEPT ![j] = Timer(j, now)]
  /\ HandIn(j)

SkipSlot ==
  /\ cron_pc = "iterate"
  /\ slot <= JobSize
  /\ jobs[slot] = NoJob
  /\ slot' = slot + 1
  /\ UNCHANGED <<cron_pc, rested, signal, poolVars, timeVars, tableVars, jobVars>>

IterateReturns ==
  /\ cron_pc = "iterate"
  /\ slot > JobSize
  /\ cron_pc' = "iterated"
  /\ UNCHANGED <<slot, rested, signal, poolVars, timeVars, tableVars, jobVars>>

-----------------------------------------------------------------------------
(* Shutdown.                                                               *)

\* The service does not wait for the pool.
Destroy_Bug ==
  /\ cron_pc = "destroy"
  /\ cron_pc' = "free"
  /\ UNCHANGED <<slot, rested, signal, poolVars, timeVars, tableVars, jobVars>>

\* thpool_destroy returns when no run is left; what still waits is dropped.
Destroy ==
  /\ cron_pc = "destroy"
  /\ Pool!Close
  /\ cron_pc' = "free"
  /\ UNCHANGED <<slot, rested, signal, timeVars, tableVars, jobVars>>

\* crontab_free gives crontab_free_job the addresses of the slots, not the jobs
\* in them: free() is called inside the table, which an allocator may ignore
\* or answer with abort().
Free ==
  /\ cron_pc = "free"
  /\ jobs' = EmptyTable
  /\ cron_pc' \in Ended
  /\ UNCHANGED <<slot, rested, signal, threads, poolVars, timeVars, jobVars>>

Cron == \/ Load \/ LoopTest \/ Wake \/ SkipSlot \/ IterateReturns \/ Destroy \/ Free
        \/ \E j \in CronJobs : NotDue(j) \/ Trigger(j)

-----------------------------------------------------------------------------
(* The pool's threads, the clock and the signal handler.                   *)

\* A thread of the pool takes the next run, if there is an idle one.
StartRun ==
  /\ Cardinality(running) < threads
  /\ Pool!Start
  /\ UNCHANGED <<cron_pc, slot, rested, signal, timeVars, tableVars, jobVars>>

\* execute_script_in_thread returns.
FinishRun(r) ==
  /\ Pool!Finish(r)
  /\ UNCHANGED <<cron_pc, slot, rested, signal, timeVars, tableVars, jobVars>>

Tick ==
  /\ now < MaxTime
  /\ now' = now + 1
  /\ rested' = TRUE
  /\ UNCHANGED <<backs, cron_pc, slot, signal, poolVars, tableVars, jobVars>>

\* The system clock is set back.
ClockBack ==
  /\ backs < MaxBack
  /\ \E t \in Clock : t < now /\ now' = t
  /\ backs' = backs + 1
  /\ UNCHANGED <<cron_pc, slot, rested, signal, poolVars, tableVars, jobVars>>

Signal ==
  /\ ~signal
  /\ signal' = TRUE
  /\ UNCHANGED <<cron_pc, slot, rested, poolVars, timeVars, tableVars, jobVars>>

Next == Cron \/ StartRun \/ (\E r \in Runs : FinishRun(r)) \/ Tick \/ ClockBack
        \/ Signal

Spec == Init /\ [][Next]_vars

\* The crontab thread runs, time passes, a thread of the pool takes a waiting
\* run and scripts return.  Nobody has to send a signal or set the clock.
Fairness ==
  /\ WF_vars(Cron) /\ WF_vars(Tick) /\ WF_vars(StartRun)
  /\ \A r \in Runs : WF_vars(FinishRun(r))

FairSpec == Spec /\ Fairness

-----------------------------------------------------------------------------
(* Properties.                                                             *)

\* Every variable has its type.
TypeOK ==
  /\ cron_pc \in CronStates
  /\ jobs \in [1..JobSize -> CronJobs \cup {NoJob}]
  /\ slot \in 1..(JobSize + 1)
  /\ rested \in BOOLEAN
  /\ next_trigger_time \in [CronJobs -> Clock \cup {0, Invalid}]
  /\ last_trigger_time \in [CronJobs -> Clock \cup {0}]
  /\ now \in Clock
  /\ backs \in Nat
  /\ signal \in BOOLEAN
  /\ threads \in Nat
  /\ waiting \in Seq(Runs)
  /\ running \subseteq Runs
  /\ finished \subseteq Runs
  /\ closed \in BOOLEAN
  /\ armed_at \in [CronJobs -> Clock \cup {0}]
  /\ tested \in [CronJobs -> Clock \cup {0}]
  /\ handed_in \in [CronJobs -> 0..MaxRuns]

\* When a job's expression was last accounted for: its last run, or the first
\* time it was tested.
Covered(j) ==
  IF last_trigger_time[j] # 0 THEN last_trigger_time[j] ELSE armed_at[j]

\* The job's timer answers a later instant of its expression, not always the first:
\* what CronExpr's LaterAndMatches says of cronexpr_next where there is no summer time.
Forward(j) ==
  \A date \in Clock :
    Timer(j, date) # Invalid => Timer(j, date) > date /\ Timer(j, date) \in Fires[j]

\* Asked about the date, the job's timer answers no instant up to t.
Skips(j, date, t) == Timer(j, date) = Invalid \/ Timer(j, date) > t

\* The job is triggered for an instant of its expression that it has not been run for,
\* or for being loaded.
Anew(j) ==
  \/ armed_at[j] = 0 /\ j \in OnLoad
  \/ \E t \in Fires[j] : Covered(j) < t /\ t <= now

\* No job runs twice for one instant, even when the clock is set back: each
\* trigger is later than the one before and there is an instant of the job's
\* expression in between, except for the run asked for when a job is loaded.
OncePerInstant ==
  [][\A j \in CronJobs :
       Forward(j) /\ handed_in'[j] # handed_in[j] =>
         last_trigger_time'[j] > last_trigger_time[j] /\ Anew(j)]_vars

\* No instant is missed but those cronexpr_next skips: once a job has been tested at
\* or after an instant of its expression, it has been triggered at or after it, unless
\* the timer, asked about the run before, answered none up to it.  Late passes merge
\* several instants into one run; they do not lose the last.
NoInstantMissed ==
  \A j \in CronJobs : Forward(j) =>
    \A t \in Fires[j] :
      armed_at[j] # 0 /\ armed_at[j] < t /\ t <= tested[j] =>
        last_trigger_time[j] >= t \/ Skips(j, Covered(j), t)

\* The table, from which the scripts were given their action strings, is freed
\* only when no script runs any more.
NoScriptAfterFree == cron_pc \in {"free"} \cup Ended => running = {}

\* Every run handed to the pool finishes, unless the service shuts down.
EveryRunFinishes ==
  \A r \in Runs :
    (\E i \in 1..Len(waiting) : waiting[i] = r) ~> (r \in finished \/ signal)

\* After a signal the service ends, whatever it was doing, also with runs
\* waiting or scripts running.
EndsOnSignal == signal ~> cron_pc \in Ended
=============================================================================
