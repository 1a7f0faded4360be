----------------------------- MODULE ThreadPool -----------------------------
(***************************************************************************)
(* The thread pool of common/thread_pool.c: worker threads that wait on a  *)
(* binary semaphore, pull jobs from a linked queue and run them, and       *)
(* client threads that call thpool_add_work, thpool_wait, thpool_pause,    *)
(* thpool_resume and thpool_destroy.                                       *)
(*                                                                         *)
(* Granularity.  A step ends wherever another thread can see what was done *)
(* so far: a worker is stopped inside its critical sections on             *)
(* thcount_lock and rwmutex, because the unlocked reads of                 *)
(* num_threads_alive and the SIGUSR1 handler can observe it there.  The    *)
(* critical sections on bsem.mutex do not block and nobody reads v outside *)
(* them: each is one step, and pthread_cond_wait is the pair "join the     *)
(* wait set" / "leave it and test again".                                  *)
(***************************************************************************)
EXTENDS Integers, Sequences, FiniteSets

CONSTANTS
  Workers,   \* the threads of the pool
  Clients,   \* the threads that call the pool
  Jobs,      \* the job structs that are ever submitted
  Calls,     \* Calls[c]: what client c may call
  NoJob,     \* the NULL job pointer
  NoOne      \* the owner of a free mutex

CallNames == {"add_work", "wait", "pause", "resume", "destroy"}

ASSUME WorkersAssumption == IsFiniteSet(Workers) /\ Workers # {}
ASSUME ThreadsDistinct   == /\ Workers \cap Clients = {}
                            /\ NoOne \notin Workers \cup Clients
ASSUME JobsAssumption    == NoJob \notin Jobs
ASSUME CallsAssumption   == Calls \in [Clients -> SUBSET CallNames]

VARIABLES
  pc,                   \* where each worker is in thread_do
  job,                  \* each worker's job_p
  cpc,                  \* where each client is in its call
  newjob,               \* each client's newjob
  queue,                \* the jobs from front to rear; len is its length
  rwmutex,              \* owner of jobqueue.rwmutex
  v,                    \* the binary semaphore has_jobs
  bsem_waiters,         \* workers blocked in has_jobs->cond
  thcount_lock,         \* owner of thcount_lock
  idle_waiters,         \* clients blocked in threads_all_idle
  num_threads_alive,
  num_threads_working,
  threads_keepalive,    \* file-scope globals of thread_pool.c
  threads_on_hold,
  sigusr1,              \* workers with a pending SIGUSR1
  held,                 \* workers inside thread_hold
  ready,                \* thpool_init has returned
  freed,                \* thpool_destroy has freed the pool
  \* history
  pushed,               \* jobs whose jobqueue_push is done
  done,                 \* jobs that have been run to completion
  awaited               \* pushed, when the client last called thpool_wait

poolVars   == <<queue, rwmutex, v, bsem_waiters>>
countVars  == <<thcount_lock, num_threads_alive, num_threads_working>>
workerVars == <<pc, job>>
clientVars == <<cpc, newjob, idle_waiters>>
signalVars == <<threads_on_hold, sigusr1, held>>
lifeVars   == <<threads_keepalive, ready, freed>>
history    == <<pushed, done, awaited>>

vars == <<poolVars, countVars, workerVars, clientVars, signalVars, lifeVars,
          history>>

-----------------------------------------------------------------------------
(* A worker is, in the order of thread_do: about to count itself alive,    *)
(* holding thcount_lock for that, at the loop test, in bsem_wait, at the   *)
(* second keepalive test, about to count itself working, holding           *)
(* thcount_lock for that, about to lock the queue, holding rwmutex, in the *)
(* job, about to count itself idle, holding thcount_lock for that, about   *)
(* to count itself dead, holding thcount_lock for that, returned.          *)
WorkerStates ==
  {"starting", "started", "loop", "bsem_wait", "recheck", "to_busy", "busy",
   "pulling", "pulled", "running", "to_idle", "idle", "leaving", "left",
   "gone"}

ClientStates == {"out", "push_lock", "push_insert", "wait", "destroy"}

AliveStates   == WorkerStates \ {"starting", "left", "gone"}
WorkingStates == {"busy", "pulling", "pulled", "running", "to_idle"}
CountStates   == {"started", "busy", "idle", "left"}  \* inside thcount_lock

Alive   == {w \in Workers : pc[w] \in AliveStates}
Working == {w \in Workers : pc[w] \in WorkingStates}

Init ==
  /\ pc = [w \in Workers |-> "starting"]
  /\ job = [w \in Workers |-> NoJob]
  /\ cpc = [c \in Clients |-> "out"]
  /\ newjob = [c \in Clients |-> NoJob]
  /\ queue = <<>>
  /\ rwmutex = NoOne
  /\ v = 0
  /\ bsem_waiters = {}
  /\ thcount_lock = NoOne
  /\ idle_waiters = {}
  /\ num_threads_alive = 0
  /\ num_threads_working = 0
  /\ threads_keepalive = 1
  /\ threads_on_hold = 0
  /\ sigusr1 = {}
  /\ held = {}
  /\ ready = FALSE
  /\ freed = FALSE
  /\ pushed = {}
  /\ done = {}
  /\ awaited = [c \in Clients |-> {}]

-----------------------------------------------------------------------------
(* Synchronisation.                                                        *)

(* The operators named ..._Bug are faulty variants of the definition they    *)
(* stand before; no specification uses them.  Each shows that a property     *)
(* tells the code from code with that bug.                                   *)

\* bsem_post without pthread_cond_signal.
BsemPost_Bug ==
  /\ v' = 1
  /\ UNCHANGED bsem_waiters

\* bsem_post: set the flag and wake one waiter, if there is one.
BsemPost ==
  /\ v' = 1
  /\ \/ bsem_waiters = {} /\ bsem_waiters' = {}
     \/ \E w \in bsem_waiters : bsem_waiters' = bsem_waiters \ {w}

\* bsem_post_all without pthread_cond_broadcast.
BsemPostAll_Bug ==
  /\ v' = 1
  /\ UNCHANGED bsem_waiters

\* bsem_post_all: set the flag and wake every waiter.
BsemPostAll ==
  /\ v' = 1
  /\ bsem_waiters' = {}

\* pthread_cond_signal(&threads_all_idle): wake one waiting client.
SignalAllIdle ==
  \/ idle_waiters = {} /\ idle_waiters' = {}
  \/ \E c \in idle_waiters : idle_waiters' = idle_waiters \ {c}

\* Worker w, not stopped in the signal handler, goes from one place of
\* thread_do to another.
Move(w, from, to) ==
  /\ w \notin held
  /\ pc[w] = from
  /\ pc' = [pc EXCEPT ![w] = to]

\* The same, entering a critical section on thcount_lock on the way.
MoveAndCount(w, from, to) ==
  /\ Move(w, from, to)
  /\ thcount_lock = NoOne
  /\ thcount_lock' = w

-----------------------------------------------------------------------------
(* thread_do.                                                              *)

ThreadStart(w) ==
  /\ MoveAndCount(w, "starting", "started")
  /\ num_threads_alive' = num_threads_alive + 1
  /\ UNCHANGED <<num_threads_working, poolVars, job, clientVars, signalVars,
                 lifeVars, history>>

AfterCount == [started |-> "loop", busy |-> "pulling", idle |-> "loop",
               left |-> "gone"]

CountUnlock(w) ==
  /\ pc[w] \in CountStates
  /\ Move(w, pc[w], AfterCount[pc[w]])
  /\ thcount_lock' = NoOne
  /\ UNCHANGED <<num_threads_alive, num_threads_working, poolVars, job,
                 clientVars, signalVars, lifeVars, history>>

LoopTest(w) ==
  /\ Move(w, "loop", IF threads_keepalive = 1 THEN "bsem_wait" ELSE "leaving")
  /\ UNCHANGED <<poolVars, countVars, job, clientVars, signalVars, lifeVars,
                 history>>

\* bsem_wait that counts down instead of clearing the flag.
BsemTake_Bug(w) ==
  /\ w \notin bsem_waiters
  /\ Move(w, "bsem_wait", "recheck")
  /\ v' = v - 1
  /\ UNCHANGED <<queue, rwmutex, bsem_waiters, countVars, job, clientVars,
                 signalVars, lifeVars, history>>

BsemTake(w) ==
  /\ w \notin bsem_waiters
  /\ v = 1
  /\ Move(w, "bsem_wait", "recheck")
  /\ v' = 0
  /\ UNCHANGED <<queue, rwmutex, bsem_waiters, countVars, job, clientVars,
                 signalVars, lifeVars, history>>

BsemBlock(w) ==
  /\ w \notin held
  /\ pc[w] = "bsem_wait"
  /\ w \notin bsem_waiters
  /\ v # 1
  /\ bsem_waiters' = bsem_waiters \cup {w}
  /\ UNCHANGED <<queue, rwmutex, v, countVars, workerVars, clientVars,
                 signalVars, lifeVars, history>>

Recheck(w) ==
  /\ Move(w, "recheck", IF threads_keepalive = 1 THEN "to_busy" ELSE "loop")
  /\ UNCHANGED <<poolVars, countVars, job, clientVars, signalVars, lifeVars,
                 history>>

GoBusy(w) ==
  /\ MoveAndCount(w, "to_busy", "busy")
  /\ num_threads_working' = num_threads_working + 1
  /\ UNCHANGED <<num_threads_alive, poolVars, job, clientVars, signalVars,
                 lifeVars, history>>

\* jobqueue_pull without rwmutex ("Caller MUST hold a mutex").
PullLock_Bug(w) ==
  /\ Move(w, "pulling", "pulled")
  /\ job' = [job EXCEPT ![w] = IF queue = <<>> THEN NoJob ELSE Head(queue)]
  /\ UNCHANGED <<queue, rwmutex, v, bsem_waiters, countVars, clientVars,
                 signalVars, lifeVars, history>>

PullLock(w) ==
  /\ Move(w, "pulling", "pulled")
  /\ rwmutex = NoOne
  /\ rwmutex' = w
  /\ job' = [job EXCEPT ![w] = IF queue = <<>> THEN NoJob ELSE Head(queue)]
  /\ UNCHANGED <<queue, v, bsem_waiters, countVars, clientVars, signalVars,
                 lifeVars, history>>

\* jobqueue_pull that does not post again when jobs remain.
PullRemove_Bug(w) ==
  /\ Move(w, "pulled", IF job[w] = NoJob THEN "to_idle" ELSE "running")
  /\ queue' = IF queue = <<>> THEN <<>> ELSE Tail(queue)
  /\ rwmutex' = NoOne
  /\ UNCHANGED <<v, bsem_waiters, countVars, job, clientVars, signalVars,
                 lifeVars, history>>

\* The queue is relinked by its length; more than one job posts again.
PullRemove(w) ==
  /\ Move(w, "pulled", IF job[w] = NoJob THEN "to_idle" ELSE "running")
  /\ \/ /\ Len(queue) = 0
        /\ UNCHANGED <<queue, v, bsem_waiters>>
     \/ /\ Len(queue) = 1
        /\ queue' = <<>>
        /\ UNCHANGED <<v, bsem_waiters>>
     \/ /\ Len(queue) > 1
        /\ queue' = Tail(queue)
        /\ BsemPost
  /\ rwmutex' = NoOne
  /\ UNCHANGED <<countVars, job, clientVars, signalVars, lifeVars, history>>

\* func_buff(arg_buff) returns and the job struct is freed.
RunJob(w) ==
  /\ Move(w, "running", "to_idle")
  /\ done' = done \cup {job[w]}
  /\ job' = [job EXCEPT ![w] = NoJob]
  /\ UNCHANGED <<poolVars, countVars, clientVars, signalVars, lifeVars, pushed,
                 awaited>>

\* The idle test made before the count is lowered.
GoIdle_Bug(w) ==
  /\ MoveAndCount(w, "to_idle", "idle")
  /\ num_threads_working' = num_threads_working - 1
  /\ IF num_threads_working = 0 THEN SignalAllIdle ELSE UNCHANGED idle_waiters
  /\ UNCHANGED <<num_threads_alive, poolVars, job, cpc, newjob, signalVars,
                 lifeVars, history>>

GoIdle(w) ==
  /\ MoveAndCount(w, "to_idle", "idle")
  /\ num_threads_working' = num_threads_working - 1
  /\ IF num_threads_working' = 0 THEN SignalAllIdle ELSE UNCHANGED idle_waiters
  /\ UNCHANGED <<num_threads_alive, poolVars, job, cpc, newjob, signalVars,
                 lifeVars, history>>

Leave(w) ==
  /\ MoveAndCount(w, "leaving", "left")
  /\ num_threads_alive' = num_threads_alive - 1
  /\ UNCHANGED <<num_threads_working, poolVars, job, clientVars, signalVars,
                 lifeVars, history>>

Worker(w) ==
  \/ ThreadStart(w) \/ CountUnlock(w) \/ LoopTest(w) \/ BsemTake(w)
  \/ BsemBlock(w) \/ Recheck(w) \/ GoBusy(w) \/ PullLock(w) \/ PullRemove(w)
  \/ RunJob(w) \/ GoIdle(w) \/ Leave(w)

-----------------------------------------------------------------------------
(* The SIGUSR1 handler thread_hold.                                        *)

HoldEnter(w) ==
  /\ w \in sigusr1
  /\ w \notin held          \* SIGUSR1 is blocked while its handler runs
  /\ pc[w] # "gone"
  /\ sigusr1' = sigusr1 \ {w}
  /\ held' = held \cup {w}
  /\ threads_on_hold' = 1
  /\ UNCHANGED <<poolVars, countVars, workerVars, clientVars, lifeVars, history>>

HoldLeave(w) ==
  /\ w \in held
  /\ threads_on_hold = 0
  /\ held' = held \ {w}
  /\ UNCHANGED <<threads_on_hold, sigusr1, poolVars, countVars, workerVars,
                 clientVars, lifeVars, history>>

\* pthread_cond_wait may return without a signal.
SpuriousWakeup ==
  /\ \/ /\ \E w \in bsem_waiters \ held : bsem_waiters' = bsem_waiters \ {w}
        /\ UNCHANGED idle_waiters
     \/ /\ \E c \in idle_waiters : idle_waiters' = idle_waiters \ {c}
        /\ UNCHANGED bsem_waiters
  /\ UNCHANGED <<queue, rwmutex, v, countVars, workerVars, cpc, newjob,
                 signalVars, lifeVars, history>>

-----------------------------------------------------------------------------
(* The calls.  thpool_init returns when every thread counts as alive; the  *)
(* pool is then used until one client destroys it, and no client is inside *)
(* a call, or makes one, once it is being destroyed.                       *)

InitReturns ==
  /\ ~ready
  /\ num_threads_alive = Cardinality(Workers)
  /\ ready' = TRUE
  /\ UNCHANGED <<threads_keepalive, freed, poolVars, countVars, workerVars,
                 clientVars, signalVars, history>>

MayCall(c, name) ==
  /\ name \in Calls[c]
  /\ ready
  /\ ~freed
  /\ cpc[c] = "out"
  /\ \A d \in Clients : cpc[d] # "destroy"

AddWork(c, j) ==
  /\ MayCall(c, "add_work")
  /\ j \notin pushed
  /\ \A d \in Clients : newjob[d] # j
  /\ cpc' = [cpc EXCEPT ![c] = "push_lock"]
  /\ newjob' = [newjob EXCEPT ![c] = j]
  /\ UNCHANGED <<idle_waiters, poolVars, countVars, workerVars, signalVars,
                 lifeVars, history>>

PushLock(c) ==
  /\ cpc[c] = "push_lock"
  /\ rwmutex = NoOne
  /\ rwmutex' = c
  /\ cpc' = [cpc EXCEPT ![c] = "push_insert"]
  /\ UNCHANGED <<queue, v, bsem_waiters, newjob, idle_waiters, countVars,
                 workerVars, signalVars, lifeVars, history>>

\* jobqueue_push that sets front as well as rear whatever the length is.
PushInsert_Bug(c) ==
  /\ cpc[c] = "push_insert"
  /\ queue' = <<newjob[c]>>
  /\ BsemPost
  /\ rwmutex' = NoOne
  /\ pushed' = pushed \cup {newjob[c]}
  /\ newjob' = [newjob EXCEPT ![c] = NoJob]
  /\ cpc' = [cpc EXCEPT ![c] = "out"]
  /\ UNCHANGED <<idle_waiters, countVars, workerVars, signalVars, lifeVars,
                 done, awaited>>

PushInsert(c) ==
  /\ cpc[c] = "push_insert"
  /\ queue' = Append(queue, newjob[c])
  /\ BsemPost
  /\ rwmutex' = NoOne
  /\ pushed' = pushed \cup {newjob[c]}
  /\ newjob' = [newjob EXCEPT ![c] = NoJob]
  /\ cpc' = [cpc EXCEPT ![c] = "out"]
  /\ UNCHANGED <<idle_waiters, countVars, workerVars, signalVars, lifeVars,
                 done, awaited>>

WaitCall(c) ==
  /\ MayCall(c, "wait")
  /\ cpc' = [cpc EXCEPT ![c] = "wait"]
  /\ awaited' = [awaited EXCEPT ![c] = pushed]
  /\ UNCHANGED <<newjob, idle_waiters, poolVars, countVars, workerVars,
                 signalVars, lifeVars, pushed, done>>

\* A test that forgets the jobs already pulled.
PoolBusy_Bug == queue # <<>>

\* The test of thpool_wait's loop, under thcount_lock.
PoolBusy == queue # <<>> \/ num_threads_working # 0

WaitTest(c) ==
  /\ cpc[c] = "wait"
  /\ c \notin idle_waiters
  /\ thcount_lock = NoOne
  /\ IF PoolBusy
       THEN idle_waiters' = idle_waiters \cup {c} /\ UNCHANGED cpc
       ELSE cpc' = [cpc EXCEPT ![c] = "out"] /\ UNCHANGED idle_waiters
  /\ UNCHANGED <<newjob, poolVars, countVars, workerVars, signalVars, lifeVars,
                 history>>

Pause(c) ==
  /\ MayCall(c, "pause")
  /\ sigusr1' = sigusr1 \cup Workers
  /\ UNCHANGED <<threads_on_hold, held, poolVars, countVars, workerVars,
                 clientVars, lifeVars, history>>

Resume(c) ==
  /\ MayCall(c, "resume")
  /\ threads_on_hold' = 0
  /\ UNCHANGED <<sigusr1, held, poolVars, countVars, workerVars, clientVars,
                 lifeVars, history>>

DestroyCall(c) ==
  /\ MayCall(c, "destroy")
  /\ \A d \in Clients : cpc[d] = "out"
  /\ cpc' = [cpc EXCEPT ![c] = "destroy"]
  /\ threads_keepalive' = 0
  /\ UNCHANGED <<newjob, idle_waiters, ready, freed, poolVars, countVars,
                 workerVars, signalVars, history>>

\* Both polling loops do this while a thread counts as alive.
DestroyPost(c) ==
  /\ cpc[c] = "destroy"
  /\ num_threads_alive # 0
  /\ BsemPostAll
  /\ UNCHANGED <<queue, rwmutex, countVars, workerVars, clientVars, signalVars,
                 lifeVars, history>>

\* jobqueue_destroy drops the jobs still queued; then everything is freed.
DestroyFree(c) ==
  /\ cpc[c] = "destroy"
  /\ num_threads_alive = 0
  /\ queue' = <<>>
  /\ v' = 0
  /\ freed' = TRUE
  /\ cpc' = [cpc EXCEPT ![c] = "out"]
  /\ UNCHANGED <<rwmutex, bsem_waiters, newjob, idle_waiters, countVars,
                 workerVars, signalVars, threads_keepalive, ready, history>>

Call(c) ==
  \/ \E j \in Jobs : AddWork(c, j)
  \/ WaitCall(c) \/ Pause(c) \/ Resume(c) \/ DestroyCall(c)

InCall(c) ==
  \/ PushLock(c) \/ PushInsert(c) \/ WaitTest(c) \/ DestroyPost(c)
  \/ DestroyFree(c)

Next ==
  \/ \E w \in Workers : Worker(w) \/ HoldEnter(w) \/ HoldLeave(w)
  \/ \E c \in Clients : Call(c) \/ InCall(c)
  \/ InitReturns
  \/ SpuriousWakeup

Spec == Init /\ [][Next]_vars

\* The scheduler runs every thread that can run: workers (jobs return),
\* handlers and clients inside a call.  Nobody is obliged to make a call.
Fairness ==
  /\ \A w \in Workers : /\ WF_vars(Worker(w))
                        /\ WF_vars(HoldEnter(w))
                        /\ WF_vars(HoldLeave(w))
  /\ \A c \in Clients : WF_vars(InCall(c))
  /\ WF_vars(InitReturns)

FairSpec == Spec /\ Fairness

-----------------------------------------------------------------------------
(* Properties.                                                             *)

\* Every variable has the type thread_pool.c gives it.
TypeOK ==
  /\ pc \in [Workers -> WorkerStates]
  /\ job \in [Workers -> Jobs \cup {NoJob}]
  /\ cpc \in [Clients -> ClientStates]
  /\ newjob \in [Clients -> Jobs \cup {NoJob}]
  /\ queue \in Seq(Jobs)
  /\ rwmutex \in Workers \cup Clients \cup {NoOne}
  /\ v \in {0, 1}
  /\ bsem_waiters \subseteq Workers
  /\ thcount_lock \in Workers \cup {NoOne}
  /\ idle_waiters \subseteq Clients
  /\ num_threads_alive \in Int
  /\ num_threads_working \in Int
  /\ threads_keepalive \in {0, 1}
  /\ threads_on_hold \in {0, 1}
  /\ sigusr1 \subseteq Workers
  /\ held \subseteq Workers
  /\ ready \in BOOLEAN
  /\ freed \in BOOLEAN
  /\ pushed \subseteq Jobs
  /\ done \subseteq Jobs
  /\ awaited \in [Clients -> SUBSET Jobs]

\* The workers that have taken the semaphore and will still look at the
\* queue, as long as the pool is kept alive.
Carriers ==
  {w \in Workers : pc[w] \in {"recheck", "to_busy", "busy", "pulling", "pulled"}}

\* No wakeup is lost: has_jobs is a flag, not a counter, so several pushes may
\* collapse into one post, yet while the pool is in use a job in the queue
\* always has a worker on its way to it, or the flag is up and some worker is
\* not blocked in bsem_wait and will find it.
NoLostWakeup ==
  threads_keepalive = 1 /\ queue # <<>> =>
    \/ Carriers # {}
    \/ v = 1 /\ Workers \ bsem_waiters # {}

\* The jobs in a queue, from front to rear.
JobsOf(q) == {q[i] : i \in 1..Len(q)}

RunningJobs == {job[w] : w \in {x \in Workers : pc[x] = "running"}}

(* What makes the pool right, as an inductive invariant in five parts.       *)

\* rwmutex is held exactly inside jobqueue_pull and jobqueue_push, and the
\* job a worker read inside it is still the front of the queue.
QueueLocked ==
  /\ \A w \in Workers : rwmutex = w <=> pc[w] = "pulled"
  /\ \A c \in Clients : rwmutex = c <=> cpc[c] = "push_insert"
  /\ \A w \in Workers :
       pc[w] = "pulled" =>
         job[w] = IF queue = <<>> THEN NoJob ELSE Head(queue)

\* The two counters count the workers they are meant to count.
CountsExact ==
  /\ num_threads_alive = Cardinality(Alive)
  /\ num_threads_working = Cardinality(Working)

\* The pool is used after thpool_init has returned and before it is freed; it
\* is freed only when no worker can touch its queue again.
Lifecycle ==
  /\ ready => \A w \in Workers : pc[w] # "starting"
  /\ \A c \in Clients : cpc[c] # "out" => ready /\ ~freed
  /\ \A c, d \in Clients : cpc[c] = "destroy" /\ c # d => cpc[d] = "out"
  /\ freed => ready /\ \A w \in Workers : pc[w] \in {"left", "gone"}

\* A job is in the queue once, or with one worker, or done, never two of
\* these, and what a client is about to push is new.
JobsOnce ==
  /\ \A i, k \in 1..Len(queue) : queue[i] = queue[k] => i = k
  /\ \A w, x \in Workers :
       pc[w] = "running" /\ pc[x] = "running" /\ job[w] = job[x] => w = x
  /\ JobsOf(queue) \cap (RunningJobs \cup done) = {}
  /\ RunningJobs \cap done = {}
  /\ JobsOf(queue) \cup RunningJobs \cup done \subseteq pushed
  /\ \A c \in Clients : newjob[c] \notin pushed
  /\ \A c, d \in Clients : newjob[c] = newjob[d] /\ newjob[c] # NoJob => c = d

\* Until the pool is freed every pushed job is in one of these places.
NoJobLost == ~freed => pushed \subseteq JobsOf(queue) \cup RunningJobs \cup done

Accounting == QueueLocked /\ CountsExact /\ Lifecycle /\ JobsOnce /\ NoJobLost

\* thpool_wait returns only when every job that was in the queue when it was
\* called has been run, though it tests the queue's length and the number of
\* working threads without the lock of the queue.
WaitSound ==
  [][\A c \in Clients :
       cpc[c] = "wait" /\ cpc'[c] = "out" => awaited[c] \subseteq done]_vars

\* The pool implements its promise: jobs start in order, once each, and the
\* pool is freed only when no job is running.
Abstract == INSTANCE JobPool WITH
  waiting  <- queue,
  running  <- RunningJobs,
  finished <- done,
  closed   <- freed

ImplementsJobPool == Abstract!Spec

\* Every job that was pushed is run, unless the pool is destroyed first.
EveryJobRuns ==
  \A j \in Jobs : j \in pushed ~> (j \in done \/ threads_keepalive = 0)

\* A call of thpool_wait returns.
WaitReturns == \A c \in Clients : cpc[c] = "wait" ~> cpc[c] # "wait"

\* A call of thpool_destroy wakes every worker, however often it was
\* blocked, and returns.
DestroyReturns == \A c \in Clients : cpc[c] = "destroy" ~> freed

\* thread_pool.h:143: destroying the pool waits for the active threads to
\* finish.  Once it is freed no worker is still inside thread_do, where its
\* next step is an unlock of the freed thcount_lock.
NoUseAfterFree == freed => \A w \in Workers : pc[w] = "gone"
=============================================================================
