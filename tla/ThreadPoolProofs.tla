-------------------------- MODULE ThreadPoolProofs --------------------------
(***************************************************************************)
(* Theorems about ThreadPool, for every finite set of workers, every set   *)
(* of clients and jobs, and every assignment of calls to clients.          *)
(***************************************************************************)
EXTENDS ThreadPool, FiniteSetTheorems, TLAPS

-----------------------------------------------------------------------------
(* Type correctness.                                                       *)

\* A job pointer that is about to be run or pushed is not NULL.
InHand ==
  /\ \A w \in Workers : pc[w] = "running" => job[w] \in Jobs
  /\ \A c \in Clients :
       cpc[c] \in {"push_lock", "push_insert"} => newjob[c] \in Jobs

Typed == TypeOK /\ InHand

\* The pool starts well typed.
LEMMA InitTyped == Init => Typed
<1> SUFFICES ASSUME Init PROVE Typed
  OBVIOUS
<1>1. queue \in Seq(Jobs)
  BY DEF Init
<1>2. pc \in [Workers -> WorkerStates] /\ cpc \in [Clients -> ClientStates]
  BY DEF Init, WorkerStates, ClientStates
<1>3. /\ job \in [Workers -> Jobs \cup {NoJob}]
      /\ newjob \in [Clients -> Jobs \cup {NoJob}]
      /\ awaited \in [Clients -> SUBSET Jobs]
  BY DEF Init
<1>4. ready \in BOOLEAN /\ freed \in BOOLEAN
  BY Zenon DEF Init
<1>5. /\ v \in {0, 1} /\ num_threads_alive \in Int /\ num_threads_working \in Int
      /\ threads_keepalive \in {0, 1} /\ threads_on_hold \in {0, 1}
  BY DEF Init
<1>6. /\ rwmutex \in Workers \cup Clients \cup {NoOne}
      /\ thcount_lock \in Workers \cup {NoOne}
      /\ bsem_waiters \subseteq Workers /\ idle_waiters \subseteq Clients
      /\ sigusr1 \subseteq Workers /\ held \subseteq Workers
      /\ pushed \subseteq Jobs /\ done \subseteq Jobs
  BY DEF Init
<1>7. TypeOK
  BY <1>1, <1>2, <1>3, <1>4, <1>5, <1>6, Zenon DEF TypeOK
<1>8. InHand
  BY DEF Init, InHand
<1>9. QED
  BY <1>7, <1>8 DEF Typed

\* A worker's step keeps the types: it moves to a place of thread_do, takes
\* only jobs of the queue, and leaves the clients' variables alone.
LEMMA WorkerTyped ==
  ASSUME Typed, NEW w \in Workers, Worker(w)
  PROVE  Typed'
<1> USE DEF poolVars, countVars, workerVars, clientVars, signalVars, lifeVars,
            history, WorkerStates, CountStates, Move, MoveAndCount, Typed, InHand
<1>1. CASE ThreadStart(w)
  BY <1>1 DEF ThreadStart, TypeOK
<1>2. CASE CountUnlock(w)
  <2>1. AfterCount[pc[w]] \in WorkerStates \ {"running"}
    BY <1>2 DEF CountUnlock, AfterCount
  <2>2. QED
    BY <1>2, <2>1 DEF CountUnlock, TypeOK
<1>3. CASE LoopTest(w)
  BY <1>3 DEF LoopTest, TypeOK
<1>4. CASE BsemTake(w)
  BY <1>4 DEF BsemTake, TypeOK
<1>5. CASE BsemBlock(w)
  BY <1>5 DEF BsemBlock, TypeOK
<1>6. CASE Recheck(w)
  BY <1>6 DEF Recheck, TypeOK
<1>7. CASE GoBusy(w)
  BY <1>7 DEF GoBusy, TypeOK
<1>8. CASE PullLock(w)
  <2>1. queue # <<>> => Head(queue) \in Jobs
    BY DEF TypeOK
  <2>2. job' \in [Workers -> Jobs \cup {NoJob}]
    BY <1>8, <2>1 DEF PullLock, TypeOK
  <2>3. QED
    BY <1>8, <2>2 DEF PullLock, TypeOK
<1>9. CASE PullRemove(w)
  <2>1. queue \in Seq(Jobs)
    BY DEF TypeOK
  <2>2. queue' = queue \/ queue' = <<>> \/ (queue # <<>> /\ queue' = Tail(queue))
    BY <1>9, <2>1 DEF PullRemove
  <2>3. <<>> \in Seq(Jobs) /\ (queue # <<>> => Tail(queue) \in Seq(Jobs))
    BY <2>1
  <2>4. queue' \in Seq(Jobs)
    BY <2>1, <2>2, <2>3, Zenon
  <2>5. v' \in {0, 1} /\ bsem_waiters' \subseteq Workers
    BY <1>9 DEF PullRemove, BsemPost, TypeOK
  <2>6. QED
    BY <1>9, <2>4, <2>5 DEF PullRemove, TypeOK
<1>10. CASE RunJob(w)
  BY <1>10 DEF RunJob, TypeOK
<1>11. CASE GoIdle(w)
  <2>1. idle_waiters' \subseteq Clients
    BY <1>11 DEF GoIdle, SignalAllIdle, TypeOK
  <2>2. QED
    BY <1>11, <2>1 DEF GoIdle, TypeOK
<1>12. CASE Leave(w)
  BY <1>12 DEF Leave, TypeOK
<1>13. QED
  BY <1>1, <1>2, <1>3, <1>4, <1>5, <1>6, <1>7, <1>8, <1>9, <1>10, <1>11, <1>12
  DEF Worker

\* A client's step keeps the types: what it pushes is its own new job.
LEMMA ClientTyped ==
  ASSUME Typed, NEW c \in Clients, Call(c) \/ InCall(c)
  PROVE  Typed'
<1> USE DEF poolVars, countVars, workerVars, clientVars, signalVars, lifeVars,
            history, ClientStates, MayCall, Typed, InHand
<1>1. ASSUME NEW j \in Jobs, AddWork(c, j)
      PROVE  Typed'
  BY <1>1 DEF AddWork, TypeOK
<1>2. CASE PushLock(c)
  BY <1>2 DEF PushLock, TypeOK
<1>3. CASE PushInsert(c)
  <2>1. newjob[c] \in Jobs /\ queue \in Seq(Jobs)
    BY <1>3 DEF PushInsert, TypeOK
  <2>2. queue' \in Seq(Jobs)
    BY <1>3, <2>1 DEF PushInsert
  <2>3. v' \in {0, 1} /\ bsem_waiters' \subseteq Workers
    BY <1>3 DEF PushInsert, BsemPost, TypeOK
  <2>4. QED
    BY <1>3, <2>1, <2>2, <2>3 DEF PushInsert, TypeOK
<1>4. CASE WaitCall(c)
  BY <1>4 DEF WaitCall, TypeOK
<1>5. CASE WaitTest(c)
  BY <1>5 DEF WaitTest, TypeOK
<1>6. CASE Pause(c)
  BY <1>6 DEF Pause, TypeOK
<1>7. CASE Resume(c)
  BY <1>7 DEF Resume, TypeOK
<1>8. CASE DestroyCall(c)
  BY <1>8 DEF DestroyCall, TypeOK
<1>9. CASE DestroyPost(c)
  BY <1>9 DEF DestroyPost, BsemPostAll, TypeOK
<1>10. CASE DestroyFree(c)
  <2>1. queue' \in Seq(Jobs)
    BY <1>10 DEF DestroyFree
  <2>2. QED
    BY <1>10, <2>1 DEF DestroyFree, TypeOK
<1>11. QED
  BY <1>1, <1>2, <1>3, <1>4, <1>5, <1>6, <1>7, <1>8, <1>9, <1>10
  DEF Call, InCall

\* So do the signal handler, the return of thpool_init and a spurious wakeup.
LEMMA OtherTyped ==
  ASSUME Typed,
         \/ \E w \in Workers : HoldEnter(w) \/ HoldLeave(w)
         \/ InitReturns
         \/ SpuriousWakeup
         \/ UNCHANGED vars
  PROVE  Typed'
<1> USE DEF poolVars, countVars, workerVars, clientVars, signalVars, lifeVars,
            history, Typed, InHand
<1>1. ASSUME NEW w \in Workers, HoldEnter(w)
      PROVE  Typed'
  BY <1>1 DEF HoldEnter, TypeOK
<1>2. ASSUME NEW w \in Workers, HoldLeave(w)
      PROVE  Typed'
  BY <1>2 DEF HoldLeave, TypeOK
<1>3. CASE InitReturns
  BY <1>3 DEF InitReturns, TypeOK
<1>4. CASE SpuriousWakeup
  BY <1>4 DEF SpuriousWakeup, TypeOK
<1>5. CASE UNCHANGED vars
  BY <1>5 DEF vars, TypeOK
<1>6. QED
  BY <1>1, <1>2, <1>3, <1>4, <1>5

LEMMA AlwaysTyped == Spec => []Typed
<1>1. Typed /\ [Next]_vars => Typed'
  BY WorkerTyped, ClientTyped, OtherTyped DEF Next
<1>2. QED
  BY <1>1, InitTyped, PTL DEF Spec

\* Every variable keeps its type in every behaviour.
THEOREM TypeCorrect == Spec => []TypeOK
  BY AlwaysTyped, PTL DEF Typed

-----------------------------------------------------------------------------
(* No wakeup is lost.                                                      *)

\* Only workers inside bsem_wait are blocked, and when the flag is up not all
\* of them are: whoever raised it has woken one.
Awake ==
  /\ \A w \in bsem_waiters : pc[w] = "bsem_wait"
  /\ v = 1 => Workers \ bsem_waiters # {}

WakeInv == Awake /\ NoLostWakeup

\* Raising the flag leaves a worker awake: the one signalled, or, if nobody
\* was blocked, any.
LEMMA PostWakes ==
  ASSUME TypeOK, BsemPost
  PROVE  /\ v' = 1
         /\ bsem_waiters' \subseteq bsem_waiters
         /\ Workers \ bsem_waiters' # {}
  BY WorkersAssumption DEF BsemPost, TypeOK

\* The three cases of jobqueue_pull's switch exclude each other.
LEMMA MoreThanOne ==
  ASSUME TypeOK, Len(queue) > 1
  PROVE  Len(queue) # 0 /\ Len(queue) # 1
<1>1. \A n \in Nat : n > 1 => n # 0 /\ n # 1
  OBVIOUS
<1>2. queue \in Seq(Jobs)
  BY DEF TypeOK
<1>3. Len(queue) \in Nat
  BY <1>2
<1>4. QED
  BY <1>1, <1>3, Zenon

\* A worker's step.  The one that takes the flag becomes a carrier; a carrier
\* gives up only when the pool is being destroyed or when it has pulled, and
\* then it posts again if jobs remain.
LEMMA WorkerWake ==
  ASSUME TypeOK, WakeInv, NEW w \in Workers, Worker(w)
  PROVE  WakeInv'
<1> USE DEF poolVars, countVars, workerVars, clientVars, signalVars, lifeVars,
            history, Move, MoveAndCount, WakeInv, Awake, NoLostWakeup, Carriers,
            TypeOK
<1>1. CASE ThreadStart(w)
  BY <1>1 DEF ThreadStart
<1>2. CASE CountUnlock(w)
  BY <1>2 DEF CountUnlock, CountStates, AfterCount
<1>3. CASE LoopTest(w)
  BY <1>3 DEF LoopTest
<1>4. CASE BsemTake(w)
  BY <1>4 DEF BsemTake
<1>5. CASE BsemBlock(w)
  BY <1>5 DEF BsemBlock
<1>6. CASE Recheck(w)
  BY <1>6 DEF Recheck
<1>7. CASE GoBusy(w)
  BY <1>7 DEF GoBusy
<1>8. CASE PullLock(w)
  BY <1>8 DEF PullLock
<1>9. CASE PullRemove(w)
  <2>1. CASE Len(queue) = 0
    BY <1>9, <2>1 DEF PullRemove
  <2>2. CASE Len(queue) = 1
    BY <1>9, <2>2 DEF PullRemove
  <2>3. CASE Len(queue) > 1
    <3>1. BsemPost
      BY <1>9, <2>3, MoreThanOne, Zenon DEF PullRemove
    <3>2. Awake' /\ v' = 1 /\ Workers \ bsem_waiters' # {}
      BY <1>9, <3>1, PostWakes DEF PullRemove
    <3>3. QED
      BY <3>2
  <2>4. QED
    BY <1>9, <2>1, <2>2, <2>3 DEF PullRemove
<1>10. CASE RunJob(w)
  BY <1>10 DEF RunJob
<1>11. CASE GoIdle(w)
  BY <1>11 DEF GoIdle
<1>12. CASE Leave(w)
  BY <1>12 DEF Leave
<1>13. QED
  BY <1>1, <1>2, <1>3, <1>4, <1>5, <1>6, <1>7, <1>8, <1>9, <1>10, <1>11, <1>12
  DEF Worker

\* A client's step: a push posts, and destroying the pool ends its use.
LEMMA ClientWake ==
  ASSUME TypeOK, WakeInv, NEW c \in Clients, Call(c) \/ InCall(c)
  PROVE  WakeInv'
<1> USE DEF poolVars, countVars, workerVars, clientVars, signalVars, lifeVars,
            history, MayCall, WakeInv, Awake, NoLostWakeup, Carriers, TypeOK
<1>1. ASSUME NEW j \in Jobs, AddWork(c, j)
      PROVE  WakeInv'
  BY <1>1 DEF AddWork
<1>2. CASE PushLock(c)
  BY <1>2 DEF PushLock
<1>3. CASE PushInsert(c)
  BY <1>3, PostWakes DEF PushInsert
<1>4. CASE WaitCall(c)
  BY <1>4 DEF WaitCall
<1>5. CASE WaitTest(c)
  BY <1>5 DEF WaitTest
<1>6. CASE Pause(c)
  BY <1>6 DEF Pause
<1>7. CASE Resume(c)
  BY <1>7 DEF Resume
<1>8. CASE DestroyCall(c)
  BY <1>8 DEF DestroyCall
<1>9. CASE DestroyPost(c)
  BY <1>9, WorkersAssumption DEF DestroyPost, BsemPostAll
<1>10. CASE DestroyFree(c)
  BY <1>10 DEF DestroyFree
<1>11. QED
  BY <1>1, <1>2, <1>3, <1>4, <1>5, <1>6, <1>7, <1>8, <1>9, <1>10
  DEF Call, InCall

\* The signal handler stops a carrier where it is; a spurious wakeup only
\* unblocks.
LEMMA OtherWake ==
  ASSUME TypeOK, WakeInv,
         \/ \E w \in Workers : HoldEnter(w) \/ HoldLeave(w)
         \/ InitReturns
         \/ SpuriousWakeup
         \/ UNCHANGED vars
  PROVE  WakeInv'
<1> USE DEF poolVars, countVars, workerVars, clientVars, signalVars, lifeVars,
            history, WakeInv, Awake, NoLostWakeup, Carriers, TypeOK
<1>1. ASSUME NEW w \in Workers, HoldEnter(w) \/ HoldLeave(w)
      PROVE  WakeInv'
  BY <1>1 DEF HoldEnter, HoldLeave
<1>2. CASE InitReturns \/ UNCHANGED vars
  BY <1>2 DEF InitReturns, vars
<1>3. CASE SpuriousWakeup
  BY <1>3 DEF SpuriousWakeup
<1>4. QED
  BY <1>1, <1>2, <1>3

\* While the pool is in use, a queued job always has a worker on its way to
\* it, or the flag is up with a worker awake to see it.
THEOREM NoWakeupIsLost == Spec => []NoLostWakeup
<1>1. Init => WakeInv
  BY WorkersAssumption DEF Init, WakeInv, Awake, NoLostWakeup
<1>2. TypeOK /\ WakeInv /\ [Next]_vars => WakeInv'
  BY WorkerWake, ClientWake, OtherWake DEF Next
<1>3. WakeInv => NoLostWakeup
  BY DEF WakeInv
<1>4. QED
  BY <1>1, <1>2, <1>3, TypeCorrect, PTL DEF Spec
=============================================================================
