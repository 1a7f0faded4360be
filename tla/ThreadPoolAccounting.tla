------------------------ MODULE ThreadPoolAccounting ------------------------
(***************************************************************************)
(* Theorems about ThreadPool that rest on the inductive invariant          *)
(* Accounting: jobs are neither lost nor run twice, thpool_wait returns    *)
(* only when the jobs it waited for are done, and the pool implements      *)
(* JobPool.                                                                *)
(***************************************************************************)
EXTENDS ThreadPoolProofs, SequenceTheorems

-----------------------------------------------------------------------------
(* Counting.                                                               *)

\* When one worker moves, the number of workers in a set S of places changes
\* by its leaving and its entering S.
LEMMA CountMove ==
  ASSUME TypeOK, NEW w \in Workers, NEW s, NEW S,
         pc' = [pc EXCEPT ![w] = s]
  PROVE  Cardinality({x \in Workers : pc'[x] \in S}) =
           Cardinality({x \in Workers : pc[x] \in S})
             + (IF s \in S THEN 1 ELSE 0) - (IF pc[w] \in S THEN 1 ELSE 0)
<1> DEFINE before == {x \in Workers : pc[x] \in S}
           after  == {x \in Workers : pc'[x] \in S}
<1>1. IsFiniteSet(before) /\ Cardinality(before) \in Nat
  BY WorkersAssumption, FS_Subset, FS_CardinalityType
<1>2. /\ pc'[w] = s
      /\ \A x \in Workers : x # w => pc'[x] = pc[x]
  BY DEF TypeOK
<1>3. after = IF s \in S THEN before \cup {w} ELSE before \ {w}
  BY <1>2
<1>4. w \in before <=> pc[w] \in S
  OBVIOUS
<1>5. /\ Cardinality(before \cup {w}) =
           IF w \in before THEN Cardinality(before) ELSE Cardinality(before) + 1
      /\ Cardinality(before \ {w}) =
           IF w \in before THEN Cardinality(before) - 1 ELSE Cardinality(before)
  BY <1>1, FS_AddElement, FS_RemoveElement
<1> HIDE DEF before, after
<1>6. Cardinality(after) =
        Cardinality(before)
          + (IF s \in S THEN 1 ELSE 0) - (IF pc[w] \in S THEN 1 ELSE 0)
  BY <1>1, <1>3, <1>4, <1>5
<1>7. QED
  BY <1>6 DEF before, after

\* The same for the two sets the pool counts.
LEMMA CountersMove ==
  ASSUME TypeOK, NEW w \in Workers, NEW from, NEW to, Move(w, from, to)
  PROVE  /\ Cardinality(Alive)' = Cardinality(Alive)
              + (IF to \in AliveStates THEN 1 ELSE 0)
              - (IF from \in AliveStates THEN 1 ELSE 0)
         /\ Cardinality(Working)' = Cardinality(Working)
              + (IF to \in WorkingStates THEN 1 ELSE 0)
              - (IF from \in WorkingStates THEN 1 ELSE 0)
         /\ Cardinality(Alive) \in Int /\ Cardinality(Working) \in Int
<1>1. pc' = [pc EXCEPT ![w] = to] /\ pc[w] = from
  BY DEF Move
<1>2. Cardinality({x \in Workers : pc'[x] \in AliveStates}) =
        Cardinality({x \in Workers : pc[x] \in AliveStates})
          + (IF to \in AliveStates THEN 1 ELSE 0)
          - (IF from \in AliveStates THEN 1 ELSE 0)
  BY <1>1, CountMove
<1>3. Cardinality({x \in Workers : pc'[x] \in WorkingStates}) =
        Cardinality({x \in Workers : pc[x] \in WorkingStates})
          + (IF to \in WorkingStates THEN 1 ELSE 0)
          - (IF from \in WorkingStates THEN 1 ELSE 0)
  BY <1>1, CountMove
<1>4. Cardinality(Alive) \in Int /\ Cardinality(Working) \in Int
  <2>1. Alive \subseteq Workers /\ Working \subseteq Workers
    BY DEF Alive, Working
  <2>2. Cardinality(Alive) \in Nat /\ Cardinality(Working) \in Nat
    BY <2>1, WorkersAssumption, FS_Subset, FS_CardinalityType
  <2>3. QED
    BY <2>2
<1>5. QED
  BY <1>2, <1>3, <1>4 DEF Alive, Working

\* A worker's step counts what it should.
LEMMA WorkerCounts ==
  ASSUME TypeOK, CountsExact, NEW w \in Workers, Worker(w)
  PROVE  CountsExact'
<1> USE DEF countVars, MoveAndCount, AliveStates, WorkingStates, WorkerStates,
            CountsExact
<1>1. CASE ThreadStart(w)
  BY <1>1, CountersMove DEF ThreadStart
<1>2. CASE CountUnlock(w)
  BY <1>2, CountersMove DEF CountUnlock, CountStates, AfterCount
<1>3. CASE LoopTest(w)
  BY <1>3, CountersMove DEF LoopTest
<1>4. CASE BsemTake(w)
  BY <1>4, CountersMove DEF BsemTake
<1>5. CASE BsemBlock(w)
  BY <1>5 DEF BsemBlock, workerVars, CountsExact, Alive, Working
<1>6. CASE Recheck(w)
  BY <1>6, CountersMove DEF Recheck
<1>7. CASE GoBusy(w)
  BY <1>7, CountersMove DEF GoBusy
<1>8. CASE PullLock(w)
  BY <1>8, CountersMove DEF PullLock
<1>9. CASE PullRemove(w)
  BY <1>9, CountersMove DEF PullRemove
<1>10. CASE RunJob(w)
  BY <1>10, CountersMove DEF RunJob
<1>11. CASE GoIdle(w)
  BY <1>11, CountersMove DEF GoIdle
<1>12. CASE Leave(w)
  BY <1>12, CountersMove DEF Leave
<1>13. QED
  BY <1>1, <1>2, <1>3, <1>4, <1>5, <1>6, <1>7, <1>8, <1>9, <1>10, <1>11, <1>12
  DEF Worker

\* When thpool_destroy sees the count at zero no worker is left alive.
LEMMA NoneAlive ==
  ASSUME CountsExact, num_threads_alive = 0
  PROVE  \A w \in Workers : pc[w] \in AliveStates => FALSE
<1>1. IsFiniteSet(Alive)
  <2>1. Alive \subseteq Workers
    BY DEF Alive
  <2>2. QED
    BY <2>1, WorkersAssumption, FS_Subset
<1>2. Alive = {}
  BY <1>1, FS_EmptySet DEF CountsExact
<1>3. QED
  BY <1>2 DEF Alive

\* When thpool_wait sees the count at zero no worker is running a job.
LEMMA NoneWorking ==
  ASSUME CountsExact, num_threads_working = 0
  PROVE  RunningJobs = {}
<1>1. IsFiniteSet(Working)
  <2>1. Working \subseteq Workers
    BY DEF Working
  <2>2. QED
    BY <2>1, WorkersAssumption, FS_Subset
<1>2. Working = {}
  BY <1>1, FS_EmptySet DEF CountsExact
<1>3. QED
  BY <1>2 DEF Working, WorkingStates, RunningJobs

-----------------------------------------------------------------------------
(* The queue's lock.                                                       *)

\* A worker's step: only the holder of rwmutex changes the queue, and it
\* releases the mutex in doing so.
LEMMA WorkerQueueLocked ==
  ASSUME TypeOK, QueueLocked, NEW w \in Workers, Worker(w)
  PROVE  QueueLocked'
<1> USE ThreadsDistinct DEF QueueLocked, TypeOK, Move, MoveAndCount, poolVars,
        workerVars, clientVars
<1>1. CASE ThreadStart(w)
  BY <1>1 DEF ThreadStart
<1>2. CASE CountUnlock(w)
  BY <1>2 DEF CountUnlock, CountStates, AfterCount
<1>3. CASE LoopTest(w)
  BY <1>3 DEF LoopTest
<1>4. CASE BsemTake(w)
  BY <1>4 DEF BsemTake
<1>5. CASE BsemBlock(w)
  BY <1>5 DEF BsemBlock
<1>6. CASE Recheck(w)
  BY <1>6 DEF Recheck
<1>7. CASE GoBusy(w)
  BY <1>7 DEF GoBusy
<1>8. CASE PullLock(w)
  BY <1>8 DEF PullLock
<1>9. CASE PullRemove(w)
  BY <1>9 DEF PullRemove
<1>10. CASE RunJob(w)
  BY <1>10 DEF RunJob
<1>11. CASE GoIdle(w)
  BY <1>11 DEF GoIdle
<1>12. CASE Leave(w)
  BY <1>12 DEF Leave
<1>13. QED
  BY <1>1, <1>2, <1>3, <1>4, <1>5, <1>6, <1>7, <1>8, <1>9, <1>10, <1>11, <1>12
  DEF Worker

\* A client's step: a push holds rwmutex, and thpool_destroy clears the queue
\* without a worker inside jobqueue_pull.
LEMMA ClientQueueLocked ==
  ASSUME Typed, QueueLocked, CountsExact, NEW c \in Clients,
         Call(c) \/ InCall(c)
  PROVE  QueueLocked'
<1> USE ThreadsDistinct DEF QueueLocked, Typed, TypeOK, MayCall, poolVars,
        workerVars, clientVars
<1>1. ASSUME NEW j \in Jobs, AddWork(c, j)
      PROVE  QueueLocked'
  BY <1>1 DEF AddWork
<1>2. CASE PushLock(c)
  BY <1>2 DEF PushLock
<1>3. CASE PushInsert(c)
  BY <1>3 DEF PushInsert
<1>4. CASE WaitCall(c)
  BY <1>4 DEF WaitCall
<1>5. CASE WaitTest(c)
  BY <1>5 DEF WaitTest
<1>6. CASE Pause(c)
  BY <1>6 DEF Pause
<1>7. CASE Resume(c)
  BY <1>7 DEF Resume
<1>8. CASE DestroyCall(c)
  BY <1>8 DEF DestroyCall
<1>9. CASE DestroyPost(c)
  BY <1>9 DEF DestroyPost, BsemPostAll
<1>10. CASE DestroyFree(c)
  <2>1. \A w \in Workers : pc[w] # "pulled"
    BY <1>10, NoneAlive DEF DestroyFree, AliveStates, WorkerStates
  <2>2. QED
    BY <1>10, <2>1 DEF DestroyFree
<1>11. QED
  BY <1>1, <1>2, <1>3, <1>4, <1>5, <1>6, <1>7, <1>8, <1>9, <1>10
  DEF Call, InCall

-----------------------------------------------------------------------------
(* The life of the pool.                                                   *)

\* A worker's step never brings it back to the beginning, and one that has
\* counted itself dead stays so.
LEMMA WorkerLifecycle ==
  ASSUME TypeOK, Lifecycle, NEW w \in Workers, Worker(w)
  PROVE  Lifecycle'
<1> USE DEF Lifecycle, TypeOK, Move, MoveAndCount, workerVars, clientVars,
            lifeVars
<1>1. CASE ThreadStart(w)
  BY <1>1 DEF ThreadStart
<1>2. CASE CountUnlock(w)
  BY <1>2 DEF CountUnlock, CountStates, AfterCount
<1>3. CASE LoopTest(w)
  BY <1>3 DEF LoopTest
<1>4. CASE BsemTake(w)
  BY <1>4 DEF BsemTake
<1>5. CASE BsemBlock(w)
  BY <1>5 DEF BsemBlock
<1>6. CASE Recheck(w)
  BY <1>6 DEF Recheck
<1>7. CASE GoBusy(w)
  BY <1>7 DEF GoBusy
<1>8. CASE PullLock(w)
  BY <1>8 DEF PullLock
<1>9. CASE PullRemove(w)
  BY <1>9 DEF PullRemove
<1>10. CASE RunJob(w)
  BY <1>10 DEF RunJob
<1>11. CASE GoIdle(w)
  BY <1>11 DEF GoIdle
<1>12. CASE Leave(w)
  BY <1>12 DEF Leave
<1>13. QED
  BY <1>1, <1>2, <1>3, <1>4, <1>5, <1>6, <1>7, <1>8, <1>9, <1>10, <1>11, <1>12
  DEF Worker

\* A client's step: a call begins only on a live pool that nobody destroys.
LEMMA ClientLifecycle ==
  ASSUME TypeOK, Lifecycle, CountsExact, NEW c \in Clients,
         Call(c) \/ InCall(c)
  PROVE  Lifecycle'
<1> USE DEF Lifecycle, TypeOK, MayCall, workerVars, clientVars, lifeVars
<1>1. ASSUME NEW j \in Jobs, AddWork(c, j)
      PROVE  Lifecycle'
  BY <1>1 DEF AddWork
<1>2. CASE PushLock(c)
  BY <1>2 DEF PushLock
<1>3. CASE PushInsert(c)
  BY <1>3 DEF PushInsert
<1>4. CASE WaitCall(c)
  BY <1>4 DEF WaitCall
<1>5. CASE WaitTest(c)
  BY <1>5 DEF WaitTest
<1>6. CASE Pause(c) \/ Resume(c) \/ DestroyPost(c)
  BY <1>6 DEF Pause, Resume, DestroyPost
<1>7. CASE DestroyCall(c)
  BY <1>7 DEF DestroyCall
<1>8. CASE DestroyFree(c)
  <2>1. \A w \in Workers : pc[w] \in {"starting", "left", "gone"}
    BY <1>8, NoneAlive DEF DestroyFree, AliveStates
  <2>2. QED
    BY <1>8, <2>1 DEF DestroyFree
<1>9. QED
  BY <1>1, <1>2, <1>3, <1>4, <1>5, <1>6, <1>7, <1>8 DEF Call, InCall

\* thpool_init returns when every worker has counted itself alive.
LEMMA InitLifecycle ==
  ASSUME TypeOK, Lifecycle, CountsExact, InitReturns
  PROVE  Lifecycle'
<1>1. \A w \in Workers : pc[w] # "starting"
  <2>1. Alive \subseteq Workers /\ Cardinality(Alive) = Cardinality(Workers)
    BY DEF InitReturns, CountsExact, Alive
  <2>2. Alive = Workers
    BY <2>1, WorkersAssumption, FS_Subset
  <2>3. QED
    BY <2>2 DEF Alive, AliveStates
<1>2. QED
  BY <1>1 DEF InitReturns, Lifecycle, workerVars, clientVars

-----------------------------------------------------------------------------
(* Every job in one place.                                                 *)

NoRepeat(q) == \A i, k \in 1..Len(q) : q[i] = q[k] => i = k

LEMMA EmptyJobs == JobsOf(<<>>) = {} /\ NoRepeat(<<>>)
  BY DEF JobsOf, NoRepeat

\* Pushing adds one job, and repeats none if it is new.
LEMMA AppendJobs ==
  ASSUME NEW q \in Seq(Jobs), NEW j \in Jobs
  PROVE  /\ JobsOf(Append(q, j)) = JobsOf(q) \cup {j}
         /\ NoRepeat(q) /\ j \notin JobsOf(q) => NoRepeat(Append(q, j))
<1>1. /\ Len(q) \in Nat /\ Len(Append(q, j)) = Len(q) + 1
      /\ \A i \in 1..Len(q) : Append(q, j)[i] = q[i]
      /\ Append(q, j)[Len(q) + 1] = j
  OBVIOUS
<1>2. 1..(Len(q) + 1) = (1..Len(q)) \cup {Len(q) + 1}
  BY <1>1
<1>3. QED
  BY <1>1, <1>2 DEF JobsOf, NoRepeat

\* Pulling removes exactly the front job.
LEMMA TailJobs ==
  ASSUME NEW q \in Seq(Jobs), q # <<>>, NoRepeat(q)
  PROVE  /\ JobsOf(Tail(q)) = JobsOf(q) \ {Head(q)}
         /\ Head(q) \in JobsOf(q)
         /\ NoRepeat(Tail(q))
<1>1. /\ Len(q) \in Nat /\ Len(q) >= 1 /\ Len(Tail(q)) = Len(q) - 1
      /\ \A i \in 1..(Len(q) - 1) : Tail(q)[i] = q[i + 1]
      /\ Head(q) = q[1]
  OBVIOUS
<1>2. \A i \in 1..Len(q) : i # 1 => i - 1 \in 1..(Len(q) - 1) /\ (i - 1) + 1 = i
  BY <1>1
<1>3. \A i \in 1..(Len(q) - 1) : i + 1 \in 1..Len(q) /\ i + 1 # 1
  BY <1>1
<1>4. 1 \in 1..Len(q)
  BY <1>1
<1>5. JobsOf(Tail(q)) \subseteq JobsOf(q) \ {Head(q)}
  BY <1>1, <1>3, <1>4 DEF JobsOf, NoRepeat
<1>6. JobsOf(q) \ {Head(q)} \subseteq JobsOf(Tail(q))
  BY <1>1, <1>2 DEF JobsOf
<1>7. NoRepeat(Tail(q))
  BY <1>1, <1>3 DEF NoRepeat
<1>8. QED
  BY <1>1, <1>4, <1>5, <1>6, <1>7 DEF JobsOf

\* case 1 of jobqueue_pull: nothing is left behind the only job.
LEMMA OnlyJob ==
  ASSUME NEW q \in Seq(Jobs), Len(q) = 1
  PROVE  Tail(q) = <<>>
<1>1. Tail(q) \in Seq(Jobs) /\ Len(Tail(q)) = 0
  OBVIOUS
<1>2. Tail(q) # <<>> => Len(Tail(q)) # 0
  BY <1>1, EmptySeq
<1>3. QED
  BY <1>1, <1>2, Zenon

\* What a worker's step does to the queue, the running and the finished jobs:
\* jobqueue_pull starts the front job, if there is one ...
LEMMA PullStarts ==
  ASSUME Typed, QueueLocked, NEW w \in Workers, PullRemove(w)
  PROVE  /\ done' = done
         /\ \/ queue = <<>> /\ queue' = queue /\ RunningJobs' = RunningJobs
               /\ \A x \in Workers : pc'[x] = "running" => pc[x] = "running"
            \/ /\ queue # <<>> /\ queue' = Tail(queue)
               /\ RunningJobs' = RunningJobs \cup {Head(queue)}
               /\ job[w] = Head(queue)
               /\ \A x \in Workers :
                    x # w /\ pc'[x] = "running" => pc[x] = "running"
<1> USE DEF Typed, PullRemove, Move, history
<1>1. queue \in Seq(Jobs) /\ pc \in [Workers -> WorkerStates]
  BY DEF TypeOK
<1>2. job' = job /\ done' = done /\ pc[w] = "pulled"
  OBVIOUS
<1>3. CASE queue = <<>>
  <2>1. job[w] = NoJob
    BY <1>2, <1>3 DEF QueueLocked
  <2>2. pc' = [pc EXCEPT ![w] = "to_idle"]
    BY <2>1
  <2>3. Len(queue) = 0
    BY <1>3
  <2>4. queue' = queue
    BY <2>3
  <2>5. QED
    BY <1>1, <1>2, <1>3, <2>2, <2>4 DEF RunningJobs
<1>4. CASE queue # <<>>
  <2>1. job[w] = Head(queue) /\ Head(queue) \in Jobs
    BY <1>1, <1>2, <1>4 DEF QueueLocked
  <2>2. pc' = [pc EXCEPT ![w] = "running"]
    BY <2>1, JobsAssumption
  <2>3. queue' = Tail(queue)
    <3>1. Len(queue) # 0
      BY <1>1, <1>4
    <3>2. Len(queue) = 1 => Tail(queue) = <<>>
      BY <1>1, OnlyJob
    <3>3. QED
      BY <3>1, <3>2
  <2>4. QED
    BY <1>1, <1>2, <1>4, <2>1, <2>2, <2>3 DEF RunningJobs
<1>5. QED
  BY <1>3, <1>4, <1>2

\* ... a job that returns is finished, and is running nowhere else ...
LEMMA RunFinishes ==
  ASSUME Typed, JobsOnce, NEW w \in Workers, RunJob(w)
  PROVE  /\ queue' = queue
         /\ job[w] \in RunningJobs
         /\ RunningJobs' = RunningJobs \ {job[w]}
         /\ done' = done \cup {job[w]}
         /\ \A x \in Workers : pc'[x] = "running" =>
              pc[x] = "running" /\ x # w /\ job'[x] = job[x]
<1> USE DEF Typed, TypeOK, RunJob, Move, poolVars
<1>1. /\ pc[w] = "running" /\ pc' = [pc EXCEPT ![w] = "to_idle"]
      /\ job' = [job EXCEPT ![w] = NoJob] /\ queue' = queue
      /\ done' = done \cup {job[w]}
  OBVIOUS
<1>2. \A x \in Workers : pc'[x] = "running" =>
        pc[x] = "running" /\ x # w /\ job'[x] = job[x]
  BY <1>1
<1>3. \A x \in Workers : pc[x] = "running" /\ x # w =>
        pc'[x] = "running" /\ job'[x] = job[x] /\ job[x] # job[w]
  BY <1>1 DEF JobsOnce
<1>4. QED
  BY <1>1, <1>2, <1>3 DEF RunningJobs

\* ... and no other step of a worker moves a job.
LEMMA OthersKeep ==
  ASSUME TypeOK, NEW w \in Workers, Worker(w), ~PullRemove(w), ~RunJob(w)
  PROVE  /\ queue' = queue /\ RunningJobs' = RunningJobs /\ done' = done
         /\ \A x \in Workers : pc'[x] = "running" =>
              pc[x] = "running" /\ job'[x] = job[x]
<1> USE DEF TypeOK, Move, MoveAndCount, RunningJobs, poolVars, workerVars,
            history
<1>1. CASE ThreadStart(w) \/ CountUnlock(w) \/ LoopTest(w)
  BY <1>1 DEF ThreadStart, CountUnlock, CountStates, AfterCount, LoopTest
<1>2. CASE BsemTake(w) \/ BsemBlock(w) \/ Recheck(w)
  BY <1>2 DEF BsemTake, BsemBlock, Recheck
<1>3. CASE GoBusy(w) \/ GoIdle(w) \/ Leave(w)
  BY <1>3 DEF GoBusy, GoIdle, Leave
<1>4. CASE PullLock(w)
  BY <1>4 DEF PullLock
<1>5. QED
  BY <1>1, <1>2, <1>3, <1>4 DEF Worker

\* So a worker's step keeps every job in one place and loses none.
LEMMA WorkerJobs ==
  ASSUME Typed, QueueLocked, JobsOnce, NoJobLost, NEW w \in Workers, Worker(w)
  PROVE  JobsOnce' /\ NoJobLost'
<1>1. pushed' = pushed /\ newjob' = newjob /\ freed' = freed
  BY DEF Worker, ThreadStart, CountUnlock, LoopTest, BsemTake, BsemBlock, Recheck,
     GoBusy, PullLock, PullRemove, RunJob, GoIdle, Leave, history, clientVars,
     lifeVars
<1>2. queue \in Seq(Jobs) /\ NoRepeat(queue)
  BY DEF Typed, TypeOK, JobsOnce, NoRepeat
<1>3. CASE PullRemove(w)
  <2>1. job' = job
    BY <1>3 DEF PullRemove
  <2>2. CASE queue = <<>>
    BY <1>1, <1>3, <2>1, <2>2, PullStarts DEF JobsOnce, NoJobLost
  <2>3. CASE queue # <<>>
    <3>1. /\ queue' = Tail(queue) /\ done' = done /\ job[w] = Head(queue)
          /\ RunningJobs' = RunningJobs \cup {Head(queue)}
          /\ \A x \in Workers : x # w /\ pc'[x] = "running" => pc[x] = "running"
      BY <1>3, <2>3, PullStarts
    <3>2. /\ JobsOf(queue') = JobsOf(queue) \ {Head(queue)}
          /\ Head(queue) \in JobsOf(queue)
          /\ NoRepeat(queue')
      BY <1>2, <2>3, <3>1, TailJobs
    <3>3. \A x \in Workers : pc[x] = "running" => job[x] # Head(queue)
      BY <3>2 DEF JobsOnce, RunningJobs
    <3>4. \A x, y \in Workers :
            pc'[x] = "running" /\ pc'[y] = "running" /\ job'[x] = job'[y] => x = y
      BY <2>1, <3>1, <3>3 DEF JobsOnce
    <3>5. QED
      BY <1>1, <3>1, <3>2, <3>4 DEF JobsOnce, NoJobLost, NoRepeat
  <2>4. QED
    BY <2>2, <2>3
<1>4. CASE RunJob(w)
  BY <1>1, <1>4, RunFinishes DEF JobsOnce, NoJobLost
<1>5. CASE ~PullRemove(w) /\ ~RunJob(w)
  BY <1>1, <1>5, OthersKeep DEF JobsOnce, NoJobLost, Typed
<1>6. QED
  BY <1>3, <1>4, <1>5

\* A client's step: only a push adds a job, and the job is new; destroying the
\* pool drops the jobs still queued.
LEMMA ClientJobs ==
  ASSUME Typed, JobsOnce, NoJobLost, NEW c \in Clients, Call(c) \/ InCall(c)
  PROVE  JobsOnce' /\ NoJobLost'
<1>1. queue \in Seq(Jobs) /\ NoRepeat(queue)
  BY DEF Typed, TypeOK, JobsOnce, NoRepeat
<1> USE DEF poolVars, workerVars, clientVars, lifeVars, history
<1>2. RunningJobs' = RunningJobs /\ job' = job /\ pc' = pc /\ done' = done
  BY DEF Call, InCall, AddWork, PushLock, PushInsert, WaitCall, WaitTest, Pause,
     Resume, DestroyCall, DestroyPost, DestroyFree, RunningJobs
<1>3. ASSUME NEW j \in Jobs, AddWork(c, j)
      PROVE  JobsOnce' /\ NoJobLost'
  BY <1>2, <1>3 DEF AddWork, JobsOnce, NoJobLost, Typed, TypeOK
<1>4. CASE PushInsert(c)
  <2>1. newjob[c] \in Jobs /\ newjob[c] \notin pushed
    BY <1>4 DEF PushInsert, Typed, InHand, JobsOnce
  <2>2. JobsOf(queue) \subseteq pushed
    BY DEF JobsOnce
  <2>3. /\ queue' = Append(queue, newjob[c]) /\ pushed' = pushed \cup {newjob[c]}
        /\ newjob' = [newjob EXCEPT ![c] = NoJob] /\ freed' = freed
    BY <1>4 DEF PushInsert
  <2>4. JobsOf(queue') = JobsOf(queue) \cup {newjob[c]} /\ NoRepeat(queue')
    BY <1>1, <2>1, <2>2, <2>3, AppendJobs
  <2>5. \A d \in Clients : newjob'[d] \notin pushed'
    <3>1. newjob \in [Clients -> Jobs \cup {NoJob}] /\ pushed \subseteq Jobs
      BY DEF Typed, TypeOK
    <3>2. newjob[c] # NoJob
      BY <2>1, JobsAssumption
    <3>3. QED
      BY <2>1, <2>3, <3>1, <3>2, JobsAssumption DEF JobsOnce
  <2>6. \A d, e \in Clients : newjob'[d] = newjob'[e] /\ newjob'[d] # NoJob => d = e
    BY <2>3 DEF JobsOnce, Typed, TypeOK
  <2>7. QED
    BY <1>2, <2>1, <2>3, <2>4, <2>5, <2>6 DEF JobsOnce, NoJobLost, NoRepeat
<1>5. CASE DestroyFree(c)
  <2>1. queue' = <<>> /\ freed' /\ newjob' = newjob /\ pushed' = pushed
    BY <1>5 DEF DestroyFree
  <2>2. JobsOf(queue') = {} /\ NoRepeat(queue')
    BY <2>1, EmptyJobs
  <2>3. QED
    BY <1>2, <2>1, <2>2 DEF JobsOnce, NoJobLost, NoRepeat
<1>6. CASE \/ PushLock(c) \/ WaitCall(c) \/ WaitTest(c) \/ Pause(c)
           \/ Resume(c) \/ DestroyCall(c) \/ DestroyPost(c)
  <2>1. queue' = queue /\ newjob' = newjob /\ pushed' = pushed /\ freed' = freed
    BY <1>6 DEF PushLock, WaitCall, WaitTest, Pause, Resume, DestroyCall,
       DestroyPost
  <2>2. QED
    BY <1>2, <2>1 DEF JobsOnce, NoJobLost
<1>7. QED
  BY <1>3, <1>4, <1>5, <1>6 DEF Call, InCall

-----------------------------------------------------------------------------
(* The invariant.                                                          *)

LEMMA InitAccounting == Init => Accounting
<1> SUFFICES ASSUME Init PROVE Accounting
  OBVIOUS
<1> USE DEF Init
<1>1. QueueLocked
  BY ThreadsDistinct DEF QueueLocked
<1>2. CountsExact
  <2>1. Alive = {} /\ Working = {}
    BY DEF Alive, Working, AliveStates, WorkingStates
  <2>2. QED
    BY <2>1, FS_EmptySet DEF CountsExact
<1>3. Lifecycle
  BY DEF Lifecycle
<1>4. RunningJobs = {} /\ JobsOf(queue) = {} /\ NoRepeat(queue)
  BY EmptyJobs DEF RunningJobs
<1>5. JobsOnce
  BY <1>4 DEF JobsOnce, NoRepeat
<1>6. NoJobLost
  BY DEF NoJobLost
<1>7. QED
  BY <1>1, <1>2, <1>3, <1>5, <1>6 DEF Accounting

\* The steps that are neither a worker's nor a client's touch no job, no lock
\* and no count.
LEMMA OtherAccounting ==
  ASSUME Typed, Accounting,
         \/ \E w \in Workers : HoldEnter(w) \/ HoldLeave(w)
         \/ InitReturns
         \/ SpuriousWakeup
         \/ UNCHANGED vars
  PROVE  Accounting'
<1>1. /\ UNCHANGED <<queue, rwmutex, pc, job, cpc, newjob, pushed, done>>
      /\ UNCHANGED <<num_threads_alive, num_threads_working, freed>>
  BY DEF HoldEnter, HoldLeave, InitReturns, SpuriousWakeup, vars, poolVars,
     countVars, workerVars, clientVars, lifeVars, history
<1>2. QueueLocked' /\ CountsExact' /\ JobsOnce' /\ NoJobLost'
  BY <1>1 DEF Accounting, QueueLocked, CountsExact, Alive, Working, JobsOnce,
     NoJobLost, RunningJobs
<1>3. Lifecycle'
  <2>1. CASE InitReturns
    BY <2>1, InitLifecycle DEF Typed, Accounting
  <2>2. CASE ~InitReturns
    <3>1. ready' = ready
      BY <2>2 DEF HoldEnter, HoldLeave, SpuriousWakeup, vars, lifeVars
    <3>2. QED
      BY <1>1, <3>1 DEF Accounting, Lifecycle
  <2>3. QED
    BY <2>1, <2>2
<1>4. QED
  BY <1>2, <1>3 DEF Accounting

LEMMA AccountingStep == Typed /\ Accounting /\ [Next]_vars => Accounting'
<1> SUFFICES ASSUME Typed, Accounting, [Next]_vars PROVE Accounting'
  OBVIOUS
<1> USE DEF Accounting
<1>1. ASSUME NEW w \in Workers, Worker(w) PROVE Accounting'
  BY <1>1, WorkerCounts, WorkerQueueLocked, WorkerLifecycle, WorkerJobs DEF Typed
<1>2. ASSUME NEW c \in Clients, Call(c) \/ InCall(c) PROVE Accounting'
  <2>1. CountsExact'
    <3>1. UNCHANGED <<pc, num_threads_alive, num_threads_working>>
      BY <1>2 DEF Call, InCall, AddWork, PushLock, PushInsert, WaitCall, WaitTest,
         Pause, Resume, DestroyCall, DestroyPost, DestroyFree, workerVars,
         countVars
    <3>2. QED
      BY <3>1 DEF CountsExact, Alive, Working
  <2>2. QED
    BY <1>2, <2>1, ClientQueueLocked, ClientLifecycle, ClientJobs DEF Typed
<1>3. QED
  BY <1>1, <1>2, OtherAccounting DEF Next

\* Jobs are in exactly one place, the counters count, the lock protects the
\* queue, and the pool is freed only when no worker can touch its queue.
THEOREM AccountingHolds == Spec => []Accounting
  BY InitAccounting, AccountingStep, AlwaysTyped, PTL DEF Spec

-----------------------------------------------------------------------------
(* thpool_wait.                                                            *)

\* What a client waits for was pushed.
Awaited == \A c \in Clients : awaited[c] \subseteq pushed

LEMMA AwaitedStep == TypeOK /\ Awaited /\ [Next]_vars => Awaited'
<1> SUFFICES ASSUME TypeOK, Awaited, [Next]_vars PROVE Awaited'
  OBVIOUS
<1> USE DEF Awaited, history
<1>1. ASSUME NEW w \in Workers, Worker(w) PROVE Awaited'
  BY <1>1 DEF Worker, ThreadStart, CountUnlock, LoopTest, BsemTake, BsemBlock,
     Recheck, GoBusy, PullLock, PullRemove, RunJob, GoIdle, Leave
<1>2. ASSUME NEW c \in Clients, Call(c) \/ InCall(c) PROVE Awaited'
  <2>1. CASE WaitCall(c)
    BY <2>1 DEF WaitCall, TypeOK
  <2>2. CASE PushInsert(c)
    BY <2>2 DEF PushInsert
  <2>3. QED
    BY <1>2, <2>1, <2>2 DEF Call, InCall, AddWork, PushLock, WaitTest, Pause,
       Resume, DestroyCall, DestroyPost, DestroyFree
<1>3. QED
  BY <1>1, <1>2 DEF Next, HoldEnter, HoldLeave, InitReturns, SpuriousWakeup, vars

\* The only way out of thpool_wait is its test, and there nothing is queued and
\* nothing is running, so everything pushed is done.
LEMMA WaitReturnsLate ==
  ASSUME Typed, Accounting, Awaited, [Next]_vars,
         NEW c \in Clients, cpc[c] = "wait", cpc'[c] = "out"
  PROVE  awaited[c] \subseteq done
<1>1. WaitTest(c)
  <2>1. ASSUME NEW w \in Workers, Worker(w) PROVE FALSE
    BY <2>1 DEF Worker, ThreadStart, CountUnlock, LoopTest, BsemTake, BsemBlock,
       Recheck, GoBusy, PullLock, PullRemove, RunJob, GoIdle, Leave, clientVars
  <2>2. ASSUME NEW d \in Clients, Call(d) \/ InCall(d) PROVE WaitTest(c)
    BY <2>2 DEF Call, InCall, AddWork, PushLock, PushInsert, WaitCall, WaitTest,
       Pause, Resume, DestroyCall, DestroyPost, DestroyFree, MayCall, clientVars,
       Typed, TypeOK
  <2>3. QED
    BY <2>1, <2>2 DEF Next, HoldEnter, HoldLeave, InitReturns, SpuriousWakeup,
       vars, clientVars
<1>2. queue = <<>> /\ num_threads_working = 0
  BY <1>1 DEF WaitTest, PoolBusy
<1>3. JobsOf(queue) = {} /\ RunningJobs = {} /\ ~freed
  BY <1>2, EmptyJobs, NoneWorking DEF Accounting, Lifecycle
<1>4. QED
  BY <1>3 DEF Accounting, NoJobLost, Awaited

\* thpool_wait returns only when every job queued before it was called is done.
THEOREM WaitIsSound == Spec => WaitSound
<1>1. Init => Awaited
  BY DEF Init, Awaited
<1>2. Typed /\ Accounting /\ Awaited /\ [Next]_vars =>
        [\A c \in Clients :
           cpc[c] = "wait" /\ cpc'[c] = "out" => awaited[c] \subseteq done]_vars
  BY WaitReturnsLate
<1>3. QED
  BY <1>1, <1>2, AwaitedStep, AlwaysTyped, AccountingHolds, PTL
  DEF Spec, WaitSound, Typed

-----------------------------------------------------------------------------
(* The pool implements JobPool.                                            *)

LEMMA AbstractInit == Init => Abstract!Init
  BY DEF Init, Abstract!Init, RunningJobs

\* A worker's step starts the front job, finishes a job, or is invisible.
LEMMA AbstractWorker ==
  ASSUME Typed, Accounting, NEW w \in Workers, Worker(w)
  PROVE  [Abstract!Next]_(Abstract!vars)
<1> USE DEF Abstract!Next, Abstract!vars, Abstract!Start, Abstract!Finish
<1>1. freed' = freed
  BY DEF Worker, ThreadStart, CountUnlock, LoopTest, BsemTake, BsemBlock, Recheck,
     GoBusy, PullLock, PullRemove, RunJob, GoIdle, Leave, lifeVars
<1>2. CASE PullRemove(w)
  BY <1>1, <1>2, PullStarts DEF Accounting
<1>3. CASE RunJob(w)
  <2>1. job[w] \in Jobs
    BY <1>3 DEF RunJob, Move, Typed, InHand
  <2>2. QED
    BY <1>1, <1>3, <2>1, RunFinishes DEF Accounting
<1>4. CASE ~PullRemove(w) /\ ~RunJob(w)
  BY <1>1, <1>4, OthersKeep DEF Typed
<1>5. QED
  BY <1>2, <1>3, <1>4

\* A client's step submits a new job, closes the pool, or is invisible.
LEMMA AbstractClient ==
  ASSUME Typed, Accounting, NEW c \in Clients, Call(c) \/ InCall(c)
  PROVE  [Abstract!Next]_(Abstract!vars)
<1> USE DEF Abstract!Next, Abstract!vars, Abstract!Submit, Abstract!Close
<1>1. RunningJobs' = RunningJobs /\ done' = done
  BY DEF Call, InCall, AddWork, PushLock, PushInsert, WaitCall, WaitTest, Pause,
     Resume, DestroyCall, DestroyPost, DestroyFree, RunningJobs, workerVars,
     history
<1>2. CASE PushInsert(c)
  <2>1. newjob[c] \in Jobs /\ newjob[c] \notin pushed /\ ~freed
    BY <1>2 DEF PushInsert, Typed, InHand, Accounting, JobsOnce, Lifecycle
  <2>2. newjob[c] \notin Abstract!Submitted
    BY <2>1 DEF Accounting, JobsOnce, JobsOf, Abstract!Submitted
  <2>3. queue' = Append(queue, newjob[c]) /\ freed' = freed
    BY <1>2 DEF PushInsert, lifeVars
  <2>4. QED
    BY <1>1, <2>1, <2>2, <2>3
<1>3. CASE DestroyFree(c)
  <2>1. RunningJobs = {}
    BY <1>3, NoneAlive DEF DestroyFree, Accounting, RunningJobs, AliveStates,
       WorkerStates
  <2>2. ~freed
    BY <1>3 DEF DestroyFree, Accounting, Lifecycle
  <2>3. QED
    BY <1>1, <1>3, <2>1, <2>2 DEF DestroyFree
<1>4. CASE ~PushInsert(c) /\ ~DestroyFree(c)
  <2>1. queue' = queue /\ freed' = freed
    BY <1>4 DEF Call, InCall, AddWork, PushLock, WaitCall, WaitTest, Pause, Resume,
       DestroyCall, DestroyPost, poolVars, lifeVars
  <2>2. QED
    BY <1>1, <2>1
<1>5. QED
  BY <1>2, <1>3, <1>4

LEMMA AbstractStep ==
  Typed /\ Accounting /\ [Next]_vars => [Abstract!Next]_(Abstract!vars)
<1> SUFFICES ASSUME Typed, Accounting, [Next]_vars
             PROVE  [Abstract!Next]_(Abstract!vars)
  OBVIOUS
<1>1. CASE \/ \E w \in Workers : HoldEnter(w) \/ HoldLeave(w)
           \/ InitReturns
           \/ SpuriousWakeup
           \/ UNCHANGED vars
  BY <1>1 DEF Abstract!vars, HoldEnter, HoldLeave, InitReturns, SpuriousWakeup,
     vars, poolVars, workerVars, lifeVars, history, RunningJobs
<1>2. QED
  BY <1>1, AbstractWorker, AbstractClient DEF Next

\* Jobs start in the order they were submitted, each at most once, and the
\* pool is closed only when no job is running.
THEOREM PoolImplementsJobPool == Spec => ImplementsJobPool
BY AbstractInit, AbstractStep, AlwaysTyped, AccountingHolds, PTL
DEF Spec, ImplementsJobPool, Abstract!Spec
=============================================================================
