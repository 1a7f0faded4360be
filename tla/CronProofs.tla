----------------------------- MODULE CronProofs -----------------------------
(***************************************************************************)
(* Theorems about CronScheduler, for every set of jobs, crontab file, table *)
(* size, pool size, clock, set of instants and timer.                      *)
(***************************************************************************)
EXTENDS CronScheduler, FiniteSetTheorems, TLAPS

Instants == Clock \cup {0, Invalid}

LEMMA TimerType ==
  ASSUME NEW j \in CronJobs, NEW date \in Clock
  PROVE  Timer(j, date) \in Clock \cup {Invalid}
BY CronAssumption DEF Timer

-----------------------------------------------------------------------------
(* Type correctness.                                                       *)

\* The table holds jobs or empty slots, whatever file it was filled from.
LEMMA TableTyped ==
  ASSUME NEW read \in Seq(CronJobs)
  PROVE  TableOf(read) \in [1..JobSize -> CronJobs \cup {NoJob}]
BY CronAssumption DEF TableOf

LEMMA EmptyTyped == EmptyTable \in [1..JobSize -> CronJobs \cup {NoJob}]
<1>1. <<>> \in Seq(CronJobs)
  OBVIOUS
<1>2. QED
  BY <1>1, TableTyped, Zenon DEF EmptyTable

LEMMA InitTyped == Init => TypeOK
<1> SUFFICES ASSUME Init PROVE TypeOK
  OBVIOUS
<1>1. waiting \in Seq(Runs) /\ running \subseteq Runs /\ finished \subseteq Runs
  BY DEF Init, Pool!Init
<1>2. closed \in BOOLEAN /\ signal \in BOOLEAN /\ rested \in BOOLEAN
  BY Zenon DEF Init, Pool!Init
<1>3. now \in Clock /\ backs \in Nat /\ threads \in Nat
  BY CronAssumption DEF Init, Clock
<1>4. /\ next_trigger_time \in [CronJobs -> Clock \cup {0, Invalid}]
      /\ last_trigger_time \in [CronJobs -> Clock \cup {0}]
      /\ armed_at \in [CronJobs -> Clock \cup {0}]
      /\ tested \in [CronJobs -> Clock \cup {0}]
      /\ handed_in \in [CronJobs -> 0..MaxRuns]
  BY CronAssumption DEF Init
<1>5. /\ jobs \in [1..JobSize -> CronJobs \cup {NoJob}]
      /\ slot \in 1..(JobSize + 1)
      /\ cron_pc \in CronStates
  BY CronAssumption, EmptyTyped DEF Init, CronStates
<1>6. QED
  BY <1>1, <1>2, <1>3, <1>4, <1>5, Zenon DEF TypeOK

\* What a test of a job does to the job's times is well typed.
LEMMA ArmedType ==
  ASSUME TypeOK, NEW j \in CronJobs
  PROVE  Armed(j) \in Instants /\ Timer(j, now) \in Instants
<1>1. now \in Clock /\ next_trigger_time[j] \in Instants
  BY DEF TypeOK, Instants
<1>2. Timer(j, now) \in Instants
  BY <1>1, TimerType DEF Instants, Clock
<1>3. QED
  BY <1>1, <1>2 DEF Armed, Instants

LEMMA PoolTyped ==
  ASSUME TypeOK,
         \/ \E r \in Runs : Pool!Submit(r) \/ Pool!Finish(r)
         \/ Pool!Start
         \/ Pool!Close
         \/ UNCHANGED poolVars
  PROVE  /\ waiting' \in Seq(Runs) /\ running' \subseteq Runs
         /\ finished' \subseteq Runs /\ closed' \in BOOLEAN
<1>0. /\ waiting \in Seq(Runs) /\ running \subseteq Runs
      /\ finished \subseteq Runs /\ closed \in BOOLEAN
  BY Zenon DEF TypeOK
<1>1. ASSUME NEW r \in Runs, Pool!Submit(r) PROVE waiting' \in Seq(Runs)
  BY <1>0, <1>1 DEF Pool!Submit
<1>2. ASSUME Pool!Start
      PROVE  waiting' \in Seq(Runs) /\ running' \subseteq Runs
  BY <1>0, <1>2 DEF Pool!Start
<1>3. QED
  <2>1. CASE \E r \in Runs : Pool!Submit(r)
    BY <1>0, <1>1, <2>1, Zenon DEF Pool!Submit
  <2>2. CASE Pool!Start
    BY <1>0, <1>2, <2>2, Zenon DEF Pool!Start
  <2>3. CASE \E r \in Runs : Pool!Finish(r)
    <3>1. running' \subseteq Runs /\ finished' \subseteq Runs
      BY <1>0, <2>3 DEF Pool!Finish
    <3>2. QED
      BY <1>0, <2>3, <3>1, Zenon DEF Pool!Finish
  <2>4. CASE Pool!Close
    <3>1. waiting' \in Seq(Runs)
      BY <2>4 DEF Pool!Close
    <3>2. QED
      BY <1>0, <2>4, <3>1, Zenon DEF Pool!Close
  <2>5. CASE UNCHANGED poolVars
    BY <1>0, <2>5, Zenon DEF poolVars
  <2>6. QED
    BY <2>1, <2>2, <2>3, <2>4, <2>5

\* A test of a job keeps the types.
LEMMA TestTyped ==
  ASSUME TypeOK, NEW j \in CronJobs, NotDue(j) \/ Trigger(j)
  PROVE  TypeOK'
<1>1. Armed(j) \in Instants /\ Timer(j, now) \in Instants
  BY ArmedType
<1>2. /\ now \in Clock /\ slot \in 1..(JobSize + 1)
      /\ next_trigger_time \in [CronJobs -> Clock \cup {0, Invalid}]
      /\ last_trigger_time \in [CronJobs -> Clock \cup {0}]
      /\ armed_at \in [CronJobs -> Clock \cup {0}]
      /\ tested \in [CronJobs -> Clock \cup {0}]
      /\ handed_in \in [CronJobs -> 0..MaxRuns]
  BY Zenon DEF TypeOK
<1>3. next_trigger_time' \in [CronJobs -> Clock \cup {0, Invalid}]
  BY <1>1, <1>2 DEF NotDue, Trigger, Instants
<1>4. last_trigger_time' \in [CronJobs -> Clock \cup {0}]
  BY <1>2 DEF NotDue, Trigger
<1>5. /\ armed_at' \in [CronJobs -> Clock \cup {0}]
      /\ tested' \in [CronJobs -> Clock \cup {0}]
  BY <1>2 DEF NotDue, Trigger, Test
<1>6. slot' \in 1..(JobSize + 1)
  BY <1>2, CronAssumption DEF NotDue, Trigger, Test
<1>7. handed_in' \in [CronJobs -> 0..MaxRuns]
  <2>1. MaxRuns \in Nat
    BY CronAssumption
  <2>2. QED
    BY <1>2, <2>1 DEF NotDue, Trigger, HandIn
<1>8. /\ waiting' \in Seq(Runs) /\ running' \subseteq Runs
      /\ finished' \subseteq Runs /\ closed' \in BOOLEAN
  <2>1. CASE NotDue(j)
    BY <2>1, PoolTyped DEF NotDue
  <2>2. CASE Trigger(j)
    <3>1. handed_in[j] < MaxRuns /\ Pool!Submit(<<j, handed_in[j] + 1>>)
      BY <2>2 DEF Trigger, HandIn
    <3>2. handed_in[j] \in 0..MaxRuns
      BY <1>2
    <3>3. <<j, handed_in[j] + 1>> \in Runs
      BY <3>1, <3>2, CronAssumption DEF Runs
    <3>4. QED
      BY <3>1, <3>3, PoolTyped
  <2>3. QED
    BY <2>1, <2>2
<1>9. UNCHANGED <<cron_pc, rested, signal, timeVars, tableVars>>
  BY DEF NotDue, Trigger, Test
<1>10. QED
  BY <1>3, <1>4, <1>5, <1>6, <1>7, <1>8, <1>9, Zenon DEF TypeOK, timeVars, tableVars

\* The pool's size is a natural number, whatever the count started from.
LEMMA CountTyped ==
  ASSUME NEW start \in Int, NEW table
  PROVE  PoolSize(2 * JobCount(start, table)) \in Nat
<1> DEFINE Full == {i \in 1..JobSize : table[i] # NoJob}
<1>1. IsFiniteSet(Full)
  <2>1. IsFiniteSet(1..JobSize) /\ Full \subseteq 1..JobSize
    BY CronAssumption, FS_Interval
  <2>2. QED
    BY <2>1, FS_Subset, Zenon
<1>2. Cardinality(Full) \in Nat
  BY <1>1, FS_CardinalityType
<1>3. QED
  BY <1>2 DEF PoolSize, JobCount

LEMMA LoadTyped ==
  ASSUME TypeOK, Load
  PROVE  TypeOK'
<1>1. PICK read \in Files, start \in CountGarbage :
        /\ jobs' = TableOf(read)
        /\ \/ cron_pc' = "free" /\ threads' = threads
           \/ /\ cron_pc' = "iterated"
              /\ threads' = PoolSize(2 * JobCount(start, jobs'))
  BY Zenon DEF Load
<1>2. read \in Seq(CronJobs) /\ start \in Int
  BY CronAssumption
<1>3. jobs' \in [1..JobSize -> CronJobs \cup {NoJob}]
  BY <1>1, <1>2, TableTyped
<1>4. threads' \in Nat
  BY <1>1, <1>2, CountTyped DEF TypeOK
<1>5. cron_pc' \in CronStates
  BY <1>1 DEF CronStates
<1>6. UNCHANGED <<slot, rested, signal, poolVars, timeVars, jobVars>>
  BY DEF Load
<1>7. QED
  BY <1>3, <1>4, <1>5, <1>6, Zenon DEF TypeOK, poolVars, timeVars, jobVars

\* Every other step of the crontab thread keeps the types.
LEMMA ThreadTyped ==
  ASSUME TypeOK,
         LoopTest \/ Wake \/ SkipSlot \/ IterateReturns \/ Destroy \/ Free
  PROVE  TypeOK'
<1>1. UNCHANGED <<threads, signal, timeVars, jobVars>>
  BY DEF LoopTest, Wake, SkipSlot, IterateReturns, Destroy, Free, tableVars
<1>2. jobs' \in [1..JobSize -> CronJobs \cup {NoJob}]
  BY EmptyTyped
  DEF LoopTest, Wake, SkipSlot, IterateReturns, Destroy, Free, tableVars, TypeOK
<1>3. slot' \in 1..(JobSize + 1)
  BY CronAssumption
  DEF LoopTest, Wake, SkipSlot, IterateReturns, Destroy, Free, TypeOK
<1>4. cron_pc' \in CronStates
  BY DEF LoopTest, Wake, SkipSlot, IterateReturns, Destroy, Free, TypeOK,
     CronStates, Ended
<1>5. rested' \in BOOLEAN
  BY Zenon DEF LoopTest, Wake, SkipSlot, IterateReturns, Destroy, Free, TypeOK
<1>6. /\ waiting' \in Seq(Runs) /\ running' \subseteq Runs
      /\ finished' \subseteq Runs /\ closed' \in BOOLEAN
  <2>1. Pool!Close \/ UNCHANGED poolVars
    BY DEF LoopTest, Wake, SkipSlot, IterateReturns, Destroy, Free
  <2>2. QED
    BY <2>1, PoolTyped, Zenon
<1>7. QED
  BY <1>1, <1>2, <1>3, <1>4, <1>5, <1>6, Zenon DEF TypeOK, timeVars, jobVars

\* The pool, the clock and the signal handler keep the types.
LEMMA EnvironmentTyped ==
  ASSUME TypeOK,
         StartRun \/ (\E r \in Runs : FinishRun(r)) \/ Tick \/ ClockBack \/ Signal
  PROVE  TypeOK'
<1>1. UNCHANGED <<cron_pc, slot, tableVars, jobVars>>
  BY DEF StartRun, FinishRun, Tick, ClockBack, Signal
<1>2. now' \in Clock /\ backs' \in Nat
  BY CronAssumption
  DEF StartRun, FinishRun, Tick, ClockBack, Signal, timeVars, TypeOK, Clock
<1>3. rested' \in BOOLEAN /\ signal' \in BOOLEAN
  BY Zenon DEF StartRun, FinishRun, Tick, ClockBack, Signal, TypeOK
<1>4. /\ waiting' \in Seq(Runs) /\ running' \subseteq Runs
      /\ finished' \subseteq Runs /\ closed' \in BOOLEAN
  <2>1. Pool!Start \/ (\E r \in Runs : Pool!Finish(r)) \/ UNCHANGED poolVars
    BY Zenon DEF StartRun, FinishRun, Tick, ClockBack, Signal
  <2>2. QED
    BY <2>1, PoolTyped, Zenon
<1>5. QED
  BY <1>1, <1>2, <1>3, <1>4, Zenon DEF TypeOK, tableVars, jobVars

LEMMA NextTyped == TypeOK /\ [Next]_vars => TypeOK'
<1> SUFFICES ASSUME TypeOK, [Next]_vars PROVE TypeOK'
  OBVIOUS
<1>1. CASE \E j \in CronJobs : NotDue(j) \/ Trigger(j)
  BY <1>1, TestTyped
<1>2. CASE UNCHANGED vars
  BY <1>2, Zenon DEF vars, poolVars, timeVars, tableVars, jobVars, TypeOK
<1>3. QED
  BY <1>1, <1>2, LoadTyped, ThreadTyped, EnvironmentTyped, Zenon DEF Next, Cron

\* In every execution of the service every variable has its type: the times
\* stay within the clock or the invalid instant, the slot within the table.
THEOREM CronTyped == Spec => []TypeOK
BY InitTyped, NextTyped, PTL DEF Spec

-----------------------------------------------------------------------------
(* Which instants a job has been run for.                                   *)

\* Before its first test a job has no times; from then on it waits for the
\* instant that its timer answers to the time it is accounted for, and has not
\* been tested at or after that instant.
OnTime(j) ==
  /\ armed_at[j] = 0 =>
       next_trigger_time[j] = 0 /\ last_trigger_time[j] = 0 /\ tested[j] = 0
  /\ armed_at[j] # 0 /\ Forward(j) =>
       /\ next_trigger_time[j] = Timer(j, Covered(j))
       /\ next_trigger_time[j] # Invalid => tested[j] < next_trigger_time[j]

\* Before the pool is made and after it is destroyed nothing runs or waits.
PoolIdle ==
  cron_pc \in {"load", "free"} \cup Ended => running = {} /\ waiting = <<>>

CronInv ==
  /\ TypeOK
  /\ \A j \in CronJobs : OnTime(j)
  /\ PoolIdle

LEMMA InitInv == Init => CronInv
<1> SUFFICES ASSUME Init PROVE CronInv
  OBVIOUS
<1>1. \A j \in CronJobs : OnTime(j)
  BY DEF Init, OnTime
<1>2. PoolIdle
  BY DEF Init, PoolIdle, Pool!Init
<1>3. QED
  BY <1>1, <1>2, InitTyped DEF CronInv

\* What CronInv says of a job whose time has come: it is not yet accounted for.
LEMMA DueIsNew ==
  ASSUME CronInv, NEW j \in CronJobs, Due(j), Forward(j)
  PROVE  /\ last_trigger_time[j] < now
         /\ tested[j] <= now
         /\ \/ armed_at[j] = 0 /\ j \in OnLoad
            \/ /\ armed_at[j] # 0
               /\ next_trigger_time[j] \in Fires[j]
               /\ Covered(j) < next_trigger_time[j]
               /\ next_trigger_time[j] <= now
<1> USE DEF CronInv
<1>1. /\ now \in Clock /\ armed_at[j] \in Clock \cup {0}
      /\ last_trigger_time[j] \in Clock \cup {0} /\ tested[j] \in Clock \cup {0}
      /\ OnTime(j)
  BY DEF TypeOK
<1>2. CASE armed_at[j] = 0
  <2>1. next_trigger_time[j] = 0 /\ last_trigger_time[j] = 0 /\ tested[j] = 0
    BY <1>1, <1>2 DEF OnTime
  <2>2. ~(Timer(j, now) # Invalid /\ now >= Timer(j, now))
    BY <1>1, TimerType DEF Clock, Forward
  <2>3. j \in OnLoad
    BY <2>1, <2>2 DEF Due, Armed
  <2>4. QED
    BY <1>1, <1>2, <2>1, <2>3 DEF Clock
<1>3. CASE armed_at[j] # 0
  <2>1. Covered(j) \in Clock
    BY <1>1, <1>3 DEF Covered
  <2>2. /\ next_trigger_time[j] = Timer(j, Covered(j))
        /\ next_trigger_time[j] # Invalid => tested[j] < next_trigger_time[j]
    BY <1>1, <1>3 DEF OnTime
  <2>3. Timer(j, Covered(j)) \in Clock \cup {Invalid}
    BY <2>1, TimerType DEF Clock
  <2>4. next_trigger_time[j] # 0
    BY <2>2, <2>3 DEF Clock, Invalid
  <2>5. next_trigger_time[j] # Invalid /\ next_trigger_time[j] <= now
    BY <1>1, <2>2, <2>3, <2>4 DEF Due, Armed, Clock
  <2>6. /\ next_trigger_time[j] \in Fires[j]
        /\ Covered(j) < next_trigger_time[j]
    BY <2>1, <2>2, <2>5 DEF Forward
  <2>7. last_trigger_time[j] < now
    BY <1>1, <2>1, <2>2, <2>3, <2>5, <2>6 DEF Covered, Clock
  <2>8. QED
    BY <1>1, <1>3, <2>2, <2>3, <2>5, <2>6, <2>7 DEF Clock
<1>4. QED
  BY <1>2, <1>3

\* A test of job j leaves it on time, and the other jobs alone.
LEMMA TestOnTime ==
  ASSUME CronInv, NEW j \in CronJobs, NotDue(j) \/ Trigger(j), NEW k \in CronJobs
  PROVE  OnTime(k)'
<1> USE DEF CronInv
<1>1. /\ now \in Clock /\ armed_at[j] \in Clock \cup {0}
      /\ last_trigger_time[j] \in Clock \cup {0} /\ tested[j] \in Clock \cup {0}
      /\ OnTime(j) /\ OnTime(k)
  BY DEF TypeOK
<1>2. /\ armed_at' = [armed_at EXCEPT ![j] = IF @ = 0 THEN now ELSE @]
      /\ tested' = [tested EXCEPT ![j] = IF now > @ THEN now ELSE @]
  BY DEF NotDue, Trigger, Test
<1>3. CASE k # j
  <2>1. /\ next_trigger_time'[k] = next_trigger_time[k]
        /\ last_trigger_time'[k] = last_trigger_time[k]
        /\ armed_at'[k] = armed_at[k] /\ tested'[k] = tested[k]
    BY <1>2, <1>3 DEF NotDue, Trigger, TypeOK
  <2>2. QED
    BY <1>1, <2>1 DEF OnTime, Covered, Forward
<1>4. CASE Trigger(j) /\ k = j /\ Forward(j)
  <2>1. Due(j)
    BY <1>4 DEF Trigger
  <2>2. /\ last_trigger_time'[j] = now
        /\ next_trigger_time'[j] = Timer(j, now)
        /\ armed_at'[j] # 0 /\ tested'[j] = now
    BY <1>1, <1>2, <1>4, <2>1, DueIsNew DEF Trigger, TypeOK, Clock
  <2>3. Covered(j)' = now
    BY <1>1, <2>2 DEF Covered, Clock
  <2>4. Timer(j, now) # Invalid => now < Timer(j, now)
    BY <1>1, <1>4 DEF Forward
  <2>5. QED
    BY <1>4, <2>2, <2>3, <2>4 DEF OnTime
<1>5. CASE NotDue(j) /\ k = j /\ Forward(j)
  <2>1. /\ last_trigger_time'[j] = last_trigger_time[j]
        /\ next_trigger_time'[j] = Armed(j)
        /\ armed_at'[j] = IF armed_at[j] = 0 THEN now ELSE armed_at[j]
        /\ tested'[j] = IF now > tested[j] THEN now ELSE tested[j]
    BY <1>2, <1>5 DEF NotDue, TypeOK
  <2>2. ~Due(j)
    BY <1>5 DEF NotDue
  <2>3. Armed(j) = Timer(j, Covered(j)')
    <3>1. CASE armed_at[j] = 0
      <4>1. next_trigger_time[j] = 0 /\ last_trigger_time[j] = 0
        BY <1>1, <3>1 DEF OnTime
      <4>2. j \notin OnLoad
        BY <1>1, <2>2, <4>1 DEF Due, Armed, Clock, Invalid
      <4>3. QED
        BY <2>1, <3>1, <4>1, <4>2 DEF Armed, Covered
    <3>2. CASE armed_at[j] # 0
      <4>1. Covered(j)' = Covered(j) /\ Covered(j) \in Clock
        BY <1>1, <2>1, <3>2 DEF Covered
      <4>2. next_trigger_time[j] = Timer(j, Covered(j))
        BY <1>1, <1>5, <3>2 DEF OnTime
      <4>3. next_trigger_time[j] # 0
        BY <4>1, <4>2, TimerType DEF Clock, Invalid
      <4>4. QED
        BY <4>1, <4>2, <4>3 DEF Armed
    <3>3. QED
      BY <3>1, <3>2
  <2>4. Armed(j) # Invalid => tested'[j] < Armed(j)
    <3>1. SUFFICES ASSUME Armed(j) # Invalid PROVE tested'[j] < Armed(j)
      OBVIOUS
    <3>2. Armed(j) \in Int /\ now < Armed(j)
      BY <1>1, <2>2, <3>1, ArmedType DEF Due, Instants, Clock, Invalid
    <3>3. tested[j] < Armed(j)
      <4>1. CASE armed_at[j] = 0
        BY <1>1, <3>2, <4>1 DEF OnTime, Clock
      <4>2. CASE armed_at[j] # 0
        <5>1. next_trigger_time[j] # 0
          <6>1. Covered(j) \in Clock
            BY <1>1, <4>2 DEF Covered
          <6>2. QED
            BY <1>1, <1>5, <4>2, <6>1, TimerType DEF OnTime, Clock, Invalid
        <5>2. Armed(j) = next_trigger_time[j]
          BY <5>1 DEF Armed
        <5>3. QED
          BY <1>1, <1>5, <3>1, <4>2, <5>2 DEF OnTime
      <4>3. QED
        BY <4>1, <4>2
    <3>4. QED
      BY <1>1, <2>1, <3>2, <3>3
  <2>5. armed_at'[j] # 0
    BY <1>1, <2>1 DEF Clock
  <2>6. QED
    BY <1>5, <2>1, <2>3, <2>4, <2>5 DEF OnTime
<1>6. CASE k = j /\ ~Forward(j)
  <2>1. armed_at'[j] # 0
    BY <1>1, <1>2 DEF Clock, TypeOK
  <2>2. QED
    BY <1>6, <2>1 DEF OnTime, Forward, Timer
<1>7. QED
  BY <1>3, <1>4, <1>5, <1>6

\* A test of a job keeps the invariant.
LEMMA TestInv ==
  ASSUME CronInv, NEW j \in CronJobs, NotDue(j) \/ Trigger(j)
  PROVE  CronInv'
<1> USE DEF CronInv
<1>1. TypeOK'
  BY TestTyped
<1>2. \A k \in CronJobs : OnTime(k)'
  BY TestOnTime
<1>3. PoolIdle'
  BY DEF NotDue, Trigger, Test, PoolIdle, Ended
<1>4. QED
  BY <1>1, <1>2, <1>3

\* Every other step leaves the jobs' times alone.
LEMMA OtherInv ==
  ASSUME CronInv,
         \/ Load \/ LoopTest \/ Wake \/ SkipSlot \/ IterateReturns \/ Destroy \/ Free
         \/ StartRun \/ (\E r \in Runs : FinishRun(r)) \/ Tick \/ ClockBack \/ Signal
  PROVE  CronInv'
<1> USE DEF CronInv
<1>1. TypeOK'
  BY LoadTyped, ThreadTyped, EnvironmentTyped, Zenon
<1>2. UNCHANGED jobVars
  BY DEF Load, LoopTest, Wake, SkipSlot, IterateReturns, Destroy, Free, StartRun,
     FinishRun, Tick, ClockBack, Signal
<1>3. \A j \in CronJobs : OnTime(j)'
  BY <1>2 DEF jobVars, OnTime, Covered, Forward
<1>4. PoolIdle'
  <2>1. CASE Destroy
    BY <2>1 DEF Destroy, Pool!Close, PoolIdle
  <2>2. CASE StartRun
    BY <2>2 DEF StartRun, Pool!Start, PoolIdle
  <2>3. CASE \E r \in Runs : FinishRun(r)
    BY <2>3 DEF FinishRun, Pool!Finish, PoolIdle
  <2>4. CASE Load
    BY <2>4 DEF Load, PoolIdle, poolVars
  <2>5. CASE Free
    BY <2>5 DEF Free, PoolIdle, poolVars
  <2>6. CASE LoopTest \/ Wake \/ SkipSlot \/ IterateReturns
    BY <2>6 DEF LoopTest, Wake, SkipSlot, IterateReturns, PoolIdle, Ended
  <2>7. CASE Tick \/ ClockBack \/ Signal
    BY <2>7 DEF Tick, ClockBack, Signal, PoolIdle, poolVars
  <2>8. QED
    BY <2>1, <2>2, <2>3, <2>4, <2>5, <2>6, <2>7
<1>5. QED
  BY <1>1, <1>3, <1>4

LEMMA NextInv == CronInv /\ [Next]_vars => CronInv'
<1> SUFFICES ASSUME CronInv, [Next]_vars PROVE CronInv'
  OBVIOUS
<1>1. CASE UNCHANGED vars
  <2>1. TypeOK'
    BY <1>1, NextTyped DEF CronInv
  <2>2. /\ UNCHANGED <<cron_pc, running, waiting, next_trigger_time>>
        /\ UNCHANGED <<last_trigger_time, armed_at, tested>>
    BY <1>1 DEF vars, poolVars, jobVars
  <2>3. QED
    BY <2>1, <2>2 DEF CronInv, OnTime, Covered, Forward, Timer, PoolIdle
<1>2. QED
  BY <1>1, TestInv, OtherInv, Zenon DEF Next, Cron

LEMMA CronInvHolds == Spec => []CronInv
BY InitInv, NextInv, PTL DEF Spec

-----------------------------------------------------------------------------
(* The theorems.                                                           *)

\* A job that has been tested at or after an instant of its expression has been
\* run at or after it, unless its timer skipped the instant, however late or rarely
\* it was tested and wherever the clock was set back to.
THEOREM NothingMissed == Spec => []NoInstantMissed
<1>1. CronInv => NoInstantMissed
  <2> SUFFICES ASSUME CronInv, NEW j \in CronJobs, Forward(j), NEW t \in Fires[j],
                      armed_at[j] # 0, t <= tested[j]
               PROVE  Skips(j, Covered(j), t)
    BY DEF NoInstantMissed
  <2>1. /\ armed_at[j] \in Clock \cup {0} /\ tested[j] \in Clock \cup {0}
        /\ last_trigger_time[j] \in Clock \cup {0} /\ t \in Clock /\ OnTime(j)
    BY CronAssumption DEF CronInv, TypeOK
  <2>2. Timer(j, Covered(j)) \in Clock \cup {Invalid}
    BY <2>1, TimerType DEF Covered
  <2>3. Timer(j, Covered(j)) # Invalid => tested[j] < Timer(j, Covered(j))
    BY <2>1 DEF OnTime
  <2>4. QED
    BY <2>1, <2>2, <2>3 DEF Clock, Skips
<1>2. QED
  BY <1>1, CronInvHolds, PTL

\* The table is freed only when no script it named is running.
THEOREM FreeIsSafe == Spec => []NoScriptAfterFree
<1>1. CronInv => NoScriptAfterFree
  BY DEF CronInv, PoolIdle, NoScriptAfterFree
<1>2. QED
  BY <1>1, CronInvHolds, PTL

\* Between two runs of a job there is an instant of its expression: setting the
\* clock back repeats nothing, as long as the job's timer does not answer a date that
\* is past.
THEOREM NothingRepeated == Spec => OncePerInstant
<1>1. CronInv /\ [Next]_vars =>
        [\A j \in CronJobs :
           Forward(j) /\ handed_in'[j] # handed_in[j] =>
             last_trigger_time'[j] > last_trigger_time[j] /\ Anew(j)]_vars
  <2> SUFFICES ASSUME CronInv, Next, NEW j \in CronJobs, Forward(j),
                      handed_in'[j] # handed_in[j]
               PROVE  last_trigger_time'[j] > last_trigger_time[j] /\ Anew(j)
    BY Zenon
  <2>1. now \in Clock /\ last_trigger_time[j] \in Clock \cup {0}
    BY DEF CronInv, TypeOK
  <2>2. PICK k \in CronJobs : Trigger(k)
    BY DEF Next, Cron, Load, LoopTest, Wake, SkipSlot, IterateReturns, Destroy, Free,
       NotDue, StartRun, FinishRun, Tick, ClockBack, Signal, jobVars
  <2>3. k = j /\ last_trigger_time'[j] = now
    BY <2>2 DEF Trigger, HandIn, CronInv, TypeOK
  <2>4. Due(j)
    BY <2>2, <2>3 DEF Trigger
  <2>5. QED
    BY <2>1, <2>3, <2>4, DueIsNew DEF Clock, Anew
<1>2. QED
  BY <1>1, CronInvHolds, PTL DEF Spec, OncePerInstant
=============================================================================
