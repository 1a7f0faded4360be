---------------------------- MODULE ClockProofs ----------------------------
(***************************************************************************)
(* Theorems about the sessions and the ids of ClockUsers, for every number *)
(* of slots, of logins, of ids and of settings of the clock.               *)
(***************************************************************************)
EXTENDS ClockUsers, TLAPS, FiniteSetTheorems, FunctionTheorems

(***************************************************************************)
(* Types.                                                                  *)
(***************************************************************************)

LEMMA ClockTypes ==
  ASSUME ClockTypeOK, Tick \/ SetBack
  PROVE  ClockTypeOK' /\ backs' >= backs
BY ClockAssumption DEF ClockTypeOK, Tick, SetBack, Times

LEMMA LoginTypes ==
  ASSUME ClockTypeOK, SessionTypeOK, Login
  PROVE  SessionTypeOK'
BY SessionAssumption DEF ClockTypeOK, SessionTypeOK, Login

LEMMA RequestTypes ==
  ASSUME ClockTypeOK, SessionTypeOK, NEW s \in 1..logins, Request(s)
  PROVE  SessionTypeOK'
BY SessionAssumption DEF ClockTypeOK, SessionTypeOK, Request

LEMMA LogoutTypes ==
  ASSUME ClockTypeOK, SessionTypeOK, NEW s \in 1..logins, Logout(s)
  PROVE  SessionTypeOK'
BY SessionAssumption DEF ClockTypeOK, SessionTypeOK, Logout, Free

LEMMA NextIdTypes ==
  ASSUME ClockTypeOK, SnowflakeTypeOK, ids < MaxIds, NextId
  PROVE  SnowflakeTypeOK'
<1> DEFINE seq == IF id_time < now THEN 0 ELSE id_seq
<1>1. seq \in 0..ids /\ now \in Times /\ ids \in Nat
  BY SnowflakeAssumption DEF ClockTypeOK, SnowflakeTypeOK
<1>2. /\ id_time' \in Times \cup {0}
      /\ ids' \in 0..MaxIds
      /\ id_seq' \in 0..ids'
      /\ id_seq_max' \in 0..ids'
      /\ id_waits' = FALSE
  BY <1>1, SnowflakeAssumption DEF SnowflakeTypeOK, NextId
<1>3. last_id' \in (Times \cup {0}) \X (0..ids')
  <2>1. last_id' = <<now, seq>> /\ ids' = ids + 1
    BY DEF NextId
  <2> HIDE DEF seq
  <2>2. seq \in 0..ids'
    BY <1>1, <2>1
  <2> QED
    BY <1>1, <2>1, <2>2
<1> QED
  BY <1>2, <1>3 DEF SnowflakeTypeOK

LEMMA SnowflakeTypes ==
  ASSUME ClockTypeOK, SnowflakeTypeOK, SnowflakeNext
  PROVE  SnowflakeTypeOK'
<1>1. CASE NextId /\ ids < MaxIds
  BY <1>1, NextIdTypes
<1>2. CASE CallId /\ ~NextId
  BY <1>2 DEF CallId, SnowflakeTypeOK
<1>3. CASE StopWaiting
  BY <1>3, NextIdTypes DEF StopWaiting, SnowflakeTypeOK
<1> QED
  BY <1>1, <1>2, <1>3 DEF SnowflakeNext, CallId

\* All variables keep their types.
THEOREM Types == Spec => []TypeOK
<1>1. Init => TypeOK
  <2> SUFFICES ASSUME Init PROVE TypeOK
    OBVIOUS
  <2>1. ClockTypeOK
    BY ClockAssumption DEF Init, ClockInit, ClockTypeOK, Times
  <2>2. SessionTypeOK
    BY SessionAssumption DEF Init, SessionInit, SessionTypeOK, Free
  <2>3. SnowflakeTypeOK
    <3>1. last_id = <<0, 0>> /\ ids = 0 /\ 0 \in 0..ids
      BY DEF Init, SnowflakeInit, NoId
    <3>2. last_id \in (Times \cup {0}) \X (0..ids)
      BY <3>1
    <3>3. /\ id_time \in Times \cup {0}
          /\ ids \in 0..MaxIds
          /\ id_seq \in 0..ids
          /\ id_seq_max \in 0..ids
          /\ id_waits = FALSE
      BY SnowflakeAssumption DEF Init, SnowflakeInit
    <3> QED
      BY <3>2, <3>3 DEF SnowflakeTypeOK
  <2> QED
    BY <2>1, <2>2, <2>3 DEF TypeOK
<1>2. TypeOK /\ [Next]_vars => TypeOK'
  <2> SUFFICES ASSUME TypeOK, [Next]_vars PROVE TypeOK'
    OBVIOUS
  <2>1. CASE ClockStep
    BY <2>1, ClockTypes
       DEF ClockStep, TypeOK, SessionTypeOK, SnowflakeTypeOK, sessionVars,
           snowflakeVars
  <2>2. CASE SessionStep
    <3>1. SessionTypeOK'
      BY <2>2, LoginTypes, RequestTypes, LogoutTypes
         DEF SessionStep, SessionNext, TypeOK
    <3> QED
      BY <2>2, <3>1
         DEF SessionStep, TypeOK, ClockTypeOK, SnowflakeTypeOK, clockVars,
             snowflakeVars
  <2>3. CASE SnowflakeStep
    BY <2>3, SnowflakeTypes
       DEF SnowflakeStep, TypeOK, ClockTypeOK, SessionTypeOK, clockVars,
           sessionVars
  <2>4. CASE UNCHANGED vars
    BY <2>4
       DEF vars, TypeOK, ClockTypeOK, SessionTypeOK, SnowflakeTypeOK, clockVars,
           sessionVars, snowflakeVars
  <2> QED
    BY <2>1, <2>2, <2>3, <2>4 DEF Next
<1> QED
  BY <1>1, <1>2, PTL DEF Spec

(***************************************************************************)
(* Ids.                                                                    *)
(***************************************************************************)

\* The last id is the one before the next of its millisecond, or there is none.
LastIdBefore ==
  \/ last_id = NoId /\ id_time = 0
  \/ last_id = <<id_time, id_seq - 1>> /\ id_time >= 1

LEMMA NextIdIncreases ==
  ASSUME ClockTypeOK, SnowflakeTypeOK, LastIdBefore, NextId, id_time <= now
  PROVE  LastIdBefore' /\ Below(last_id, last_id')
<1>1. CASE id_time < now
  BY <1>1 DEF ClockTypeOK, SnowflakeTypeOK, LastIdBefore, NextId, Below, NoId, Times
<1>2. CASE id_time = now
  BY <1>2 DEF ClockTypeOK, SnowflakeTypeOK, LastIdBefore, NextId, Below, NoId, Times
<1> QED
  BY <1>1, <1>2 DEF ClockTypeOK, SnowflakeTypeOK, Times

LEMMA SnowflakeStepIncreases ==
  ASSUME TypeOK, LastIdBefore, SnowflakeNext
  PROVE  LastIdBefore' /\ (ids' # ids => Below(last_id, last_id'))
<1>1. CASE NextId /\ id_time <= now
  BY <1>1, NextIdIncreases DEF TypeOK
<1>2. CASE ~(NextId /\ id_time <= now)
  <2>1. UNCHANGED <<id_time, id_seq, ids, last_id>>
    BY <1>2
       DEF SnowflakeNext, CallId, StopWaiting, MustWait, TypeOK, ClockTypeOK,
           SnowflakeTypeOK, Times
  <2> QED
    BY <2>1 DEF LastIdBefore
<1> QED
  BY <1>1, <1>2

\* Every id is larger than all before it, however the clock is set.
THEOREM IdsAreIncreasing == Spec => IdsIncrease
<1>1. Init => LastIdBefore
  BY DEF Init, SnowflakeInit, LastIdBefore
<1>2. TypeOK /\ LastIdBefore /\ [Next]_vars =>
        LastIdBefore' /\ [ids' # ids => Below(last_id, last_id')]_snowflakeVars
  <2> SUFFICES ASSUME TypeOK, LastIdBefore, [Next]_vars
               PROVE  /\ LastIdBefore'
                      /\ [ids' # ids => Below(last_id, last_id')]_snowflakeVars
    OBVIOUS
  <2>1. CASE SnowflakeStep
    BY <2>1, SnowflakeStepIncreases DEF SnowflakeStep
  <2>2. CASE UNCHANGED snowflakeVars
    BY <2>2 DEF snowflakeVars, LastIdBefore
  <2> QED
    BY <2>1, <2>2 DEF Next, ClockStep, SessionStep, vars
<1> QED
  BY <1>1, <1>2, Types, PTL DEF Spec, IdsIncrease
(***************************************************************************)
(* Sessions.                                                               *)
(***************************************************************************)

\* While the clock was never set back no session was used in the future.
UsedInThePast == backs = 0 => \A s \in 1..logins : used[s] <= now

\* SessionsLast without the sessions that have expired: the code ends no session for
\* being idle, so more holds of it than it promises.
KeptForRoom ==
  backs = 0 =>
    \A s \in 1..logins :
      s \in Live \/ s \in logged_out \/ Cardinality(UsedSince(s)) >= NumSessions

SessionInv == SlotsAgree /\ UsedInThePast /\ KeptForRoom

LEMMA UsedSinceFinite ==
  ASSUME SessionTypeOK, NEW s
  PROVE  IsFiniteSet(UsedSince(s))
<1>1. logins \in Nat
  BY SessionAssumption DEF SessionTypeOK
<1>2. IsFiniteSet(1..logins)
  BY <1>1, FS_Interval
<1> QED
  BY <1>2, FS_Subset DEF UsedSince

\* A set with an element for each slot has as many elements as there are slots.
LEMMA OnePerSlot ==
  ASSUME NEW S, IsFiniteSet(S), NEW f \in [Slots -> S],
         \A i, j \in Slots : f[i] = f[j] => i = j
  PROVE  Cardinality(S) >= NumSessions
<1>1. f \in Injection(Slots, S)
  BY Fun_IsInj
<1>2. Cardinality(Slots) <= Cardinality(S)
  BY <1>1, FS_Injection
<1>3. Cardinality(Slots) = NumSessions
  BY FS_Interval, SessionAssumption DEF Slots
<1>4. Cardinality(S) \in Nat
  BY FS_CardinalityType
<1> QED
  BY <1>2, <1>3, <1>4, SessionAssumption

\* Sessions that have lasted long enough keep doing so while others are used.
LEMMA StillEnough ==
  ASSUME SessionTypeOK, SessionTypeOK', NEW s,
         Cardinality(UsedSince(s)) >= NumSessions,
         UsedSince(s) \subseteq UsedSince(s)'
  PROVE  Cardinality(UsedSince(s)') >= NumSessions
<1>1. IsFiniteSet(UsedSince(s)) /\ IsFiniteSet(UsedSince(s)')
  <2>1. logins' \in Nat
    BY SessionAssumption DEF SessionTypeOK
  <2>2. IsFiniteSet(1..logins')
    BY <2>1, FS_Interval
  <2> QED
    BY <2>2, FS_Subset, UsedSinceFinite DEF UsedSince
<1>2. Cardinality(UsedSince(s)) <= Cardinality(UsedSince(s)')
  BY <1>1, FS_Subset
<1>3. Cardinality(UsedSince(s)) \in Nat /\ Cardinality(UsedSince(s)') \in Nat
  BY <1>1, FS_CardinalityType
<1> QED
  BY <1>2, <1>3, SessionAssumption

\* Every slot is taken and the session of slot i is the one used longest ago: then
\* the others and the session that gets its slot have been used since.
LEMMA EvictedIsOldest ==
  ASSUME TypeOK, SessionTypeOK', SlotsAgree, UsedInThePast, backs = 0,
         logins' = logins + 1,
         used' = [used EXCEPT ![logins'] = now],
         NEW i \in Slots, Room(i), session_id[i] # Free,
         NEW s, s = session_id[i]
  PROVE  Cardinality(UsedSince(s)') >= NumSessions
<1> DEFINE f == [j \in Slots |-> IF j = i THEN logins' ELSE session_id[j]]
<1>1. \A j \in Slots : session_id[j] # Free /\ last_used[i] <= last_used[j]
  <2>1. \A j \in Slots : session_id[j] # Free
    BY DEF Room
  <2>2. \A j \in Slots : last_used[j] \in Int
    BY ClockAssumption DEF TypeOK, SessionTypeOK, Times
  <2>3. \A j \in Slots :
          last_used[i] < last_used[j] \/ (last_used[i] = last_used[j] /\ i <= j)
    BY <2>1 DEF Room
  <2> QED
    BY <2>1, <2>2, <2>3
<1>2. /\ logins \in Nat
      /\ \A j \in Slots : session_id[j] \in 1..logins
      /\ \A j \in Slots : used[session_id[j]] >= used[s]
  BY <1>1, SessionAssumption DEF TypeOK, SessionTypeOK, SlotsAgree, Free, Slots, Times
<1>3. /\ logins' \in 1..MaxLogins
      /\ used'[logins'] = now
      /\ \A t \in 1..logins : used'[t] = used[t]
  BY <1>2, SessionAssumption DEF TypeOK, SessionTypeOK
<1>4. s \in 1..logins /\ now >= used[s]
  BY <1>2 DEF UsedInThePast
<1>5. ASSUME NEW j \in Slots PROVE f[j] \in UsedSince(s)'
  <2>1. CASE j = i
    BY <2>1, <1>2, <1>3, <1>4 DEF UsedSince
  <2>2. CASE j # i
    <3>1. session_id[j] # s /\ session_id[j] \in 1..logins'
      BY <2>2, <1>1, <1>2 DEF SlotsAgree
    <3> QED
      BY <2>2, <3>1, <1>2, <1>3, <1>4 DEF UsedSince
  <2> QED
    BY <2>1, <2>2
<1>6. f \in [Slots -> UsedSince(s)']
  BY <1>5
<1>7. \A j, k \in Slots : f[j] = f[k] => j = k
  BY <1>1, <1>2 DEF SlotsAgree
<1>8. IsFiniteSet(UsedSince(s)')
  <2>1. IsFiniteSet(1..logins')
    BY <1>3, FS_Interval
  <2> QED
    BY <2>1, FS_Subset DEF UsedSince
<1> HIDE DEF f
<1> QED
  BY <1>6, <1>7, <1>8, OnePerSlot

\* A login leaves what SessionInv says true.
LEMMA LoginKeeps ==
  ASSUME TypeOK, SessionTypeOK', SessionInv, Login, now' = now, backs' = backs
  PROVE  SessionInv'
<1>0. PICK i \in Slots :
        /\ Room(i)
        /\ session_id' = [session_id EXCEPT ![i] = logins']
        /\ last_used' = [last_used EXCEPT ![i] = now]
  BY DEF Login
<1>1. /\ logins \in Nat /\ logins' = logins + 1 /\ logins' \in 1..MaxLogins
      /\ used' = [used EXCEPT ![logins'] = now]
      /\ logged_out' = logged_out
      /\ session_id \in [Slots -> 0..MaxLogins]
      /\ last_used \in [Slots -> Times \cup {0}]
      /\ used \in [1..MaxLogins -> Times \cup {0}]
      /\ now \in Nat
  BY SessionAssumption DEF Login, TypeOK, SessionTypeOK, ClockTypeOK, Times
<1>2. /\ used'[logins'] = now
      /\ \A t \in 1..logins : used'[t] = used[t] /\ t \in 1..logins'
  BY <1>1
<1>3. SlotsAgree'
  <2>1. \A j \in Slots : session_id[j] # Free => session_id[j] \in 1..logins
    BY <1>1 DEF SessionInv, SlotsAgree, Free
  <2>2. ASSUME NEW j \in Slots, NEW k \in Slots,
               session_id'[j] = session_id'[k], session_id'[j] # Free
        PROVE  j = k
    BY <2>2, <2>1, <1>0, <1>1 DEF SessionInv, SlotsAgree
  <2>3. ASSUME NEW j \in Slots, session_id'[j] # Free
        PROVE  session_id'[j] <= logins' /\ last_used'[j] = used'[session_id'[j]]
    <3>1. CASE j = i
      BY <3>1, <1>0, <1>1, <1>2
    <3>2. CASE j # i
      BY <2>1, <2>3, <3>2, <1>0, <1>1, <1>2 DEF SessionInv, SlotsAgree
    <3> QED
      BY <3>1, <3>2
  <2> QED
    BY <2>2, <2>3 DEF SlotsAgree
<1>4. UsedInThePast'
  BY <1>1, <1>2 DEF SessionInv, UsedInThePast
<1>5. KeptForRoom'
  <2> SUFFICES ASSUME backs = 0, NEW s \in 1..logins', s \notin Live',
                      s \notin logged_out
               PROVE  Cardinality(UsedSince(s)') >= NumSessions
    BY <1>1 DEF KeptForRoom
  <2>1. s # logins' /\ s \in 1..logins
    <3>1. session_id'[i] = logins'
      BY <1>0, <1>1
    <3> QED
      BY <3>1, <1>1 DEF Live
  <2>2. CASE s \in Live
    <3>1. PICK j \in Slots : session_id[j] = s
      BY <2>2 DEF Live
    <3>2. j = i
      BY <2>1, <3>1, <1>0, <1>1 DEF Live
    <3>3. session_id[i] # Free
      BY <3>1, <3>2, <2>1 DEF Free
    <3> QED
      BY <3>1, <3>2, <3>3, <1>0, <1>1, EvictedIsOldest DEF SessionInv
  <2>3. CASE s \notin Live
    <3>1. Cardinality(UsedSince(s)) >= NumSessions
      BY <2>1, <2>3 DEF SessionInv, KeptForRoom
    <3>2. UsedSince(s) \subseteq UsedSince(s)'
      BY <2>1, <1>2 DEF UsedSince
    <3> QED
      BY <3>1, <3>2, StillEnough DEF TypeOK
  <2> QED
    BY <2>2, <2>3
<1> QED
  BY <1>3, <1>4, <1>5 DEF SessionInv

\* A session is used: what Request and Logout have in common.
LEMMA UseKeeps ==
  ASSUME TypeOK, SessionTypeOK', SessionInv, now' = now, backs' = backs,
         logins' = logins, NEW s \in Live, used' = [used EXCEPT ![s] = now],
         logged_out \subseteq logged_out', Live \ Live' \subseteq logged_out'
  PROVE  UsedInThePast' /\ KeptForRoom'
<1>1. /\ logins \in Nat /\ s \in 1..MaxLogins /\ s \in 1..logins /\ now \in Nat
      /\ used \in [1..MaxLogins -> Times \cup {0}]
      /\ used'[s] = now
      /\ \A t \in 1..logins : t # s => used'[t] = used[t]
  BY SessionAssumption DEF Live, TypeOK, SessionTypeOK, ClockTypeOK, Times
<1>2. UsedInThePast'
  BY <1>1 DEF SessionInv, UsedInThePast
<1>3. KeptForRoom'
  <2> SUFFICES ASSUME backs = 0, NEW r \in 1..logins, r \notin Live',
                      r \notin logged_out'
               PROVE  Cardinality(UsedSince(r)') >= NumSessions
    BY DEF KeptForRoom
  <2>1. r \notin Live /\ r # s
    OBVIOUS
  <2>2. Cardinality(UsedSince(r)) >= NumSessions
    BY <2>1 DEF SessionInv, KeptForRoom
  <2>3. used'[r] = used[r] /\ now >= used[r]
    BY <2>1, <1>1 DEF SessionInv, UsedInThePast
  <2>4. UsedSince(r) \subseteq UsedSince(r)'
    BY <2>3, <1>1 DEF UsedSince
  <2> QED
    BY <2>2, <2>4, StillEnough DEF TypeOK
<1> QED
  BY <1>2, <1>3

LEMMA RequestKeeps ==
  ASSUME TypeOK, SessionTypeOK', SessionInv, NEW s \in 1..logins, Request(s),
         now' = now, backs' = backs
  PROVE  SessionInv'
<1>0. PICK i \in Slots :
        session_id[i] = s /\ last_used' = [last_used EXCEPT ![i] = now]
  BY DEF Request
<1>1. /\ session_id' = session_id /\ logins' = logins /\ logged_out' = logged_out
      /\ used' = [used EXCEPT ![s] = now]
      /\ last_used \in [Slots -> Times \cup {0}]
      /\ used \in [1..MaxLogins -> Times \cup {0}]
      /\ logins \in Nat /\ s \in 1..MaxLogins
      /\ session_id \in [Slots -> 0..MaxLogins]
  BY SessionAssumption DEF Request, TypeOK, SessionTypeOK
<1>2. s \in Live /\ Live' = Live
  BY <1>0, <1>1 DEF Live
<1>3. UsedInThePast' /\ KeptForRoom'
  BY <1>1, <1>2, UseKeeps
<1>4. ASSUME NEW j \in Slots, session_id[j] # Free
      PROVE  last_used'[j] = used'[session_id[j]]
  <2>1. CASE j = i
    BY <2>1, <1>0, <1>1
  <2>2. CASE j # i
    <3>1. session_id[j] # s /\ session_id[j] \in 1..MaxLogins
      BY <2>2, <1>0, <1>1, <1>4, SessionAssumption DEF SessionInv, SlotsAgree, Free
    <3> QED
      BY <2>2, <3>1, <1>0, <1>1, <1>4 DEF SessionInv, SlotsAgree
  <2> QED
    BY <2>1, <2>2
<1>5. SlotsAgree'
  BY <1>1, <1>4 DEF SessionInv, SlotsAgree
<1> QED
  BY <1>3, <1>5 DEF SessionInv

LEMMA LogoutKeeps ==
  ASSUME TypeOK, SessionTypeOK', SessionInv, NEW s \in 1..logins, Logout(s),
         now' = now, backs' = backs
  PROVE  SessionInv'
<1>0. PICK i \in Slots :
        /\ session_id[i] = s
        /\ session_id' = [session_id EXCEPT ![i] = Free]
        /\ last_used' = [last_used EXCEPT ![i] = 0]
  BY DEF Logout
<1>1. /\ logins' = logins /\ logged_out' = logged_out \cup {s}
      /\ used' = [used EXCEPT ![s] = now]
      /\ last_used \in [Slots -> Times \cup {0}]
      /\ used \in [1..MaxLogins -> Times \cup {0}]
      /\ logins \in Nat /\ s \in 1..MaxLogins
      /\ session_id \in [Slots -> 0..MaxLogins]
  BY SessionAssumption DEF Logout, TypeOK, SessionTypeOK
<1>2. s \in Live /\ Live \ Live' \subseteq {s}
  BY <1>0, <1>1 DEF Live
<1>3. UsedInThePast' /\ KeptForRoom'
  BY <1>1, <1>2, UseKeeps
<1>4. ASSUME NEW j \in Slots, session_id'[j] # Free
      PROVE  j # i /\ session_id'[j] = session_id[j]
  BY <1>0, <1>1, <1>4
<1>5. ASSUME NEW j \in Slots, session_id'[j] # Free
      PROVE  session_id[j] <= logins /\ last_used'[j] = used'[session_id[j]]
  <2>1. session_id[j] # s /\ session_id[j] \in 1..MaxLogins
    BY <1>0, <1>1, <1>4, <1>5, SessionAssumption DEF SessionInv, SlotsAgree, Free
  <2> QED
    BY <2>1, <1>0, <1>1, <1>4, <1>5 DEF SessionInv, SlotsAgree
<1>6. SlotsAgree'
  BY <1>1, <1>4, <1>5 DEF SessionInv, SlotsAgree
<1> QED
  BY <1>3, <1>6 DEF SessionInv

LEMMA SessionInvInductive ==
  ASSUME TypeOK, TypeOK', SessionInv, [Next]_vars
  PROVE  SessionInv'
<1>1. CASE ClockStep
  <2>1. UNCHANGED sessionVars /\ (backs' = 0 => backs = 0 /\ now' >= now)
    BY <1>1 DEF ClockStep, Tick, SetBack, TypeOK, ClockTypeOK, Times
  <2>2. \A s \in 1..logins : used[s] \in Int /\ now \in Int /\ now' \in Int
    BY SessionAssumption
       DEF TypeOK, ClockTypeOK, SessionTypeOK, Times
  <2>3. UsedInThePast'
    BY <2>1, <2>2 DEF SessionInv, UsedInThePast, sessionVars
  <2>4. SlotsAgree' /\ KeptForRoom'
    BY <2>1 DEF SessionInv, SlotsAgree, KeptForRoom, UsedSince, Live, sessionVars
  <2> QED
    BY <2>3, <2>4 DEF SessionInv
<1>2. CASE SessionStep
  BY <1>2, LoginKeeps, RequestKeeps, LogoutKeeps
     DEF SessionStep, SessionNext, TypeOK, clockVars
<1>3. CASE SnowflakeStep \/ UNCHANGED vars
  BY <1>3
     DEF SnowflakeStep, SessionInv, SlotsAgree, UsedInThePast, KeptForRoom,
         UsedSince, Live, sessionVars, clockVars, vars
<1> QED
  BY <1>1, <1>2, <1>3 DEF Next

LEMMA SessionInvHolds == Spec => []SessionInv
<1>1. Init => SessionInv
  BY DEF Init, SessionInit, SessionInv, SlotsAgree, UsedInThePast, KeptForRoom, Free
<1> QED
  BY <1>1, SessionInvInductive, Types, PTL DEF Spec

\* A session lasts until its logout, until it has expired or until as many others as
\* there are slots were used after it, whichever slots they got.
THEOREM SessionsAreKept == Spec => []SessionsLast
<1>1. SessionInv => SessionsLast
  BY DEF SessionInv, KeptForRoom, SessionsLast
<1> QED
  BY <1>1, SessionInvHolds, PTL

\* No session is in two slots, and each slot has the time its session was used last.
THEOREM SlotsAreTrue == Spec => []SlotsAgree
BY SessionInvHolds, PTL DEF SessionInv
=============================================================================
