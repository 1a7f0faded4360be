---------------------------- MODULE DaemonProofs ----------------------------
(***************************************************************************)
(* Theorems about the ways -e and -c to call the program, for every set of *)
(* scripts, of interfaces and of threads that load them.                   *)
(***************************************************************************)
EXTENDS Daemon, TLAPS

AllIdle == \A s \in Scripts : script[s] = "idle"

\* What is true of the threads when there is no server: the main thread opens the
\* database before anything runs and closes it when nothing does.
AloneInv ==
  mode # "server" =>
    /\ admin_pc = "off"
    /\ main_pc \in {"start", "wait", "return"}
    /\ main_pc = "start" => cron_pc = "off" /\ AllIdle
    /\ main_pc = "wait" => db = IF has_db THEN "open" ELSE "null"
    /\ main_pc = "return" => AllIdle /\ cron_pc \in {"off", "ended"}
    /\ mode = "script" => cron_pc = "off"
    /\ cron_pc \in {"start", "load", "free", "ended"} => AllIdle
    /\ exited /\ ~lost_script => \A s \in Scripts : script[s] \in {"idle", "queued"}

DInv == TypeOK /\ AloneInv

-----------------------------------------------------------------------------
LEMMA InitDInv == Init => DInv
<1> SUFFICES ASSUME Init PROVE DInv
  OBVIOUS
<1>1. PICK c \in Calls : mode = c[1] /\ has_db = c[2] /\ admin_on = c[3] /\ cron_on = c[4]
  BY DEF Init
<1>2. c[1] \in Modes /\ c[2] \in BOOLEAN /\ c[3] \in BOOLEAN /\ c[4] \in BOOLEAN
  BY CallAssumption
<1>3. TypeOK
  BY <1>1, <1>2 DEF Init, TypeOK
<1> QED
  BY <1>3 DEF Init, DInv, AloneInv, AllIdle

LEMMA MainKeeps ==
  ASSUME DInv, ~exited, Main PROVE DInv'
<1>1. CASE OpenDb
  <2>1. TypeOK'
    <3>1. UNCHANGED <<mode, has_db, admin_on, cron_on, signal, admin_pc, nic_pc, lost_script>>
      BY <1>1 DEF OpenDb, confVars
    <3>2. db' \in {"null", "open", "closed"} /\ (db' # "null" => has_db)
      BY <1>1 DEF OpenDb, DInv, TypeOK
    <3>3. script' \in [Scripts -> {"idle", "queued", "query", "rates"}]
      BY <1>1 DEF OpenDb, DInv, TypeOK
    <3>4. /\ exited' \in BOOLEAN
          /\ main_pc' \in {"start", "wait", "join", "loop", "return"}
          /\ cron_pc' \in {"off", "start", "load", "loop", "update", "free", "ended"}
      BY <1>1 DEF OpenDb, DInv, TypeOK, Exit
    <3> QED
      BY <3>1, <3>2, <3>3, <3>4 DEF DInv, TypeOK
  <2>2. AloneInv'
    BY <1>1 DEF OpenDb, DInv, TypeOK, AloneInv, AllIdle, Exit, confVars
  <2> QED
    BY <2>1, <2>2 DEF DInv
<1>2. CASE CloseDb
  BY <1>2
     DEF CloseDb, DInv, TypeOK, AloneInv, AllIdle, Idle, confVars, scriptVars, Modes
<1>3. CASE StartThreads
  BY <1>3 DEF StartThreads, DInv, TypeOK, AloneInv, AllIdle, confVars, scriptVars
<1>4. CASE StartNics
  BY <1>4 DEF StartNics, DInv, TypeOK, AloneInv, AllIdle, confVars, scriptVars
<1>5. CASE Return
  BY <1>5
     DEF Return, DInv, TypeOK, AloneInv, AllIdle, Exit, confVars, scriptVars, threadVars
<1> QED
  BY <1>1, <1>2, <1>3, <1>4, <1>5 DEF Main

LEMMA AdminKeeps ==
  ASSUME DInv, ~exited, Admin PROVE DInv'
<1>1. mode = "server"
  BY DEF DInv, AloneInv, Admin, AdminStart, AdminStop
<1>2. mode' = "server"
  BY <1>1 DEF Admin, AdminStart, AdminStop, confVars
<1>3. TypeOK'
  <2>1. UNCHANGED <<confVars, scriptVars, signal, main_pc, cron_pc, nic_pc>>
    BY DEF Admin, AdminStart, AdminStop
  <2>2. db' \in {"null", "open", "closed"} /\ (db' # "null" => has_db)
    BY DEF Admin, AdminStart, AdminStop, DInv, TypeOK
  <2>3. admin_pc' \in {"off", "start", "serve", "ended"} /\ exited' \in BOOLEAN
    BY DEF Admin, AdminStart, AdminStop, DInv, TypeOK, Exit
  <2> QED
    BY <2>1, <2>2, <2>3 DEF DInv, TypeOK, confVars, scriptVars
<1> QED
  BY <1>2, <1>3 DEF DInv, AloneInv

LEMMA CronKeeps ==
  ASSUME DInv, ~exited, CronThread PROVE DInv'
<1> USE DEF DInv, TypeOK, AloneInv, AllIdle, confVars, scriptVars
<1>1. CASE CronStart
  BY <1>1 DEF CronStart
<1>2. CASE CronPool
  BY <1>2 DEF CronPool
<1>3. CASE CronWake
  BY <1>3 DEF CronWake
<1>4. CASE CronIterate
  BY <1>4 DEF CronIterate
<1>5. CASE CronDrain
  BY <1>5 DEF CronDrain
<1>6. CASE CronFree
  <2>1. exited' \in BOOLEAN /\ UNCHANGED <<confVars, scriptVars, signal, db, main_pc>>
    BY <1>6 DEF CronFree, Exit
  <2>2. cron_pc = "free" /\ cron_pc' \in {"free", "ended"} /\ UNCHANGED <<admin_pc, nic_pc>>
    BY <1>6 DEF CronFree
  <2>3. TypeOK'
    BY <2>1, <2>2
  <2>4. AloneInv'
    BY <2>1, <2>2
  <2> QED
    BY <2>3, <2>4
<1> QED
  BY <1>1, <1>2, <1>3, <1>4, <1>5, <1>6 DEF CronThread

LEMMA ScriptKeeps ==
  ASSUME DInv, ~exited, NEW s \in Scripts, Script(s) PROVE DInv'
<1>1. script[s] # "idle"
  BY DEF Script, ScriptStart, ScriptRates, ScriptEnd
<1> USE DEF DInv, TypeOK, AloneInv, AllIdle, confVars, threadVars
<1>2. CASE ScriptStart(s)
  <2>1. UNCHANGED <<confVars, threadVars, signal, db>>
    BY <1>2 DEF ScriptStart
  <2>2. CASE script' = [script EXCEPT ![s] = "query"] /\ UNCHANGED <<exited, lost_script>>
    BY <1>1, <2>1, <2>2
  <2>3. CASE exited' = TRUE /\ lost_script' = TRUE /\ UNCHANGED script
    <3>1. TypeOK'
      BY <2>1, <2>3
    <3>2. AloneInv'
      BY <2>1, <2>3
    <3> QED
      BY <3>1, <3>2
  <2> QED
    BY <1>2, <2>2, <2>3 DEF ScriptStart, Exit
<1>3. CASE ScriptRates(s)
  BY <1>1, <1>3 DEF ScriptRates
<1>4. CASE ScriptEnd(s)
  BY <1>1, <1>4 DEF ScriptEnd
<1> QED
  BY <1>2, <1>3, <1>4 DEF Script

\* Steps that touch neither the scripts, the database nor the threads that use them.
LEMMA OtherKeeps ==
  ASSUME DInv, UNCHANGED <<confVars, scriptVars, db, exited, main_pc, admin_pc, cron_pc>>,
         signal' \in BOOLEAN,
         nic_pc' \in {"off", "load", "loop", "update", "ended"}
  PROVE  DInv'
BY DEF DInv, TypeOK, AloneInv, AllIdle, confVars, scriptVars

LEMMA NextDInv == DInv /\ [Next]_vars => DInv'
<1> SUFFICES ASSUME DInv, [Next]_vars PROVE DInv'
  OBVIOUS
<1>1. CASE ~exited /\ Signal
  BY <1>1, OtherKeeps DEF Signal, DInv, TypeOK, threadVars
<1>2. CASE ~exited /\ Main
  BY <1>2, MainKeeps
<1>3. CASE ~exited /\ Admin
  BY <1>3, AdminKeeps
<1>4. CASE ~exited /\ CronThread
  BY <1>4, CronKeeps
<1>5. CASE ~exited /\ NicThread
  BY <1>5, OtherKeeps DEF NicThread, NicWake, NicSleep, DInv, TypeOK
<1>6. CASE ~exited /\ \E t \in Loaders : NicStep(t)
  BY <1>6, OtherKeeps DEF NicStep, DInv, TypeOK, threadVars
<1>7. CASE ~exited /\ \E s \in Scripts : Script(s)
  BY <1>7, ScriptKeeps
<1>8. CASE UNCHANGED vars
  BY <1>8, OtherKeeps DEF vars, DInv, TypeOK, threadVars
<1> QED
  BY <1>1, <1>2, <1>3, <1>4, <1>5, <1>6, <1>7, <1>8 DEF Next

LEMMA DInvHolds == Spec => []DInv
BY InitDInv, NextDInv, PTL DEF Spec

-----------------------------------------------------------------------------
\* The variables of the process keep their types.
THEOREM DaemonTypes == Spec => []TypeOK
BY DInvHolds, PTL DEF DInv

\* With -e and -c no script finds the database closed.
THEOREM ScriptsFindTheDb == Spec => []UsesOpenDb
<1>1. DInv => UsesOpenDb
  BY DEF DInv, AloneInv, AllIdle, UsesOpenDb
<1> QED
  BY <1>1, DInvHolds, PTL

\* With -e and -c the end of the process cuts no script off.
THEOREM ScriptsRunToTheEnd == Spec => []NothingCutOff
<1>1. DInv => NothingCutOff
  BY DEF DInv, AloneInv, NothingCutOff
<1> QED
  BY <1>1, DInvHolds, PTL
=============================================================================
