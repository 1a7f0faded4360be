------------------------------- MODULE Daemon -------------------------------
(***************************************************************************)
(* The life of a greenleaf process, main.c: what main starts for each way  *)
(* to call it, which thread opens and closes the database, and how a       *)
(* signal ends it.                                                         *)
(*                                                                         *)
(* With -e the main thread runs a script, with -c the crontab service, and *)
(* with a configuration file the main loop, beside which an admin thread,  *)
(* a crontab thread and an interface thread may run.  CronScheduler has    *)
(* the crontab service in detail; here an iteration hands in any scripts.  *)
(***************************************************************************)
EXTENDS NicMonitor

CONSTANTS
  Scripts,   \* the scripts
  Calls      \* the ways the program is called: <<mode, has_db, admin_on, cron_on>>

Modes == {"script", "crontab", "server"}

ASSUME CallAssumption ==
  /\ Calls \subseteq Modes \X BOOLEAN \X BOOLEAN \X BOOLEAN
  /\ \A c \in Calls : c[1] # "server" => ~c[3] /\ ~c[4]

\* The crontab thread and the interface thread.
ASSUME LoaderAssumption == Loaders = {"nic", "cron"}

VARIABLES
  mode,      \* how the program was called
  has_db,    \* a database was named: sqlite_path, or the storage of the configuration
  admin_on, cron_on,   \* the configuration enables the admin server, the crontab
  signal,    \* s_context.signal # 0
  db,        \* s_context.sqlite: "null", "open" or "closed", still pointing there
  exited,    \* the process has ended
  main_pc, admin_pc, cron_pc, nic_pc,   \* the threads
  script,    \* where each script is
  lost_script   \* history: a script's file could not be read

confVars   == <<mode, has_db, admin_on, cron_on>>
threadVars == <<main_pc, admin_pc, cron_pc, nic_pc>>
scriptVars == <<script, lost_script>>
vars == <<confVars, threadVars, scriptVars, signal, db, exited, nicVars>>

Idle == {s \in Scripts : script[s] = "idle"}

-----------------------------------------------------------------------------
Init ==
  /\ \E c \in Calls :
       mode = c[1] /\ has_db = c[2] /\ admin_on = c[3] /\ cron_on = c[4]
  /\ signal = FALSE
  /\ db = "null"
  /\ exited = FALSE
  /\ main_pc = "start"
  /\ admin_pc = "off" /\ cron_pc = "off" /\ nic_pc = "off"
  /\ script = [s \in Scripts |-> "idle"]
  /\ lost_script = FALSE
  /\ NicInit

\* signal_handler, on any thread.
Signal ==
  /\ ~signal
  /\ signal' = TRUE
  /\ UNCHANGED <<confVars, threadVars, scriptVars, db, exited, nicVars>>

\* exit or the return of main: the other threads end where they are.
Exit == exited' = TRUE

-----------------------------------------------------------------------------
(* The main thread.                                                        *)

\* execute_script and execute_crontab begin by opening the database.
OpenDb ==
  /\ main_pc = "start" /\ mode # "server"
  /\ \/ /\ has_db                     \* it cannot be opened
        /\ Exit
        /\ UNCHANGED <<db, main_pc, cron_pc, script>>
     \/ /\ db' = IF has_db THEN "open" ELSE "null"
        /\ IF mode = "script"
             THEN /\ \E s \in Scripts : script' = [script EXCEPT ![s] = "queued"]
                  /\ UNCHANGED cron_pc
             ELSE cron_pc' = "start" /\ UNCHANGED script
        /\ main_pc' = "wait"
        /\ UNCHANGED exited
  /\ UNCHANGED <<confVars, signal, admin_pc, nic_pc, lost_script, nicVars>>

\* The database is closed as soon as a signal has come.
CloseDb_Bug ==
  /\ main_pc = "wait"
  /\ signal \/ IF mode = "script" THEN Idle = Scripts ELSE cron_pc = "ended"
  /\ db' = IF db = "null" THEN "null" ELSE "closed"
  /\ main_pc' = "return"
  /\ UNCHANGED <<confVars, scriptVars, signal, admin_pc, cron_pc, nic_pc, exited, nicVars>>

\* js_execute_script, or crontab_thread_proc, which -c calls on the main thread, has
\* returned: the database is closed.
CloseDb ==
  /\ main_pc = "wait"
  /\ IF mode = "script" THEN Idle = Scripts ELSE cron_pc = "ended"
  /\ db' = IF db = "null" THEN "null" ELSE "closed"
  /\ main_pc' = "return"
  /\ UNCHANGED <<confVars, scriptVars, signal, admin_pc, cron_pc, nic_pc, exited, nicVars>>

\* main starts the admin thread, and start_main_loop the crontab thread.
StartThreads ==
  /\ main_pc = "start" /\ mode = "server"
  /\ admin_pc' = IF admin_on THEN "start" ELSE "off"
  /\ cron_pc' = IF cron_on THEN "start" ELSE "off"
  /\ main_pc' = "join"
  /\ UNCHANGED <<confVars, scriptVars, signal, db, nic_pc, exited, nicVars>>

\* The groups are joined, whether that fails or not, and the interface thread starts.
StartNics ==
  /\ main_pc = "join"
  /\ nic_pc' = "load"
  /\ BeginLoad("nic")
  /\ main_pc' = "loop"
  /\ UNCHANGED <<confVars, scriptVars, signal, db, admin_pc, cron_pc, exited,
                 nic_map, maps, updateVars>>

\* The crontab thread is waited for, also when there is none.
Return_Bug ==
  /\ main_pc = "return" \/ (main_pc = "loop" /\ signal /\ cron_pc = "ended")
  /\ Exit
  /\ UNCHANGED <<confVars, threadVars, scriptVars, signal, db, nicVars>>

\* The main loop sees the signal and frees its connections, or the database is closed:
\* main returns.
Return ==
  /\ main_pc = "return" \/ (main_pc = "loop" /\ signal)
  /\ Exit
  /\ UNCHANGED <<confVars, threadVars, scriptVars, signal, db, nicVars>>

Main == OpenDb \/ CloseDb \/ StartThreads \/ StartNics \/ Return

-----------------------------------------------------------------------------
(* start_admin_process.                                                    *)

\* It opens the database whether one is configured or not.
AdminStart_Bug ==
  /\ admin_pc = "start"
  /\ \/ Exit /\ UNCHANGED <<db, admin_pc>>
     \/ /\ db' = "open"
        /\ admin_pc' = "serve"
        /\ UNCHANGED exited
  /\ UNCHANGED <<confVars, scriptVars, signal, main_pc, cron_pc, nic_pc, nicVars>>

\* It binds its address and opens the database; the process ends when it cannot.
AdminStart ==
  /\ admin_pc = "start"
  /\ \/ Exit /\ UNCHANGED <<db, admin_pc>>
     \/ /\ db' = IF has_db THEN "open" ELSE db
        /\ admin_pc' = "serve"
        /\ UNCHANGED exited
  /\ UNCHANGED <<confVars, scriptVars, signal, main_pc, cron_pc, nic_pc, nicVars>>

\* After a signal it closes the database, whoever uses it; sqlite3_close leaves one open
\* that has a statement.
AdminStop ==
  /\ admin_pc = "serve" /\ signal
  /\ db' = IF db = "open" /\ ~\E s \in Scripts : script[s] = "query" THEN "closed" ELSE db
  /\ admin_pc' = "ended"
  /\ UNCHANGED <<confVars, scriptVars, signal, main_pc, cron_pc, nic_pc, exited, nicVars>>

-----------------------------------------------------------------------------
(* crontab_thread_proc.                                                    *)

\* The table is loaded, or cannot be.
CronStart ==
  /\ cron_pc = "start"
  /\ \/ cron_pc' = "free" /\ UNCHANGED load
     \/ cron_pc' = "load" /\ BeginLoad("cron")
  /\ UNCHANGED <<confVars, scriptVars, signal, db, main_pc, admin_pc, nic_pc, exited,
                 nic_map, maps, updateVars>>

\* The pool is started.
CronPool ==
  /\ cron_pc = "load" /\ load["cron"].pc = "done"
  /\ cron_pc' = "loop"
  /\ UNCHANGED <<confVars, scriptVars, signal, db, main_pc, admin_pc, nic_pc, exited,
                 nicVars>>

\* A second has passed, and the rates are updated first ...
CronWake ==
  /\ cron_pc = "loop" /\ ~signal
  /\ cron_pc' = "update"
  /\ BeginUpdate("cron")
  /\ UNCHANGED <<confVars, scriptVars, signal, db, main_pc, admin_pc, nic_pc, exited,
                 loadVars>>

\* ... then the scripts that are due are handed to the pool.
CronIterate ==
  /\ cron_pc = "update" /\ update["cron"].pc = "done"
  /\ \E S \in SUBSET Idle :
       script' = [s \in Scripts |-> IF s \in S THEN "queued" ELSE script[s]]
  /\ cron_pc' = "loop"
  /\ UNCHANGED <<confVars, lost_script, signal, db, main_pc, admin_pc,
                 nic_pc, exited, nicVars>>

\* The running scripts are not waited for.
CronDrain_Bug ==
  /\ cron_pc = "loop" /\ signal
  /\ script' = [s \in Scripts |-> IF script[s] = "queued" THEN "idle" ELSE script[s]]
  /\ cron_pc' = "free"
  /\ UNCHANGED <<confVars, lost_script, signal, db, main_pc, admin_pc,
                 nic_pc, exited, nicVars>>

\* thpool_destroy returns when no script runs; it drops those that wait.
CronDrain ==
  /\ cron_pc = "loop" /\ signal
  /\ \A s \in Scripts : script[s] \in {"idle", "queued"}
  /\ script' = [s \in Scripts |-> "idle"]
  /\ cron_pc' = "free"
  /\ UNCHANGED <<confVars, lost_script, signal, db, main_pc, admin_pc,
                 nic_pc, exited, nicVars>>

\* crontab_free frees addresses inside the table: the allocator may end the process.
CronFree ==
  /\ cron_pc = "free"
  /\ \/ cron_pc' = "ended" /\ UNCHANGED exited
     \/ Exit /\ UNCHANGED cron_pc
  /\ UNCHANGED <<confVars, scriptVars, signal, db, main_pc, admin_pc, nic_pc, nicVars>>

CronThread ==
  CronStart \/ CronPool \/ CronWake \/ CronIterate \/ CronDrain \/ CronFree

-----------------------------------------------------------------------------
(* thread_fn_update_physical_network_interface_io_rate.                    *)

NicWake ==
  /\ nic_pc \in {"load", "loop"} /\ load["nic"].pc = "done"
  /\ IF signal
       THEN nic_pc' = "ended" /\ UNCHANGED <<update, updates>>
       ELSE nic_pc' = "update" /\ BeginUpdate("nic")
  /\ UNCHANGED <<confVars, scriptVars, signal, db, main_pc, admin_pc, cron_pc, exited,
                 loadVars, n0, n1, n2, rate, taken, updaters>>

NicSleep ==
  /\ nic_pc = "update" /\ update["nic"].pc = "done"
  /\ nic_pc' = "loop"
  /\ UNCHANGED <<confVars, scriptVars, signal, db, main_pc, admin_pc, cron_pc, exited,
                 nicVars>>

\* The steps of a load or an update, of either thread.
NicStep(t) ==
  /\ Load(t) \/ UpdateStep(t)
  /\ UNCHANGED <<confVars, threadVars, scriptVars, signal, db, exited>>

-----------------------------------------------------------------------------
(* js_execute_script.                                                      *)

\* eval_file ends the process when the file cannot be read.
ScriptStart(s) ==
  /\ script[s] = "queued"
  /\ \/ script' = [script EXCEPT ![s] = "query"] /\ UNCHANGED <<exited, lost_script>>
     \/ Exit /\ lost_script' = TRUE /\ UNCHANGED script
  /\ UNCHANGED <<confVars, threadVars, signal, db, nicVars>>

\* It has used the database and reads the rates.
ScriptRates(s) ==
  /\ script[s] = "query"
  /\ script' = [script EXCEPT ![s] = "rates"]
  /\ UNCHANGED <<confVars, threadVars, signal, db, exited, lost_script, nicVars>>

ScriptEnd(s) ==
  /\ script[s] = "rates"
  /\ script' = [script EXCEPT ![s] = "idle"]
  /\ UNCHANGED <<confVars, threadVars, signal, db, exited, lost_script,
                 nicVars>>

Script(s) == ScriptStart(s) \/ ScriptRates(s) \/ ScriptEnd(s)

-----------------------------------------------------------------------------
Admin == AdminStart \/ AdminStop
NicThread == NicWake \/ NicSleep

Next ==
  /\ ~exited
  /\ \/ Signal \/ Main \/ Admin \/ CronThread \/ NicThread
     \/ \E t \in Loaders : NicStep(t)
     \/ \E s \in Scripts : Script(s)

\* Every thread goes on, and scripts end: thpool_destroy waits for one that does not
\* as long as it runs.  No signal has to come.
Fairness ==
  /\ WF_vars(~exited /\ Main)
  /\ WF_vars(~exited /\ CronThread)
  /\ \A t \in Loaders : WF_vars(~exited /\ NicStep(t))
  /\ \A s \in Scripts : WF_vars(~exited /\ Script(s))

Spec == Init /\ [][Next]_vars /\ Fairness

-----------------------------------------------------------------------------
(* Properties.                                                             *)

\* The types of the variables of this module; a database that is open was named.
TypeOK ==
  /\ mode \in Modes /\ has_db \in BOOLEAN /\ admin_on \in BOOLEAN /\ cron_on \in BOOLEAN
  /\ signal \in BOOLEAN /\ exited \in BOOLEAN
  /\ db \in {"null", "open", "closed"} /\ (db # "null" => has_db)
  /\ main_pc \in {"start", "wait", "join", "loop", "return"}
  /\ admin_pc \in {"off", "start", "serve", "ended"}
  /\ cron_pc \in {"off", "start", "load", "loop", "update", "free", "ended"}
  /\ nic_pc \in {"off", "load", "loop", "update", "ended"}
  /\ script \in [Scripts -> {"idle", "queued", "query", "rates"}]
  /\ lost_script \in BOOLEAN

\* With -e and -c a script that uses the database has it open: the pool is drained, or
\* the script has returned, before the main thread closes it.
UsesOpenDb ==
  mode # "server" /\ has_db => \A s \in Scripts : script[s] = "query" => db = "open"

\* With -e and -c the process does not end while a script runs, unless the file of
\* another script could not be read.
NothingCutOff ==
  exited /\ mode # "server" /\ ~lost_script =>
    \A s \in Scripts : script[s] \in {"idle", "queued"}

\* A signal ends the crontab service and the server, and a script its own process.
Ends == (signal \/ mode = "script") ~> exited
=============================================================================
