----------------------------- MODULE ClockUsers -----------------------------
(***************************************************************************)
(* The two parts of the program that order things by the clock, side by    *)
(* side as the admin thread and the main loop run them: the sessions of    *)
(* the admin server and the ids of the packets the main loop sends.        *)
(***************************************************************************)
EXTENDS Sessions, Snowflake

vars == <<clockVars, sessionVars, snowflakeVars>>

Init == ClockInit /\ SessionInit /\ SnowflakeInit

ClockStep     == (Tick \/ SetBack) /\ UNCHANGED <<sessionVars, snowflakeVars>>
SessionStep   == SessionNext /\ UNCHANGED <<clockVars, snowflakeVars>>
SnowflakeStep == SnowflakeNext /\ UNCHANGED <<clockVars, sessionVars>>

Next == ClockStep \/ SessionStep \/ SnowflakeStep

\* Time goes on, and the thread that waits in snowflake_id reads the clock again and
\* again.  Nothing makes a browser log in or the clock go back.
Fairness ==
  /\ WF_vars(Tick /\ UNCHANGED <<sessionVars, snowflakeVars>>)
  /\ WF_vars(StopWaiting /\ UNCHANGED <<clockVars, sessionVars>>)

Spec == Init /\ [][Next]_vars

LiveSpec == Spec /\ Fairness

\* The types of all variables.
TypeOK == ClockTypeOK /\ SessionTypeOK /\ SnowflakeTypeOK
=============================================================================
