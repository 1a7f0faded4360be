--------------------------- MODULE MCCronScheduler ---------------------------
(* Instances of CronScheduler for TLC: three jobs and a table of two slots. *)
EXTENDS CronScheduler, TLC

CONSTANTS a, b, c

\* A file that cannot be read, one that fills the table, one with a job that
\* never fires, one that does not fit.
SomeFiles == {<<>>, <<a, b>>, <<c, a>>, <<a, b, c>>}

OneFile == {<<a, b>>}

\* a fires every second; b at two instants, of which its timer skips the first; c
\* never, as a job whose expression did not parse.
FireTimes == a :> {2, 3, 4} \cap Clock @@ b :> {2, 3} \cap Clock @@ c :> {}

TimerAnswers ==
  a :> [t \in Clock |-> IF t < MaxTime THEN t + 1 ELSE Invalid]
  @@ b :> [t \in Clock |-> IF t < 3 THEN 3 ELSE Invalid]
  @@ c :> [t \in Clock |-> Invalid]

\* crontab_get_job_count counts from an uninitialised int.
StartAtZero == {0}
StartAnywhere == {-3, 0}
=============================================================================
