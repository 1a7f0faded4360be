----------------------------- MODULE Snowflake -----------------------------
(***************************************************************************)
(* common/snowflake.c: ids made of the millisecond and a sequence number.  *)
(* Region and worker are 0 in the program and are left out: an id is its   *)
(* two other fields, ordered as the bits are.                              *)
(***************************************************************************)
EXTENDS WallClock

CONSTANT MaxIds   \* bound: the number of ids made

ASSUME SnowflakeAssumption == MaxIds \in Nat

VARIABLES
  id_time,      \* state->time
  id_seq,       \* state->seq
  id_seq_max,   \* state->seq_max: 0 after snowflake_init, then the largest seq
  ids,          \* state->ids: the number of ids made
  id_waits,     \* the caller is in the loop that waits for the clock
  last_id       \* history: the id returned last

snowflakeVars == <<id_time, id_seq, id_seq_max, ids, id_waits, last_id>>

NoId == <<0, 0>>

\* a < b as numbers.
Below(a, b) == a[1] < b[1] \/ (a[1] = b[1] /\ a[2] < b[2])

-----------------------------------------------------------------------------
SnowflakeInit ==
  /\ id_time = 0
  /\ id_seq = 0
  /\ id_seq_max = 0
  /\ ids = 0
  /\ id_waits = FALSE
  /\ last_id = NoId

\* Only the sequence number is tested.
MustWait_Bug == id_seq > id_seq_max

\* The sequence has overflowed, or the clock was set back.  seq_max follows seq, so
\* the first never holds.
MustWait == id_seq > id_seq_max \/ id_time > now

\* The sequence number is used and not counted.
NextId_Bug ==
  /\ id_time' = now
  /\ id_seq' = 0
  /\ id_seq_max' = id_seq_max
  /\ ids' = ids + 1
  /\ id_waits' = FALSE
  /\ last_id' = <<now, 0>>

\* The sequence number is counted twice.
NextId_Twice ==
  /\ id_time' = now
  /\ id_seq' = id_seq + 2
  /\ id_seq_max' = id_seq_max
  /\ ids' = ids + 1
  /\ id_waits' = FALSE
  /\ last_id' = <<now, id_seq + 1>>

\* The rest of snowflake_id, once the clock is not behind.
NextId ==
  LET seq == IF id_time < now THEN 0 ELSE id_seq
  IN  /\ id_time' = IF id_time < now THEN now ELSE id_time
      /\ id_seq' = seq + 1
      /\ id_seq_max' = IF id_seq_max < seq + 1 THEN seq + 1 ELSE id_seq_max
      /\ ids' = ids + 1
      /\ id_waits' = FALSE
      /\ last_id' = <<now, seq>>

\* snowflake_id is called, and returns or begins to wait.  MaxTime bounds the calls too:
\* one begins only while the clock can still pass the millisecond of the last id.
CallId ==
  /\ ~id_waits
  /\ now < MaxTime /\ id_time < MaxTime
  /\ ids < MaxIds
  /\ \/ ~MustWait /\ NextId
     \/ /\ MustWait
        /\ id_waits' = TRUE
        /\ UNCHANGED <<id_time, id_seq, id_seq_max, ids, last_id>>

\* The loop looks for the very next millisecond, which it can miss.
StopWaiting_Bug ==
  /\ id_waits
  /\ now = id_time + 1
  /\ NextId

\* The loop ends when the clock has passed the last id's millisecond.
StopWaiting ==
  /\ id_waits
  /\ id_time < now
  /\ NextId

SnowflakeNext == CallId \/ StopWaiting

-----------------------------------------------------------------------------
(* Properties.                                                             *)

\* The types of the state of the id generator.
SnowflakeTypeOK ==
  /\ id_time \in Times \cup {0}
  /\ ids \in 0..MaxIds
  /\ id_seq \in 0..ids
  /\ id_seq_max \in 0..ids
  /\ id_waits \in BOOLEAN
  /\ id_waits => ids < MaxIds
  /\ last_id \in (Times \cup {0}) \X (0..ids)

\* Every id is larger than all before it, also when the clock is set back between
\* two calls or while one waits: no id is given twice.
IdsIncrease == [][ids' # ids => Below(last_id, last_id')]_snowflakeVars

\* A call that waits for the clock returns, however often the clock is set back while
\* it waits, once nobody does so any more.
CallReturns == id_waits ~> ~id_waits
=============================================================================
