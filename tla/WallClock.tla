----------------------------- MODULE WallClock -----------------------------
(* The system's clock, which gettimeofday, time and mg_time read: it goes on, *)
(* and may be set back.                                                     *)
EXTENDS Integers

CONSTANTS
  MaxTime,   \* bound: the last instant of the clock
  MaxBack    \* bound: how often the clock is set back

ASSUME ClockAssumption == MaxTime \in Nat \ {0} /\ MaxBack \in Nat

VARIABLES
  now,     \* the time it shows
  backs    \* how often it was set back

clockVars == <<now, backs>>

Times == 1..MaxTime

ClockInit == now = 1 /\ backs = 0

Tick ==
  /\ now < MaxTime
  /\ now' = now + 1
  /\ UNCHANGED backs

SetBack ==
  /\ backs < MaxBack
  /\ \E t \in Times : t < now /\ now' = t
  /\ backs' = backs + 1

ClockTypeOK == now \in Times /\ backs \in Nat
=============================================================================
