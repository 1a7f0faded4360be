---------------------------- MODULE MCClockUsers ----------------------------
(* The clock users with three logins for two slots.                        *)
EXTENDS ClockUsers
=============================================================================
