------------------------------ MODULE Sessions ------------------------------
(***************************************************************************)
(* The sessions of the admin server, main.c: a table of slots with the     *)
(* session that was used last longest ago making room for a new one.       *)
(*                                                                         *)
(* The ids, digests in the code, are numbered in the order of the logins.  *)
(* check_sessions, which would end idle sessions, has no caller and is no  *)
(* action.                                                                 *)
(***************************************************************************)
EXTENDS WallClock, FiniteSets

CONSTANTS
  NumSessions,   \* NUM_SESSIONS
  SessionTtl,    \* SESSION_TTL
  MaxLogins      \* bound: the number of logins

ASSUME SessionAssumption ==
  NumSessions \in Nat \ {0} /\ SessionTtl \in Nat /\ MaxLogins \in Nat

Slots == 1..NumSessions
Free  == 0                 \* the id of a free slot

VARIABLES
  session_id,   \* s_sessions[i].id
  last_used,    \* s_sessions[i].last_used
  logins,       \* history: the number of logins
  used,         \* history: when each session was made or last found
  logged_out    \* history: the sessions that were logged out

sessionVars == <<session_id, last_used, logins, used, logged_out>>

-----------------------------------------------------------------------------
SessionInit ==
  /\ session_id = [i \in Slots |-> Free]
  /\ last_used = [i \in Slots |-> 0]
  /\ logins = 0
  /\ used = [s \in 1..MaxLogins |-> 0]
  /\ logged_out = {}

\* The oldest slot by the time of its login.
Room_Bug(i) ==
  IF \E j \in Slots : session_id[j] = Free
    THEN session_id[i] = Free /\ \A j \in Slots : session_id[j] = Free => i <= j
    ELSE \A j \in Slots : session_id[i] < session_id[j] \/ i = j

\* create_session's loop: the first free slot or, when there is none, the first of
\* those that were used longest ago.
Room(i) ==
  IF \E j \in Slots : session_id[j] = Free
    THEN session_id[i] = Free /\ \A j \in Slots : session_id[j] = Free => i <= j
    ELSE \A j \in Slots :
           last_used[i] < last_used[j] \/ (last_used[i] = last_used[j] /\ i <= j)

\* login_handler with create_session; destroy_session empties the slot it takes.
Login ==
  /\ logins < MaxLogins
  /\ logins' = logins + 1
  /\ \E i \in Slots :
       /\ Room(i)
       /\ session_id' = [session_id EXCEPT ![i] = logins']
       /\ last_used' = [last_used EXCEPT ![i] = now]
  /\ used' = [used EXCEPT ![logins'] = now]
  /\ UNCHANGED logged_out

\* The session is found, and not touched.
Request_Bug(s) ==
  /\ \E i \in Slots : session_id[i] = s
  /\ used' = [used EXCEPT ![s] = now]
  /\ UNCHANGED <<session_id, last_used, logins, logged_out>>

\* get_session for a cookie with the id of a session; for one that has ended it
\* finds nothing and changes nothing.
Request(s) ==
  /\ \E i \in Slots :
       /\ session_id[i] = s
       /\ last_used' = [last_used EXCEPT ![i] = now]
  /\ used' = [used EXCEPT ![s] = now]
  /\ UNCHANGED <<session_id, logins, logged_out>>

\* logout_handler: get_session, then destroy_session.
Logout(s) ==
  /\ \E i \in Slots :
       /\ session_id[i] = s
       /\ session_id' = [session_id EXCEPT ![i] = Free]
       /\ last_used' = [last_used EXCEPT ![i] = 0]
  /\ used' = [used EXCEPT ![s] = now]
  /\ logged_out' = logged_out \cup {s}
  /\ UNCHANGED logins

SessionNext == Login \/ \E s \in 1..logins : Request(s) \/ Logout(s)

-----------------------------------------------------------------------------
(* Properties.                                                             *)

\* The types of the table and of its history.
SessionTypeOK ==
  /\ session_id \in [Slots -> 0..MaxLogins]
  /\ last_used \in [Slots -> Times \cup {0}]
  /\ logins \in 0..MaxLogins
  /\ used \in [1..MaxLogins -> Times \cup {0}]
  /\ logged_out \subseteq 1..logins

\* The sessions a cookie finds.
Live == {s \in 1..logins : \E i \in Slots : session_id[i] = s}

\* The other sessions used at or after the last use of this one.
UsedSince(s) == {t \in 1..logins : t # s /\ used[t] >= used[s]}

\* It has not been used for longer than a session should last unused.
Expired(s) == now > used[s] + SessionTtl

\* A session lasts until it is logged out, has been idle for SESSION_TTL, or as many
\* others as there are slots have been used since it was: nobody is logged out early
\* because of who else came and went, or of the slot they got.  A clock that is set back
\* may evict any session.
SessionsLast ==
  backs = 0 =>
    \A s \in 1..logins :
      \/ s \in Live \/ s \in logged_out
      \/ Expired(s)
      \/ Cardinality(UsedSince(s)) >= NumSessions

\* No two slots have one session, and the table remembers when each was used.
SlotsAgree ==
  /\ \A i, j \in Slots : session_id[i] = session_id[j] /\ session_id[i] # Free => i = j
  /\ \A i \in Slots : session_id[i] # Free =>
       session_id[i] <= logins /\ last_used[i] = used[session_id[i]]

Idle(s) == s \in Live /\ Expired(s)

\* What is documented.  main.c: "sessions are destroyed after 30 seconds of inactivity".
IdleSessionsEnd == \A s \in 1..MaxLogins : Idle(s) ~> ~Idle(s)
=============================================================================
