------------------------------ MODULE MCDaemon ------------------------------
(* The process with a script and two interfaces whose hashes collide.  The  *)
(* database is opened by the main thread or by the admin thread only.       *)
EXTENDS Daemon

TwoNics   == <<"eth0", "eth1">>
Colliding == [n \in {"eth0", "eth1"} |-> 7]

SevenCalls == {
  <<"script", TRUE, FALSE, FALSE>>,
  <<"script", FALSE, FALSE, FALSE>>,
  <<"crontab", TRUE, FALSE, FALSE>>,
  <<"crontab", FALSE, FALSE, FALSE>>,
  <<"server", TRUE, TRUE, FALSE>>,
  <<"server", FALSE, TRUE, FALSE>>,
  <<"server", FALSE, FALSE, TRUE>> }
=============================================================================
