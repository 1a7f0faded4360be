--------------------------- MODULE NodeDiscovery ---------------------------
(***************************************************************************)
(* How the nodes of a multicast group find each other: main.c sends an     *)
(* online packet when it starts and heartbeats after that, and lists every *)
(* address it receives one from.  The network loses, duplicates and        *)
(* reorders packets; nodes crash and start again as a new instance.        *)
(*                                                                         *)
(* An address is that of the group's port on a node, so a node stands for  *)
(* its address.  Acks are left out: node_receive_ack only logs them.       *)
(***************************************************************************)
EXTENDS Integers, Sequences, FiniteSets

CONSTANTS
  Nodes,
  Admins,        \* per node: the addresses its admin server may be bound to
  NoAdmin,       \* the admin string of a node that sent none: ""
  MaxStarts,     \* bound: how often each node starts
  MaxInFlight    \* bound: the packets the network holds

ASSUME NodeAssumption ==
  /\ IsFiniteSet(Nodes)
  /\ \A n \in Nodes : NoAdmin \notin Admins[n]
  /\ MaxStarts \in [Nodes -> Nat]
  /\ MaxInFlight \in Nat

\* s_context.instance_id: one for each start of a node.
Iids == UNION {1..MaxStarts[n] : n \in Nodes}

AdminStrings == (UNION {Admins[n] : n \in Nodes}) \cup {NoAdmin}

\* What a receiver reads of an online or heartbeat packet.
Contents == [from : Nodes, iid : Iids, admin : AdminStrings]

\* A packet on its way to one node.
Packets == [content : Contents, to : Nodes]

VARIABLES
  up,         \* the nodes that run
  iid,        \* per node: its instance id, 0 before it first starts
  admin,      \* per node: conf_file_options.admin, NoAdmin when disabled
  sender,     \* the nodes whose multicast_context.sender is open
  node_list,  \* per node: node_list
  net,        \* the packets in flight
  sent        \* history: what was ever sent

vars == <<up, iid, admin, sender, node_list, net, sent>>

-----------------------------------------------------------------------------
\* The entry a packet becomes.
Entry(c) == [listen |-> c.from, instance_id |-> c.iid, admin |-> c.admin]

Init ==
  /\ up = {}
  /\ iid = [n \in Nodes |-> 0]
  /\ admin = [n \in Nodes |-> NoAdmin]
  /\ sender = {}
  /\ node_list = [n \in Nodes |-> <<>>]
  /\ net = {}
  /\ sent = {}

\* A packet is sent to the group, its sender included; any of the copies may be
\* lost, and when the network is full other packets are.
Multicast(c, reached) ==
  /\ \E kept \in SUBSET net :
       /\ net' = kept \cup {[content |-> c, to |-> r] : r \in reached}
       /\ Cardinality(net') <= MaxInFlight
       /\ kept = net \/ Cardinality(net') = MaxInFlight
  /\ sent' = sent \cup {c}

\* The packet is made before the new instance has its id.
Online_Bug(n) ==
  /\ n \notin up
  /\ iid[n] < MaxStarts[n]
  /\ up' = up \cup {n}
  /\ iid' = [iid EXCEPT ![n] = @ + 1]
  /\ sender' = sender \cup {n}
  /\ \E a \in Admins[n] \cup {NoAdmin}, reached \in SUBSET Nodes :
       /\ admin' = [admin EXCEPT ![n] = a]
       /\ Multicast([from |-> n, iid |-> iid[n], admin |-> a], reached)
  /\ UNCHANGED node_list

\* node_send_online, from start_main_loop.  Only this packet has the address of the
\* admin server.
Online(n) ==
  /\ n \notin up
  /\ iid[n] < MaxStarts[n]
  /\ up' = up \cup {n}
  /\ iid' = [iid EXCEPT ![n] = @ + 1]
  /\ sender' = sender \cup {n}
  /\ \E a \in Admins[n] \cup {NoAdmin}, reached \in SUBSET Nodes :
       /\ admin' = [admin EXCEPT ![n] = a]
       /\ Multicast([from |-> n, iid |-> iid'[n], admin |-> a], reached)
  /\ UNCHANGED node_list

\* node_send_heartbeat, on the timer of the sending connection.
Beat(n, reached) ==
  /\ n \in up \cap sender
  /\ Multicast([from |-> n, iid |-> iid[n], admin |-> NoAdmin], reached)
  /\ UNCHANGED <<up, iid, admin, sender, node_list>>

\* sendto fails: mongoose closes the connection, and its timer goes with it.
SendFails(n) ==
  /\ n \in up \cap sender
  /\ sender' = sender \ {n}
  /\ UNCHANGED <<up, iid, admin, node_list, net, sent>>

\* The entries of an address, as node_receive's loop compares them.
Listed_Bug(n, c) ==
  {i \in DOMAIN node_list[n] :
     node_list[n][i].listen = c.from /\ node_list[n][i].instance_id = c.iid}

Listed(n, c) == {i \in DOMAIN node_list[n] : node_list[n][i].listen = c.from}

\* The instance id is only set in a new entry.
Record_Bug(n, c) ==
  \/ /\ Listed(n, c) = {}
     /\ node_list' = [node_list EXCEPT ![n] = Append(@, Entry(c))]
  \/ \E i \in Listed(n, c) :
       /\ \A j \in Listed(n, c) : i <= j
       /\ node_list' = [node_list EXCEPT ![n][i].admin = c.admin]

\* node_receive: the first entry of the address is updated; there is a new one when
\* it has none.  An entry's admin string is replaced even by one that is empty.
Record(n, c) ==
  \/ /\ Listed(n, c) = {}
     /\ node_list' = [node_list EXCEPT ![n] = Append(@, Entry(c))]
  \/ \E i \in Listed(n, c) :
       /\ \A j \in Listed(n, c) : i <= j
       /\ node_list' = [node_list EXCEPT ![n][i] = Entry(c)]

\* A packet arrives; the network may keep it to deliver it again.
Deliver(p) ==
  /\ p \in net
  /\ p.to \in up
  /\ Record(p.to, p.content)
  /\ net' \in {net, net \ {p}}
  /\ UNCHANGED <<up, iid, admin, sender, sent>>

Lose(p) ==
  /\ p \in net
  /\ net' = net \ {p}
  /\ UNCHANGED <<up, iid, admin, sender, node_list, sent>>

\* A crash, or an exit on a signal: the list is gone, and node_send_offline is never
\* called.
Crash(n) ==
  /\ n \in up
  /\ up' = up \ {n}
  /\ sender' = sender \ {n}
  /\ node_list' = [node_list EXCEPT ![n] = <<>>]
  /\ admin' = [admin EXCEPT ![n] = NoAdmin]
  /\ UNCHANGED <<iid, net, sent>>

Next ==
  \/ \E n \in Nodes : Online(n) \/ SendFails(n) \/ Crash(n)
  \/ \E n \in Nodes, reached \in SUBSET Nodes : Beat(n, reached)
  \/ \E p \in net : Deliver(p) \/ Lose(p)

Spec == Init /\ [][Next]_vars

\* A packet that is not sent again: of an earlier instance, or an online packet
\* with the address of an admin server.
Past(p) ==
  \/ p.content.iid # iid[p.content.from]
  \/ p.content.admin # NoAdmin

\* From n to r: the timer of n's open connection keeps firing and heartbeats reach
\* the network; when packets of n's instance are in flight again and again, one is
\* delivered again and again; and none that is not sent any more stays in the
\* network for ever.  No node has to start, crash or fail.
FairLink(n, r) ==
  /\ WF_vars(\E reached \in SUBSET Nodes : r \in reached /\ Beat(n, reached))
  /\ SF_vars(\E p \in net : /\ p.to = r
                            /\ p.content.from = n
                            /\ ~Past(p)
                            /\ Deliver(p))
  /\ WF_vars(\E p \in net : Past(p) /\ Lose(p))

-----------------------------------------------------------------------------
(* Properties.                                                             *)

\* Every variable has its type, and a node that runs has an instance id.
TypeOK ==
  /\ up \subseteq Nodes
  /\ iid \in [Nodes -> Nat]
  /\ \A n \in Nodes : iid[n] <= MaxStarts[n] /\ (n \in up => iid[n] # 0)
  /\ admin \in [Nodes -> AdminStrings]
  /\ sender \subseteq up
  /\ node_list \in [Nodes -> Seq([listen : Nodes, instance_id : Iids,
                                  admin : AdminStrings])]
  /\ net \subseteq Packets
  /\ sent \subseteq Contents

\* Each entry is one packet of its address, whole: no entry has the instance of one
\* start of a node with the admin address of another, in whatever order and however
\* often the packets of both arrive.
EntriesWereSent ==
  \A n \in Nodes : \A i \in DOMAIN node_list[n] :
    \E c \in sent : node_list[n][i] = Entry(c)

\* An address is listed once, over all the restarts of its node.
OncePerAddress ==
  \A n \in Nodes : \A i, j \in DOMAIN node_list[n] :
    node_list[n][i].listen = node_list[n][j].listen => i = j

\* At r, node n is listed as the instance that runs.
Current(r, n) ==
  \E i \in DOMAIN node_list[r] :
    node_list[r][i].listen = n /\ node_list[r][i].instance_id = iid[n]

Talking(n, r) == n \in up \cap sender /\ r \in up

\* A node that stays up is eventually listed by every other one that does, and goes
\* on being listed, as the instance that runs: packets of earlier instances do not
\* win for ever.
ListedAt(n, r) == <>[]Talking(n, r) => <>[]Current(r, n)
=============================================================================
