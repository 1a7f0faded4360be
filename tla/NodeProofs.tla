----------------------------- MODULE NodeProofs -----------------------------
(* Proofs about NodeDiscovery, for any number of nodes, restarts and packets. *)
EXTENDS NodeDiscovery, TLAPS

\* A packet's content that node n may send.
LEMMA ContentTyped ==
  ASSUME TypeOK, NEW n \in Nodes, NEW i \in 1..MaxStarts[n],
         NEW a \in Admins[n] \cup {NoAdmin}
  PROVE  [from |-> n, iid |-> i, admin |-> a] \in Contents
BY DEF Contents, Iids, AdminStrings

\* Multicast adds copies of the content to the network, and nothing else.
LEMMA MulticastAdds ==
  ASSUME NEW c, NEW reached, Multicast(c, reached)
  PROVE  /\ net' \subseteq net \cup {[content |-> c, to |-> r] : r \in reached}
         /\ sent' = sent \cup {c}
BY DEF Multicast

LEMMA MulticastTyped ==
  ASSUME TypeOK, NEW c \in Contents, NEW reached \in SUBSET Nodes, Multicast(c, reached)
  PROVE  net' \subseteq Packets /\ sent' \subseteq Contents
<1>1. {[content |-> c, to |-> r] : r \in reached} \subseteq Packets
  BY DEF Packets
<1> QED BY <1>1, MulticastAdds DEF TypeOK

Entries == [listen : Nodes, instance_id : Iids, admin : AdminStrings]

\* node_receive keeps the list a list of entries.
LEMMA RecordTyped ==
  ASSUME TypeOK, NEW n \in Nodes, NEW c \in Contents, Record(n, c)
  PROVE  node_list' \in [Nodes -> Seq(Entries)]
<1>1. Entry(c) \in Entries
  BY DEF Entry, Entries, Contents
<1>2. node_list[n] \in Seq(Entries)
  BY DEF TypeOK, Entries
<1>3. Append(node_list[n], Entry(c)) \in Seq(Entries)
  BY <1>1, <1>2
<1>4. \A i \in DOMAIN node_list[n] : [node_list[n] EXCEPT ![i] = Entry(c)] \in Seq(Entries)
  BY <1>1, <1>2
<1>5. CASE node_list' = [node_list EXCEPT ![n] = Append(@, Entry(c))]
  BY <1>3, <1>5 DEF TypeOK, Entries
<1>6. ASSUME NEW i \in Listed(n, c), node_list' = [node_list EXCEPT ![n][i] = Entry(c)]
      PROVE  node_list' \in [Nodes -> Seq(Entries)]
  <2>1. i \in DOMAIN node_list[n]
    BY DEF Listed
  <2>2. node_list' = [node_list EXCEPT ![n] = [node_list[n] EXCEPT ![i] = Entry(c)]]
    BY <1>6
  <2> QED BY <1>4, <2>1, <2>2 DEF TypeOK, Entries
<1> QED BY <1>5, <1>6 DEF Record

-----------------------------------------------------------------------------
LEMMA TypeInit == Init => TypeOK
<1> SUFFICES ASSUME Init PROVE TypeOK
  OBVIOUS
<1>1. <<>> \in Seq(Entries)
  OBVIOUS
<1> QED BY <1>1, NodeAssumption DEF Init, TypeOK, Entries, AdminStrings

LEMMA TypeStep == TypeOK /\ [Next]_vars => TypeOK'
<1> SUFFICES ASSUME TypeOK, [Next]_vars PROVE TypeOK'
  OBVIOUS
<1>1. ASSUME NEW n \in Nodes, Online(n) PROVE TypeOK'
  <2>0. iid[n] < MaxStarts[n]
    BY <1>1 DEF Online
  <2>1. iid[n] + 1 \in 1..MaxStarts[n] /\ iid[n] \in Nat
    BY <2>0, NodeAssumption DEF TypeOK
  <2>3. PICK a \in Admins[n] \cup {NoAdmin}, reached \in SUBSET Nodes :
          /\ admin' = [admin EXCEPT ![n] = a]
          /\ Multicast([from |-> n, iid |-> iid'[n], admin |-> a], reached)
    BY <1>1 DEF Online
  <2>4. /\ iid' \in [Nodes -> Nat]
        /\ iid'[n] = iid[n] + 1
        /\ \A m \in Nodes \ {n} : iid'[m] = iid[m]
        /\ up' = up \cup {n}
        /\ sender' = sender \cup {n}
        /\ node_list' = node_list
    BY <1>1, <2>1 DEF Online, TypeOK
  <2>5. net' \subseteq Packets /\ sent' \subseteq Contents
    BY <2>1, <2>3, <2>4, ContentTyped, MulticastTyped
  <2>6. admin' \in [Nodes -> AdminStrings]
    BY <2>3 DEF TypeOK, AdminStrings
  <2>7. \A m \in Nodes : iid'[m] <= MaxStarts[m] /\ (m \in up' => iid'[m] # 0)
    BY <2>1, <2>4 DEF TypeOK
  <2> QED BY <2>4, <2>5, <2>6, <2>7 DEF TypeOK
<1>2. ASSUME NEW n \in Nodes, NEW reached \in SUBSET Nodes, Beat(n, reached)
      PROVE  TypeOK'
  <2>1. iid[n] \in 1..MaxStarts[n]
    BY <1>2, NodeAssumption DEF Beat, TypeOK
  <2>2. net' \subseteq Packets /\ sent' \subseteq Contents
    BY <1>2, <2>1, ContentTyped, MulticastTyped DEF Beat
  <2> QED BY <1>2, <2>2 DEF Beat, TypeOK
<1>3. ASSUME NEW n \in Nodes, SendFails(n) \/ Crash(n) PROVE TypeOK'
  <2>1. <<>> \in Seq(Entries)
    OBVIOUS
  <2> QED BY <1>3, <2>1 DEF SendFails, Crash, TypeOK, Entries, AdminStrings
<1>4. ASSUME NEW p \in net, Deliver(p) PROVE TypeOK'
  <2>1. p.content \in Contents /\ p.to \in Nodes
    BY DEF TypeOK, Packets
  <2>2. node_list' \in [Nodes -> Seq(Entries)]
    BY <1>4, <2>1, RecordTyped DEF Deliver
  <2> QED BY <1>4, <2>2 DEF Deliver, TypeOK, Entries
<1>5. ASSUME NEW p \in net, Lose(p) PROVE TypeOK'
  BY <1>5 DEF Lose, TypeOK
<1>6. CASE UNCHANGED vars
  BY <1>6 DEF vars, TypeOK
<1> QED BY <1>1, <1>2, <1>3, <1>4, <1>5, <1>6 DEF Next

-----------------------------------------------------------------------------
(* Each entry is a packet that was sent.                                    *)

\* What is in flight was sent.
NetWasSent == \A p \in net : p.content \in sent

EntriesInv == NetWasSent /\ EntriesWereSent

LEMMA EntriesInit == Init => EntriesInv
BY DEF Init, EntriesInv, NetWasSent, EntriesWereSent

LEMMA RecordEntries ==
  ASSUME TypeOK, EntriesInv, NEW n \in Nodes, NEW c \in sent, Record(n, c),
         sent \subseteq sent'
  PROVE  EntriesWereSent'
<1> SUFFICES ASSUME NEW m \in Nodes, NEW i \in DOMAIN node_list'[m]
             PROVE  \E d \in sent' : node_list'[m][i] = Entry(d)
  BY DEF EntriesWereSent, Entry
<1> USE DEF TypeOK
<1>1. \A k \in Nodes : node_list[k] \in Seq(Entries)
  BY DEF Entries
<1>2. \A k \in DOMAIN node_list[m] : \E d \in sent : node_list[m][k] = Entry(d)
  BY DEF EntriesInv, EntriesWereSent
<1>3. node_list'[m][i] = Entry(c) \/ (i \in DOMAIN node_list[m] /\ node_list'[m][i] = node_list[m][i])
  <2>1. CASE node_list' = [node_list EXCEPT ![n] = Append(@, Entry(c))]
    <3>1. CASE m = n
      BY <1>1, <2>1, <3>1
    <3>2. CASE m # n
      BY <2>1, <3>2
    <3> QED BY <3>1, <3>2
  <2>2. ASSUME NEW j \in Listed(n, c), node_list' = [node_list EXCEPT ![n][j] = Entry(c)]
        PROVE  node_list'[m][i] = Entry(c)
                 \/ (i \in DOMAIN node_list[m] /\ node_list'[m][i] = node_list[m][i])
    <3>1. j \in DOMAIN node_list[n]
      BY DEF Listed
    <3> QED BY <1>1, <2>2, <3>1
  <2> QED BY <2>1, <2>2 DEF Record
<1> QED BY <1>2, <1>3

LEMMA EntriesStep == TypeOK /\ EntriesInv /\ [Next]_vars => EntriesInv'
<1> SUFFICES ASSUME TypeOK, EntriesInv, [Next]_vars PROVE EntriesInv'
  OBVIOUS
<1> USE DEF EntriesInv
<1>1. ASSUME NEW c, NEW reached, Multicast(c, reached), UNCHANGED node_list
      PROVE  EntriesInv'
  BY <1>1, MulticastAdds DEF NetWasSent, EntriesWereSent, Entry
<1>2. ASSUME NEW n \in Nodes, Online(n) PROVE EntriesInv'
  BY <1>1, <1>2 DEF Online
<1>3. ASSUME NEW n \in Nodes, NEW reached \in SUBSET Nodes, Beat(n, reached)
      PROVE  EntriesInv'
  BY <1>1, <1>3 DEF Beat
<1>4. ASSUME NEW n \in Nodes, SendFails(n) PROVE EntriesInv'
  BY <1>4 DEF SendFails, NetWasSent, EntriesWereSent, Entry
<1>5. ASSUME NEW n \in Nodes, Crash(n) PROVE EntriesInv'
  <2>1. net' = net /\ sent' = sent
    BY <1>5 DEF Crash
  <2>2. node_list'[n] = <<>> /\ \A m \in Nodes \ {n} : node_list'[m] = node_list[m]
    BY <1>5 DEF Crash, TypeOK
  <2> QED BY <2>1, <2>2 DEF NetWasSent, EntriesWereSent, Entry
<1>6. ASSUME NEW p \in net, Deliver(p) PROVE EntriesInv'
  <2>1. p.content \in sent /\ p.to \in Nodes
    BY DEF NetWasSent, TypeOK, Packets
  <2>2. EntriesWereSent'
    BY <1>6, <2>1, RecordEntries DEF Deliver
  <2> QED BY <1>6, <2>2 DEF Deliver, NetWasSent
<1>7. ASSUME NEW p \in net, Lose(p) PROVE EntriesInv'
  BY <1>7 DEF Lose, NetWasSent, EntriesWereSent, Entry
<1>8. CASE UNCHANGED vars
  BY <1>8 DEF vars, NetWasSent, EntriesWereSent, Entry
<1> QED BY <1>2, <1>3, <1>4, <1>5, <1>6, <1>7, <1>8 DEF Next

-----------------------------------------------------------------------------
(* No address is listed twice.                                              *)

\* A list of entries in which every address occurs once.
Distinct(list) == \A i, j \in DOMAIN list : list[i].listen = list[j].listen => i = j

LEMMA RecordDistinct ==
  ASSUME TypeOK, OncePerAddress, NEW n \in Nodes, NEW c \in Contents, Record(n, c)
  PROVE  OncePerAddress'
<1>1. \A m \in Nodes : node_list[m] \in Seq(Entries) /\ Distinct(node_list[m])
  BY DEF TypeOK, Entries, OncePerAddress, Distinct
<1>2. \A m \in Nodes \ {n} : node_list'[m] = node_list[m]
  BY DEF Record, TypeOK
<1>3. Distinct(node_list'[n])
  <2>1. CASE Listed(n, c) = {} /\ node_list' = [node_list EXCEPT ![n] = Append(@, Entry(c))]
    <3>1. node_list'[n] = Append(node_list[n], Entry(c))
      BY <2>1 DEF TypeOK
    <3>2. \A i \in DOMAIN node_list[n] : node_list[n][i].listen # c.from
      BY <2>1 DEF Listed
    <3>3. Entry(c).listen = c.from
      BY DEF Entry
    <3> QED BY <1>1, <3>1, <3>2, <3>3 DEF Distinct
  <2>2. ASSUME NEW j \in Listed(n, c), node_list' = [node_list EXCEPT ![n][j] = Entry(c)]
        PROVE  Distinct(node_list'[n])
    <3>1. j \in DOMAIN node_list[n] /\ node_list[n][j].listen = c.from
      BY DEF Listed
    <3>2. node_list'[n] = [node_list[n] EXCEPT ![j] = Entry(c)]
      BY <2>2 DEF TypeOK
    <3>3. Entry(c).listen = c.from
      BY DEF Entry
    <3> QED BY <1>1, <3>1, <3>2, <3>3 DEF Distinct
  <2> QED BY <2>1, <2>2 DEF Record
<1> QED BY <1>1, <1>2, <1>3 DEF OncePerAddress, Distinct

LEMMA OnceStep == TypeOK /\ OncePerAddress /\ [Next]_vars => OncePerAddress'
<1> SUFFICES ASSUME TypeOK, OncePerAddress, [Next]_vars PROVE OncePerAddress'
  OBVIOUS
<1>1. ASSUME UNCHANGED node_list PROVE OncePerAddress'
  BY <1>1 DEF OncePerAddress
<1>2. ASSUME NEW n \in Nodes, Online(n) \/ SendFails(n) PROVE OncePerAddress'
  BY <1>1, <1>2 DEF Online, SendFails
<1>3. ASSUME NEW n \in Nodes, NEW reached \in SUBSET Nodes, Beat(n, reached)
      PROVE  OncePerAddress'
  BY <1>1, <1>3 DEF Beat
<1>4. ASSUME NEW n \in Nodes, Crash(n) PROVE OncePerAddress'
  BY <1>4 DEF Crash, OncePerAddress, TypeOK
<1>5. ASSUME NEW p \in net, Deliver(p) PROVE OncePerAddress'
  <2>1. p.content \in Contents /\ p.to \in Nodes
    BY DEF TypeOK, Packets
  <2> QED BY <1>5, <2>1, RecordDistinct DEF Deliver
<1>6. ASSUME NEW p \in net, Lose(p) PROVE OncePerAddress'
  BY <1>1, <1>6 DEF Lose
<1>7. CASE UNCHANGED vars
  BY <1>1, <1>7 DEF vars
<1> QED BY <1>2, <1>3, <1>4, <1>5, <1>6, <1>7 DEF Next

-----------------------------------------------------------------------------
\* The variables of the node list keep their types (TypeOK of NodeDiscovery).
THEOREM NodeTypes == Spec => []TypeOK
BY TypeInit, TypeStep, PTL DEF Spec

\* Whatever the network loses, repeats or reorders, and however often nodes restart,
\* each entry of node_list is one packet that its address sent.
THEOREM ListIsTrue == Spec => []EntriesWereSent
<1>1. Spec => []EntriesInv
  BY NodeTypes, EntriesInit, EntriesStep, PTL DEF Spec
<1> QED BY <1>1, PTL DEF EntriesInv

\* node_receive never lists an address twice.
THEOREM ListedOnce == Spec => []OncePerAddress
<1>1. Init => OncePerAddress
  BY DEF Init, OncePerAddress
<1> QED BY <1>1, NodeTypes, OnceStep, PTL DEF Spec
=============================================================================
