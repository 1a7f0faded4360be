----------------------------- MODULE NicMonitor -----------------------------
(***************************************************************************)
(* The network interfaces of main.c and their io rates: a hash map that a  *)
(* thread fills once, and updates that sample the counters of every        *)
(* interface and take the rate from the last two samples.                  *)
(*                                                                         *)
(* Two threads may load and update, neither with a lock.  A sample is its  *)
(* number among those of its interface, and stands for the time and the    *)
(* counters.  The table has room: below 64 interfaces it is never rehashed.*)
(***************************************************************************)
EXTENDS Integers, FiniteSets, Sequences

CONSTANTS
  NicNames,      \* the interfaces, in the order ls lists them
  Loaders,       \* the threads that load and update
  TableSize,     \* INITIAL_SIZE
  ChainLength,   \* MAX_CHAIN_LENGTH
  HashOf,        \* hashmap_hash_int of each name
  Statuses,      \* what a call of the callback may be taken to return
  MaxUpdates     \* bound: the number of updates

Names   == {NicNames[k] : k \in 1..Len(NicNames)}
Indices == 0..(TableSize - 1)
Stats   == Loaders \X Names   \* the struct nic_stat a loader allocates for a name
NoStat  == <<>>               \* an entry that is not in use

ASSUME NicAssumption ==
  /\ NicNames \in Seq(Names)
  /\ TableSize \in Nat \ {0} /\ ChainLength \in 1..TableSize
  /\ HashOf \in [Names -> Indices]
  /\ 2 * Cardinality(Stats) <= TableSize
  /\ Statuses \subseteq Int /\ Statuses # {}
  /\ MaxUpdates \in Nat

MapOk   == 0           \* MAP_OK
Nobody  == "nobody"    \* n0 is NULL
Garbage == <<-1, -1>>  \* memory as malloc gave it
Unknown == <<0, 0>>    \* the rate -1, of an interface with one sample

VARIABLES
  nic_map,   \* the map the pointer points at: 0 for NULL, else its number
  maps,      \* the entries of each map that was created
  load,      \* [pc, k, at] of each loader: its place in load_physical_network_interfaces
  update,    \* [pc, map, at, stat, curr, next]: its place in an update
  n0, n1, n2, rate,   \* the fields of every nic_stat
  taken,     \* history: how many samples each nic_stat was given
  updates,   \* history: how many updates were begun
  updaters   \* history: the threads that have updated

loadVars   == <<nic_map, maps, load>>
updateVars == <<update, n0, n1, n2, rate, taken, updates, updaters>>
nicVars    == <<loadVars, updateVars>>

NoUpdate ==
  [pc |-> "off", map |-> 0, at |-> 0, stat |-> NoStat, curr |-> "n1", next |-> "n2"]

-----------------------------------------------------------------------------
(* common/hash_map.c.                                                      *)

\* The entries a key's chain consists of.
Chain(name) == [i \in 1..ChainLength |-> (HashOf[name] + i - 1) % TableSize]

\* hashmap_put rehashes when a chain is full, which is left out: the names whose chains
\* have an entry in common with a name's, its own included, fit in a chain.
Meeting(name) ==
  {n \in Names : \E i, j \in 1..ChainLength : Chain(n)[i] = Chain(name)[j]}

ASSUME ChainAssumption == \A name \in Names : Cardinality(Meeting(name)) <= ChainLength

\* hashmap_hash: the first entry of the chain that is free or has the key.
Fits(m, name, i) == maps[m][i] = NoStat \/ maps[m][i][2] = name

\* Where the key hashes to, whatever is there.
IndexFor_Bug(m, name) == HashOf[name]

IndexFor(m, name) ==
  LET fits == {k \in 1..ChainLength : Fits(m, name, Chain(name)[k])}
  IN  Chain(name)[CHOOSE k \in fits : \A j \in fits : k <= j]

\* The names hashmap_get finds in a map.
Found(m) ==
  {name \in Names : \E k \in 1..ChainLength :
     maps[m][Chain(name)[k]] # NoStat /\ maps[m][Chain(name)[k]][2] = name}

-----------------------------------------------------------------------------
(* load_physical_network_interfaces.                                       *)

NicInit ==
  /\ nic_map = 0
  /\ maps = [m \in 1..Cardinality(Loaders) |-> [i \in Indices |-> NoStat]]
  /\ load = [t \in Loaders |-> [pc |-> "off", k |-> 1, at |-> 0, map |-> 0]]
  /\ update = [t \in Loaders |-> NoUpdate]
  /\ n0 = [s \in Stats |-> Nobody]
  /\ n1 = [s \in Stats |-> 0]
  /\ n2 = [s \in Stats |-> 0]
  /\ rate = [s \in Stats |-> Garbage]
  /\ taken = [s \in Stats |-> 0]
  /\ updates = 0
  /\ updaters = {}

BeginLoad(t) == load' = [load EXCEPT ![t].pc = "check"]

\* The map is there, and is taken to be full.
CheckMap(t) ==
  /\ load[t].pc = "check"
  /\ load' = [load EXCEPT ![t].pc = IF nic_map # 0 THEN "done" ELSE "create"]
  /\ UNCHANGED <<nic_map, maps>>

\* hashmap_new, and the list of the names.
CreateMap(t) ==
  /\ load[t].pc = "create"
  /\ nic_map' = nic_map + 1
  /\ load' = [load EXCEPT ![t].pc = IF NicNames = <<>> THEN "done" ELSE "find"]
  /\ UNCHANGED maps

\* hashmap_put: where the next name goes in the map the pointer has now ...
FindEntry(t) ==
  /\ load[t].pc = "find"
  /\ load' = [load EXCEPT ![t].pc = "put", ![t].map = nic_map,
                          ![t].at = IndexFor(nic_map, NicNames[load[t].k])]
  /\ UNCHANGED <<nic_map, maps>>

\* ... and the entry for it, with a nic_stat that has no sample.
PutEntry(t) ==
  /\ load[t].pc = "put"
  /\ maps' = [maps EXCEPT ![load[t].map][load[t].at] = <<t, NicNames[load[t].k]>>]
  /\ load' = IF load[t].k = Len(NicNames)
               THEN [load EXCEPT ![t].pc = "done"]
               ELSE [load EXCEPT ![t].pc = "find", ![t].k = @ + 1]
  /\ UNCHANGED nic_map

Load(t) ==
  /\ CheckMap(t) \/ CreateMap(t) \/ FindEntry(t) \/ PutEntry(t)
  /\ UNCHANGED updateVars

-----------------------------------------------------------------------------
(* update_physical_network_interface_io_rate.                              *)

InUse(m, from) == {i \in Indices : i >= from /\ maps[m][i] # NoStat}

\* hashmap_foreach of the map the pointer has now; of no map and of an empty one it
\* returns at once.
BeginUpdate(t) ==
  /\ updates < MaxUpdates
  /\ updates' = updates + 1
  /\ update' = [update EXCEPT ![t].pc = IF nic_map = 0 \/ InUse(nic_map, 0) = {}
                                          THEN "done" ELSE "visit",
                              ![t].map = nic_map, ![t].at = 0]
  /\ UNCHANGED <<n0, n1, n2, rate, taken, updaters>>

\* The next entry in use: the callback looks which sample is the current one, and reads
\* the counters into the other.  After the last entry the update is done.
Sample(t) ==
  LET m == update[t].map
      used == InUse(m, update[t].at)
      i == CHOOSE i \in used : \A j \in used : i <= j
      s == maps[m][i]
      next == IF n0[s] = "n2" THEN "n1" ELSE "n2"
  IN  /\ update[t].pc = "visit"
      /\ used # {}
      /\ update' = [update EXCEPT
           ![t].pc = "rate", ![t].at = i + 1, ![t].stat = s,
           ![t].curr = IF n0[s] # "n2" THEN "n1" ELSE "n2", ![t].next = next]
      /\ taken' = [taken EXCEPT ![s] = @ + 1]
      /\ IF next = "n1"
           THEN n1' = [n1 EXCEPT ![s] = taken'[s]] /\ UNCHANGED n2
           ELSE n2' = [n2 EXCEPT ![s] = taken'[s]] /\ UNCHANGED n1
      /\ updaters' = updaters \cup {t}
      /\ UNCHANGED <<n0, rate, updates>>

UpdateDone == [NoUpdate EXCEPT !.pc = "done"]

EndUpdate(t) ==
  /\ update[t].pc = "visit"
  /\ InUse(update[t].map, update[t].at) = {}
  /\ update' = [update EXCEPT ![t] = UpdateDone]
  /\ UNCHANGED <<n0, n1, n2, rate, taken, updates, updaters>>

\* The callback ends without a return statement: its status is whatever is found in its
\* place, and hashmap_foreach goes on only if that is MAP_OK.
WalkOn(t) ==
  \/ MapOk \in Statuses /\ update' = [update EXCEPT ![t].pc = "visit"]
  \/ Statuses # {MapOk} /\ update' = [update EXCEPT ![t] = UpdateDone]

\* The current sample is not switched.
TakeRate_Bug(t) ==
  LET s == update[t].stat
      of(n) == IF n = "n1" THEN n1[s] ELSE n2[s]
  IN  /\ update[t].pc = "rate"
      /\ rate' = [rate EXCEPT ![s] = IF n0[s] = Nobody
                                      THEN Unknown
                                      ELSE <<of(update[t].curr), of(update[t].next)>>]
      /\ n0' = [n0 EXCEPT ![s] = update[t].curr]
      /\ WalkOn(t)
      /\ UNCHANGED <<n1, n2, taken, updates, updaters>>

\* The rate between the two samples, if there was one before; the new one becomes the
\* current one.
TakeRate(t) ==
  LET s == update[t].stat
      of(n) == IF n = "n1" THEN n1[s] ELSE n2[s]
  IN  /\ update[t].pc = "rate"
      /\ rate' = [rate EXCEPT ![s] = IF n0[s] = Nobody
                                      THEN Unknown
                                      ELSE <<of(update[t].curr), of(update[t].next)>>]
      /\ n0' = [n0 EXCEPT ![s] = update[t].next]
      /\ WalkOn(t)
      /\ UNCHANGED <<n1, n2, taken, updates, updaters>>

UpdateStep(t) ==
  /\ Sample(t) \/ TakeRate(t) \/ EndUpdate(t)
  /\ UNCHANGED loadVars

\* What sys_get_pni_speed() gives for all interfaces.
Rates == IF nic_map = 0 THEN {} ELSE {rate[maps[nic_map][i]] : i \in InUse(nic_map, 0)}

-----------------------------------------------------------------------------
(* Properties.                                                             *)

\* A rate is that of two samples in a row, the earlier first, as long as only one
\* thread updates: the switch between two buffers never compares a sample with itself
\* or with an older one.
RatesFromTwoSamples ==
  Cardinality(updaters) <= 1 =>
    \A s \in Stats : rate[s] \in {Garbage, Unknown} \/ rate[s][2] = rate[s][1] + 1

\* When the loaders are done every interface is found, also those whose hashes collide,
\* unless both loaders saw no map and each created one.
EveryNicFound ==
  nic_map = 1 /\ (\A t \in Loaders : load[t].pc \in {"off", "done"}) => Found(1) = Names
=============================================================================
