----------------------------- MODULE NicProofs ------------------------------
(***************************************************************************)
(* Theorems about the interfaces and their rates, in a process that starts *)
(* the threads of Daemon: for every list of interfaces, every table and    *)
(* hash, and every way to call the program.                                *)
(***************************************************************************)
EXTENDS DaemonProofs, FiniteSetTheorems, WellFoundedInduction

-----------------------------------------------------------------------------
(* The data.                                                               *)

\* A set of natural numbers that is not empty has a least element.
LEMMA LeastOf ==
  ASSUME NEW S \in SUBSET Nat, S # {}
  PROVE  LET i == CHOOSE i \in S : \A j \in S : i <= j
         IN  i \in S /\ \A j \in S : i <= j
<1>1. PICK i \in S : \A j \in S : <<j, i>> \notin OpToRel(<, Nat)
  BY NatLessThanWellFounded, WFMin, Zenon
<1>2. \A j \in S : ~(j < i)
  BY <1>1 DEF OpToRel
<1>3. \E k \in S : \A j \in S : k <= j
  BY <1>2
<1> QED
  BY <1>3, Zenon

\* The entries of a chain are in the table, and no two of them are the same.
LEMMA ChainEntries ==
  ASSUME NEW name \in Names
  PROVE  /\ Chain(name) \in [1..ChainLength -> Indices]
         /\ \A i, j \in 1..ChainLength : Chain(name)[i] = Chain(name)[j] => i = j
<1> DEFINE h == HashOf[name]
<1>1. /\ TableSize \in Nat \ {0} /\ ChainLength \in Nat /\ ChainLength <= TableSize
      /\ h \in 0..(TableSize - 1)
  BY NicAssumption DEF Indices
<1>2. ASSUME NEW x \in 0..(2 * TableSize - 1)
      PROVE  x % TableSize = IF x < TableSize THEN x ELSE x - TableSize
  BY <1>1
<1>3. \A i \in 1..ChainLength :
        Chain(name)[i] = IF h + i - 1 < TableSize THEN h + i - 1 ELSE h + i - 1 - TableSize
  BY <1>1, <1>2 DEF Chain
<1>4. Chain(name) \in [1..ChainLength -> Indices]
  BY <1>1, <1>3 DEF Chain, Indices
<1>5. \A i, j \in 1..ChainLength : Chain(name)[i] = Chain(name)[j] => i = j
  BY <1>1, <1>3
<1> QED
  BY <1>4, <1>5

-----------------------------------------------------------------------------
(* Where the threads are, and the types of their data.                     *)

\* The maps a loader has created, at the most.
Created(t) == IF load[t].pc \in {"find", "put", "done"} THEN 1 ELSE 0

\* load is a function to records with these fields.
Shaped ==
  /\ load = [t \in Loaders |-> load[t]]
  /\ \A t \in Loaders :
       load[t] = [pc |-> load[t].pc, k |-> load[t].k, at |-> load[t].at, map |-> load[t].map]

\* Nothing is known of the entry a name goes to when its chain is full.
LoadTypes ==
  /\ Shaped
  /\ \A t \in Loaders :
       /\ load[t].pc \in {"off", "check", "create", "find", "put", "done"}
       /\ load[t].k \in Nat \ {0} /\ load[t].map \in 0..2
       /\ load[t].pc \in {"find", "put"} => load[t].k <= Len(NicNames)
       /\ load[t].pc \in {"off", "check", "create"} => load[t].k = 1
       /\ load[t].pc = "put" => load[t].map # 0
       /\ load[t].pc \in {"find", "put"} => nic_map # 0

MapTypes ==
  /\ nic_map \in 0..2 /\ nic_map <= Created("nic") + Created("cron")
  /\ maps \in [1..2 -> [Indices -> Stats \cup {NoStat}]]

UpdateRecords ==
  [pc : {"off", "done", "visit", "rate"}, map : 0..2, at : Nat,
   stat : Stats \cup {NoStat}, curr : {"n1", "n2"}, next : {"n1", "n2"}]

UpdateTypes ==
  /\ update \in [Loaders -> UpdateRecords]
  /\ \A t \in Loaders : update[t].pc \in {"visit", "rate"} => update[t].map # 0
  /\ n0 \in [Stats -> {Nobody, "n1", "n2"}]
  /\ n1 \in [Stats -> Nat] /\ n2 \in [Stats -> Nat] /\ taken \in [Stats -> Nat]
  /\ rate \in [Stats -> Int \X Int]
  /\ updaters \subseteq Loaders

\* A thread loads once, and begins an update when it is not in one.
Places ==
  /\ main_pc = "start" => cron_pc = "off"
  /\ main_pc # "loop" => nic_pc = "off"
  /\ nic_pc = "off" => load["nic"].pc = "off" /\ update["nic"].pc = "off"
  /\ cron_pc \in {"off", "start"} => load["cron"].pc = "off"
  /\ cron_pc \in {"off", "start", "load"} => update["cron"].pc = "off"
  /\ cron_pc = "loop" => update["cron"].pc \in {"off", "done"}
  /\ nic_pc \in {"load", "loop"} => update["nic"].pc \in {"off", "done"}

NicTypes == LoadTypes /\ MapTypes /\ UpdateTypes
NicInv   == DInv /\ NicTypes /\ Places

LEMMA TwoLoaders == Loaders = {"nic", "cron"} /\ Cardinality(Loaders) = 2
<1>1. IsFiniteSet({"nic"}) /\ Cardinality({"nic"}) = 1
  BY FS_Singleton, Zenon
<1>2. Cardinality({"nic"} \cup {"cron"}) = 2
  BY <1>1, FS_AddElement
<1>3. {"nic"} \cup {"cron"} = {"nic", "cron"}
  OBVIOUS
<1> QED
  BY <1>2, <1>3, LoaderAssumption

LEMMA InitNicInv == Init => NicInv
<1> SUFFICES ASSUME Init PROVE NicInv
  OBVIOUS
<1> USE LoaderAssumption
<1>1. LoadTypes
  BY DEF Init, NicInit, LoadTypes, Shaped
<1>2. MapTypes
  BY TwoLoaders DEF Init, NicInit, MapTypes, Created
<1>3. UpdateTypes
  BY DEF Init, NicInit, UpdateTypes, UpdateRecords, NoUpdate, Nobody, Garbage
<1>4. Places
  BY DEF Init, NicInit, Places, NoUpdate
<1> QED
  BY <1>1, <1>2, <1>3, <1>4, InitDInv DEF NicInv, NicTypes

\* What a step of a loader leaves alone.
LEMMA LoadSet ==
  ASSUME Shaped, NEW t \in Loaders, NEW p, NEW k, NEW at, NEW m,
         \/ load' = [load EXCEPT ![t].pc = p] /\ k = load[t].k /\ at = load[t].at /\ m = load[t].map
         \/ load' = [load EXCEPT ![t].pc = p, ![t].k = k] /\ at = load[t].at /\ m = load[t].map
         \/ load' = [load EXCEPT ![t].pc = p, ![t].map = m, ![t].at = at] /\ k = load[t].k
  PROVE  /\ Shaped'
         /\ load'[t] = [pc |-> p, k |-> k, at |-> at, map |-> m]
         /\ \A u \in Loaders \ {t} : load'[u] = load[u]
<1>1. load' = [u \in Loaders |-> load'[u]]
  BY DEF Shaped
<1>2. load'[t] = [pc |-> p, k |-> k, at |-> at, map |-> m]
  <2> DEFINE r == load[t]
  <2>1. r = [pc |-> r.pc, k |-> r.k, at |-> r.at, map |-> r.map] /\ t \in DOMAIN load
    BY Zenon DEF Shaped
  <2>2. CASE load' = [load EXCEPT ![t].pc = p] /\ k = load[t].k /\ at = load[t].at /\ m = load[t].map
    <3>1. load'[t] = [r EXCEPT !.pc = p]
      BY <2>1, <2>2
    <3> HIDE DEF r
    <3> QED
      BY <2>1, <2>2, <3>1 DEF r
  <2>3. CASE load' = [load EXCEPT ![t].pc = p, ![t].k = k] /\ at = load[t].at /\ m = load[t].map
    <3>1. load'[t] = [r EXCEPT !.pc = p, !.k = k]
      BY <2>1, <2>3
    <3>2. at = r.at /\ m = r.map
      BY <2>3
    <3> HIDE DEF r
    <3> QED
      BY <2>1, <3>1, <3>2
  <2>4. CASE load' = [load EXCEPT ![t].pc = p, ![t].map = m, ![t].at = at] /\ k = load[t].k
    <3>1. load'[t] = [r EXCEPT !.pc = p, !.map = m, !.at = at]
      BY <2>1, <2>4
    <3>2. k = r.k
      BY <2>4
    <3> HIDE DEF r
    <3> QED
      BY <2>1, <3>1, <3>2
  <2> QED
    BY <2>2, <2>3, <2>4
<1>3. \A u \in Loaders \ {t} : load'[u] = load[u]
  BY DEF Shaped
<1>4. Shaped'
  BY <1>1, <1>2, <1>3 DEF Shaped
<1> QED
  BY <1>2, <1>3, <1>4

\* A thread that begins to load has created no map.
LEMMA BeginLoadKeeps ==
  ASSUME NicTypes, NEW t \in Loaders, load[t].pc = "off", BeginLoad(t),
         UNCHANGED <<nic_map, maps, updateVars>>
  PROVE  NicTypes' /\ \A u \in Loaders \ {t} : load'[u] = load[u]
<1> USE LoaderAssumption DEF NicTypes
<1>1. /\ Shaped'
      /\ load'[t] = [pc |-> "check", k |-> load[t].k, at |-> load[t].at, map |-> load[t].map]
      /\ \A u \in Loaders \ {t} : load'[u] = load[u]
  BY LoadSet DEF BeginLoad, LoadTypes
<1>2. LoadTypes'
  BY <1>1 DEF LoadTypes
<1>3. MapTypes'
  BY <1>1 DEF MapTypes, Created, LoadTypes
<1>4. UpdateTypes'
  BY DEF UpdateTypes, updateVars
<1> QED
  BY <1>1, <1>2, <1>3, <1>4

LEMMA LoadKeeps ==
  ASSUME NicTypes, NEW t \in Loaders, Load(t)
  PROVE  /\ NicTypes'
         /\ UNCHANGED update
         /\ \A u \in Loaders \ {t} : load'[u] = load[u]
         /\ load[t].pc # "off"
<1> USE LoaderAssumption DEF NicTypes
<1>0. UNCHANGED updateVars /\ UNCHANGED update
  BY DEF Load, updateVars
<1>1. CASE CheckMap(t)
  <2> DEFINE p == IF nic_map # 0 THEN "done" ELSE "create"
  <2>1. /\ Shaped'
        /\ load'[t] = [pc |-> p, k |-> load[t].k, at |-> load[t].at, map |-> load[t].map]
        /\ \A u \in Loaders \ {t} : load'[u] = load[u]
    <3>1. load' = [load EXCEPT ![t].pc = p] /\ Shaped
      BY <1>1 DEF CheckMap, LoadTypes
    <3> HIDE DEF p
    <3> QED
      BY <3>1, LoadSet
  <2>2. load[t].pc = "check" /\ UNCHANGED <<nic_map, maps>>
    BY <1>1 DEF CheckMap
  <2>3. LoadTypes'
    BY <2>1, <2>2 DEF LoadTypes
  <2>4. MapTypes'
    BY <2>1, <2>2 DEF LoadTypes, MapTypes, Created
  <2>5. UpdateTypes'
    BY <1>0, <2>2 DEF UpdateTypes, updateVars
  <2> QED
    BY <1>0, <2>1, <2>2, <2>3, <2>4, <2>5
<1>2. CASE CreateMap(t)
  <2> DEFINE p == IF NicNames = <<>> THEN "done" ELSE "find"
  <2>1. /\ Shaped'
        /\ load'[t] = [pc |-> p, k |-> load[t].k, at |-> load[t].at, map |-> load[t].map]
        /\ \A u \in Loaders \ {t} : load'[u] = load[u]
    <3>1. load' = [load EXCEPT ![t].pc = p] /\ Shaped
      BY <1>2 DEF CreateMap, LoadTypes
    <3> HIDE DEF p
    <3> QED
      BY <3>1, LoadSet
  <2>2. load[t].pc = "create" /\ nic_map' = nic_map + 1 /\ UNCHANGED maps
    BY <1>2 DEF CreateMap
  <2>3. nic_map \in Nat /\ (NicNames # <<>> => Len(NicNames) >= 1)
    BY NicAssumption DEF MapTypes
  <2>4. LoadTypes'
    BY <2>1, <2>2, <2>3 DEF LoadTypes
  <2>5. MapTypes'
    BY <2>1, <2>2 DEF LoadTypes, MapTypes, Created
  <2>6. UpdateTypes'
    BY <1>0, <2>2, <2>3 DEF UpdateTypes, updateVars
  <2> QED
    BY <1>0, <2>1, <2>2, <2>4, <2>5, <2>6
<1>3. CASE FindEntry(t)
  <2> DEFINE at == IndexFor(nic_map, NicNames[load[t].k])
  <2>1. /\ Shaped'
        /\ load'[t] = [pc |-> "put", k |-> load[t].k, at |-> at, map |-> nic_map]
        /\ \A u \in Loaders \ {t} : load'[u] = load[u]
    BY <1>3, LoadSet DEF FindEntry, LoadTypes
  <2>2. load[t].pc = "find" /\ UNCHANGED <<nic_map, maps>>
    BY <1>3 DEF FindEntry
  <2>3. CASE nic_map # 0
    <3>1. LoadTypes'
      BY <2>1, <2>2, <2>3 DEF LoadTypes, MapTypes
    <3>2. MapTypes'
      BY <2>1, <2>2 DEF LoadTypes, MapTypes, Created
    <3>3. UpdateTypes'
      BY <1>0, <2>2 DEF UpdateTypes, updateVars
    <3> QED
      BY <1>0, <2>1, <2>2, <3>1, <3>2, <3>3
  <2>4. nic_map # 0
    BY <2>2 DEF LoadTypes
  <2> QED
    BY <2>3, <2>4
<1>4. CASE PutEntry(t)
  <2> DEFINE k == IF load[t].k = Len(NicNames) THEN load[t].k ELSE load[t].k + 1
             p == IF load[t].k = Len(NicNames) THEN "done" ELSE "find"
  <2>1. /\ Shaped'
        /\ load'[t] = [pc |-> p, k |-> k, at |-> load[t].at, map |-> load[t].map]
        /\ \A u \in Loaders \ {t} : load'[u] = load[u]
    <3>1. CASE load[t].k = Len(NicNames)
      <4>1. load' = [load EXCEPT ![t].pc = "done"] /\ Shaped
        BY <1>4, <3>1 DEF PutEntry, LoadTypes
      <4>2. /\ Shaped'
            /\ load'[t] = [pc |-> "done", k |-> load[t].k, at |-> load[t].at, map |-> load[t].map]
            /\ \A u \in Loaders \ {t} : load'[u] = load[u]
        BY <4>1, LoadSet
      <4> QED
        BY <3>1, <4>2
    <3>2. CASE load[t].k # Len(NicNames)
      <4>1. load' = [load EXCEPT ![t].pc = "find", ![t].k = load[t].k + 1] /\ Shaped
        BY <1>4, <3>2 DEF PutEntry, LoadTypes
      <4>2. /\ Shaped'
            /\ load'[t] = [pc |-> "find", k |-> load[t].k + 1, at |-> load[t].at, map |-> load[t].map]
            /\ \A u \in Loaders \ {t} : load'[u] = load[u]
        BY <4>1, LoadSet
      <4> QED
        BY <3>2, <4>2
    <3> QED
      BY <3>1, <3>2
  <2>2. load[t].pc = "put" /\ UNCHANGED nic_map
    BY <1>4 DEF PutEntry
  <2>3. LoadTypes'
    <3>1. Len(NicNames) \in Nat /\ load[t].k \in Nat \ {0} /\ load[t].k <= Len(NicNames)
      BY <2>2, NicAssumption DEF LoadTypes
    <3>2. k \in Nat \ {0} /\ k <= Len(NicNames) /\ p \in {"done", "find"}
      BY <3>1
    <3>3. nic_map' # 0 /\ load[t].map \in 0..2
      BY <2>2 DEF LoadTypes
    <3> HIDE DEF p, k
    <3>4. /\ load'[t].pc = p /\ load'[t].k = k /\ load'[t].map = load[t].map
          /\ Shaped' /\ \A u \in Loaders \ {t} : load'[u] = load[u]
      BY <2>1
    <3>5. ASSUME NEW u \in Loaders \ {t}
          PROVE  /\ load'[u].pc \in {"off", "check", "create", "find", "put", "done"}
                 /\ load'[u].k \in Nat \ {0} /\ load'[u].map \in 0..2
                 /\ load'[u].pc \in {"find", "put"} => load'[u].k <= Len(NicNames)
                 /\ load'[u].pc \in {"off", "check", "create"} => load'[u].k = 1
                 /\ load'[u].pc = "put" => load'[u].map # 0
                 /\ load'[u].pc \in {"find", "put"} => nic_map' # 0
      BY <2>2, <3>4 DEF LoadTypes
    <3>6. /\ load'[t].pc \in {"off", "check", "create", "find", "put", "done"}
          /\ load'[t].k \in Nat \ {0} /\ load'[t].map \in 0..2
          /\ load'[t].pc \in {"find", "put"} => load'[t].k <= Len(NicNames)
          /\ load'[t].pc \notin {"off", "check", "create", "put"} /\ nic_map' # 0
      BY <3>2, <3>3, <3>4
    <3> QED
      BY <3>4, <3>5, <3>6 DEF LoadTypes
  <2>4. <<t, NicNames[load[t].k]>> \in Stats
    BY <2>2, NicAssumption DEF LoadTypes, Stats, Names
  <2>5. maps' \in [1..2 -> [Indices -> Stats \cup {NoStat}]]
    BY <1>4, <2>4 DEF PutEntry, MapTypes
  <2>6. MapTypes'
    BY <2>1, <2>2, <2>5 DEF LoadTypes, MapTypes, Created
  <2>7. UpdateTypes'
    BY <1>0, <2>2 DEF UpdateTypes, updateVars
  <2> QED
    BY <1>0, <2>1, <2>2, <2>3, <2>6, <2>7
<1> QED
  BY <1>1, <1>2, <1>3, <1>4 DEF Load

\* Each field of an update may be set to a value of its type.
LEMMA FieldSet ==
  ASSUME NEW r \in UpdateRecords
  PROVE  /\ \A pc \in {"off", "done", "visit", "rate"} : [r EXCEPT !.pc = pc] \in UpdateRecords
         /\ \A m \in 0..2 : [r EXCEPT !.map = m] \in UpdateRecords
         /\ \A at \in Nat : [r EXCEPT !.at = at] \in UpdateRecords
         /\ \A s \in Stats : [r EXCEPT !.stat = s] \in UpdateRecords
         /\ \A n \in {"n1", "n2"} : [r EXCEPT !.curr = n] \in UpdateRecords
         /\ \A n \in {"n1", "n2"} : [r EXCEPT !.next = n] \in UpdateRecords
BY DEF UpdateRecords

\* What a sample is of: the first entry in use from where the update is.
Sampled(t, i, s) ==
  LET curr == IF n0[s] = "n2" THEN "n2" ELSE "n1"
      next == IF n0[s] = "n2" THEN "n1" ELSE "n2"
  IN  /\ i \in Indices /\ i >= update[t].at /\ maps[update[t].map][i] = s /\ s \in Stats
      /\ \A j \in Indices : j < i /\ j >= update[t].at => maps[update[t].map][j] = NoStat
      /\ update[t].pc = "visit" /\ update'[t].pc = "rate"
      /\ update'[t].map = update[t].map /\ update'[t].at = i + 1
      /\ update'[t].stat = s /\ update'[t].curr = curr /\ update'[t].next = next
      /\ taken' = [taken EXCEPT ![s] = taken[s] + 1]
      /\ n1' = IF next = "n1" THEN [n1 EXCEPT ![s] = taken[s] + 1] ELSE n1
      /\ n2' = IF next = "n1" THEN n2 ELSE [n2 EXCEPT ![s] = taken[s] + 1]

LEMMA SampleIs ==
  ASSUME NicTypes, NEW t \in Loaders, Sample(t)
  PROVE  /\ \E i, s : Sampled(t, i, s)
         /\ update' \in [Loaders -> UpdateRecords]
         /\ \A u \in Loaders \ {t} : update'[u] = update[u]
<1> DEFINE m == update[t].map
           used == InUse(m, update[t].at)
           i == CHOOSE i \in used : \A j \in used : i <= j
           s == maps[m][i]
           curr == IF n0[s] = "n2" THEN "n2" ELSE "n1"
           next == IF n0[s] = "n2" THEN "n1" ELSE "n2"
<1>1. /\ update[t].pc = "visit" /\ used # {}
      /\ update' = [update EXCEPT ![t].pc = "rate", ![t].at = i + 1, ![t].stat = s,
                                  ![t].curr = IF n0[s] # "n2" THEN "n1" ELSE "n2",
                                  ![t].next = next]
      /\ taken' = [taken EXCEPT ![s] = @ + 1]
      /\ IF next = "n1"
           THEN n1' = [n1 EXCEPT ![s] = taken'[s]] /\ UNCHANGED n2
           ELSE n2' = [n2 EXCEPT ![s] = taken'[s]] /\ UNCHANGED n1
  BY Zenon DEF Sample
<1>2. used \in SUBSET Nat
  BY NicAssumption DEF InUse, Indices
<1>3. i \in used /\ \A j \in used : i <= j
  BY <1>1, <1>2, LeastOf, Zenon
<1>4. update[t].at \in Nat /\ m \in 1..2
  <2>1. update[t] \in UpdateRecords /\ m # 0
    BY <1>1 DEF NicTypes, UpdateTypes
  <2> QED
    BY <2>1 DEF UpdateRecords
<1> HIDE DEF i
<1>5. /\ i \in Indices /\ i >= update[t].at /\ s # NoStat
      /\ \A j \in Indices : j < i /\ j >= update[t].at => maps[m][j] = NoStat
  <2>1. i \in Indices /\ i >= update[t].at /\ s # NoStat
    BY <1>3 DEF InUse
  <2>2. \A j \in Indices : j >= update[t].at /\ maps[m][j] # NoStat => i <= j
    BY <1>3 DEF InUse
  <2>3. \A j \in Indices : j \in Nat
    BY NicAssumption DEF Indices
  <2> QED
    BY <2>1, <2>2, <2>3
<1>6. s \in Stats
  BY <1>4, <1>5 DEF NicTypes, MapTypes
<1>7. (IF n0[s] # "n2" THEN "n1" ELSE "n2") = curr
  OBVIOUS
<1>8. /\ curr = IF n0[s] = "n2" THEN "n2" ELSE "n1"
      /\ next = IF n0[s] = "n2" THEN "n1" ELSE "n2"
      /\ s = maps[update[t].map][i]
  OBVIOUS
<1>9. update' = [update EXCEPT ![t].pc = "rate", ![t].at = i + 1, ![t].stat = s,
                               ![t].curr = curr, ![t].next = next]
  <2> HIDE DEF m, used, i, s, next
  <2> QED
    BY <1>1, <1>7, Zenon
<1> HIDE DEF m, used, i, s, curr, next
<1>10. taken' = [taken EXCEPT ![s] = taken[s] + 1] /\ taken'[s] = taken[s] + 1
  BY <1>1, <1>6 DEF NicTypes, UpdateTypes
<1>11. /\ update'[t].pc = "rate" /\ update'[t].map = update[t].map
       /\ update'[t].at = i + 1 /\ update'[t].stat = s
       /\ update'[t].curr = curr /\ update'[t].next = next
  BY <1>9 DEF NicTypes, UpdateTypes, UpdateRecords
<1>12. Sampled(t, i, s)
  <2>1. /\ i \in Indices /\ i >= update[t].at /\ s \in Stats
        /\ \A j \in Indices : j < i /\ j >= update[t].at => maps[update[t].map][j] = NoStat
    BY <1>5, <1>6 DEF m
  <2>2. /\ n1' = IF next = "n1" THEN [n1 EXCEPT ![s] = taken[s] + 1] ELSE n1
        /\ n2' = IF next = "n1" THEN n2 ELSE [n2 EXCEPT ![s] = taken[s] + 1]
    BY <1>1, <1>10
  <2> QED
    BY <1>1, <1>8, <1>10, <1>11, <2>1, <2>2 DEF Sampled
<1>13. /\ update' = [u \in Loaders |-> update'[u]]
       /\ \A u \in Loaders \ {t} : update'[u] = update[u]
       /\ update'[t] = [update[t] EXCEPT !.pc = "rate", !.at = i + 1, !.stat = s,
                                         !.curr = curr, !.next = next]
  BY <1>9 DEF NicTypes, UpdateTypes
<1>14. /\ update[t] \in UpdateRecords /\ i + 1 \in Nat /\ "rate" \in {"off", "done", "visit", "rate"}
       /\ curr \in {"n1", "n2"} /\ next \in {"n1", "n2"}
  BY <1>5, <1>8, NicAssumption DEF NicTypes, UpdateTypes, Indices
<1>15. update'[t] \in UpdateRecords
  <2>1. [update[t] EXCEPT !.pc = "rate"] \in UpdateRecords
    BY <1>14, FieldSet, Zenon
  <2>2. [update[t] EXCEPT !.pc = "rate", !.at = i + 1] \in UpdateRecords
    BY <2>1, <1>14, FieldSet, Zenon
  <2>3. [update[t] EXCEPT !.pc = "rate", !.at = i + 1, !.stat = s] \in UpdateRecords
    BY <2>2, <1>6, FieldSet, Zenon
  <2>4. [update[t] EXCEPT !.pc = "rate", !.at = i + 1, !.stat = s, !.curr = curr]
          \in UpdateRecords
    BY <2>3, <1>14, FieldSet, Zenon
  <2>5. [update[t] EXCEPT !.pc = "rate", !.at = i + 1, !.stat = s, !.curr = curr, !.next = next]
          \in UpdateRecords
    BY <2>4, <1>14, FieldSet, Zenon
  <2> QED
    BY <2>5, <1>13
<1>16. update' \in [Loaders -> UpdateRecords]
  BY <1>13, <1>15 DEF NicTypes, UpdateTypes
<1> QED
  BY <1>12, <1>13, <1>16, Zenon

LEMMA SampleKeeps ==
  ASSUME NicTypes, NEW t \in Loaders, Sample(t), UNCHANGED loadVars
  PROVE  /\ NicTypes' /\ update'[t].pc = "rate"
         /\ \A u \in Loaders \ {t} : update'[u] = update[u]
<1>1. PICK i, s : Sampled(t, i, s)
  BY SampleIs
<1>2. /\ update' \in [Loaders -> UpdateRecords]
      /\ \A u \in Loaders \ {t} : update'[u] = update[u]
  BY SampleIs
<1>3. UNCHANGED <<n0, rate>> /\ updaters' = updaters \cup {t}
  BY DEF Sample
<1>4. update'[t].map # 0 /\ update'[t].pc = "rate"
  BY <1>1 DEF Sampled, NicTypes, UpdateTypes
<1>5. n1' \in [Stats -> Nat] /\ n2' \in [Stats -> Nat] /\ taken' \in [Stats -> Nat]
  BY <1>1 DEF Sampled, NicTypes, UpdateTypes
<1>6. UpdateTypes'
  BY <1>2, <1>3, <1>4, <1>5 DEF NicTypes, UpdateTypes
<1>7. LoadTypes' /\ MapTypes'
  BY DEF NicTypes, LoadTypes, Shaped, MapTypes, Created, loadVars
<1> QED
  BY <1>2, <1>4, <1>6, <1>7 DEF NicTypes

\* What becomes of an update when the callback has returned.
LEMMA WalkOnIs ==
  ASSUME NicTypes, NEW t \in Loaders, update[t].map # 0, WalkOn(t)
  PROVE  /\ update' \in [Loaders -> UpdateRecords]
         /\ \A u \in Loaders \ {t} : update'[u] = update[u]
         /\ \/ /\ update'[t].pc = "visit"
               /\ update'[t].map = update[t].map /\ update'[t].at = update[t].at
            \/ Statuses # {MapOk} /\ update'[t].pc = "done"
<1> DEFINE r == [update[t] EXCEPT !.pc = "visit"]
<1>1. update \in [Loaders -> UpdateRecords] /\ update[t] \in UpdateRecords
  BY DEF NicTypes, UpdateTypes
<1>2. /\ r \in UpdateRecords /\ r.pc = "visit" /\ r.map = update[t].map
      /\ r.at = update[t].at
  BY <1>1 DEF UpdateRecords
<1>3. UpdateDone \in UpdateRecords /\ UpdateDone.pc = "done"
  BY DEF UpdateDone, NoUpdate, UpdateRecords
<1>4. CASE update' = [update EXCEPT ![t].pc = "visit"]
  <2>1. update' = [update EXCEPT ![t] = r]
    BY <1>4
  <2> HIDE DEF r
  <2> QED
    BY <1>1, <1>2, <2>1
<1>5. CASE Statuses # {MapOk} /\ update' = [update EXCEPT ![t] = UpdateDone]
  BY <1>1, <1>3, <1>5
<1> QED
  BY <1>4, <1>5 DEF WalkOn

LEMMA TakeRateKeeps ==
  ASSUME NicTypes, NEW t \in Loaders, TakeRate(t), UNCHANGED loadVars
  PROVE  /\ NicTypes'
         /\ \/ /\ update'[t].pc = "visit"
               /\ update'[t].map = update[t].map /\ update'[t].at = update[t].at
            \/ Statuses # {MapOk} /\ update'[t].pc = "done"
         /\ \A u \in Loaders \ {t} : update'[u] = update[u]
<1>1. /\ update[t].pc = "rate" /\ update[t].map # 0
      /\ n0' = [n0 EXCEPT ![update[t].stat] = update[t].next]
      /\ UNCHANGED <<n1, n2, taken, updaters>>
  BY DEF TakeRate, NicTypes, UpdateTypes
<1>2. /\ update' \in [Loaders -> UpdateRecords]
      /\ \A u \in Loaders \ {t} : update'[u] = update[u]
      /\ \/ /\ update'[t].pc = "visit"
            /\ update'[t].map = update[t].map /\ update'[t].at = update[t].at
         \/ Statuses # {MapOk} /\ update'[t].pc = "done"
  BY <1>1, WalkOnIs DEF TakeRate
<1>3. n0' \in [Stats -> {Nobody, "n1", "n2"}]
  BY <1>1 DEF NicTypes, UpdateTypes, UpdateRecords
<1>4. rate' \in [Stats -> Int \X Int]
  <2> DEFINE s == update[t].stat
             of(n) == IF n = "n1" THEN n1[s] ELSE n2[s]
             pair == IF n0[s] = Nobody THEN Unknown
                     ELSE <<of(update[t].curr), of(update[t].next)>>
  <2>1. rate' = [rate EXCEPT ![s] = pair]
    BY DEF TakeRate
  <2>2. s \in Stats => pair \in Int \X Int
    BY DEF NicTypes, UpdateTypes, Unknown
  <2> HIDE DEF pair, s
  <2> QED
    BY <2>1, <2>2 DEF NicTypes, UpdateTypes
<1>5. UpdateTypes'
  BY <1>1, <1>2, <1>3, <1>4 DEF NicTypes, UpdateTypes
<1>6. LoadTypes' /\ MapTypes'
  BY DEF NicTypes, LoadTypes, Shaped, MapTypes, Created, loadVars
<1> QED
  BY <1>2, <1>5, <1>6 DEF NicTypes

LEMMA EndUpdateKeeps ==
  ASSUME NicTypes, NEW t \in Loaders, EndUpdate(t), UNCHANGED loadVars
  PROVE  /\ NicTypes' /\ update'[t].pc = "done"
         /\ \A u \in Loaders \ {t} : update'[u] = update[u]
<1>1. UpdateDone \in UpdateRecords /\ UpdateDone.pc = "done"
  BY DEF UpdateDone, UpdateRecords, NoUpdate
<1>2. /\ update' = [update EXCEPT ![t] = UpdateDone]
      /\ UNCHANGED <<n0, n1, n2, rate, taken, updaters>>
  BY DEF EndUpdate
<1>3. UpdateTypes' /\ update'[t] = UpdateDone /\ \A u \in Loaders \ {t} : update'[u] = update[u]
  BY <1>1, <1>2 DEF NicTypes, UpdateTypes
<1>4. LoadTypes' /\ MapTypes'
  BY DEF NicTypes, LoadTypes, Shaped, MapTypes, Created, loadVars
<1> QED
  BY <1>1, <1>3, <1>4 DEF NicTypes

LEMMA BeginUpdateKeeps ==
  ASSUME NicTypes, NEW t \in Loaders, BeginUpdate(t), UNCHANGED loadVars
  PROVE  /\ NicTypes'
         /\ update'[t].map = nic_map /\ update'[t].at = 0
         /\ update'[t].pc = IF nic_map = 0 \/ InUse(nic_map, 0) = {} THEN "done" ELSE "visit"
         /\ \A u \in Loaders \ {t} : update'[u] = update[u]
<1> DEFINE p == IF nic_map = 0 \/ InUse(nic_map, 0) = {} THEN "done" ELSE "visit"
<1>1. /\ update' = [update EXCEPT ![t].pc = p, ![t].map = nic_map, ![t].at = 0]
      /\ UNCHANGED <<n0, n1, n2, rate, taken, updaters>>
  BY DEF BeginUpdate
<1>2. p \in {"off", "done", "visit", "rate"} /\ p # "rate" /\ (p = "visit" => nic_map # 0)
  OBVIOUS
<1> HIDE DEF p
<1>3. /\ update' = [u \in Loaders |-> update'[u]]
      /\ \A u \in Loaders \ {t} : update'[u] = update[u]
      /\ update'[t] = [update[t] EXCEPT !.pc = p, !.map = nic_map, !.at = 0]
  BY <1>1 DEF NicTypes, UpdateTypes
<1>4. update'[t].pc = p /\ update'[t].map = nic_map /\ update'[t].at = 0
  BY <1>1 DEF NicTypes, UpdateTypes, UpdateRecords
<1>5. update'[t] \in UpdateRecords
  <2>1. update[t] \in UpdateRecords /\ nic_map \in 0..2 /\ 0 \in Nat
    BY DEF NicTypes, UpdateTypes, MapTypes
  <2>2. [update[t] EXCEPT !.pc = p] \in UpdateRecords
    BY <2>1, <1>2, FieldSet, Zenon
  <2>3. [update[t] EXCEPT !.pc = p, !.map = nic_map] \in UpdateRecords
    BY <2>1, <2>2, FieldSet, Zenon
  <2>4. [update[t] EXCEPT !.pc = p, !.map = nic_map, !.at = 0] \in UpdateRecords
    BY <2>1, <2>3, FieldSet, Zenon
  <2> QED
    BY <2>4, <1>3
<1>6. update' \in [Loaders -> UpdateRecords]
  BY <1>3, <1>5 DEF NicTypes, UpdateTypes
<1>7. UpdateTypes'
  BY <1>1, <1>2, <1>3, <1>4, <1>6 DEF NicTypes, UpdateTypes
<1>8. LoadTypes' /\ MapTypes'
  BY DEF NicTypes, LoadTypes, Shaped, MapTypes, Created, loadVars
<1> QED
  BY <1>3, <1>4, <1>7, <1>8 DEF NicTypes, p

LEMMA SameKeeps ==
  ASSUME NicTypes, UNCHANGED nicVars PROVE NicTypes'
BY DEF NicTypes, LoadTypes, Shaped, MapTypes, Created, UpdateTypes, nicVars, loadVars, updateVars

LEMMA MainKeepsNic ==
  ASSUME NicInv, ~exited, Main PROVE NicTypes' /\ Places'
<1> USE LoaderAssumption DEF NicInv
<1>1. CASE StartNics
  <2>1. NicTypes' /\ \A u \in Loaders \ {"nic"} : load'[u] = load[u]
    BY <1>1, BeginLoadKeeps DEF StartNics, Places
  <2> QED
    BY <1>1, <2>1 DEF StartNics, Places, updateVars
<1>2. CASE OpenDb
  BY <1>2, SameKeeps DEF OpenDb, Places, nicVars, loadVars, updateVars
<1>3. CASE CloseDb
  BY <1>3, SameKeeps DEF CloseDb, Places, nicVars, loadVars, updateVars
<1>4. CASE StartThreads
  BY <1>4, SameKeeps DEF StartThreads, Places, nicVars, loadVars, updateVars
<1>5. CASE Return
  BY <1>5, SameKeeps DEF Return, Places, threadVars, nicVars, loadVars, updateVars
<1> QED
  BY <1>1, <1>2, <1>3, <1>4, <1>5 DEF Main

LEMMA CronKeepsNic ==
  ASSUME NicInv, ~exited, CronThread PROVE NicTypes' /\ Places'
<1> USE LoaderAssumption DEF NicInv
<1>1. CASE CronStart
  <2>1. CASE UNCHANGED load
    BY <1>1, <2>1, SameKeeps DEF CronStart, Places, nicVars, loadVars, updateVars
  <2>2. CASE cron_pc' = "load" /\ BeginLoad("cron")
    <3>1. NicTypes' /\ \A u \in Loaders \ {"cron"} : load'[u] = load[u]
      BY <1>1, <2>2, BeginLoadKeeps DEF CronStart, Places
    <3> QED
      BY <1>1, <2>2, <3>1 DEF CronStart, Places, updateVars
  <2> QED
    BY <1>1, <2>1, <2>2 DEF CronStart
<1>2. CASE CronPool
  BY <1>2, SameKeeps DEF CronPool, Places, nicVars, loadVars, updateVars
<1>3. CASE CronWake
  <2>1. NicTypes' /\ \A u \in Loaders \ {"cron"} : update'[u] = update[u]
    BY <1>3, BeginUpdateKeeps DEF CronWake
  <2> QED
    BY <1>3, <2>1 DEF CronWake, Places, loadVars
<1>4. CASE CronIterate
  BY <1>4, SameKeeps DEF CronIterate, Places, nicVars, loadVars, updateVars
<1>5. CASE CronDrain
  BY <1>5, SameKeeps DEF CronDrain, Places, nicVars, loadVars, updateVars
<1>6. CASE CronFree
  BY <1>6, SameKeeps DEF CronFree, Places, nicVars, loadVars, updateVars
<1> QED
  BY <1>1, <1>2, <1>3, <1>4, <1>5, <1>6 DEF CronThread

LEMMA NicThreadKeeps ==
  ASSUME NicInv, ~exited, NicThread PROVE NicTypes' /\ Places'
<1> USE LoaderAssumption DEF NicInv
<1>1. CASE NicWake /\ signal
  BY <1>1, SameKeeps DEF NicWake, Places, nicVars, loadVars, updateVars
<1>2. CASE NicWake /\ ~signal
  <2>1. NicTypes' /\ \A u \in Loaders \ {"nic"} : update'[u] = update[u]
    BY <1>2, BeginUpdateKeeps DEF NicWake
  <2> QED
    BY <1>2, <2>1 DEF NicWake, Places, loadVars
<1>3. CASE NicSleep
  BY <1>3, SameKeeps DEF NicSleep, Places, nicVars, loadVars, updateVars
<1> QED
  BY <1>1, <1>2, <1>3 DEF NicThread

LEMMA NicStepKeeps ==
  ASSUME NicInv, NEW t \in Loaders, NicStep(t) PROVE NicTypes' /\ Places'
<1> USE LoaderAssumption DEF NicInv
<1>1. UNCHANGED threadVars
  BY DEF NicStep
<1>2. CASE Load(t)
  BY <1>1, <1>2, LoadKeeps DEF Places, threadVars
<1>3. CASE UpdateStep(t)
  <2>1. UNCHANGED <<threadVars, load>>
    BY <1>1, <1>3 DEF UpdateStep, loadVars
  <2>2. update[t].pc \in {"visit", "rate"}
    BY <1>3 DEF UpdateStep, Sample, TakeRate, EndUpdate
  <2>3. NicTypes' /\ \A u \in Loaders \ {t} : update'[u] = update[u]
    BY <1>3, SampleKeeps, TakeRateKeeps, EndUpdateKeeps DEF UpdateStep
  <2> QED
    BY <2>1, <2>2, <2>3 DEF Places, threadVars
<1> QED
  BY <1>2, <1>3 DEF NicStep

LEMMA NextNicInv == NicInv /\ [Next]_vars => NicInv'
<1> SUFFICES ASSUME NicInv, [Next]_vars PROVE NicInv'
  OBVIOUS
<1>1. DInv'
  BY NextDInv DEF NicInv
<1>2. CASE ~exited /\ Main
  BY <1>1, <1>2, MainKeepsNic DEF NicInv
<1>3. CASE ~exited /\ CronThread
  BY <1>1, <1>3, CronKeepsNic DEF NicInv
<1>4. CASE ~exited /\ NicThread
  BY <1>1, <1>4, NicThreadKeeps DEF NicInv
<1>5. CASE ~exited /\ \E t \in Loaders : NicStep(t)
  BY <1>1, <1>5, NicStepKeeps DEF NicInv
<1>6. ASSUME UNCHANGED <<nicVars, main_pc, cron_pc, nic_pc>> PROVE NicTypes' /\ Places'
  BY <1>6, SameKeeps DEF NicInv, Places, nicVars, loadVars, updateVars
<1>7. CASE ~exited /\ Signal
  BY <1>1, <1>6, <1>7 DEF NicInv, Signal, threadVars
<1>8. CASE ~exited /\ Admin
  BY <1>1, <1>6, <1>8 DEF NicInv, Admin, AdminStart, AdminStop
<1>9. CASE ~exited /\ \E s \in Scripts : Script(s)
  BY <1>1, <1>6, <1>9 DEF NicInv, Script, ScriptStart, ScriptRates, ScriptEnd, threadVars
<1>10. CASE UNCHANGED vars
  BY <1>1, <1>6, <1>10 DEF NicInv, vars, threadVars
<1> QED
  BY <1>2, <1>3, <1>4, <1>5, <1>7, <1>8, <1>9, <1>10 DEF Next

LEMMA NicInvHolds == Spec => []NicInv
BY InitNicInv, NextNicInv, PTL DEF Spec

-----------------------------------------------------------------------------
(* Rates.                                                                  *)

\* No more than one thread has updated.
OneUpdates == \A t, u \in updaters : t = u

\* A sample of s has been taken and its rate has not.
HasSampled(t, s) == update[t].pc = "rate" /\ update[t].stat = s

\* The buffer that n0 points at has the last sample; in the middle of an update the one
\* before it, and the other buffer has the last.
SampleInv ==
  /\ \A t \in Loaders : update[t].pc = "rate" => t \in updaters
  /\ OneUpdates =>
       \A s \in Stats :
         /\ (\A t \in Loaders : ~HasSampled(t, s)) =>
              (n0[s] = "n1" => n1[s] = taken[s]) /\ (n0[s] = "n2" => n2[s] = taken[s])
         /\ \A t \in Loaders : HasSampled(t, s) =>
              /\ update[t].curr = IF n0[s] = "n2" THEN "n2" ELSE "n1"
              /\ update[t].next = IF n0[s] = "n2" THEN "n1" ELSE "n2"
              /\ n0[s] = "n2" => n1[s] = taken[s] /\ n2[s] = taken[s] - 1
              /\ n0[s] = "n1" => n2[s] = taken[s] /\ n1[s] = taken[s] - 1
              /\ n0[s] = Nobody => n2[s] = taken[s]
         /\ rate[s] \in {Garbage, Unknown} \/ rate[s][2] = rate[s][1] + 1

LEMMA SampleInvSample ==
  ASSUME NicInv, SampleInv, NEW t \in Loaders, Sample(t), UNCHANGED loadVars
  PROVE  SampleInv'
<1>1. PICK i, s : Sampled(t, i, s)
  BY SampleIs DEF NicInv
<1>2. /\ \A u \in Loaders \ {t} : update'[u] = update[u]
      /\ UNCHANGED <<n0, rate>> /\ updaters' = updaters \cup {t}
  BY SampleIs DEF NicInv, Sample
<1>3. s \in Stats /\ update[t].pc = "visit" /\ update'[t].pc = "rate" /\ update'[t].stat = s
  BY <1>1 DEF Sampled
<1>4. \A u \in Loaders : update'[u].pc = "rate" => u \in updaters'
  BY <1>2 DEF SampleInv
<1>5. SUFFICES ASSUME OneUpdates', NEW x \in Stats
      PROVE  /\ (\A u \in Loaders : ~HasSampled(u, x)') =>
                  (n0'[x] = "n1" => n1'[x] = taken'[x]) /\ (n0'[x] = "n2" => n2'[x] = taken'[x])
             /\ \A u \in Loaders : HasSampled(u, x)' =>
                  /\ update'[u].curr = IF n0'[x] = "n2" THEN "n2" ELSE "n1"
                  /\ update'[u].next = IF n0'[x] = "n2" THEN "n1" ELSE "n2"
                  /\ n0'[x] = "n2" => n1'[x] = taken'[x] /\ n2'[x] = taken'[x] - 1
                  /\ n0'[x] = "n1" => n2'[x] = taken'[x] /\ n1'[x] = taken'[x] - 1
                  /\ n0'[x] = Nobody => n2'[x] = taken'[x]
             /\ rate'[x] \in {Garbage, Unknown} \/ rate'[x][2] = rate'[x][1] + 1
  BY <1>4 DEF SampleInv
<1>6. OneUpdates /\ \A u \in Loaders \ {t} : update[u].pc # "rate" /\ update'[u].pc # "rate"
  BY <1>2, <1>4, <1>5 DEF OneUpdates
<1>7. CASE x # s
  <2>1. n1'[x] = n1[x] /\ n2'[x] = n2[x] /\ taken'[x] = taken[x]
    BY <1>1, <1>7 DEF Sampled, NicInv, NicTypes, UpdateTypes
  <2>2. \A u \in Loaders : ~HasSampled(u, x) /\ ~HasSampled(u, x)'
    BY <1>3, <1>6, <1>7 DEF HasSampled
  <2> QED
    BY <1>2, <1>6, <2>1, <2>2 DEF SampleInv
<1>8. CASE x = s
  <2>1. \A u \in Loaders : ~HasSampled(u, s)
    BY <1>3, <1>6 DEF HasSampled
  <2>2. (n0[s] = "n1" => n1[s] = taken[s]) /\ (n0[s] = "n2" => n2[s] = taken[s])
    BY <1>3, <1>6, <2>1 DEF SampleInv
  <2>3. taken'[s] = taken[s] + 1 /\ taken[s] \in Nat /\ n0[s] \in {Nobody, "n1", "n2"}
    BY <1>1, <1>3 DEF Sampled, NicInv, NicTypes, UpdateTypes
  <2>4. /\ n0[s] = "n2" => n1'[s] = taken[s] + 1 /\ n2'[s] = n2[s]
        /\ n0[s] # "n2" => n2'[s] = taken[s] + 1 /\ n1'[s] = n1[s]
    BY <1>1, <1>3 DEF Sampled, NicInv, NicTypes, UpdateTypes
  <2>5. /\ update'[t].curr = IF n0[s] = "n2" THEN "n2" ELSE "n1"
        /\ update'[t].next = IF n0[s] = "n2" THEN "n1" ELSE "n2"
    BY <1>1 DEF Sampled
  <2>6. \A u \in Loaders : HasSampled(u, s)' <=> u = t
    BY <1>3, <1>6 DEF HasSampled
  <2>7. rate[s] \in {Garbage, Unknown} \/ rate[s][2] = rate[s][1] + 1
    BY <1>3, <1>6 DEF SampleInv
  <2> QED
    BY <1>2, <1>8, <2>2, <2>3, <2>4, <2>5, <2>6, <2>7 DEF Nobody
<1> QED
  BY <1>7, <1>8

LEMMA SampleInvTake ==
  ASSUME NicInv, SampleInv, NEW t \in Loaders, TakeRate(t), UNCHANGED loadVars
  PROVE  SampleInv'
<1> DEFINE s == update[t].stat
           of(n) == IF n = "n1" THEN n1[s] ELSE n2[s]
           pair == IF n0[s] = Nobody THEN Unknown
                   ELSE <<of(update[t].curr), of(update[t].next)>>
<1>1. /\ update[t].pc = "rate" /\ update'[t].pc # "rate"
      /\ \A u \in Loaders \ {t} : update'[u] = update[u]
      /\ rate' = [rate EXCEPT ![s] = pair]
      /\ n0' = [n0 EXCEPT ![s] = update[t].next]
      /\ UNCHANGED <<n1, n2, taken, updaters>>
  BY TakeRateKeeps DEF NicInv, TakeRate
<1>2. \A u \in Loaders : update'[u].pc = "rate" => u \in updaters'
  BY <1>1 DEF SampleInv
<1>3. SUFFICES ASSUME OneUpdates', NEW x \in Stats
      PROVE  /\ (\A u \in Loaders : ~HasSampled(u, x)') =>
                  (n0'[x] = "n1" => n1'[x] = taken'[x]) /\ (n0'[x] = "n2" => n2'[x] = taken'[x])
             /\ \A u \in Loaders : ~HasSampled(u, x)'
             /\ rate'[x] \in {Garbage, Unknown} \/ rate'[x][2] = rate'[x][1] + 1
  BY <1>2 DEF SampleInv
<1>4. OneUpdates /\ \A u \in Loaders \ {t} : update[u].pc # "rate" /\ update'[u].pc # "rate"
  BY <1>1, <1>3 DEF OneUpdates, SampleInv
<1>5. \A u \in Loaders : ~HasSampled(u, x)'
  BY <1>1, <1>4 DEF HasSampled
<1>6. CASE x # s
  <2>1. n0'[x] = n0[x] /\ rate'[x] = rate[x]
    BY <1>1, <1>6 DEF NicInv, NicTypes, UpdateTypes
  <2>2. \A u \in Loaders : ~HasSampled(u, x)
    BY <1>4, <1>6 DEF HasSampled
  <2> QED
    BY <1>1, <1>4, <1>5, <2>1, <2>2 DEF SampleInv
<1>7. CASE x = s
  <2>1. n0'[s] = update[t].next /\ rate'[s] = pair
    BY <1>1, <1>7 DEF NicInv, NicTypes, UpdateTypes
  <2>2. /\ update[t].curr = IF n0[s] = "n2" THEN "n2" ELSE "n1"
        /\ update[t].next = IF n0[s] = "n2" THEN "n1" ELSE "n2"
        /\ n0[s] = "n2" => n1[s] = taken[s] /\ n2[s] = taken[s] - 1
        /\ n0[s] = "n1" => n2[s] = taken[s] /\ n1[s] = taken[s] - 1
        /\ n0[s] = Nobody => n2[s] = taken[s]
    BY <1>1, <1>4, <1>7 DEF SampleInv, HasSampled
  <2>3. n0[s] \in {Nobody, "n1", "n2"} /\ taken[s] \in Nat
    BY <1>7 DEF NicInv, NicTypes, UpdateTypes
  <2>4. pair \in {Garbage, Unknown} \/ pair[2] = pair[1] + 1
    <3>1. CASE n0[s] = Nobody
      BY <3>1
    <3>2. CASE n0[s] = "n1"
      BY <3>2, <2>2, <2>3 DEF Nobody
    <3>3. CASE n0[s] = "n2"
      BY <3>3, <2>2, <2>3 DEF Nobody
    <3> QED
      BY <2>3, <3>1, <3>2, <3>3
  <2> HIDE DEF pair, s
  <2> QED
    BY <1>1, <1>5, <1>7, <2>1, <2>2, <2>3, <2>4
<1> QED
  BY <1>6, <1>7

\* Steps that take no sample and no rate.
LEMMA SampleInvOther ==
  ASSUME NicInv, SampleInv, UNCHANGED <<n0, n1, n2, rate, taken, updaters>>,
         \A t \in Loaders :
           \/ update'[t] = update[t]
           \/ update[t].pc # "rate" /\ update'[t].pc # "rate"
  PROVE  SampleInv'
<1>1. \A t \in Loaders, s \in Stats : HasSampled(t, s)' => HasSampled(t, s) /\ update'[t] = update[t]
  BY DEF HasSampled
<1>2. \A t \in Loaders, s \in Stats : HasSampled(t, s) => HasSampled(t, s)'
  BY DEF HasSampled
<1>3. OneUpdates' => OneUpdates
  BY DEF OneUpdates
<1>4. \A t \in Loaders : update'[t].pc = "rate" => t \in updaters'
  BY DEF SampleInv
<1>5. ASSUME OneUpdates', NEW s \in Stats
      PROVE  /\ (\A t \in Loaders : ~HasSampled(t, s)') =>
                  (n0'[s] = "n1" => n1'[s] = taken'[s]) /\ (n0'[s] = "n2" => n2'[s] = taken'[s])
             /\ \A t \in Loaders : HasSampled(t, s)' =>
                  /\ update'[t].curr = IF n0'[s] = "n2" THEN "n2" ELSE "n1"
                  /\ update'[t].next = IF n0'[s] = "n2" THEN "n1" ELSE "n2"
                  /\ n0'[s] = "n2" => n1'[s] = taken'[s] /\ n2'[s] = taken'[s] - 1
                  /\ n0'[s] = "n1" => n2'[s] = taken'[s] /\ n1'[s] = taken'[s] - 1
                  /\ n0'[s] = Nobody => n2'[s] = taken'[s]
             /\ rate'[s] \in {Garbage, Unknown} \/ rate'[s][2] = rate'[s][1] + 1
  BY <1>1, <1>2, <1>3, <1>5 DEF SampleInv
<1> QED
  BY <1>4, <1>5 DEF SampleInv

LEMMA InitSampleInv == Init => SampleInv
<1> SUFFICES ASSUME Init PROVE SampleInv
  OBVIOUS
<1>1. /\ \A s \in Stats : n0[s] = Nobody /\ rate[s] = Garbage
      /\ \A t \in Loaders : update[t].pc = "off"
  BY DEF Init, NicInit, NoUpdate
<1> QED
  BY <1>1 DEF SampleInv, HasSampled, Nobody

LEMMA NextSampleInv == NicInv /\ SampleInv /\ [Next]_vars => SampleInv'
<1> SUFFICES ASSUME NicInv, SampleInv, [Next]_vars PROVE SampleInv'
  OBVIOUS
<1> USE LoaderAssumption
<1>1. ASSUME UNCHANGED updateVars PROVE SampleInv'
  BY <1>1, SampleInvOther DEF updateVars
<1>2. ASSUME NEW t \in Loaders, NicStep(t) PROVE SampleInv'
  <2>1. CASE Load(t)
    BY <1>1, <2>1 DEF Load
  <2>2. CASE UpdateStep(t) /\ Sample(t)
    BY <2>2, SampleInvSample DEF UpdateStep
  <2>3. CASE UpdateStep(t) /\ TakeRate(t)
    BY <2>3, SampleInvTake DEF UpdateStep
  <2>4. CASE UpdateStep(t) /\ EndUpdate(t)
    <3>1. /\ update[t].pc = "visit" /\ update'[t].pc = "done"
          /\ \A u \in Loaders \ {t} : update'[u] = update[u]
          /\ UNCHANGED <<n0, n1, n2, rate, taken, updaters>>
      BY <2>4, EndUpdateKeeps DEF NicInv, UpdateStep, EndUpdate
    <3> QED
      BY <3>1, SampleInvOther
  <2> QED
    BY <1>2, <2>1, <2>2, <2>3, <2>4 DEF NicStep, UpdateStep
<1>3. ASSUME NEW t \in Loaders, BeginUpdate(t), UNCHANGED loadVars,
             update[t].pc \in {"off", "done"}
      PROVE  SampleInv'
  <2>1. update'[t].pc # "rate" /\ \A u \in Loaders \ {t} : update'[u] = update[u]
    BY <1>3, BeginUpdateKeeps DEF NicInv
  <2>2. UNCHANGED <<n0, n1, n2, rate, taken, updaters>>
    BY <1>3 DEF BeginUpdate
  <2> QED
    BY <1>3, <2>1, <2>2, SampleInvOther
<1>4. CASE CronWake
  BY <1>3, <1>4 DEF CronWake, NicInv, Places
<1>5. CASE NicWake /\ ~signal
  BY <1>3, <1>5 DEF NicWake, NicInv, Places
<1>6. CASE NicWake /\ signal
  BY <1>1, <1>6 DEF NicWake, updateVars
<1>7. CASE Signal \/ Admin \/ NicSleep \/ (\E s \in Scripts : Script(s)) \/ UNCHANGED vars
  BY <1>1, <1>7
     DEF Signal, Admin, AdminStart, AdminStop, NicSleep, Script, ScriptStart, ScriptRates,
         ScriptEnd, vars, nicVars
<1>8. CASE Main
  BY <1>1, <1>8 DEF Main, OpenDb, CloseDb, StartThreads, StartNics, Return, nicVars
<1>9. CASE CronStart \/ CronPool \/ CronIterate \/ CronDrain \/ CronFree
  BY <1>1, <1>9 DEF CronStart, CronPool, CronIterate, CronDrain, CronFree, nicVars
<1> QED
  BY <1>2, <1>4, <1>5, <1>6, <1>7, <1>8, <1>9 DEF Next, CronThread, NicThread

\* While one thread updates, every rate is of two samples in a row.
THEOREM RatesAreOfTwoSamples == Spec => []RatesFromTwoSamples
<1>1. NicInv /\ SampleInv => RatesFromTwoSamples
  <2> SUFFICES ASSUME NicInv, SampleInv, Cardinality(updaters) <= 1
               PROVE  \A s \in Stats : rate[s] \in {Garbage, Unknown}
                                         \/ rate[s][2] = rate[s][1] + 1
    BY DEF RatesFromTwoSamples
  <2>1. IsFiniteSet(updaters)
    <3>1. IsFiniteSet({"nic"} \cup {"cron"})
      BY FS_Singleton, FS_AddElement, Zenon
    <3>2. updaters \subseteq {"nic"} \cup {"cron"}
      BY LoaderAssumption DEF NicInv, NicTypes, UpdateTypes
    <3> QED
      BY <3>1, <3>2, FS_Subset
  <2>2. ASSUME NEW t \in updaters, NEW u \in updaters, t # u PROVE FALSE
    <3>1. IsFiniteSet({t}) /\ Cardinality({t}) = 1
      BY FS_Singleton, Zenon
    <3>2. Cardinality({t} \cup {u}) = 2
      BY <2>2, <3>1, FS_AddElement
    <3>3. {t} \cup {u} \in SUBSET updaters
      OBVIOUS
    <3>4. Cardinality({t} \cup {u}) <= Cardinality(updaters)
      BY <2>1, <3>3, FS_Subset
    <3>5. Cardinality(updaters) \in Nat
      BY <2>1, FS_CardinalityType
    <3> QED
      BY <3>2, <3>4, <3>5
  <2> QED
    BY <2>2 DEF SampleInv, OneUpdates
<1> QED
  BY <1>1, InitSampleInv, NextSampleInv, NicInvHolds, PTL DEF Spec

-----------------------------------------------------------------------------
(* The interfaces that are found.                                          *)

\* i is the first entry of the name's chain that is free or the name's own.
FirstFit(m, name, i) ==
  \E k \in 1..ChainLength :
    /\ i = Chain(name)[k] /\ Fits(m, name, i)
    /\ \A j \in 1..(k - 1) : ~Fits(m, name, Chain(name)[j])

\* Every name that is in the first map is at the first entry that fits it.
WellHashed ==
  \A i \in Indices : maps[1][i] # NoStat => FirstFit(1, maps[1][i][2], i)

Filling(t) == load[t].pc \in {"find", "put"}

\* As long as there is one map, one loader fills it, and the names before its place are
\* found there.
FoundInv ==
  /\ nic_map = 0 => \A t \in Loaders : load[t].pc \in {"off", "check", "create"}
  /\ nic_map <= 1 => WellHashed
  /\ nic_map = 1 =>
       /\ \A t, u \in Loaders : Filling(t) /\ Filling(u) => t = u
       /\ \A t \in Loaders : load[t].pc = "put" =>
            load[t].map = 1 /\ FirstFit(1, NicNames[load[t].k], load[t].at)
       /\ \A t \in Loaders : Filling(t) =>
            \A k \in 1..(load[t].k - 1) : NicNames[k] \in Found(1)
       /\ (\A t \in Loaders : ~Filling(t)) => Names \subseteq Found(1)

LEMMA NamesFinite == IsFiniteSet(Names)
<1> DEFINE list == [k \in 1..Len(NicNames) |-> NicNames[k]]
<1>1. Len(NicNames) \in Nat /\ \A k \in 1..Len(NicNames) : NicNames[k] \in Names
  BY NicAssumption DEF Names
<1>2. IsFiniteSet(1..Len(NicNames))
  BY <1>1, FS_Interval
<1>3. list \in Surjection(1..Len(NicNames), Names)
  BY <1>1 DEF Surjection, Names
<1> QED
  BY <1>2, <1>3, FS_Surjection

\* There is an entry for every name: were all entries of its chain in use, the names there
\* would be different ones, and too many.
LEMMA ChainHasRoom ==
  ASSUME NicTypes, WellHashed, NEW name \in Names
  PROVE  \E k \in 1..ChainLength : Fits(1, name, Chain(name)[k])
<1> SUFFICES ASSUME \A k \in 1..ChainLength : ~Fits(1, name, Chain(name)[k]) PROVE FALSE
  OBVIOUS
<1> DEFINE others == Meeting(name) \ {name}
           there == [k \in 1..ChainLength |-> maps[1][Chain(name)[k]][2]]
<1>1. ChainLength \in Nat \ {0} /\ maps[1] \in [Indices -> Stats \cup {NoStat}]
  BY NicAssumption DEF NicTypes, MapTypes
<1>2. ASSUME NEW k \in 1..ChainLength
      PROVE  /\ Chain(name)[k] \in Indices /\ maps[1][Chain(name)[k]] # NoStat
             /\ there[k] \in Names \ {name}
             /\ FirstFit(1, there[k], Chain(name)[k])
  <2>1. Chain(name)[k] \in Indices
    BY ChainEntries
  <2>2. maps[1][Chain(name)[k]] # NoStat /\ maps[1][Chain(name)[k]][2] # name
    BY DEF Fits
  <2>3. maps[1][Chain(name)[k]][2] \in Names
    BY <1>1, <2>1, <2>2 DEF Stats
  <2> QED
    BY <2>1, <2>2, <2>3 DEF WellHashed
<1> HIDE DEF there
<1>3. \A k \in 1..ChainLength : there[k] \in others
  BY <1>2 DEF FirstFit, Meeting
<1>4. there \in [1..ChainLength -> others]
  BY <1>3 DEF there
<1>5. ASSUME NEW a \in 1..ChainLength, NEW b \in 1..ChainLength, there[a] = there[b]
      PROVE  a = b
  <2>1. PICK k \in 1..ChainLength :
          /\ Chain(name)[a] = Chain(there[a])[k] /\ Fits(1, there[a], Chain(name)[a])
          /\ \A j \in 1..(k - 1) : ~Fits(1, there[a], Chain(there[a])[j])
    BY <1>2 DEF FirstFit
  <2>2. PICK l \in 1..ChainLength :
          /\ Chain(name)[b] = Chain(there[a])[l] /\ Fits(1, there[a], Chain(name)[b])
          /\ \A j \in 1..(l - 1) : ~Fits(1, there[a], Chain(there[a])[j])
    BY <1>2, <1>5 DEF FirstFit
  <2>3. ~(k < l) /\ ~(l < k)
    BY <2>1, <2>2, <1>1
  <2> QED
    BY <2>1, <2>2, <2>3, ChainEntries
<1>6. IsFiniteSet(Meeting(name)) /\ Cardinality(Meeting(name)) \in Nat
  BY NamesFinite, FS_Subset, FS_CardinalityType DEF Meeting
<1>7. name \in Meeting(name)
  BY <1>1 DEF Meeting
<1>8. IsFiniteSet(others) /\ Cardinality(others) = Cardinality(Meeting(name)) - 1
  BY <1>6, <1>7, FS_RemoveElement
<1>9. IsFiniteSet(1..ChainLength) /\ Cardinality(1..ChainLength) = ChainLength
  BY <1>1, FS_Interval
<1>10. Cardinality(others) < Cardinality(1..ChainLength)
  BY <1>1, <1>6, <1>8, <1>9, ChainAssumption
<1> HIDE DEF others
<1>11. \E a, b \in 1..ChainLength : a # b /\ there[a] = there[b]
  BY <1>4, <1>8, <1>9, <1>10, FS_PigeonHole
<1> QED
  BY <1>5, <1>11

\* hashmap_hash returns the first entry that fits.
LEMMA IndexForFits ==
  ASSUME NicTypes, WellHashed, NEW name \in Names
  PROVE  FirstFit(1, name, IndexFor(1, name))
<1> DEFINE fits == {k \in 1..ChainLength : Fits(1, name, Chain(name)[k])}
           k == CHOOSE k \in fits : \A j \in fits : k <= j
<1>1. fits # {} /\ fits \in SUBSET Nat
  BY ChainHasRoom, NicAssumption
<1>2. k \in fits /\ \A j \in fits : k <= j
  BY <1>1, LeastOf, Zenon
<1>3. IndexFor(1, name) = Chain(name)[k]
  BY Zenon DEF IndexFor
<1> HIDE DEF k
<1>4. \A j \in 1..(k - 1) : ~Fits(1, name, Chain(name)[j])
  BY <1>2, NicAssumption
<1> QED
  BY <1>2, <1>3, <1>4 DEF FirstFit

\* An entry that fits a name is given to it: every name stays where it is found.
LEMMA PutKeeps ==
  ASSUME NicTypes, WellHashed, NEW t \in Loaders, NEW name \in Names, NEW at,
         FirstFit(1, name, at), maps' = [maps EXCEPT ![1][at] = <<t, name>>]
  PROVE  WellHashed' /\ Found(1) \subseteq Found(1)' /\ name \in Found(1)'
<1>1. PICK k \in 1..ChainLength :
        /\ at = Chain(name)[k] /\ Fits(1, name, at)
        /\ \A j \in 1..(k - 1) : ~Fits(1, name, Chain(name)[j])
  BY DEF FirstFit
<1>2. at \in Indices
  BY <1>1, ChainEntries
<1>3. /\ maps'[1][at] = <<t, name>> /\ maps'[1][at] # NoStat /\ maps'[1][at][2] = name
      /\ \A i \in Indices \ {at} : maps'[1][i] = maps[1][i]
  BY <1>2 DEF NicTypes, MapTypes, NoStat
<1>4. ASSUME NEW n \in Names, NEW i \in Indices, maps[1][i] # NoStat, maps[1][i][2] = n
      PROVE  maps'[1][i] # NoStat /\ maps'[1][i][2] = n
  BY <1>1, <1>3, <1>4 DEF Fits
<1>5. ASSUME NEW n \in Names, NEW i \in Indices, ~Fits(1, n, i)
      PROVE  ~Fits(1, n, i)'
  BY <1>1, <1>3, <1>5 DEF Fits
<1>6. ASSUME NEW n \in Names, NEW i \in Indices, FirstFit(1, n, i), Fits(1, n, i)'
      PROVE  FirstFit(1, n, i)'
  <2>1. PICK l \in 1..ChainLength :
          /\ i = Chain(n)[l] /\ \A j \in 1..(l - 1) : ~Fits(1, n, Chain(n)[j])
    BY <1>6 DEF FirstFit
  <2>2. \A j \in 1..(l - 1) : Chain(n)[j] \in Indices
    BY ChainEntries, NicAssumption
  <2>3. \A j \in 1..(l - 1) : ~Fits(1, n, Chain(n)[j])'
    BY <1>5, <2>1, <2>2
  <2> QED
    BY <1>6, <2>1, <2>3 DEF FirstFit
<1>7. ASSUME NEW i \in Indices, maps'[1][i] # NoStat
      PROVE  FirstFit(1, maps[1][i][2], i)'
  <2>1. CASE i = at
    BY <1>2, <1>3, <1>6, <2>1 DEF Fits
  <2>2. CASE i # at
    <3>1. maps'[1][i] = maps[1][i] /\ FirstFit(1, maps[1][i][2], i) /\ maps[1][i][2] \in Names
      BY <1>3, <1>7, <2>2 DEF WellHashed, NicTypes, MapTypes, Stats
    <3> QED
      BY <1>6, <3>1 DEF Fits
  <2> QED
    BY <2>1, <2>2
<1>8. WellHashed'
  BY <1>7 DEF WellHashed
<1>9. Found(1) \subseteq Found(1)'
  BY <1>4, ChainEntries DEF Found
<1>10. name \in Found(1)'
  BY <1>1, <1>3 DEF Found
<1> QED
  BY <1>8, <1>9, <1>10

LEMMA InitFoundInv == Init => FoundInv
<1> SUFFICES ASSUME Init PROVE FoundInv
  OBVIOUS
<1>1. nic_map = 0 /\ \A t \in Loaders : load[t].pc = "off"
  BY DEF Init, NicInit
<1>2. \A i \in Indices : maps[1][i] = NoStat
  BY TwoLoaders DEF Init, NicInit
<1> QED
  BY <1>1, <1>2 DEF FoundInv, WellHashed

\* Steps that do not move a loader from name to name.
LEMMA FoundInvOther ==
  ASSUME NicInv, FoundInv, UNCHANGED <<nic_map, maps>>,
         \A t \in Loaders :
           \/ load'[t] = load[t]
           \/ /\ load[t].pc \in {"off", "check", "create"}
              /\ \/ load'[t].pc \in {"off", "check", "create"}
                 \/ load'[t].pc = "done" /\ nic_map # 0
  PROVE  FoundInv'
<1>1. WellHashed => WellHashed'
  BY DEF WellHashed, FirstFit, Fits
<1>2. Found(1)' = Found(1)
  BY DEF Found
<1>3. \A t \in Loaders : Filling(t)' <=> Filling(t)
  BY DEF Filling
<1>4. \A t \in Loaders : Filling(t) => load'[t] = load[t]
  BY DEF Filling
<1>5. ASSUME NEW t \in Loaders, load'[t].pc = "put", nic_map = 1
      PROVE  load'[t].map = 1 /\ FirstFit(1, NicNames[load[t].k], load[t].at)'
  <2>1. load'[t] = load[t]
    BY <1>5
  <2>2. FirstFit(1, NicNames[load[t].k], load[t].at) /\ load[t].map = 1
    BY <1>5, <2>1 DEF FoundInv
  <2> DEFINE n == NicNames[load[t].k]
             i == load[t].at
  <2>3. NicNames[load'[t].k] = n /\ load'[t].at = i
    BY <2>1
  <2>4. FirstFit(1, n, i)
    BY <2>2
  <2> HIDE DEF n, i
  <2>5. \A a, b : Fits(1, a, b)' <=> Fits(1, a, b)
    BY DEF Fits
  <2> QED
    BY <2>1, <2>2, <2>3, <2>4, <2>5, Zenon DEF FirstFit, Fits
<1>6. nic_map' = 0 => \A t \in Loaders : load'[t].pc \in {"off", "check", "create"}
  BY DEF FoundInv
<1>7. nic_map' <= 1 => WellHashed'
  BY <1>1 DEF FoundInv
<1>8. nic_map' = 1 =>
        /\ \A t, u \in Loaders : Filling(t)' /\ Filling(u)' => t = u
        /\ \A t \in Loaders : Filling(t)' =>
             \A k \in 1..(load'[t].k - 1) : NicNames[k] \in Found(1)'
        /\ (\A t \in Loaders : ~Filling(t)') => Names \subseteq Found(1)'
  BY <1>2, <1>3, <1>4 DEF FoundInv
<1> QED
  BY <1>5, <1>6, <1>7, <1>8 DEF FoundInv

LEMMA FoundInvLoad ==
  ASSUME NicInv, FoundInv, NEW t \in Loaders, Load(t) PROVE FoundInv'
<1> USE DEF NicInv
<1>0. \A u \in Loaders \ {t} : load'[u] = load[u]
  BY LoadKeeps
<1>1. CASE CheckMap(t)
  <2>1. /\ load[t].pc = "check"
        /\ load'[t].pc = IF nic_map # 0 THEN "done" ELSE "create"
        /\ UNCHANGED <<nic_map, maps>>
    BY <1>1 DEF CheckMap, NicTypes, LoadTypes, Shaped
  <2> QED
    BY <1>0, <2>1, FoundInvOther
<1>2. CASE CreateMap(t)
  <2>1. /\ load[t].pc = "create" /\ nic_map' = nic_map + 1 /\ UNCHANGED maps
        /\ load'[t].pc = IF NicNames = <<>> THEN "done" ELSE "find"
        /\ load'[t].k = 1 /\ nic_map \in Nat
    BY <1>2 DEF CreateMap, NicTypes, LoadTypes, Shaped, MapTypes
  <2>2. nic_map' <= 1 => nic_map = 0 /\ WellHashed'
    BY <2>1 DEF FoundInv, WellHashed, FirstFit, Fits
  <2>3. nic_map' = 1 => \A u \in Loaders \ {t} : load'[u].pc \in {"off", "check", "create"}
    BY <1>0, <2>1, <2>2 DEF FoundInv
  <2>4. NicNames = <<>> => Names = {}
    BY DEF Names
  <2> QED
    BY <2>1, <2>2, <2>3, <2>4 DEF FoundInv, Filling
<1>3. CASE FindEntry(t)
  <2> DEFINE name == NicNames[load[t].k]
  <2>1. /\ load[t].pc = "find" /\ UNCHANGED <<nic_map, maps>> /\ nic_map # 0
        /\ load'[t].pc = "put" /\ load'[t].k = load[t].k
        /\ load'[t].map = nic_map /\ load'[t].at = IndexFor(nic_map, name)
    BY <1>3 DEF FindEntry, NicTypes, LoadTypes, Shaped
  <2>2. name \in Names
    BY <2>1, NicAssumption DEF NicTypes, LoadTypes, Names
  <2>3. WellHashed => WellHashed'
    BY <2>1 DEF WellHashed, FirstFit, Fits
  <2>4. Found(1)' = Found(1)
    BY <2>1 DEF Found
  <2>5. nic_map = 1 => FirstFit(1, name, load'[t].at)
    BY <2>1, <2>2, IndexForFits DEF FoundInv
  <2>6. nic_map = 1 => FirstFit(1, NicNames[load[t].k], load[t].at)'
    BY <2>1, <2>5 DEF FirstFit, Fits
  <2>7. nic_map = 1 => \A u \in Loaders \ {t} : load[u].pc \notin {"find", "put"}
    BY <2>1 DEF FoundInv, Filling
  <2> HIDE DEF name
  <2> QED
    BY <1>0, <2>1, <2>3, <2>4, <2>6, <2>7 DEF FoundInv, Filling
<1>4. CASE PutEntry(t)
  <2> DEFINE name == NicNames[load[t].k]
  <2>1. /\ load[t].pc = "put" /\ UNCHANGED nic_map /\ nic_map # 0
        /\ load[t].k \in 1..Len(NicNames) /\ Len(NicNames) \in Nat
        /\ maps' = [maps EXCEPT ![load[t].map][load[t].at] = <<t, name>>]
    BY <1>4, NicAssumption DEF PutEntry, NicTypes, LoadTypes
  <2>2. \/ load[t].k = Len(NicNames) /\ load'[t].pc = "done"
        \/ load'[t].pc = "find" /\ load'[t].k = load[t].k + 1
    BY <1>4 DEF PutEntry, NicTypes, LoadTypes, Shaped
  <2>3. name \in Names
    BY <2>1 DEF Names
  <2>4. CASE nic_map = 1
    <3>1. /\ WellHashed /\ load[t].map = 1 /\ FirstFit(1, name, load[t].at)
          /\ \A u \in Loaders \ {t} : load[u].pc \notin {"find", "put"}
          /\ \A k \in 1..(load[t].k - 1) : NicNames[k] \in Found(1)
      BY <2>1, <2>4 DEF FoundInv, Filling
    <3>2. WellHashed' /\ Found(1) \subseteq Found(1)' /\ name \in Found(1)'
      BY <2>1, <2>3, <3>1, PutKeeps
    <3>3. \A k \in 1..load[t].k : NicNames[k] \in Found(1)'
      BY <2>1, <3>1, <3>2
    <3>4. load[t].k = Len(NicNames) => Names \subseteq Found(1)'
      BY <3>3 DEF Names
    <3>5. /\ nic_map' = 1 /\ load'[t].pc # "put"
          /\ \A u \in Loaders \ {t} : load'[u].pc \notin {"find", "put"}
      BY <1>0, <2>1, <2>2, <2>4, <3>1
    <3>6. load'[t].pc = "find" => \A k \in 1..(load'[t].k - 1) : NicNames[k] \in Found(1)'
      BY <2>1, <2>2, <3>3
    <3>7. load'[t].pc # "find" => Names \subseteq Found(1)'
      BY <2>2, <3>4
    <3> QED
      BY <3>2, <3>5, <3>6, <3>7 DEF FoundInv, Filling
  <2>5. CASE nic_map # 1
    BY <2>1, <2>5 DEF FoundInv, NicTypes, MapTypes
  <2> QED
    BY <2>4, <2>5
<1> QED
  BY <1>1, <1>2, <1>3, <1>4 DEF Load

LEMMA NextFoundInv == NicInv /\ FoundInv /\ [Next]_vars => FoundInv'
<1> SUFFICES ASSUME NicInv, FoundInv, [Next]_vars PROVE FoundInv'
  OBVIOUS
<1> USE LoaderAssumption
<1>1. ASSUME UNCHANGED loadVars PROVE FoundInv'
  BY <1>1, FoundInvOther DEF loadVars
<1>2. ASSUME NEW t \in Loaders, NicStep(t) PROVE FoundInv'
  BY <1>1, <1>2, FoundInvLoad DEF NicStep, UpdateStep
<1>3. ASSUME NEW t \in Loaders, BeginLoad(t), UNCHANGED <<nic_map, maps, updateVars>>,
             load[t].pc = "off"
      PROVE  FoundInv'
  <2>1. \A u \in Loaders \ {t} : load'[u] = load[u]
    BY <1>3, BeginLoadKeeps DEF NicInv
  <2>3. load'[t].pc = "check"
    BY <1>3 DEF NicInv, BeginLoad, NicTypes, LoadTypes, Shaped
  <2> QED
    BY <1>3, <2>1, <2>3, FoundInvOther
<1>4. CASE StartNics
  BY <1>3, <1>4 DEF StartNics, NicInv, Places
<1>5. CASE CronStart /\ BeginLoad("cron")
  BY <1>3, <1>5 DEF CronStart, NicInv, Places
<1>6. CASE CronStart /\ UNCHANGED load
  BY <1>1, <1>6 DEF CronStart, loadVars
<1>7. CASE Signal \/ Admin \/ NicThread \/ (\E s \in Scripts : Script(s)) \/ UNCHANGED vars
  BY <1>1, <1>7
     DEF Signal, Admin, AdminStart, AdminStop, NicThread, NicWake, NicSleep, Script,
         ScriptStart, ScriptRates, ScriptEnd, vars, nicVars
<1>8. CASE OpenDb \/ CloseDb \/ StartThreads \/ Return
  BY <1>1, <1>8 DEF OpenDb, CloseDb, StartThreads, Return, nicVars
<1>9. CASE CronPool \/ CronWake \/ CronIterate \/ CronDrain \/ CronFree
  BY <1>1, <1>9 DEF CronPool, CronWake, CronIterate, CronDrain, CronFree, nicVars
<1>10. CronStart => BeginLoad("cron") \/ UNCHANGED load
  BY DEF CronStart
<1> QED
  BY <1>2, <1>4, <1>5, <1>6, <1>7, <1>8, <1>9, <1>10 DEF Next, Main, CronThread

\* When the one map there is has been filled, every interface is found in it.
THEOREM InterfacesAreFound == Spec => []EveryNicFound
<1>1. FoundInv => EveryNicFound
  BY DEF FoundInv, EveryNicFound, Filling, Found
<1> QED
  BY <1>1, InitFoundInv, NextFoundInv, NicInvHolds, PTL DEF Spec
=============================================================================
