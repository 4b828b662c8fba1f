------------------------ MODULE VoxelHashMap_proofs -------------------------
(***************************************************************************)
(* What holds of the GPU's voxel map for any voxels, hash function, table  *)
(* size and order of its threads: threads that race for slots end up       *)
(* apart, the count of slots in use is right, and until an eviction the    *)
(* table is what was promised.                                             *)
(***************************************************************************)
EXTENDS VoxelHashMap, FiniteSetTheorems, TLAPS

Slots == [key : Keys \cup {EMPTY}, sum : [Keys -> Nat], count : Nat, lru : Nat]
IsTable(t) == \E cap \in Nat \ {0} : t \in [Positions(cap) -> Slots]

\* Threads of the kernel that runs: one per slot in use of the old table, or one
\* per voxel of the scan that has no slot yet.
ThreadsInv ==
    /\ \A s \in DOMAIN probe : probe[s] \in DOMAIN table
    /\ phase = "idle" => DOMAIN probe = {}
    /\ phase = "rehash" =>
          /\ IsFiniteSet(DOMAIN probe)
          /\ \A s \in DOMAIN probe : old[s] \in Slots /\ old[s].key # EMPTY
    /\ phase = "claim" => DOMAIN probe \subseteq Keys

\* Only while slots are claimed do voxels of the scan have one.
RunsInv ==
    /\ \A k \in DOMAIN batch : k \in Keys /\ batch[k] \in Nat
    /\ DOMAIN slot_of_run \subseteq Keys
    /\ \A k \in DOMAIN slot_of_run : slot_of_run[k] \in DOMAIN table
    /\ phase # "claim" => DOMAIN slot_of_run = {}
    /\ phase = "claim" => DOMAIN batch \subseteq DOMAIN slot_of_run \cup DOMAIN probe

TypeInv ==
    /\ phase \in {"idle", "rehash", "claim"}
    /\ lru_counter \in Nat
    /\ live_count \in Int
    /\ IsTable(table)

IInv == TypeInv /\ ThreadsInv /\ RunsInv /\ OwnSlot /\ LiveCounted

-----------------------------------------------------------------------------
(* Tables.                                                                 *)
-----------------------------------------------------------------------------
\* A table has a capacity, and probes stay within it.
LEMMA TableProperties ==
    ASSUME NEW t, IsTable(t)
    PROVE  LET cap == Cardinality(DOMAIN t) IN
           /\ cap \in Nat \ {0}
           /\ DOMAIN t = Positions(cap)
           /\ t \in [Positions(cap) -> Slots]
           /\ IsFiniteSet(Occupied(t))
           /\ Cardinality(Occupied(t)) \in Nat
           /\ \A k \in Keys : Home(k, cap) \in DOMAIN t
           /\ \A pos \in DOMAIN t : After(pos, cap) \in DOMAIN t
<1> DEFINE cap == Cardinality(DOMAIN t)
<1>1. PICK n \in Nat \ {0} : t \in [Positions(n) -> Slots]
  BY DEF IsTable
<1>2. DOMAIN t = 0 .. n - 1
  BY <1>1 DEF Positions
<1>3. IsFiniteSet(DOMAIN t) /\ cap = n
  BY <1>2, FS_Interval
<1>4. IsFiniteSet(Occupied(t)) /\ Cardinality(Occupied(t)) \in Nat
  BY <1>3, FS_Subset, FS_CardinalityType DEF Occupied
<1>5. \A i \in Nat : i % n \in 0 .. n - 1
  OBVIOUS
<1>6. \A k \in Keys : Home(k, n) \in 0 .. n - 1
  BY <1>5, KeysAssumption DEF Home
<1>7. \A pos \in 0 .. n - 1 : After(pos, n) \in 0 .. n - 1
  BY <1>5 DEF After
<1>8. QED
  BY <1>1, <1>2, <1>3, <1>4, <1>6, <1>7

\* A used slot was written over one that was free, or that was used as well.
Wrote(t, written, at, slot) ==
    /\ IsTable(written)
    /\ DOMAIN written = DOMAIN t
    /\ \A pos \in DOMAIN t : written[pos] = IF pos = at THEN slot ELSE t[pos]
    /\ Cardinality(Occupied(written)) =
           IF t[at].key = EMPTY THEN Cardinality(Occupied(t)) + 1 ELSE Cardinality(Occupied(t))

LEMMA SlotWritten ==
    ASSUME NEW t, IsTable(t), NEW at \in DOMAIN t, NEW slot \in Slots, slot.key # EMPTY
    PROVE  Wrote(t, [t EXCEPT ![at] = slot], at, slot)
<1> DEFINE written == [t EXCEPT ![at] = slot]
<1>1. PICK cap \in Nat \ {0} : t \in [Positions(cap) -> Slots]
  BY DEF IsTable
<1>2. /\ written \in [Positions(cap) -> Slots]
      /\ DOMAIN written = DOMAIN t
      /\ \A pos \in DOMAIN t : written[pos] = IF pos = at THEN slot ELSE t[pos]
  BY <1>1
<1>3. Occupied(written) = Occupied(t) \cup {at}
  BY <1>2 DEF Occupied
<1>4. IsFiniteSet(Occupied(t)) /\ Cardinality(Occupied(t)) \in Nat
  BY TableProperties
<1>5. at \in Occupied(t) <=> t[at].key # EMPTY
  BY DEF Occupied
<1>6. Cardinality(Occupied(written)) =
          IF at \in Occupied(t) THEN Cardinality(Occupied(t)) ELSE Cardinality(Occupied(t)) + 1
  BY <1>3, <1>4, FS_AddElement
<1>7. QED
  BY <1>1, <1>2, <1>5, <1>6 DEF IsTable, Wrote

\* A new table has every slot free.
LEMMA NewTable ==
    ASSUME NEW cap \in Nat \ {0}, NEW points \in Nat
    PROVE  LET t == [pos \in Positions(cap) |-> FreeSlot(points)] IN
           IsTable(t) /\ Cardinality(DOMAIN t) = cap /\ Occupied(t) = {}
<1> DEFINE t == [pos \in Positions(cap) |-> FreeSlot(points)]
<1>1. FreeSlot(points) \in Slots /\ FreeSlot(points).key = EMPTY
  BY DEF FreeSlot, Slots
<1>2. IsTable(t)
  BY <1>1 DEF IsTable
<1>3. DOMAIN t = 0 .. cap - 1
  BY DEF Positions
<1>4. Cardinality(DOMAIN t) = cap
  BY <1>3, FS_Interval
<1>5. \A pos \in DOMAIN t : t[pos].key = EMPTY
  BY <1>1
<1>6. Occupied(t) = {}
  BY <1>5 DEF Occupied
<1>7. QED
  BY <1>2, <1>4, <1>6

-----------------------------------------------------------------------------
(* The steps.                                                              *)
-----------------------------------------------------------------------------
LEMMA InitIInv == Init => IInv
<1> SUFFICES ASSUME Init PROVE IInv
  OBVIOUS
<1>1. IsTable(table) /\ Occupied(table) = {}
  BY NewTable, CapacityAssumption DEF Init
<1>2. Cardinality(Occupied(table)) = 0
  BY <1>1, FS_EmptySet
<1>3. QED
  BY <1>1, <1>2 DEF Init, IInv, TypeInv, ThreadsInv, RunsInv, OwnSlot, LiveCounted

\* Threads are launched at the home positions of their voxels.
LEMMA Launched ==
    ASSUME NEW t, IsTable(t), NEW scan, DOMAIN scan \subseteq Keys, Launch(scan, Cardinality(DOMAIN t))
    PROVE  DOMAIN probe' = DOMAIN scan /\ \A k \in DOMAIN probe' : probe'[k] \in DOMAIN t
  BY TableProperties DEF Launch

LEMMA StartInsertStep == IInv /\ StartInsert => IInv'
<1> SUFFICES ASSUME IInv, StartInsert PROVE IInv'
  OBVIOUS
<1> USE DEF IInv, StartInsert
<1>1. PICK scan \in Scans : InsertNothing(scan) \/ InsertInPlace(scan) \/ Grow(scan)
  OBVIOUS
<1>2. DOMAIN scan \subseteq Keys /\ \A k \in DOMAIN scan : scan[k] \in Nat
  BY ScansAssumption
<1>3. /\ phase = "idle" /\ IsTable(table) /\ DOMAIN slot_of_run = {}
      /\ live_count = Cardinality(Occupied(table)) /\ live_slots = live_count
      /\ UNCHANGED <<slot_of_run, live_count, live_slots, lru_counter>>
      /\ lru_counter \in Nat /\ live_count \in Int
  BY DEF TypeInv, RunsInv, LiveCounted
<1>4. CASE InsertNothing(scan)
  BY <1>4 DEF InsertNothing, TypeInv, ThreadsInv, RunsInv, OwnSlot, LiveCounted
<1>5. CASE InsertInPlace(scan)
  <2>1. phase' = "claim" /\ batch' = scan /\ table' = table
    BY <1>5 DEF InsertInPlace
  <2>2. DOMAIN probe' = DOMAIN scan /\ \A k \in DOMAIN probe' : probe'[k] \in DOMAIN table
    BY <1>2, <1>3, <1>5, Launched DEF InsertInPlace, Capacity
  <2>3. QED
    BY <1>2, <1>3, <2>1, <2>2 DEF TypeInv, ThreadsInv, RunsInv, OwnSlot, LiveCounted
<1>6. CASE Grow(scan)
  <2> DEFINE doubled == 2 * Capacity
  <2>1. /\ Capacity \in Nat \ {0} /\ table \in [DOMAIN table -> Slots]
        /\ IsFiniteSet(Occupied(table))
    BY <1>3, TableProperties DEF Capacity
  <2>2. doubled \in Nat \ {0}
    BY <2>1
  <2>3. phase' = "rehash" /\ batch' = scan /\ old' = table
    BY <1>6 DEF Grow
  <2>4. IsTable(table') /\ Occupied(table') = {} /\ Cardinality(DOMAIN table') = doubled
    <3>1. PICK points \in Nat : table' = [pos \in Positions(doubled) |-> FreeSlot(points)]
      BY <1>6, UninitAssumption DEF Grow
    <3>2. QED
      BY <2>2, <3>1, NewTable
  <2>5. probe' = [pos \in Occupied(table) |-> NewHome(table[pos].key)]
    BY <1>6 DEF Grow
  <2>6. DOMAIN probe' = Occupied(table)
    BY <2>5
  <2>7. \A s \in Occupied(table) : table[s] \in Slots /\ table[s].key \in Keys
    BY <2>1 DEF Occupied, Slots
  <2>8. \A s \in Occupied(table) : probe'[s] \in DOMAIN table'
    BY <2>4, <2>5, <2>7, TableProperties DEF NewHome
  <2>9. \A s \in DOMAIN probe' : old'[s] \in Slots /\ old'[s].key # EMPTY
    BY <2>3, <2>6, <2>7 DEF Occupied
  <2>10. Cardinality(Occupied(table')) = 0 /\ Cardinality(Occupied(table)) \in Nat
    BY <1>3, <2>4, FS_EmptySet, TableProperties
  <2>11. LiveCounted'
    BY <1>3, <2>3, <2>6, <2>10 DEF LiveCounted
  <2>12. QED
    BY <1>2, <1>3, <2>1, <2>3, <2>4, <2>6, <2>8, <2>9, <2>11
       DEF TypeInv, ThreadsInv, RunsInv, OwnSlot
<1>7. QED
  BY <1>1, <1>4, <1>5, <1>6

LEMMA RehashProbeStep ==
    ASSUME IInv, NEW s \in Threads, RehashProbe(s)
    PROVE  IInv'
<1> DEFINE pos == probe[s]
<1>1. /\ phase = "rehash" /\ s \in DOMAIN probe /\ IsFiniteSet(DOMAIN probe)
      /\ pos \in DOMAIN table /\ old[s] \in Slots /\ old[s].key # EMPTY
      /\ IsTable(table)
  BY DEF RehashProbe, Threads, IInv, TypeInv, ThreadsInv
<1>2. UNCHANGED <<old, phase, batch, slot_of_run, live_count, live_slots, lru_counter>>
  BY DEF RehashProbe
<1>3. DOMAIN slot_of_run = {}
      /\ live_count = Cardinality(Occupied(table)) + Cardinality(DOMAIN probe)
  BY <1>1 DEF IInv, RunsInv, LiveCounted
<1>4. Cardinality(Occupied(table)) \in Nat /\ Cardinality(DOMAIN probe) \in Nat
  BY <1>1, TableProperties, FS_CardinalityType
<1>5. CASE /\ table[pos].key = EMPTY
           /\ table' = [table EXCEPT ![pos] = old[s]]
           /\ probe' = [r \in DOMAIN probe \ {s} |-> probe[r]]
  <2>1. /\ IsTable(table') /\ DOMAIN table' = DOMAIN table
        /\ Cardinality(Occupied(table')) = Cardinality(Occupied(table)) + 1
    <3>1. Wrote(table, table', pos, old[s])
      BY <1>1, <1>5, SlotWritten
    <3>2. QED
      BY <1>5, <3>1 DEF Wrote
  <2>2. DOMAIN probe' = DOMAIN probe \ {s} /\ \A r \in DOMAIN probe' : probe'[r] = probe[r]
    BY <1>5
  <2>3. IsFiniteSet(DOMAIN probe') /\ Cardinality(DOMAIN probe') = Cardinality(DOMAIN probe) - 1
    BY <1>1, <2>2, FS_RemoveElement
  <2>4. ThreadsInv'
    BY <1>1, <1>2, <2>1, <2>2, <2>3 DEF IInv, ThreadsInv
  <2>5. live_count' = Cardinality(Occupied(table')) + Cardinality(DOMAIN probe')
    BY <1>2, <1>3, <1>4, <2>1, <2>3
  <2>6. LiveCounted'
    BY <1>1, <1>2, <2>5 DEF LiveCounted
  <2>7. QED
    BY <1>1, <1>2, <1>3, <2>1, <2>4, <2>6 DEF IInv, TypeInv, RunsInv, OwnSlot
<1>6. CASE /\ table[pos].key # EMPTY
           /\ probe' = [probe EXCEPT ![s] = After(pos, Capacity)]
           /\ UNCHANGED table
  <2>1. DOMAIN probe' = DOMAIN probe
        /\ \A r \in DOMAIN probe' : probe'[r] \in DOMAIN table
    BY <1>1, <1>6, TableProperties DEF IInv, ThreadsInv, Capacity
  <2>2. QED
    BY <1>1, <1>2, <1>6, <2>1 DEF IInv, TypeInv, ThreadsInv, RunsInv, OwnSlot, LiveCounted
<1>7. QED
  BY <1>5, <1>6 DEF RehashProbe

LEMMA RehashDoneStep == IInv /\ RehashDone => IInv'
<1> SUFFICES ASSUME IInv, RehashDone PROVE IInv'
  OBVIOUS
<1>1. /\ phase = "rehash" /\ DOMAIN probe = {} /\ phase' = "claim"
      /\ UNCHANGED <<table, batch, slot_of_run, live_count, live_slots, lru_counter>>
      /\ Launch(batch, Capacity)
  BY DEF RehashDone
<1>2. IsTable(table) /\ DOMAIN batch \subseteq Keys
  BY DEF IInv, TypeInv, RunsInv
<1>3. DOMAIN probe' = DOMAIN batch /\ \A k \in DOMAIN probe' : probe'[k] \in DOMAIN table
  BY <1>1, <1>2, Launched DEF Capacity
<1>4. Cardinality(DOMAIN probe) = 0 /\ Cardinality(Occupied(table)) \in Nat
  BY <1>1, <1>2, FS_EmptySet, TableProperties
<1>5. LiveCounted'
  BY <1>1, <1>4 DEF IInv, LiveCounted
<1>6. QED
  BY <1>1, <1>2, <1>3, <1>5 DEF IInv, TypeInv, ThreadsInv, RunsInv, OwnSlot

\* A thread takes a slot that is free or its voxel's own; one that another
\* thread has taken carries that thread's key.
LEMMA ClaimProbeStep ==
    ASSUME IInv, NEW k \in Threads, ClaimProbe(k)
    PROVE  IInv'
<1> DEFINE pos == probe[k]
           slot == [table[pos] EXCEPT !.key = k, !.lru = lru_counter]
<1>1. /\ phase = "claim" /\ k \in DOMAIN probe /\ DOMAIN probe \subseteq Keys
      /\ pos \in DOMAIN table /\ IsTable(table)
      /\ lru_counter \in Nat /\ live_count \in Int
  BY DEF ClaimProbe, Threads, IInv, TypeInv, ThreadsInv
<1>2. UNCHANGED <<old, phase, batch, live_slots, lru_counter>>
  BY DEF ClaimProbe
<1>3. live_count = Cardinality(Occupied(table))
  BY <1>1 DEF IInv, LiveCounted
<1>4. CASE /\ table[pos].key \in {EMPTY, k}
           /\ table' = [table EXCEPT ![pos].key = k, ![pos].lru = lru_counter]
           /\ live_count' = IF table[pos].key = EMPTY THEN live_count + 1 ELSE live_count
           /\ slot_of_run' = [r \in DOMAIN slot_of_run \cup {k} |->
                                 IF r = k THEN pos ELSE slot_of_run[r]]
           /\ probe' = [r \in DOMAIN probe \ {k} |-> probe[r]]
  <2>1. table[pos] \in Slots
    BY <1>1, TableProperties
  <2>2. slot \in Slots /\ slot.key = k /\ slot.lru = lru_counter /\ k # EMPTY
    BY <1>1, <2>1, KeysAssumption DEF Slots
  <2>3. table' = [table EXCEPT ![pos] = slot]
    BY <1>1, <1>4, <2>1 DEF Slots
  <2>4. /\ IsTable(table') /\ DOMAIN table' = DOMAIN table
        /\ \A p \in DOMAIN table : table'[p] = IF p = pos THEN slot ELSE table[p]
        /\ Cardinality(Occupied(table')) = live_count'
    <3> HIDE DEF slot
    <3>1. Wrote(table, table', pos, slot)
      BY <1>1, <2>2, <2>3, SlotWritten
    <3>2. QED
      BY <1>3, <1>4, <3>1 DEF Wrote
  <2>5. live_count' \in Int
    BY <1>1, <1>4
  <2>6. DOMAIN probe' = DOMAIN probe \ {k} /\ \A r \in DOMAIN probe' : probe'[r] = probe[r]
    BY <1>4
  <2>7. /\ DOMAIN slot_of_run' = DOMAIN slot_of_run \cup {k}
        /\ slot_of_run'[k] = pos
        /\ \A r \in DOMAIN slot_of_run \ {k} : slot_of_run'[r] = slot_of_run[r]
    BY <1>4
  <2>8. TypeInv'
    BY <1>1, <1>2, <2>4, <2>5 DEF TypeInv
  <2>9. ThreadsInv'
    BY <1>1, <1>2, <2>4, <2>6 DEF IInv, ThreadsInv
  <2>10. RunsInv'
    BY <1>1, <1>2, <2>4, <2>6, <2>7 DEF IInv, RunsInv
  <2>11. \A r \in DOMAIN slot_of_run \ {k} :
            slot_of_run[r] \in DOMAIN table /\ slot_of_run[r] # pos
    <3> SUFFICES ASSUME NEW r \in DOMAIN slot_of_run \ {k}
                 PROVE  slot_of_run[r] \in DOMAIN table /\ slot_of_run[r] # pos
      OBVIOUS
    <3>1. r \in Keys /\ slot_of_run[r] \in DOMAIN table /\ table[slot_of_run[r]].key = r
      BY DEF IInv, RunsInv, OwnSlot
    <3>2. r # EMPTY
      BY <3>1, KeysAssumption
    <3>3. QED
      BY <1>4, <3>1, <3>2
  <2>12. OwnSlot'
    <3>1. \A r \in DOMAIN slot_of_run' :
              table'[slot_of_run'[r]].key = r /\ table'[slot_of_run'[r]].lru = lru_counter'
      <4> SUFFICES ASSUME NEW r \in DOMAIN slot_of_run'
                   PROVE  /\ table'[slot_of_run'[r]].key = r
                          /\ table'[slot_of_run'[r]].lru = lru_counter'
        OBVIOUS
      <4>1. CASE r = k
        BY <1>1, <1>2, <2>2, <2>4, <2>7, <4>1
      <4>2. CASE r # k
        BY <1>2, <2>4, <2>7, <2>11, <4>2 DEF IInv, OwnSlot
      <4>3. QED
        BY <4>1, <4>2
    <3>2. \A r, j \in DOMAIN slot_of_run' : slot_of_run'[r] = slot_of_run'[j] => r = j
      BY <3>1
    <3>3. QED
      BY <3>1, <3>2 DEF OwnSlot
  <2>13. LiveCounted'
    BY <1>1, <1>2, <2>4 DEF LiveCounted
  <2>14. QED
    BY <2>8, <2>9, <2>10, <2>12, <2>13 DEF IInv
<1>5. CASE /\ table[pos].key \notin {EMPTY, k}
           /\ probe' = [probe EXCEPT ![k] = After(pos, Capacity)]
           /\ UNCHANGED <<table, live_count, slot_of_run>>
  <2>1. DOMAIN probe' = DOMAIN probe
        /\ \A r \in DOMAIN probe' : probe'[r] \in DOMAIN table
    BY <1>1, <1>5, TableProperties DEF IInv, ThreadsInv, Capacity
  <2>2. QED
    BY <1>1, <1>2, <1>5, <2>1 DEF IInv, TypeInv, ThreadsInv, RunsInv, OwnSlot, LiveCounted
<1>6. QED
  BY <1>4, <1>5 DEF ClaimProbe

\* Accumulation leaves keys and stamps, and eviction frees exactly the slots
\* that have expired.
LEMMA AccumulatedTable ==
    ASSUME IInv, phase = "claim", DOMAIN probe = {}
    PROVE  /\ IsTable(Accumulated)
           /\ DOMAIN Accumulated = DOMAIN table
           /\ \A pos \in DOMAIN table :
                 /\ Accumulated[pos].key = table[pos].key
                 /\ Accumulated[pos].lru = table[pos].lru
<1>1. PICK cap \in Nat \ {0} : table \in [Positions(cap) -> Slots]
  BY DEF IInv, TypeInv, IsTable
<1>2. ASSUME NEW pos \in DOMAIN table
      PROVE  /\ Accumulated[pos] \in Slots
             /\ Accumulated[pos].key = table[pos].key
             /\ Accumulated[pos].lru = table[pos].lru
  <2> DEFINE runs == {k \in DOMAIN batch : slot_of_run[k] = pos}
             added == [k \in Keys |-> IF k \in runs THEN RunLength(k) ELSE 0]
             sum == [k \in Keys |-> table[pos].sum[k] + added[k]]
             count == IF runs = {} THEN table[pos].count
                      ELSE table[pos].count + RunLength(CHOOSE k \in runs : TRUE)
  <2>1. table[pos] \in Slots
    BY <1>1, <1>2
  <2>2. \A k \in DOMAIN batch : RunLength(k) \in Nat
    BY DEF IInv, RunsInv, RunLength
  <2>3. \A k \in Keys : added[k] \in Nat
    BY <2>2
  <2>4. sum \in [Keys -> Nat]
    BY <2>1, <2>3 DEF Slots
  <2>5. count \in Nat
    <3>1. CASE runs = {}
      BY <2>1, <3>1 DEF Slots
    <3>2. CASE runs # {}
      <4>1. (CHOOSE k \in runs : TRUE) \in runs
        BY <3>2
      <4>2. RunLength(CHOOSE k \in runs : TRUE) \in Nat
        BY <2>2, <4>1
      <4>3. QED
        BY <2>1, <3>2, <4>2 DEF Slots
    <3>3. QED
      BY <3>1, <3>2
  <2>6. Accumulated[pos] = [table[pos] EXCEPT !.sum = sum, !.count = count]
    BY <1>2, <2>1 DEF Accumulated, Slots
  <2> HIDE DEF sum, count
  <2>7. QED
    BY <2>1, <2>4, <2>5, <2>6 DEF Slots
<1>3. DOMAIN Accumulated = DOMAIN table
  BY DEF Accumulated
<1>4. Accumulated \in [Positions(cap) -> Slots]
  BY <1>1, <1>2, <1>3 DEF Accumulated
<1>5. QED
  BY <1>2, <1>3, <1>4 DEF IsTable

LEMMA EvictedTable ==
    ASSUME NEW t, IsTable(t), NEW now
    PROVE  /\ IsTable(Evicted(t, now))
           /\ DOMAIN Evicted(t, now) = DOMAIN t
           /\ Occupied(Evicted(t, now)) = Occupied(t) \ {pos \in DOMAIN t : Expired(t[pos], now)}
<1> DEFINE kept == Evicted(t, now)
<1>1. PICK cap \in Nat \ {0} : t \in [Positions(cap) -> Slots]
  BY DEF IsTable
<1>2. ASSUME NEW pos \in DOMAIN t
      PROVE  /\ kept[pos] \in Slots
             /\ kept[pos].key = IF Expired(t[pos], now) THEN EMPTY ELSE t[pos].key
  BY <1>1, <1>2 DEF Evicted, Slots
<1>3. DOMAIN kept = DOMAIN t
  BY DEF Evicted
<1>4. kept \in [Positions(cap) -> Slots]
  BY <1>1, <1>2, <1>3 DEF Evicted
<1>5. Occupied(kept) = Occupied(t) \ {pos \in DOMAIN t : Expired(t[pos], now)}
  BY <1>2, <1>3 DEF Occupied
<1>6. QED
  BY <1>3, <1>4, <1>5 DEF IsTable

LEMMA FinishInsertStep == IInv /\ FinishInsert => IInv'
<1> SUFFICES ASSUME IInv, FinishInsert PROVE IInv'
  OBVIOUS
<1> DEFINE expired == {pos \in DOMAIN table : Expired(table[pos], lru_counter')}
<1>1. /\ phase = "claim" /\ DOMAIN probe = {} /\ phase' = "idle"
      /\ lru_counter' = lru_counter + 1 /\ batch' = <<>> /\ slot_of_run' = <<>>
      /\ UNCHANGED probe
  BY DEF FinishInsert
<1>2. /\ IsTable(table) /\ lru_counter \in Nat
      /\ live_count = Cardinality(Occupied(table))
      /\ IsFiniteSet(Occupied(table)) /\ live_count \in Nat
  BY <1>1, TableProperties DEF IInv, TypeInv, LiveCounted
<1>3. /\ IsTable(Accumulated)
      /\ DOMAIN Accumulated = DOMAIN table
      /\ \A pos \in DOMAIN table :
            /\ Accumulated[pos].key = table[pos].key
            /\ Accumulated[pos].lru = table[pos].lru
  BY <1>1, AccumulatedTable
<1>4. Occupied(Accumulated) = Occupied(table)
  BY <1>3 DEF Occupied
<1>5. IsTable(table') /\ live_count' \in Int
      /\ live_count' = Cardinality(Occupied(table')) /\ live_slots' = live_count'
  <2>1. CASE /\ table' = Evicted(Accumulated, lru_counter')
             /\ live_count' = live_count - Cardinality(expired)
             /\ live_slots' = live_count'
    <3>1. {pos \in DOMAIN Accumulated : Expired(Accumulated[pos], lru_counter')} = expired
      BY <1>3 DEF Expired
    <3>2. IsTable(table') /\ Occupied(table') = Occupied(table) \ expired
      BY <1>3, <1>4, <2>1, <3>1, EvictedTable
    <3>3. expired \subseteq Occupied(table)
      BY DEF Expired, Occupied
    <3>4. Occupied(table) \cap expired = expired
      BY <3>3
    <3>5. Cardinality(Occupied(table) \ expired)
              = Cardinality(Occupied(table)) - Cardinality(Occupied(table) \cap expired)
      BY ONLY <1>2, FS_Difference
    <3>6. Cardinality(Occupied(table')) \in Nat
      BY <3>2, TableProperties
    <3>7. live_count' = Cardinality(Occupied(table'))
      BY <1>2, <2>1, <3>2, <3>4, <3>5
    <3>8. QED
      BY <2>1, <3>2, <3>6, <3>7
  <2>2. CASE table' = Accumulated /\ live_slots' = live_count /\ live_count' = live_count
    BY <1>2, <1>3, <1>4, <2>2
  <2>3. QED
    BY <2>1, <2>2 DEF FinishInsert
<1>6. DOMAIN probe' = {} /\ DOMAIN batch' = {} /\ DOMAIN slot_of_run' = {}
  BY <1>1
<1>7. TypeInv'
  BY <1>1, <1>2, <1>5 DEF TypeInv
<1>8. ThreadsInv' /\ RunsInv' /\ OwnSlot'
  BY <1>1, <1>6 DEF ThreadsInv, RunsInv, OwnSlot
<1>9. LiveCounted'
  BY <1>1, <1>5 DEF LiveCounted
<1>10. QED
  BY <1>7, <1>8, <1>9 DEF IInv

LEMMA NextIInv == IInv /\ [Next]_vars => IInv'
<1> SUFFICES ASSUME IInv, [Next]_vars PROVE IInv'
  OBVIOUS
<1>1. CASE UNCHANGED vars
  BY <1>1 DEF vars, IInv, TypeInv, ThreadsInv, RunsInv, OwnSlot, LiveCounted
<1>2. QED
  BY <1>1, StartInsertStep, RehashProbeStep, RehashDoneStep, ClaimProbeStep, FinishInsertStep DEF Next

-----------------------------------------------------------------------------
\* The map's inductive invariant: threads probe within the table, and only
\* slots in use are rehashed.
THEOREM Invariance == Spec => []IInv
  BY InitIInv, NextIInv, PTL DEF Spec

\* However many threads race for however few slots, and whatever was evicted
\* before, no two of them end up with the same slot, and none loses its slot to
\* another before the scan is accumulated.
THEOREM ThreadsApart == Spec => []OwnSlot
<1>1. IInv => OwnSlot
  BY DEF IInv
<1>2. QED
  BY <1>1, Invariance, PTL

\* The count that decides when the table grows is the number of its slots in
\* use, after every claim, eviction and rehash, and the host's copy of it is
\* right whenever insert() has returned.
THEOREM LiveCount == Spec => []LiveCounted
<1>1. IInv => LiveCounted
  BY DEF IInv
<1>2. QED
  BY <1>1, Invariance, PTL

-----------------------------------------------------------------------------
(* Until the first eviction the table is the promise.                      *)
-----------------------------------------------------------------------------
At(k, cap, d) == (Home(k, cap) + d) % cap

\* A probe for k arrives at pos without having met k or a free slot.
Reaches(t, k, pos) ==
    LET cap == Cardinality(DOMAIN t) IN
    \E d \in 0 .. cap - 1 :
        /\ pos = At(k, cap, d)
        /\ \A e \in 0 .. d - 1 : t[At(k, cap, e)].key \notin {k, EMPTY}

Chained(t) == \A pos \in Occupied(t) : Reaches(t, t[pos].key, pos)
KeysOf(t) == {t[pos].key : pos \in Occupied(t)}

\* Voxels that rehash_kernel has still to move.
Pending == IF phase = "rehash" THEN {old[s].key : s \in DOMAIN probe} ELSE {}

\* When a voxel was touched last, and how many points it has without the scan.
Stamp(k) == IF k \in DOMAIN slot_of_run THEN lru_counter ELSE promised[k].lru
Number(k) == IF k \in DOMAIN promised THEN promised[k].n ELSE 0

ProbesInv ==
    /\ phase = "claim" => \A k \in DOMAIN probe : Reaches(table, k, probe[k])
    /\ phase = "rehash" =>
          /\ \A s \in DOMAIN probe :
                /\ Reaches(table, old[s].key, probe[s])
                /\ old[s].key \notin KeysOf(table)
                /\ old[s].lru = Stamp(old[s].key)
          /\ \A s, r \in DOMAIN probe : old[s].key = old[r].key => s = r

StampsInv == \A pos \in Occupied(table) : table[pos].lru = Stamp(table[pos].key)
KeysInv == KeysOf(table) \cup Pending = DOMAIN promised \cup DOMAIN slot_of_run

SumsInv ==
    \A pos \in DOMAIN table :
        LET k == table[pos].key IN
        /\ table[pos].count = Number(k)
        /\ \A j \in Keys : table[pos].sum[j] = IF j = k THEN Number(k) ELSE 0

HistoryInv ==
    /\ DOMAIN promised \subseteq Keys
    /\ \A k \in DOMAIN promised : promised[k].n \in Nat /\ promised[k].lru \in Nat
    /\ phase = "claim" => DOMAIN slot_of_run \cup DOMAIN probe \subseteq DOMAIN batch
    /\ phase = "rehash" => "grown" \in past

PInv ==
    /\ IInv
    /\ HistoryInv
    /\ "evicted" \notin past => Chained(table) /\ ProbesInv /\ StampsInv /\ KeysInv
    /\ "evicted" \notin past /\ "grown" \notin past => SumsInv

-----------------------------------------------------------------------------
(* Probe chains.                                                           *)
-----------------------------------------------------------------------------
LEMMA Modulo ==
    ASSUME NEW n \in Nat \ {0}, NEW x \in Nat, x < 2 * n
    PROVE  x % n = IF x < n THEN x ELSE x - n
  OBVIOUS

\* The positions a probe visits are positions of the table, the first one is the
\* home position, and each is followed by the next, around the end.
LEMMA Visits ==
    ASSUME NEW t, IsTable(t), NEW k \in Keys
    PROVE  LET cap == Cardinality(DOMAIN t) IN
           /\ cap \in Nat \ {0}
           /\ \A d \in 0 .. cap - 1 : At(k, cap, d) \in DOMAIN t
           /\ At(k, cap, 0) = Home(k, cap)
           /\ \A d \in 0 .. cap - 2 : After(At(k, cap, d), cap) = At(k, cap, d + 1)
           /\ After(At(k, cap, cap - 1), cap) = Home(k, cap)
<1> DEFINE cap == Cardinality(DOMAIN t)
           h == Home(k, cap)
<1>1. cap \in Nat \ {0} /\ DOMAIN t = 0 .. cap - 1 /\ h \in 0 .. cap - 1
  BY TableProperties DEF Positions
<1> HIDE DEF cap, h
<1>2. \A d \in 0 .. cap - 1 : At(k, cap, d) = IF h + d < cap THEN h + d ELSE h + d - cap
  BY <1>1, Modulo DEF At, h
<1>3. \A pos \in 0 .. cap - 1 : After(pos, cap) = IF pos + 1 < cap THEN pos + 1 ELSE pos + 1 - cap
  <2> SUFFICES ASSUME NEW pos \in 0 .. cap - 1
               PROVE  After(pos, cap) = IF pos + 1 < cap THEN pos + 1 ELSE pos + 1 - cap
    OBVIOUS
  <2> DEFINE x == pos + 1
  <2>1. x \in Nat /\ x < 2 * cap
    BY <1>1
  <2> HIDE DEF x
  <2>2. x % cap = IF x < cap THEN x ELSE x - cap
    BY <1>1, <2>1, Modulo
  <2>3. QED
    BY <1>1, <2>1, <2>2 DEF After, x
<1>4. \A d \in 0 .. cap - 1 : At(k, cap, d) \in 0 .. cap - 1
  BY <1>1, <1>2
<1>5. At(k, cap, 0) = h
  BY <1>1, <1>2
<1>6. ASSUME NEW d \in 0 .. cap - 2 PROVE After(At(k, cap, d), cap) = At(k, cap, d + 1)
  <2>1. d \in 0 .. cap - 1 /\ d + 1 \in 0 .. cap - 1
    BY <1>1
  <2> DEFINE x == At(k, cap, d)
             y == At(k, cap, d + 1)
  <2>2. x \in 0 .. cap - 1 /\ x = IF h + d < cap THEN h + d ELSE h + d - cap
    BY <1>2, <1>4, <2>1
  <2>3. y = IF h + (d + 1) < cap THEN h + (d + 1) ELSE h + (d + 1) - cap
    BY <1>2, <2>1
  <2>4. After(x, cap) = IF x + 1 < cap THEN x + 1 ELSE x + 1 - cap
    BY <1>3, <2>2
  <2> HIDE DEF x, y
  <2>5. After(x, cap) = y
    BY <1>1, <2>1, <2>2, <2>3, <2>4
  <2>6. QED
    BY <2>5 DEF x, y
<1>7. After(At(k, cap, cap - 1), cap) = h
  <2> DEFINE x == At(k, cap, cap - 1)
  <2>1. cap - 1 \in 0 .. cap - 1
    BY <1>1
  <2>2. x \in 0 .. cap - 1 /\ x = IF h + (cap - 1) < cap THEN h + (cap - 1) ELSE h + (cap - 1) - cap
    BY <1>2, <1>4, <2>1
  <2>3. After(x, cap) = IF x + 1 < cap THEN x + 1 ELSE x + 1 - cap
    BY <1>3, <2>2
  <2> HIDE DEF x
  <2>4. After(x, cap) = h
    BY <1>1, <2>2, <2>3
  <2>5. QED
    BY <2>4 DEF x
<1>8. QED
  BY <1>1, <1>4, <1>5, <1>6, <1>7 DEF cap, h

LEMMA HomeReached ==
    ASSUME NEW t, IsTable(t), NEW k \in Keys
    PROVE  Reaches(t, k, Home(k, Cardinality(DOMAIN t)))
  BY Visits DEF Reaches

\* A probe that goes on still has met neither its voxel nor a free slot; one
\* that has been all the way round starts afresh.
LEMMA NextReached ==
    ASSUME NEW t, IsTable(t), NEW k \in Keys, NEW pos, Reaches(t, k, pos),
           t[pos].key \notin {k, EMPTY}
    PROVE  Reaches(t, k, After(pos, Cardinality(DOMAIN t)))
<1> DEFINE cap == Cardinality(DOMAIN t)
<1>1. PICK d \in 0 .. cap - 1 :
          /\ pos = At(k, cap, d)
          /\ \A e \in 0 .. d - 1 : t[At(k, cap, e)].key \notin {k, EMPTY}
  BY DEF Reaches
<1>2. cap \in Nat \ {0}
  BY Visits
<1>3. CASE d = cap - 1
  BY <1>1, <1>3, Visits, HomeReached
<1>4. CASE d # cap - 1
  <2>1. d \in 0 .. cap - 2 /\ d + 1 \in 0 .. cap - 1
    BY <1>1, <1>2, <1>4
  <2>2. After(pos, cap) = At(k, cap, d + 1)
    BY <1>1, <2>1, Visits
  <2>3. \A e \in 0 .. (d + 1) - 1 : e \in 0 .. d - 1 \/ e = d
    BY <2>1
  <2>4. \A e \in 0 .. (d + 1) - 1 : t[At(k, cap, e)].key \notin {k, EMPTY}
    BY <1>1, <2>3
  <2>5. QED
    BY <2>1, <2>2, <2>4 DEF Reaches
<1>5. QED
  BY <1>3, <1>4

\* A table whose probe chains are whole has one slot per voxel.
LEMMA OneSlot ==
    ASSUME NEW t, IsTable(t), Chained(t), NEW p \in Occupied(t), NEW q \in Occupied(t), t[p].key = t[q].key
    PROVE  p = q
<1> DEFINE cap == Cardinality(DOMAIN t)
           k == t[p].key
<1>1. PICK d \in 0 .. cap - 1 :
          /\ p = At(k, cap, d)
          /\ \A e \in 0 .. d - 1 : t[At(k, cap, e)].key \notin {k, EMPTY}
  BY DEF Chained, Reaches
<1>2. PICK c \in 0 .. cap - 1 :
          /\ q = At(k, cap, c)
          /\ \A e \in 0 .. c - 1 : t[At(k, cap, e)].key \notin {k, EMPTY}
  BY DEF Chained, Reaches
<1>3. d \in Nat /\ c \in Nat
  <2>1. cap \in Nat
    BY TableProperties
  <2>2. QED
    BY ONLY <2>1, d \in 0 .. cap - 1, c \in 0 .. cap - 1
<1>4. ~(d \in 0 .. c - 1) /\ ~(c \in 0 .. d - 1)
  BY <1>1, <1>2
<1>5. d = c
  BY ONLY <1>3, <1>4
<1>6. QED
  BY <1>1, <1>2, <1>5

\* A slot written where the probe for its voxel has arrived breaks no chain and
\* hides nothing from the threads that probe.
LEMMA ChainedWritten ==
    ASSUME NEW t, IsTable(t), NEW at \in DOMAIN t, NEW slot \in Slots, slot.key # EMPTY,
           t[at].key \in {EMPTY, slot.key}, Reaches(t, slot.key, at),
           NEW u, Wrote(t, u, at, slot)
    PROVE  /\ \A j \in Keys : \A pos : Reaches(t, j, pos) => Reaches(u, j, pos)
           /\ Chained(t) => Chained(u)
           /\ KeysOf(u) = KeysOf(t) \cup {slot.key}
<1> DEFINE cap == Cardinality(DOMAIN t)
           k == slot.key
<1>1. /\ DOMAIN u = DOMAIN t
      /\ \A pos \in DOMAIN t : u[pos] = IF pos = at THEN slot ELSE t[pos]
  BY DEF Wrote
<1>2. k \in Keys
  BY DEF Slots
<1>3. ASSUME NEW j \in Keys, NEW pos, Reaches(t, j, pos) PROVE Reaches(u, j, pos)
  <2>1. PICK d \in 0 .. cap - 1 :
            /\ pos = At(j, cap, d)
            /\ \A e \in 0 .. d - 1 : t[At(j, cap, e)].key \notin {j, EMPTY}
    BY <1>3 DEF Reaches
  <2>2. ASSUME NEW e \in 0 .. d - 1 PROVE u[At(j, cap, e)].key \notin {j, EMPTY}
    <3>1. e \in 0 .. cap - 1
      BY <2>1, Visits
    <3>2. At(j, cap, e) \in DOMAIN t
      BY <3>1, Visits
    <3>3. CASE At(j, cap, e) # at
      BY <1>1, <2>1, <3>2, <3>3
    <3>4. CASE At(j, cap, e) = at
      BY <1>1, <2>1, <3>2, <3>4
    <3>5. QED
      BY <3>3, <3>4
  <2>3. QED
    BY <1>1, <2>1, <2>2 DEF Reaches
<1>4. ASSUME Chained(t) PROVE Chained(u)
  <2>1. ASSUME NEW pos \in Occupied(u) PROVE Reaches(u, u[pos].key, pos)
    <3>1. CASE pos = at
      BY <1>1, <1>2, <1>3, <3>1
    <3>2. CASE pos # at
      <4>1. pos \in Occupied(t) /\ u[pos] = t[pos]
        BY <1>1, <3>2 DEF Occupied
      <4>2. t[pos].key \in Keys
        <5>1. t[pos] \in Slots
          BY <4>1, TableProperties DEF Occupied
        <5>2. QED
          BY <4>1, <5>1 DEF Occupied, Slots
      <4>3. QED
        BY <1>3, <1>4, <4>1, <4>2 DEF Chained
    <3>3. QED
      BY <3>1, <3>2
  <2>2. QED
    BY <2>1 DEF Chained
<1>5. KeysOf(u) = KeysOf(t) \cup {k}
  <2>1. Occupied(u) = Occupied(t) \cup {at}
    BY <1>1 DEF Occupied
  <2>2. \A pos \in Occupied(t) : u[pos].key = t[pos].key
    BY <1>1 DEF Occupied
  <2>3. QED
    BY <1>1, <2>1, <2>2 DEF KeysOf
<1>6. QED
  BY <1>3, <1>4, <1>5

-----------------------------------------------------------------------------
(* The steps, with respect to the promise.                                 *)
-----------------------------------------------------------------------------
\* One lemma per step, as above.
LEMMA InitPInv == Init => PInv
<1> SUFFICES ASSUME Init PROVE PInv
  OBVIOUS
<1>1. IInv
  BY InitIInv
<1>2. Occupied(table) = {}
  BY NewTable, CapacityAssumption DEF Init
<1>3. HistoryInv /\ Chained(table) /\ ProbesInv /\ StampsInv
  BY <1>2 DEF Init, HistoryInv, Chained, ProbesInv, StampsInv
<1>4. KeysInv
  BY <1>2 DEF Init, KeysInv, KeysOf, Pending
<1>5. SumsInv
  <2> SUFFICES ASSUME NEW pos \in DOMAIN table
               PROVE  /\ table[pos].count = Number(table[pos].key)
                      /\ \A j \in Keys : table[pos].sum[j] =
                            IF j = table[pos].key THEN Number(table[pos].key) ELSE 0
    BY DEF SumsInv
  <2>1. table[pos] = FreeSlot(0)
    BY DEF Init
  <2>2. table[pos].key = EMPTY /\ table[pos].count = 0 /\ \A j \in Keys : table[pos].sum[j] = 0
    BY <2>1 DEF FreeSlot
  <2>3. Number(EMPTY) = 0
    BY DEF Init, Number
  <2>4. QED
    BY <2>2, <2>3
<1>6. QED
  BY <1>1, <1>3, <1>4, <1>5 DEF PInv

LEMMA StartInsertPromise ==
    ASSUME PInv, StartInsert
    PROVE  PInv'
<1>1. PICK scan \in Scans : InsertNothing(scan) \/ InsertInPlace(scan) \/ Grow(scan)
  BY DEF StartInsert
<1>2. IInv /\ IInv' /\ IsTable(table) /\ DOMAIN scan \subseteq Keys
  BY StartInsertStep, ScansAssumption DEF PInv, IInv, TypeInv
<1>3. /\ phase = "idle" /\ DOMAIN slot_of_run = {}
      /\ UNCHANGED <<slot_of_run, lru_counter, promised>>
  BY <1>2 DEF StartInsert, IInv, RunsInv
<1>4. \A k : Stamp(k)' = Stamp(k) /\ Number(k)' = Number(k)
  BY <1>3 DEF Stamp, Number
<1>5. CASE InsertNothing(scan)
  <2>1. UNCHANGED <<table, old, phase, batch, probe, past>>
    BY <1>5 DEF InsertNothing
  <2>2. /\ HistoryInv => HistoryInv'
        /\ Chained(table) => Chained(table')
        /\ KeysInv => KeysInv'
    BY <1>3, <2>1 DEF HistoryInv, KeysInv, Pending
  <2>3. ProbesInv'
    BY <1>3, <2>1 DEF ProbesInv
  <2>4. StampsInv => StampsInv'
    BY <1>4, <2>1 DEF StampsInv, Occupied
  <2>5. SumsInv => SumsInv'
    BY <1>4, <2>1 DEF SumsInv
  <2>6. QED
    BY <1>2, <2>1, <2>2, <2>3, <2>4, <2>5 DEF PInv
<1>6. CASE InsertInPlace(scan)
  <2>1. /\ phase' = "claim" /\ batch' = scan
        /\ UNCHANGED <<table, old, past>>
    BY <1>6 DEF InsertInPlace
  <2>2. probe' = [k \in DOMAIN scan |-> Home(k, Cardinality(DOMAIN table))]
    BY <1>6 DEF InsertInPlace, Launch, Capacity
  <2>3. ProbesInv'
    BY <1>2, <2>1, <2>2, HomeReached DEF ProbesInv
  <2>4. HistoryInv'
    BY <1>3, <2>1, <2>2 DEF PInv, HistoryInv
  <2>5. Chained(table) => Chained(table')
    BY <2>1
  <2>6. KeysInv => KeysInv'
    BY <1>3, <2>1 DEF KeysInv, Pending
  <2>7. StampsInv => StampsInv'
    BY <1>4, <2>1 DEF StampsInv
  <2>8. SumsInv => SumsInv'
    BY <1>4, <2>1 DEF SumsInv
  <2>9. QED
    BY <1>2, <2>1, <2>3, <2>4, <2>5, <2>6, <2>7, <2>8 DEF PInv
<1>7. CASE Grow(scan)
  <2> DEFINE cap == 2 * Capacity
  <2>1. /\ phase' = "rehash" /\ batch' = scan /\ old' = table
        /\ past' = (past \ {"hole"}) \cup {"grown"}
        /\ probe' = [pos \in Occupied(table) |-> Home(table[pos].key, cap)]
    BY <1>7 DEF Grow, NewHome
  <2>2. IsTable(table') /\ Occupied(table') = {} /\ Cardinality(DOMAIN table') = cap
    <3>1. PICK points \in Nat : table' = [pos \in Positions(cap) |-> FreeSlot(points)]
      BY <1>7, UninitAssumption DEF Grow
    <3>2. cap \in Nat \ {0}
      BY <1>2, TableProperties DEF Capacity
    <3>3. QED
      BY <3>1, <3>2, NewTable
  <2>3. DOMAIN probe' = Occupied(table)
    BY <2>1
  <2>4. HistoryInv'
    BY <1>3, <2>1 DEF PInv, HistoryInv
  <2>5. "evicted" \notin past' => "evicted" \notin past
    BY <2>1
  <2>6. \A pos \in Occupied(table) : table[pos].key \in Keys
    <3> SUFFICES ASSUME NEW pos \in Occupied(table) PROVE table[pos].key \in Keys
      OBVIOUS
    <3>1. table[pos] \in Slots /\ table[pos].key # EMPTY
      BY <1>2, TableProperties DEF Occupied
    <3>2. QED
      BY <3>1 DEF Slots
  <2>7. Chained(table') /\ KeysOf(table') = {} /\ StampsInv'
    BY <2>2 DEF Chained, KeysOf, StampsInv
  <2>8. ASSUME Chained(table), StampsInv PROVE ProbesInv'
    <3>1. \A s \in DOMAIN probe' : Reaches(table', old'[s].key, probe'[s])
      BY <2>1, <2>2, <2>3, <2>6, HomeReached
    <3>2. (\A s \in DOMAIN probe : old[s].lru = Stamp(old[s].key))'
      BY <1>4, <2>1, <2>3, <2>8 DEF StampsInv
    <3>3. \A s, r \in DOMAIN probe' : old'[s].key = old'[r].key => s = r
      BY <1>2, <2>1, <2>3, <2>8, OneSlot
    <3>4. QED
      BY <2>1, <2>7, <3>1, <3>2, <3>3 DEF ProbesInv
  <2>9. KeysInv => KeysInv'
    <3>1. Pending' = KeysOf(table)
      BY <2>1, <2>3 DEF Pending, KeysOf
    <3>2. Pending = {}
      BY <1>3 DEF Pending
    <3>3. QED
      BY <1>3, <2>7, <3>1, <3>2 DEF KeysInv
  <2>10. QED
    BY <1>2, <2>1, <2>4, <2>5, <2>7, <2>8, <2>9 DEF PInv
<1>8. QED
  BY <1>1, <1>5, <1>6, <1>7

LEMMA RehashProbePromise ==
    ASSUME PInv, NEW s \in Threads, RehashProbe(s)
    PROVE  PInv'
<1> DEFINE pos == probe[s]
           moved == old[s]
<1>1. IInv /\ IInv'
  BY RehashProbeStep DEF PInv
<1>2. /\ phase = "rehash" /\ s \in DOMAIN probe
      /\ pos \in DOMAIN table /\ IsTable(table)
      /\ \A r \in DOMAIN probe : old[r] \in Slots /\ old[r].key # EMPTY
      /\ DOMAIN slot_of_run = {}
  BY <1>1 DEF RehashProbe, Threads, IInv, TypeInv, ThreadsInv, RunsInv
<1>3. \A r \in DOMAIN probe : old[r].key \in Keys
  BY <1>2 DEF Slots
<1>4. UNCHANGED <<old, phase, batch, slot_of_run, lru_counter, promised, past>>
  BY DEF RehashProbe
<1>5. \A k : Stamp(k)' = Stamp(k)
  BY <1>4 DEF Stamp
<1>6. "grown" \in past'
  BY <1>2, <1>4 DEF PInv, HistoryInv
<1>7. HistoryInv'
  BY <1>2, <1>4 DEF PInv, HistoryInv
<1>8. SUFFICES ASSUME Chained(table), ProbesInv, StampsInv, KeysInv
               PROVE  Chained(table') /\ ProbesInv' /\ StampsInv' /\ KeysInv'
  BY <1>1, <1>4, <1>6, <1>7 DEF PInv
<1>9. /\ \A r \in DOMAIN probe :
            /\ Reaches(table, old[r].key, probe[r])
            /\ old[r].key \notin KeysOf(table)
            /\ old[r].lru = Stamp(old[r].key)
      /\ \A r, q \in DOMAIN probe : old[r].key = old[q].key => r = q
  BY <1>2, <1>8 DEF ProbesInv
<1>10. CASE /\ table[pos].key = EMPTY
            /\ table' = [table EXCEPT ![pos] = moved]
            /\ probe' = [r \in DOMAIN probe \ {s} |-> probe[r]]
  <2> HIDE DEF moved
  <2>1. moved \in Slots /\ moved.key # EMPTY /\ Reaches(table, moved.key, pos)
    BY <1>2, <1>9 DEF moved
  <2>2. Wrote(table, table', pos, moved)
    BY <1>2, <1>10, <2>1, SlotWritten
  <2>3. /\ \A j \in Keys : \A p : Reaches(table, j, p) => Reaches(table', j, p)
        /\ Chained(table')
        /\ KeysOf(table') = KeysOf(table) \cup {moved.key}
    <3> HIDE DEF pos
    <3>1. table[pos].key \in {EMPTY, moved.key}
      BY <1>10
    <3>2. QED
      BY ONLY <1>2, <1>8, <2>1, <2>2, <3>1, ChainedWritten
  <2>4. DOMAIN probe' = DOMAIN probe \ {s} /\ \A r \in DOMAIN probe' : probe'[r] = probe[r]
    BY <1>10
  <2>5. \A r \in DOMAIN probe' : old[r].key \notin KeysOf(table')
    BY <1>2, <1>9, <2>3, <2>4 DEF moved
  <2>6. ProbesInv'
    BY <1>2, <1>3, <1>4, <1>5, <1>9, <2>3, <2>4, <2>5 DEF ProbesInv
  <2>7. StampsInv'
    <3> SUFFICES ASSUME NEW p \in Occupied(table') PROVE table'[p].lru = Stamp(table'[p].key)
      BY <1>5 DEF StampsInv
    <3>1. CASE p = pos
      <4>1. table'[p] = moved
        BY <1>2, <2>2, <3>1 DEF Wrote
      <4>2. QED
        BY <1>2, <1>9, <4>1 DEF moved
    <3>2. CASE p # pos
      <4>1. p \in Occupied(table) /\ table'[p] = table[p]
        BY <2>2, <3>2 DEF Wrote, Occupied
      <4>2. QED
        BY <1>8, <4>1 DEF StampsInv
    <3>3. QED
      BY <3>1, <3>2
  <2>8. KeysInv'
    <3>1. Pending = Pending' \cup {moved.key}
      BY <1>2, <1>4, <2>4 DEF Pending, moved
    <3>2. QED
      BY <1>4, <1>8, <2>3, <3>1 DEF KeysInv
  <2>9. QED
    BY <2>3, <2>6, <2>7, <2>8
<1>11. CASE /\ table[pos].key # EMPTY
            /\ probe' = [probe EXCEPT ![s] = After(pos, Capacity)]
            /\ UNCHANGED table
  <2>1. DOMAIN probe' = DOMAIN probe
        /\ \A r \in DOMAIN probe : probe'[r] = IF r = s THEN After(pos, Capacity) ELSE probe[r]
    BY <1>2, <1>11
  <2>2. table[pos].key \in KeysOf(table)
    BY <1>2, <1>11 DEF KeysOf, Occupied
  <2>3. Reaches(table, old[s].key, After(pos, Capacity))
    BY <1>2, <1>3, <1>9, <1>11, <2>2, NextReached DEF Capacity
  <2>4. ProbesInv'
    BY <1>2, <1>4, <1>5, <1>9, <1>11, <2>1, <2>3 DEF ProbesInv
  <2>5. Chained(table') /\ StampsInv'
    BY <1>5, <1>8, <1>11 DEF StampsInv
  <2>6. KeysInv'
    BY <1>4, <1>8, <1>11, <2>1 DEF KeysInv, Pending
  <2>7. QED
    BY <2>4, <2>5, <2>6
<1>12. QED
  BY <1>10, <1>11 DEF RehashProbe

LEMMA RehashDonePromise ==
    ASSUME PInv, RehashDone
    PROVE  PInv'
<1>1. IInv /\ IInv' /\ IsTable(table) /\ DOMAIN batch \subseteq Keys
  BY RehashDoneStep DEF PInv, IInv, TypeInv, RunsInv
<1>2. /\ phase = "rehash" /\ DOMAIN probe = {} /\ phase' = "claim" /\ DOMAIN slot_of_run = {}
      /\ probe' = [k \in DOMAIN batch |-> Home(k, Cardinality(DOMAIN table))]
      /\ UNCHANGED <<table, batch, slot_of_run, lru_counter, promised, past>>
  BY <1>1 DEF RehashDone, Launch, Capacity, IInv, RunsInv
<1>3. \A k : Stamp(k)' = Stamp(k)
  BY <1>2 DEF Stamp
<1>4. "grown" \in past'
  BY <1>2 DEF PInv, HistoryInv
<1>5. HistoryInv'
  BY <1>2 DEF PInv, HistoryInv
<1>6. ProbesInv'
  BY <1>1, <1>2, HomeReached DEF ProbesInv
<1>7. Chained(table) => Chained(table')
  BY <1>2
<1>8. StampsInv => StampsInv'
  BY <1>2, <1>3 DEF StampsInv
<1>9. KeysInv => KeysInv'
  BY <1>2 DEF KeysInv, Pending
<1>10. QED
  BY <1>1, <1>2, <1>4, <1>5, <1>6, <1>7, <1>8, <1>9 DEF PInv

LEMMA ClaimProbePromise ==
    ASSUME PInv, NEW k \in Threads, ClaimProbe(k)
    PROVE  PInv'
<1> DEFINE pos == probe[k]
           slot == [table[pos] EXCEPT !.key = k, !.lru = lru_counter]
<1>1. IInv /\ IInv'
  BY ClaimProbeStep DEF PInv
<1>2. /\ phase = "claim" /\ k \in DOMAIN probe /\ DOMAIN probe \subseteq Keys
      /\ pos \in DOMAIN table /\ IsTable(table) /\ IsTable(table') /\ lru_counter \in Nat
  BY <1>1 DEF ClaimProbe, Threads, IInv, TypeInv, ThreadsInv
<1>3. UNCHANGED <<old, phase, batch, lru_counter, promised, past>>
  BY DEF ClaimProbe
<1>4. k \in Keys /\ k # EMPTY
  BY <1>2, KeysAssumption
<1>5. table[pos] \in Slots
  BY <1>2, TableProperties
<1>6. CASE /\ table[pos].key \in {EMPTY, k}
           /\ table' = [table EXCEPT ![pos].key = k, ![pos].lru = lru_counter]
           /\ slot_of_run' = [r \in DOMAIN slot_of_run \cup {k} |->
                                 IF r = k THEN pos ELSE slot_of_run[r]]
           /\ probe' = [r \in DOMAIN probe \ {k} |-> probe[r]]
  <2>1. /\ slot \in Slots /\ slot.key = k /\ slot.lru = lru_counter
        /\ slot.sum = table[pos].sum /\ slot.count = table[pos].count
    BY <1>2, <1>4, <1>5 DEF Slots
  <2>2. table' = [table EXCEPT ![pos] = slot]
    BY <1>2, <1>5, <1>6 DEF Slots
  <2> HIDE DEF slot
  <2>3. Wrote(table, table', pos, slot)
    BY <1>2, <1>4, <2>1, <2>2, SlotWritten
  <2>4. /\ DOMAIN table' = DOMAIN table
        /\ \A p \in DOMAIN table : table'[p] = IF p = pos THEN slot ELSE table[p]
    BY <2>3 DEF Wrote
  <2>5. DOMAIN probe' = DOMAIN probe \ {k} /\ \A r \in DOMAIN probe' : probe'[r] = probe[r]
    BY <1>6
  <2>6. DOMAIN slot_of_run' = DOMAIN slot_of_run \cup {k}
    BY <1>6
  <2>7. /\ Stamp(k)' = lru_counter
        /\ \A r \in Keys \ {k} : Stamp(r)' = Stamp(r)
        /\ \A r : Number(r)' = Number(r)
    BY <1>3, <2>6 DEF Stamp, Number
  <2>8. HistoryInv'
    BY <1>2, <1>3, <2>5, <2>6 DEF PInv, HistoryInv
  <2>9. SUFFICES ASSUME Chained(table), ProbesInv, StampsInv, KeysInv
                 PROVE  /\ Chained(table') /\ ProbesInv' /\ StampsInv' /\ KeysInv'
                        /\ SumsInv => SumsInv'
    BY <1>1, <1>3, <2>8 DEF PInv
  <2>10. \A r \in DOMAIN probe : Reaches(table, r, probe[r])
    BY <1>2, <2>9 DEF ProbesInv
  <2>11. /\ \A r \in Keys : \A p : Reaches(table, r, p) => Reaches(table', r, p)
         /\ Chained(table')
         /\ KeysOf(table') = KeysOf(table) \cup {k}
    <3> HIDE DEF pos
    <3>1. Reaches(table, slot.key, pos) /\ table[pos].key \in {EMPTY, slot.key} /\ slot.key # EMPTY
      BY <1>2, <1>4, <1>6, <2>1, <2>10 DEF pos
    <3>2. QED
      BY ONLY <1>2, <2>1, <2>3, <2>9, <3>1, ChainedWritten
  <2>12. ProbesInv'
    BY <1>2, <1>3, <2>5, <2>10, <2>11 DEF ProbesInv
  <2>13. \A p \in Occupied(table') \ {pos} :
            /\ p \in Occupied(table) /\ table'[p] = table[p]
            /\ table[p].key \in Keys \ {k}
    <3> SUFFICES ASSUME NEW p \in Occupied(table') \ {pos}
                 PROVE  /\ p \in Occupied(table) /\ table'[p] = table[p]
                        /\ table[p].key \in Keys \ {k}
      OBVIOUS
    <3>1. p \in Occupied(table) /\ table'[p] = table[p]
      BY <2>4 DEF Occupied
    <3>2. pos \in Occupied(table') /\ table'[pos].key = k
      BY <1>2, <1>4, <2>1, <2>4 DEF Occupied
    <3>3. table'[p].key # k
      BY <1>2, <2>11, <3>2, OneSlot
    <3>4. table[p] \in Slots /\ table[p].key # EMPTY
      BY <1>2, <3>1, TableProperties DEF Occupied
    <3>5. QED
      BY <3>1, <3>3, <3>4 DEF Slots
  <2>14. StampsInv'
    <3>1. pos \in DOMAIN table /\ table'[pos].key = k /\ table'[pos].lru = lru_counter
      BY <1>2, <2>1, <2>4
    <3>2. QED
      BY <1>3, <2>7, <2>9, <2>13, <3>1 DEF StampsInv
  <2>15. KeysInv'
    BY <1>2, <1>3, <2>6, <2>9, <2>11 DEF KeysInv, Pending
  <2>16. ASSUME SumsInv PROVE SumsInv'
    <3>1. ASSUME table[pos].key = EMPTY PROVE k \notin DOMAIN promised
      <4> SUFFICES ASSUME k \in DOMAIN promised PROVE FALSE
        OBVIOUS
      <4>1. k \in KeysOf(table)
        BY <1>2, <2>9 DEF KeysInv, Pending
      <4>2. PICK p \in Occupied(table) : table[p].key = k
        BY <4>1 DEF KeysOf
      <4>3. p # pos
        BY <1>4, <3>1, <4>2
      <4>4. p \in Occupied(table') \ {pos}
        BY <2>4, <4>2, <4>3 DEF Occupied
      <4>5. QED
        BY <2>13, <4>2, <4>4
    <3>2. EMPTY \notin DOMAIN promised /\ EMPTY \notin Keys
      BY KeysAssumption DEF PInv, HistoryInv
    <3>3. Number(k) = Number(table[pos].key)
      BY <1>6, <3>1, <3>2 DEF Number
    <3>4. ASSUME NEW p \in DOMAIN table
          PROVE  /\ table'[p].count = Number(table'[p].key)
                 /\ \A j \in Keys : table'[p].sum[j] =
                        IF j = table'[p].key THEN Number(table'[p].key) ELSE 0
      <4>1. /\ table[p].count = Number(table[p].key)
            /\ \A j \in Keys : table[p].sum[j] = IF j = table[p].key THEN Number(table[p].key) ELSE 0
        BY <2>16 DEF SumsInv
      <4>2. CASE p # pos
        BY <2>4, <4>1, <4>2
      <4>3. CASE p = pos
        <5>1. /\ table'[p].key = k /\ table'[p].count = table[p].count
              /\ table'[p].sum = table[p].sum
          BY <2>1, <2>4, <4>3
        <5>2. table'[p].count = Number(k)
          BY <3>3, <4>1, <4>3, <5>1
        <5>3. ASSUME NEW j \in Keys PROVE table'[p].sum[j] = IF j = k THEN Number(k) ELSE 0
          <6>1. CASE table[pos].key = k
            BY <4>1, <4>3, <5>1, <6>1
          <6>2. CASE table[pos].key = EMPTY
            <7>1. Number(k) = 0 /\ j # EMPTY
              BY <3>1, <3>2, <6>2 DEF Number
            <7>2. table[p].sum[j] = 0
              BY <4>1, <4>3, <6>2, <7>1
            <7>3. QED
              BY <5>1, <7>1, <7>2
          <6>3. QED
            BY <1>6, <6>1, <6>2
        <5>4. QED
          BY <5>1, <5>2, <5>3
      <4>4. QED
        BY <4>2, <4>3
    <3>5. QED
      BY <2>4, <2>7, <3>4 DEF SumsInv
  <2>17. QED
    BY <2>11, <2>12, <2>14, <2>15, <2>16
<1>7. CASE /\ table[pos].key \notin {EMPTY, k}
           /\ probe' = [probe EXCEPT ![k] = After(pos, Capacity)]
           /\ UNCHANGED <<table, slot_of_run>>
  <2>1. DOMAIN probe' = DOMAIN probe
        /\ \A r \in DOMAIN probe : probe'[r] = IF r = k THEN After(pos, Capacity) ELSE probe[r]
    BY <1>2, <1>7
  <2>2. \A r : Stamp(r)' = Stamp(r) /\ Number(r)' = Number(r)
    BY <1>3, <1>7 DEF Stamp, Number
  <2>3. HistoryInv'
    BY <1>2, <1>3, <1>7, <2>1 DEF PInv, HistoryInv
  <2>4. ASSUME ProbesInv PROVE ProbesInv'
    <3>1. Reaches(table, k, After(pos, Capacity))
      BY <1>2, <1>4, <1>7, <2>4, NextReached DEF ProbesInv, Capacity
    <3>2. QED
      BY <1>2, <1>3, <1>7, <2>1, <2>4, <3>1 DEF ProbesInv
  <2>5. Chained(table) => Chained(table')
    BY <1>7
  <2>6. StampsInv => StampsInv'
    BY <1>7, <2>2 DEF StampsInv
  <2>7. KeysInv => KeysInv'
    BY <1>2, <1>3, <1>7 DEF KeysInv, Pending
  <2>8. SumsInv => SumsInv'
    BY <1>7, <2>2 DEF SumsInv
  <2>9. QED
    BY <1>1, <1>3, <2>3, <2>4, <2>5, <2>6, <2>7, <2>8 DEF PInv
<1>8. QED
  BY <1>6, <1>7 DEF ClaimProbe

\* A slot receives the points of the voxel that it carries and no others.
LEMMA AccumulatedSlot ==
    ASSUME IInv, phase = "claim", DOMAIN probe = {}, Chained(table),
           DOMAIN slot_of_run = DOMAIN batch, NEW pos \in DOMAIN table
    PROVE  LET k == table[pos].key
               added == IF k \in DOMAIN batch THEN batch[k] ELSE 0
           IN  /\ Accumulated[pos].count = table[pos].count + added
               /\ \A j \in Keys : Accumulated[pos].sum[j] =
                      table[pos].sum[j] + IF j = k THEN added ELSE 0
<1> DEFINE k == table[pos].key
           runs == {r \in DOMAIN batch : slot_of_run[r] = pos}
           sum == [j \in Keys |-> table[pos].sum[j] + IF j \in runs THEN RunLength(j) ELSE 0]
           count == IF runs = {} THEN table[pos].count
                    ELSE table[pos].count + RunLength(CHOOSE r \in runs : TRUE)
<1>1. IsTable(table) /\ table[pos] \in Slots
  BY TableProperties DEF IInv, TypeInv
<1>2. \A r \in DOMAIN batch :
          r \in Keys /\ r # EMPTY /\ slot_of_run[r] \in DOMAIN table /\ table[slot_of_run[r]].key = r
  BY KeysAssumption DEF IInv, RunsInv, OwnSlot
<1>3. runs = IF k \in DOMAIN batch THEN {k} ELSE {}
  <2>1. \A r \in runs : r = k
    BY <1>2
  <2>2. ASSUME k \in DOMAIN batch PROVE k \in runs
    <3>1. pos \in Occupied(table) /\ slot_of_run[k] \in Occupied(table)
      BY <1>2, <2>2 DEF Occupied
    <3>2. slot_of_run[k] = pos
      BY <1>1, <1>2, <2>2, <3>1, OneSlot
    <3>3. QED
      BY <2>2, <3>2
  <2>3. QED
    BY <2>1, <2>2
<1>4. Accumulated[pos] = [table[pos] EXCEPT !.sum = sum, !.count = count]
  BY <1>1 DEF Accumulated, Slots
<1> HIDE DEF runs
<1>5. Accumulated[pos].sum = sum /\ Accumulated[pos].count = count
  <2> HIDE DEF sum, count
  <2> QED
    BY <1>1, <1>4 DEF Slots
<1>6. table[pos].count \in Nat /\ \A j \in Keys : table[pos].sum[j] \in Nat
  BY <1>1 DEF Slots
<1>7. CASE k \in DOMAIN batch
  <2>1. runs = {k} /\ (CHOOSE r \in runs : TRUE) = k
    BY <1>3, <1>7
  <2>2. QED
    BY <1>5, <1>6, <1>7, <2>1 DEF RunLength
<1>8. CASE k \notin DOMAIN batch
  <2>1. runs = {}
    BY <1>3, <1>8
  <2>2. QED
    BY <1>5, <1>6, <1>8, <2>1
<1>9. QED
  BY <1>7, <1>8

\* Tables with the same keys have the same probe chains.
LEMMA SameChains ==
    ASSUME NEW t, IsTable(t), NEW u, DOMAIN u = DOMAIN t,
           \A pos \in DOMAIN t : u[pos].key = t[pos].key,
           Chained(t)
    PROVE  Chained(u) /\ Occupied(u) = Occupied(t) /\ KeysOf(u) = KeysOf(t)
<1> DEFINE cap == Cardinality(DOMAIN t)
<1>1. Occupied(u) = Occupied(t)
  BY DEF Occupied
<1>2. KeysOf(u) = KeysOf(t)
  BY <1>1 DEF KeysOf, Occupied
<1>3. ASSUME NEW pos \in Occupied(t) PROVE Reaches(u, u[pos].key, pos)
  <2> DEFINE k == t[pos].key
  <2>1. t[pos] \in Slots /\ k # EMPTY /\ u[pos].key = k
    BY TableProperties DEF Occupied
  <2>2. k \in Keys
    BY <2>1 DEF Slots
  <2> HIDE DEF k
  <2>3. PICK d \in 0 .. cap - 1 :
            /\ pos = At(k, cap, d)
            /\ \A e \in 0 .. d - 1 : t[At(k, cap, e)].key \notin {k, EMPTY}
    BY DEF Chained, Reaches, k
  <2>4. \A e \in 0 .. d - 1 : e \in 0 .. cap - 1
    BY <2>2, <2>3, Visits
  <2>5. \A e \in 0 .. d - 1 : At(k, cap, e) \in DOMAIN t
    BY <2>2, <2>4, Visits
  <2>6. QED
    BY <2>1, <2>3, <2>5 DEF Reaches
<1>4. QED
  BY <1>1, <1>2, <1>3 DEF Chained

\* What a scan adds to a voxel.
Added(k) == IF k \in DOMAIN batch THEN batch[k] ELSE 0

\* As long as nothing expires the promise keeps what it had and what it gets.
LEMMA PromiseKept ==
    ASSUME IInv, HistoryInv, phase = "claim", DOMAIN slot_of_run = DOMAIN batch, NEW now \in Nat,
           \/ inserts_since_clear + 1 < Cycle
           \/ \A k \in DOMAIN promised \cup DOMAIN batch : Stamp(k) + Horizon >= now
    PROVE  /\ DOMAIN PromisedAfter(now) = DOMAIN promised \cup DOMAIN batch
           /\ \A k \in DOMAIN promised \cup DOMAIN batch :
                 /\ PromisedAfter(now)[k].n = Number(k) + Added(k)
                 /\ PromisedAfter(now)[k].lru = Stamp(k)
  BY DEF PromisedAfter, Stamp, Number, Added

LEMMA FinishInsertPromise ==
    ASSUME PInv, FinishInsert
    PROVE  PInv'
<1> DEFINE now == lru_counter'
           expired == {pos \in DOMAIN table : Expired(table[pos], now)}
<1>1. IInv /\ IInv'
  BY FinishInsertStep DEF PInv
<1>2. /\ phase = "claim" /\ DOMAIN probe = {} /\ phase' = "idle"
      /\ now = lru_counter + 1 /\ lru_counter \in Nat
      /\ DOMAIN slot_of_run' = {} /\ DOMAIN batch' = {}
      /\ promised' = PromisedAfter(now)
      /\ DOMAIN slot_of_run = DOMAIN batch
      /\ IsTable(table)
  BY <1>1 DEF FinishInsert, IInv, RunsInv, TypeInv, PInv, HistoryInv
<1>3. /\ DOMAIN promised \subseteq Keys /\ DOMAIN batch \subseteq Keys
      /\ \A k \in DOMAIN promised : promised[k].n \in Nat /\ promised[k].lru \in Nat
      /\ \A k \in DOMAIN batch : batch[k] \in Nat
  BY <1>1 DEF PInv, HistoryInv, IInv, RunsInv
<1>4. HistoryInv'
  <2>1. DOMAIN promised' \subseteq Keys
    BY <1>2, <1>3 DEF PromisedAfter
  <2>2. \A k \in DOMAIN promised' : promised'[k].n \in Nat /\ promised'[k].lru \in Nat
    BY <1>2, <1>3 DEF PromisedAfter
  <2>3. QED
    BY <1>2, <2>1, <2>2 DEF HistoryInv
<1>5. SUFFICES ASSUME "evicted" \notin past'
               PROVE  /\ Chained(table') /\ ProbesInv' /\ StampsInv' /\ KeysInv'
                      /\ "grown" \notin past' => SumsInv'
  BY <1>1, <1>4 DEF PInv
<1>6. "evicted" \notin past /\ ("grown" \in past => "grown" \in past')
  BY <1>5 DEF FinishInsert
<1>7. Chained(table) /\ StampsInv /\ KeysOf(table) = DOMAIN promised \cup DOMAIN batch
  BY <1>2, <1>6 DEF PInv, KeysInv, Pending
<1>8. /\ DOMAIN Accumulated = DOMAIN table
      /\ \A pos \in DOMAIN table :
            Accumulated[pos].key = table[pos].key /\ Accumulated[pos].lru = table[pos].lru
  BY <1>1, <1>2, AccumulatedTable
<1>9. \/ inserts_since_clear + 1 < Cycle /\ table' = Accumulated
      \/ table' = Evicted(Accumulated, now) /\ expired = {}
  <2>1. ASSUME table' = Evicted(Accumulated, now),
               live_count' = live_count - Cardinality(expired),
               ~(live_count' < live_count)
        PROVE  expired = {}
    <3>1. IsFiniteSet(expired)
      <4>1. expired \subseteq Occupied(table)
        BY DEF Expired, Occupied
      <4>2. IsFiniteSet(Occupied(table))
        BY <1>2, TableProperties
      <4>3. QED
        BY <4>1, <4>2, FS_Subset
    <3>2. Cardinality(expired) \in Nat /\ live_count \in Int
      BY <1>1, <3>1, FS_CardinalityType DEF IInv, TypeInv
    <3>3. Cardinality(expired) = 0
      BY <2>1, <3>2
    <3>4. QED
      BY <3>1, <3>3, FS_EmptySet
  <2>2. QED
    BY <1>5, <2>1 DEF FinishInsert
<1>10. DOMAIN table' = DOMAIN table /\ \A pos \in DOMAIN table : table'[pos] = Accumulated[pos]
  <2>1. CASE table' = Accumulated
    BY <1>8, <2>1
  <2>2. CASE table' = Evicted(Accumulated, now) /\ expired = {}
    <3>1. \A pos \in DOMAIN table : ~Expired(Accumulated[pos], now)
      BY <1>8, <2>2 DEF Expired
    <3>2. QED
      BY <1>8, <2>2, <3>1 DEF Evicted
  <2>3. QED
    BY <1>9, <2>1, <2>2
<1>11. Chained(table') /\ Occupied(table') = Occupied(table) /\ KeysOf(table') = KeysOf(table)
  BY <1>2, <1>7, <1>8, <1>10, SameChains
<1>12. /\ DOMAIN promised' = DOMAIN promised \cup DOMAIN batch
       /\ \A k \in DOMAIN promised \cup DOMAIN batch :
             promised'[k].n = Number(k) + Added(k) /\ promised'[k].lru = Stamp(k)
  <2>1. ASSUME expired = {}, NEW k \in DOMAIN promised \cup DOMAIN batch
        PROVE  Stamp(k) + Horizon >= now
    <3>1. PICK pos \in Occupied(table) : table[pos].key = k
      BY <1>7 DEF KeysOf
    <3>2. table[pos].lru = Stamp(k) /\ ~Expired(table[pos], now) /\ table[pos].key # EMPTY
      BY <1>7, <2>1, <3>1 DEF StampsInv, Occupied
    <3>3. table[pos] \in Slots
      BY <1>2, <3>1, TableProperties DEF Occupied
    <3>4. table[pos].lru \in Nat /\ ~(table[pos].lru + Horizon < now)
      BY <3>2, <3>3 DEF Expired, Slots
    <3>5. QED
      BY <1>2, <3>2, <3>4, LruAssumption
  <2>2. now \in Nat
    BY <1>2
  <2>3. \/ inserts_since_clear + 1 < Cycle
        \/ \A k \in DOMAIN promised \cup DOMAIN batch : Stamp(k) + Horizon >= now
    BY <1>9, <2>1
  <2> HIDE DEF now
  <2>4. QED
    BY <1>1, <1>2, <2>2, <2>3, PromiseKept DEF PInv
<1>13. KeysInv' /\ ProbesInv'
  BY <1>2, <1>7, <1>11, <1>12 DEF KeysInv, ProbesInv, Pending
<1>14. StampsInv'
  <2>1. \A k \in DOMAIN promised \cup DOMAIN batch : Stamp(k)' = Stamp(k)
    BY <1>2, <1>12 DEF Stamp
  <2>2. \A pos \in Occupied(table) :
            /\ table'[pos].key = table[pos].key /\ table'[pos].lru = Stamp(table[pos].key)
            /\ table[pos].key \in DOMAIN promised \cup DOMAIN batch
    BY <1>7, <1>8, <1>10 DEF StampsInv, KeysOf, Occupied
  <2>3. QED
    BY <1>11, <2>1, <2>2 DEF StampsInv
<1>15. ASSUME "grown" \notin past' PROVE SumsInv'
  <2>1. SumsInv
    BY <1>6, <1>15 DEF PInv
  <2>2. \A k : Number(k)' = Number(k) + Added(k)
    BY <1>3, <1>12 DEF Number, Added
  <2>3. ASSUME NEW pos \in DOMAIN table, NEW k, k = table[pos].key
        PROVE  /\ table'[pos].key = k /\ table'[pos].count = Number(k)'
               /\ \A j \in Keys : table'[pos].sum[j] = IF j = k THEN Number(k)' ELSE 0
    <3>1. table'[pos].key = k /\ table'[pos] = Accumulated[pos]
      BY <1>8, <1>10, <2>3
    <3>2. /\ table[pos].count = Number(k)
          /\ \A j \in Keys : table[pos].sum[j] = IF j = k THEN Number(k) ELSE 0
      BY <2>1, <2>3 DEF SumsInv
    <3>3. /\ Accumulated[pos].count = table[pos].count + Added(k)
          /\ \A j \in Keys : Accumulated[pos].sum[j] =
                 table[pos].sum[j] + IF j = k THEN Added(k) ELSE 0
      BY <1>1, <1>2, <1>7, <2>3, AccumulatedSlot DEF Added
    <3>4. QED
      BY <2>2, <3>1, <3>2, <3>3
  <2>4. SumsInv'
    <3>1. SUFFICES ASSUME NEW pos \in DOMAIN table
                   PROVE  (/\ table[pos].count = Number(table[pos].key)
                           /\ \A j \in Keys : table[pos].sum[j] =
                                  IF j = table[pos].key THEN Number(table[pos].key) ELSE 0)'
      BY <1>10 DEF SumsInv
    <3>2. PICK k : k = table[pos].key
      OBVIOUS
    <3>3. /\ table'[pos].key = k /\ table'[pos].count = Number(k)'
          /\ \A j \in Keys : table'[pos].sum[j] = IF j = k THEN Number(k)' ELSE 0
      BY <2>3, <3>2
    <3>4. QED
      BY <3>3
  <2>5. QED
    BY <2>4
<1>16. QED
  BY <1>11, <1>13, <1>14, <1>15

LEMMA NextPInv == PInv /\ [Next]_vars => PInv'
<1> SUFFICES ASSUME PInv, [Next]_vars PROVE PInv'
  OBVIOUS
<1>1. CASE UNCHANGED vars
  <2>1. IInv'
    BY <1>1, NextIInv DEF PInv
  <2>2. HistoryInv' /\ (KeysInv => KeysInv')
    BY <1>1 DEF PInv, vars, HistoryInv, KeysInv, Pending
  <2>3. \A k : Stamp(k)' = Stamp(k) /\ Number(k)' = Number(k)
    BY <1>1 DEF vars, Stamp, Number
  <2>4. /\ ProbesInv => ProbesInv'
        /\ StampsInv => StampsInv'
        /\ SumsInv => SumsInv'
    BY <1>1, <2>3 DEF vars, ProbesInv, StampsInv, SumsInv
  <2>5. QED
    BY <1>1, <2>1, <2>2, <2>4 DEF PInv, vars
<1>2. QED
  BY <1>1, StartInsertPromise, RehashProbePromise, RehashDonePromise, ClaimProbePromise,
     FinishInsertPromise DEF Next

-----------------------------------------------------------------------------
\* Between two inserts the invariant says what the promise does.
LEMMA PromiseMatched == PInv => MatchesPromise
<1> SUFFICES ASSUME PInv, phase = "idle", "evicted" \notin past
             PROVE  /\ KeysOf(table) = DOMAIN promised
                    /\ Cardinality(Occupied(table)) = Cardinality(DOMAIN promised)
                    /\ \A k \in DOMAIN promised : Found(table, k)
                    /\ "grown" \notin past =>
                          \A pos \in Occupied(table) :
                              LET n == promised[table[pos].key].n IN
                              /\ table[pos].count = n
                              /\ table[pos].sum = [NoPoints EXCEPT ![table[pos].key] = n]
  BY DEF MatchesPromise, KeysOf
<1>1. IsTable(table) /\ Chained(table) /\ KeysOf(table) = DOMAIN promised
  BY DEF PInv, IInv, TypeInv, RunsInv, KeysInv, Pending
<1>2. Cardinality(Occupied(table)) = Cardinality(DOMAIN promised)
  <2> DEFINE key == [pos \in Occupied(table) |-> table[pos].key]
  <2>1. key \in Bijection(Occupied(table), DOMAIN promised)
    <3>1. key \in [Occupied(table) -> DOMAIN promised]
      BY <1>1 DEF KeysOf
    <3>2. \A p, q \in Occupied(table) : key[p] = key[q] => p = q
      BY <1>1, OneSlot
    <3>3. \A k \in DOMAIN promised : \E pos \in Occupied(table) : key[pos] = k
      BY <1>1 DEF KeysOf
    <3> HIDE DEF key
    <3>4. QED
      BY <3>1, <3>2, <3>3 DEF Bijection, Injection, Surjection, IsInjective
  <2>2. QED
    BY <1>1, <2>1, TableProperties, FS_Bijection DEF ExistsBijection
<1>3. ASSUME NEW k \in DOMAIN promised PROVE Found(table, k)
  <2>1. PICK pos \in Occupied(table) : table[pos].key = k
    BY <1>1 DEF KeysOf
  <2>2. Reaches(table, k, pos)
    BY <1>1, <2>1 DEF Chained
  <2>3. QED
    BY <2>1, <2>2 DEF Found, FoundAt, Reaches, At, Occupied
<1>4. ASSUME "grown" \notin past, NEW pos \in Occupied(table)
      PROVE  LET n == promised[table[pos].key].n IN
             /\ table[pos].count = n
             /\ table[pos].sum = [NoPoints EXCEPT ![table[pos].key] = n]
  <2> DEFINE k == table[pos].key
  <2>1. k \in DOMAIN promised /\ k \in Keys
    BY <1>1 DEF KeysOf, PInv, HistoryInv
  <2>2. table[pos] \in Slots /\ pos \in DOMAIN table
    BY <1>1, TableProperties DEF Occupied
  <2>3. /\ table[pos].count = promised[k].n
        /\ \A j \in Keys : table[pos].sum[j] = IF j = k THEN promised[k].n ELSE 0
    BY <1>4, <2>1, <2>2 DEF PInv, SumsInv, Number
  <2>4. table[pos].sum = [j \in Keys |-> table[pos].sum[j]]
    BY <2>2 DEF Slots
  <2>5. [NoPoints EXCEPT ![k] = promised[k].n] = [j \in Keys |-> IF j = k THEN promised[k].n ELSE 0]
    BY <2>1 DEF NoPoints
  <2>6. QED
    BY <2>3, <2>4, <2>5
<1>5. QED
  BY <1>1, <1>2, <1>3, <1>4

\* Until the first eviction the map is the one that was promised: one slot per
\* voxel, found by every probe, and until the table first grows with the sums of
\* its own points -- for any hash function, any races and any number of inserts.
THEOREM PromiseKeptByTable == Spec => []MatchesPromise
<1>1. Spec => []PInv
  BY InitPInv, NextPInv, PTL DEF Spec
<1>2. QED
  BY <1>1, PromiseMatched, PTL
=============================================================================
