---------------------------- MODULE VoxelHashMap ----------------------------
(***************************************************************************)
(* The GPU's incremental voxel map: an open-addressed hash table whose     *)
(* slots hold running sums.  insert() is a sequence of kernels on one      *)
(* stream.  In the kernels that claim slots (one thread per distinct voxel *)
(* of the scan, and one per old slot when the table is rehashed) threads   *)
(* interleave at every atomicCAS; the kernels whose threads touch only     *)
(* their own slot are one step each.                                       *)
(*                                                                         *)
(* A slot's sum counts, for every voxel, the points of it that were added. *)
(***************************************************************************)
EXTENDS Integers, FiniteSets

CONSTANTS
    Keys,             \* packed voxel coordinates
    EMPTY,            \* the key of a free slot (and of points out of range)
    Hash,             \* voxel_hash before masking
    InitialCapacity,  \* size of a new table (2^18 in the code)
    Horizon,          \* lru_horizon_val
    Cycle,            \* lru_clear_cycle_val
    Scans,            \* number of points per voxel, for the clouds inserted
    Uninit,           \* what freshly allocated device memory may hold
    MaxInserts        \* bound on the number of calls of insert()

VARIABLES
    table,               \* position -> [key, sum, count, lru]
    old,                 \* the table a rehash_kernel reads
    phase,               \* "idle", or the slot-claiming kernel that is running
    batch,               \* the runs of the scan being inserted: voxel -> points
    probe,               \* the kernel's unfinished threads and their next position
    slot_of_run,         \* voxel of the scan -> the slot its thread found
    live_count,          \* live_count_, on the device
    live_slots,          \* live_slots_, the host's copy
    lru_counter,
    inserts_since_clear,
    calls,               \* history: number of calls of insert()
    promised,            \* history: the voxels a map without a table would hold
    past                 \* history: what has happened to the table

vars == <<table, old, phase, batch, probe, slot_of_run, live_count, live_slots,
          lru_counter, inserts_since_clear, calls, promised, past>>

ASSUME KeysAssumption == EMPTY \notin Keys /\ Hash \in [Keys -> Nat]
ASSUME CapacityAssumption == InitialCapacity \in Nat \ {0}
ASSUME LruAssumption == Horizon \in Nat /\ Cycle \in Nat
ASSUME ScansAssumption ==
    \A scan \in Scans : DOMAIN scan \subseteq Keys /\ \A k \in DOMAIN scan : scan[k] \in Nat \ {0}
ASSUME UninitAssumption == Uninit \subseteq Nat /\ Uninit # {}
ASSUME BoundAssumption == MaxInserts \in Nat

-----------------------------------------------------------------------------
Capacity == Cardinality(DOMAIN table)
Positions(cap) == 0 .. cap - 1
Home(k, cap) == Hash[k] % cap

\* Faulty variants of a definition stand before it; the properties notice them.
StopsAtEnd(pos, cap) == IF pos + 1 = cap THEN pos ELSE pos + 1

After(pos, cap) == (pos + 1) % cap

Occupied(t) == {pos \in DOMAIN t : t[pos].key # EMPTY}
NoPoints == [k \in Keys |-> 0]
FreeSlot(points) == [key |-> EMPTY, sum |-> [k \in Keys |-> points], count |-> points, lru |-> 0]

\* A probe from a key's home position meets the key before a free slot.
FoundAt(t, k, pos) ==
    LET cap == Cardinality(DOMAIN t)
        at(d) == (Home(k, cap) + d) % cap
    IN  \E d \in 0 .. cap - 1 :
            /\ pos = at(d) /\ t[pos].key = k
            /\ \A e \in 0 .. d - 1 : t[at(e)].key \notin {k, EMPTY}
Found(t, k) == \E pos \in DOMAIN t : FoundAt(t, k, pos)

-----------------------------------------------------------------------------
Init ==
    /\ table = [pos \in Positions(InitialCapacity) |-> FreeSlot(0)]
    /\ old = <<>>
    /\ phase = "idle"
    /\ batch = <<>>
    /\ probe = <<>>
    /\ slot_of_run = <<>>
    /\ live_count = 0
    /\ live_slots = 0
    /\ lru_counter = 0
    /\ inserts_since_clear = 0
    /\ calls = 0
    /\ promised = <<>>
    /\ past = {}

Launch(scan, cap) == probe' = [k \in DOMAIN scan |-> Home(k, cap)]

Crowded(runs) == live_count + runs > (Capacity * 6) \div 10

\* A scan without a point in range: no run, and the call returns at once.
InsertNothing(scan) ==
    /\ DOMAIN scan = {}
    /\ UNCHANGED <<table, old, phase, batch, probe, past>>

\* The table has room: the slots are claimed in it.
InsertInPlace(scan) ==
    /\ DOMAIN scan # {}
    /\ ~Crowded(Cardinality(DOMAIN scan))
    /\ phase' = "claim"
    /\ batch' = scan
    /\ Launch(scan, Capacity)
    /\ UNCHANGED <<table, old, past>>

KeepsOldMask(k) == Home(k, Capacity)
NewHome(k) == Home(k, 2 * Capacity)

\* grow(): a table of twice the size, in which only the keys are initialized.
Grow(scan) ==
    /\ DOMAIN scan # {}
    /\ Crowded(Cardinality(DOMAIN scan))
    /\ phase' = "rehash"
    /\ batch' = scan
    /\ \E points \in Uninit :
          table' = [pos \in Positions(2 * Capacity) |-> FreeSlot(points)]
    /\ old' = table
    /\ probe' = [pos \in Occupied(table) |-> NewHome(table[pos].key)]
    /\ past' = (past \ {"hole"}) \cup {"grown"}

StartInsert ==
    /\ phase = "idle"
    /\ calls < MaxInserts
    /\ calls' = calls + 1
    /\ \E scan \in Scans : InsertNothing(scan) \/ InsertInPlace(scan) \/ Grow(scan)
    /\ UNCHANGED <<slot_of_run, live_count, live_slots, lru_counter, inserts_since_clear, promised>>

\* One atomicCAS of the rehash_kernel thread that moves old slot s.
RehashProbe(s) ==
    LET pos == probe[s] IN
    /\ phase = "rehash"
    /\ s \in DOMAIN probe
    /\ \/ /\ table[pos].key = EMPTY
          /\ table' = [table EXCEPT ![pos] = old[s]]
          /\ probe' = [r \in DOMAIN probe \ {s} |-> probe[r]]
       \/ /\ table[pos].key # EMPTY
          /\ probe' = [probe EXCEPT ![s] = After(pos, Capacity)]
          /\ UNCHANGED table
    /\ UNCHANGED <<old, phase, batch, slot_of_run, live_count, live_slots, lru_counter,
                   inserts_since_clear, calls, promised, past>>

\* The kernel boundary: every slot has been moved.
RehashDone ==
    /\ phase = "rehash"
    /\ DOMAIN probe = {}
    /\ phase' = "claim"
    /\ old' = <<>>
    /\ Launch(batch, Capacity)
    /\ UNCHANGED <<table, batch, slot_of_run, live_count, live_slots, lru_counter,
                   inserts_since_clear, calls, promised, past>>

IgnoresCas(k) ==
    /\ phase = "claim"
    /\ k \in DOMAIN probe
    /\ table' = [table EXCEPT ![probe[k]].key = k, ![probe[k]].lru = lru_counter]
    /\ live_count' = live_count + 1
    /\ slot_of_run' = [r \in DOMAIN slot_of_run \cup {k} |->
                          IF r = k THEN probe[k] ELSE slot_of_run[r]]
    /\ probe' = [r \in DOMAIN probe \ {k} |-> probe[r]]
    /\ UNCHANGED <<old, phase, batch, live_slots, lru_counter, inserts_since_clear,
                   calls, promised, past>>

\* One atomicCAS of the claim_slots_kernel thread of voxel k.  A free slot's
\* sums are whatever they are.
ClaimProbe(k) ==
    LET pos == probe[k] IN
    /\ phase = "claim"
    /\ k \in DOMAIN probe
    /\ \/ /\ table[pos].key \in {EMPTY, k}
          /\ table' = [table EXCEPT ![pos].key = k, ![pos].lru = lru_counter]
          /\ live_count' = IF table[pos].key = EMPTY THEN live_count + 1 ELSE live_count
          /\ slot_of_run' = [r \in DOMAIN slot_of_run \cup {k} |->
                                IF r = k THEN pos ELSE slot_of_run[r]]
          /\ probe' = [r \in DOMAIN probe \ {k} |-> probe[r]]
       \/ /\ table[pos].key \notin {EMPTY, k}
          /\ probe' = [probe EXCEPT ![k] = After(pos, Capacity)]
          /\ UNCHANGED <<table, live_count, slot_of_run>>
    /\ UNCHANGED <<old, phase, batch, live_slots, lru_counter, inserts_since_clear,
                   calls, promised, past>>

RunLength(k) == batch[k]

\* accumulate_kernel: every run is folded into its slot.
Accumulated ==
    [pos \in DOMAIN table |->
        LET runs == {k \in DOMAIN batch : slot_of_run[k] = pos}
            added == [k \in Keys |-> IF k \in runs THEN RunLength(k) ELSE 0]
        IN  [table[pos] EXCEPT
                !.sum = [k \in Keys |-> @[k] + added[k]],
                !.count = IF runs = {} THEN @ ELSE @ + RunLength(CHOOSE k \in runs : TRUE)]]

EvictsFree(slot, now) == slot.lru + Horizon < now

Expired(slot, now) == slot.key # EMPTY /\ slot.lru + Horizon < now

\* evict_kernel: only the key is reset.
Evicted(t, now) ==
    [pos \in DOMAIN t |-> IF Expired(t[pos], now) THEN [t[pos] EXCEPT !.key = EMPTY] ELSE t[pos]]

\* The voxel map's promise, one scan at a time, without a table.
PromisedAfter(now) ==
    LET touched == [k \in DOMAIN promised \cup DOMAIN batch |->
                        [n |-> (IF k \in DOMAIN promised THEN promised[k].n ELSE 0)
                               + (IF k \in DOMAIN batch THEN batch[k] ELSE 0),
                         lru |-> IF k \in DOMAIN batch THEN lru_counter ELSE promised[k].lru]]
    IN  [k \in {j \in DOMAIN touched :
                  inserts_since_clear + 1 < Cycle \/ touched[j].lru + Horizon >= now} |-> touched[k]]

\* The rest of insert(), once every run has its slot: accumulate, finalize,
\* count the insert and, every Cycle inserts, evict.
FinishInsert ==
    /\ phase = "claim"
    /\ DOMAIN probe = {}
    /\ lru_counter' = lru_counter + 1
    /\ \/ /\ inserts_since_clear + 1 >= Cycle
          /\ inserts_since_clear' = 0
          /\ table' = Evicted(Accumulated, lru_counter')
          /\ live_count' = live_count
                            - Cardinality({pos \in DOMAIN table : Expired(table[pos], lru_counter')})
          /\ live_slots' = live_count'
          /\ past' = IF live_count' < live_count THEN past \cup {"evicted", "hole"} ELSE past
       \/ /\ inserts_since_clear + 1 < Cycle
          /\ inserts_since_clear' = inserts_since_clear + 1
          /\ table' = Accumulated
          /\ live_slots' = live_count
          /\ UNCHANGED <<live_count, past>>
    /\ promised' = PromisedAfter(lru_counter')
    /\ phase' = "idle"
    /\ batch' = <<>>
    /\ slot_of_run' = <<>>
    /\ UNCHANGED <<old, probe, calls>>

Threads == DOMAIN probe

Next ==
    \/ StartInsert
    \/ \E s \in Threads : RehashProbe(s)
    \/ RehashDone
    \/ \E k \in Threads : ClaimProbe(k)
    \/ FinishInsert

Spec == Init /\ [][Next]_vars

\* The GPU runs every thread of a launched kernel, and the stream its kernels.
Fairness ==
    /\ \A s \in Positions(InitialCapacity * 2^MaxInserts) : WF_vars(RehashProbe(s))
    /\ \A k \in Keys : WF_vars(ClaimProbe(k))
    /\ WF_vars(RehashDone)
    /\ WF_vars(FinishInsert)

FairSpec == Spec /\ Fairness

-----------------------------------------------------------------------------
\* Threads that race for free slots end up apart: while the kernel runs, a
\* finished thread's slot carries its key and this insert's stamp, and no two
\* threads have the same slot -- also in a table with evicted slots in it.
OwnSlot ==
    /\ \A k \in DOMAIN slot_of_run :
          /\ table[slot_of_run[k]].key = k
          /\ table[slot_of_run[k]].lru = lru_counter
    /\ \A k, j \in DOMAIN slot_of_run : slot_of_run[k] = slot_of_run[j] => k = j

\* live_count_ decides when to grow: it counts exactly the slots in use, over
\* claims, evictions and (once all slots are moved) rehashes.
LiveCounted ==
    /\ phase # "rehash" => live_count = Cardinality(Occupied(table))
    /\ phase = "rehash" => live_count = Cardinality(Occupied(table)) + Cardinality(DOMAIN probe)
    /\ phase = "idle" => live_slots = live_count

\* Until the first eviction every voxel has one slot, which the registration
\* kernel finds with its own probe (an eviction may free a slot in the middle of
\* the chain), and until the table first grows each slot sums exactly the points
\* of its voxel.
MatchesPromise ==
    phase = "idle" /\ "evicted" \notin past =>
        /\ {table[pos].key : pos \in Occupied(table)} = DOMAIN promised
        /\ Cardinality(Occupied(table)) = Cardinality(DOMAIN promised)
        /\ \A k \in DOMAIN promised : Found(table, k)
        /\ "grown" \notin past =>
              \A pos \in Occupied(table) :
                  LET n == promised[table[pos].key].n IN
                  /\ table[pos].count = n
                  /\ table[pos].sum = [NoPoints EXCEPT ![table[pos].key] = n]

\* The probe loops have no exit but success: they end because the table, grown
\* once if it must be, has a free slot for every run.
InsertTerminates == phase # "idle" ~> phase = "idle"

-----------------------------------------------------------------------------
\* test/voxelmap_test.cpp: "EXPECT_EQ(gmap.num_voxels(), u.size())", u being the
\* CPU's map after the same inserts.
NumVoxelsAsPromised == phase = "idle" => live_slots = Cardinality(DOMAIN promised)

\* voxel_hash_map.hpp: "Slots accumulate sum(T*p) and sum(T*Cs*T^T); finalize
\* divides by count" -- the points being those of the slot's own voxel.
SumsOwnPoints ==
    phase = "idle" =>
        \A pos \in Occupied(table) :
            LET t == table[pos] IN
            /\ t.sum[t.key] = t.count
            /\ \A k \in Keys \ {t.key} : t.sum[k] = 0
=============================================================================
