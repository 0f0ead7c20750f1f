---------------------------- MODULE FastHashMap ----------------------------
(* FastHashMap: open addressing in groups of control bytes, with either of  *)
(* its two deletion policies.  The bytes of the first group are mirrored    *)
(* behind the table, so that a group that starts near the end can be read   *)
(* in one piece.  One thread.  mFrozen, which only debug builds look at, is *)
(* left out; an element is a key and a value, moved as one.                 *)
EXTENDS Integers, FiniteSets, FiniteSetsExt

CONSTANTS
  HashKeys,     \* keys, positive numbers
  MapValues,    \* values, positive numbers
  Hashes,       \* the hashes that hash_key() may return
  H2Unit,       \* 2^(w-7) for hashes of w bits
  kWidth,       \* Group::kWidth
  LoadNum, LoadDen,   \* mMaxLoadFactor
  MaxCapacity,  \* bound: capacities
  ShrinksBelow  \* may rehash() be asked for a table that leaves no slot empty?

ASSUME HashAssumption ==
  /\ HashKeys \cup MapValues \subseteq Nat \ {0} /\ Hashes \subseteq 0 .. 128 * H2Unit - 1
  /\ {kWidth, H2Unit, LoadDen} \subseteq Nat \ {0} /\ LoadNum \in 1 .. LoadDen - 1
  /\ MaxCapacity \in Nat /\ ShrinksBelow \in BOOLEAN

VARIABLES
  deletion,   \* the DeletionPolicy: "tombstone" or "shift"
  hash_key,   \* hash_key[k]: the mixed hash of key k
  map,        \* the table: cap, ctrl, slots, size and tombs
  stored      \* history: the value under each key, 0 if it should have none

hashVars == <<deletion, hash_key, map, stored>>

kEmpty == 0
kDeleted == 126
is_full(c) == c >= 128
H2(h) == h \div H2Unit + 128

(* The smallest table, and those that doubling makes of it. *)
kMinCapacity == 2 * kWidth
PowerOfTwo(p) == \A d \in 1 .. p : p % d = 0 /\ d % 2 = 1 => d = 1
Capacities ==
  {cap \in 1 .. MaxCapacity : \E p \in 1 .. cap : cap = kMinCapacity * p /\ PowerOfTwo(p)}

NoElement == [key |-> 0, value |-> 0, home |-> 0]

EmptyTable(cap) ==
  [cap |-> cap, size |-> 0, tombs |-> 0,
   ctrl |-> [i \in 0 .. cap + kWidth - 1 |-> kEmpty],
   slots |-> [i \in 0 .. cap - 1 |-> NoElement]]

HashInit ==
  /\ deletion \in {"tombstone", "shift"}
  (* Keys are alike, so their order can be that of their hashes. *)
  /\ hash_key \in {f \in [HashKeys -> Hashes] : \A i, j \in HashKeys : i < j => f[i] <= f[j]}
  /\ map = EmptyTable(0)
  /\ stored = [k \in HashKeys |-> 0]

(* Fault: writes one byte, as if no group wrapped. *)
Fault_NoMirror(t, i, c) == [t EXCEPT !.ctrl[i] = c]

set_ctrl(t, i, c) ==
  [t EXCEPT !.ctrl = [j \in DOMAIN @ |-> IF j \in {i, t.cap + i} THEN c ELSE @[j]]]

-----------------------------------------------------------------------------
(* Where the n-th group of a probe sequence starts.  Byte p of the sequence *)
(* is byte p % kWidth of group p \div kWidth.                               *)
Offset(t, h, n) ==
  (h + kWidth * (IF deletion = "tombstone" THEN (n * (n + 1)) \div 2 ELSE n)) % t.cap

CtrlAt(t, h, p) == t.ctrl[Offset(t, h, p \div kWidth) + (p % kWidth)]
SlotAt(t, h, p) == (Offset(t, h, p \div kWidth) + (p % kWidth)) % t.cap

Bytes(t) == 0 .. 2 * t.cap - 1
With(t, h, bytes) == {p \in Bytes(t) : CtrlAt(t, h, p) \in bytes}

(* The loops end with the first group that has an empty byte. *)
Ends(t, h) == With(t, h, {kEmpty}) # {}
Probed(t, h) ==
  LET empties == With(t, h, {kEmpty})
  IN  IF empties = {} THEN Bytes(t) ELSE 0 .. (Min(empties) \div kWidth + 1) * kWidth - 1

NotFound == -1

find_slot(t, k) ==
  LET h == hash_key[k]
      hits == {p \in Probed(t, h) :
                 CtrlAt(t, h, p) = H2(h) /\ t.slots[SlotAt(t, h, p)].key = k}
  IN  IF t.cap = 0 \/ hits = {} THEN NotFound ELSE SlotAt(t, h, Min(hits))

find_insert_slot(t, h) ==
  LET free == IF deletion = "tombstone" THEN {kEmpty, kDeleted} ELSE {kEmpty}
  IN  SlotAt(t, h, Min(With(t, h, free)))

(* The two phases of an insertion. *)
WithElement(t, k, v) ==
  LET h == hash_key[k]
      i == find_insert_slot(t, h)
  IN  set_ctrl([t EXCEPT !.slots[i] = [key |-> k, value |-> v, home |-> h % t.cap],
                         !.size = @ + 1,
                         !.tombs = IF t.ctrl[i] = kDeleted THEN @ - 1 ELSE @],
               i, H2(h))

rehash_internal(t, cap) ==
  LET new[n \in 0 .. t.cap] ==   \* after the first n slots
        IF n = 0 THEN EmptyTable(cap)
        ELSE IF is_full(t.ctrl[n - 1])
             THEN WithElement(new[n - 1], t.slots[n - 1].key, t.slots[n - 1].value)
             ELSE new[n - 1]
  IN  new[t.cap]

compute_growth_threshold(cap) == Max({1, Min({cap - 1, (cap * LoadNum) \div LoadDen})})

maybe_rehash(t) ==
  LET threshold == compute_growth_threshold(t.cap) IN
  CASE t.size + t.tombs < threshold -> t
    [] t.size + t.tombs >= threshold /\ deletion = "tombstone" /\ t.size < threshold \div 2
         -> rehash_internal(t, t.cap)
    [] OTHER -> rehash_internal(t, 2 * t.cap)

Prepared == IF map.cap = 0 THEN EmptyTable(kMinCapacity) ELSE maybe_rehash(map)

-----------------------------------------------------------------------------
(* insert(); operator[] is insert() with a default value. *)
MapInsert(k, v) ==
  /\ Prepared.cap <= MaxCapacity
  /\ map' = IF find_slot(Prepared, k) = NotFound THEN WithElement(Prepared, k, v) ELSE Prepared
  /\ stored' = IF stored[k] = 0 THEN [stored EXCEPT ![k] = v] ELSE stored
  /\ UNCHANGED <<deletion, hash_key>>

insert_or_assign(k, v) ==
  LET i == find_slot(Prepared, k) IN
  /\ Prepared.cap <= MaxCapacity
  /\ map' = IF i = NotFound THEN WithElement(Prepared, k, v)
                            ELSE [Prepared EXCEPT !.slots[i].value = v]
  /\ stored' = [stored EXCEPT ![k] = v]
  /\ UNCHANGED <<deletion, hash_key>>

(* The element cannot be constructed; the table has been made ready for it. *)
InsertionThrows ==
  /\ Prepared.cap <= MaxCapacity
  /\ map' = Prepared
  /\ UNCHANGED <<deletion, hash_key, stored>>

(* One step of the backward shift, which stops at a slot that is not full. *)
ShiftStep(s, scan) ==
  LET home == s.t.slots[scan].home
      Distance(i) == (i - home) % s.t.cap
  IN  CASE s.over -> s
        [] ~s.over /\ ~is_full(s.t.ctrl[scan]) -> [s EXCEPT !.over = TRUE]
        [] ~s.over /\ is_full(s.t.ctrl[scan]) /\ Distance(s.hole) >= Distance(scan) -> s
        [] OTHER -> [s EXCEPT !.hole = scan,
                              !.t = set_ctrl([s.t EXCEPT !.slots[s.hole] = s.t.slots[scan]],
                                             s.hole, s.t.ctrl[scan])]

Erased(t, i) ==
  LET smaller == [t EXCEPT !.size = @ - 1]
      scanned[d \in 0 .. t.cap] ==   \* up to d slots behind the element
        IF d = 0 THEN [t |-> smaller, hole |-> i, over |-> FALSE]
        ELSE ShiftStep(scanned[d - 1], (i + d) % t.cap)
      shifted == scanned[t.cap]
  IN  IF deletion = "tombstone"
      THEN set_ctrl([smaller EXCEPT !.slots[i] = NoElement, !.tombs = @ + 1], i, kDeleted)
      ELSE set_ctrl([shifted.t EXCEPT !.slots[shifted.hole] = NoElement], shifted.hole, kEmpty)

MapErase(k) ==
  LET i == find_slot(map, k) IN
  /\ map' = IF i = NotFound THEN map ELSE Erased(map, i)
  /\ stored' = [stored EXCEPT ![k] = 0]
  /\ UNCHANGED <<deletion, hash_key>>

(* What doubling kMinCapacity comes to for n slots. *)
CapacityFor(n, cap) == cap >= n /\ (cap > kMinCapacity => cap \div 2 < n)

(* reserve() *)
Reserve(n) ==
  LET required == (n * LoadDen) \div LoadNum + 1 IN
  /\ \E cap \in Capacities :
       /\ CapacityFor(required, cap)
       /\ map' = IF required > map.cap THEN rehash_internal(map, cap) ELSE map
  /\ UNCHANGED <<deletion, hash_key, stored>>

(* rehash(), which does not compare the new capacity with the elements: for *)
(* more elements than slots it never returns.                               *)
Rehash(n) ==
  /\ \E cap \in Capacities :
       LET due == cap > map.cap \/ map.tombs > map.size \div 4 IN
       /\ CapacityFor(n, cap)
       /\ due => map.size < cap \/ (ShrinksBelow /\ map.size = cap)
       /\ map' = IF due THEN rehash_internal(map, cap) ELSE map
  /\ UNCHANGED <<deletion, hash_key, stored>>

Emptied(cap) ==
  /\ map' = EmptyTable(cap)
  /\ stored' = [k \in HashKeys |-> 0]
  /\ UNCHANGED <<deletion, hash_key>>

ClearTable == Emptied(map.cap)

(* The map's table is moved into another map. *)
MovedFrom == Emptied(0)

HashNext ==
  \/ \E k \in HashKeys, v \in MapValues : MapInsert(k, v) \/ insert_or_assign(k, v)
  \/ InsertionThrows
  \/ \E k \in HashKeys : MapErase(k)
  \/ \E n \in 0 .. MaxCapacity : Reserve(n) \/ Rehash(n)
  \/ ClearTable \/ MovedFrom

HashSpec == HashInit /\ [][HashNext]_hashVars

-----------------------------------------------------------------------------
HashTypeOK ==
  /\ map.cap \in {0} \cup Capacities
  /\ \A i \in 0 .. map.cap - 1 :
       /\ map.ctrl[i] \in {kEmpty, kDeleted} \cup {H2(h) : h \in Hashes}
       /\ map.slots[i] = NoElement <=> ~is_full(map.ctrl[i])
  /\ map.size \in 0 .. map.cap /\ map.tombs \in 0 .. map.cap
  /\ stored \in [HashKeys -> MapValues \cup {0}]

(* Every lookup finds what was last put under its key and nothing that was  *)
(* erased, though groups wrap, tombstones are reused, elements are shifted  *)
(* back and tables are rebuilt; no key is in the table twice, the counters  *)
(* that decide on rehashing are right, and a lookup of an absent key comes  *)
(* to an empty slot.                                                        *)
MapIsFaithful ==
  /\ \A k \in HashKeys :
       LET i == find_slot(map, k) IN
       stored[k] = IF i = NotFound THEN 0 ELSE map.slots[i].value
  /\ map.size = Cardinality({k \in HashKeys : stored[k] # 0})
  /\ map.size = Cardinality({i \in 0 .. map.cap - 1 : is_full(map.ctrl[i])})
  /\ map.tombs = Cardinality({i \in 0 .. map.cap - 1 : map.ctrl[i] = kDeleted})
  /\ map.cap > 0 => \A k \in HashKeys : Ends(map, hash_key[k])

-----------------------------------------------------------------------------
(* What the header and the manual say and the code does not do. *)

(* Line 41, "Guaranteed >=1 empty slot (probe termination)": the loop of a  *)
(* lookup ends, whatever rehash() was asked for.                            *)
LookupsEnd == map.cap > 0 => \A k \in HashKeys : Ends(map, hash_key[k])
=============================================================================
