-------------------------- MODULE EntryListProofs --------------------------
(***************************************************************************)
(* Proofs about EntryList, for every number of slots, generations and      *)
(* values: its type invariant, the partition of its slots, that a retired  *)
(* handle never resolves again, and that the list implements HandleMap.    *)
(***************************************************************************)
EXTENDS EntryList, FiniteSetTheorems, TLAPS

\* What RemoveAt (Vec::remove) leaves.
LEMMA RemoveAtFacts ==
    ASSUME NEW S, NEW s \in Seq(S), NEW i \in 1..Len(s)
    PROVE  /\ RemoveAt(s, i) \in Seq(S)
           /\ Len(RemoveAt(s, i)) = Len(s) - 1
           /\ \A j \in 1..Len(s) - 1 :
                RemoveAt(s, i)[j] = IF j < i THEN s[j] ELSE s[j + 1]
<1> DEFINE front == SubSeq(s, 1, i - 1)
           back == SubSeq(s, i + 1, Len(s))
<1>1. front \in Seq(S) /\ Len(front) = i - 1 /\ \A j \in 1..i - 1 : front[j] = s[j]
  OBVIOUS
<1>2. /\ back \in Seq(S) /\ Len(back) = Len(s) - i
      /\ \A j \in 1..Len(s) - i : back[j] = s[i + j]
  OBVIOUS
<1>3. RemoveAt(s, i) = front \o back
  BY DEF RemoveAt
<1> HIDE DEF front, back
<1>4. front \o back \in Seq(S) /\ Len(front \o back) = Len(s) - 1
  BY <1>1, <1>2
<1>5. ASSUME NEW j \in 1..Len(s) - 1
      PROVE  (front \o back)[j] = IF j < i THEN s[j] ELSE s[j + 1]
  <2>1. CASE j < i
    <3>1. (front \o back)[j] = front[j]
      BY <1>1, <1>2, <2>1
    <3> QED BY <1>1, <2>1, <3>1
  <2>2. CASE ~(j < i)
    <3>1. j \in Len(front) + 1 .. Len(front) + Len(back) /\ j - i + 1 \in 1..Len(s) - i
      BY <1>1, <1>2, <2>2
    <3>2. (front \o back)[j] = back[j - Len(front)]
      BY <1>1, <1>2, <3>1
    <3>3. j - Len(front) = j - i + 1 /\ i + (j - i + 1) = j + 1
      BY <1>1
    <3> QED BY <1>2, <2>2, <3>1, <3>2, <3>3
  <2> QED BY <2>1, <2>2
<1> QED BY <1>3, <1>4, <1>5

-----------------------------------------------------------------------------
\* One pass of select_take: it frees the chosen slots one by one, in order.
SelectedBy(P, n, order) ==
    /\ n \in Nat
    /\ order \in Bijection(1..n, {i \in DOMAIN items : items[i].val \in P})
    /\ \A i, j \in 1..n : i < j => order[i] < order[j]
    /\ free' = free \o [i \in 1..n |->
                   [id |-> order[i], gen |-> items[order[i]].gen]]
    /\ result' = [i \in 1..n |-> items[order[i]].val]

\* select_take is such a pass.
LEMMA SelectTakeOrder ==
    ASSUME TypeOK, NEW P \in SUBSET Value, SelectTake(P)
    PROVE  \E n, order : SelectedBy(P, n, order)
<1> DEFINE chosen == {i \in DOMAIN items : items[i].val \in P}
           size == Cardinality(chosen)
<1>1. DOMAIN items = 1..Len(items) /\ Len(items) \in Nat
  BY DEF TypeOK
<1>2. IsFiniteSet(1..Len(items))
  BY <1>1, FS_Interval
<1>3. IsFiniteSet(chosen)
  BY <1>1, <1>2, FS_Subset
<1>4. size \in Nat
  BY <1>3, FS_CardinalityType
<1>5. PICK order \in Bijection(1..size, chosen) :
        /\ \A i, j \in 1..size : i < j => order[i] < order[j]
        /\ free' = free \o [i \in 1..size |->
                       [id |-> order[i], gen |-> items[order[i]].gen]]
        /\ result' = [i \in 1..size |-> items[order[i]].val]
  BY DEF SelectTake
<1>6. SelectedBy(P, size, order)
  BY <1>4, <1>5 DEF SelectedBy
<1> QED BY <1>6

-----------------------------------------------------------------------------
\* The type invariant, slot by slot.
LEMMA SlotTypes ==
    ASSUME TypeOK
    PROVE  /\ DOMAIN items = 1..Len(items) /\ Len(items) \in 0..MaxSlots
           /\ \A i \in DOMAIN items :
                /\ items[i] \in Slot
                /\ items[i] = [gen |-> items[i].gen, val |-> items[i].val]
                /\ items[i].gen \in 0..MaxGen
                /\ items[i].val \in Value \union {None}
                /\ [id |-> i, gen |-> items[i].gen] \in Handle
<1>1. DOMAIN items = 1..Len(items) /\ Len(items) \in 0..MaxSlots
  BY EntryListAssumption DEF TypeOK
<1>2. ASSUME NEW i \in DOMAIN items PROVE items[i] \in Slot
  BY <1>1 DEF TypeOK
<1>3. ASSUME NEW i \in DOMAIN items
      PROVE  /\ items[i] = [gen |-> items[i].gen, val |-> items[i].val]
             /\ items[i].gen \in 0..MaxGen
             /\ items[i].val \in Value \union {None}
  BY <1>2 DEF Slot
<1>4. ASSUME NEW i \in DOMAIN items
      PROVE  [id |-> i, gen |-> items[i].gen] \in Handle
  <2>1. i \in 1..MaxSlots
    BY <1>1, EntryListAssumption
  <2> QED BY <2>1, <1>3 DEF Handle
<1> QED BY <1>1, <1>2, <1>3, <1>4

\* A function on the slots is a sequence of them.
LEMMA SlotSequence ==
    ASSUME TypeOK, NEW f \in [DOMAIN items -> Slot]
    PROVE  f \in Seq(Slot) /\ Len(f) = Len(items)
BY SlotTypes

\* The empty list is well typed.
LEMMA TypeOKInit == Init => TypeOK
BY EntryListAssumption DEF Init, TypeOK

\* TypeOK without the record of the last call's handle.
StoreTypeOK ==
    /\ items \in Seq(Slot)
    /\ Len(items) <= MaxSlots
    /\ free \in Seq(Handle)
    /\ packed \in Seq(Handle)
    /\ result \in Seq(Value)

\* Every call keeps the list well typed.
LEMMA TypeOKNext == TypeOK /\ [Next]_vars => TypeOK'
<1> SUFFICES ASSUME TypeOK, [Next]_vars PROVE TypeOK'
  OBVIOUS
<1> USE EntryListAssumption
<1>0. (asked \subseteq Handle)'
  BY DEF Next, vars, TypeOK
<1> SUFFICES StoreTypeOK'
  BY <1>0 DEF TypeOK, StoreTypeOK
<1>1. ASSUME NEW v \in Value, InsertReused(v) PROVE StoreTypeOK'
  <2>1. free[Len(free)] \in Handle /\ SubSeq(free, 1, Len(free) - 1) \in Seq(Handle)
    BY <1>1 DEF TypeOK, StoreTypeOK, InsertReused
  <2>2. [gen |-> free[Len(free)].gen + 1, val |-> v] \in Slot
    BY <1>1, <2>1 DEF InsertReused, Handle, Slot
  <2>3. items' \in [DOMAIN items -> Slot]
    BY <1>1, <2>2, SlotTypes DEF InsertReused
  <2>4. items' \in Seq(Slot) /\ Len(items') = Len(items)
    BY <2>3, SlotSequence
  <2> QED BY <1>1, <2>1, <2>4 DEF TypeOK, StoreTypeOK, InsertReused
<1>2. ASSUME NEW v \in Value, InsertNew(v) PROVE StoreTypeOK'
  <2>1. [gen |-> 0, val |-> v] \in Slot
    BY DEF Slot
  <2> QED BY <1>2, <2>1 DEF TypeOK, StoreTypeOK, InsertNew
<1>3. ASSUME NEW h \in Handle, NEW v \in Value \union {None}, SetValue(h, v)
      PROVE  items' \in Seq(Slot) /\ Len(items') = Len(items)
  <2>1. h.id \in DOMAIN items => [gen |-> items[h.id].gen, val |-> v] \in Slot
    BY SlotTypes DEF Slot
  <2>2. items' \in [DOMAIN items -> Slot]
    BY <1>3, <2>1, SlotTypes DEF SetValue
  <2> QED BY <2>2, SlotSequence
<1>4. ASSUME NEW h \in Handle, Resolves(h) PROVE items[h.id].val \in Value
  BY <1>4, SlotTypes DEF Resolves, Current
<1>5. ASSUME NEW h \in Handle, Call(h) PROVE StoreTypeOK'
  <2>1. CASE Take(h)
    BY <2>1, <1>3, <1>4 DEF TypeOK, StoreTypeOK, Take
  <2>2. CASE Vacate(h)
    BY <2>2, <1>3 DEF TypeOK, StoreTypeOK, Vacate
  <2>3. CASE Park(h)
    BY <2>3, <1>3, <1>4 DEF TypeOK, StoreTypeOK, Park
  <2>4. ASSUME NEW v \in Value, Unpark(h, v) PROVE StoreTypeOK'
    <3>1. packed' \in Seq(Handle)
      BY <2>4, RemoveAtFacts DEF TypeOK, StoreTypeOK, Unpark
    <3>2. items' \in Seq(Slot) /\ Len(items') = Len(items)
      <4>1. CASE SetValue(h, v)
        BY <4>1, <1>3
      <4>2. CASE UNCHANGED items
        BY <4>2 DEF TypeOK, StoreTypeOK
      <4> QED BY <2>4, <4>1, <4>2 DEF Unpark, FillsEmpty
    <3> QED BY <2>4, <3>1, <3>2 DEF TypeOK, StoreTypeOK, Unpark
  <2>6. ASSUME NEW v \in Value, Update(h, v) PROVE StoreTypeOK'
    BY <2>6, <1>3, <1>4 DEF TypeOK, StoreTypeOK, Update
  <2>7. ASSUME NEW v \in Value, Replace(h, v) PROVE StoreTypeOK'
    <3>1. [gen |-> h.gen + 1, val |-> v] \in Slot
      BY <2>7 DEF Replace, Handle, Slot
    <3>2. items' \in [DOMAIN items -> Slot]
      BY <2>7, <3>1, SlotTypes DEF Replace
    <3>3. items' \in Seq(Slot) /\ Len(items') = Len(items)
      BY <3>2, SlotSequence
    <3> QED BY <2>7, <3>3, <1>4 DEF TypeOK, StoreTypeOK, Replace
  <2>8. CASE Miss
    BY <2>8 DEF TypeOK, StoreTypeOK, Miss
  <2> QED BY <1>5, <2>1, <2>2, <2>3, <2>4, <2>6, <2>7, <2>8 DEF Call
<1>6. ASSUME NEW P \in SUBSET Value, SelectTake(P) PROVE StoreTypeOK'
  <2>1. PICK n, order : SelectedBy(P, n, order)
    BY <1>6, SelectTakeOrder
  <2>2. \A i \in 1..n : order[i] \in DOMAIN items /\ items[order[i]].val \in P
    BY <2>1 DEF SelectedBy, Bijection, Injection
  <2>3. \A i \in 1..n : [id |-> order[i], gen |-> items[order[i]].gen] \in Handle
    BY <2>2, SlotTypes
  <2>4. free' \in Seq(Handle) /\ result' \in Seq(Value)
    BY <2>1, <2>2, <2>3 DEF SelectedBy, TypeOK
  <2>5. items' \in Seq(Slot) /\ Len(items') = Len(items)
    <3>1. \A i \in DOMAIN items : [gen |-> items[i].gen, val |-> None] \in Slot
      BY SlotTypes DEF Slot
    <3>2. items' \in [DOMAIN items -> Slot]
      BY <1>6, <3>1, SlotTypes DEF SelectTake
    <3> QED BY <3>2, SlotSequence
  <2> QED BY <1>6, <2>4, <2>5 DEF TypeOK, StoreTypeOK, SelectTake
<1>7. CASE UNCHANGED vars
  BY <1>7 DEF TypeOK, StoreTypeOK, vars
<1> QED BY <1>1, <1>2, <1>5, <1>6, <1>7 DEF Next

\* Slots, stacks and results keep their types: no stale or out-of-range entry
\* ever reaches the free stack, and no call hands back an empty slot.
THEOREM TypeCorrect == Spec => []TypeOK
BY TypeOKInit, TypeOKNext, PTL DEF Spec

-----------------------------------------------------------------------------
\* What Append and \o leave, element by element.
LEMMA AppendFacts ==
    ASSUME NEW S, NEW s \in Seq(S), NEW e \in S
    PROVE  /\ DOMAIN s = 1..Len(s) /\ Len(s) \in Nat
           /\ DOMAIN Append(s, e) = 1..Len(s) + 1
           /\ \A j \in 1..Len(s) : Append(s, e)[j] = s[j]
           /\ Append(s, e)[Len(s) + 1] = e
OBVIOUS

\* What \o leaves, element by element.
LEMMA ConcatFacts ==
    ASSUME NEW S, NEW s \in Seq(S), NEW n \in Nat, NEW f \in [1..n -> S]
    PROVE  /\ DOMAIN s = 1..Len(s) /\ Len(s) \in Nat
           /\ DOMAIN (s \o f) = 1..Len(s) + n
           /\ \A j \in 1..Len(s) : (s \o f)[j] = s[j]
           /\ \A j \in 1..n : (s \o f)[Len(s) + j] = f[j]
<1>1. f \in Seq(S) /\ Len(f) = n
  OBVIOUS
<1> QED BY <1>1

-----------------------------------------------------------------------------
\* insert moves a slot from the free stack to the tenants.
LEMMA PartitionInsertReused ==
    ASSUME TypeOK, SlotPartition, NEW v \in Value, InsertReused(v)
    PROVE  SlotPartition'
<1> DEFINE top == free[Len(free)]
<1> USE EntryListAssumption
<1>1. Len(free) \in Nat \ {0} /\ DOMAIN free = 1..Len(free) /\ top \in Handle
  BY DEF TypeOK, InsertReused
<1>2. Current(top) /\ items[top.id].val = None /\ top.id \in DOMAIN items
  BY <1>1 DEF SlotPartition, ReservesEmpty, Current
<1>3. /\ DOMAIN items' = DOMAIN items
      /\ items'[top.id].val = v
      /\ \A i \in DOMAIN items : i # top.id => items'[i] = items[i]
  BY <1>2, SlotTypes DEF InsertReused
<1>4. /\ DOMAIN free' = 1..Len(free) - 1
      /\ \A i \in 1..Len(free) - 1 : free'[i] = free[i] /\ free[i].id # top.id
  <2>1. free' = SubSeq(free, 1, Len(free) - 1)
    BY DEF InsertReused
  <2>2. free' \in Seq(Handle) /\ Len(free') = Len(free) - 1
    BY <1>1, <2>1 DEF TypeOK
  <2>3. \A i \in 1..Len(free) - 1 : free'[i] = free[i]
    BY <1>1, <2>1 DEF TypeOK
  <2>4. \A i \in 1..Len(free) - 1 : free[i].id # top.id
    BY <1>1 DEF SlotPartition, ReservesEmpty
  <2> QED BY <2>2, <2>3, <2>4
<1>5. \A j \in DOMAIN packed : packed[j].id # top.id
  BY <1>1 DEF SlotPartition
<1>6. packed' = packed
  BY DEF InsertReused
<1>7. ReservesEmpty(free)'
  <2>1. ReservesEmpty(free)
    BY DEF SlotPartition
  <2>2. \A i \in DOMAIN free' : i \in DOMAIN free /\ free'[i] = free[i]
    BY <1>1, <1>4
  <2>3. \A i \in DOMAIN free' : free[i].id \in DOMAIN items /\ items'[free[i].id] = items[free[i].id]
    BY <1>3, <1>4, <2>1, <2>2 DEF ReservesEmpty, Current
  <2> QED BY <1>3, <2>1, <2>2, <2>3 DEF ReservesEmpty, Current
<1>8. ReservesEmpty(packed)'
  BY <1>3, <1>5, <1>6 DEF SlotPartition, ReservesEmpty, Current
<1>9. \A i \in DOMAIN free', j \in DOMAIN packed' : free'[i].id # packed'[j].id
  BY <1>1, <1>4, <1>6 DEF SlotPartition
<1>10. ASSUME NEW i \in DOMAIN items', items'[i].val = None
       PROVE  \/ \E k \in DOMAIN free' : free'[k].id = i
              \/ \E k \in DOMAIN packed' : packed'[k].id = i
  <2>1. i # top.id /\ items[i].val = None /\ i \in DOMAIN items
    BY <1>3, <1>10
  <2>2. CASE \E k \in DOMAIN free : free[k].id = i
    <3>1. PICK k \in DOMAIN free : free[k].id = i
      BY <2>2
    <3>2. k \in 1..Len(free) - 1
      BY <1>1, <2>1, <3>1
    <3> QED BY <1>4, <3>1, <3>2
  <2>3. CASE \E k \in DOMAIN packed : packed[k].id = i
    BY <1>6, <2>3
  <2> QED BY <2>1, <2>2, <2>3 DEF SlotPartition
<1> QED BY <1>7, <1>8, <1>9, <1>10 DEF SlotPartition

\* take and vacate: the slot moves from the occupied ones to the free stack.
LEMMA PartitionFree ==
    ASSUME TypeOK, SlotPartition, NEW h \in Handle,
           Resolves(h), SetValue(h, None), free' = Append(free, h), packed' = packed
    PROVE  SlotPartition'
<1>1. h.id \in DOMAIN items /\ items[h.id].gen = h.gen /\ items[h.id].val # None
  BY DEF Resolves, Current
<1>2. /\ DOMAIN items' = DOMAIN items
      /\ items'[h.id] = [gen |-> h.gen, val |-> None]
      /\ \A i \in DOMAIN items : i # h.id => items'[i] = items[i]
  BY <1>1, SlotTypes DEF SetValue
<1>3. /\ DOMAIN free = 1..Len(free) /\ Len(free) \in Nat
      /\ DOMAIN free' = 1..Len(free) + 1
      /\ \A j \in 1..Len(free) : free'[j] = free[j]
      /\ free'[Len(free) + 1] = h
  BY AppendFacts DEF TypeOK
<1>4. /\ \A j \in DOMAIN free : free[j].id # h.id
      /\ \A j \in DOMAIN packed : packed[j].id # h.id
  BY <1>1 DEF SlotPartition, ReservesEmpty
<1>5. ReservesEmpty(free)'
  <2>1. ASSUME NEW i \in DOMAIN free'
        PROVE  /\ free'[i].id \in DOMAIN items'
               /\ items'[free'[i].id].gen = free'[i].gen
               /\ items'[free'[i].id].val = None
    <3>1. CASE i = Len(free) + 1
      BY <1>1, <1>2, <1>3, <3>1
    <3>2. CASE i \in 1..Len(free)
      BY <1>2, <1>3, <1>4, <3>2 DEF SlotPartition, ReservesEmpty, Current
    <3> QED BY <1>3, <3>1, <3>2
  <2>2. ASSUME NEW i \in DOMAIN free', NEW j \in DOMAIN free', free'[i].id = free'[j].id
        PROVE  i = j
    BY <1>3, <1>4, <2>2 DEF SlotPartition, ReservesEmpty
  <2> QED BY <2>1, <2>2 DEF ReservesEmpty, Current
<1>6. ReservesEmpty(packed)'
  BY <1>2, <1>4 DEF SlotPartition, ReservesEmpty, Current
<1>7. \A i \in DOMAIN free', j \in DOMAIN packed' : free'[i].id # packed'[j].id
  BY <1>3, <1>4 DEF SlotPartition
<1>8. ASSUME NEW i \in DOMAIN items', items'[i].val = None
      PROVE  \/ \E k \in DOMAIN free' : free'[k].id = i
             \/ \E k \in DOMAIN packed' : packed'[k].id = i
  <2>1. CASE i = h.id
    BY <1>3, <2>1
  <2>2. CASE i # h.id
    BY <1>2, <1>3, <1>8, <2>2 DEF SlotPartition
  <2> QED BY <2>1, <2>2
<1> QED BY <1>5, <1>6, <1>7, <1>8 DEF SlotPartition

\* park: the slot moves from the occupied ones to the lent ones.
LEMMA PartitionPark ==
    ASSUME TypeOK, SlotPartition, NEW h \in Handle,
           Resolves(h), SetValue(h, None), packed' = Append(packed, h), free' = free
    PROVE  SlotPartition'
<1>1. h.id \in DOMAIN items /\ items[h.id].gen = h.gen /\ items[h.id].val # None
  BY DEF Resolves, Current
<1>2. /\ DOMAIN items' = DOMAIN items
      /\ items'[h.id] = [gen |-> h.gen, val |-> None]
      /\ \A i \in DOMAIN items : i # h.id => items'[i] = items[i]
  BY <1>1, SlotTypes DEF SetValue
<1>3. /\ DOMAIN packed = 1..Len(packed) /\ Len(packed) \in Nat
      /\ DOMAIN packed' = 1..Len(packed) + 1
      /\ \A j \in 1..Len(packed) : packed'[j] = packed[j]
      /\ packed'[Len(packed) + 1] = h
  BY AppendFacts DEF TypeOK
<1>4. /\ \A j \in DOMAIN packed : packed[j].id # h.id
      /\ \A j \in DOMAIN free : free[j].id # h.id
  BY <1>1 DEF SlotPartition, ReservesEmpty
<1>5. ReservesEmpty(packed)'
  <2>1. ASSUME NEW i \in DOMAIN packed'
        PROVE  /\ packed'[i].id \in DOMAIN items'
               /\ items'[packed'[i].id].gen = packed'[i].gen
               /\ items'[packed'[i].id].val = None
    <3>1. CASE i = Len(packed) + 1
      BY <1>1, <1>2, <1>3, <3>1
    <3>2. CASE i \in 1..Len(packed)
      BY <1>2, <1>3, <1>4, <3>2 DEF SlotPartition, ReservesEmpty, Current
    <3> QED BY <1>3, <3>1, <3>2
  <2>2. ASSUME NEW i \in DOMAIN packed', NEW j \in DOMAIN packed', packed'[i].id = packed'[j].id
        PROVE  i = j
    BY <1>3, <1>4, <2>2 DEF SlotPartition, ReservesEmpty
  <2> QED BY <2>1, <2>2 DEF ReservesEmpty, Current
<1>6. ReservesEmpty(free)'
  BY <1>2, <1>4 DEF SlotPartition, ReservesEmpty, Current
<1>7. \A i \in DOMAIN free', j \in DOMAIN packed' : free'[i].id # packed'[j].id
  BY <1>3, <1>4 DEF SlotPartition
<1>8. ASSUME NEW i \in DOMAIN items', items'[i].val = None
      PROVE  \/ \E k \in DOMAIN free' : free'[k].id = i
             \/ \E k \in DOMAIN packed' : packed'[k].id = i
  <2>1. CASE i = h.id
    BY <1>3, <2>1
  <2>2. CASE i # h.id
    BY <1>2, <1>3, <1>8, <2>2 DEF SlotPartition
  <2> QED BY <2>1, <2>2
<1> QED BY <1>5, <1>6, <1>7, <1>8 DEF SlotPartition

\* Nothing is emptied or filled: update, replace, a miss, and insert when it
\* allocates a slot.
LEMMA PartitionKept ==
    ASSUME TypeOK, SlotPartition, free' = free, packed' = packed,
           DOMAIN items \subseteq DOMAIN items',
           \A i \in DOMAIN items : items[i].val = None => items'[i] = items[i],
           \A i \in DOMAIN items' :
             items'[i].val = None => i \in DOMAIN items /\ items[i].val = None
    PROVE  SlotPartition'
<1>1. ReservesEmpty(free)'
  BY DEF SlotPartition, ReservesEmpty, Current
<1>2. ReservesEmpty(packed)'
  BY DEF SlotPartition, ReservesEmpty, Current
<1> QED BY <1>1, <1>2 DEF SlotPartition

\* The lent handles after unpark has removed the one at place k.
LEMMA PackedRemoved ==
    ASSUME TypeOK, NEW k \in DOMAIN packed, packed' = RemoveAt(packed, k)
    PROVE  /\ DOMAIN packed = 1..Len(packed) /\ Len(packed) \in Nat /\ k \in 1..Len(packed)
           /\ DOMAIN packed' = 1..Len(packed) - 1
           /\ \A j \in 1..Len(packed) - 1 :
                packed'[j] = IF j < k THEN packed[j] ELSE packed[j + 1]
<1>1. /\ packed \in Seq(Handle) /\ DOMAIN packed = 1..Len(packed)
      /\ Len(packed) \in Nat /\ k \in 1..Len(packed)
  BY DEF TypeOK
<1>2. /\ RemoveAt(packed, k) \in Seq(Handle)
      /\ Len(RemoveAt(packed, k)) = Len(packed) - 1
      /\ \A j \in 1..Len(packed) - 1 :
           RemoveAt(packed, k)[j] = IF j < k THEN packed[j] ELSE packed[j + 1]
  BY <1>1, RemoveAtFacts
<1>3. packed' \in Seq(Handle) /\ Len(packed') = Len(packed) - 1
  BY <1>2
<1>4. DOMAIN packed' = 1..Len(packed) - 1
  BY <1>3
<1> QED BY <1>1, <1>2, <1>4

\* unpark moves a slot from the lent ones to the tenants.
LEMMA PartitionUnpark ==
    ASSUME TypeOK, SlotPartition, NEW h \in Handle, NEW v \in Value, Unpark(h, v)
    PROVE  SlotPartition'
<1> USE EntryListAssumption
<1>1. PICK k \in DOMAIN packed : packed[k] = h /\ packed' = RemoveAt(packed, k)
  BY DEF Unpark
<1>2. /\ DOMAIN packed = 1..Len(packed) /\ Len(packed) \in Nat /\ k \in 1..Len(packed)
      /\ DOMAIN packed' = 1..Len(packed) - 1
      /\ \A j \in 1..Len(packed) - 1 :
           packed'[j] = IF j < k THEN packed[j] ELSE packed[j + 1]
  BY <1>1, PackedRemoved
<1>3. h.id \in DOMAIN items /\ items[h.id].gen = h.gen /\ items[h.id].val = None
  BY <1>1 DEF SlotPartition, ReservesEmpty, Current
<1>4. /\ DOMAIN items' = DOMAIN items
      /\ items'[h.id] = [gen |-> h.gen, val |-> v]
      /\ \A i \in DOMAIN items : i # h.id => items'[i] = items[i]
  BY <1>3, SlotTypes DEF Unpark, FillsEmpty, Current, SetValue
<1>5. free' = free /\ \A i \in DOMAIN free : free[i].id # h.id
  BY <1>1 DEF SlotPartition, Unpark
<1>6. \A j \in DOMAIN packed : j # k => packed[j].id # h.id
  BY <1>1 DEF SlotPartition, ReservesEmpty
\* Where each entry that stays was before.
<1> DEFINE from(j) == IF j < k THEN j ELSE j + 1
<1>7. \A j \in DOMAIN packed' :
        from(j) \in DOMAIN packed /\ from(j) # k /\ packed'[j] = packed[from(j)]
  BY <1>2
<1>8. \A i, j \in DOMAIN packed' : from(i) = from(j) => i = j
  BY <1>2
<1>9. \A i \in DOMAIN packed : i # k => \E j \in DOMAIN packed' : from(j) = i
  <2>1. ASSUME NEW i \in DOMAIN packed, i < k PROVE i \in DOMAIN packed' /\ from(i) = i
    BY <1>2, <2>1
  <2>2. ASSUME NEW i \in DOMAIN packed, i > k
        PROVE  i - 1 \in DOMAIN packed' /\ from(i - 1) = i
    BY <1>2, <2>2
  <2> QED BY <1>2, <2>1, <2>2
<1> HIDE DEF from
<1>10. ReservesEmpty(free)'
  BY <1>4, <1>5 DEF SlotPartition, ReservesEmpty, Current
<1>11. ReservesEmpty(packed)'
  BY <1>4, <1>6, <1>7, <1>8 DEF SlotPartition, ReservesEmpty, Current
<1>12. \A i \in DOMAIN free', j \in DOMAIN packed' : free'[i].id # packed'[j].id
  BY <1>5, <1>7 DEF SlotPartition
<1>13. ASSUME NEW i \in DOMAIN items', items'[i].val = None
       PROVE  \/ \E j \in DOMAIN free' : free'[j].id = i
              \/ \E j \in DOMAIN packed' : packed'[j].id = i
  <2>1. i # h.id /\ i \in DOMAIN items /\ items[i].val = None
    BY <1>4, <1>13
  <2>2. CASE \E j \in DOMAIN packed : packed[j].id = i
    BY <1>1, <1>7, <1>9, <2>1, <2>2
  <2>3. CASE \E j \in DOMAIN free : free[j].id = i
    BY <1>5, <2>3
  <2> QED BY <2>1, <2>2, <2>3 DEF SlotPartition
<1> QED BY <1>10, <1>11, <1>12, <1>13 DEF SlotPartition

\* select_take moves the chosen tenants to the free stack.
LEMMA PartitionSelectTake ==
    ASSUME TypeOK, SlotPartition, NEW P \in SUBSET Value, SelectTake(P)
    PROVE  SlotPartition'
<1> USE EntryListAssumption
<1>1. PICK n, order : SelectedBy(P, n, order)
  BY SelectTakeOrder
<1> DEFINE chosen == {i \in DOMAIN items : items[i].val \in P}
           freed == [i \in 1..n |-> [id |-> order[i], gen |-> items[order[i]].gen]]
<1>2. /\ n \in Nat
      /\ \A i \in 1..n : order[i] \in chosen
      /\ \A i, j \in 1..n : order[i] = order[j] => i = j
      /\ \A c \in chosen : \E i \in 1..n : order[i] = c
  BY <1>1 DEF SelectedBy, Bijection, Injection, Surjection, IsInjective
<1>3. /\ DOMAIN items' = DOMAIN items
      /\ \A i \in chosen : items'[i].gen = items[i].gen /\ items'[i].val = None
      /\ \A i \in DOMAIN items : i \notin chosen => items'[i] = items[i]
  BY DEF SelectTake
<1>4. /\ \A i \in 1..n : freed[i].id = order[i] /\ freed[i].gen = items[order[i]].gen
      /\ freed \in [1..n -> Handle]
  BY <1>2, SlotTypes
<1>5. free' = free \o freed
  BY <1>1 DEF SelectedBy
<1> HIDE DEF freed
<1>6. /\ DOMAIN free = 1..Len(free) /\ Len(free) \in Nat
      /\ DOMAIN free' = 1..Len(free) + n
      /\ \A j \in 1..Len(free) : free'[j] = free[j]
      /\ \A j \in 1..n : free'[Len(free) + j] = freed[j]
  BY <1>2, <1>4, <1>5, ConcatFacts DEF TypeOK
\* The chosen slots were occupied, so neither list held them.
<1>7. \A c \in chosen : items[c].val # None
  OBVIOUS
<1>8. /\ \A j \in DOMAIN free : free[j].id \notin chosen
      /\ \A j \in DOMAIN packed : packed[j].id \notin chosen
  BY <1>7 DEF SlotPartition, ReservesEmpty
<1>9. packed' = packed
  BY DEF SelectTake
\* An entry of the new stack is an old one or a freed one.
<1> DEFINE new(i) == i - Len(free)
<1>10. ASSUME NEW i \in DOMAIN free', i \notin 1..Len(free)
       PROVE  /\ new(i) \in 1..n /\ i = Len(free) + new(i)
              /\ free'[i].id = order[new(i)]
              /\ free'[i].gen = items[order[new(i)]].gen
              /\ order[new(i)] \in chosen
  <2>1. new(i) \in 1..n /\ i = Len(free) + new(i)
    BY <1>2, <1>6, <1>10
  <2>2. free'[i] = freed[new(i)]
    BY <1>6, <2>1
  <2> QED BY <1>2, <1>4, <2>1, <2>2
<1>chosen. chosen \subseteq DOMAIN items
  OBVIOUS
<1> HIDE DEF new, chosen
<1>11. ReservesEmpty(free)'
  <2>1. ASSUME NEW i \in DOMAIN free'
        PROVE  /\ free'[i].id \in DOMAIN items'
               /\ items'[free'[i].id].gen = free'[i].gen
               /\ items'[free'[i].id].val = None
    <3>1. CASE i \in 1..Len(free)
      BY <1>3, <1>6, <1>8, <3>1 DEF SlotPartition, ReservesEmpty, Current
    <3>2. CASE i \notin 1..Len(free)
      BY <1>3, <1>10, <1>chosen, <3>2
    <3> QED BY <3>1, <3>2
  <2>2. ASSUME NEW i \in DOMAIN free', NEW j \in DOMAIN free', free'[i].id = free'[j].id
        PROVE  i = j
    <3>1. CASE i \in 1..Len(free) /\ j \in 1..Len(free)
      BY <1>6, <2>2, <3>1 DEF SlotPartition, ReservesEmpty
    <3>2. CASE i \in 1..Len(free) /\ j \notin 1..Len(free)
      BY <1>6, <1>8, <1>10, <2>2, <3>2
    <3>3. CASE i \notin 1..Len(free) /\ j \in 1..Len(free)
      BY <1>6, <1>8, <1>10, <2>2, <3>3
    <3>4. CASE i \notin 1..Len(free) /\ j \notin 1..Len(free)
      <4>1. order[new(i)] = order[new(j)] /\ new(i) \in 1..n /\ new(j) \in 1..n
        BY <1>10, <2>2, <3>4
      <4>2. new(i) = new(j)
        BY <1>2, <4>1
      <4> QED BY <1>10, <3>4, <4>2
    <3> QED BY <3>1, <3>2, <3>3, <3>4
  <2> QED BY <2>1, <2>2 DEF ReservesEmpty, Current
<1>12. ReservesEmpty(packed)'
  BY <1>3, <1>8, <1>9 DEF SlotPartition, ReservesEmpty, Current
<1>13. \A i \in DOMAIN free', j \in DOMAIN packed' : free'[i].id # packed'[j].id
  <2> SUFFICES ASSUME NEW i \in DOMAIN free', NEW j \in DOMAIN packed
               PROVE  free'[i].id # packed[j].id
    BY <1>9
  <2>1. CASE i \in 1..Len(free)
    BY <1>6, <2>1 DEF SlotPartition
  <2>2. CASE i \notin 1..Len(free)
    BY <1>8, <1>10, <2>2
  <2> QED BY <2>1, <2>2
<1>14. ASSUME NEW i \in DOMAIN items', items'[i].val = None
       PROVE  \/ \E k \in DOMAIN free' : free'[k].id = i
              \/ \E k \in DOMAIN packed' : packed'[k].id = i
  <2>1. CASE i \in chosen
    <3>1. PICK j \in 1..n : order[j] = i
      BY <1>2, <2>1
    <3>2. Len(free) + j \in DOMAIN free'
      BY <1>2, <1>6, <3>1
    <3>3. free'[Len(free) + j].id = i
      BY <1>4, <1>6, <3>1
    <3> QED BY <3>2, <3>3
  <2>2. CASE i \notin chosen
    <3>1. items[i].val = None /\ i \in DOMAIN items
      BY <1>3, <1>14, <2>2
    <3>2. CASE \E k \in DOMAIN free : free[k].id = i
      <4>1. PICK k \in DOMAIN free : free[k].id = i
        BY <3>2
      <4>2. k \in DOMAIN free' /\ free'[k].id = i
        BY <1>2, <1>6, <4>1
      <4> QED BY <4>2
    <3>3. CASE \E k \in DOMAIN packed : packed[k].id = i
      BY <1>9, <3>3
    <3> QED BY <3>1, <3>2, <3>3 DEF SlotPartition
  <2> QED BY <2>1, <2>2
<1> QED BY <1>11, <1>12, <1>13, <1>14 DEF SlotPartition

-----------------------------------------------------------------------------
\* The empty list is partitioned.
LEMMA PartitionInit == Init => SlotPartition
BY DEF Init, SlotPartition, ReservesEmpty

\* Every call keeps the slots partitioned.
LEMMA PartitionNext ==
    TypeOK /\ SlotPartition /\ [Next]_vars => SlotPartition'
<1> SUFFICES ASSUME TypeOK, SlotPartition, [Next]_vars
             PROVE  SlotPartition'
  OBVIOUS
<1> USE EntryListAssumption
<1>1. ASSUME NEW v \in Value, InsertReused(v) PROVE SlotPartition'
  BY <1>1, PartitionInsertReused
<1>2. ASSUME NEW v \in Value, InsertNew(v) PROVE SlotPartition'
  <2>1. /\ DOMAIN items = 1..Len(items) /\ Len(items) \in Nat
        /\ DOMAIN items' = 1..Len(items) + 1
        /\ \A i \in DOMAIN items : items'[i] = items[i]
        /\ items'[Len(items) + 1].val # None
    BY <1>2 DEF InsertNew, TypeOK
  <2> QED BY <1>2, <2>1, PartitionKept DEF InsertNew
<1>3. ASSUME NEW h \in Handle, Call(h) PROVE SlotPartition'
  <2>1. CASE Take(h)
    BY <2>1, PartitionFree DEF Take
  <2>2. CASE Vacate(h)
    BY <2>2, PartitionFree DEF Vacate
  <2>3. CASE Park(h)
    BY <2>3, PartitionPark DEF Park
  <2>4. ASSUME NEW v \in Value, Unpark(h, v) PROVE SlotPartition'
    BY <2>4, PartitionUnpark
  <2>6. ASSUME NEW v \in Value, Update(h, v) PROVE SlotPartition'
    <3>1. /\ DOMAIN items' = DOMAIN items
          /\ items[h.id].val # None /\ items'[h.id].val # None
          /\ \A i \in DOMAIN items : i # h.id => items'[i] = items[i]
      BY <2>6, SlotTypes DEF Update, SetValue, Resolves, Current
    <3> QED BY <2>6, <3>1, PartitionKept DEF Update
  <2>7. ASSUME NEW v \in Value, Replace(h, v) PROVE SlotPartition'
    <3>1. /\ DOMAIN items' = DOMAIN items
          /\ items[h.id].val # None /\ items'[h.id].val # None
          /\ \A i \in DOMAIN items : i # h.id => items'[i] = items[i]
      BY <2>7, SlotTypes DEF Replace, Resolves, Current
    <3> QED BY <2>7, <3>1, PartitionKept DEF Replace
  <2>8. CASE Miss
    BY <2>8, PartitionKept DEF Miss
  <2> QED BY <1>3, <2>1, <2>2, <2>3, <2>4, <2>6, <2>7, <2>8 DEF Call
<1>4. ASSUME NEW P \in SUBSET Value, SelectTake(P) PROVE SlotPartition'
  BY <1>4, PartitionSelectTake
<1>5. CASE UNCHANGED vars
  BY <1>5, PartitionKept DEF vars
<1> QED BY <1>1, <1>2, <1>3, <1>4, <1>5 DEF Next

\* Every slot is occupied, free once or lent once, in every reachable state of a list of any size.
THEOREM PartitionCorrect == Spec => []SlotPartition
<1>1. Init => TypeOK /\ SlotPartition
  BY TypeOKInit, PartitionInit
<1>2. TypeOK /\ SlotPartition /\ [Next]_vars => (TypeOK /\ SlotPartition)'
  BY TypeOKNext, PartitionNext
<1> QED BY <1>1, <1>2, PTL DEF Spec

-----------------------------------------------------------------------------
Retired(h) == h.id \in DOMAIN items /\ h.gen <= items[h.id].gen /\ ~Held(h)

\* A step that fills a slot only with a later generation, or only under the
\* handle that was lent out, brings no retired handle back.
LEMMA RetiredNext ==
    ASSUME TypeOK, SlotPartition, [Next]_vars, NEW h \in Handle, Retired(h)
    PROVE  ~Held(h)'
<1> USE EntryListAssumption
<1> DEFINE Lost == ~Resolves(h)' /\ \A i \in DOMAIN packed' : packed'[i] # h
<1>1. Lost => ~Held(h)'
  BY DEF Held
<1>2. /\ h.id \in DOMAIN items /\ h.gen <= items[h.id].gen /\ h.gen \in Nat
      /\ items[h.id].gen \in Nat
      /\ items[h.id].gen = h.gen => items[h.id].val = None
      /\ \A i \in DOMAIN packed : packed[i] # h
  BY SlotTypes DEF Retired, Held, Resolves, Current, Handle
<1>3. ASSUME NEW v \in Value, InsertReused(v) PROVE Lost
  <2>1. free[Len(free)] \in Handle /\ Len(free) \in DOMAIN free
    BY <1>3 DEF InsertReused, TypeOK
  <2>2. items[free[Len(free)].id].gen = free[Len(free)].gen
    BY <2>1 DEF SlotPartition, ReservesEmpty, Current
  <2> QED BY <1>2, <1>3, <2>1, <2>2, SlotTypes DEF InsertReused, Resolves, Current
<1>4. ASSUME NEW v \in Value, InsertNew(v) PROVE Lost
  <2>1. items'[h.id] = items[h.id]
    BY <1>2, <1>4 DEF InsertNew, TypeOK
  <2> QED BY <1>2, <1>4, <2>1 DEF InsertNew, Resolves, Current
<1>5. ASSUME NEW g \in Handle, Call(g) PROVE Lost
  <2>1. CASE Take(g) \/ Vacate(g)
    BY <1>2, <2>1 DEF Take, Vacate, SetValue, Resolves, Current
  <2>2. CASE Park(g)
    <3>1. g # h
      BY <1>2, <2>2 DEF Park, Resolves, Current
    <3>2. \A i \in DOMAIN packed' : packed'[i] # h
      BY <1>2, <2>2, <3>1, AppendFacts DEF Park, TypeOK
    <3> QED BY <1>2, <2>2, <3>2 DEF Park, SetValue, Resolves, Current
  <2>3. ASSUME NEW v \in Value, Unpark(g, v) PROVE Lost
    <3>1. PICK k \in DOMAIN packed : packed[k] = g /\ packed' = RemoveAt(packed, k)
      BY <2>3 DEF Unpark
    <3>2. g # h
      BY <1>2, <3>1
    <3>3. \A i \in DOMAIN packed' : packed'[i] # h
      <4>1. /\ DOMAIN packed = 1..Len(packed) /\ Len(packed) \in Nat /\ k \in 1..Len(packed)
            /\ DOMAIN packed' = 1..Len(packed) - 1
            /\ \A i \in 1..Len(packed) - 1 :
                 packed'[i] = IF i < k THEN packed[i] ELSE packed[i + 1]
        BY <3>1, PackedRemoved
      <4>3. ASSUME NEW i \in 1..Len(packed) - 1
            PROVE  i \in DOMAIN packed /\ i + 1 \in DOMAIN packed
        BY <4>1
      <4> QED BY <1>2, <4>1, <4>3
    <3>4. g.id = h.id => g.gen # h.gen
      BY <3>2 DEF Handle
    <3>5. ~Resolves(h)'
      <4>1. CASE SetValue(g, v) /\ Current(g)
        BY <1>2, <3>4, <4>1 DEF SetValue, Resolves, Current
      <4>2. CASE UNCHANGED items
        BY <1>2, <4>2 DEF Resolves, Current
      <4> QED BY <2>3, <4>1, <4>2 DEF Unpark, FillsEmpty
    <3> QED BY <3>3, <3>5
  <2>5. ASSUME NEW v \in Value, Update(g, v) PROVE Lost
    BY <1>2, <2>5 DEF Update, SetValue, Resolves, Current
  <2>6. ASSUME NEW v \in Value, Replace(g, v) PROVE Lost
    BY <1>2, <2>6 DEF Replace, Resolves, Current, Handle
  <2>7. CASE Miss
    BY <1>2, <2>7 DEF Miss, Resolves, Current
  <2> QED BY <1>5, <2>1, <2>2, <2>3, <2>5, <2>6, <2>7 DEF Call
<1>6. ASSUME NEW P \in SUBSET Value, SelectTake(P) PROVE Lost
  BY <1>2, <1>6 DEF SelectTake, Resolves, Current
<1>7. ASSUME UNCHANGED vars PROVE Lost
  BY <1>2, <1>7 DEF vars, Resolves, Current
<1> HIDE DEF Lost
<1> QED BY <1>1, <1>3, <1>4, <1>5, <1>6, <1>7 DEF Next

\* The generation counters do their work: however slots are reused, a handle
\* that take, vacate, replace or select_take has retired never resolves again,
\* and is never lent out again.
THEOREM RetiredCorrect == Spec => RetiredStaysRetired
<1>1. Init => TypeOK /\ SlotPartition
  BY TypeOKInit, PartitionInit
<1>2. TypeOK /\ SlotPartition /\ [Next]_vars => (TypeOK /\ SlotPartition)'
  BY TypeOKNext, PartitionNext
<1>3. TypeOK /\ SlotPartition /\ [Next]_vars =>
        [\A h \in Handle :
           (h.id \in DOMAIN items /\ h.gen <= items[h.id].gen /\ ~Held(h)) => ~Held(h)']_vars
  BY RetiredNext DEF Retired
<1> QED BY <1>1, <1>2, <1>3, PTL DEF Spec, RetiredStaysRetired

-----------------------------------------------------------------------------
(* EntryList implements HandleMap.                                         *)

\* The map of handles that the list stands for.
LiveMap == [h \in {g \in Handle : Resolves(g)} |-> items[h.id].val]
Lent == {packed[i] : i \in DOMAIN packed}
Used == {h \in Handle : h.id \in DOMAIN items /\ h.gen <= items[h.id].gen}

\* The map m without h, and with v under h.
Minus(m, h) == [g \in DOMAIN m \ {h} |-> m[g]]
Plus(m, h, v) == [g \in DOMAIN m \union {h} |-> IF g = h THEN v ELSE m[g]]

\* A handle is known by its slot and its generation.
LEMMA HandleFacts ==
    ASSUME NEW g \in Handle, NEW h \in Handle
    PROVE  /\ g.id = h.id /\ g.gen = h.gen => g = h
           /\ g.gen \in 0..MaxGen /\ g.gen \in Nat
BY EntryListAssumption DEF Handle

\* What the map of handles says of one of them.
LEMMA LiveFacts ==
    /\ DOMAIN LiveMap = {g \in Handle : Resolves(g)}
    /\ \A g \in Handle : Resolves(g) => LiveMap[g] = items[g.id].val
BY DEF LiveMap

\* The slot of a current handle is filled or emptied.
LEMMA StoredMap ==
    ASSUME TypeOK, NEW h \in Handle, Current(h), NEW v \in Value \union {None}, SetValue(h, v)
    PROVE  /\ Used' = Used
           /\ v # None => LiveMap' = Plus(LiveMap, h, v)
           /\ v = None => LiveMap' = Minus(LiveMap, h)
<1>1. /\ h.id \in DOMAIN items /\ items[h.id].gen = h.gen
      /\ DOMAIN items' = DOMAIN items
      /\ items'[h.id] = [gen |-> h.gen, val |-> v]
      /\ \A i \in DOMAIN items : i # h.id => items'[i] = items[i]
  BY SlotTypes DEF SetValue, Current
<1>2. \A i \in DOMAIN items : items'[i].gen = items[i].gen
  BY <1>1
<1>3. Used' = Used
  BY <1>1, <1>2 DEF Used
<1>4. \A g \in Handle : g # h /\ g.id = h.id => ~Resolves(g) /\ ~Resolves(g)'
  BY <1>1, HandleFacts DEF Resolves, Current
<1>5. \A g \in Handle : g.id # h.id => /\ Resolves(g)' <=> Resolves(g)
                                       /\ Resolves(g) => items'[g.id].val = items[g.id].val
  BY <1>1 DEF Resolves, Current
<1>6. Resolves(h)' <=> v # None
  BY <1>1 DEF Resolves, Current
<1>7. ASSUME v # None PROVE LiveMap' = Plus(LiveMap, h, v)
  <2>1. {g \in Handle : Resolves(g)'} = DOMAIN LiveMap \union {h}
    BY <1>4, <1>5, <1>6, <1>7, LiveFacts
  <2>2. \A g \in DOMAIN LiveMap \union {h} :
          items'[g.id].val = IF g = h THEN v ELSE LiveMap[g]
    BY <1>1, <1>4, <1>5, LiveFacts
  <2>3. LiveMap' = [g \in {k \in Handle : Resolves(k)'} |-> items'[g.id].val]
    BY DEF LiveMap
  <2> QED BY <2>1, <2>2, <2>3 DEF Plus
<1>8. ASSUME v = None PROVE LiveMap' = Minus(LiveMap, h)
  <2>1. {g \in Handle : Resolves(g)'} = DOMAIN LiveMap \ {h}
    BY <1>4, <1>5, <1>6, <1>8, LiveFacts
  <2>2. \A g \in DOMAIN LiveMap \ {h} : items'[g.id].val = LiveMap[g]
    BY <1>4, <1>5, LiveFacts
  <2>3. LiveMap' = [g \in {k \in Handle : Resolves(k)'} |-> items'[g.id].val]
    BY DEF LiveMap
  <2> QED BY <2>1, <2>2, <2>3 DEF Minus
<1> QED BY <1>3, <1>7, <1>8

\* The slot of h gets a value under h, the next handle of that slot.
LEMMA IssuedMap ==
    ASSUME TypeOK, NEW h \in Handle, NEW v \in Value,
           DOMAIN items' = DOMAIN items \union {h.id},
           items'[h.id] = [gen |-> h.gen, val |-> v],
           \A i \in DOMAIN items : i # h.id => items'[i] = items[i],
           IF h.id \in DOMAIN items THEN h.gen = items[h.id].gen + 1 ELSE h.gen = 0
    PROVE  /\ h \in Handle \ Used /\ Used' = Used \union {h}
           /\ \A k \in Handle : Resolves(k) /\ k.id = h.id =>
                LiveMap' = Plus(Minus(LiveMap, k), h, v)
           /\ (\A k \in Handle : Resolves(k) => k.id # h.id) =>
                LiveMap' = Plus(LiveMap, h, v)
<1>0. /\ \A i \in DOMAIN items : items[i].gen \in Nat
      /\ \A g \in Handle : g.gen \in Nat
  BY SlotTypes, HandleFacts, EntryListAssumption
<1>1. h \notin Used
  BY <1>0 DEF Used
<1>2. Used' = Used \union {h}
  <2>1. ASSUME NEW g \in Handle PROVE g \in Used' <=> g \in Used \/ g = h
    <3>1. CASE g.id # h.id
      BY <3>1 DEF Used
    <3>2. CASE g.id = h.id
      <4>1. g \in Used' <=> g.gen <= h.gen
        BY <3>2 DEF Used
      <4>2. g.gen <= h.gen <=> g \in Used \/ g.gen = h.gen
        BY <1>0, <3>2 DEF Used
      <4> QED BY <3>2, <4>1, <4>2, HandleFacts
    <3> QED BY <3>1, <3>2
  <2> QED BY <2>1 DEF Used
<1>3. \A g \in Handle : g.id = h.id => (Resolves(g)' <=> g = h)
  BY HandleFacts, EntryListAssumption DEF Resolves, Current
<1>4. \A g \in Handle : g.id # h.id => /\ Resolves(g)' <=> Resolves(g)
                                       /\ Resolves(g) => items'[g.id].val = items[g.id].val
  BY DEF Resolves, Current
<1>5. ~Resolves(h)
  BY <1>0 DEF Resolves, Current
<1> DEFINE others == {k \in Handle : Resolves(k) /\ k.id # h.id}
<1>6. LiveMap' = [g \in others \union {h} |-> IF g = h THEN v ELSE LiveMap[g]]
  <2>1. {g \in Handle : Resolves(g)'} = others \union {h}
    BY <1>3, <1>4
  <2>2. \A g \in others \union {h} : items'[g.id].val = IF g = h THEN v ELSE LiveMap[g]
    BY <1>4, LiveFacts
  <2>3. LiveMap' = [g \in {k \in Handle : Resolves(k)'} |-> items'[g.id].val]
    BY DEF LiveMap
  <2> HIDE DEF others
  <2> QED BY <2>1, <2>2, <2>3
<1>7. ASSUME NEW k \in Handle, Resolves(k), k.id = h.id
      PROVE  LiveMap' = Plus(Minus(LiveMap, k), h, v)
  <2>1. \A g \in Handle : Resolves(g) /\ g.id = h.id => g = k
    BY <1>7, HandleFacts DEF Resolves, Current
  <2>2. others = DOMAIN LiveMap \ {k}
    BY <1>7, <2>1, LiveFacts
  <2>3. /\ DOMAIN Minus(LiveMap, k) = others
        /\ \A g \in others : Minus(LiveMap, k)[g] = LiveMap[g]
    BY <2>2 DEF Minus
  <2> HIDE DEF others
  <2> QED BY <1>6, <2>3 DEF Plus
<1>8. ASSUME \A k \in Handle : Resolves(k) => k.id # h.id
      PROVE  LiveMap' = Plus(LiveMap, h, v)
  <2>1. others = DOMAIN LiveMap
    BY <1>8, LiveFacts
  <2> HIDE DEF others
  <2> QED BY <1>6, <2>1 DEF Plus
<1> QED BY <1>1, <1>2, <1>7, <1>8

\* Each call of the map of handles, in terms of the list.
LEMMA MapCalls ==
    ASSUME NEW h \in Handle, NEW v \in Value
    PROVE  /\ /\ h \in DOMAIN LiveMap /\ LiveMap' = Minus(LiveMap, h)
              /\ Lent' = Lent /\ Used' = Used
              => /\ result' = <<LiveMap[h]>> => HM!Take(h, TRUE)
                 /\ result' = <<>> => HM!Take(h, FALSE)
           /\ /\ h \in DOMAIN LiveMap /\ LiveMap' = Minus(LiveMap, h)
              /\ Lent' = Lent \union {h} /\ Used' = Used /\ result' = <<LiveMap[h]>>
              => HM!Park(h)
           /\ /\ h \in Lent /\ LiveMap' = Plus(LiveMap, h, v)
              /\ Lent' = Lent \ {h} /\ Used' = Used /\ result' = <<>>
              => HM!Unpark(h, v)
           /\ /\ h \in DOMAIN LiveMap /\ LiveMap' = Plus(LiveMap, h, v)
              /\ Lent' = Lent /\ Used' = Used /\ result' = <<LiveMap[h]>>
              => HM!Update(h, v)
           /\ /\ LiveMap' = LiveMap /\ Lent' = Lent /\ Used' = Used /\ result' = <<>>
              => HM!Miss
BY DEF LiveMap, Lent, Used, Minus, Plus, HM!Take, HM!Park, HM!Unpark, HM!Update,
       HM!Miss, HM!With, HM!Without

\* The calls that issue a handle g.
LEMMA MapIssues ==
    ASSUME NEW v \in Value, NEW g \in Handle \ Used,
           Used' = Used \union {g}, Lent' = Lent
    PROVE  /\ LiveMap' = Plus(LiveMap, g, v) /\ result' = <<>> => HM!Insert(v)
           /\ \A h \in DOMAIN LiveMap :
                LiveMap' = Plus(Minus(LiveMap, h), g, v) /\ result' = <<LiveMap[h]>>
                  => HM!Replace(h, v)
BY DEF LiveMap, Lent, Used, Minus, Plus, HM!Insert, HM!Replace, HM!With, HM!Without

\* The call that removes the handles whose values satisfy a predicate.
LEMMA MapSelects ==
    ASSUME NEW P \in SUBSET Value, NEW chosen,
           chosen = {h \in DOMAIN LiveMap : LiveMap[h] \in P},
           LiveMap' = [h \in DOMAIN LiveMap \ chosen |-> LiveMap[h]],
           Lent' = Lent, Used' = Used,
           \E order \in Bijection(1..Cardinality(chosen), chosen) :
             result' = [i \in 1..Cardinality(chosen) |-> LiveMap[order[i]]]
    PROVE  HM!SelectTake(P)
<1>1. \A S : HM!Cardinality(S) = Cardinality(S)
  BY DEF HM!Cardinality, Cardinality
<1>2. \A S, T : HM!Bijection(S, T) = Bijection(S, T)
  BY DEF HM!Bijection, HM!Injection, HM!Surjection, HM!IsInjective,
         Bijection, Injection, Surjection, IsInjective
<1> QED BY <1>1, <1>2 DEF LiveMap, Lent, Used, HM!SelectTake, HM!Without

\* select_take visits the chosen slots in order: their handles leave the map, and
\* their values are returned once each.
LEMMA SelectMap ==
    ASSUME TypeOK, NEW P \in SUBSET Value, SelectTake(P)
    PROVE  HM!SelectTake(P)
<1> DEFINE chosen == {h \in DOMAIN LiveMap : LiveMap[h] \in P}
<1>1. PICK n, order : SelectedBy(P, n, order)
  BY SelectTakeOrder
<1> DEFINE f == [i \in 1..n |-> [id |-> order[i], gen |-> items[order[i]].gen]]
<1>2. \A h \in Handle : h \in chosen <=> Current(h) /\ items[h.id].val \in P
  BY EntryListAssumption, LiveFacts DEF Resolves
<1>3. /\ n \in Nat
      /\ \A i \in 1..n : order[i] \in DOMAIN items /\ items[order[i]].val \in P
      /\ \A i, j \in 1..n : order[i] = order[j] => i = j
      /\ \A k \in DOMAIN items : items[k].val \in P => \E i \in 1..n : order[i] = k
  BY <1>1 DEF SelectedBy, Bijection, Injection, Surjection, IsInjective
<1>4. \A i \in 1..n : /\ f[i] \in Handle /\ f[i].id = order[i]
                      /\ f[i].gen = items[order[i]].gen
  BY <1>3, SlotTypes
<1>5. f \in Bijection(1..n, chosen)
  <2>1. \A i \in 1..n : f[i] \in chosen
    BY <1>2, <1>3, <1>4 DEF Current
  <2>2. \A i, j \in 1..n : f[i] = f[j] => i = j
    BY <1>3, <1>4
  <2>3. ASSUME NEW h \in chosen PROVE \E i \in 1..n : f[i] = h
    <3>1. h \in Handle /\ Current(h) /\ items[h.id].val \in P
      BY <1>2, LiveFacts
    <3>2. PICK i \in 1..n : order[i] = h.id
      BY <1>3, <3>1 DEF Current
    <3>3. f[i] = h
      BY <1>4, <3>1, <3>2, HandleFacts DEF Current
    <3> QED BY <3>3
  <2>4. f \in [1..n -> chosen]
    BY <2>1
  <2> HIDE DEF f, chosen
  <2>5. f \in Injection(1..n, chosen)
    BY <2>2, <2>4 DEF Injection, IsInjective
  <2>6. f \in Surjection(1..n, chosen)
    BY <2>3, <2>4 DEF Surjection
  <2> QED BY <2>5, <2>6 DEF Bijection
<1>6. Cardinality(chosen) = n
  <2>1. ExistsBijection(1..n, chosen)
    BY <1>5 DEF ExistsBijection
  <2> HIDE DEF chosen
  <2> QED BY <1>3, <2>1, FS_CountingElements
<1>7. LiveMap' = [h \in DOMAIN LiveMap \ chosen |-> LiveMap[h]]
  <2>1. /\ DOMAIN items' = DOMAIN items
        /\ \A k \in DOMAIN items :
             items'[k] = IF items[k].val \in P THEN [gen |-> items[k].gen, val |-> None]
                                               ELSE items[k]
    BY DEF SelectTake
  <2>2. \A k \in DOMAIN items : items'[k].gen = items[k].gen
    BY <2>1
  <2>3. \A h \in Handle : Resolves(h)' <=> Resolves(h) /\ items[h.id].val \notin P
    BY <2>1, <2>2 DEF Resolves, Current
  <2>4. {h \in Handle : Resolves(h)'} = DOMAIN LiveMap \ chosen
    BY <1>2, <2>3, LiveFacts DEF Resolves
  <2>5. \A h \in DOMAIN LiveMap \ chosen : items'[h.id].val = LiveMap[h]
    BY <1>2, <2>1, LiveFacts DEF Resolves, Current
  <2>6. LiveMap' = [h \in {k \in Handle : Resolves(k)'} |-> items'[h.id].val]
    BY DEF LiveMap
  <2> HIDE DEF chosen
  <2> QED BY <2>4, <2>5, <2>6
<1>8. result' = [i \in 1..n |-> LiveMap[f[i]]]
  <2>1. \A i \in 1..n : LiveMap[f[i]] = items[order[i]].val
    <3>1. \A i \in 1..n : f[i] \in Handle /\ f[i] \in chosen
      BY <1>2, <1>3, <1>4 DEF Current
    <3>2. \A i \in 1..n : Resolves(f[i])
      BY <3>1, LiveFacts
    <3> HIDE DEF f
    <3> QED BY <1>4, <3>1, <3>2, LiveFacts
  <2>2. result' = [i \in 1..n |-> items[order[i]].val]
    BY <1>1 DEF SelectedBy
  <2> HIDE DEF f
  <2> QED BY <2>1, <2>2
<1>9. Lent' = Lent /\ Used' = Used
  BY DEF SelectTake, Lent, Used
<1>10. \E g \in Bijection(1..Cardinality(chosen), chosen) :
          result' = [i \in 1..Cardinality(chosen) |-> LiveMap[g[i]]]
  <2> HIDE DEF f, chosen
  <2> QED BY <1>5, <1>6, <1>8
<1> QED BY <1>7, <1>9, <1>10, MapSelects

\* The handles lent out after park and unpark.
LEMMA LentFacts ==
    ASSUME TypeOK, SlotPartition, NEW h \in Handle
    PROVE  /\ packed' = Append(packed, h) => Lent' = Lent \union {h}
           /\ \A v \in Value : Unpark(h, v) => h \in Lent /\ Lent' = Lent \ {h}
<1>1. ASSUME packed' = Append(packed, h) PROVE Lent' = Lent \union {h}
  <2>1. packed \in Seq(Handle)
    BY DEF TypeOK
  <2>2. /\ DOMAIN packed = 1..Len(packed) /\ Len(packed) \in Nat
        /\ DOMAIN packed' = 1..Len(packed) + 1
        /\ \A j \in 1..Len(packed) : packed'[j] = packed[j]
        /\ packed'[Len(packed) + 1] = h
    BY <1>1, <2>1, AppendFacts
  <2>3. \A j \in 1..Len(packed) + 1 : j \in 1..Len(packed) \/ j = Len(packed) + 1
    BY <2>2
  <2> QED BY <2>2, <2>3 DEF Lent
<1>2. ASSUME NEW v \in Value, Unpark(h, v) PROVE h \in Lent /\ Lent' = Lent \ {h}
  <2>1. PICK k \in DOMAIN packed : packed[k] = h /\ packed' = RemoveAt(packed, k)
    BY <1>2 DEF Unpark
  <2>2. /\ DOMAIN packed = 1..Len(packed) /\ Len(packed) \in Nat /\ k \in 1..Len(packed)
        /\ DOMAIN packed' = 1..Len(packed) - 1
        /\ \A j \in 1..Len(packed) - 1 :
             packed'[j] = IF j < k THEN packed[j] ELSE packed[j + 1]
    BY <2>1, PackedRemoved
  <2>3. \A j \in DOMAIN packed : packed[j] = h => j = k
    BY <2>1 DEF SlotPartition, ReservesEmpty
  <2>4. ASSUME NEW j \in DOMAIN packed'
        PROVE  \E i \in DOMAIN packed : i # k /\ packed'[j] = packed[i]
    <3>1. j \in DOMAIN packed /\ j + 1 \in DOMAIN packed /\ j + 1 # j
      BY <2>2
    <3> QED BY <2>2, <3>1
  <2>5. ASSUME NEW i \in DOMAIN packed, i # k
        PROVE  \E j \in DOMAIN packed' : packed'[j] = packed[i]
    <3>1. CASE i < k
      <4>1. i \in 1..Len(packed) - 1
        BY <2>2, <3>1
      <4> QED BY <2>2, <3>1, <4>1
    <3>2. CASE i > k
      <4>1. i - 1 \in 1..Len(packed) - 1 /\ ~(i - 1 < k) /\ (i - 1) + 1 = i
        BY <2>2, <3>2
      <4> QED BY <2>2, <4>1
    <3> QED BY <2>2, <2>5, <3>1, <3>2
  <2> QED BY <2>1, <2>3, <2>4, <2>5 DEF Lent
<1> QED BY <1>1, <1>2

\* insert: the handle is the next one of a slot that holds nothing, or the first
\* of a new slot.
LEMMA InsertMap ==
    ASSUME TypeOK, SlotPartition, NEW v \in Value, InsertReused(v) \/ InsertNew(v)
    PROVE  HM!Insert(v)
<1> USE EntryListAssumption
<1>1. Lent' = Lent /\ result' = <<>>
  BY DEF InsertReused, InsertNew, Lent
<1>2. CASE InsertReused(v)
  <2> DEFINE top == free[Len(free)]
             h == [id |-> top.id, gen |-> top.gen + 1]
  <2>1. top \in Handle /\ Len(free) \in DOMAIN free /\ top.gen < MaxGen
    BY <1>2 DEF InsertReused, TypeOK
  <2>2. top.id \in DOMAIN items /\ items[top.id].gen = top.gen /\ items[top.id].val = None
    BY <2>1 DEF SlotPartition, ReservesEmpty, Current
  <2>3. h \in Handle
    BY <2>1 DEF Handle
  <2>4. /\ DOMAIN items' = DOMAIN items \union {h.id}
        /\ items'[h.id] = [gen |-> h.gen, val |-> v]
        /\ \A i \in DOMAIN items : i # h.id => items'[i] = items[i]
        /\ h.id \in DOMAIN items /\ h.gen = items[h.id].gen + 1
    BY <1>2, <2>2, SlotTypes DEF InsertReused
  <2>5. \A k \in Handle : Resolves(k) => k.id # h.id
    BY <2>2 DEF Resolves
  <2> HIDE DEF h
  <2>6. h \in Handle \ Used /\ Used' = Used \union {h} /\ LiveMap' = Plus(LiveMap, h, v)
    BY <2>3, <2>4, <2>5, IssuedMap
  <2> QED BY <1>1, <2>6, MapIssues
<1>3. CASE InsertNew(v)
  <2> DEFINE h == [id |-> Len(items) + 1, gen |-> 0]
  <2>1. h \in Handle /\ DOMAIN items = 1..Len(items) /\ Len(items) \in Nat
    BY <1>3, SlotTypes DEF InsertNew, Handle
  <2>2. h.id = Len(items) + 1 /\ h.gen = 0 /\ h.id \notin DOMAIN items
    BY <2>1
  <2>3. /\ DOMAIN items' = DOMAIN items \union {h.id}
        /\ items'[h.id] = [gen |-> h.gen, val |-> v]
        /\ \A i \in DOMAIN items : i # h.id => items'[i] = items[i]
    <3>1. items' = Append(items, [gen |-> 0, val |-> v]) /\ items \in Seq(Slot)
      BY <1>3 DEF InsertNew, TypeOK
    <3>2. [gen |-> 0, val |-> v] \in Slot
      BY DEF Slot
    <3>3. /\ DOMAIN items' = 1..Len(items) + 1
          /\ \A i \in 1..Len(items) : items'[i] = items[i]
          /\ items'[Len(items) + 1] = [gen |-> 0, val |-> v]
      BY <3>1, <3>2, AppendFacts
    <3> QED BY <2>1, <2>2, <3>3
  <2>4. \A k \in Handle : Resolves(k) => k.id # h.id
    BY <2>2 DEF Resolves, Current
  <2> HIDE DEF h
  <2>5. h \in Handle \ Used /\ Used' = Used \union {h} /\ LiveMap' = Plus(LiveMap, h, v)
    BY <2>1, <2>2, <2>3, <2>4, IssuedMap
  <2> QED BY <1>1, <2>5, MapIssues
<1> QED BY <1>2, <1>3

\* A call made with a handle, current or not.
LEMMA CallMap ==
    ASSUME TypeOK, SlotPartition, NEW h \in Handle, Call(h)
    PROVE  HM!Call(h)
<1> USE EntryListAssumption
<1>1. ASSUME Resolves(h)
      PROVE  h \in DOMAIN LiveMap /\ LiveMap[h] = items[h.id].val /\ Current(h)
  BY <1>1, LiveFacts DEF Resolves
<1>2. CASE Take(h)
  <2>1. LiveMap' = Minus(LiveMap, h) /\ Used' = Used /\ Lent' = Lent
    BY <1>1, <1>2, StoredMap DEF Take, Lent
  <2>2. HM!Take(h, TRUE)
    <3>1. \E v : v \in Value
      BY <1>1, <1>2, SlotTypes DEF Take, Resolves, Current
    <3> QED BY <1>1, <1>2, <2>1, <3>1, MapCalls DEF Take
  <2> QED BY <2>2 DEF HM!Call
<1>3. CASE Vacate(h)
  <2>1. LiveMap' = Minus(LiveMap, h) /\ Used' = Used /\ Lent' = Lent
    BY <1>1, <1>3, StoredMap DEF Vacate, Lent
  <2>2. HM!Take(h, FALSE)
    <3>1. \E v : v \in Value
      BY <1>1, <1>3, SlotTypes DEF Vacate, Resolves, Current
    <3> QED BY <1>1, <1>3, <2>1, <3>1, MapCalls DEF Vacate
  <2> QED BY <2>2 DEF HM!Call
<1>4. CASE Park(h)
  <2>1. LiveMap' = Minus(LiveMap, h) /\ Used' = Used /\ Lent' = Lent \union {h}
    BY <1>1, <1>4, StoredMap, LentFacts DEF Park
  <2>2. HM!Park(h)
    <3>1. \E v : v \in Value
      BY <1>1, <1>4, SlotTypes DEF Park, Resolves, Current
    <3> QED BY <1>1, <1>4, <2>1, <3>1, MapCalls DEF Park
  <2> QED BY <2>2 DEF HM!Call
<1>5. ASSUME NEW v \in Value, Unpark(h, v) PROVE HM!Call(h)
  <2>1. h \in Lent /\ Lent' = Lent \ {h} /\ result' = <<>>
    BY <1>5, LentFacts DEF Unpark
  <2>2. Current(h) /\ items[h.id].val = None
    BY <2>1 DEF Lent, SlotPartition, ReservesEmpty
  <2>3. SetValue(h, v)
    BY <1>5, <2>2 DEF Unpark, FillsEmpty
  <2>4. LiveMap' = Plus(LiveMap, h, v) /\ Used' = Used
    BY <2>2, <2>3, StoredMap
  <2>5. HM!Unpark(h, v)
    BY <2>1, <2>4, MapCalls
  <2> QED BY <2>5 DEF HM!Call
<1>6. ASSUME NEW v \in Value, Update(h, v) PROVE HM!Call(h)
  <2>1. LiveMap' = Plus(LiveMap, h, v) /\ Used' = Used /\ Lent' = Lent
    BY <1>1, <1>6, StoredMap DEF Update, Lent
  <2>2. HM!Update(h, v)
    BY <1>1, <1>6, <2>1, MapCalls DEF Update
  <2> QED BY <2>2 DEF HM!Call
<1>7. ASSUME NEW v \in Value, Replace(h, v) PROVE HM!Call(h)
  <2> DEFINE g == [id |-> h.id, gen |-> h.gen + 1]
  <2>1. g \in Handle /\ h.id \in DOMAIN items /\ items[h.id].gen = h.gen
    BY <1>7 DEF Replace, Handle, Resolves, Current
  <2>2. /\ DOMAIN items' = DOMAIN items \union {g.id}
        /\ items'[g.id] = [gen |-> g.gen, val |-> v]
        /\ \A i \in DOMAIN items : i # g.id => items'[i] = items[i]
        /\ g.id \in DOMAIN items /\ g.gen = items[g.id].gen + 1 /\ h.id = g.id
    BY <1>7, <2>1, SlotTypes DEF Replace
  <2> HIDE DEF g
  <2>3. /\ g \in Handle \ Used /\ Used' = Used \union {g}
        /\ LiveMap' = Plus(Minus(LiveMap, h), g, v)
    BY <1>7, <2>1, <2>2, IssuedMap DEF Replace
  <2>4. result' = <<LiveMap[h]>> /\ Lent' = Lent /\ h \in DOMAIN LiveMap
    BY <1>1, <1>7 DEF Replace, Lent
  <2>5. HM!Replace(h, v)
    BY <2>3, <2>4, MapIssues
  <2> QED BY <2>5 DEF HM!Call
<1>8. CASE ~Resolves(h) /\ Miss
  <2>1. h \notin DOMAIN LiveMap
    BY <1>8, LiveFacts
  <2>2. HM!Miss
    BY <1>8 DEF Miss, LiveMap, Lent, Used, Resolves, Current, HM!Miss
  <2> QED BY <2>1, <2>2 DEF HM!Call, LiveMap
<1> QED BY <1>2, <1>3, <1>4, <1>5, <1>6, <1>7, <1>8 DEF Call

\* Every step of the list is a step of the map of handles, or leaves it as it is.
LEMMA MapNext ==
    TypeOK /\ SlotPartition /\ [Next]_vars => [HM!Next]_(HM!vars)
<1> SUFFICES ASSUME TypeOK, SlotPartition, [Next]_vars PROVE [HM!Next]_(HM!vars)
  OBVIOUS
<1>1. ASSUME NEW v \in Value, (InsertReused(v) \/ InsertNew(v)) /\ asked' = {}
      PROVE  HM!Next
  BY <1>1, InsertMap DEF HM!Next
<1>2. ASSUME NEW h \in Handle, Call(h) /\ asked' = {h} PROVE HM!Next
  BY <1>2, CallMap DEF HM!Next
<1>3. ASSUME NEW P \in SUBSET Value, SelectTake(P) /\ asked' = {} PROVE HM!Next
  BY <1>3, SelectMap DEF HM!Next
<1>4. CASE UNCHANGED vars
  BY <1>4 DEF vars, HM!vars, Resolves, Current
<1> QED BY <1>1, <1>2, <1>3, <1>4 DEF Next

\* The empty list is the empty map.
LEMMA MapInit == Init => HM!Init
<1> SUFFICES ASSUME Init PROVE HM!Init
  OBVIOUS
<1>1. {g \in Handle : Resolves(g)} = {}
  BY DEF Init, Resolves, Current
<1> QED BY <1>1 DEF Init, HM!Init

\* For any number of slots, generations and values, whatever is inserted, taken,
\* lent, replaced or selected and whichever handles the clients keep, the slot
\* list is a map from handles to values: its slots, generations and free stack
\* cannot be told from a map that never issues a handle twice.
THEOREM HandleMapCorrect == Spec => HandleMapSpec
<1>1. Init => TypeOK /\ SlotPartition
  BY TypeOKInit, PartitionInit
<1>2. TypeOK /\ SlotPartition /\ [Next]_vars => (TypeOK /\ SlotPartition)'
  BY TypeOKNext, PartitionNext
<1> QED BY <1>1, <1>2, MapInit, MapNext, PTL DEF Spec, HandleMapSpec, HM!Spec
=============================================================================
