----------------------------- MODULE EntryList -----------------------------
(***************************************************************************)
(* foundation_core/src/synca/entrylist.rs: a list of slots addressed by    *)
(* (id, generation) handles.  A slot whose value was taken goes on a LIFO  *)
(* stack of free entries and its next tenant gets the next generation, so  *)
(* that old handles miss.  park lends the value out while the slot stays   *)
(* reserved.  The executor keeps its tasks and its sleepers in such lists. *)
(*                                                                         *)
(* Ids count from 1 here and from 0 in the code.                           *)
(***************************************************************************)
EXTENDS Naturals, SequencesExt

CONSTANTS
    Value,       \* what clients store
    None,        \* an empty slot (Option::None)
    MaxSlots,    \* bound: slots ever allocated
    MaxGen       \* bound: the last generation of a slot

ASSUME EntryListAssumption ==
    /\ None \notin Value
    /\ MaxSlots \in Nat
    /\ MaxGen \in Nat

VARIABLES
    items,       \* Vec<(usize, Option<T>)>
    free,        \* free_entries: a stack, popped at the end
    packed,      \* packed_entries
    asked,       \* {the handle the last call was made with}, or {}
    result       \* the values it handed back, in order

vars == <<items, free, packed, asked, result>>

Handle == [id : 1..MaxSlots, gen : 0..MaxGen]
Slot == [gen : 0..MaxGen, val : Value \union {None}]

Init ==
    /\ items = <<>>
    /\ free = <<>>
    /\ packed = <<>>
    /\ asked = {}
    /\ result = <<>>

-----------------------------------------------------------------------------
Current(h) == h.id \in DOMAIN items /\ items[h.id].gen = h.gen

\* get, get_mut and has: the handle is current and its slot holds a value.
Resolves(h) == Current(h) /\ items[h.id].val # None

\* The slot of h holds v, or None, from now on.
SetValue(h, v) ==
    items' = [items EXCEPT ![h.id] = [gen |-> items[h.id].gen, val |-> v]]

\* The operation found nothing under the handle.
Miss == result' = <<>> /\ UNCHANGED <<items, free, packed>>

\* Mutant of InsertReused: the slot's next tenant gets the handle of its last.
InsertSameGen(v) ==
    /\ free # <<>>
    /\ LET top == free[Len(free)] IN
         items' = [items EXCEPT ![top.id] = [gen |-> top.gen, val |-> v]]
    /\ free' = SubSeq(free, 1, Len(free) - 1)
    /\ result' = <<>>
    /\ UNCHANGED packed

\* insert: reuse the most recently freed slot under its next generation,
\* else allocate a slot.
InsertReused(v) ==
    /\ free # <<>>
    /\ LET top == free[Len(free)] IN
         /\ top.gen < MaxGen
         /\ items' = [items EXCEPT ![top.id] = [gen |-> top.gen + 1, val |-> v]]
    /\ free' = SubSeq(free, 1, Len(free) - 1)
    /\ result' = <<>>
    /\ UNCHANGED packed

InsertNew(v) ==
    /\ free = <<>>
    /\ Len(items) < MaxSlots
    /\ items' = Append(items, [gen |-> 0, val |-> v])
    /\ result' = <<>>
    /\ UNCHANGED <<free, packed>>

\* Mutant of Take: only the generation is looked at.
TakeEmpty(h) ==
    /\ Current(h)
    /\ SetValue(h, None)
    /\ free' = Append(free, h)
    /\ result' = <<items[h.id].val>>
    /\ UNCHANGED packed

Take(h) ==
    /\ Resolves(h)
    /\ SetValue(h, None)
    /\ free' = Append(free, h)
    /\ result' = <<items[h.id].val>>
    /\ UNCHANGED packed

\* Mutant of Vacate: only the generation is looked at.
VacateEmpty(h) ==
    /\ Current(h)
    /\ SetValue(h, None)
    /\ free' = Append(free, h)
    /\ result' = <<>>
    /\ UNCHANGED packed

\* As take, but the value is dropped.
Vacate(h) ==
    /\ Resolves(h)
    /\ SetValue(h, None)
    /\ free' = Append(free, h)
    /\ result' = <<>>
    /\ UNCHANGED packed

Park(h) ==
    /\ Resolves(h)
    /\ SetValue(h, None)
    /\ packed' = Append(packed, h)
    /\ result' = <<items[h.id].val>>
    /\ UNCHANGED free

\* update_packed fills the slot of a current handle that holds no value; the
\* previous value it returns is therefore always None.  It is public, but only
\* unpark calls it.
FillsEmpty(h, v) ==
    IF Current(h) /\ items[h.id].val = None
    THEN SetValue(h, v) ELSE UNCHANGED items

\* unpark: the handle leaves packed_entries and its slot is filled.
Unpark(h, v) ==
    /\ \E i \in DOMAIN packed :
         /\ packed[i] = h
         /\ \A j \in 1..i - 1 : packed[j] # h
         /\ packed' = RemoveAt(packed, i)
    /\ FillsEmpty(h, v)
    /\ result' = <<>>
    /\ UNCHANGED free

Update(h, v) ==
    /\ Resolves(h)
    /\ SetValue(h, v)
    /\ result' = <<items[h.id].val>>
    /\ UNCHANGED <<free, packed>>

\* Mutant of Replace: an older handle of the slot is as good as the current one.
ReplaceOlder(h, v) ==
    /\ h.id \in DOMAIN items /\ h.gen <= items[h.id].gen
    /\ items[h.id].val # None
    /\ items[h.id].gen < MaxGen
    /\ items' = [items EXCEPT ![h.id] = [gen |-> @.gen + 1, val |-> v]]
    /\ result' = <<items[h.id].val>>
    /\ UNCHANGED <<free, packed>>

\* replace: the slot keeps its tenant's place but not its handle.
Replace(h, v) ==
    /\ Resolves(h)
    /\ h.gen < MaxGen
    /\ items' = [items EXCEPT ![h.id] = [gen |-> h.gen + 1, val |-> v]]
    /\ result' = <<items[h.id].val>>
    /\ UNCHANGED <<free, packed>>

\* select_take, for the predicate that holds of the values in P: one pass over
\* the slots in order, which frees each match and collects its value.
SelectTake(P) ==
    LET chosen == {i \in DOMAIN items : items[i].val \in P}
        n == Cardinality(chosen)
    IN  /\ \E order \in Bijection(1..n, chosen) :
             /\ \A i, j \in 1..n : i < j => order[i] < order[j]
             /\ free' = free \o [i \in 1..n |->
                            [id |-> order[i], gen |-> items[order[i]].gen]]
             /\ result' = [i \in 1..n |-> items[order[i]].val]
        /\ items' = [i \in DOMAIN items |->
                       IF i \in chosen THEN [gen |-> items[i].gen, val |-> None]
                                       ELSE items[i]]
        /\ UNCHANGED packed

\* Every call with a handle may be made with any handle: current, stale, lent,
\* free, or of a slot that does not exist.
Call(h) ==
    \/ Take(h) \/ Vacate(h) \/ Park(h)
    \/ \E v \in Value :
         Unpark(h, v) \/ Update(h, v) \/ Replace(h, v)
    \/ ~Resolves(h) /\ Miss

Next ==
    \/ \E v \in Value : (InsertReused(v) \/ InsertNew(v)) /\ asked' = {}
    \/ \E h \in Handle : Call(h) /\ asked' = {h}
    \/ \E P \in SUBSET Value : SelectTake(P) /\ asked' = {}

Spec == Init /\ [][Next]_vars

-----------------------------------------------------------------------------
TypeOK ==
    /\ items \in Seq(Slot)
    /\ Len(items) <= MaxSlots
    /\ free \in Seq(Handle)
    /\ packed \in Seq(Handle)
    /\ asked \subseteq Handle
    /\ result \in Seq(Value)

\* The entries of a stack or list of reserved handles: each is the current
\* handle of an empty slot, and none is there twice.
ReservesEmpty(s) ==
    /\ \A i \in DOMAIN s : Current(s[i]) /\ items[s[i].id].val = None
    /\ \A i, j \in DOMAIN s : s[i].id = s[j].id => i = j

\* Every slot is in exactly one of three conditions: it holds a value, it is on
\* the free stack once, or it is lent out once.  Nothing leaks (an empty slot
\* that is on neither list could never be used again), nothing is handed out
\* twice (a slot on both lists, or twice on the stack), and the free stack
\* carries current generations, from which insert derives fresh handles.
SlotPartition ==
    /\ ReservesEmpty(free)
    /\ ReservesEmpty(packed)
    /\ \A i \in DOMAIN free, j \in DOMAIN packed : free[i].id # packed[j].id
    /\ \A i \in DOMAIN items : items[i].val = None =>
         \/ \E k \in DOMAIN free : free[k].id = i
         \/ \E k \in DOMAIN packed : packed[k].id = i

\* A handle whose value is in the list or lent to a client.
Held(h) == Resolves(h) \/ \E i \in DOMAIN packed : packed[i] = h

\* take "invalidates the pointer" (entrylist.rs, doc of take), and so do
\* vacate, replace and select_take: an issued handle that stands for nothing
\* any more never stands for anything again, whoever reuses its slot.
RetiredStaysRetired ==
    [][\A h \in Handle :
         (h.id \in DOMAIN items /\ h.gen <= items[h.id].gen /\ ~Held(h)) => ~Held(h)']_vars

\* The list implements the map of handles: the handles that resolve are the
\* map's domain, a slot at generation g has issued its handles 0..g, and the
\* lent handles are the packed ones.
HM == INSTANCE HandleMap WITH
    live <- [h \in {g \in Handle : Resolves(g)} |-> items[h.id].val],
    lent <- {packed[i] : i \in DOMAIN packed},
    used <- {h \in Handle : h.id \in DOMAIN items /\ h.gen <= items[h.id].gen}

HandleMapSpec == HM!Spec
=============================================================================
