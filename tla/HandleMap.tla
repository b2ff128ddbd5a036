----------------------------- MODULE HandleMap -----------------------------
(***************************************************************************)
(* What the generational slot list of foundation_core/src/synca/entrylist  *)
(* promises its clients: a map from handles to values in which             *)
(*   - a handle is issued once, and never resolves again once retired;     *)
(*   - a handle may be lent out (park), and while it is lent nothing but   *)
(*     giving the value back (unpark) can change what it stands for;       *)
(*   - a call with a retired, lent or foreign handle changes nothing.      *)
(* Slots, generations and the free stack are the implementation's: see     *)
(* EntryList, which is shown to implement this module.                     *)
(***************************************************************************)
EXTENDS Naturals, Functions, FiniteSets

CONSTANTS
    Handle,     \* every handle a client can name
    Value       \* what the list stores

VARIABLES
    live,       \* function from the handles that hold a value to that value
    lent,       \* the handles whose value a client has borrowed
    used,       \* the handles issued so far
    asked,      \* {the handle the last call was made with}, or {}
    result      \* the values it handed back, in order

vars == <<live, lent, used, asked, result>>

Init ==
    /\ live = [h \in {} |-> h]
    /\ lent = {}
    /\ used = {}
    /\ asked = {}
    /\ result = <<>>

\* Removing the handles of a set from the map.
Without(H) == [h \in DOMAIN live \ H |-> live[h]]

\* The map with handle h standing for v.
With(m, h, v) == [g \in DOMAIN m \union {h} |-> IF g = h THEN v ELSE m[g]]

\* A call with a handle that does not resolve: nothing is returned or changed.
\* (unpark and update_packed return nothing anyway.)
Miss == result' = <<>> /\ UNCHANGED <<live, lent, used>>

Insert(v) ==
    \E h \in Handle \ used :
        /\ live' = With(live, h, v)
        /\ used' = used \union {h}
        /\ result' = <<>>
        /\ UNCHANGED lent

\* take, and vacate (which drops the value instead of returning it).
Take(h, returned) ==
    /\ h \in DOMAIN live
    /\ live' = Without({h})
    /\ result' = IF returned THEN <<live[h]>> ELSE <<>>
    /\ UNCHANGED <<lent, used>>

Park(h) ==
    /\ h \in DOMAIN live
    /\ live' = Without({h})
    /\ lent' = lent \union {h}
    /\ result' = <<live[h]>>
    /\ UNCHANGED used

Unpark(h, v) ==
    /\ h \in lent
    /\ live' = With(live, h, v)
    /\ lent' = lent \ {h}
    /\ result' = <<>>
    /\ UNCHANGED used

Update(h, v) ==
    /\ h \in DOMAIN live
    /\ live' = With(live, h, v)
    /\ result' = <<live[h]>>
    /\ UNCHANGED <<lent, used>>

\* replace retires the handle and issues another for the new value.
Replace(h, v) ==
    /\ h \in DOMAIN live
    /\ \E g \in Handle \ used :
         /\ live' = With(Without({h}), g, v)
         /\ used' = used \union {g}
    /\ result' = <<live[h]>>
    /\ UNCHANGED lent

\* select_take removes every entry whose value satisfies the predicate (here,
\* the set P of values that satisfy it) and returns their values, once each.
SelectTake(P) ==
    LET chosen == {h \in DOMAIN live : live[h] \in P}
    IN  /\ live' = Without(chosen)
        /\ \E order \in Bijection(1..Cardinality(chosen), chosen) :
             result' = [i \in 1..Cardinality(chosen) |-> live[order[i]]]
        /\ UNCHANGED <<lent, used>>

Call(h) ==
    \/ \E returned \in BOOLEAN : Take(h, returned)
    \/ Park(h)
    \/ \E v \in Value : Unpark(h, v) \/ Update(h, v) \/ Replace(h, v)
    \/ h \notin DOMAIN live /\ Miss

Next ==
    \/ \E v \in Value : Insert(v) /\ asked' = {}
    \/ \E h \in Handle : Call(h) /\ asked' = {h}
    \/ \E P \in SUBSET Value : SelectTake(P) /\ asked' = {}

Spec == Init /\ [][Next]_vars
=============================================================================
