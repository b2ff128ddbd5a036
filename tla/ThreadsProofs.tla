--------------------------- MODULE ThreadsProofs ---------------------------
(***************************************************************************)
(* How the number of threads in a set of places changes when one of them   *)
(* moves.                                                                  *)
(***************************************************************************)
EXTENDS Threads, Integers, FiniteSetTheorems, TLAPS

\* There are finitely many threads anywhere.
LEMMA InFinite ==
  ASSUME NEW f, NEW S
  PROVE  IsFiniteSet(In(f, S)) /\ Cardinality(In(f, S)) \in Nat
         /\ Cardinality(In(f, S)) <= Cardinality(Thread) /\ Cardinality(Thread) \in Nat
<1>1. In(f, S) \in SUBSET Thread
  BY DEF In
<1> QED BY <1>1, FS_Subset, FS_CardinalityType, ThreadAssumption

\* A thread comes in: one more.
LEMMA InEnter ==
  ASSUME NEW f, NEW g, NEW S, NEW t \in Thread,
         f[t] \notin S, g[t] \in S, \A u \in Thread : u # t => g[u] = f[u]
  PROVE  Cardinality(In(g, S)) = Cardinality(In(f, S)) + 1
<1>1. In(g, S) = In(f, S) \cup {t} /\ t \notin In(f, S)
  BY DEF In
<1> QED BY <1>1, InFinite, FS_AddElement

\* A thread goes out: one less, and there was one.
LEMMA InLeave ==
  ASSUME NEW f, NEW g, NEW S, NEW t \in Thread,
         f[t] \in S, g[t] \notin S, \A u \in Thread : u # t => g[u] = f[u]
  PROVE  /\ Cardinality(In(g, S)) = Cardinality(In(f, S)) - 1
         /\ Cardinality(In(f, S)) > 0
<1>1. Cardinality(In(f, S)) = Cardinality(In(g, S)) + 1
  BY InEnter
<1> QED BY <1>1, InFinite

\* A thread stays in or stays out: the same.
LEMMA InStay ==
  ASSUME NEW f, NEW g, NEW S, NEW t \in Thread,
         f[t] \in S <=> g[t] \in S, \A u \in Thread : u # t => g[u] = f[u]
  PROVE  In(g, S) = In(f, S)
BY DEF In

\* Nobody anywhere, and everybody everywhere.
LEMMA InNone ==
  ASSUME NEW f, NEW S
  PROVE  Cardinality(In(f, S)) = 0 <=> \A t \in Thread : f[t] \notin S
<1>1. Cardinality(In(f, S)) = 0 <=> In(f, S) = {}
  BY InFinite, FS_EmptySet
<1> QED BY <1>1 DEF In

LEMMA InAll ==
  ASSUME NEW f, NEW S, Cardinality(In(f, S)) = Cardinality(Thread)
  PROVE  \A t \in Thread : f[t] \in S
<1>1. In(f, S) \in SUBSET Thread
  BY DEF In
<1>2. In(f, S) = Thread
  BY <1>1, FS_Subset, ThreadAssumption
<1> QED BY <1>2 DEF In

\* At most one thread there: any two are the same.
LEMMA InOne ==
  ASSUME NEW f, NEW S, Cardinality(In(f, S)) <= 1,
         NEW t \in In(f, S), NEW u \in In(f, S)
  PROVE  t = u
<1> SUFFICES ASSUME t # u PROVE FALSE
  OBVIOUS
<1>1. {t, u} \in SUBSET In(f, S) /\ IsFiniteSet(In(f, S)) /\ Cardinality(In(f, S)) \in Nat
  BY InFinite
<1>2. Cardinality({t}) = 1 /\ IsFiniteSet({t})
  BY FS_Singleton
<1>3. Cardinality({t} \cup {u}) = 2
  BY <1>2, FS_AddElement
<1>4. {t} \cup {u} = {t, u}
  OBVIOUS
<1>5. Cardinality({t, u}) <= Cardinality(In(f, S)) /\ Cardinality({t, u}) \in Nat
  BY <1>1, FS_Subset, <1>3, <1>4
<1> QED BY <1>1, <1>3, <1>4, <1>5
=============================================================================
