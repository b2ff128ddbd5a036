------------------------ MODULE LocalExecutorProofs ------------------------
(***************************************************************************)
(* Proofs about LocalExecutor, for any tasks, any steps they may make and  *)
(* any use its owner and other threads make of it:                         *)
(*   - the queue and the sleepers hold each entry at most once and only    *)
(*     with its task, and the packed registry agrees with the sleepers;    *)
(*   - the type of the state;                                              *)
(*   - the global queue is served only by an idle executor, entries are    *)
(*     bounded by the tasks, and a live task is in exactly one place;      *)
(*   - a live task is dropped only when one of its stack has failed.       *)
(* And, under hypotheses about the spawns that are named where they are    *)
(* needed, that nothing crashes, no entry is orphaned, a lifted child ends *)
(* before its parent goes on, and the executor stops only when it is done. *)
(***************************************************************************)
EXTENDS LocalExecutor, FiniteSetTheorems, TLAPS

\* The entry whose task is in hand.
Held == IF InHand THEN {current} ELSE {}

\* QueueSound, with what makes it inductive, as a relation of the entries D
\* that have a task, the number n of entries issued, the queue q, the sleepers
\* a, the entry H in hand, and the child k of a spawn in progress.
Sound(D, n, q, a, H, k) ==
    /\ n \in Nat
    /\ D \subseteq 1..n
    /\ q \in Seq(Nat)
    /\ IsInjective(q)
    /\ Range(q) \intersect a = {}
    /\ Range(q) \union a \subseteq D
    /\ H \subseteq (1..n) \ D
    /\ k # 0 => k \in (1..n) \ (Range(q) \union a)

IInv ==
    /\ Sound(DOMAIN local, issued, processing, asleep, Held, child)
    /\ ripe \subseteq asleep

-----------------------------------------------------------------------------
(* Queues.                                                                 *)

\* What pop_front leaves.
LEMMA PopFacts ==
    ASSUME NEW S, NEW q \in Seq(S), IsInjective(q), q # <<>>
    PROVE  /\ Tail(q) \in Seq(S)
           /\ IsInjective(Tail(q))
           /\ Head(q) \in Range(q)
           /\ Range(Tail(q)) = Range(q) \ {Head(q)}
<1>1. /\ Len(q) \in Nat \ {0} /\ DOMAIN q = 1..Len(q) /\ Head(q) = q[1]
      /\ Tail(q) \in Seq(S) /\ Len(Tail(q)) = Len(q) - 1
      /\ DOMAIN Tail(q) = 1..Len(q) - 1
      /\ \A i \in 1..Len(q) - 1 : Tail(q)[i] = q[i + 1]
  OBVIOUS
<1>2. IsInjective(Tail(q))
  BY <1>1 DEF IsInjective
<1>3. Head(q) \in Range(q)
  BY <1>1 DEF Range
<1>4. ASSUME NEW e \in Range(Tail(q)) PROVE e \in Range(q) \ {Head(q)}
  <2>1. PICK i \in 1..Len(q) - 1 : e = q[i + 1]
    BY <1>1, <1>4 DEF Range
  <2>2. i + 1 \in DOMAIN q /\ 1 \in DOMAIN q /\ i + 1 # 1
    BY <1>1
  <2> QED BY <1>1, <2>1, <2>2 DEF Range, IsInjective
<1>5. ASSUME NEW e \in Range(q), e # Head(q) PROVE e \in Range(Tail(q))
  <2>1. PICK i \in DOMAIN q : e = q[i]
    BY DEF Range
  <2>2. i # 1 /\ i - 1 \in 1..Len(q) - 1 /\ (i - 1) + 1 = i
    BY <1>1, <1>5, <2>1
  <2>3. Tail(q)[i - 1] = e /\ i - 1 \in DOMAIN Tail(q)
    BY <1>1, <2>1, <2>2
  <2> QED BY <2>3 DEF Range
<1> QED BY <1>1, <1>2, <1>3, <1>4, <1>5

\* What joining two queues without a common entry gives.
LEMMA JoinFacts ==
    ASSUME NEW S, NEW p \in Seq(S), NEW q \in Seq(S),
           IsInjective(p), IsInjective(q), Range(p) \intersect Range(q) = {}
    PROVE  /\ p \o q \in Seq(S)
           /\ IsInjective(p \o q)
           /\ Range(p \o q) = Range(p) \union Range(q)
<1>1. /\ Len(p) \in Nat /\ DOMAIN p = 1..Len(p)
      /\ Len(q) \in Nat /\ DOMAIN q = 1..Len(q)
      /\ p \o q \in Seq(S) /\ Len(p \o q) = Len(p) + Len(q)
      /\ DOMAIN (p \o q) = 1..Len(p) + Len(q)
  OBVIOUS
<1>2. \A i \in 1..Len(p) : (p \o q)[i] = p[i]
  OBVIOUS
<1>3. \A i \in 1..Len(q) : (p \o q)[Len(p) + i] = q[i]
  OBVIOUS
<1>4. \A i \in 1..Len(p) + Len(q) :
        i \in 1..Len(p) \/ (i - Len(p) \in 1..Len(q) /\ Len(p) + (i - Len(p)) = i)
  BY <1>1
<1>5. \A i \in 1..Len(q) : (p \o q)[Len(p) + i] \in Range(q)
  BY <1>1, <1>3 DEF Range
<1>6. \A i \in 1..Len(p) : (p \o q)[i] \in Range(p)
  BY <1>1, <1>2 DEF Range
<1>7. IsInjective(p \o q)
  <2> SUFFICES ASSUME NEW i \in 1..Len(p) + Len(q), NEW j \in 1..Len(p) + Len(q),
                      (p \o q)[i] = (p \o q)[j]
               PROVE  i = j
    BY <1>1 DEF IsInjective
  <2>1. CASE i \in 1..Len(p) /\ j \in 1..Len(p)
    BY <1>1, <1>2, <2>1 DEF IsInjective
  <2>2. CASE i \in 1..Len(p) /\ j \notin 1..Len(p)
    <3>1. (p \o q)[j] \in Range(q)
      BY <1>4, <1>5, <2>2
    <3> QED BY <1>6, <2>2, <3>1
  <2>3. CASE i \notin 1..Len(p) /\ j \in 1..Len(p)
    <3>1. (p \o q)[i] \in Range(q)
      BY <1>4, <1>5, <2>3
    <3> QED BY <1>6, <2>3, <3>1
  <2>4. CASE i \notin 1..Len(p) /\ j \notin 1..Len(p)
    <3>1. /\ i - Len(p) \in DOMAIN q /\ (p \o q)[i] = q[i - Len(p)]
          /\ j - Len(p) \in DOMAIN q /\ (p \o q)[j] = q[j - Len(p)]
      <4>1. /\ i - Len(p) \in 1..Len(q) /\ Len(p) + (i - Len(p)) = i
            /\ j - Len(p) \in 1..Len(q) /\ Len(p) + (j - Len(p)) = j
        BY <1>4, <2>4
      <4> QED BY <1>1, <1>3, <4>1
    <3>2. i - Len(p) = j - Len(p)
      BY <3>1 DEF IsInjective
    <3> QED BY <1>1, <3>2
  <2> QED BY <2>1, <2>2, <2>3, <2>4
<1>8. Range(p \o q) \subseteq Range(p) \union Range(q)
  <2> SUFFICES ASSUME NEW i \in 1..Len(p) + Len(q)
               PROVE  (p \o q)[i] \in Range(p) \union Range(q)
    BY <1>1 DEF Range
  <2>1. CASE i \in 1..Len(p)
    BY <1>6, <2>1
  <2>2. CASE i \notin 1..Len(p)
    BY <1>4, <1>5, <2>2
  <2> QED BY <2>1, <2>2
<1>9. Range(p) \subseteq Range(p \o q)
  BY <1>1, <1>2 DEF Range
<1>10. Range(q) \subseteq Range(p \o q)
  <2> SUFFICES ASSUME NEW i \in 1..Len(q) PROVE q[i] \in Range(p \o q)
    BY <1>1 DEF Range
  <2>1. Len(p) + i \in DOMAIN (p \o q)
    BY <1>1
  <2> QED BY <1>3, <2>1 DEF Range
<1> QED BY <1>1, <1>7, <1>8, <1>9, <1>10

\* What push_back of a new entry gives.
LEMMA AppendFacts ==
    ASSUME NEW S, NEW q \in Seq(S), IsInjective(q), NEW e \in S, e \notin Range(q)
    PROVE  /\ Append(q, e) \in Seq(S) /\ IsInjective(Append(q, e))
           /\ Range(Append(q, e)) = Range(q) \union {e}
<1> DEFINE one == <<e>>
<1>1. one \in Seq(S) /\ DOMAIN one = {1} /\ one[1] = e /\ Append(q, e) = q \o one
  OBVIOUS
<1> HIDE DEF one
<1>2. IsInjective(one) /\ Range(one) = {e} /\ Range(q) \intersect Range(one) = {}
  BY <1>1 DEF IsInjective, Range
<1>3. /\ q \o one \in Seq(S) /\ IsInjective(q \o one)
      /\ Range(q \o one) = Range(q) \union Range(one)
  BY <1>1, <1>2, JoinFacts
<1> QED BY <1>1, <1>2, <1>3

\* What push_front of a new entry gives.
LEMMA PrependFacts ==
    ASSUME NEW S, NEW q \in Seq(S), IsInjective(q), NEW e \in S, e \notin Range(q)
    PROVE  /\ <<e>> \o q \in Seq(S) /\ IsInjective(<<e>> \o q)
           /\ Range(<<e>> \o q) = Range(q) \union {e}
<1> DEFINE one == <<e>>
<1>1. one \in Seq(S) /\ DOMAIN one = {1} /\ one[1] = e
  OBVIOUS
<1> HIDE DEF one
<1>2. IsInjective(one) /\ Range(one) = {e} /\ Range(one) \intersect Range(q) = {}
  BY <1>1 DEF IsInjective, Range
<1>3. /\ one \o q \in Seq(S) /\ IsInjective(one \o q)
      /\ Range(one \o q) = Range(one) \union Range(q)
  BY <1>1, <1>2, JoinFacts
<1> QED BY <1>2, <1>3 DEF one

-----------------------------------------------------------------------------
(* What the executor's steps do to a sound queue.                          *)

\* EntryList::insert, with the new entry queued in front, at the back, or kept
\* aside as the child of a spawn.
LEMMA InsertSound ==
    ASSUME NEW D, NEW n, NEW q, NEW a, NEW H, NEW k,
           Sound(D, n, q, a, H, k)
    PROVE  /\ Sound(D \union {n + 1}, n + 1, q, a, H, k)
           /\ Sound(D \union {n + 1}, n + 1, q, a, H, n + 1)
           /\ Sound(D \union {n + 1}, n + 1, <<n + 1>> \o q, a, H, k)
           /\ Sound(D \union {n + 1}, n + 1, Append(q, n + 1), a, H, k)
<1>1. /\ n \in Nat /\ n + 1 \in Nat /\ n + 1 \notin 1..n
      /\ 1..n \subseteq 1..n + 1 /\ n + 1 \in 1..n + 1
  BY DEF Sound
<1>2. D \union {n + 1} \subseteq 1..n + 1 /\ n + 1 \notin Range(q) \union a
  BY <1>1 DEF Sound
<1>3. H \subseteq (1..n + 1) \ (D \union {n + 1})
  BY <1>1 DEF Sound
<1>4. k # 0 => k \in (1..n + 1) \ (Range(q) \union a \union {n + 1})
  BY <1>1 DEF Sound
<1>5. /\ <<n + 1>> \o q \in Seq(Nat) /\ IsInjective(<<n + 1>> \o q)
      /\ Range(<<n + 1>> \o q) = Range(q) \union {n + 1}
      /\ Append(q, n + 1) \in Seq(Nat) /\ IsInjective(Append(q, n + 1))
      /\ Range(Append(q, n + 1)) = Range(q) \union {n + 1}
  BY <1>1, <1>2, AppendFacts, PrependFacts DEF Sound
<1>6. Range(q) \union a \subseteq D /\ Range(q) \intersect a = {}
  BY DEF Sound
<1>7. Sound(D \union {n + 1}, n + 1, q, a, H, k)
  BY <1>1, <1>2, <1>3, <1>4 DEF Sound
<1>8. Sound(D \union {n + 1}, n + 1, q, a, H, n + 1)
  BY <1>1, <1>2, <1>3 DEF Sound
<1>9. Sound(D \union {n + 1}, n + 1, <<n + 1>> \o q, a, H, k)
  BY <1>1, <1>2, <1>3, <1>4, <1>5, <1>6 DEF Sound
<1>10. Sound(D \union {n + 1}, n + 1, Append(q, n + 1), a, H, k)
  BY <1>1, <1>2, <1>3, <1>4, <1>5, <1>6 DEF Sound
<1> QED BY <1>7, <1>8, <1>9, <1>10

\* The task in hand is given up, and the spawn of the poll no longer matters.
LEMMA ReleaseSound ==
    ASSUME NEW D, NEW n, NEW q, NEW a, NEW H, NEW k, Sound(D, n, q, a, H, k)
    PROVE  Sound(D, n, q, a, {}, k) /\ Sound(D, n, q, a, {}, 0)
BY DEF Sound

\* do_work pops the front entry, and takes its task in hand.
LEMMA PickSound ==
    ASSUME NEW D, NEW n, NEW q, NEW a, NEW H, NEW k,
           Sound(D, n, q, a, H, k), q # <<>>
    PROVE  /\ Head(q) \in D
           /\ Sound(D, n, Tail(q), a, H, k)
           /\ Sound(D \ {Head(q)}, n, Tail(q), a, {Head(q)}, k)
<1>1. /\ Tail(q) \in Seq(Nat) /\ IsInjective(Tail(q))
      /\ Head(q) \in Range(q) /\ Range(Tail(q)) = Range(q) \ {Head(q)}
  BY PopFacts DEF Sound
<1>2. Head(q) \in D /\ Head(q) \notin a
  BY <1>1 DEF Sound
<1>3. Sound(D, n, Tail(q), a, H, k)
  BY <1>1 DEF Sound
<1>4. Sound(D \ {Head(q)}, n, Tail(q), a, {Head(q)}, k)
  BY <1>1, <1>2 DEF Sound
<1> QED BY <1>2, <1>3, <1>4

\* The task in hand is unparked: its entry is queued again, or goes to sleep.
LEMMA ReturnSound ==
    ASSUME NEW D, NEW n, NEW q, NEW a, NEW c, NEW k,
           Sound(D, n, q, a, {c}, k)
    PROVE  /\ Sound(D \union {c}, n, <<c>> \o q, a, {}, 0)
           /\ Sound(D \union {c}, n, Append(q, c), a, {}, 0)
           /\ Sound(D \union {c}, n, q, a \union {c}, {}, 0)
<1>0. n \in Nat /\ c \in (1..n) \ D /\ D \subseteq 1..n /\ Range(q) \union a \subseteq D
  BY DEF Sound
<1>1. /\ n \in Nat /\ c \in Nat /\ c \in 1..n /\ c \notin Range(q) \union a
      /\ D \union {c} \subseteq 1..n
  BY <1>0
<1>2. /\ <<c>> \o q \in Seq(Nat) /\ IsInjective(<<c>> \o q)
      /\ Range(<<c>> \o q) = Range(q) \union {c}
      /\ Append(q, c) \in Seq(Nat) /\ IsInjective(Append(q, c))
      /\ Range(Append(q, c)) = Range(q) \union {c}
  BY <1>1, AppendFacts, PrependFacts DEF Sound
<1>3. Sound(D \union {c}, n, <<c>> \o q, a, {}, 0)
  BY <1>1, <1>2 DEF Sound
<1>4. Sound(D \union {c}, n, Append(q, c), a, {}, 0)
  BY <1>1, <1>2 DEF Sound
<1>5. Sound(D \union {c}, n, q, a \union {c}, {}, 0)
  BY <1>1 DEF Sound
<1> QED BY <1>3, <1>4, <1>5

\* The task in hand and that of the child become the task of a new entry.
LEMMA ComposeSound ==
    ASSUME NEW D, NEW n, NEW q, NEW a, NEW H, NEW k,
           Sound(D, n, q, a, H, k), k \in D
    PROVE  Sound((D \ {k}) \union {n + 1}, n + 1, <<n + 1>> \o q, a, {}, 0)
<1>1. k # 0
  BY DEF Sound
<1>2. Sound(D \ {k}, n, q, a, {}, 0)
  BY <1>1 DEF Sound
<1> QED BY <1>2, InsertSound

\* Queueing the ready sleepers, in any order, in front or at the back.
LEMMA WakeFacts ==
    ASSUME NEW D, NEW n, NEW q, NEW a, NEW H, NEW k,
           Sound(D, n, q, a, H, k),
           NEW r \in SUBSET a, NEW order \in Bijection(1..Cardinality(r), r)
    PROVE  /\ order \o q \in Seq(Nat) /\ IsInjective(order \o q)
           /\ Range(order \o q) = r \union Range(q)
           /\ q \o order \in Seq(Nat) /\ IsInjective(q \o order)
           /\ Range(q \o order) = Range(q) \union r
<1>0. n \in Nat /\ r \subseteq 1..n
  BY DEF Sound
<1>1. IsFiniteSet(r)
  <2>1. IsFiniteSet(1..n)
    BY <1>0, FS_Interval
  <2> QED BY <1>0, <2>1, FS_Subset
<1>2. Cardinality(r) \in Nat
  BY <1>1, FS_CardinalityType
<1>3. order \in [1..Cardinality(r) -> Nat]
  <2>1. order \in [1..Cardinality(r) -> r]
    BY DEF Bijection, Injection
  <2>2. \A e \in r : e \in Nat
    BY <1>0
  <2> QED BY <2>1, <2>2
<1>4. order \in Seq(Nat) /\ DOMAIN order = 1..Cardinality(r)
  BY <1>2, <1>3
<1>5. IsInjective(order) /\ Range(order) = r
  BY <1>4 DEF Bijection, Injection, Surjection, Range
<1>6. Range(order) \intersect Range(q) = {} /\ Range(q) \intersect Range(order) = {}
  BY <1>5 DEF Sound
<1>7. q \in Seq(Nat) /\ IsInjective(q)
  BY DEF Sound
<1>8. /\ order \o q \in Seq(Nat) /\ IsInjective(order \o q)
      /\ Range(order \o q) = r \union Range(q)
  BY <1>4, <1>5, <1>6, <1>7, JoinFacts
<1>9. /\ q \o order \in Seq(Nat) /\ IsInjective(q \o order)
      /\ Range(q \o order) = Range(q) \union r
  BY <1>4, <1>5, <1>6, <1>7, JoinFacts
<1> QED BY <1>8, <1>9

\* The ready sleepers are queued, in any order, in front or at the back.
LEMMA WakeSound ==
    ASSUME NEW D, NEW n, NEW q, NEW a, NEW H, NEW k,
           Sound(D, n, q, a, H, k),
           NEW r \in SUBSET a, NEW order \in Bijection(1..Cardinality(r), r)
    PROVE  /\ Sound(D, n, order \o q, a \ r, H, k)
           /\ Sound(D, n, q \o order, a \ r, H, k)
<1>1. /\ order \o q \in Seq(Nat) /\ IsInjective(order \o q)
      /\ Range(order \o q) = r \union Range(q)
      /\ q \o order \in Seq(Nat) /\ IsInjective(q \o order)
      /\ Range(q \o order) = Range(q) \union r
  BY WakeFacts
<1>2. Sound(D, n, order \o q, a \ r, H, k)
  BY <1>1 DEF Sound
<1>3. Sound(D, n, q \o order, a \ r, H, k)
  BY <1>1 DEF Sound
<1> QED BY <1>2, <1>3
-----------------------------------------------------------------------------
(* QueueSound.                                                             *)

\* Every engine call leaves a sound queue, whether the new entry is queued or
\* remembered as the child of the poll.
LEMMA EngineSound ==
    ASSUME IInv, NEW call, NEW u, Engine(call, u),
           NEW k, k = child \/ (call \in {"lift", "sequence"} /\ k = issued + 1)
    PROVE  Sound(DOMAIN local', issued', processing', asleep, Held, k)
<1> DEFINE D == DOMAIN local
           n == issued
<1>1. Sound(D, n, processing, asleep, Held, child)
  BY DEF IInv
<1>2. CASE call \in {"nothing", "broadcast"}
  <2>1. UNCHANGED <<local, issued, processing>> /\ k = child
    BY <1>2 DEF Engine
  <2> QED BY <1>1, <2>1
<1>3. CASE call \notin {"nothing", "broadcast"}
  <2>1. local' = With(local, n + 1, Plain(u)) /\ issued' = n + 1
    BY <1>3 DEF Engine, Inserted
  <2>2. DOMAIN local' = D \union {n + 1}
    BY <2>1 DEF With
  <2>3. CASE call = "schedule"
    <3>1. processing' = Append(processing, n + 1) /\ k = child
      BY <2>3 DEF Engine
    <3>2. Sound(D \union {n + 1}, n + 1, Append(processing, n + 1), asleep, Held, child)
      BY <1>1, InsertSound
    <3> QED BY <2>1, <2>2, <3>1, <3>2
  <2>4. CASE call = "lift_alone"
    <3>1. processing' = <<n + 1>> \o processing /\ k = child
      BY <2>4 DEF Engine
    <3>2. Sound(D \union {n + 1}, n + 1, <<n + 1>> \o processing, asleep, Held, child)
      BY <1>1, InsertSound
    <3> QED BY <2>1, <2>2, <3>1, <3>2
  <2>5. CASE call \in {"lift", "sequence"}
    <3>1. processing' = processing /\ k \in {child, n + 1}
      BY <2>5 DEF Engine
    <3>2. /\ Sound(D \union {n + 1}, n + 1, processing, asleep, Held, child)
          /\ Sound(D \union {n + 1}, n + 1, processing, asleep, Held, n + 1)
      BY <1>1, InsertSound
    <3> QED BY <2>1, <2>2, <3>1, <3>2
  <2> QED BY <1>3, <2>3, <2>4, <2>5 DEF Engine
<1> QED BY <1>2, <1>3

\* A task taken off the global queue is inserted and queued in front.
LEMMA AcquireSound ==
    ASSUME IInv, Acquire
    PROVE  Sound(DOMAIN local', issued', processing', asleep, Held, child)
<1> DEFINE D == DOMAIN local
           n == issued
<1>1. local' = With(local, n + 1, Plain(Head(global))) /\ issued' = n + 1
  BY DEF Acquire
<1>2. processing' = <<n + 1>> \o processing
  BY DEF Acquire
<1>3. DOMAIN local' = D \union {n + 1}
  BY <1>1 DEF With
<1>4. Sound(D \union {n + 1}, n + 1, <<n + 1>> \o processing, asleep, Held, child)
  BY InsertSound DEF IInv
<1> QED BY <1>1, <1>2, <1>3, <1>4

\* Nothing the queue's soundness depends on has changed, but perhaps where the
\* executor is, and no task is in hand that was not before.
LEMMA SoundKept ==
    ASSUME IInv, UNCHANGED <<local, issued, processing, asleep, ripe, child>>,
           Held' \subseteq Held
    PROVE  IInv'
<1>1. Sound(DOMAIN local, issued, processing, asleep, Held', child)
  BY DEF IInv, Sound
<1> QED BY <1>1 DEF IInv

\* The queue is empty at first.
LEMMA SoundInit == Init => IInv
<1> SUFFICES ASSUME Init PROVE IInv
  OBVIOUS
<1>1. processing = <<>> /\ Range(processing) = {} /\ IsInjective(processing)
  BY DEF Init, Range, IsInjective
<1>2. /\ DOMAIN local = {} /\ asleep = {} /\ ripe = {} /\ issued = 0 /\ child = 0
      /\ Held = {}
  BY DEF Init, InHand, Held
<1> QED BY <1>1, <1>2 DEF IInv, Sound

\* Other threads, the owner and time.
LEMMA SoundOutside == ASSUME IInv, Outside PROVE IInv'
<1>1. CASE Submit
  <2>1. Sound(DOMAIN local', issued', processing', asleep, Held, child)
    BY <1>1, EngineSound DEF Submit
  <2>2. UNCHANGED <<asleep, ripe, child>> /\ Held' = Held
    BY <1>1 DEF Submit, turn, Held, InHand
  <2> QED BY <2>1, <2>2 DEF IInv
<1>2. ASSUME NEW h \in Entries, Ripen(h) PROVE IInv'
  <2>1. UNCHANGED <<local, issued, processing, asleep, child>> /\ Held' = Held
    BY <1>2 DEF Ripen, turn, Held, InHand
  <2>2. ripe' \subseteq asleep'
    BY <1>2, <2>1 DEF Ripen, IInv
  <2> QED BY <2>1, <2>2 DEF IInv
<1>3. ASSUME NEW call \in OutsideCalls, CallOutside(call) PROVE IInv'
  <2>1. Sound(DOMAIN local', issued', processing', asleep, Held, child)
    BY <1>3, EngineSound DEF CallOutside
  <2>2. UNCHANGED <<asleep, ripe, child>> /\ Held' = Held
    BY <1>3 DEF CallOutside, turn, Held, InHand
  <2> QED BY <2>1, <2>2 DEF IInv
<1>4. ASSUME NEW key \in 1..issued, LiftOutside(key) PROVE IInv'
  <2>1. UNCHANGED <<asleep, ripe, child>> /\ Held' = Held
    BY <1>4 DEF LiftOutside, turn, Held, InHand
  <2>2. CASE Engine("lift", Newborn)
    <3>1. Sound(DOMAIN local', issued', processing', asleep, Held, child)
      BY <2>2, EngineSound
    <3> QED BY <2>1, <3>1 DEF IInv
  <2>3. CASE UNCHANGED <<local, issued, processing>>
    BY <2>1, <2>3, SoundKept
  <2> QED BY <1>4, <2>2, <2>3 DEF LiftOutside
<1> QED BY <1>1, <1>2, <1>3, <1>4 DEF Outside

\* Up to the poll: global tasks and woken sleepers are queued, the front entry
\* is popped.
LEMMA SoundBeforePoll ==
    ASSUME IInv, Run \/ Request \/ Wake \/ NothingToRun \/ PickTop
    PROVE  IInv'
<1> DEFINE D == DOMAIN local
<1>1. Sound(D, issued, processing, asleep, Held, child) /\ ripe \subseteq asleep
  BY DEF IInv
<1>2. CASE Run
  <2>1. Held' = {}
    BY <1>2 DEF Run, Held, InHand
  <2> QED BY <1>2, <2>1, SoundKept DEF Run, queues, turn
<1>3. CASE Request
  <2>1. UNCHANGED <<asleep, ripe, child>> /\ Held = {} /\ Held' = {}
    BY <1>3 DEF Request, turn, Held, InHand
  <2>2. CASE Acquire
    <3>1. Sound(DOMAIN local', issued', processing', asleep, Held, child)
      BY <2>2, AcquireSound
    <3> QED BY <1>1, <2>1, <3>1 DEF IInv
  <2>3. CASE UNCHANGED <<global, local, issued, processing>>
    BY <2>1, <2>3, SoundKept
  <2> QED BY <1>3, <2>2, <2>3 DEF Request
<1>4. CASE Wake
  <2>1. PICK order \in Bijection(1..Cardinality(ripe), ripe) :
           processing' = IF Priority = "Top" THEN order \o processing
                                             ELSE processing \o order
    BY <1>4 DEF Wake
  <2>2. /\ UNCHANGED <<local, issued, child>> /\ Held = {} /\ Held' = {}
        /\ asleep' = asleep \ ripe /\ ripe' = {}
    BY <1>4 DEF Wake, turn, Held, InHand
  <2>3. /\ Sound(D, issued, order \o processing, asleep \ ripe, Held, child)
        /\ Sound(D, issued, processing \o order, asleep \ ripe, Held, child)
    BY <1>1, WakeSound
  <2>4. Sound(D, issued, processing', asleep \ ripe, Held, child)
    BY <2>1, <2>3
  <2> QED BY <2>2, <2>4 DEF IInv
<1>5. CASE NothingToRun
  <2>1. Held' = {}
    BY <1>5 DEF NothingToRun, Held, InHand
  <2> QED BY <1>5, <2>1, SoundKept DEF NothingToRun, queues, turn
<1>6. CASE PickTop
  <2> DEFINE top == Head(processing)
  <2>1. /\ processing # <<>> /\ processing' = Tail(processing)
        /\ UNCHANGED <<asleep, ripe, issued, child>> /\ Held = {}
    BY <1>6 DEF PickTop, Held, InHand
  <2>2. /\ top \in D
        /\ Sound(D, issued, Tail(processing), asleep, Held, child)
        /\ Sound(D \ {top}, issued, Tail(processing), asleep, {top}, child)
    BY <1>1, <2>1, PickSound
  <2>3. CASE top \in packed
    <3>1. UNCHANGED local /\ Held' = {}
      BY <1>6, <2>3 DEF PickTop, Held, InHand
    <3> QED BY <1>1, <2>1, <2>2, <3>1 DEF IInv
  <2>4. CASE top \notin packed
    <3>1. local' = Without({top}) /\ Held' = {top}
      BY <1>6, <2>2, <2>4 DEF PickTop, Held, InHand
    <3>2. DOMAIN local' = D \ {top}
      BY <3>1 DEF Without
    <3> QED BY <1>1, <2>1, <2>2, <3>1, <3>2 DEF IInv
  <2> QED BY <2>3, <2>4
<1> QED BY <1>2, <1>3, <1>4, <1>5, <1>6

\* The poll: the running task may call the engine.
LEMMA SoundPoll == ASSUME IInv, Poll PROVE IInv'
<1>1. PICK m \in Moves :
        PollEnded(m[1], m[2]) \/ PollSequenced(m[1], m[2]) \/ PollReturns(m[1], m[2])
  BY DEF Poll
<1>2. Step(m[1], m[2]) /\ pc' \in {"poll", "dispatch"}
  BY <1>1 DEF PollEnded, PollSequenced, PollReturns
<1>3. /\ UNCHANGED <<asleep, ripe>> /\ Engine(m[1], Newborn)
      /\ Held' = Held
  BY <1>2 DEF Step, InHand, Held
<1>4. child' = child \/ (m[1] \in {"lift", "sequence"} /\ child' = issued + 1)
  BY <1>2 DEF Step
<1>5. Sound(DOMAIN local', issued', processing', asleep, Held, child')
  BY <1>3, <1>4, EngineSound
<1> QED BY <1>3, <1>5 DEF IInv

\* After the poll: the task in hand is dropped, unparked or composed.
LEMMA SoundDispatch == ASSUME IInv, Dispatch PROVE IInv'
<1> DEFINE D == DOMAIN local
           n == issued
<1>1. Sound(D, n, processing, asleep, Held, child) /\ ripe \subseteq asleep
  BY DEF IInv
<1>2. CASE Discard
  <2>1. UNCHANGED <<local, issued, processing, asleep, ripe>> /\ child' = 0 /\ Held' = {}
    BY <1>2 DEF Discard, queues, EndPoll, Held, InHand
  <2>2. Sound(D, n, processing, asleep, {}, 0)
    BY <1>1, ReleaseSound
  <2> QED BY <1>1, <2>1, <2>2 DEF IInv
<1>3. CASE Requeue
  <2>1. /\ Held = {current} /\ Held' = {} /\ child' = 0
        /\ UNCHANGED <<issued, asleep, ripe>>
        /\ processing' \in {Append(processing, current), <<current>> \o processing}
        /\ local' = With(local, current, hand)
    BY <1>3 DEF Requeue, EndPoll, Held, InHand
  <2>2. DOMAIN local' = D \union {current}
    BY <2>1 DEF With
  <2>3. /\ Sound(D \union {current}, n, Append(processing, current), asleep, {}, 0)
        /\ Sound(D \union {current}, n, <<current>> \o processing, asleep, {}, 0)
    BY <1>1, <2>1, ReturnSound
  <2> QED BY <1>1, <2>1, <2>2, <2>3 DEF IInv
<1>4. CASE Sleep
  <2>1. /\ Held = {current} /\ Held' = {} /\ child' = 0
        /\ UNCHANGED <<issued, processing, ripe>>
        /\ asleep' = asleep \union {current}
        /\ local' = With(local, current, hand)
    BY <1>4 DEF Sleep, EndPoll, Held, InHand
  <2>2. DOMAIN local' = D \union {current}
    BY <2>1 DEF With
  <2>3. Sound(D \union {current}, n, processing, asleep \union {current}, {}, 0)
    BY <1>1, <2>1, ReturnSound
  <2> QED BY <1>1, <2>1, <2>2, <2>3 DEF IInv
<1>5. CASE Compose
  <2>1. /\ Held' = {} /\ child' = 0 /\ child \in D
        /\ UNCHANGED <<asleep, ripe>> /\ issued' = n + 1
        /\ processing' = <<n + 1>> \o processing
    BY <1>5 DEF Compose, EndPoll, Held, InHand
  <2>2. DOMAIN local' = (D \ {child}) \union {n + 1}
    BY <1>5 DEF Compose, With, Without
  <2>3. Sound((D \ {child}) \union {n + 1}, n + 1, <<n + 1>> \o processing, asleep, {}, 0)
    BY <1>1, <2>1, ComposeSound
  <2> QED BY <1>1, <2>1, <2>2, <2>3 DEF IInv
<1>6. CASE ComposeWithoutParent
  <2>1. Held' = {}
    BY <1>6 DEF ComposeWithoutParent, Held, InHand
  <2> QED BY <1>6, <2>1, SoundKept DEF ComposeWithoutParent, queues, turn
<1> QED BY <1>2, <1>3, <1>4, <1>5, <1>6 DEF Dispatch

\* The end of a turn, and the loop around it.
LEMMA SoundAfterPoll ==
    ASSUME IInv,
           SettleProgress \/ SettleNoWorkAsleep \/ SettleNoWorkIdle \/ SettleSpin
             \/ SpinSchedule \/ Loop
    PROVE  IInv'
<1>1. Held = {} /\ Held' = {} /\ UNCHANGED <<asleep, ripe, child>>
  BY DEF SettleProgress, SettleNoWorkAsleep, SettleNoWorkIdle, SettleSpin, SpinSchedule,
         Loop, queues, turn, Held, InHand
<1>2. CASE UNCHANGED <<local, issued, processing>>
  BY <1>1, <1>2, SoundKept
<1>3. CASE Acquire
  <2>1. Sound(DOMAIN local', issued', processing', asleep, Held, child)
    BY <1>3, AcquireSound
  <2> QED BY <1>1, <2>1 DEF IInv
<1> QED BY <1>2, <1>3 DEF SettleProgress, SettleNoWorkAsleep, SettleNoWorkIdle, SettleSpin,
           SpinSchedule, Loop, queues

\* Every step preserves the invariant.
LEMMA SoundNext == IInv /\ [Next]_vars => IInv'
<1> SUFFICES ASSUME IInv, [Next]_vars PROVE IInv'
  OBVIOUS
<1>1. CASE Turn
  BY <1>1, SoundBeforePoll, SoundPoll, SoundDispatch, SoundAfterPoll DEF Turn
<1>2. CASE Outside
  BY <1>2, SoundOutside
<1>3. CASE UNCHANGED vars
  <2>1. Held' = Held
    BY <1>3 DEF vars, Held, InHand
  <2> QED BY <1>3, <2>1, SoundKept DEF vars, queues, turn
<1> QED BY <1>1, <1>2, <1>3 DEF Next

\* The conjunct of QueueSound about packed_tasks, which is inductive by itself.
PackedIffAsleep == packed = asleep

\* The steps that change packed_tasks or the sleepers change both alike.
LEMMA PackedNext == PackedIffAsleep /\ [Next]_vars => PackedIffAsleep'
<1> SUFFICES ASSUME PackedIffAsleep, [Next]_vars, ~(UNCHANGED <<packed, asleep>>)
             PROVE  packed' = asleep'
  BY DEF PackedIffAsleep
<1>1. Wake \/ Sleep
  <2>1. ~Outside
    BY DEF Outside, Submit, Ripen, CallOutside, LiftOutside
  <2>2. ~Poll
    BY DEF Poll, PollEnded, PollSequenced, PollReturns, Step
  <2>3. ~(Run \/ Request \/ NothingToRun \/ PickTop)
    BY DEF Run, Request, NothingToRun, PickTop, queues
  <2>4. ~(Discard \/ Requeue \/ Compose \/ ComposeWithoutParent)
    BY DEF Discard, Requeue, Compose, ComposeWithoutParent, queues
  <2>5. ~(SettleProgress \/ SettleNoWorkAsleep \/ SettleNoWorkIdle \/ SettleSpin
            \/ SpinSchedule \/ Loop)
    BY DEF SettleProgress, SettleNoWorkAsleep, SettleNoWorkIdle, SettleSpin,
           SpinSchedule, Loop, queues
  <2>6. ~UNCHANGED vars
    BY DEF vars, queues
  <2> QED BY <2>1, <2>2, <2>3, <2>4, <2>5, <2>6 DEF Next, Turn, Dispatch
<1> QED BY <1>1 DEF Wake, Sleep, PackedIffAsleep

\* Whatever the tasks, their composites, the owner and other threads do, no
\* entry is queued twice, queued while asleep, or queued without its task, the
\* entry being polled is nowhere else, and the packed entries are those that
\* sleep (processing, sleepers, packed_tasks and local_tasks in
\* schedule_and_do_work and the engine calls).
THEOREM QueueCorrect == Spec => []QueueSound
<1>1. IInv /\ PackedIffAsleep => QueueSound
  <2> SUFFICES ASSUME IInv, PackedIffAsleep PROVE QueueSound
    OBVIOUS
  <2>1. /\ IsInjective(processing) /\ Range(processing) \intersect asleep = {}
        /\ Range(processing) \union asleep \subseteq DOMAIN local
        /\ InHand => current \notin DOMAIN local
    BY DEF IInv, Sound, Held
  <2> QED BY <2>1 DEF QueueSound, PackedIffAsleep
<1>2. Init => PackedIffAsleep
  BY DEF Init, PackedIffAsleep
<1> QED BY <1>1, <1>2, SoundInit, SoundNext, PackedNext, PTL DEF Spec

-----------------------------------------------------------------------------
(* TypeOK.                                                                 *)

TasksTyped ==
    /\ fate \in [Task -> Fates]
    /\ fuel \in [Task -> 0..Fuel]
    /\ lifter \in [Task -> SUBSET Task]

StoreTyped ==
    /\ global \in Seq(Task) /\ Len(global) <= GlobalCap
    /\ \A h \in DOMAIN local : local[h] \in Seq(Layer) /\ local[h] # <<>>

PlaceTyped ==
    /\ current \in 0..issued
    /\ pc \in Places
    /\ remaining \in Nat
    /\ indicator \in {"none", "NoWork", "CanProgress", "SpinWait"}

\* The poll is at a layer of the stack in hand; when it has its State already
\* it has passed one that stays; and a stack that is put back has a layer left.
PollTyped ==
    /\ hand \in Seq(Layer)
    /\ at \in 0..Len(hand) + 1
    /\ yielded \in States
    /\ pc = "poll" => at \in 1..Len(hand)
    /\ pc = "poll" /\ yielded # "unset" => at >= 2
    /\ pc = "dispatch" /\ yielded \notin Final => hand # <<>>
    /\ pc \notin {"poll", "dispatch", "crashed"} => yielded = "unset"

\* TypeOK, with what makes it inductive.
Typed == TasksTyped /\ StoreTyped /\ PlaceTyped /\ PollTyped
TypeInv == IInv /\ PackedIffAsleep /\ Typed

\* What RemoveAt leaves of the stack in hand.
LEMMA RemoveTyped ==
    ASSUME NEW S, NEW s \in Seq(S), NEW i \in 1..Len(s)
    PROVE  /\ RemoveAt(s, i) \in Seq(S)
           /\ Len(RemoveAt(s, i)) = Len(s) - 1
           /\ \A j \in 1..Len(s) - 1 :
                RemoveAt(s, i)[j] = IF j < i THEN s[j] ELSE s[j + 1]
<1> DEFINE above == SubSeq(s, 1, i - 1)
           below == SubSeq(s, i + 1, Len(s))
<1>1. /\ above \in Seq(S) /\ Len(above) = i - 1
      /\ \A j \in 1..i - 1 : above[j] = s[j]
  OBVIOUS
<1>2. /\ below \in Seq(S) /\ Len(below) = Len(s) - i
      /\ \A j \in 1..Len(s) - i : below[j] = s[i + j]
  OBVIOUS
<1>3. RemoveAt(s, i) = above \o below
  BY DEF RemoveAt
<1> HIDE DEF above, below
<1>4. above \o below \in Seq(S) /\ Len(above \o below) = Len(s) - 1
  <2>1. Len(above) + Len(below) = Len(s) - 1
    BY <1>1, <1>2
  <2>2. above \in Seq(S) /\ below \in Seq(S)
    BY <1>1, <1>2
  <2>3. above \o below \in Seq(S) /\ Len(above \o below) = Len(above) + Len(below)
    BY <2>2
  <2> QED BY <2>1, <2>3
<1>5. ASSUME NEW j \in 1..Len(s) - 1, j < i PROVE (above \o below)[j] = s[j]
  BY <1>1, <1>2, <1>5
<1>6. ASSUME NEW j \in 1..Len(s) - 1, ~(j < i) PROVE (above \o below)[j] = s[j + 1]
  <2>1. /\ (above \o below)[j] = below[j - Len(above)]
        /\ j - Len(above) \in 1..Len(s) - i /\ i + (j - Len(above)) = j + 1
    BY <1>1, <1>2, <1>6
  <2> QED BY <1>2, <2>1
<1> QED BY <1>3, <1>4, <1>5, <1>6

\* A queue whose entries are in a set is a sequence over that set.
LEMMA SequenceOf ==
    ASSUME NEW S, NEW q \in Seq(Nat), Range(q) \subseteq S
    PROVE  q \in Seq(S)
<1>1. Len(q) \in Nat /\ DOMAIN q = 1..Len(q) /\ q \in [1..Len(q) -> Nat]
  OBVIOUS
<1>2. q \in [1..Len(q) -> S]
  BY <1>1 DEF Range
<1> QED BY <1>1, <1>2

\* Entries are numbers, and what the invariant says of them.
LEMMA EntriesTyped ==
    ASSUME IInv
    PROVE  /\ issued \in Nat
           /\ DOMAIN local \subseteq 1..issued
           /\ InHand => current \in 1..issued
           /\ \A h \in Range(processing) \union asleep : h \in DOMAIN local
BY DEF IInv, Sound, Held

\* A new task is one of the tasks.
LEMMA NewbornTyped == Unborn # {} => Newborn \in Task /\ fate[Newborn] = "unborn"
BY DEF Unborn, Newborn

\* EntryList::insert, unpark and the composition store a stack under one entry.
LEMMA WithTyped ==
    ASSUME NEW m, NEW h, NEW stack \in Seq(Layer), stack # <<>>,
           \A g \in DOMAIN m : m[g] \in Seq(Layer) /\ m[g] # <<>>
    PROVE  \A g \in DOMAIN With(m, h, stack) :
               With(m, h, stack)[g] \in Seq(Layer) /\ With(m, h, stack)[g] # <<>>
BY DEF With

\* A plain task is a stack of one layer.
LEMMA PlainTyped == \A t \in Task : Plain(t) \in Seq(Layer) /\ Plain(t) # <<>>
BY DEF Plain, Layer

\* Every engine call keeps the store typed and issues at most one entry.
LEMMA EngineTyped ==
    ASSUME IInv, StoreTyped, NEW call, NEW u, Engine(call, u),
           call # "nothing" => u \in Task
    PROVE  StoreTyped' /\ issued' \in {issued, issued + 1}
<1>1. CASE UNCHANGED <<local, issued, global>>
  BY <1>1 DEF StoreTyped
<1>2. CASE Inserted(u) /\ UNCHANGED global /\ u \in Task
  <2>1. local' = With(local, issued + 1, Plain(u)) /\ issued' = issued + 1
    BY <1>2 DEF Inserted
  <2>2. Plain(u) \in Seq(Layer) /\ Plain(u) # <<>>
    BY <1>2, PlainTyped
  <2>3. \A h \in DOMAIN local' : local'[h] \in Seq(Layer) /\ local'[h] # <<>>
    BY <2>1, <2>2, WithTyped DEF StoreTyped
  <2> QED BY <1>2, <2>1, <2>3 DEF StoreTyped
<1>3. CASE Push(u) /\ UNCHANGED <<local, issued>> /\ u \in Task
  <2>1. /\ global \in Seq(Task) /\ Len(global) < GlobalCap
        /\ global' = Append(global, u)
    BY <1>3 DEF Push, StoreTyped
  <2>2. global' \in Seq(Task) /\ Len(global') = Len(global) + 1
    BY <1>3, <2>1
  <2>3. Len(global') <= GlobalCap
    BY <2>1, <2>2, ExecutorAssumption
  <2> QED BY <1>3, <2>2, <2>3 DEF StoreTyped
<1> QED BY <1>1, <1>2, <1>3 DEF Engine

\* So does a task taken off the global queue.
LEMMA AcquireTyped ==
    ASSUME IInv, StoreTyped, Acquire, global # <<>>
    PROVE  StoreTyped' /\ issued' = issued + 1
<1>1. /\ Head(global) \in Task /\ Tail(global) \in Seq(Task)
      /\ Len(Tail(global)) <= GlobalCap
  BY ExecutorAssumption DEF StoreTyped
<1>2. local' = With(local, issued + 1, Plain(Head(global))) /\ issued' = issued + 1
  BY DEF Acquire
<1>3. \A h \in DOMAIN local' : local'[h] \in Seq(Layer) /\ local'[h] # <<>>
  BY <1>1, <1>2, PlainTyped, WithTyped DEF StoreTyped
<1> QED BY <1>1, <1>2, <1>3 DEF StoreTyped, Acquire

\* Nothing is in hand between polls, so entries issued there disturb nothing.
LEMMA PlaceKept ==
    ASSUME IInv, PlaceTyped, issued' \in {issued, issued + 1}, current' \in {current, 0},
           UNCHANGED remaining, pc' \in Places,
           indicator' \in {indicator, "none", "NoWork", "CanProgress", "SpinWait"}
    PROVE  PlaceTyped'
<1>1. issued \in Nat /\ issued' \in Nat /\ issued <= issued'
  BY EntriesTyped
<1>2. current' \in 0..issued'
  BY <1>1 DEF PlaceTyped
<1> QED BY <1>2 DEF PlaceTyped

\* A step that neither polls nor touches what the poll left keeps it typed.
LEMMA PollKept ==
    ASSUME PollTyped, UNCHANGED <<hand, at, yielded>>,
           pc' = pc \/ pc' = "crashed"
             \/ (pc \notin {"poll", "dispatch", "crashed"} /\ pc' \notin {"poll", "dispatch"})
    PROVE  PollTyped'
BY DEF PollTyped

\* EndPoll leaves nothing of the poll.
LEMMA PollReset ==
    ASSUME hand' = <<>>, at' = 0, yielded' = "unset", pc' = "settle"
    PROVE  PollTyped'
<1>1. hand' \in Seq(Layer) /\ Len(hand') = 0 /\ at' \in 0..Len(hand') + 1
  OBVIOUS
<1> QED BY <1>1 DEF PollTyped, States

\* Other threads, the owner and time.
LEMMA TypedOutside == ASSUME IInv, Typed, Outside PROVE Typed'
<1> USE DEF Typed
<1>1. CASE Submit
  <2>1. Newborn \in Task
    BY <1>1, NewbornTyped DEF Submit
  <2>2. StoreTyped' /\ issued' \in {issued, issued + 1}
    BY <1>1, <2>1, EngineTyped DEF Submit
  <2>3. TasksTyped'
    BY <1>1 DEF Submit, TasksTyped, Fates
  <2>4. PlaceTyped'
    BY <1>1, <2>2, PlaceKept DEF Submit, turn, PlaceTyped
  <2>5. PollTyped'
    BY <1>1, PollKept DEF Submit, turn
  <2> QED BY <2>2, <2>3, <2>4, <2>5
<1>2. ASSUME NEW h \in Entries, Ripen(h) PROVE Typed'
  <2>1. UNCHANGED <<tasks, global, local, issued, current, pc, turn, indicator>>
    BY <1>2 DEF Ripen
  <2> QED BY <2>1 DEF tasks, turn, TasksTyped, StoreTyped, PlaceTyped, PollTyped
<1>3. ASSUME NEW call \in OutsideCalls, CallOutside(call) PROVE Typed'
  <2>1. Newborn \in Task
    BY <1>3, NewbornTyped DEF CallOutside
  <2>2. StoreTyped' /\ issued' \in {issued, issued + 1}
    BY <1>3, <2>1, EngineTyped DEF CallOutside
  <2>3. LifterOf(call, Newborn, Newborn) \in SUBSET Task
    BY <2>1 DEF LifterOf
  <2>4. TasksTyped'
    BY <1>3, <2>3 DEF CallOutside, TasksTyped, Fates
  <2>5. PlaceTyped'
    BY <1>3, <2>2, PlaceKept DEF CallOutside, turn, PlaceTyped
  <2>6. PollTyped'
    BY <1>3, PollKept DEF CallOutside, turn
  <2> QED BY <2>2, <2>4, <2>5, <2>6
<1>4. ASSUME NEW key \in 1..issued, LiftOutside(key) PROVE Typed'
  <2>1. Newborn \in Task
    BY <1>4, NewbornTyped DEF LiftOutside
  <2>2. StoreTyped' /\ issued' \in {issued, issued + 1}
    <3>1. CASE Engine("lift", Newborn)
      BY <2>1, <3>1, EngineTyped
    <3>2. CASE UNCHANGED <<local, issued, global>>
      BY <3>2 DEF StoreTyped
    <3> QED BY <1>4, <3>1, <3>2 DEF LiftOutside
  <2>3. TasksTyped'
    BY <1>4 DEF LiftOutside, TasksTyped, Fates
  <2>4. PlaceTyped'
    BY <1>4, <2>2, PlaceKept DEF LiftOutside, turn, PlaceTyped, Places
  <2>5. PollTyped'
    BY <1>4, PollKept DEF LiftOutside, turn
  <2> QED BY <2>2, <2>3, <2>4, <2>5
<1> QED BY <1>1, <1>2, <1>3, <1>4 DEF Outside

\* Before and after the poll, every step but PickTop leaves the tasks and the
\* stack in hand alone, and the store but for a task taken off the global queue.
LEMMA TypedBetween ==
    ASSUME IInv, Typed,
           Run \/ Request \/ Wake \/ NothingToRun \/ ComposeWithoutParent
             \/ SettleProgress \/ SettleNoWorkAsleep \/ SettleNoWorkIdle \/ SettleSpin
             \/ SpinSchedule \/ Loop
    PROVE  Typed'
<1> USE DEF Typed
<1>1. UNCHANGED <<tasks, turn>>
  BY DEF Run, Request, Wake, NothingToRun, ComposeWithoutParent, SettleProgress,
         SettleNoWorkAsleep, SettleNoWorkIdle, SettleSpin, SpinSchedule, Loop
<1>2. StoreTyped' /\ issued' \in {issued, issued + 1}
  <2>1. CASE Acquire /\ global # <<>>
    BY <2>1, AcquireTyped
  <2>2. CASE UNCHANGED <<global, local, issued>>
    BY <2>2 DEF StoreTyped
  <2> QED BY <2>1, <2>2 DEF Run, Request, Wake, NothingToRun, ComposeWithoutParent,
         SettleProgress, SettleNoWorkAsleep, SettleNoWorkIdle, SettleSpin, SpinSchedule, Loop
<1>3. TasksTyped'
  BY <1>1 DEF tasks, TasksTyped
<1>4. /\ pc' \in Places /\ current' \in {current, 0}
      /\ pc' = "crashed" \/ (pc \notin {"poll", "dispatch", "crashed"}
                               /\ pc' \notin {"poll", "dispatch"})
  BY DEF Run, Request, Wake, NothingToRun, ComposeWithoutParent, SettleProgress,
         SettleNoWorkAsleep, SettleNoWorkIdle, SettleSpin, SpinSchedule, Loop, Places
<1>5. indicator' \in {indicator, "none", "NoWork", "CanProgress", "SpinWait"}
  BY DEF Run, Request, Wake, NothingToRun, ComposeWithoutParent, SettleProgress,
         SettleNoWorkAsleep, SettleNoWorkIdle, SettleSpin, SpinSchedule, Loop
<1>6. PlaceTyped'
  BY <1>1, <1>2, <1>4, <1>5, PlaceKept DEF turn
<1>7. PollTyped'
  BY <1>1, <1>4, PollKept DEF turn
<1> QED BY <1>2, <1>3, <1>6, <1>7

\* do_work takes the stack of the popped entry in hand.
LEMMA TypedPick == ASSUME IInv, Typed, PickTop PROVE Typed'
<1> USE DEF Typed
<1> DEFINE top == Head(processing)
<1>1. /\ UNCHANGED <<tasks, global, issued, yielded>>
      /\ pc = "work" /\ processing # <<>>
  BY DEF PickTop
<1>2. top \in DOMAIN local /\ processing \in Seq(Nat)
  BY <1>1, PickSound DEF IInv, Sound
<1>3. TasksTyped'
  BY <1>1 DEF tasks, TasksTyped
<1>4. CASE top \in packed
  <2>1. UNCHANGED <<current, remaining, hand, at, local>> /\ pc' = "settle"
        /\ indicator' = "CanProgress"
    BY <1>4 DEF PickTop
  <2>2. StoreTyped'
    BY <1>1, <2>1 DEF StoreTyped
  <2>3. PlaceTyped'
    BY <1>1, <2>1 DEF PlaceTyped, Places
  <2>4. PollTyped'
    BY <1>1, <2>1, PollKept
  <2> QED BY <1>3, <2>2, <2>3, <2>4
<1>5. CASE top \notin packed
  <2>1. /\ current' = top /\ remaining' = Len(processing) - 1
        /\ hand' = local[top] /\ at' = 1 /\ local' = Without({top})
        /\ pc' = "poll" /\ UNCHANGED indicator
    BY <1>2, <1>5 DEF PickTop
  <2>2. StoreTyped'
    BY <1>1, <2>1 DEF StoreTyped, Without
  <2>3. PlaceTyped'
    <3>1. Len(processing) - 1 \in Nat
      BY <1>1, <1>2
    <3>2. top \in 0..issued
      BY <1>2, EntriesTyped
    <3> QED BY <1>1, <2>1, <3>1, <3>2 DEF PlaceTyped, Places
  <2>4. PollTyped'
    <3>1. hand' \in Seq(Layer) /\ hand' # <<>>
      BY <1>2, <2>1 DEF StoreTyped
    <3>2. 1 \in 1..Len(hand')
      BY <3>1
    <3>3. yielded' = "unset"
      BY <1>1 DEF PollTyped
    <3> QED BY <2>1, <3>1, <3>2, <3>3 DEF PollTyped, States
  <2> QED BY <1>3, <2>2, <2>3, <2>4
<1> QED BY <1>4, <1>5

\* A step of the running task, whatever it is.
LEMMA TypedStep ==
    ASSUME IInv, Typed, NEW m \in Moves, Step(m[1], m[2]), pc' \in Places
    PROVE  TasksTyped' /\ StoreTyped' /\ PlaceTyped'
<1> USE DEF Typed
<1>1. Running \in Task
  <2>1. hand \in Seq(Layer) /\ at \in 1..Len(hand)
    BY DEF Step, PollTyped
  <2>2. hand[at] \in Layer
    BY <2>1
  <2> QED BY <2>2 DEF Running, Layer
<1>2. m[1] # "nothing" => Newborn \in Task
  BY NewbornTyped DEF Step, MayDo
<1>3. StoreTyped' /\ issued' \in {issued, issued + 1}
  BY <1>2, EngineTyped DEF Step
<1>4. fate' \in [Task -> Fates]
  <2>1. FateAfter(m[2]) \in Fates
    BY <1>1 DEF FateAfter, TasksTyped, Fates
  <2> QED BY <2>1 DEF Step, TasksTyped, Fates
<1>5. fuel' \in [Task -> 0..Fuel]
  <2>1. CASE m[2] \in Final
    BY <2>1 DEF Step, TasksTyped
  <2>2. CASE m[2] \notin Final
    <3>1. fuel[Running] \in 1..Fuel
      BY <1>1, <2>2, ExecutorAssumption DEF Step, MayDo, Final, TasksTyped
    <3>2. fuel[Running] - 1 \in 0..Fuel
      BY <3>1, ExecutorAssumption
    <3> QED BY <1>1, <2>2, <3>2 DEF Step, TasksTyped
  <2> QED BY <2>1, <2>2
<1>6. lifter' \in [Task -> SUBSET Task]
  <2>1. \A t \in Task : LifterOf(m[1], Running, t) \in SUBSET Task
    BY <1>1 DEF LifterOf
  <2> QED BY <2>1 DEF Step, TasksTyped
<1>7. PlaceTyped'
  BY <1>3, PlaceKept DEF Step
<1> QED BY <1>3, <1>4, <1>5, <1>6, <1>7 DEF TasksTyped

\* ExecutionIterator::next of the stack in hand.
LEMMA TypedPoll == ASSUME IInv, Typed, Poll PROVE Typed'
<1> USE DEF Typed
<1>1. PICK m \in Moves :
        PollEnded(m[1], m[2]) \/ PollSequenced(m[1], m[2]) \/ PollReturns(m[1], m[2])
  BY DEF Poll
<1>2. /\ Step(m[1], m[2]) /\ pc' \in {"poll", "dispatch"} /\ pc = "poll"
  BY <1>1 DEF PollEnded, PollSequenced, PollReturns, Step
<1>3. TasksTyped' /\ StoreTyped' /\ PlaceTyped'
  BY <1>2, TypedStep DEF Places
<1> SUFFICES PollTyped'
  BY <1>3
<1>4. /\ hand \in Seq(Layer) /\ Len(hand) \in Nat /\ at \in 1..Len(hand)
      /\ yielded \in States
      /\ yielded # "unset" => at >= 2
  BY <1>2 DEF PollTyped
<1>5. m[2] \in States /\ "none" \in States
  <2>1. m \in AllMoves
    BY ExecutorAssumption
  <2>2. <<"nothing", "none">> \in AllMoves
    BY DEF AllMoves
  <2> QED BY <2>1, <2>2 DEF States
<1>6. CASE PollEnded(m[1], m[2])
  <2>1. hand' \in Seq(Layer) /\ Len(hand') = Len(hand) - 1
    BY <1>4, <1>6, RemoveTyped DEF PollEnded
  <2>2. CASE at < Len(hand)
    BY <1>4, <1>6, <2>1, <2>2 DEF PollEnded, PollTyped
  <2>3. CASE ~(at < Len(hand))
    <3>1. at' = at /\ pc' = "dispatch" /\ at = Len(hand) /\ at' = Len(hand') + 1
      BY <1>4, <1>6, <2>1, <2>3 DEF PollEnded
    <3>2. CASE yielded = "unset"
      <4>1. yielded' = "none"
        BY <1>6, <2>3, <3>2 DEF PollEnded, Yield
      <4> QED BY <1>5, <2>1, <3>1, <4>1 DEF PollTyped, Final, Ends
    <3>3. CASE yielded # "unset"
      <4>1. yielded' = yielded
        BY <1>6, <2>3, <3>3 DEF PollEnded, Yield
      <4>2. Len(hand') >= 1 /\ hand' # <<>>
        BY <1>4, <2>1, <3>1, <3>3
      <4> QED BY <1>4, <2>1, <3>1, <4>1, <4>2 DEF PollTyped
    <3> QED BY <3>2, <3>3
  <2> QED BY <2>2, <2>3
<1>7. CASE PollSequenced(m[1], m[2])
  <2>1. hand' = hand /\ yielded' \in States
    BY <1>4, <1>5, <1>7 DEF PollSequenced, Yield
  <2>2. CASE at < Len(hand)
    <3>1. pc' = "poll" /\ at' = at + 1 /\ at' \in 1..Len(hand') /\ at' >= 2
      BY <1>4, <1>7, <2>1, <2>2 DEF PollSequenced
    <3> QED BY <1>4, <2>1, <3>1 DEF PollTyped
  <2>3. CASE ~(at < Len(hand))
    <3>1. pc' = "dispatch" /\ at' = at /\ hand' # <<>>
      BY <1>4, <1>7, <2>1, <2>3 DEF PollSequenced
    <3> QED BY <1>4, <2>1, <3>1 DEF PollTyped
  <2> QED BY <2>2, <2>3
<1>8. CASE PollReturns(m[1], m[2])
  <2>1. hand' = hand /\ at' = at /\ yielded' \in States /\ pc' = "dispatch" /\ hand' # <<>>
    BY <1>4, <1>5, <1>8 DEF PollReturns, Yield
  <2> QED BY <1>4, <2>1 DEF PollTyped
<1> QED BY <1>1, <1>6, <1>7, <1>8

\* After the poll: the task in hand is dropped, unparked or composed.
LEMMA TypedDispatch ==
    ASSUME IInv, Typed, Discard \/ Requeue \/ Sleep \/ Compose
    PROVE  Typed'
<1> USE DEF Typed
<1>1. /\ UNCHANGED <<global, fuel, lifter, current>>
      /\ hand' = <<>> /\ at' = 0 /\ yielded' = "unset" /\ pc' = "settle"
      /\ remaining' = 0
      /\ indicator' \in {"NoWork", "CanProgress", "SpinWait"}
  BY DEF Discard, Requeue, Sleep, Compose, EndPoll
<1>2. PollTyped'
  BY <1>1, PollReset
<1>3. fate' \in [Task -> Fates]
  BY DEF Discard, Requeue, Sleep, Compose, TasksTyped, Fates
<1>4. TasksTyped'
  BY <1>1, <1>3 DEF TasksTyped
<1>5. issued' \in {issued, issued + 1}
  BY DEF Discard, Requeue, Sleep, Compose
<1>6. PlaceTyped'
  <2>1. issued \in Nat /\ current \in 0..issued
    BY EntriesTyped DEF PlaceTyped
  <2>2. current' \in 0..issued'
    BY <1>1, <1>5, <2>1
  <2> QED BY <1>1, <2>2 DEF PlaceTyped, Places
<1>7. StoreTyped'
  <2>1. CASE Discard
    BY <2>1 DEF Discard, EndPoll, StoreTyped
  <2>2. CASE Requeue \/ Sleep
    <3>1. hand \in Seq(Layer) /\ hand # <<>>
      BY <2>2 DEF Requeue, Sleep, PollTyped, Final, Ends
    <3>2. local' = With(local, current, hand)
      BY <2>2 DEF Requeue, Sleep
    <3>3. \A h \in DOMAIN local' : local'[h] \in Seq(Layer) /\ local'[h] # <<>>
      BY <3>1, <3>2, WithTyped DEF StoreTyped
    <3> QED BY <1>1, <3>3 DEF StoreTyped
  <2>3. CASE Compose
    <3>1. PICK link \in {"finish", "dual"} :
            local' = With(Without({child}), issued + 1,
                          Over(link, local[child][1].task, hand))
      BY <2>3 DEF Compose
    <3>2. local[child][1].task \in Task
      <4>1. local[child] \in Seq(Layer) /\ local[child] # <<>>
        BY <2>3 DEF Compose, StoreTyped
      <4>2. local[child][1] \in Layer
        BY <4>1
      <4> QED BY <4>2 DEF Layer
    <3>3. [task |-> local[child][1].task, link |-> link] \in Layer
      BY <3>2 DEF Layer
    <3>4. hand \in Seq(Layer)
      BY DEF PollTyped
    <3>5. /\ Over(link, local[child][1].task, hand) \in Seq(Layer)
          /\ Over(link, local[child][1].task, hand) # <<>>
      BY <3>3, <3>4 DEF Over
    <3>6. \A h \in DOMAIN Without({child}) :
            /\ Without({child})[h] \in Seq(Layer)
            /\ Without({child})[h] # <<>>
      BY DEF Without, StoreTyped
    <3>7. \A h \in DOMAIN local' : local'[h] \in Seq(Layer) /\ local'[h] # <<>>
      BY <3>1, <3>5, <3>6, WithTyped
    <3> QED BY <1>1, <3>7 DEF StoreTyped
  <2> QED BY <2>1, <2>2, <2>3
<1> QED BY <1>2, <1>4, <1>6, <1>7

\* Every step keeps the state typed.
LEMMA TypedNext == TypeInv /\ [Next]_vars => TypeInv'
<1> SUFFICES ASSUME TypeInv, [Next]_vars PROVE Typed'
  BY SoundNext, PackedNext DEF TypeInv
<1> USE DEF TypeInv
<1>1. CASE Turn
  BY <1>1, TypedBetween, TypedPick, TypedPoll, TypedDispatch DEF Turn, Dispatch
<1>2. CASE Outside
  BY <1>2, TypedOutside
<1>3. CASE UNCHANGED vars
  BY <1>3 DEF vars, tasks, turn, Typed, TasksTyped, StoreTyped, PlaceTyped, PollTyped
<1> QED BY <1>1, <1>2, <1>3 DEF Next

\* The state has its type at first.
LEMMA TypedInit == Init => TypeInv
<1> SUFFICES ASSUME Init PROVE TypeInv
  OBVIOUS
<1>1. IInv /\ PackedIffAsleep
  BY SoundInit DEF Init, PackedIffAsleep
<1>2. TasksTyped
  BY ExecutorAssumption DEF Init, TasksTyped, Fates
<1>3. StoreTyped
  BY ExecutorAssumption DEF Init, StoreTyped
<1>4. PlaceTyped
  BY DEF Init, PlaceTyped, Places
<1>5. PollTyped
  <2>1. hand \in Seq(Layer) /\ Len(hand) = 0 /\ at = 0 /\ yielded = "unset" /\ pc = "outside"
    BY DEF Init
  <2> QED BY <2>1 DEF PollTyped, States
<1> QED BY <1>1, <1>2, <1>3, <1>4, <1>5 DEF TypeInv, Typed

\* For any tasks and any use made of the executor, its state stays within its
\* type: entries are never zero and never beyond those issued, the layer polled
\* is one of the stack in hand, the global queue never exceeds its capacity, no
\* task counts more steps than it has, and no stack without a layer is stored
\* (LocalThreadExecutor, ExecutorState, dependent_lift.rs).
THEOREM TypeCorrect == Spec => []TypeOK
<1>1. TypeInv => TypeOK
  <2> SUFFICES ASSUME TypeInv PROVE TypeOK
    OBVIOUS
  <2>1. IInv /\ PackedIffAsleep /\ TasksTyped /\ StoreTyped /\ PlaceTyped /\ PollTyped
    BY DEF TypeInv, Typed
  <2>2. /\ issued \in Nat /\ DOMAIN local \subseteq 1..issued
        /\ asleep \subseteq 1..issued /\ ripe \subseteq asleep
        /\ child \in 0..issued
    BY <2>1 DEF IInv, Sound
  <2>3. processing \in Seq(1..issued)
    <3>1. processing \in Seq(Nat) /\ Range(processing) \subseteq 1..issued
      BY <2>1 DEF IInv, Sound
    <3> QED BY <3>1, SequenceOf
  <2>4. packed \subseteq 1..issued
    BY <2>1, <2>2 DEF PackedIffAsleep
  <2> QED BY <2>1, <2>2, <2>3, <2>4
        DEF TypeOK, TasksTyped, StoreTyped, PlaceTyped, PollTyped
<1> QED BY <1>1, TypedInit, TypedNext, PTL DEF Spec

-----------------------------------------------------------------------------
(* GlobalOnlyWhenIdle.                                                     *)

\* No engine call shortens the global queue.
LEMMA EngineGlobal ==
    ASSUME StoreTyped, NEW call, NEW u \in Task, Engine(call, u)
    PROVE  Len(global) <= Len(global')
<1>1. global \in Seq(Task) /\ Len(global) \in Nat
  BY DEF StoreTyped
<1>2. CASE UNCHANGED global
  BY <1>1, <1>2
<1>3. CASE global' = Append(global, u)
  <2>1. Len(global') = Len(global) + 1
    BY <1>1, <1>3
  <2> QED BY <1>1, <2>1
<1> QED BY <1>2, <1>3 DEF Engine, Push

\* A queue of entries without a task is empty: each entry queued has its own.
LEMMA QueuedHaveTasks ==
    ASSUME IInv, processing # <<>>
    PROVE  /\ Head(processing) \in DOMAIN local \ asleep
           /\ DOMAIN local # {}
<1>1. processing \in Seq(Nat) /\ IsInjective(processing)
  BY DEF IInv, Sound
<1>2. Head(processing) \in Range(processing)
  BY <1>1, PopFacts
<1> QED BY <1>2 DEF IInv, Sound

\* Only schedule_next's acquisition shortens the global queue, and it is made
\* when nothing is queued locally.
LEMMA GlobalShrinks ==
    ASSUME TypeInv, [Next]_vars, Len(global') < Len(global)
    PROVE  processing = <<>> /\ ~InHand
<1> USE DEF TypeInv, Typed
<1>1. Len(global) \in Nat /\ global' # global
  BY DEF StoreTyped
<1>2. ~Outside
  <2>1. ASSUME NEW call, Engine(call, Newborn), Unborn # {} PROVE FALSE
    <3>1. Newborn \in Task
      BY <2>1, NewbornTyped
    <3>2. Len(global) <= Len(global')
      BY <2>1, <3>1, EngineGlobal
    <3>3. Len(global') \in Nat
      <4>1. global' \in Seq(Task)
        BY <2>1, <3>1, EngineTyped DEF StoreTyped
      <4> QED BY <4>1
    <3> QED BY <1>1, <3>2, <3>3
  <2> QED BY <1>1, <2>1 DEF Outside, Submit, Ripen, CallOutside, LiftOutside
<1>3. ~Poll
  <2> SUFFICES ASSUME Poll PROVE FALSE
    OBVIOUS
  <2>1. PICK m \in Moves : Step(m[1], m[2])
    BY DEF Poll, PollEnded, PollSequenced, PollReturns
  <2>2. CASE m[1] = "nothing"
    BY <1>1, <2>1, <2>2 DEF Step, Engine
  <2>3. CASE m[1] # "nothing"
    <3>1. Newborn \in Task /\ Engine(m[1], Newborn)
      BY <2>1, <2>3, NewbornTyped DEF Step, MayDo
    <3>2. global' \in Seq(Task)
      BY <3>1, EngineTyped DEF StoreTyped
    <3>3. Len(global) <= Len(global') /\ Len(global') \in Nat
      BY <3>1, <3>2, EngineGlobal
    <3> QED BY <1>1, <3>3
  <2> QED BY <2>2, <2>3
<1>4. ~(Run \/ Wake \/ NothingToRun \/ PickTop \/ Dispatch \/ SettleProgress
          \/ SettleNoWorkAsleep \/ SettleNoWorkIdle \/ SettleSpin \/ Loop
          \/ UNCHANGED vars)
  BY <1>1 DEF Run, Wake, NothingToRun, PickTop, Dispatch, Discard, Requeue, Sleep,
     Compose, ComposeWithoutParent, EndPoll, SettleProgress, SettleNoWorkAsleep,
     SettleNoWorkIdle, SettleSpin, Loop, vars
<1>5. (Request \/ SpinSchedule) /\ ~LocalTaskRunning
  BY <1>1, <1>2, <1>3, <1>4 DEF Next, Turn, Request, SpinSchedule
<1>6. processing = <<>>
  BY <1>5, QueuedHaveTasks DEF LocalTaskRunning
<1> QED BY <1>5, <1>6 DEF Request, SpinSchedule, InHand

\* "we will never take any new tasks from the global queue until all the entries
\* in this queue is empty": whatever tasks, owner and other threads do, a task
\* leaves the global queue only when no local entry is queued or in hand
\* (request_global_task, schedule_next and its two callers).
THEOREM GlobalOnlyWhenIdleCorrect == Spec => GlobalOnlyWhenIdle
<1>1. TypeInv /\ [Next]_vars
        => [Len(global') < Len(global) => processing = <<>> /\ ~InHand]_vars
  BY GlobalShrinks
<1> QED BY <1>1, TypedInit, TypedNext, PTL DEF Spec, GlobalOnlyWhenIdle

-----------------------------------------------------------------------------
(* EntriesBounded.                                                         *)

\* The child of a poll still has its own entry and will cost one more.
Linking == IF child # 0 THEN 1 ELSE 0

\* EntriesBounded, with what makes it inductive: two entries are kept back for
\* each task not yet spawned, one for each task in the global queue, and one
\* for the composite of the child that is to be linked in.
EntriesInv ==
    issued + 2 * Cardinality(Unborn) + Len(global) + Linking <= 2 * Cardinality(Task)

\* The numbers the bound is about.
LEMMA CountTyped ==
    ASSUME TypeInv
    PROVE  /\ issued \in Nat /\ Len(global) \in Nat
           /\ Linking \in {0, 1} /\ Linking' \in {0, 1}
           /\ IsFiniteSet(Unborn) /\ Cardinality(Unborn) \in Nat
           /\ Cardinality(Task) \in Nat
<1>1. issued \in Nat /\ global \in Seq(Task)
  BY EntriesTyped DEF TypeInv, Typed, StoreTyped
<1>2. IsFiniteSet(Unborn) /\ IsFiniteSet(Task)
  BY ExecutorAssumption, FS_Subset DEF Unborn
<1>3. Cardinality(Unborn) \in Nat /\ Cardinality(Task) \in Nat
  BY <1>2, FS_CardinalityType
<1> QED BY <1>1, <1>2, <1>3 DEF Linking

\* A task that is spawned is no longer unborn.
LEMMA BirthCount ==
    ASSUME TypeInv, Unborn # {}, Unborn' = Unborn \ {Newborn}
    PROVE  Cardinality(Unborn') = Cardinality(Unborn) - 1
<1>1. Newborn \in Unborn
  BY NewbornTyped DEF Unborn
<1>2. IsFiniteSet(Unborn)
  BY CountTyped
<1>3. Cardinality(Unborn \ {Newborn}) = Cardinality(Unborn) - 1
  BY <1>1, <1>2, FS_RemoveElement
<1> QED BY <1>3

\* An engine call takes at most two of the entries kept back for its task.
LEMMA EngineCount ==
    ASSUME TypeInv, NEW call, NEW u, Engine(call, u), call # "nothing" => u \in Task,
           child' = child \/ call \in {"lift", "sequence"}
    PROVE  /\ issued' + Len(global') + Linking'
                <= issued + Len(global) + Linking + (IF call = "nothing" THEN 0 ELSE 2)
           /\ issued' \in Nat /\ Len(global') \in Nat
<1> DEFINE spare == IF call = "nothing" THEN 0 ELSE 2
<1>0. /\ issued \in Nat /\ Len(global) \in Nat /\ global \in Seq(Task)
      /\ Linking \in {0, 1} /\ Linking' \in {0, 1}
      /\ child' = child => Linking' = Linking
  BY CountTyped DEF TypeInv, Typed, StoreTyped, Linking
<1>1. CASE call = "nothing"
  BY <1>0, <1>1 DEF Engine
<1>2. CASE call \in {"lift", "sequence"}
  <2>1. issued' = issued + 1 /\ global' = global
    BY <1>2 DEF Engine, Inserted
  <2> QED BY <1>0, <1>2, <2>1
<1>3. CASE call \in {"schedule", "lift_alone"}
  <2>1. issued' = issued + 1 /\ global' = global
    BY <1>3 DEF Engine, Inserted
  <2> QED BY <1>0, <1>3, <2>1
<1>4. CASE call = "broadcast"
  <2>1. issued' = issued /\ global' = Append(global, u)
    BY <1>4 DEF Engine, Push
  <2>2. Len(global') = Len(global) + 1
    BY <1>0, <1>4, <2>1
  <2> QED BY <1>0, <1>4, <2>1, <2>2
<1> QED BY <1>1, <1>2, <1>3, <1>4 DEF Engine

\* A task taken off the global queue uses the entry kept back for it.
LEMMA AcquireCount ==
    ASSUME TypeInv, Acquire, global # <<>>, UNCHANGED <<child, fate>>, EntriesInv
    PROVE  EntriesInv'
<1>1. /\ issued \in Nat /\ Len(global) \in Nat /\ global \in Seq(Task)
      /\ Cardinality(Unborn) \in Nat /\ Cardinality(Task) \in Nat
      /\ Linking \in {0, 1}
  BY CountTyped DEF TypeInv, Typed, StoreTyped
<1>2. issued' = issued + 1 /\ Len(global') = Len(global) - 1
  BY <1>1 DEF Acquire
<1>3. Unborn' = Unborn /\ Linking' = Linking
  BY DEF Unborn, Linking
<1> QED BY <1>1, <1>2, <1>3 DEF EntriesInv

\* A spawn by the owner, another thread or the running task.
LEMMA SpawnCount ==
    ASSUME TypeInv, EntriesInv, NEW call, Engine(call, Newborn), Unborn # {},
           Unborn' = Unborn \ {Newborn},
           child' = child \/ call \in {"lift", "sequence"}
    PROVE  EntriesInv'
<1>1. Newborn \in Task
  BY NewbornTyped
<1>2. /\ issued' + Len(global') + Linking' <= issued + Len(global) + Linking + 2
      /\ issued' \in Nat /\ Len(global') \in Nat
  <2>1. /\ issued' + Len(global') + Linking'
             <= issued + Len(global) + Linking + (IF call = "nothing" THEN 0 ELSE 2)
        /\ issued' \in Nat /\ Len(global') \in Nat
    BY <1>1, EngineCount
  <2> QED BY <2>1, CountTyped
<1>3. Cardinality(Unborn') = Cardinality(Unborn) - 1
  BY BirthCount
<1>4. issued + 2 * Cardinality(Unborn) + Len(global) + Linking <= 2 * Cardinality(Task)
  BY DEF EntriesInv
<1>5. /\ issued \in Nat /\ Len(global) \in Nat
      /\ Linking \in {0, 1} /\ Linking' \in {0, 1}
      /\ Cardinality(Unborn) \in Nat /\ Cardinality(Task) \in Nat
  BY CountTyped
<1> DEFINE b == Cardinality(Unborn)
           bn == Cardinality(Unborn')
           T == Cardinality(Task)
<1>6. b \in Nat /\ bn \in Int /\ T \in Nat /\ bn = b - 1
  BY <1>3, <1>5
<1>7. issued' + 2 * bn + Len(global') + Linking' <= 2 * T
  <2>1. Linking \in Nat /\ Linking' \in Nat /\ issued \in Nat /\ Len(global) \in Nat
    BY <1>5
  <2>2. issued + 2 * b + Len(global) + Linking <= 2 * T
    BY <1>4
  <2> HIDE DEF b, bn, T
  <2>3. issued + Len(global) + Linking + 2 <= 2 * T - 2 * bn
    BY <1>6, <2>1, <2>2
  <2>4. issued' + Len(global') + Linking' <= 2 * T - 2 * bn
    BY <1>2, <1>6, <2>1, <2>3
  <2> QED BY <1>2, <1>6, <2>1, <2>4
<1> QED BY <1>7 DEF EntriesInv

\* Nothing the bound counts has grown.
LEMMA CountKept ==
    ASSUME TypeInv, EntriesInv, UNCHANGED <<issued, global>>, Unborn' = Unborn,
           child' \in {child, 0}
    PROVE  EntriesInv'
<1>1. Linking' <= Linking
  BY DEF Linking
<1> QED BY <1>1, CountTyped DEF EntriesInv

\* Every step keeps enough entries back.
LEMMA CountNext == TypeInv /\ EntriesInv /\ [Next]_vars => EntriesInv'
<1> SUFFICES ASSUME TypeInv, EntriesInv, [Next]_vars PROVE EntriesInv'
  OBVIOUS
<1>0. fate \in [Task -> Fates]
  BY DEF TypeInv, Typed, TasksTyped
<1>1. ASSUME fate' = [fate EXCEPT ![Newborn] = "live"] PROVE Unborn' = Unborn \ {Newborn}
  BY <1>0, <1>1 DEF Unborn
<1>2. CASE Submit
  BY <1>1, <1>2, SpawnCount DEF Submit, turn
<1>3. ASSUME NEW call \in OutsideCalls, CallOutside(call) PROVE EntriesInv'
  BY <1>1, <1>3, SpawnCount DEF CallOutside, turn
<1>4. ASSUME NEW key \in 1..issued, LiftOutside(key) PROVE EntriesInv'
  <2>1. UNCHANGED child /\ Unborn # {}
    BY <1>4 DEF LiftOutside, turn
  <2>2. CASE Engine("lift", Newborn) /\ fate' = [fate EXCEPT ![Newborn] = "live"]
    BY <1>1, <2>1, <2>2, SpawnCount
  <2>3. CASE UNCHANGED <<local, issued, processing, global, fate>>
    BY <2>1, <2>3, CountKept DEF Unborn
  <2> QED BY <1>4, <2>2, <2>3 DEF LiftOutside
<1>5. CASE Poll
  <2>1. PICK m \in Moves : Step(m[1], m[2])
    BY <1>5 DEF Poll, PollEnded, PollSequenced, PollReturns
  <2>2. /\ fate[Running] # "unborn" /\ FateAfter(m[2]) # "unborn"
        /\ Engine(m[1], Newborn)
        /\ child' = child \/ m[1] \in {"lift", "sequence"}
    BY <2>1 DEF Step, MayDo, FateAfter
  <2>3. CASE m[1] = "nothing"
    <3>1. \A t \in Task : fate'[t] = IF t = Running THEN FateAfter(m[2]) ELSE fate[t]
      BY <2>1, <2>3 DEF Step, Spawns
    <3>2. Unborn' = Unborn
      BY <2>2, <3>1 DEF Unborn
    <3>3. UNCHANGED <<issued, global, child>>
      BY <2>1, <2>3 DEF Step, Engine
    <3> QED BY <3>2, <3>3, CountKept
  <2>4. CASE m[1] # "nothing"
    <3>1. Unborn # {} /\ Newborn \in Unborn
      BY <2>1, <2>4, NewbornTyped DEF Step, MayDo, Unborn
    <3>2. \A t \in Task : fate'[t] = IF t = Running THEN FateAfter(m[2])
                                     ELSE IF t = Newborn THEN "live" ELSE fate[t]
      BY <2>1, <2>4 DEF Step, Spawns
    <3>3. Newborn # Running
      BY <2>2, <3>1 DEF Unborn
    <3>4. Unborn' = Unborn \ {Newborn}
      BY <2>2, <3>2, <3>3 DEF Unborn
    <3> QED BY <2>2, <3>1, <3>4, SpawnCount
  <2> QED BY <2>3, <2>4
<1>6. CASE Request \/ SpinSchedule
  <2>1. UNCHANGED <<child, fate>>
    BY <1>6 DEF Request, SpinSchedule, turn, tasks
  <2>2. CASE Acquire /\ global # <<>>
    BY <2>1, <2>2, AcquireCount
  <2>3. CASE UNCHANGED <<global, issued>>
    BY <2>1, <2>3, CountKept DEF Unborn
  <2> QED BY <1>6, <2>2, <2>3 DEF Request, SpinSchedule
<1>7. CASE Compose
  <2>1. issued' = issued + 1 /\ child' = 0 /\ UNCHANGED <<fate, global>>
    BY <1>7 DEF Compose, EndPoll
  <2>2. Linking = 1 /\ Linking' = 0
    <3>1. child # 0
      BY <1>7, EntriesTyped DEF Compose, TypeInv
    <3> QED BY <2>1, <3>1 DEF Linking
  <2>3. Unborn' = Unborn
    BY <2>1 DEF Unborn
  <2> QED BY <2>1, <2>2, <2>3, CountTyped DEF EntriesInv
<1>8. CASE Discard
  <2>1. UNCHANGED <<issued, global>> /\ child' = 0
    BY <1>8 DEF Discard, EndPoll
  <2>2. Unborn' = Unborn
    BY <1>8 DEF Discard, Unborn
  <2> QED BY <2>1, <2>2, CountKept
<1>9. CASE \/ \E h \in Entries : Ripen(h)
           \/ Run \/ Wake \/ NothingToRun \/ PickTop \/ Requeue \/ Sleep
           \/ ComposeWithoutParent \/ SettleProgress \/ SettleNoWorkAsleep
           \/ SettleNoWorkIdle \/ SettleSpin \/ Loop \/ UNCHANGED vars
  <2>1. UNCHANGED <<issued, global, fate>> /\ child' \in {child, 0}
    BY <1>9 DEF Ripen, Run, Wake, NothingToRun, PickTop, Requeue, Sleep, EndPoll,
       ComposeWithoutParent, SettleProgress, SettleNoWorkAsleep, SettleNoWorkIdle,
       SettleSpin, Loop, vars, tasks, turn
  <2> QED BY <2>1, CountKept DEF Unborn
<1> QED BY <1>2, <1>3, <1>4, <1>5, <1>6, <1>7, <1>8, <1>9
    DEF Next, Turn, Outside, Dispatch

\* For any tasks and any use made of the executor, an executor issues at most two
\* entries per task it ever holds, however long it runs: a task keeps its entry
\* from poll to poll, and composites cost one entry each (EntryList::insert,
\* park, unpark, in do_work and the engine calls).
THEOREM EntriesBoundedCorrect == Spec => []EntriesBounded
<1>1. Init => EntriesInv
  <2> SUFFICES ASSUME Init PROVE EntriesInv
    OBVIOUS
  <2>1. Unborn = Task /\ issued = 0 /\ Len(global) = 0 /\ Linking = 0
    BY DEF Init, Unborn, Linking
  <2>2. Cardinality(Task) \in Nat
    BY ExecutorAssumption, FS_CardinalityType
  <2> QED BY <2>1, <2>2 DEF EntriesInv
<1>2. TypeInv /\ EntriesInv => EntriesBounded
  BY CountTyped DEF EntriesInv, EntriesBounded
<1> QED BY <1>1, <1>2, TypedInit, TypedNext, CountNext, PTL DEF Spec

-----------------------------------------------------------------------------
(* NoCrash.                                                                *)

\* Every spawn a task or the owner makes for a parent names one, and is made
\* while a task is in hand: the owner lifts nothing under a parent between turns,
\* and no task answers Lifted without a parent.
ParentsNamed ==
    /\ "lift" \notin OutsideCalls
    /\ <<"lift_alone", "lifted_alone">> \notin Moves

\* NoCrash, with what makes it inductive: the executor waits for its sleepers
\* with an empty queue, and no State names a child without a parent.
CrashInv ==
    /\ NoCrash
    /\ pc = "spin" => processing = <<>>
    /\ yielded # "lifted_alone"

\* A queued entry is active: total_active_tasks counts it.
LEMMA QueuedIsActive ==
    ASSUME IInv, processing # <<>>
    PROVE  ActiveTasks # 0
<1>1. DOMAIN local \subseteq 1..issued /\ issued \in Nat /\ asleep \subseteq DOMAIN local
  BY EntriesTyped
<1>2. IsFiniteSet(DOMAIN local)
  <2>1. IsFiniteSet(1..issued)
    BY <1>1, FS_Interval
  <2> QED BY <1>1, <2>1, FS_Subset
<1>3. IsFiniteSet(asleep) /\ asleep # DOMAIN local
  BY <1>1, <1>2, FS_Subset, QueuedHaveTasks
<1>4. Cardinality(asleep) # Cardinality(DOMAIN local)
  BY <1>1, <1>2, <1>3, FS_Subset
<1>5. Cardinality(asleep) \in Nat /\ Cardinality(DOMAIN local) \in Nat
  BY <1>2, <1>3, FS_CardinalityType
<1> QED BY <1>4, <1>5 DEF ActiveTasks

\* The queue only changes between the turns, in a turn's own steps, or by a task:
\* while the executor waits for its sleepers nobody else touches it.
LEMMA CrashOutside ==
    ASSUME ParentsNamed, TypeInv, CrashInv, Outside
    PROVE  CrashInv'
<1>1. CASE Submit
  BY <1>1 DEF Submit, Engine, turn, CrashInv, NoCrash
<1>2. ASSUME NEW h \in Entries, Ripen(h) PROVE CrashInv'
  BY <1>2 DEF Ripen, turn, CrashInv, NoCrash
<1>3. ASSUME NEW call \in OutsideCalls, CallOutside(call) PROVE CrashInv'
  BY <1>3 DEF CallOutside, turn, CrashInv, NoCrash
<1>4. ASSUME NEW key \in 1..issued, LiftOutside(key) PROVE CrashInv'
  BY <1>4 DEF LiftOutside, ParentsNamed
<1> QED BY <1>1, <1>2, <1>3, <1>4 DEF Outside

\* A turn.
LEMMA CrashTurn ==
    ASSUME ParentsNamed, TypeInv, CrashInv, Turn
    PROVE  CrashInv'
<1> USE DEF CrashInv, NoCrash
<1>1. CASE Request
  <2>1. processing = <<>> \/ ActiveTasks # 0
    BY QueuedIsActive DEF TypeInv
  <2> QED BY <1>1, <2>1 DEF Request, LocalTaskRunning, turn
<1>2. CASE PickTop
  <2>1. Head(processing) \in DOMAIN local
    BY <1>2, QueuedHaveTasks DEF PickTop, TypeInv
  <2> QED BY <1>2, <2>1 DEF PickTop
<1>3. CASE Poll
  <2>1. PICK m \in Moves :
          PollEnded(m[1], m[2]) \/ PollSequenced(m[1], m[2]) \/ PollReturns(m[1], m[2])
    BY <1>3 DEF Poll
  <2>2. pc' \in {"poll", "dispatch"} /\ yielded' \in {yielded, m[2], "none"}
    BY <2>1 DEF PollEnded, PollSequenced, PollReturns, Yield
  <2>3. m \in AllMoves /\ m # <<"lift_alone", "lifted_alone">>
    BY ExecutorAssumption DEF ParentsNamed
  <2>4. m[2] # "lifted_alone"
    BY <2>3 DEF AllMoves
  <2> QED BY <2>2, <2>4
<1>4. CASE Dispatch
  BY <1>4 DEF Dispatch, Discard, Requeue, Sleep, Compose, ComposeWithoutParent, EndPoll
<1>5. CASE SpinSchedule
  BY <1>5 DEF SpinSchedule, LocalTaskRunning, turn
<1>6. CASE \/ Run \/ Wake \/ NothingToRun \/ SettleProgress \/ SettleNoWorkAsleep
           \/ SettleNoWorkIdle \/ SettleSpin \/ Loop
  BY <1>6 DEF Run, Wake, NothingToRun, SettleProgress, SettleNoWorkAsleep,
     SettleNoWorkIdle, SettleSpin, Loop, turn, queues
<1> QED BY <1>1, <1>2, <1>3, <1>4, <1>5, <1>6 DEF Turn

\* When every parent is named, no unreachable!, assert! or unwrap of the executor
\* is reached, whatever tasks and other threads do (the unreachable! of
\* request_global_task and of schedule_and_do_work, do_work's assertion that an
\* entry has a task, its unwrap of the parent, and lift's of current_task).
THEOREM NoCrashCorrect == ASSUME ParentsNamed PROVE Spec => []NoCrash
<1>1. Init => CrashInv
  BY DEF Init, CrashInv, NoCrash
<1>2. TypeInv /\ CrashInv /\ [Next]_vars => CrashInv'
  <2> SUFFICES ASSUME TypeInv, CrashInv, [Next]_vars PROVE CrashInv'
    OBVIOUS
  <2>1. CASE UNCHANGED vars
    BY <2>1 DEF vars, queues, turn, CrashInv, NoCrash
  <2> QED BY <2>1, CrashOutside, CrashTurn DEF Next
<1>3. CrashInv => NoCrash
  BY DEF CrashInv
<1> QED BY <1>1, <1>2, <1>3, TypedInit, TypedNext, PTL DEF Spec

-----------------------------------------------------------------------------
(* NothingOrphaned.                                                        *)

\* A child is inserted only by a step whose State names it: its parent's own
\* step, never the owner's, nor one whose State a composite discards.
ChildrenNamed ==
    /\ "lift" \notin OutsideCalls
    /\ \A m \in DiscardedMoves : m[1] \notin {"lift", "sequence"}

\* The entries D are all in the queue q, asleep (a), or the child k.
Reached(D, q, a, k) == D \subseteq Range(q) \union a \union {k}

\* NothingOrphaned, with what makes it inductive: the child of the poll is a
\* local task, and there is one exactly when the State to dispatch links it in.
\* No entry is 0, which stands for the missing child.
OrphanInv ==
    /\ Reached(DOMAIN local, processing, asleep, child)
    /\ child # 0 => InHand /\ child \in DOMAIN local
    /\ (child # 0) <=> (yielded \in {"lifted", "sequenced"})

\* An engine call that does not put its entry aside queues it.
LEMMA EngineReached ==
    ASSUME TypeInv, NEW call, NEW u, Engine(call, u), OrphanInv,
           NEW k, k = IF call \in {"lift", "sequence"} THEN issued + 1 ELSE child,
           call \in {"lift", "sequence"} => child = 0
    PROVE  /\ Reached(DOMAIN local', processing', asleep, k)
           /\ k # 0 => k \in DOMAIN local'
           /\ k # 0 <=> (child # 0 \/ call \in {"lift", "sequence"})
<1> DEFINE n == issued + 1
<1>1. /\ processing \in Seq(Nat) /\ IsInjective(processing)
      /\ n \in Nat /\ n # 0 /\ n \notin DOMAIN local
      /\ Range(processing) \subseteq DOMAIN local
  BY EntriesTyped DEF TypeInv, IInv, Sound
<1>2. /\ Reached(DOMAIN local, processing, asleep, child)
      /\ child # 0 => child \in DOMAIN local
  BY DEF OrphanInv
<1>3. /\ Range(<<n>> \o processing) = Range(processing) \union {n}
      /\ Range(Append(processing, n)) = Range(processing) \union {n}
  BY <1>1, AppendFacts, PrependFacts
<1> HIDE DEF n
<1>4. CASE call \in {"nothing", "broadcast"}
  BY <1>2, <1>4 DEF Engine
<1>5. CASE call \notin {"nothing", "broadcast"}
  <2>1. DOMAIN local' = DOMAIN local \union {n}
    BY <1>5 DEF Engine, Inserted, With, n
  <2>2. CASE call \in {"lift", "sequence"}
    <3>1. processing' = processing /\ k = n
      BY <2>2 DEF Engine, n
    <3> QED BY <1>1, <1>2, <2>1, <2>2, <3>1 DEF Reached
  <2>3. CASE call \in {"schedule", "lift_alone"}
    <3>1. processing' \in {<<n>> \o processing, Append(processing, n)} /\ k = child
      BY <2>3 DEF Engine, n
    <3>2. Range(processing') = Range(processing) \union {n}
      BY <1>3, <3>1
    <3> QED BY <1>2, <2>1, <2>3, <3>1, <3>2 DEF Reached
  <2> QED BY <1>5, <2>2, <2>3 DEF Engine
<1> QED BY <1>4, <1>5

\* A task taken off the global queue is queued.
LEMMA AcquireReached ==
    ASSUME TypeInv, Acquire, Reached(DOMAIN local, processing, asleep, child)
    PROVE  Reached(DOMAIN local', processing', asleep, child)
<1>1. /\ processing \in Seq(Nat) /\ IsInjective(processing)
      /\ issued + 1 \in Nat /\ issued + 1 \notin Range(processing)
  BY EntriesTyped DEF TypeInv, IInv, Sound
<1>2. Range(<<issued + 1>> \o processing) = Range(processing) \union {issued + 1}
  BY <1>1, AppendFacts, PrependFacts
<1>3. /\ DOMAIN local' = DOMAIN local \union {issued + 1}
      /\ processing' = <<issued + 1>> \o processing
  BY DEF Acquire, With
<1> QED BY <1>2, <1>3 DEF Reached

\* Other threads, the owner and time.
LEMMA OrphanOutside ==
    ASSUME ChildrenNamed, TypeInv, OrphanInv, Outside
    PROVE  OrphanInv'
<1>1. CASE Submit
  BY <1>1 DEF Submit, Engine, turn, OrphanInv, InHand
<1>2. ASSUME NEW h \in Entries, Ripen(h) PROVE OrphanInv'
  BY <1>2 DEF Ripen, turn, OrphanInv, InHand
<1>3. ASSUME NEW call \in OutsideCalls, CallOutside(call) PROVE OrphanInv'
  <2>1. /\ UNCHANGED <<asleep, child, yielded, pc>> /\ Engine(call, Newborn)
        /\ call \in {"schedule", "lift_alone", "broadcast"}
        /\ ~InHand /\ ~InHand'
    BY <1>3, ExecutorAssumption DEF CallOutside, turn, InHand
  <2>2. child = 0
    BY <2>1 DEF OrphanInv
  <2>3. Reached(DOMAIN local', processing', asleep, child)
    BY <2>1, EngineReached
  <2> QED BY <2>1, <2>2, <2>3 DEF OrphanInv, Reached
<1>4. ASSUME NEW key \in 1..issued, LiftOutside(key) PROVE OrphanInv'
  BY <1>4 DEF LiftOutside, ChildrenNamed
<1> QED BY <1>1, <1>2, <1>3, <1>4 DEF Outside

\* Woken sleepers are all queued.
LEMMA WakeRange ==
    ASSUME IInv, NEW order \in Bijection(1..Cardinality(ripe), ripe)
    PROVE  /\ Range(order \o processing) = Range(processing) \union ripe
           /\ Range(processing \o order) = Range(processing) \union ripe
BY WakeFacts DEF IInv

\* ExecutionIterator::next of the stack in hand.
LEMMA OrphanPoll ==
    ASSUME ChildrenNamed, TypeInv, OrphanInv, Poll
    PROVE  OrphanInv'
<1>1. PICK m \in Moves :
        PollEnded(m[1], m[2]) \/ PollSequenced(m[1], m[2]) \/ PollReturns(m[1], m[2])
  BY DEF Poll
<1>2. /\ Step(m[1], m[2]) /\ InHand /\ InHand' /\ UNCHANGED asleep
      /\ yielded' \in {yielded, m[2], "none"}
  BY <1>1 DEF PollEnded, PollSequenced, PollReturns, Yield, Step, InHand
<1>3. m \in AllMoves /\ m = <<m[1], m[2]>>
  BY ExecutorAssumption DEF AllMoves
<1>4. m[1] \in {"lift", "sequence"} <=> m[2] \in {"lifted", "sequenced"}
  BY <1>3 DEF AllMoves
<1>5. m[1] \in {"lift", "sequence"} => yielded = "unset"
  BY <1>2, <1>3 DEF Step, MayDo, ChildrenNamed
<1>6. yielded' \in {"lifted", "sequenced"}
        <=> yielded \in {"lifted", "sequenced"} \/ m[1] \in {"lift", "sequence"}
  <2>1. CASE yielded # "unset"
    <3>1. yielded' = yielded
      BY <1>1, <2>1 DEF PollEnded, PollSequenced, PollReturns, Yield
    <3> QED BY <1>5, <2>1, <3>1
  <2>2. CASE yielded = "unset"
    <3>1. CASE m[1] \in {"lift", "sequence"}
      <4>1. m[2] \in {"lifted", "sequenced"}
        BY <1>4, <3>1
      <4>2. ~Dropped(m[2])
        BY <4>1 DEF Dropped, Ends
      <4>3. yielded' = m[2]
        BY <1>1, <2>2, <4>2 DEF PollEnded, PollSequenced, PollReturns, Yield
      <4> QED BY <3>1, <4>1, <4>3
    <3>2. CASE m[1] \notin {"lift", "sequence"}
      BY <1>2, <1>4, <2>2, <3>2
    <3> QED BY <3>1, <3>2
  <2> QED BY <2>1, <2>2
<1>7. child' = IF m[1] \in {"lift", "sequence"} THEN issued + 1 ELSE child
  BY <1>2, <1>5 DEF Step
<1>8. m[1] \in {"lift", "sequence"} => child = 0
  BY <1>5 DEF OrphanInv
<1>9. Engine(m[1], Newborn)
  BY <1>2 DEF Step
<1>10. /\ Reached(DOMAIN local', processing', asleep, child')
       /\ child' # 0 => child' \in DOMAIN local'
       /\ child' # 0 <=> (child # 0 \/ m[1] \in {"lift", "sequence"})
  BY <1>7, <1>8, <1>9, EngineReached
<1> QED BY <1>2, <1>6, <1>10 DEF OrphanInv

\* After the poll, the entry of the stack in hand is queued or asleep, or a new
\* one is queued for it and the child.
LEMMA OrphanDispatch ==
    ASSUME TypeInv, OrphanInv, Discard \/ Requeue \/ Sleep \/ Compose
    PROVE  OrphanInv'
<1>1. child' = 0 /\ yielded' = "unset" /\ InHand
  BY DEF Discard, Requeue, Sleep, Compose, EndPoll, InHand
<1>2. /\ processing \in Seq(Nat) /\ IsInjective(processing) /\ issued + 1 \in Nat
      /\ current \in Nat /\ current \notin Range(processing)
      /\ issued + 1 \notin Range(processing)
  BY <1>1, EntriesTyped DEF TypeInv, IInv, Sound, Held
<1>3. CASE ~Compose
  <2>1. child = 0
    BY <1>3 DEF OrphanInv, Discard, Requeue, Sleep, Final, Ends
  <2>2. CASE Discard
    BY <1>1, <2>1, <2>2 DEF Discard, queues, OrphanInv, Reached
  <2>3. CASE Requeue
    <3>1. /\ processing' \in {Append(processing, current), <<current>> \o processing}
          /\ DOMAIN local' = DOMAIN local \union {current} /\ UNCHANGED asleep
      BY <2>3 DEF Requeue, With
    <3>2. /\ Range(<<current>> \o processing) = Range(processing) \union {current}
          /\ Range(Append(processing, current)) = Range(processing) \union {current}
      BY <1>2, AppendFacts, PrependFacts
    <3>3. Range(processing') = Range(processing) \union {current}
      BY <3>1, <3>2
    <3> QED BY <1>1, <2>1, <3>1, <3>3 DEF OrphanInv, Reached
  <2>4. CASE Sleep
    <3>1. /\ UNCHANGED processing /\ asleep' = asleep \union {current}
          /\ DOMAIN local' = DOMAIN local \union {current}
      BY <2>4 DEF Sleep, With
    <3> QED BY <1>1, <2>1, <3>1 DEF OrphanInv, Reached
  <2> QED BY <1>3, <2>2, <2>3, <2>4
<1>4. CASE Compose
  <2>1. /\ processing' = <<issued + 1>> \o processing /\ UNCHANGED asleep
        /\ DOMAIN local' = (DOMAIN local \ {child}) \union {issued + 1}
    BY <1>4 DEF Compose, With, Without
  <2>2. Range(processing') = Range(processing) \union {issued + 1}
    BY <1>2, <2>1, AppendFacts, PrependFacts
  <2> QED BY <1>1, <2>1, <2>2 DEF OrphanInv, Reached
<1> QED BY <1>3, <1>4

\* The rest of a turn.
LEMMA OrphanBetween ==
    ASSUME TypeInv, OrphanInv,
           \/ Run \/ Request \/ Wake \/ NothingToRun \/ PickTop \/ ComposeWithoutParent
           \/ SettleProgress \/ SettleNoWorkAsleep \/ SettleNoWorkIdle \/ SettleSpin
           \/ SpinSchedule \/ Loop
    PROVE  OrphanInv'
<1>1. UNCHANGED <<child, yielded>> /\ child = 0
  BY DEF OrphanInv, InHand, Run, Request, Wake, NothingToRun, PickTop, SettleProgress,
         ComposeWithoutParent, SettleNoWorkAsleep, SettleNoWorkIdle, SettleSpin,
         SpinSchedule, Loop, turn
<1> SUFFICES Reached(DOMAIN local', processing', asleep', child)
  BY <1>1 DEF OrphanInv
<1>2. Reached(DOMAIN local, processing, asleep, child)
  BY DEF OrphanInv
<1>3. processing \in Seq(Nat) /\ IsInjective(processing)
  BY DEF TypeInv, IInv, Sound
<1>4. CASE UNCHANGED <<local, processing, asleep>>
  BY <1>2, <1>4
<1>5. CASE Acquire /\ UNCHANGED asleep
  BY <1>2, <1>5, AcquireReached
<1>6. CASE Wake
  <2>1. PICK order \in Bijection(1..Cardinality(ripe), ripe) :
           processing' = IF Priority = "Top" THEN order \o processing
                                             ELSE processing \o order
    BY <1>6 DEF Wake
  <2>2. Range(processing') = Range(processing) \union ripe
    BY <1>3, <2>1, WakeRange DEF TypeInv
  <2>3. UNCHANGED local /\ asleep' = asleep \ ripe
    BY <1>6 DEF Wake
  <2> QED BY <1>2, <2>2, <2>3 DEF Reached
<1>7. CASE PickTop
  <2>1. UNCHANGED asleep /\ processing # <<>> /\ processing' = Tail(processing)
    BY <1>7 DEF PickTop
  <2>2. Head(processing) \in DOMAIN local \ asleep /\ packed = asleep
    BY <2>1, QueuedHaveTasks DEF TypeInv, PackedIffAsleep
  <2>3. DOMAIN local' = DOMAIN local \ {Head(processing)}
    BY <1>7, <2>2 DEF PickTop, Without
  <2>4. Range(processing') = Range(processing) \ {Head(processing)}
    BY <1>3, <2>1, PopFacts
  <2> QED BY <1>2, <2>1, <2>3, <2>4 DEF Reached
<1> QED BY <1>4, <1>5, <1>6, <1>7
        DEF Run, Request, NothingToRun, ComposeWithoutParent, SettleProgress,
            SettleNoWorkAsleep, SettleNoWorkIdle, SettleSpin, SpinSchedule, Loop, queues

\* Every step keeps every local task within reach.
LEMMA OrphanNext ==
    ASSUME ChildrenNamed PROVE TypeInv /\ OrphanInv /\ [Next]_vars => OrphanInv'
<1> SUFFICES ASSUME TypeInv, OrphanInv, [Next]_vars PROVE OrphanInv'
  OBVIOUS
<1>1. CASE UNCHANGED vars
  BY <1>1 DEF vars, queues, turn, OrphanInv, InHand
<1> QED BY <1>1, OrphanOutside, OrphanPoll, OrphanDispatch, OrphanBetween
        DEF Next, Turn, Dispatch

\* There is no local task at first.
LEMMA OrphanInit == Init => OrphanInv
BY DEF Init, OrphanInv, Reached

\* When children are named, every local task can be reached, whatever the tasks
\* and other threads do: it is queued, asleep, or the child that the State being
\* dispatched links in (do_work's cases, the engine calls of a step, and the
\* composite's discarding of its parent's State).
THEOREM OrphanCorrect == ASSUME ChildrenNamed PROVE Spec => []NothingOrphaned
<1>1. TypeInv /\ OrphanInv => NothingOrphaned
  <2>1. TypeInv => 0 \notin DOMAIN local
    BY EntriesTyped DEF TypeInv
  <2> QED BY <2>1 DEF OrphanInv, NothingOrphaned, Reached
<1>2. TypeInv /\ OrphanInv /\ [Next]_vars => OrphanInv'
  BY OrphanNext
<1> QED BY <1>1, <1>2, OrphanInit, TypedInit, TypedNext, PTL DEF Spec

-----------------------------------------------------------------------------
(* StopsOnlyWhenDone.                                                      *)

\* Nothing reaches the global queue (with two tasks there do_work answers NoWork
\* for the first, and the loop stops), and a step whose State do_work drops, a
\* task's last one or one under a composite, spawns nothing: do_work judges by
\* the queue as it was before the poll.
SpawnsLocally ==
    /\ ~Others /\ "broadcast" \notin OutsideCalls
    /\ \A m \in Moves : m[1] # "broadcast" /\ (m[1] # "nothing" => m[2] \notin Final)
    /\ \A m \in DiscardedMoves : m[1] = "nothing"

\* What makes StopsOnlyWhenDone hold of every step: remaining_tasks is the length
\* of the queue as long as a last State may be dispatched, an executor that found
\* nothing to do has nothing queued, and one whose turn ended so has no task.
StopInv ==
    /\ global = <<>>
    /\ InHand /\ yielded \in Final \union {"unset"} => Len(processing) = remaining
    /\ pc = "settle" /\ indicator = "NoWork" => processing = <<>>
    /\ pc = "spin" => indicator = "SpinWait"
    /\ pc = "loop" /\ indicator = "NoWork" => DOMAIN local = {}

\* An executor without active or sleeping tasks has none.
LEMMA NoneActive ==
    ASSUME IInv, ActiveTasks = 0, asleep = {}
    PROVE  DOMAIN local = {}
<1>1. DOMAIN local \subseteq 1..issued /\ issued \in Nat
  BY EntriesTyped
<1>2. IsFiniteSet(1..issued)
  BY <1>1, FS_Interval
<1>3. IsFiniteSet(DOMAIN local)
  BY <1>1, <1>2, FS_Subset
<1>4. Cardinality(DOMAIN local) \in Nat /\ Cardinality(asleep) = 0
  BY <1>3, FS_CardinalityType, FS_EmptySet
<1>5. Cardinality(DOMAIN local) = 0
  BY <1>4 DEF ActiveTasks
<1> QED BY <1>3, <1>5, FS_EmptySet

\* The owner calls only between turns; time matters to none of this.
LEMMA StopOutside ==
    ASSUME SpawnsLocally, ChildrenNamed, TypeInv, StopInv, Outside
    PROVE  StopInv'
<1>1. ASSUME NEW h \in Entries, Ripen(h) PROVE StopInv'
  BY <1>1 DEF Ripen, turn, StopInv, InHand
<1>2. ASSUME NEW call \in OutsideCalls, CallOutside(call) PROVE StopInv'
  <2>1. global' = global
    BY <1>2 DEF CallOutside, Engine, SpawnsLocally
  <2> QED BY <1>2, <2>1 DEF CallOutside, StopInv, InHand
<1> QED BY <1>1, <1>2 DEF Outside, Submit, LiftOutside, SpawnsLocally, ChildrenNamed

\* A task that may still turn out to be dropped has spawned nothing in this poll.
LEMMA StopPoll ==
    ASSUME SpawnsLocally, TypeInv, StopInv, Poll
    PROVE  StopInv'
<1>1. PICK m \in Moves :
        PollEnded(m[1], m[2]) \/ PollSequenced(m[1], m[2]) \/ PollReturns(m[1], m[2])
  BY DEF Poll
<1>2. Step(m[1], m[2]) /\ InHand /\ pc' \in {"poll", "dispatch"} /\ UNCHANGED remaining
  BY <1>1 DEF PollEnded, PollSequenced, PollReturns, Step, InHand
<1>3. global' = global
  BY <1>2 DEF Step, Engine, SpawnsLocally
<1>4. CASE m[1] = "nothing"
  <2>1. UNCHANGED processing
    BY <1>2, <1>4 DEF Step, Engine
  <2>2. yielded' \in Final \union {"unset"} => yielded \in Final \union {"unset"}
    BY <1>1 DEF PollEnded, PollSequenced, PollReturns, Yield
  <2> QED BY <1>2, <1>3, <2>1, <2>2 DEF StopInv
<1>5. CASE m[1] # "nothing"
  <2>1. /\ yielded = "unset" /\ m[2] \notin Final /\ m \in AllMoves
        /\ ~Dropped(m[2])
    BY <1>2, <1>5, ExecutorAssumption
       DEF Step, MayDo, SpawnsLocally, Dropped, Final, Ends
  <2>2. yielded' = m[2]
    BY <1>1, <2>1 DEF PollEnded, PollSequenced, PollReturns, Yield
  <2>3. m[2] # "unset"
    BY <2>1 DEF AllMoves
  <2> QED BY <1>2, <1>3, <2>1, <2>2, <2>3 DEF StopInv
<1> QED BY <1>4, <1>5

\* The rest of a turn.
LEMMA StopTurn ==
    ASSUME SpawnsLocally, TypeInv, StopInv, OrphanInv, Turn, ~Poll
    PROVE  StopInv'
<1> USE DEF StopInv
<1>1. CASE Request
  <2>1. UNCHANGED <<global, local, issued, processing>>
    BY <1>1 DEF Request
  <2>2. pc' = "loop" => DOMAIN local = {}
    BY <1>1, NoneActive DEF Request, TypeInv
  <2> QED BY <1>1, <2>1, <2>2 DEF Request, InHand
<1>2. CASE PickTop
  <2>1. processing \in Seq(Nat) /\ processing # <<>> /\ processing' = Tail(processing)
    BY <1>2 DEF PickTop, TypeInv, IInv, Sound
  <2>2. Len(processing') = Len(processing) - 1
    BY <2>1
  <2> QED BY <1>2, <2>2 DEF PickTop, InHand
<1>3. CASE Discard
  <2>1. Len(processing) = remaining /\ processing \in Seq(Nat)
    BY <1>3 DEF Discard, InHand, TypeInv, IInv, Sound
  <2>2. remaining = 0 => processing = <<>>
    BY <2>1
  <2> QED BY <1>3, <2>2 DEF Discard, EndPoll, InHand, queues
<1>4. CASE Requeue \/ Sleep \/ Compose \/ ComposeWithoutParent
  BY <1>4 DEF Requeue, Sleep, Compose, ComposeWithoutParent, EndPoll, InHand
<1>5. CASE SettleNoWorkIdle
  <2>1. processing = <<>> /\ asleep = {} /\ child = 0
    BY <1>5 DEF SettleNoWorkIdle, OrphanInv, InHand
  <2>2. DOMAIN local \subseteq {0}
    BY <2>1 DEF OrphanInv, Reached, Range
  <2>3. DOMAIN local = {}
    BY <2>2, EntriesTyped DEF TypeInv
  <2> QED BY <1>5, <2>3 DEF SettleNoWorkIdle, InHand, queues
<1>6. CASE \/ Run \/ Wake \/ NothingToRun \/ SettleProgress \/ SettleNoWorkAsleep
           \/ SettleSpin \/ SpinSchedule \/ Loop
  BY <1>6 DEF Run, Wake, NothingToRun, SettleProgress, SettleNoWorkAsleep, SettleSpin,
     SpinSchedule, Loop, InHand, queues
<1> QED BY <1>1, <1>2, <1>3, <1>4, <1>5, <1>6 DEF Turn, Dispatch

\* When every task is spawned onto the local queue by a step that is not its
\* spawner's last, block_until_finished gives control back only when no task is
\* left to run (block_until_finished, do_work's remaining_tasks == 0, and the
\* ProgressIndicator of schedule_and_do_work).
THEOREM StopsOnlyWhenDoneCorrect ==
    ASSUME SpawnsLocally, ChildrenNamed PROVE Spec => StopsOnlyWhenDone
<1>1. Init => StopInv
  BY DEF Init, StopInv, InHand
<1>2. TypeInv /\ OrphanInv /\ StopInv /\ [Next]_vars => StopInv'
  <2> SUFFICES ASSUME TypeInv, OrphanInv, StopInv, [Next]_vars PROVE StopInv'
    OBVIOUS
  <2>1. CASE UNCHANGED vars
    BY <2>1 DEF vars, queues, turn, StopInv, InHand
  <2> QED BY <2>1, StopOutside, StopPoll, StopTurn DEF Next
<1>3. StopInv /\ [Next]_vars
        => [(Driver = "until_finished" /\ pc = "loop" /\ pc' = "outside")
              => (DOMAIN local = {} /\ global = <<>>)]_vars
  <2> SUFFICES ASSUME StopInv, [Next]_vars, Driver = "until_finished",
                      pc = "loop", pc' = "outside"
               PROVE  DOMAIN local = {} /\ global = <<>>
    OBVIOUS
  <2>1. ~Outside /\ ~Poll /\ ~Dispatch /\ ~UNCHANGED vars
    BY DEF Outside, Submit, Ripen, CallOutside, LiftOutside, Poll, PollEnded,
       PollSequenced, PollReturns, Step, Dispatch, Discard, Requeue, Sleep, Compose,
       ComposeWithoutParent, vars
  <2>2. Loop
    BY <2>1 DEF Next, Turn, Run, Request, Wake, NothingToRun, PickTop, SettleProgress,
       SettleNoWorkAsleep, SettleNoWorkIdle, SettleSpin, SpinSchedule
  <2> QED BY <2>2 DEF Loop, MayStop, StopInv
<1>4. TypeInv /\ OrphanInv /\ [Next]_vars => OrphanInv'
  BY OrphanNext
<1> QED BY <1>1, <1>2, <1>3, <1>4, OrphanInit, TypedInit, TypedNext, PTL
        DEF Spec, StopsOnlyWhenDone

-----------------------------------------------------------------------------
(* LiveTasksHeldOnce.                                                      *)

\* The tasks of a stack, and of every stack of a store.
TasksOf(s) == {s[i].task : i \in DOMAIN s}
TasksUnder(l) == [h \in DOMAIN l |-> TasksOf(l[h])]

\* No task has two layers of a stack.
Apart(s) == \A i, j \in DOMAIN s : s[i].task = s[j].task => i = j

Live == {t \in Task : fate[t] = "live"}

\* Where tasks are, as a relation of the tasks G in the global queue, those K of
\* the stack in hand, those of the local tasks (L), the unborn U and the live V.
Placed(G, K, L, U, V) ==
    /\ G \intersect K = {}
    /\ \A h \in DOMAIN L : L[h] \intersect (G \union K) = {}
    /\ \A g, h \in DOMAIN L : g # h => L[g] \intersect L[h] = {}
    /\ U \intersect (G \union K) = {} /\ \A h \in DOMAIN L : U \intersect L[h] = {}
    /\ \A t \in V : t \in G \union K \/ \E h \in DOMAIN L : t \in L[h]

\* The map m without h.
Minus(m, h) == [g \in DOMAIN m \ {h} |-> m[g]]

\* LiveTasksHeldOnce, with what makes it inductive: no task is in two places or
\* twice in one, the unborn are nowhere, a child is one plain task until it is
\* linked in, and a stack is in hand only around a poll.
HeldInv ==
    /\ Placed(Range(global), TasksOf(hand), TasksUnder(local), Unborn, Live)
    /\ IsInjective(global) /\ Apart(hand) /\ \A h \in DOMAIN local : Apart(local[h])
    /\ child \in DOMAIN local => Len(local[child]) = 1
    /\ pc \notin {"poll", "dispatch", "crashed"} => hand = <<>>

-----------------------------------------------------------------------------
(* Tasks on the move.                                                      *)

\* A new task is inserted under a new entry, or pushed to the global queue.
LEMMA SpawnPlaced ==
    ASSUME NEW G, NEW K, NEW L, NEW U, NEW V, Placed(G, K, L, U, V),
           NEW u \in U, NEW n, n \notin DOMAIN L
    PROVE  /\ Placed(G, K, With(L, n, {u}), U \ {u}, V \union {u})
           /\ Placed(G \union {u}, K, L, U \ {u}, V \union {u})
<1> DEFINE M == With(L, n, {u})
<1>1. /\ DOMAIN M = DOMAIN L \union {n} /\ M[n] = {u}
      /\ \A h \in DOMAIN L : M[h] = L[h]
  BY DEF With
<1> HIDE DEF M
<1>2. Placed(G, K, M, U \ {u}, V \union {u})
  <2>1. \A h \in DOMAIN M : M[h] \intersect (G \union K) = {}
    BY <1>1 DEF Placed
  <2>2. \A g, h \in DOMAIN M : g # h => M[g] \intersect M[h] = {}
    BY <1>1 DEF Placed
  <2>3. \A h \in DOMAIN M : (U \ {u}) \intersect M[h] = {}
    BY <1>1 DEF Placed
  <2>4. \A t \in V \union {u} : t \in G \union K \/ \E h \in DOMAIN M : t \in M[h]
    BY <1>1 DEF Placed
  <2> QED BY <2>1, <2>2, <2>3, <2>4 DEF Placed
<1>3. Placed(G \union {u}, K, L, U \ {u}, V \union {u})
  BY DEF Placed
<1> QED BY <1>2, <1>3 DEF M

\* A task of the global queue is inserted under a new entry.
LEMMA AcquirePlaced ==
    ASSUME NEW G, NEW K, NEW L, NEW U, NEW V, Placed(G, K, L, U, V),
           NEW x \in G, NEW n, n \notin DOMAIN L
    PROVE  Placed(G \ {x}, K, With(L, n, {x}), U, V)
<1> DEFINE M == With(L, n, {x})
<1>1. /\ DOMAIN M = DOMAIN L \union {n} /\ M[n] = {x}
      /\ \A h \in DOMAIN L : M[h] = L[h]
  BY DEF With
<1> HIDE DEF M
<1>2. \A h \in DOMAIN M : M[h] \intersect ((G \ {x}) \union K) = {}
  BY <1>1 DEF Placed
<1>3. \A g, h \in DOMAIN M : g # h => M[g] \intersect M[h] = {}
  BY <1>1 DEF Placed
<1>4. \A h \in DOMAIN M : U \intersect M[h] = {}
  BY <1>1 DEF Placed
<1>5. \A t \in V : t \in (G \ {x}) \union K \/ \E h \in DOMAIN M : t \in M[h]
  BY <1>1 DEF Placed
<1>6. Placed(G \ {x}, K, M, U, V)
  BY <1>2, <1>3, <1>4, <1>5 DEF Placed
<1> QED BY <1>6 DEF M

\* The stack of an entry is taken in hand.
LEMMA PickPlaced ==
    ASSUME NEW G, NEW L, NEW U, NEW V, Placed(G, {}, L, U, V), NEW h \in DOMAIN L
    PROVE  Placed(G, L[h], Minus(L, h), U, V)
<1>1. /\ DOMAIN Minus(L, h) = DOMAIN L \ {h}
      /\ \A g \in DOMAIN L \ {h} : Minus(L, h)[g] = L[g]
  BY DEF Minus
<1> QED BY <1>1 DEF Placed

\* The stack in hand goes under an entry that has none.
LEMMA ReturnPlaced ==
    ASSUME NEW G, NEW K, NEW L, NEW U, NEW V, Placed(G, K, L, U, V),
           NEW n, n \notin DOMAIN L
    PROVE  Placed(G, {}, With(L, n, K), U, V)
<1>1. /\ DOMAIN With(L, n, K) = DOMAIN L \union {n} /\ With(L, n, K)[n] = K
      /\ \A h \in DOMAIN L : With(L, n, K)[h] = L[h]
  BY DEF With
<1> QED BY <1>1 DEF Placed

\* The stack of an entry is added to the one in hand.
LEMMA JoinPlaced ==
    ASSUME NEW G, NEW K, NEW L, NEW U, NEW V, Placed(G, K, L, U, V), NEW h \in DOMAIN L
    PROVE  Placed(G, L[h] \union K, Minus(L, h), U, V)
<1>1. /\ DOMAIN Minus(L, h) = DOMAIN L \ {h}
      /\ \A g \in DOMAIN L \ {h} : Minus(L, h)[g] = L[g]
  BY DEF Minus
<1> QED BY <1>1 DEF Placed

\* Tasks in hand that are no longer live may go, and live ones may end.
LEMMA EndPlaced ==
    ASSUME NEW G, NEW K, NEW L, NEW U, NEW V, Placed(G, K, L, U, V),
           NEW W \in SUBSET V, NEW J \in SUBSET K, \A t \in K : t \in W => t \in J
    PROVE  Placed(G, J, L, U, W)
BY DEF Placed

-----------------------------------------------------------------------------
(* Tasks of stacks.                                                        *)

\* The stores that insertion, taking and composition make.
LEMMA UnderFacts ==
    ASSUME NEW l, NEW h, NEW s
    PROVE  /\ DOMAIN TasksUnder(l) = DOMAIN l
           /\ TasksUnder(With(l, h, s)) = With(TasksUnder(l), h, TasksOf(s))
           /\ TasksUnder(Minus(l, h)) = Minus(TasksUnder(l), h)
           /\ h \in DOMAIN l => TasksUnder(l)[h] = TasksOf(l[h])
BY DEF TasksUnder, With, Minus

\* A plain task, and a task linked over a stack.
LEMMA StackFacts ==
    ASSUME NEW t \in Task, NEW s \in Seq(Layer), NEW link \in {"finish", "dual"}
    PROVE  /\ TasksOf(Plain(t)) = {t} /\ Apart(Plain(t)) /\ Len(Plain(t)) = 1
           /\ TasksOf(Over(link, t, s)) = {t} \union TasksOf(s)
           /\ Apart(s) /\ t \notin TasksOf(s) => Apart(Over(link, t, s))
<1>1. TasksOf(Plain(t)) = {t} /\ Apart(Plain(t)) /\ Len(Plain(t)) = 1
  BY DEF TasksOf, Apart, Plain
<1> DEFINE o == Over(link, t, s)
<1>2. /\ Len(o) = Len(s) + 1 /\ DOMAIN o = 1..Len(s) + 1 /\ DOMAIN s = 1..Len(s)
      /\ Len(s) \in Nat
      /\ o[1] = [task |-> t, link |-> link]
      /\ \A i \in 1..Len(s) : o[i + 1] = s[i]
  <2>1. <<[task |-> t, link |-> link]>> \in Seq(Layer)
    BY DEF Layer
  <2> QED BY <2>1 DEF Over
<1>3. o[1].task = t /\ \A i \in 1..Len(s) : o[i + 1].task = s[i].task
  BY <1>2
<1>4. \A i \in 2..Len(s) + 1 : i - 1 \in 1..Len(s) /\ o[i].task = s[i - 1].task
  <2> TAKE i \in 2..Len(s) + 1
  <2>1. i - 1 \in 1..Len(s) /\ (i - 1) + 1 = i
    BY <1>2
  <2> QED BY <1>3, <2>1
<1> HIDE DEF o
<1>5. TasksOf(o) \subseteq {t} \union TasksOf(s)
  <2> SUFFICES ASSUME NEW i \in 1..Len(s) + 1 PROVE o[i].task \in {t} \union TasksOf(s)
    BY <1>2 DEF TasksOf
  <2>1. CASE i = 1
    BY <1>3, <2>1
  <2>2. CASE i \in 2..Len(s) + 1
    BY <1>2, <1>4, <2>2 DEF TasksOf
  <2> QED BY <1>2, <2>1, <2>2
<1>6. {t} \union TasksOf(s) \subseteq TasksOf(o)
  <2>1. t \in TasksOf(o)
    BY <1>2, <1>3 DEF TasksOf
  <2>2. ASSUME NEW i \in 1..Len(s) PROVE s[i].task \in TasksOf(o)
    <3>1. i + 1 \in DOMAIN o /\ o[i + 1].task = s[i].task
      BY <1>2, <1>3
    <3> QED BY <3>1 DEF TasksOf
  <2> QED BY <1>2, <2>1, <2>2 DEF TasksOf
<1>7. ASSUME Apart(s), t \notin TasksOf(s) PROVE Apart(o)
  <2> SUFFICES ASSUME NEW i \in 1..Len(s) + 1, NEW j \in 1..Len(s) + 1,
                      o[i].task = o[j].task
               PROVE  i = j
    BY <1>2 DEF Apart
  <2>1. \A k \in 2..Len(s) + 1 : o[k].task # t
    BY <1>2, <1>4, <1>7 DEF TasksOf
  <2>2. CASE i = 1 \/ j = 1
    BY <1>2, <1>3, <2>1, <2>2
  <2>3. CASE i \in 2..Len(s) + 1 /\ j \in 2..Len(s) + 1
    <3>1. i - 1 \in DOMAIN s /\ j - 1 \in DOMAIN s /\ s[i - 1].task = s[j - 1].task
      BY <1>2, <1>4, <2>3
    <3>2. i - 1 = j - 1
      BY <1>7, <3>1 DEF Apart
    <3> QED BY <3>2
  <2> QED BY <1>2, <2>2, <2>3
<1> QED BY <1>1, <1>5, <1>6, <1>7 DEF o

\* The layer that ends is removed.
LEMMA RemoveApart ==
    ASSUME NEW s \in Seq(Layer), Apart(s), NEW i \in 1..Len(s)
    PROVE  /\ Apart(RemoveAt(s, i))
           /\ TasksOf(RemoveAt(s, i)) = TasksOf(s) \ {s[i].task}
<1> DEFINE r == RemoveAt(s, i)
           from(j) == IF j < i THEN j ELSE j + 1
<1>1. /\ Len(s) \in Nat /\ DOMAIN s = 1..Len(s) /\ DOMAIN r = 1..Len(s) - 1
      /\ \A j \in 1..Len(s) - 1 : from(j) \in (1..Len(s)) \ {i} /\ r[j] = s[from(j)]
  <2>1. /\ r \in Seq(Layer) /\ Len(r) = Len(s) - 1
        /\ \A j \in 1..Len(s) - 1 : r[j] = IF j < i THEN s[j] ELSE s[j + 1]
    BY RemoveTyped
  <2>2. \A j \in 1..Len(s) - 1 : from(j) \in (1..Len(s)) \ {i}
    OBVIOUS
  <2> HIDE DEF r
  <2> QED BY <2>1, <2>2
<1>2. \A k \in (1..Len(s)) \ {i} : \E j \in 1..Len(s) - 1 : from(j) = k
  <2> TAKE k \in (1..Len(s)) \ {i}
  <2>1. CASE k < i
    <3>1. k \in 1..Len(s) - 1 /\ from(k) = k
      BY <2>1
    <3> QED BY <3>1
  <2>2. CASE i < k
    <3>1. k - 1 \in 1..Len(s) - 1 /\ from(k - 1) = k
      BY <1>1, <2>2
    <3> QED BY <3>1
  <2> QED BY <1>1, <2>1, <2>2
<1>3. \A j, k \in 1..Len(s) - 1 : from(j) = from(k) => j = k
  BY <1>1
<1> HIDE DEF r, from
<1>4. Apart(r)
  BY <1>1, <1>3 DEF Apart
<1>5. TasksOf(r) \subseteq TasksOf(s) \ {s[i].task}
  BY <1>1 DEF Apart, TasksOf
<1>6. TasksOf(s) \ {s[i].task} \subseteq TasksOf(r)
  <2> SUFFICES ASSUME NEW k \in (1..Len(s)) \ {i} PROVE s[k].task \in TasksOf(r)
    BY <1>1 DEF TasksOf
  <2>1. PICK j \in 1..Len(s) - 1 : from(j) = k
    BY <1>2
  <2> QED BY <1>1, <2>1 DEF TasksOf
<1> QED BY <1>4, <1>5, <1>6 DEF r

-----------------------------------------------------------------------------
(* Every step keeps tasks in one place.                                    *)

\* What an engine call leaves under each entry: what was there, and the new task
\* under the new entry.
LEMMA EngineStore ==
    ASSUME TypeInv, NEW call, NEW u, Engine(call, u)
    PROVE  /\ DOMAIN local \subseteq DOMAIN local'
           /\ \A h \in DOMAIN local : local'[h] = local[h]
           /\ \A h \in DOMAIN local' \ DOMAIN local : h = issued + 1 /\ local'[h] = Plain(u)
<1>1. CASE local' = local
  BY <1>1
<1>2. CASE Inserted(u)
  <2>1. local' = With(local, issued + 1, Plain(u)) /\ issued + 1 \notin DOMAIN local
    BY <1>2, EntriesTyped DEF Inserted, TypeInv
  <2> QED BY <2>1 DEF With
<1> QED BY <1>1, <1>2 DEF Engine

\* An engine call puts its task, and no other, in a place.
LEMMA EngineHeld ==
    ASSUME TypeInv, HeldInv, NEW call, NEW u, Engine(call, u),
           call # "nothing" => u \in Unborn,
           NEW U, U = (IF call = "nothing" THEN Unborn ELSE Unborn \ {u}),
           NEW V, V = (IF call = "nothing" THEN Live ELSE Live \union {u})
    PROVE  /\ Placed(Range(global'), TasksOf(hand), TasksUnder(local'), U, V)
           /\ IsInjective(global') /\ \A h \in DOMAIN local' : Apart(local'[h])
           /\ child \in DOMAIN local' => Len(local'[child]) = 1
           /\ issued + 1 \in DOMAIN local' => Len(local'[issued + 1]) = 1
<1> DEFINE G == Range(global)
           K == TasksOf(hand)
           L == TasksUnder(local)
           n == issued + 1
<1>1. /\ Placed(G, K, L, Unborn, Live) /\ IsInjective(global)
      /\ \A h \in DOMAIN local : Apart(local[h])
      /\ child \in DOMAIN local => Len(local[child]) = 1
  BY DEF HeldInv
<1>2. n \notin DOMAIN local /\ n \notin DOMAIN L /\ global \in Seq(Task)
  BY EntriesTyped DEF TypeInv, Typed, StoreTyped, TasksUnder
<1>3. u \in Unborn => TasksOf(Plain(u)) = {u} /\ Apart(Plain(u)) /\ Len(Plain(u)) = 1
  BY DEF TasksOf, Apart, Plain
<1>4. /\ \A h \in DOMAIN local' : Apart(local'[h])
      /\ child \in DOMAIN local' => Len(local'[child]) = 1
      /\ issued + 1 \in DOMAIN local' => Len(local'[issued + 1]) = 1
  <2>1. CASE call = "nothing"
    BY <1>1, <1>2, <2>1 DEF Engine
  <2>2. CASE call # "nothing"
    BY <1>1, <1>2, <1>3, <2>2, EngineStore
  <2> QED BY <2>1, <2>2
<1>5. CASE call = "nothing"
  BY <1>1, <1>4, <1>5 DEF Engine
<1>6. CASE call \in {"schedule", "lift_alone", "lift", "sequence"}
  <2>1. local' = With(local, n, Plain(u)) /\ global' = global /\ u \in Unborn
    BY <1>6 DEF Engine, Inserted
  <2>2. TasksUnder(local') = With(L, n, {u})
    <3>1. TasksUnder(With(local, n, Plain(u))) = With(L, n, TasksOf(Plain(u)))
      BY UnderFacts
    <3> QED BY <1>3, <2>1, <3>1
  <2>3. Placed(G, K, With(L, n, {u}), Unborn \ {u}, Live \union {u})
    BY <1>1, <1>2, <2>1, SpawnPlaced
  <2> QED BY <1>1, <1>4, <1>6, <2>1, <2>2, <2>3
<1>7. CASE call = "broadcast"
  <2>1. local' = local /\ global' = Append(global, u) /\ u \in Unborn /\ u \in Task
    BY <1>7 DEF Engine, Push, Unborn
  <2>2. u \notin Range(global)
    BY <1>1, <2>1 DEF Placed
  <2>3. IsInjective(Append(global, u)) /\ Range(Append(global, u)) = G \union {u}
    BY <1>1, <1>2, <2>1, <2>2, AppendFacts
  <2>4. Placed(G \union {u}, K, L, Unborn \ {u}, Live \union {u})
    BY <1>1, <1>2, <2>1, SpawnPlaced
  <2> QED BY <1>1, <1>4, <1>7, <2>1, <2>3, <2>4
<1> QED BY <1>5, <1>6, <1>7 DEF Engine

\* A task taken off the global queue is put under its entry.
LEMMA AcquireHeld ==
    ASSUME TypeInv, HeldInv, Acquire, global # <<>>, UNCHANGED <<fate, hand, child>>,
           pc' \notin {"poll", "dispatch", "crashed"} => pc \notin {"poll", "dispatch", "crashed"}
    PROVE  HeldInv'
<1> DEFINE G == Range(global)
           K == TasksOf(hand)
           L == TasksUnder(local)
           n == issued + 1
           x == Head(global)
<1>1. Placed(G, K, L, Unborn, Live) /\ IsInjective(global)
  BY DEF HeldInv
<1>2. n \notin DOMAIN local /\ n \notin DOMAIN L /\ global \in Seq(Task)
  BY EntriesTyped DEF TypeInv, Typed, StoreTyped, TasksUnder
<1>3. /\ IsInjective(Tail(global)) /\ x \in G /\ Range(Tail(global)) = G \ {x}
  BY <1>1, <1>2, PopFacts
<1>4. TasksOf(Plain(x)) = {x} /\ Apart(Plain(x)) /\ Len(Plain(x)) = 1
  BY DEF TasksOf, Apart, Plain
<1>5. global' = Tail(global) /\ local' = With(local, n, Plain(x))
  BY DEF Acquire
<1>6. TasksUnder(local') = With(L, n, {x})
  <2>1. TasksUnder(With(local, n, Plain(x))) = With(L, n, TasksOf(Plain(x)))
    BY UnderFacts
  <2> QED BY <1>4, <1>5, <2>1
<1>7. Placed(Range(global'), TasksOf(hand'), TasksUnder(local'), Unborn', Live')
  <2>1. Placed(G \ {x}, K, With(L, n, {x}), Unborn, Live)
    BY <1>1, <1>2, <1>3, AcquirePlaced
  <2>2. Unborn' = Unborn /\ Live' = Live
    BY DEF Unborn, Live
  <2> QED BY <1>3, <1>5, <1>6, <2>1, <2>2
<1>8. /\ \A h \in DOMAIN local' : Apart(local'[h])
      /\ child' \in DOMAIN local' => Len(local'[child']) = 1
  BY <1>4, <1>5 DEF HeldInv, With
<1> QED BY <1>3, <1>5, <1>7, <1>8 DEF HeldInv

\* Nothing that holds a task has changed.
LEMMA HeldKept ==
    ASSUME HeldInv, UNCHANGED <<fate, global, local, hand, child>>,
           pc' \notin {"poll", "dispatch", "crashed"} => pc \notin {"poll", "dispatch", "crashed"}
    PROVE  HeldInv'
<1>1. Unborn' = Unborn /\ Live' = Live
  BY DEF Unborn, Live
<1> QED BY <1>1 DEF HeldInv

\* A spawn by the owner or another thread.
LEMMA SpawnHeld ==
    ASSUME TypeInv, HeldInv, NEW call, call # "nothing", Engine(call, Newborn),
           Unborn # {}, fate' = [fate EXCEPT ![Newborn] = "live"],
           UNCHANGED <<hand, child, pc>>
    PROVE  HeldInv'
<1>1. Newborn \in Unborn /\ fate \in [Task -> Fates]
  BY NewbornTyped DEF Unborn, TypeInv, Typed, TasksTyped
<1>2. Unborn' = Unborn \ {Newborn} /\ Live' = Live \union {Newborn}
  BY <1>1 DEF Unborn, Live
<1>3. /\ Placed(Range(global'), TasksOf(hand), TasksUnder(local'), Unborn', Live')
      /\ IsInjective(global') /\ \A h \in DOMAIN local' : Apart(local'[h])
      /\ child \in DOMAIN local' => Len(local'[child]) = 1
  BY <1>1, <1>2, EngineHeld
<1> QED BY <1>3 DEF HeldInv

\* Other threads, the owner and time.
LEMMA HeldOutside == ASSUME TypeInv, HeldInv, Outside PROVE HeldInv'
<1>1. CASE Submit
  BY <1>1, SpawnHeld DEF Submit, turn
<1>2. ASSUME NEW h \in Entries, Ripen(h) PROVE HeldInv'
  BY <1>2, HeldKept DEF Ripen, tasks, turn
<1>3. ASSUME NEW call \in OutsideCalls, CallOutside(call) PROVE HeldInv'
  <2>1. call # "nothing"
    BY ExecutorAssumption
  <2> QED BY <1>3, <2>1, SpawnHeld DEF CallOutside, turn
<1>4. ASSUME NEW key \in 1..issued, LiftOutside(key) PROVE HeldInv'
  <2>1. UNCHANGED <<hand, child>> /\ Unborn # {}
    BY <1>4 DEF LiftOutside, turn
  <2>2. CASE /\ Engine("lift", Newborn) /\ UNCHANGED pc
             /\ fate' = [fate EXCEPT ![Newborn] = "live"]
    BY <2>1, <2>2, SpawnHeld
  <2>3. CASE pc' = "crashed" /\ UNCHANGED <<local, issued, processing, global, fate>>
    BY <2>1, <2>3, HeldKept
  <2> QED BY <1>4, <2>2, <2>3 DEF LiftOutside
<1> QED BY <1>1, <1>2, <1>3, <1>4 DEF Outside

\* The step of the running task: its own task keeps its place or ends, the
\* spawned one gets its.
LEMMA HeldPoll == ASSUME TypeInv, HeldInv, Poll PROVE HeldInv'
<1> DEFINE K == TasksOf(hand)
<1>1. PICK m \in Moves :
        PollEnded(m[1], m[2]) \/ PollSequenced(m[1], m[2]) \/ PollReturns(m[1], m[2])
  BY DEF Poll
<1>2. /\ Step(m[1], m[2]) /\ pc' \in {"poll", "dispatch"}
      /\ hand \in Seq(Layer) /\ at \in 1..Len(hand)
  BY <1>1 DEF PollEnded, PollSequenced, PollReturns, Step, TypeInv, Typed, PollTyped
<1>3. Running \in Task /\ Running \in K
  <2>1. hand[at] \in Layer /\ at \in DOMAIN hand
    BY <1>2
  <2> QED BY <2>1 DEF Running, Layer, TasksOf
<1>4. /\ Engine(m[1], Newborn)
      /\ m[1] # "nothing" => Newborn \in Unborn
      /\ fate \in [Task -> Fates] /\ fate[Running] # "unborn"
      /\ FateAfter(m[2]) # "unborn"
      /\ FateAfter(m[2]) = "live" => fate[Running] = "live"
  BY <1>2, NewbornTyped
     DEF Step, MayDo, FateAfter, Unborn, TypeInv, Typed, TasksTyped
<1> DEFINE U == IF m[1] = "nothing" THEN Unborn ELSE Unborn \ {Newborn}
           V == IF m[1] = "nothing" THEN Live ELSE Live \union {Newborn}
<1>5. /\ Placed(Range(global'), K, TasksUnder(local'), U, V)
      /\ IsInjective(global') /\ \A h \in DOMAIN local' : Apart(local'[h])
      /\ child \in DOMAIN local' => Len(local'[child]) = 1
      /\ issued + 1 \in DOMAIN local' => Len(local'[issued + 1]) = 1
  BY <1>4, EngineHeld
<1>6. \A t \in Task : fate'[t] = IF t = Running THEN FateAfter(m[2])
                                 ELSE IF m[1] # "nothing" /\ t = Newborn THEN "live"
                                 ELSE fate[t]
  BY <1>2 DEF Step, Spawns
<1>7. Unborn' = U
  <2>1. m[1] # "nothing" => Newborn # Running
    BY <1>4 DEF Unborn
  <2> QED BY <1>3, <1>4, <1>6, <2>1 DEF Unborn
<1>8. Live' \subseteq V
  BY <1>4, <1>6 DEF Live
<1>9. child' \in DOMAIN local' => Len(local'[child']) = 1
  BY <1>2, <1>5 DEF Step
<1>10. CASE hand' = hand
  <2>1. Placed(Range(global'), K, TasksUnder(local'), U, Live')
    BY <1>5, <1>8, EndPlaced
  <2> QED BY <1>2, <1>5, <1>7, <1>9, <1>10, <2>1 DEF HeldInv
<1>11. CASE PollEnded(m[1], m[2])
  <2>1. hand' = RemoveAt(hand, at) /\ m[2] \in Ends
    BY <1>11 DEF PollEnded, Dropped, Ends
  <2>2. Apart(hand') /\ TasksOf(hand') = K \ {Running}
    BY <1>2, <2>1, RemoveApart DEF HeldInv, Running
  <2>3. Running \notin Live'
    <3>1. fate'[Running] # "live"
      BY <1>3, <1>6, <2>1 DEF FateAfter
    <3> QED BY <3>1 DEF Live
  <2>4. Placed(Range(global'), K \ {Running}, TasksUnder(local'), U, Live')
    BY <1>5, <1>8, <2>3, EndPlaced
  <2> QED BY <1>2, <1>5, <1>7, <1>9, <2>2, <2>4 DEF HeldInv
<1> QED BY <1>1, <1>10, <1>11 DEF PollSequenced, PollReturns

\* do_work takes the stack of the popped entry in hand.
LEMMA HeldPick == ASSUME TypeInv, HeldInv, PickTop PROVE HeldInv'
<1> DEFINE top == Head(processing)
           L == TasksUnder(local)
<1>1. UNCHANGED <<fate, global, child, issued>> /\ pc = "work" /\ processing # <<>>
  BY DEF PickTop, tasks
<1>2. top \in DOMAIN local
  BY <1>1, QueuedHaveTasks DEF TypeInv
<1>3. CASE top \in packed
  BY <1>1, <1>3, HeldKept DEF PickTop
<1>4. CASE top \notin packed
  <2>1. hand' = local[top] /\ local' = Minus(local, top) /\ pc' = "poll"
    BY <1>2, <1>4 DEF PickTop, Without, Minus
  <2>2. TasksOf(hand) = {}
    BY <1>1 DEF HeldInv, TasksOf
  <2>3. Placed(Range(global), L[top], Minus(L, top), Unborn, Live)
    <3>1. top \in DOMAIN L /\ Placed(Range(global), {}, L, Unborn, Live)
      BY <1>2, <2>2 DEF HeldInv, TasksUnder
    <3> QED BY <3>1, PickPlaced
  <2>4. L[top] = TasksOf(hand') /\ Minus(L, top) = TasksUnder(local')
    <3>1. L[top] = TasksOf(local[top]) /\ TasksUnder(Minus(local, top)) = Minus(L, top)
      BY <1>2, UnderFacts
    <3> QED BY <2>1, <3>1
  <2>5. Unborn' = Unborn /\ Live' = Live
    BY <1>1 DEF Unborn, Live
  <2>6. Placed(Range(global'), TasksOf(hand'), TasksUnder(local'), Unborn', Live')
    BY <1>1, <2>3, <2>4, <2>5
  <2>7. /\ Apart(hand') /\ \A h \in DOMAIN local' : Apart(local'[h])
        /\ child' \in DOMAIN local' => Len(local'[child']) = 1
    BY <1>1, <1>2, <2>1 DEF HeldInv, Minus
  <2> QED BY <1>1, <2>1, <2>6, <2>7 DEF HeldInv
<1> QED BY <1>3, <1>4

\* After the poll the tasks in hand go under one entry, alone or with the child's,
\* or are dropped.
LEMMA HeldDispatch ==
    ASSUME TypeInv, HeldInv, Discard \/ Requeue \/ Sleep \/ Compose
    PROVE  HeldInv'
<1> DEFINE G == Range(global)
           K == TasksOf(hand)
           L == TasksUnder(local)
<1>1. /\ hand' = <<>> /\ child' = 0 /\ UNCHANGED global /\ InHand
  BY DEF Discard, Requeue, Sleep, Compose, EndPoll, InHand
<1>2. /\ Placed(G, K, L, Unborn, Live) /\ Apart(hand) /\ DOMAIN L = DOMAIN local
      /\ \A h \in DOMAIN local : Apart(local[h])
  BY DEF HeldInv, TasksUnder
<1>3. TasksOf(hand') = {} /\ Apart(hand') /\ 0 \notin DOMAIN local'
  <2>1. 0 \notin DOMAIN local'
    <3>1. TypeInv'
      BY TypedNext DEF Next, Turn, Dispatch
    <3>2. IInv' => 0 \notin DOMAIN local'
      BY DEF IInv, Sound
    <3> QED BY <3>1, <3>2 DEF TypeInv
  <2> QED BY <1>1, <2>1 DEF TasksOf, Apart
<1> SUFFICES /\ Placed(G, {}, TasksUnder(local'), Unborn', Live')
             /\ \A h \in DOMAIN local' : Apart(local'[h])
  BY <1>1, <1>3 DEF HeldInv
<1>4. current \notin DOMAIN local /\ issued + 1 \notin DOMAIN local
  BY <1>1, EntriesTyped DEF TypeInv, IInv, Sound, Held
<1>5. CASE Discard
  <2>1. local' = local /\ \A t \in Task : fate'[t] = IF fate[t] = "live" /\ t \in K
                                                      THEN "dropped" ELSE fate[t]
    BY <1>5 DEF Discard, TasksOf
  <2>2. Unborn' = Unborn /\ Live' = Live \ K
    BY <2>1 DEF Unborn, Live
  <2>3. Placed(G, {}, L, Unborn, Live \ K)
    BY <1>2, EndPlaced
  <2> QED BY <1>2, <2>1, <2>2, <2>3
<1>6. CASE Requeue \/ Sleep
  <2>1. local' = With(local, current, hand) /\ UNCHANGED fate
    BY <1>6 DEF Requeue, Sleep
  <2>2. TasksUnder(local') = With(L, current, K)
    <3>1. TasksUnder(With(local, current, hand)) = With(L, current, K)
      BY UnderFacts
    <3> QED BY <2>1, <3>1
  <2>3. Placed(G, {}, With(L, current, K), Unborn, Live)
    BY <1>2, <1>4, ReturnPlaced
  <2>4. Unborn' = Unborn /\ Live' = Live
    BY <2>1 DEF Unborn, Live
  <2>5. \A h \in DOMAIN local' : Apart(local'[h])
    BY <1>2, <2>1 DEF With
  <2> QED BY <2>2, <2>3, <2>4, <2>5
<1>7. CASE Compose
  <2> DEFINE M == Minus(local, child)
             n == issued + 1
             t == local[child][1].task
  <2>1. PICK link \in {"finish", "dual"} :
          local' = With(Without({child}), issued + 1, Over(link, t, hand))
    BY <1>7 DEF Compose
  <2>2. /\ child \in DOMAIN local /\ UNCHANGED fate
        /\ local' = With(M, n, Over(link, t, hand))
    BY <1>7, <2>1 DEF Compose, Without, Minus
  <2>3. L[child] = {t} /\ t \in Task
    <3>1. /\ Len(local[child]) = 1 /\ local[child] \in Seq(Layer)
          /\ L[child] = TasksOf(local[child])
      BY <2>2 DEF HeldInv, TypeInv, Typed, StoreTyped, TasksUnder
    <3>2. DOMAIN local[child] = {1} /\ local[child][1] \in Layer
      BY <3>1
    <3> QED BY <3>1, <3>2 DEF TasksOf, Layer
  <2>4. t \notin K
    BY <1>2, <2>2, <2>3 DEF Placed
  <2>5. /\ TasksOf(Over(link, t, hand)) = {t} \union K
        /\ Apart(Over(link, t, hand))
    BY <1>2, <2>3, <2>4, StackFacts DEF TypeInv, Typed, PollTyped
  <2>6. Placed(G, {t} \union K, Minus(L, child), Unborn, Live)
    BY <1>2, <2>2, <2>3, JoinPlaced
  <2>7. Placed(G, {}, With(Minus(L, child), n, {t} \union K), Unborn, Live)
    <3>1. n \notin DOMAIN Minus(L, child)
      BY <1>2, <1>4 DEF Minus
    <3> QED BY <2>6, <3>1, ReturnPlaced
  <2>8. TasksUnder(local') = With(Minus(L, child), n, {t} \union K)
    <3>1. /\ TasksUnder(With(M, n, Over(link, t, hand)))
               = With(TasksUnder(M), n, TasksOf(Over(link, t, hand)))
          /\ TasksUnder(M) = Minus(L, child)
      BY UnderFacts
    <3> QED BY <2>2, <2>5, <3>1
  <2>9. Unborn' = Unborn /\ Live' = Live
    BY <2>2 DEF Unborn, Live
  <2>10. \A h \in DOMAIN local' : Apart(local'[h])
    BY <1>2, <2>2, <2>5 DEF With, Minus
  <2> QED BY <2>7, <2>8, <2>9, <2>10
<1> QED BY <1>5, <1>6, <1>7

\* Every step keeps every task in one place.
LEMMA HeldNext == TypeInv /\ HeldInv /\ [Next]_vars => HeldInv'
<1> SUFFICES ASSUME TypeInv, HeldInv, [Next]_vars PROVE HeldInv'
  OBVIOUS
<1>1. CASE Request \/ SpinSchedule
  <2>1. /\ UNCHANGED <<fate, hand, child>> /\ pc \notin {"poll", "dispatch", "crashed"}
    BY <1>1 DEF Request, SpinSchedule, tasks, turn
  <2>2. CASE Acquire /\ global # <<>>
    BY <2>1, <2>2, AcquireHeld
  <2>3. CASE UNCHANGED <<global, local>>
    BY <2>1, <2>3, HeldKept
  <2> QED BY <1>1, <2>2, <2>3 DEF Request, SpinSchedule
<1>2. CASE \/ Run \/ Wake \/ NothingToRun \/ ComposeWithoutParent \/ SettleProgress
           \/ SettleNoWorkAsleep \/ SettleNoWorkIdle \/ SettleSpin \/ Loop
           \/ UNCHANGED vars
  BY <1>2, HeldKept DEF Run, Wake, NothingToRun, ComposeWithoutParent, SettleProgress,
     SettleNoWorkAsleep, SettleNoWorkIdle, SettleSpin, Loop, vars, tasks, turn
<1> QED BY <1>1, <1>2, HeldOutside, HeldPoll, HeldPick, HeldDispatch
        DEF Next, Turn, Dispatch

\* There is no task anywhere at first.
LEMMA HeldInit == Init => HeldInv
<1> SUFFICES ASSUME Init PROVE HeldInv
  OBVIOUS
<1>1. /\ Range(global) = {} /\ TasksOf(hand) = {} /\ DOMAIN local = {} /\ Live = {}
      /\ IsInjective(global) /\ Apart(hand)
  BY DEF Init, Range, TasksOf, Live, IsInjective, Apart
<1>2. DOMAIN TasksUnder(local) = {}
  BY <1>1 DEF TasksUnder
<1> QED BY <1>1, <1>2 DEF Init, HeldInv, Placed

\* The task t is held in one place and no other.
LEMMA HeldAlone ==
    ASSUME TypeInv, HeldInv, NEW t \in Live
    PROVE  Cardinality(Holds(t)) = 1
<1> DEFINE G == {<<"global", 0, i>> : i \in {j \in DOMAIN global : global[j] = t}}
           K == {<<"hand", 0, i>> : i \in {j \in DOMAIN hand : hand[j].task = t}}
           L(h) == {<<"local", h, i>> : i \in {j \in DOMAIN local[h] : local[h][j].task = t}}
<1>1. Holds(t) = G \union K \union UNION {L(h) : h \in DOMAIN local}
  BY DEF Holds
<1>2. Placed(Range(global), TasksOf(hand), TasksUnder(local), Unborn, Live)
  BY DEF HeldInv
<1>3. /\ t \notin Range(global) => G = {}
      /\ t \notin TasksOf(hand) => K = {}
      /\ \A h \in DOMAIN local : t \notin TasksOf(local[h]) => L(h) = {}
  BY DEF Range, TasksOf
<1>4. SUFFICES \E x : Holds(t) = {x}
  BY FS_Singleton
<1>5. CASE t \in Range(global)
  <2>1. PICK i \in DOMAIN global : global[i] = t
    BY <1>5 DEF Range
  <2>2. {j \in DOMAIN global : global[j] = t} = {i}
    BY <2>1 DEF HeldInv, IsInjective
  <2>3. t \notin TasksOf(hand) /\ \A h \in DOMAIN local : t \notin TasksOf(local[h])
    BY <1>2, <1>5 DEF Placed, TasksUnder
  <2>4. G = {<<"global", 0, i>>} /\ K = {} /\ UNION {L(h) : h \in DOMAIN local} = {}
    BY <1>3, <2>2, <2>3
  <2> QED BY <1>1, <2>4
<1>6. CASE t \in TasksOf(hand)
  <2>1. PICK i \in DOMAIN hand : hand[i].task = t
    BY <1>6 DEF TasksOf
  <2>2. {j \in DOMAIN hand : hand[j].task = t} = {i}
    BY <2>1 DEF HeldInv, Apart
  <2>3. t \notin Range(global) /\ \A h \in DOMAIN local : t \notin TasksOf(local[h])
    BY <1>2, <1>6 DEF Placed, TasksUnder
  <2>4. K = {<<"hand", 0, i>>} /\ G = {} /\ UNION {L(h) : h \in DOMAIN local} = {}
    BY <1>3, <2>2, <2>3
  <2> QED BY <1>1, <2>4
<1>7. ASSUME NEW h \in DOMAIN local, t \in TasksOf(local[h])
      PROVE  \E x : Holds(t) = {x}
  <2>1. PICK i \in DOMAIN local[h] : local[h][i].task = t
    BY <1>7 DEF TasksOf
  <2>2. {j \in DOMAIN local[h] : local[h][j].task = t} = {i}
    BY <2>1 DEF HeldInv, Apart
  <2>3. /\ t \notin Range(global) /\ t \notin TasksOf(hand)
        /\ \A g \in DOMAIN local : g # h => t \notin TasksOf(local[g])
    BY <1>2, <1>7 DEF Placed, TasksUnder
  <2>4. L(h) = {<<"local", h, i>>}
    BY <2>2
  <2>5. UNION {L(g) : g \in DOMAIN local} = L(h)
    BY <1>3, <2>3
  <2> QED BY <1>1, <1>3, <2>3, <2>4, <2>5
<1>8. t \in Range(global) \/ t \in TasksOf(hand) \/ \E h \in DOMAIN local : t \in TasksOf(local[h])
  BY <1>2 DEF Placed, TasksUnder
<1> QED BY <1>5, <1>6, <1>7, <1>8

\* For any tasks and any use made of the executor, an accepted task that has not
\* ended is held exactly once: in the global queue, in one layer of the stack of
\* one entry, or in one layer of the stack being polled (every insertion, park,
\* unpark, take and composition of do_work and the engine calls).
THEOREM HeldOnceCorrect == Spec => []LiveTasksHeldOnce
<1>1. TypeInv /\ HeldInv => LiveTasksHeldOnce
  BY HeldAlone DEF LiveTasksHeldOnce, Live
<1> QED BY <1>1, HeldInit, HeldNext, TypedInit, TypedNext, PTL DEF Spec

-----------------------------------------------------------------------------
(* ChildFinishesFirst.                                                     *)

\* No step lifts a child with a State that a composite discards.
LiftsAnswered == <<"lift", "lifted">> \notin DiscardedMoves

\* The stack s runs u's layer, a lifted child, before t's.
WaitsIn(s, t, u) ==
    \E i, j \in DOMAIN s : i < j /\ s[i] = [task |-> u, link |-> "finish"] /\ s[j].task = t

\* u has just been inserted for t, whose layer the poll has passed.
ToBeLinked(t, u) ==
    /\ InHand /\ yielded = "lifted"
    /\ child \in DOMAIN local /\ local[child] = Plain(u)
    /\ \E j \in DOMAIN hand : hand[j].task = t /\ (pc = "poll" => j < at)

Behind(t, u) ==
    \/ WaitsIn(hand, t, u)
    \/ \E h \in DOMAIN local : WaitsIn(local[h], t, u)
    \/ ToBeLinked(t, u)

\* What makes ChildFinishesFirst hold: the lifter of a live child is behind it,
\* nobody has lifted a task that is unborn, and the poll passes no lifted child.
LiftInv ==
    /\ \A u \in Task : \A t \in lifter[u] \ {u} : fate[u] = "live" => Behind(t, u)
    /\ \A u \in Unborn : lifter[u] = {}
    /\ pc = "poll" => \A i \in 1..at - 1 : hand[i].link = "dual"

\* A child stays in front of its lifter while their stacks stay where they are.
LEMMA BehindKept ==
    ASSUME NEW t, NEW u, Behind(t, u), hand' = hand, ~InHand,
           \A h \in DOMAIN local : h \in DOMAIN local' /\ local'[h] = local[h]
    PROVE  Behind(t, u)'
<1>1. WaitsIn(hand, t, u) \/ \E h \in DOMAIN local : WaitsIn(local[h], t, u)
  BY DEF Behind, ToBeLinked
<1>2. CASE WaitsIn(hand, t, u)
  BY <1>2 DEF Behind
<1>3. ASSUME NEW h \in DOMAIN local, WaitsIn(local[h], t, u) PROVE Behind(t, u)'
  <2>1. h \in DOMAIN local' /\ WaitsIn(local'[h], t, u)
    BY <1>3
  <2> QED BY <2>1 DEF Behind
<1> QED BY <1>1, <1>2, <1>3

\* Between polls a new task joins none of the stacks, and nobody waits for it.
LEMMA LiftSpawn ==
    ASSUME TypeInv, LiftInv, NEW call, Engine(call, Newborn), Unborn # {}, ~InHand,
           fate' = [fate EXCEPT ![Newborn] = "live"],
           \A u \in Task : lifter'[u] = lifter[u] \/ (u = Newborn /\ lifter'[u] \subseteq {u}),
           UNCHANGED <<hand, at>>, pc' # "poll"
    PROVE  LiftInv'
<1>1. /\ Newborn \in Task /\ fate[Newborn] = "unborn" /\ Newborn \in Unborn
      /\ fate \in [Task -> Fates]
  BY NewbornTyped DEF Unborn, TypeInv, Typed, TasksTyped
<1>2. \A h \in DOMAIN local : h \in DOMAIN local' /\ local'[h] = local[h]
  BY EngineStore
<1>3. ASSUME NEW u \in Task, NEW t \in lifter'[u] \ {u}, fate'[u] = "live"
      PROVE  Behind(t, u)'
  <2>1. u # Newborn
    BY <1>1, <1>3 DEF LiftInv
  <2>2. t \in lifter[u] \ {u} /\ fate[u] = "live"
    BY <1>1, <1>3, <2>1
  <2> QED BY <1>2, <2>2, BehindKept DEF LiftInv
<1>4. \A u \in Unborn' : lifter'[u] = {}
  BY <1>1 DEF LiftInv, Unborn
<1> QED BY <1>3, <1>4 DEF LiftInv

\* A step outside the poll that spawns nothing and moves no stack.
LEMMA LiftKept ==
    ASSUME LiftInv, UNCHANGED <<fate, lifter, hand>>, ~InHand, pc' # "poll",
           \A h \in DOMAIN local : h \in DOMAIN local' /\ local'[h] = local[h]
    PROVE  LiftInv'
<1>1. ASSUME NEW u \in Task, NEW t \in lifter'[u] \ {u}, fate'[u] = "live"
      PROVE  Behind(t, u)'
  BY <1>1, BehindKept DEF LiftInv
<1> QED BY <1>1 DEF LiftInv, Unborn

\* Nothing the invariant is about has changed.
LEMMA LiftSame ==
    ASSUME LiftInv, UNCHANGED <<fate, lifter, hand, at, local, child, yielded, pc>>
    PROVE  LiftInv'
<1>1. \A t, u : Behind(t, u)' <=> Behind(t, u)
  BY DEF Behind, ToBeLinked, InHand
<1> QED BY <1>1 DEF LiftInv, Unborn

\* Other threads, the owner and time.
LEMMA LiftOutsideKept == ASSUME TypeInv, LiftInv, HeldInv, Outside PROVE LiftInv'
<1>1. CASE Submit
  <2> DEFINE n == Newborn
  <2>1. /\ n \in Task /\ n \in Unborn /\ fate \in [Task -> Fates]
        /\ UNCHANGED <<lifter, hand, at, local, child, yielded, pc>>
        /\ fate' = [fate EXCEPT ![n] = "live"]
    BY <1>1, NewbornTyped
       DEF Submit, Engine, turn, Unborn, TypeInv, Typed, TasksTyped
  <2>2. \A t, u : Behind(t, u)' <=> Behind(t, u)
    BY <2>1 DEF Behind, ToBeLinked, InHand
  <2>3. lifter[n] = {} /\ \A u \in Task : u # n => fate'[u] = fate[u]
    BY <2>1 DEF LiftInv
  <2>4. fate'[n] = "live"
    BY <2>1
  <2> HIDE DEF n
  <2> QED BY <2>1, <2>2, <2>3, <2>4 DEF LiftInv, Unborn
<1>2. ASSUME NEW h \in Entries, Ripen(h) PROVE LiftInv'
  BY <1>2, LiftSame DEF Ripen, tasks, turn
<1>3. ASSUME NEW call \in OutsideCalls, CallOutside(call) PROVE LiftInv'
  <2>1. \A u \in Task : lifter'[u] = lifter[u] \/ (u = Newborn /\ lifter'[u] \subseteq {u})
    BY <1>3 DEF CallOutside, LifterOf, TypeInv, Typed, TasksTyped
  <2> QED BY <1>3, <2>1, LiftSpawn DEF CallOutside, turn, InHand
<1>4. ASSUME NEW key \in 1..issued, LiftOutside(key) PROVE LiftInv'
  <2>1. UNCHANGED <<lifter, hand, at>> /\ Unborn # {} /\ ~InHand /\ pc' # "poll"
    BY <1>4 DEF LiftOutside, turn, InHand
  <2>2. CASE Engine("lift", Newborn) /\ fate' = [fate EXCEPT ![Newborn] = "live"]
    BY <2>1, <2>2, LiftSpawn
  <2>3. CASE UNCHANGED <<local, fate>>
    BY <2>1, <2>3, LiftKept
  <2> QED BY <1>4, <2>2, <2>3 DEF LiftOutside
<1> QED BY <1>1, <1>2, <1>3, <1>4 DEF Outside

\* A step of the running task that is not its last keeps the stack: those in front
\* of others stay there, and a task it lifts will be put in front of it.
LEMMA LiftStayed ==
    ASSUME LiftsAnswered, TypeInv, LiftInv, HeldInv, NEW m \in Moves,
           PollSequenced(m[1], m[2]) \/ PollReturns(m[1], m[2]),
           NEW u \in Task, NEW t \in lifter'[u] \ {u}, fate'[u] = "live"
    PROVE  Behind(t, u)'
<1>1. /\ Step(m[1], m[2]) /\ hand' = hand /\ InHand' /\ InHand /\ Yield(m[2])
      /\ pc' = "poll" => at' = at + 1
      /\ hand \in Seq(Layer) /\ at \in 1..Len(hand)
  BY DEF PollSequenced, PollReturns, Step, InHand, TypeInv, Typed, PollTyped
<1>2. /\ Engine(m[1], Newborn) /\ at \in DOMAIN hand
      /\ \A h \in DOMAIN local : h \in DOMAIN local' /\ local'[h] = local[h]
  BY <1>1, EngineStore DEF Step
<1>3. CASE m[1] = "lift" /\ u = Newborn
  <2>1. lifter'[u] = {Running} /\ t = Running
    BY <1>1, <1>3 DEF Step, Spawns, LifterOf
  <2>2. m = <<"lift", "lifted">>
    <3>1. m \in AllMoves
      BY ExecutorAssumption
    <3> QED BY <1>3, <3>1 DEF AllMoves
  <2>3. yielded = "unset"
    BY <1>1, <2>2 DEF Step, MayDo, LiftsAnswered
  <2>4. yielded' = "lifted" /\ child' = issued + 1
    BY <1>1, <1>3, <2>2, <2>3 DEF Yield, Step
  <2>5. local' = With(local, issued + 1, Plain(u))
    BY <1>2, <1>3 DEF Engine, Inserted
  <2>6. child' \in DOMAIN local' /\ local'[child'] = Plain(u)
    BY <2>4, <2>5 DEF With
  <2>7. hand'[at].task = t /\ (pc' = "poll" => at < at')
    BY <1>1, <2>1 DEF Running
  <2> QED BY <1>1, <1>2, <2>4, <2>6, <2>7 DEF Behind, ToBeLinked
<1>4. CASE ~(m[1] = "lift" /\ u = Newborn)
  <2>1. t \in lifter[u] \ {u}
    BY <1>1, <1>4 DEF Step, Spawns, LifterOf
  <2>2. u \notin Unborn
    BY <2>1 DEF LiftInv
  <2>3. fate[u] = "live"
    <3>1. m[1] # "nothing" => u # Newborn
      BY <1>1, <2>2, NewbornTyped DEF Step, MayDo, Unborn
    <3> QED BY <1>1, <3>1 DEF Step, Spawns, FateAfter
  <2>4. Behind(t, u)
    BY <2>1, <2>3 DEF LiftInv
  <2>5. CASE WaitsIn(hand, t, u)
    BY <1>1, <2>5 DEF Behind
  <2>6. ASSUME NEW h \in DOMAIN local, WaitsIn(local[h], t, u) PROVE Behind(t, u)'
    <3>1. h \in DOMAIN local' /\ WaitsIn(local'[h], t, u)
      BY <1>2, <2>6
    <3> QED BY <3>1 DEF Behind
  <2>7. CASE ToBeLinked(t, u)
    <3>1. yielded' = "lifted" /\ child' = child
      BY <1>1, <2>7 DEF ToBeLinked, Yield, Step
    <3>2. PICK j \in DOMAIN hand : hand[j].task = t /\ (pc = "poll" => j < at)
      BY <2>7 DEF ToBeLinked
    <3>3. pc' = "poll" => j < at'
      BY <1>1, <3>2 DEF Step
    <3>4. child' \in DOMAIN local' /\ local'[child'] = Plain(u)
      BY <1>2, <2>7, <3>1 DEF ToBeLinked
    <3> QED BY <1>1, <3>1, <3>2, <3>3, <3>4 DEF Behind, ToBeLinked
  <2> QED BY <2>4, <2>5, <2>6, <2>7 DEF Behind
<1> QED BY <1>3, <1>4

\* The running task has ended and its layer is gone: whoever was behind another
\* task than it still is.
LEMMA LiftEnded ==
    ASSUME LiftsAnswered, TypeInv, LiftInv, HeldInv, NEW m \in Moves,
           PollEnded(m[1], m[2]),
           NEW u \in Task, NEW t \in lifter'[u] \ {u}, fate'[u] = "live"
    PROVE  Behind(t, u)'
<1>1. /\ Step(m[1], m[2]) /\ hand' = RemoveAt(hand, at) /\ InHand' /\ InHand
      /\ at' = at /\ m[2] \in Ends /\ pc = "poll"
      /\ hand \in Seq(Layer) /\ at \in 1..Len(hand)
  BY DEF PollEnded, Step, InHand, Dropped, Ends, TypeInv, Typed, PollTyped
<1>2. /\ Engine(m[1], Newborn) /\ at \in DOMAIN hand /\ DOMAIN hand = 1..Len(hand)
      /\ \A h \in DOMAIN local : h \in DOMAIN local' /\ local'[h] = local[h]
  BY <1>1, EngineStore DEF Step
<1>3. /\ DOMAIN hand' = 1..Len(hand) - 1
      /\ \A j \in 1..Len(hand) - 1 : hand'[j] = IF j < at THEN hand[j] ELSE hand[j + 1]
  BY <1>1, RemoveTyped
<1>4. u # Running
  BY <1>1 DEF Step, FateAfter
<1>5. m[1] \notin {"lift", "sequence"}
  <2>1. m \in AllMoves
    BY ExecutorAssumption
  <2> QED BY <1>1, <2>1 DEF AllMoves, Ends
<1>6. t \in lifter[u] \ {u}
  BY <1>1, <1>5 DEF Step, Spawns, LifterOf
<1>7. fate[u] = "live"
  <2>1. u \notin Unborn
    BY <1>6 DEF LiftInv
  <2>2. m[1] # "nothing" => u # Newborn
    BY <1>1, <2>1, NewbornTyped DEF Step, MayDo, Unborn
  <2> QED BY <1>1, <1>4, <2>2 DEF Step, Spawns
<1>8. Behind(t, u)
  BY <1>6, <1>7 DEF LiftInv
<1>9. CASE WaitsIn(hand, t, u)
  <2>1. PICK i \in 1..Len(hand), j \in 1..Len(hand) :
          i < j /\ hand[i] = [task |-> u, link |-> "finish"] /\ hand[j].task = t
    BY <1>2, <1>9 DEF WaitsIn
  <2>2. ~(i < at)
    BY <1>1, <2>1 DEF LiftInv
  <2>3. i # at
    BY <1>4, <2>1 DEF Running
  <2>4. /\ i - 1 \in 1..Len(hand) - 1 /\ j - 1 \in 1..Len(hand) - 1 /\ i - 1 < j - 1
        /\ hand'[i - 1] = hand[i] /\ hand'[j - 1] = hand[j]
    <3>1. /\ i - 1 \in 1..Len(hand) - 1 /\ j - 1 \in 1..Len(hand) - 1 /\ i - 1 < j - 1
          /\ ~(i - 1 < at) /\ ~(j - 1 < at) /\ (i - 1) + 1 = i /\ (j - 1) + 1 = j
      BY <1>1, <2>1, <2>2, <2>3
    <3> QED BY <1>3, <3>1
  <2>5. WaitsIn(hand', t, u)
    BY <1>3, <2>1, <2>4 DEF WaitsIn
  <2> QED BY <2>5 DEF Behind
<1>10. ASSUME NEW h \in DOMAIN local, WaitsIn(local[h], t, u) PROVE Behind(t, u)'
  <2>1. h \in DOMAIN local' /\ WaitsIn(local'[h], t, u)
    BY <1>2, <1>10
  <2> QED BY <2>1 DEF Behind
<1>11. CASE ToBeLinked(t, u)
  <2>1. yielded' = "lifted" /\ child' = child
    BY <1>1, <1>5, <1>11 DEF ToBeLinked, PollEnded, Yield, Step
  <2>2. PICK j \in 1..Len(hand) : hand[j].task = t /\ j < at
    BY <1>1, <1>2, <1>11 DEF ToBeLinked
  <2>3. j \in 1..Len(hand) - 1 /\ hand'[j].task = t /\ j < at'
    BY <1>1, <1>3, <2>2
  <2>4. child' \in DOMAIN local' /\ local'[child'] = Plain(u)
    BY <1>2, <1>11, <2>1 DEF ToBeLinked
  <2> QED BY <1>1, <1>3, <2>1, <2>3, <2>4 DEF Behind, ToBeLinked
<1> QED BY <1>8, <1>9, <1>10, <1>11 DEF Behind

\* ExecutionIterator::next of the stack in hand.
LEMMA LiftPoll ==
    ASSUME LiftsAnswered, TypeInv, LiftInv, HeldInv, Poll
    PROVE  LiftInv'
<1>1. PICK m \in Moves :
        PollEnded(m[1], m[2]) \/ PollSequenced(m[1], m[2]) \/ PollReturns(m[1], m[2])
  BY DEF Poll
<1>2. \A u \in Task : \A t \in lifter'[u] \ {u} : fate'[u] = "live" => Behind(t, u)'
  BY <1>1, LiftStayed, LiftEnded
<1>3. Step(m[1], m[2]) /\ hand \in Seq(Layer) /\ at \in 1..Len(hand) /\ pc = "poll"
  BY <1>1 DEF PollEnded, PollSequenced, PollReturns, Step, TypeInv, Typed, PollTyped
<1>4. \A u \in Unborn' : lifter'[u] = {}
  <2> SUFFICES ASSUME NEW u \in Task, fate'[u] = "unborn" PROVE lifter'[u] = {}
    BY DEF Unborn
  <2>1. u \notin Spawns(m[1])
    BY <1>3, <1>3 DEF Step, MayDo, FateAfter
  <2>2. fate[u] = "unborn"
    BY <1>3, <2>1 DEF Step, MayDo, FateAfter
  <2> QED BY <1>3, <2>1, <2>2 DEF Step, LiftInv, Unborn
<1>5. ASSUME pc' = "poll", NEW i \in 1..at' - 1 PROVE hand'[i].link = "dual"
  <2>1. CASE PollEnded(m[1], m[2])
    <3>1. hand' = RemoveAt(hand, at) /\ at' = at /\ at < Len(hand)
      BY <1>5, <2>1 DEF PollEnded
    <3>2. i \in 1..Len(hand) - 1 /\ i < at
      BY <1>3, <3>1
    <3>3. hand'[i] = hand[i]
      BY <1>3, <3>1, <3>2, RemoveTyped
    <3> QED BY <1>3, <3>2, <3>3 DEF LiftInv
  <2>2. CASE PollSequenced(m[1], m[2])
    <3>1. hand' = hand /\ at' = at + 1 /\ hand[at].link = "dual"
      BY <1>5, <2>2 DEF PollSequenced
    <3>2. i \in 1..at - 1 \/ i = at
      BY <1>3, <3>1
    <3> QED BY <1>3, <3>1, <3>2 DEF LiftInv
  <2>3. CASE PollReturns(m[1], m[2])
    BY <1>5, <2>3 DEF PollReturns
  <2> QED BY <1>1, <2>1, <2>2, <2>3
<1> QED BY <1>2, <1>4, <1>5 DEF LiftInv

\* do_work takes the stack of the popped entry in hand.
LEMMA LiftPick == ASSUME TypeInv, LiftInv, HeldInv, PickTop PROVE LiftInv'
<1> DEFINE top == Head(processing)
<1>1. /\ UNCHANGED <<fate, lifter>> /\ pc = "work" /\ hand = <<>> /\ ~InHand
      /\ processing # <<>>
  BY DEF PickTop, tasks, HeldInv, InHand
<1>2. top \in DOMAIN local
  BY <1>1, QueuedHaveTasks DEF TypeInv
<1>3. CASE top \in packed
  BY <1>1, <1>3, LiftKept DEF PickTop
<1>4. CASE top \notin packed
  <2>1. hand' = local[top] /\ local' = Minus(local, top) /\ pc' = "poll" /\ at' = 1
    BY <1>2, <1>4 DEF PickTop, Without, Minus
  <2>2. ASSUME NEW u \in Task, NEW t \in lifter'[u] \ {u}, fate'[u] = "live"
        PROVE  Behind(t, u)'
    <3>1. Behind(t, u)
      BY <1>1, <2>2 DEF LiftInv
    <3>2. ~WaitsIn(hand, t, u) /\ ~ToBeLinked(t, u)
      BY <1>1 DEF WaitsIn, ToBeLinked
    <3>3. PICK h \in DOMAIN local : WaitsIn(local[h], t, u)
      BY <3>1, <3>2 DEF Behind
    <3>4. CASE h = top
      BY <2>1, <3>3, <3>4 DEF Behind
    <3>5. CASE h # top
      <4>1. h \in DOMAIN local' /\ WaitsIn(local'[h], t, u)
        BY <2>1, <3>3, <3>5 DEF Minus
      <4> QED BY <4>1 DEF Behind
    <3> QED BY <3>4, <3>5
  <2> QED BY <1>1, <2>1, <2>2 DEF LiftInv, Unborn
<1> QED BY <1>3, <1>4

\* A task that waits in a stack waits in it when another is linked over it.
LEMMA WaitsOver ==
    ASSUME NEW s \in Seq(Layer), NEW link \in {"finish", "dual"}, NEW x \in Task,
           NEW t, NEW u
    PROVE  /\ WaitsIn(s, t, u) => WaitsIn(Over(link, x, s), t, u)
           /\ (link = "finish" /\ u = x /\ \E j \in DOMAIN s : s[j].task = t)
                => WaitsIn(Over(link, x, s), t, u)
<1> DEFINE o == Over(link, x, s)
<1>1. /\ DOMAIN o = 1..Len(s) + 1 /\ DOMAIN s = 1..Len(s) /\ Len(s) \in Nat
      /\ o[1] = [task |-> x, link |-> link]
      /\ \A i \in 1..Len(s) : o[i + 1] = s[i]
  <2>1. <<[task |-> x, link |-> link]>> \in Seq(Layer)
    BY DEF Layer
  <2> QED BY <2>1 DEF Over
<1> HIDE DEF o
<1>2. ASSUME WaitsIn(s, t, u) PROVE WaitsIn(o, t, u)
  <2>1. PICK i \in 1..Len(s), j \in 1..Len(s) :
          i < j /\ s[i] = [task |-> u, link |-> "finish"] /\ s[j].task = t
    BY <1>1, <1>2 DEF WaitsIn
  <2>2. /\ i + 1 \in DOMAIN o /\ j + 1 \in DOMAIN o /\ i + 1 < j + 1
        /\ o[i + 1] = s[i] /\ o[j + 1] = s[j]
    BY <1>1, <2>1
  <2> QED BY <2>1, <2>2 DEF WaitsIn
<1>3. ASSUME link = "finish", u = x, NEW j \in DOMAIN s, s[j].task = t
      PROVE  WaitsIn(o, t, u)
  <2>1. 1 \in DOMAIN o /\ j + 1 \in DOMAIN o /\ 1 < j + 1 /\ o[j + 1] = s[j]
    BY <1>1
  <2> QED BY <1>1, <1>3, <2>1 DEF WaitsIn
<1> QED BY <1>2, <1>3 DEF o

\* After the poll the stack in hand goes under one entry, a lifted child over it,
\* or is dropped with the children in it.
LEMMA LiftDispatch ==
    ASSUME TypeInv, LiftInv, HeldInv, Dispatch
    PROVE  LiftInv'
<1>1. /\ lifter' = lifter /\ pc = "dispatch" /\ pc' # "poll"
      /\ \A u \in Task : fate'[u] # "dropped" => fate'[u] = fate[u]
      /\ \A u \in Task : fate'[u] = "unborn" => fate[u] = "unborn"
  BY DEF Dispatch, Discard, Requeue, Sleep, Compose, ComposeWithoutParent, EndPoll, tasks
<1> SUFFICES ASSUME NEW u \in Task, NEW t \in lifter[u] \ {u}, fate'[u] = "live"
             PROVE  Behind(t, u)'
  BY <1>1 DEF LiftInv, Unborn
<1>2. fate[u] = "live" /\ Behind(t, u)
  BY <1>1 DEF LiftInv
<1>3. CASE Discard
  <2>1. ~ToBeLinked(t, u) /\ local' = local
    BY <1>3 DEF Discard, ToBeLinked, Final, Ends
  <2>2. ~WaitsIn(hand, t, u)
    <3>1. ~\E i \in DOMAIN hand : hand[i].task = u
      BY <1>2, <1>3 DEF Discard
    <3> QED BY <3>1 DEF WaitsIn
  <2> QED BY <1>2, <2>1, <2>2 DEF Behind
<1>4. CASE Requeue \/ Sleep
  <2>1. local' = With(local, current, hand) /\ ~ToBeLinked(t, u)
    BY <1>4 DEF Requeue, Sleep, ToBeLinked
  <2>2. current \notin DOMAIN local
    BY <1>1 DEF TypeInv, IInv, Sound, Held, InHand
  <2>3. /\ current \in DOMAIN local' /\ local'[current] = hand
        /\ \A h \in DOMAIN local : h \in DOMAIN local' /\ local'[h] = local[h]
    BY <2>1, <2>2 DEF With
  <2>4. CASE WaitsIn(hand, t, u)
    <3>1. WaitsIn(local'[current], t, u)
      BY <2>3, <2>4
    <3> QED BY <2>3, <3>1 DEF Behind
  <2>5. ASSUME NEW h \in DOMAIN local, WaitsIn(local[h], t, u) PROVE Behind(t, u)'
    <3>1. h \in DOMAIN local' /\ WaitsIn(local'[h], t, u)
      BY <2>3, <2>5
    <3> QED BY <3>1 DEF Behind
  <2> QED BY <1>2, <2>1, <2>4, <2>5 DEF Behind
<1>5. CASE Compose
  <2> DEFINE n == issued + 1
             x == local[child][1].task
             link == IF yielded = "lifted" THEN "finish" ELSE "dual"
             o == Over(link, x, hand)
  <2>1. /\ child \in DOMAIN local /\ local' = With(Without({child}), n, o)
        /\ hand \in Seq(Layer) /\ link \in {"finish", "dual"}
    BY <1>5 DEF Compose, TypeInv, Typed, PollTyped
  <2>2. Len(local[child]) = 1 /\ local[child] \in Seq(Layer)
    BY <2>1 DEF HeldInv, TypeInv, Typed, StoreTyped
  <2>3. DOMAIN local[child] = {1} /\ x \in Task
    <3>1. DOMAIN local[child] = {1} /\ local[child][1] \in Layer
      BY <2>2
    <3> QED BY <3>1 DEF Layer
  <2>4. n \notin DOMAIN local
    BY EntriesTyped DEF TypeInv
  <2>5. /\ n \in DOMAIN local' /\ local'[n] = o
        /\ \A h \in DOMAIN local \ {child} : h \in DOMAIN local' /\ local'[h] = local[h]
    BY <2>1, <2>4 DEF With, Without
  <2> HIDE DEF n
  <2>6. ASSUME WaitsIn(o, t, u) PROVE Behind(t, u)'
    <3>1. WaitsIn(local'[n], t, u)
      BY <2>5, <2>6
    <3> QED BY <2>5, <3>1 DEF Behind
  <2>7. CASE WaitsIn(hand, t, u)
    BY <2>1, <2>3, <2>6, <2>7, WaitsOver
  <2>8. ASSUME NEW h \in DOMAIN local, WaitsIn(local[h], t, u) PROVE Behind(t, u)'
    <3>1. h # child
      BY <2>3, <2>8 DEF WaitsIn
    <3>2. h \in DOMAIN local' /\ WaitsIn(local'[h], t, u)
      BY <2>5, <2>8, <3>1
    <3> QED BY <3>2 DEF Behind
  <2>9. CASE ToBeLinked(t, u)
    <3>1. link = "finish" /\ u = x /\ \E j \in DOMAIN hand : hand[j].task = t
      BY <2>9 DEF ToBeLinked, Plain
    <3>2. WaitsIn(Over(link, x, hand), t, u)
      BY <2>1, <2>3, <3>1, WaitsOver
    <3> QED BY <2>6, <3>2
  <2> QED BY <1>2, <2>7, <2>8, <2>9 DEF Behind
<1>6. CASE ComposeWithoutParent
  <2>1. UNCHANGED <<hand, local>> /\ ~ToBeLinked(t, u)
    BY <1>6 DEF ComposeWithoutParent, ToBeLinked, turn
  <2> QED BY <1>2, <2>1 DEF Behind
<1> QED BY <1>3, <1>4, <1>5, <1>6 DEF Dispatch

\* Every step keeps lifters behind the children they wait for.
LEMMA LiftNext ==
    LiftsAnswered => (TypeInv /\ HeldInv /\ LiftInv /\ [Next]_vars => LiftInv')
<1> SUFFICES ASSUME LiftsAnswered, TypeInv, HeldInv, LiftInv, [Next]_vars
             PROVE  LiftInv'
  OBVIOUS
<1>1. CASE Request \/ SpinSchedule
  <2>1. UNCHANGED <<fate, lifter, hand>> /\ ~InHand /\ pc' # "poll"
    BY <1>1 DEF Request, SpinSchedule, tasks, turn, InHand
  <2>2. Acquire \/ local' = local
    BY <1>1 DEF Request, SpinSchedule
  <2>3. \A h \in DOMAIN local : h \in DOMAIN local' /\ local'[h] = local[h]
    <3>1. issued + 1 \notin DOMAIN local
      BY EntriesTyped DEF TypeInv
    <3> QED BY <2>2, <3>1 DEF Acquire, With
  <2> QED BY <2>1, <2>3, LiftKept
<1>2. CASE \/ Run \/ Wake \/ NothingToRun \/ SettleProgress \/ SettleNoWorkAsleep
           \/ SettleNoWorkIdle \/ SettleSpin \/ Loop
  <2>1. UNCHANGED <<fate, lifter, hand, local>> /\ ~InHand /\ pc' # "poll"
    BY <1>2 DEF Run, Wake, NothingToRun, SettleProgress, SettleNoWorkAsleep,
       SettleNoWorkIdle, SettleSpin, Loop, tasks, turn, InHand
  <2> QED BY <2>1, LiftKept
<1>3. CASE UNCHANGED vars
  BY <1>3, LiftSame DEF vars, tasks, turn
<1> QED BY <1>1, <1>2, <1>3, LiftOutsideKept, LiftPick, LiftPoll, LiftDispatch
        DEF Next, Turn

\* Nobody has lifted anything at first.
LEMMA LiftInit == Init => LiftInv
<1> SUFFICES ASSUME Init PROVE LiftInv
  OBVIOUS
<1>1. pc = "outside" /\ \A u \in Task : lifter[u] = {}
  BY DEF Init
<1> QED BY <1>1 DEF LiftInv, Unborn

\* What is behind a lifted child is not polled: its own layer would be in a second
\* place, or the poll would have passed the child's.
LEMMA NotBehind ==
    ASSUME TypeInv, HeldInv, LiftInv, pc = "poll", NEW u
    PROVE  ~Behind(Running, u)
<1>1. /\ hand \in Seq(Layer) /\ at \in 1..Len(hand) /\ DOMAIN hand = 1..Len(hand)
      /\ hand[at].task = Running /\ Running \in TasksOf(hand)
  BY DEF TypeInv, Typed, PollTyped, Running, TasksOf
<1>2. \A j \in DOMAIN hand : hand[j].task = Running => j = at
  BY <1>1 DEF HeldInv, Apart
<1>3. ~WaitsIn(hand, Running, u)
  <2> SUFFICES ASSUME NEW i \in 1..Len(hand), i < at,
                      hand[i] = [task |-> u, link |-> "finish"]
               PROVE  FALSE
    BY <1>1, <1>2 DEF WaitsIn
  <2>1. i \in 1..at - 1 /\ hand[i].link = "finish"
    BY <1>1
  <2> QED BY <2>1 DEF LiftInv
<1>4. ASSUME NEW h \in DOMAIN local PROVE ~WaitsIn(local[h], Running, u)
  <2>1. Running \notin TasksOf(local[h])
    BY <1>1, <1>4 DEF HeldInv, Placed, TasksUnder
  <2> QED BY <2>1 DEF WaitsIn, TasksOf
<1>5. ~ToBeLinked(Running, u)
  BY <1>1, <1>2 DEF ToBeLinked
<1> QED BY <1>3, <1>4, <1>5 DEF Behind

\* When every step that lifts a child answers with it, a task makes no step
\* between lifting a child and that child's end, whatever either spawns, links or
\* yields (FinishChildBeforeParentTask and the SpawnFinished arm of do_work).
THEOREM ChildFinishesFirstCorrect ==
    ASSUME LiftsAnswered PROVE Spec => []ChildFinishesFirst
<1>1. TypeInv /\ HeldInv /\ LiftInv => ChildFinishesFirst
  <2> SUFFICES ASSUME TypeInv, HeldInv, LiftInv, pc = "poll",
                      NEW u \in Task \ {Running}, Running \in lifter[u], fate[u] = "live"
               PROVE  FALSE
    BY DEF ChildFinishesFirst
  <2>1. Running \in lifter[u] \ {u} /\ u \in Task
    OBVIOUS
  <2>2. Behind(Running, u)
    BY <2>1 DEF LiftInv
  <2> QED BY <2>2, NotBehind
<1>2. TypeInv /\ HeldInv /\ LiftInv /\ [Next]_vars => LiftInv'
  BY LiftNext
<1> QED BY <1>1, <1>2, LiftInit, HeldInit, HeldNext, TypedInit, TypedNext, PTL DEF Spec

-----------------------------------------------------------------------------
(* DropsOnlyAfterFailure.                                                  *)

\* The task at the bottom of a stack is the only plain one.
BaseLast(s) == \A i \in DOMAIN s : s[i].link = "base" => i = Len(s)

\* What makes DropsOnlyAfterFailure hold of every step: a poll that has its State
\* goes on only after one of a child that stays; when the State is that of an
\* ended task, nobody in hand is live; when it is that of a failed one, that task
\* is still in front.
DropInv ==
    /\ BaseLast(hand) /\ \A h \in DOMAIN local : BaseLast(local[h])
    /\ pc = "poll" => yielded \notin Ends /\ (yielded = "unset" => at = 1)
    /\ pc = "dispatch" /\ yielded \in Ends =>
         \A i \in DOMAIN hand : fate[hand[i].task] # "live"
    /\ InHand /\ yielded \in {"panicked", "spawn_failed"} =>
         hand # <<>> /\ fate[hand[1].task] = "failed"

\* The stacks that insertion, composition and the end of a task make.
LEMMA BaseFacts ==
    ASSUME NEW s \in Seq(Layer), BaseLast(s), NEW t \in Task
    PROVE  /\ BaseLast(Plain(t))
           /\ \A link \in {"finish", "dual"} : BaseLast(Over(link, t, s))
           /\ \A i \in 1..Len(s) : BaseLast(RemoveAt(s, i))
<1>1. BaseLast(Plain(t))
  BY DEF BaseLast, Plain
<1>2. ASSUME NEW link \in {"finish", "dual"} PROVE BaseLast(Over(link, t, s))
  <2> DEFINE o == Over(link, t, s)
  <2>1. /\ DOMAIN o = 1..Len(s) + 1 /\ Len(o) = Len(s) + 1 /\ Len(s) \in Nat
        /\ DOMAIN s = 1..Len(s)
        /\ o[1].link # "base" /\ \A i \in 1..Len(s) : o[i + 1] = s[i]
    <3>1. <<[task |-> t, link |-> link]>> \in Seq(Layer)
      BY DEF Layer
    <3> QED BY <3>1 DEF Over
  <2> HIDE DEF o
  <2>2. ASSUME NEW i \in 2..Len(s) + 1, o[i].link = "base" PROVE i = Len(s) + 1
    <3>1. i - 1 \in 1..Len(s) /\ (i - 1) + 1 = i
      BY <2>1
    <3>2. s[i - 1].link = "base"
      BY <2>1, <2>2, <3>1
    <3>3. i - 1 = Len(s)
      BY <2>1, <3>1, <3>2 DEF BaseLast
    <3> QED BY <2>1, <3>3
  <2>3. BaseLast(o)
    BY <2>1, <2>2 DEF BaseLast
  <2> QED BY <2>3 DEF o
<1>3. ASSUME NEW i \in 1..Len(s) PROVE BaseLast(RemoveAt(s, i))
  <2> DEFINE r == RemoveAt(s, i)
  <2>1. /\ r \in Seq(Layer) /\ Len(r) = Len(s) - 1
        /\ \A j \in 1..Len(s) - 1 : r[j] = IF j < i THEN s[j] ELSE s[j + 1]
    BY RemoveTyped
  <2> HIDE DEF r
  <2>2. DOMAIN r = 1..Len(s) - 1 /\ DOMAIN s = 1..Len(s) /\ Len(s) \in Nat
    BY <2>1
  <2>3. ASSUME NEW j \in 1..Len(s) - 1, r[j].link = "base" PROVE j = Len(s) - 1
    <3>1. CASE j < i
      <4>1. s[j].link = "base" /\ j \in DOMAIN s
        BY <2>1, <2>2, <2>3, <3>1
      <4> QED BY <2>2, <4>1 DEF BaseLast
    <3>2. CASE ~(j < i)
      <4>1. s[j + 1].link = "base" /\ j + 1 \in DOMAIN s
        BY <2>1, <2>2, <2>3, <3>2
      <4>2. j + 1 = Len(s)
        BY <4>1 DEF BaseLast
      <4>3. Len(s) \in Nat /\ j \in Nat
        BY <2>2
      <4> QED BY <4>2, <4>3
    <3> QED BY <3>1, <3>2
  <2>4. BaseLast(r)
    BY <2>1, <2>2, <2>3 DEF BaseLast
  <2> QED BY <2>4 DEF r
<1> QED BY <1>1, <1>2, <1>3

\* Between polls stacks are added that are plain.
LEMMA DropBetween ==
    ASSUME TypeInv, DropInv, hand' = hand, pc' \notin {"poll", "dispatch"},
           \A h \in DOMAIN local' : \/ h \in DOMAIN local /\ local'[h] = local[h]
                                    \/ \E t \in Task : local'[h] = Plain(t)
    PROVE  DropInv'
<1>1. \A t \in Task : BaseLast(Plain(t))
  BY DEF BaseLast, Plain
<1>2. \A h \in DOMAIN local' : BaseLast(local'[h])
  BY <1>1 DEF DropInv
<1> QED BY <1>2 DEF DropInv, InHand

\* Other threads, the owner and time: a new task is not in hand.
LEMMA DropOutside == ASSUME TypeInv, HeldInv, DropInv, Outside PROVE DropInv'
<1>1. CASE Submit
  <2>1. /\ UNCHANGED <<hand, at, local, yielded, pc>> /\ Newborn \in Unborn
        /\ fate' = [fate EXCEPT ![Newborn] = "live"] /\ fate \in [Task -> Fates]
        /\ hand \in Seq(Layer)
    BY <1>1, NewbornTyped
       DEF Submit, Engine, turn, Unborn, TypeInv, Typed, TasksTyped, PollTyped
  <2>2. \A i \in DOMAIN hand : fate'[hand[i].task] = fate[hand[i].task]
    <3>1. Newborn \notin TasksOf(hand)
      BY <2>1 DEF HeldInv, Placed
    <3> QED BY <2>1, <3>1 DEF TasksOf
  <2>3. hand # <<>> => 1 \in DOMAIN hand
    BY <2>1
  <2> QED BY <2>1, <2>2, <2>3 DEF DropInv, InHand
<1>2. ASSUME NEW h \in Entries, Ripen(h) PROVE DropInv'
  BY <1>2 DEF Ripen, tasks, turn, DropInv, InHand
<1>3. ASSUME NEW call, Engine(call, Newborn), Unborn # {}, hand' = hand,
             pc' \notin {"poll", "dispatch"}
      PROVE  DropInv'
  <2>1. \A h \in DOMAIN local' \ DOMAIN local : local'[h] = Plain(Newborn)
    BY <1>3, EngineStore
  <2>2. \A h \in DOMAIN local : local'[h] = local[h]
    BY <1>3, EngineStore
  <2> QED BY <1>3, <2>1, <2>2, DropBetween, NewbornTyped
<1>4. ASSUME NEW call \in OutsideCalls, CallOutside(call) PROVE DropInv'
  BY <1>3, <1>4 DEF CallOutside, turn
<1>5. ASSUME NEW key \in 1..issued, LiftOutside(key) PROVE DropInv'
  <2>1. hand' = hand /\ Unborn # {} /\ pc' \notin {"poll", "dispatch"}
    BY <1>5 DEF LiftOutside, turn
  <2>2. CASE Engine("lift", Newborn)
    BY <1>3, <2>1, <2>2
  <2>3. CASE UNCHANGED local
    BY <2>1, <2>3, DropBetween
  <2> QED BY <1>5, <2>2, <2>3 DEF LiftOutside
<1> QED BY <1>1, <1>2, <1>4, <1>5 DEF Outside

\* A step of the running task: what ends at the bottom is alone, what fails first
\* stays in front.
LEMMA DropPoll == ASSUME TypeInv, HeldInv, DropInv, Poll PROVE DropInv'
<1>1. PICK m \in Moves :
        PollEnded(m[1], m[2]) \/ PollSequenced(m[1], m[2]) \/ PollReturns(m[1], m[2])
  BY DEF Poll
<1>2. /\ Step(m[1], m[2]) /\ pc = "poll" /\ InHand /\ at \in 1..Len(hand)
      /\ hand \in Seq(Layer) /\ DOMAIN hand = 1..Len(hand) /\ Len(hand) \in Nat
      /\ yielded # "unset" => at >= 2
      /\ m \in AllMoves
  BY <1>1, ExecutorAssumption
     DEF PollEnded, PollSequenced, PollReturns, Step, InHand, TypeInv, Typed, PollTyped
<1>3. Running \in Task /\ \A i \in DOMAIN hand : hand[i].task \in Task
  <2>1. \A i \in DOMAIN hand : hand[i] \in Layer
    BY <1>2
  <2> QED BY <1>2, <2>1 DEF Running, Layer
<1>4. /\ yielded \notin Ends /\ (yielded = "unset" => at = 1)
      /\ m[2] # "unset"
  BY <1>2 DEF DropInv, AllMoves
<1>5. \A h \in DOMAIN local' : BaseLast(local'[h])
  <2>1. \A t \in Task : BaseLast(Plain(t))
    BY DEF BaseLast, Plain
  <2>2. Engine(m[1], Newborn) /\ (m[1] = "nothing" \/ Newborn \in Task)
    BY <1>2, NewbornTyped DEF Step, MayDo
  <2>3. m[1] = "nothing" => local' = local
    BY <2>2 DEF Engine
  <2>4. \A h \in DOMAIN local' : \/ h \in DOMAIN local /\ local'[h] = local[h]
                                 \/ local'[h] = Plain(Newborn)
    BY <2>2, EngineStore
  <2> QED BY <2>1, <2>2, <2>3, <2>4 DEF DropInv
<1>6. \A t \in Task : fate[t] = "failed" => fate'[t] = "failed"
  <2>1. m[1] # "nothing" => fate[Newborn] = "unborn"
    BY <1>2, NewbornTyped DEF Step, MayDo
  <2> QED BY <1>2, <2>1 DEF Step, Spawns, FateAfter
<1>7. fate'[Running] = FateAfter(m[2])
  BY <1>2, <1>3 DEF Step
<1>8. CASE PollEnded(m[1], m[2])
  <2>1. hand' = RemoveAt(hand, at)
    BY <1>8 DEF PollEnded
  <2>2. /\ Len(hand') = Len(hand) - 1 /\ hand' \in Seq(Layer)
        /\ \A j \in 1..Len(hand) - 1 : hand'[j] = IF j < at THEN hand[j] ELSE hand[j + 1]
    BY <1>2, <2>1, RemoveTyped
  <2>3. BaseLast(hand')
    BY <1>2, <1>3, <2>1, BaseFacts DEF DropInv
  <2>4. ASSUME yielded \in {"panicked", "spawn_failed"}
        PROVE  hand' # <<>> /\ fate'[hand'[1].task] = "failed"
    <3>1. at >= 2 /\ 1 \in 1..Len(hand) - 1
      BY <1>2, <2>4
    <3>2. hand'[1] = hand[1]
      BY <1>2, <2>2, <3>1
    <3>3. Len(hand') # 0
      BY <1>2, <2>2, <3>1
    <3>4. hand' # <<>>
      BY <3>3
    <3> QED BY <1>2, <1>3, <1>6, <2>4, <3>1, <3>2, <3>4 DEF DropInv
  <2>5. CASE at < Len(hand)
    <3>1. pc' = "poll" /\ UNCHANGED <<at, yielded>>
      BY <1>8, <2>5 DEF PollEnded
    <3> QED BY <1>4, <1>5, <2>3, <2>4, <3>1 DEF DropInv
  <2>6. CASE ~(at < Len(hand)) /\ yielded = "unset"
    <3>1. pc' = "dispatch" /\ yielded' = "none"
      BY <1>8, <2>6 DEF PollEnded, Yield
    <3>2. DOMAIN hand' = {}
      BY <1>2, <1>4, <2>2, <2>6
    <3> QED BY <1>5, <2>3, <3>1, <3>2 DEF DropInv
  <2>7. CASE ~(at < Len(hand)) /\ yielded # "unset"
    <3>1. pc' = "dispatch" /\ yielded' = yielded
      BY <1>8, <2>7 DEF PollEnded, Yield
    <3> QED BY <1>4, <1>5, <2>3, <2>4, <3>1 DEF DropInv
  <2> QED BY <2>5, <2>6, <2>7
<1>9. ASSUME PollSequenced(m[1], m[2]) \/ PollReturns(m[1], m[2])
      PROVE  DropInv'
  <2>1. /\ hand' = hand /\ Yield(m[2]) /\ ~Dropped(m[2]) /\ hand # <<>>
        /\ yielded' # "unset"
    BY <1>2, <1>4, <1>9 DEF PollSequenced, PollReturns, Yield
  <2>2. ASSUME yielded' \in {"panicked", "spawn_failed"}
        PROVE  fate'[hand[1].task] = "failed"
    <3>1. CASE yielded = "unset"
      <4>1. m[2] \in {"panicked", "spawn_failed"} /\ Running = hand[1].task
        BY <1>4, <2>1, <2>2, <3>1 DEF Yield, Running
      <4>2. FateAfter(m[2]) = "failed"
        BY <1>2, <3>1, <4>1 DEF Step, MayDo, FateAfter, Ends
      <4> QED BY <1>7, <4>1, <4>2
    <3>2. CASE yielded # "unset"
      <4>1. fate[hand[1].task] = "failed" /\ 1 \in DOMAIN hand
        BY <1>2, <2>1, <2>2, <3>2 DEF Yield, DropInv
      <4> QED BY <1>3, <1>6, <4>1
    <3> QED BY <3>1, <3>2
  <2>3. CASE PollSequenced(m[1], m[2])
    <3>1. yielded' \notin Ends
      BY <1>4, <2>1, <2>3 DEF PollSequenced, Yield, Dropped
    <3> QED BY <1>5, <2>1, <2>2, <3>1 DEF DropInv
  <2>4. CASE PollReturns(m[1], m[2])
    <3>1. pc' = "dispatch" /\ hand[at].link # "dual"
      BY <2>4 DEF PollReturns
    <3>2. ASSUME yielded' \in Ends, NEW i \in DOMAIN hand
          PROVE  fate'[hand[i].task] # "live"
      <4>1. yielded = "unset" /\ at = 1 /\ m[2] \in Ends
        BY <1>4, <2>1, <3>2 DEF Yield
      <4>2. hand[at].link = "base"
        BY <2>1, <4>1 DEF Dropped
      <4>3. Len(hand) = 1
        BY <1>2, <4>1, <4>2 DEF DropInv, BaseLast
      <4>4. hand[i].task = Running
        BY <1>2, <4>1, <4>3 DEF Running
      <4> QED BY <1>7, <4>1, <4>4 DEF FateAfter
    <3> QED BY <1>5, <2>1, <2>2, <3>1, <3>2 DEF DropInv
  <2> QED BY <1>9, <2>3, <2>4
<1> QED BY <1>1, <1>8, <1>9

\* The stack taken in hand has no State yet; the one put back is the one polled,
\* or it has the child over it.
LEMMA DropTurn ==
    ASSUME TypeInv, HeldInv, DropInv, PickTop \/ Dispatch
    PROVE  DropInv'
<1> USE DEF InHand
<1>1. CASE PickTop
  <2>1. yielded = "unset" /\ yielded' = yielded /\ pc = "work"
    BY <1>1 DEF PickTop, TypeInv, Typed, PollTyped
  <2>2. CASE hand' = hand /\ local' = local /\ pc' \notin {"poll", "dispatch"}
    BY <2>2 DEF DropInv
  <2>3. CASE Head(processing) \in DOMAIN local /\ Head(processing) \notin packed
    <3>1. /\ hand' = local[Head(processing)] /\ at' = 1 /\ pc' = "poll"
          /\ local' = Minus(local, Head(processing))
      BY <1>1, <2>3 DEF PickTop, Without, Minus
    <3>2. \A h \in DOMAIN local' : BaseLast(local'[h])
      BY <3>1 DEF DropInv, Minus
    <3> QED BY <2>1, <2>3, <3>1, <3>2 DEF DropInv, Ends
  <2> QED BY <1>1, <2>2, <2>3 DEF PickTop
<1>2. ASSUME Discard \/ Requeue \/ Sleep \/ Compose PROVE DropInv'
  <2>1. hand' = <<>> /\ pc' = "settle" /\ hand \in Seq(Layer) /\ BaseLast(hand')
    BY <1>2 DEF Discard, Requeue, Sleep, Compose, EndPoll, BaseLast, TypeInv, Typed,
       PollTyped
  <2>2. \A h \in DOMAIN local' : BaseLast(local'[h])
    <3>1. CASE Discard
      BY <3>1 DEF Discard, DropInv
    <3>2. CASE Requeue \/ Sleep
      <4>1. local' = With(local, current, hand)
        BY <3>2 DEF Requeue, Sleep
      <4> QED BY <4>1 DEF DropInv, With
    <3>3. CASE Compose
      <4> DEFINE x == local[child][1].task
      <4>1. PICK link \in {"finish", "dual"} :
              local' = With(Without({child}), issued + 1, Over(link, x, hand))
        BY <3>3 DEF Compose
      <4>2. x \in Task
        <5>1. local[child] \in Seq(Layer) /\ Len(local[child]) = 1
          BY <3>3 DEF Compose, HeldInv, TypeInv, Typed, StoreTyped
        <5>2. local[child][1] \in Layer
          BY <5>1
        <5> QED BY <5>2 DEF Layer
      <4>3. BaseLast(Over(link, x, hand))
        BY <2>1, <4>2, BaseFacts DEF DropInv
      <4> HIDE DEF x
      <4> QED BY <4>1, <4>3 DEF DropInv, With, Without
    <3> QED BY <1>2, <3>1, <3>2, <3>3
  <2> QED BY <2>1, <2>2 DEF DropInv
<1>3. CASE ComposeWithoutParent
  BY <1>3 DEF ComposeWithoutParent, turn, DropInv
<1> QED BY <1>1, <1>2, <1>3 DEF Dispatch

\* Every step keeps it.
LEMMA DropNext == TypeInv /\ HeldInv /\ DropInv /\ [Next]_vars => DropInv'
<1> SUFFICES ASSUME TypeInv, HeldInv, DropInv, [Next]_vars PROVE DropInv'
  OBVIOUS
<1>1. CASE Request \/ SpinSchedule
  <2>1. hand' = hand /\ pc' \notin {"poll", "dispatch"}
    BY <1>1 DEF Request, SpinSchedule, turn
  <2>2. CASE Acquire /\ global # <<>>
    <3>1. local' = With(local, issued + 1, Plain(Head(global))) /\ Head(global) \in Task
      BY <2>2 DEF Acquire, TypeInv, Typed, StoreTyped
    <3> QED BY <2>1, <3>1, DropBetween DEF With
  <2>3. CASE local' = local
    BY <2>1, <2>3, DropBetween
  <2> QED BY <1>1, <2>2, <2>3 DEF Request, SpinSchedule
<1>2. CASE \/ Run \/ Wake \/ NothingToRun \/ SettleProgress \/ SettleNoWorkAsleep
           \/ SettleNoWorkIdle \/ SettleSpin \/ Loop
  <2>1. hand' = hand /\ local' = local /\ pc' \notin {"poll", "dispatch"}
    BY <1>2 DEF Run, Wake, NothingToRun, SettleProgress, SettleNoWorkAsleep,
       SettleNoWorkIdle, SettleSpin, Loop, turn
  <2> QED BY <2>1, DropBetween
<1>3. CASE UNCHANGED vars
  BY <1>3 DEF vars, tasks, turn, DropInv, InHand
<1> QED BY <1>1, <1>2, <1>3, DropOutside, DropPoll, DropTurn DEF Next, Turn

\* For any tasks and any use made of the executor, a live task is dropped only
\* when another task of its stack has failed: that children end, that parents do,
\* and what composites discard, costs nobody else its life (the composites of
\* dependent_lift.rs and the removing arms of do_work).
THEOREM DropsCorrect == Spec => DropsOnlyAfterFailure
<1>1. Init => DropInv
  BY DEF Init, DropInv, BaseLast, InHand
<1>2. TypeInv /\ HeldInv /\ DropInv /\ [Next]_vars =>
        [\A t \in Task : (fate[t] = "live" /\ fate'[t] = "dropped") =>
            \E i \in DOMAIN hand : fate[hand[i].task] = "failed"]_vars
  <2> SUFFICES ASSUME TypeInv, HeldInv, DropInv, Next, NEW t \in Task,
                      fate[t] = "live", fate'[t] = "dropped"
               PROVE  \E i \in DOMAIN hand : fate[hand[i].task] = "failed"
    BY DEF vars, tasks
  <2>1. ~Outside
    <3>1. Unborn # {} => Newborn \in Task /\ fate[Newborn] = "unborn"
      BY NewbornTyped
    <3>2. fate \in [Task -> Fates]
      BY DEF TypeInv, Typed, TasksTyped
    <3>3. ASSUME Unborn # {} PROVE fate' # [fate EXCEPT ![Newborn] = "live"]
      BY <3>1, <3>2, <3>3
    <3>4. ~(fate' = fate)
      OBVIOUS
    <3>5. ~Submit
      BY <3>3 DEF Submit
    <3>6. \A h \in Entries : ~Ripen(h)
      BY <3>4 DEF Ripen, tasks
    <3>7. \A call \in OutsideCalls : ~CallOutside(call)
      BY <3>3 DEF CallOutside
    <3>8. \A key \in 1..issued : ~LiftOutside(key)
      BY <3>3, <3>4 DEF LiftOutside
    <3> QED BY <3>5, <3>6, <3>7, <3>8 DEF Outside
  <2>2. ~Poll
    BY DEF Poll, PollEnded, PollSequenced, PollReturns, Step, FateAfter
  <2>3. Discard
    BY <2>1, <2>2 DEF Next, Turn, Run, Request, Wake, NothingToRun, PickTop, Dispatch,
       Requeue, Sleep, Compose, ComposeWithoutParent, SettleProgress,
       SettleNoWorkAsleep, SettleNoWorkIdle, SettleSpin, SpinSchedule, Loop, tasks
  <2>4. /\ pc = "dispatch" /\ yielded \in Final
        /\ \E i \in DOMAIN hand : hand[i].task = t
    BY <2>3 DEF Discard
  <2>5. yielded \in {"panicked", "spawn_failed"}
    BY <2>4 DEF DropInv, Final
  <2>6. hand # <<>> /\ fate[hand[1].task] = "failed" /\ hand \in Seq(Layer)
    BY <2>4, <2>5 DEF DropInv, InHand, TypeInv, Typed, PollTyped
  <2>7. 1 \in DOMAIN hand
    BY <2>6
  <2> QED BY <2>6, <2>7
<1> QED BY <1>1, <1>2, DropNext, HeldInit, HeldNext, TypedInit, TypedNext, PTL
        DEF Spec, DropsOnlyAfterFailure
=============================================================================
