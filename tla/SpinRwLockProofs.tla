-------------------------- MODULE SpinRwLockProofs --------------------------
(***************************************************************************)
(* Proofs about SpinRwLock, for all three locks and every number of        *)
(* threads.  The word counts the read guards, a writer's word has the      *)
(* active flag and no readers, and what a thread is about to compare the   *)
(* word with had room for it.                                              *)
(***************************************************************************)
EXTENDS SpinRwLock, ThreadsProofs

WordCounts == rwState.readers = Cardinality(In(rwPlace, {"reading"}))

WriterAlone == \A t \in Thread : rwPlace[t] = "writing" =>
                 /\ rwState.active = 1
                 /\ rwState.readers = 0
                 /\ \A u \in Thread : rwPlace[u] = "writing" => u = t

SeenFits == \A t \in Thread :
              /\ rwPlace[t] = "readCas" => rwSeen[t].active = 0 /\ rwSeen[t].readers < MaxReaders
              /\ rwPlace[t] = "writeCas" => rwSeen[t].active = 0 /\ rwSeen[t].readers = 0

RwInd == RwTypeOK /\ WordCounts /\ WriterAlone /\ SeenFits /\ RwFlagOwned

LEMMA RwIndInit == RwInit => RwInd
<1> SUFFICES ASSUME RwInit PROVE RwInd
  OBVIOUS
<1> USE MaxReadersAssumption DEF RwInit, Unlocked
<1>1. RwTypeOK
  BY DEF RwTypeOK, RwStates, RwPlaces
<1>2. Cardinality(In(rwPlace, {"reading"})) = 0
  BY InNone
<1>3. WriterAlone /\ SeenFits /\ RwFlagOwned
  BY DEF WriterAlone, SeenFits, RwFlagOwned
<1> QED BY <1>1, <1>2, <1>3 DEF RwInd, WordCounts

\* The types; only the reader count needs more than the step itself.
LEMMA RwTypeStep ==
  ASSUME RwInd, NEW t \in Thread, ReaderStep(t) \/ WriterStep(t)
  PROVE  RwTypeOK'
<1> USE MaxReadersAssumption DEF RwInd, RwTypeOK, RwStates, RwPlaces, RwGo, RwLoad, Unlocked, WriterActive
<1>1. CASE ReadLoad(t) \/ ReadCasFails(t)
  BY <1>1 DEF ReadLoad, ReadCasFails
<1>2. CASE ReadCas(t)
  <2>1. rwState.readers < MaxReaders
    BY <1>2 DEF ReadCas, SeenFits
  <2> QED BY <1>2, <2>1 DEF ReadCas
<1>3. CASE ReadDrop(t)
  <2> DEFINE g == [rwPlace EXCEPT ![t] = "out"]
  <2>1. Cardinality(In(rwPlace, {"reading"})) > 0
    <3>1. rwPlace[t] \in {"reading"} /\ g[t] \notin {"reading"} /\ \A u \in Thread : u # t => g[u] = rwPlace[u]
      BY <1>3 DEF ReadDrop
    <3> HIDE DEF g
    <3> QED BY <3>1, InLeave
  <2>2. rwState.readers - 1 \in 0..MaxReaders
    BY <2>1 DEF WordCounts
  <2> QED BY <1>3, <2>2 DEF ReadDrop
<1>4. CASE WriteFast(t) \/ WriteSlow(t) \/ AnnounceOr(t) \/ WriteDrop(t)
  BY <1>4 DEF WriteFast, WriteSlow, AnnounceOr, WriteDrop
<1>5. CASE AnnounceLoad(t) \/ AnnounceCas(t) \/ AnnounceCasFails(t)
  BY <1>5 DEF AnnounceLoad, AnnounceCas, AnnounceCasFails
<1>6. CASE WriteLoad(t) \/ WriteCas(t) \/ WriteCasFails(t)
  BY <1>6 DEF WriteLoad, WriteCas, WriteCasFails
<1> QED BY <1>1, <1>2, <1>3, <1>4, <1>5, <1>6 DEF ReaderStep, WriterStep

\* The reader count moves with the threads that hold a read guard.
LEMMA RwCountStep ==
  ASSUME RwInd, NEW t \in Thread, ReaderStep(t) \/ WriterStep(t)
  PROVE  WordCounts'
<1> USE DEF RwInd, RwTypeOK, RwGo, WordCounts
<1> DEFINE R == {"reading"}
<1>1. \A u \in Thread : u # t => rwPlace'[u] = rwPlace[u]
  BY DEF ReaderStep, WriterStep, ReadLoad, ReadCas, ReadCasFails, ReadDrop, WriteFast, WriteSlow, AnnounceOr,
         AnnounceLoad, AnnounceCas, AnnounceCasFails, WriteLoad, WriteCas, WriteCasFails, WriteDrop
<1>2. CASE ReadCas(t)
  <2>1. rwPlace[t] \notin R /\ rwPlace'[t] \in R /\ rwState'.readers = rwState.readers + 1
    BY <1>2 DEF ReadCas, RwStates
  <2> HIDE DEF R
  <2>2. Cardinality(In(rwPlace', R)) = Cardinality(In(rwPlace, R)) + 1
    BY <1>1, <2>1, InEnter
  <2> QED BY <2>1, <2>2 DEF R, In
<1>3. CASE ReadDrop(t)
  <2>1. rwPlace[t] \in R /\ rwPlace'[t] \notin R /\ rwState'.readers = rwState.readers - 1
    BY <1>3 DEF ReadDrop, RwStates
  <2> HIDE DEF R
  <2>2. Cardinality(In(rwPlace', R)) = Cardinality(In(rwPlace, R)) - 1
    BY <1>1, <2>1, InLeave
  <2> QED BY <2>1, <2>2 DEF R, In
<1>4. CASE ReadLoad(t) \/ ReadCasFails(t) \/ WriterStep(t)
  <2>1. (rwPlace[t] \in R <=> rwPlace'[t] \in R)
    BY <1>4 DEF WriterStep, ReadLoad, ReadCasFails, WriteFast, WriteSlow, AnnounceOr,
         AnnounceLoad, AnnounceCas, AnnounceCasFails, WriteLoad, WriteCas, WriteCasFails, WriteDrop
  <2>2. rwState'.readers = rwState.readers
    <3>1. CASE WriteDrop(t)
      BY <3>1 DEF WriteDrop, WriterAlone, Unlocked
    <3>2. CASE WriteCas(t)
      BY <3>2 DEF WriteCas, SeenFits, WriterActive, Unlocked
    <3> QED BY <1>4, <3>1, <3>2 DEF WriterStep, ReadLoad, ReadCasFails, WriteFast, WriteSlow, AnnounceOr,
         AnnounceLoad, AnnounceCas, AnnounceCasFails, WriteLoad, WriteCasFails, RwStates, Unlocked, WriterActive
  <2> HIDE DEF R
  <2>3. In(rwPlace', R) = In(rwPlace, R)
    BY <1>1, <2>1, InStay
  <2> QED BY <2>2, <2>3 DEF R, In
<1> QED BY <1>2, <1>3, <1>4 DEF ReaderStep

\* A reader gets in only where the word shows no writer, a writer only where
\* it shows nobody.
LEMMA RwAloneStep ==
  ASSUME RwInd, NEW t \in Thread, ReaderStep(t) \/ WriterStep(t)
  PROVE  WriterAlone' /\ SeenFits'
<1> USE DEF RwInd, RwTypeOK, RwStates, RwGo, RwLoad, WriterAlone, SeenFits
<1>1. CASE ReadLoad(t)
  BY <1>1 DEF ReadLoad, ReadersMayEnter
<1>2. CASE ReadCas(t)
  BY <1>2 DEF ReadCas
<1>3. CASE ReadCasFails(t)
  BY <1>3 DEF ReadCasFails
<1>4. CASE ReadDrop(t)
  <2>1. rwPlace[t] \in {"reading"} /\ rwState.readers # 0
    BY <1>4, InNone DEF ReadDrop, WordCounts
  <2> QED BY <1>4, <2>1 DEF ReadDrop
<1>5. CASE WriteFast(t)
  BY <1>5 DEF WriteFast, Unlocked, WriterActive
<1>6. CASE WriteSlow(t) \/ AnnounceOr(t) \/ AnnounceLoad(t) \/ AnnounceCas(t) \/ AnnounceCasFails(t)
  BY <1>6 DEF WriteSlow, AnnounceOr, AnnounceLoad, AnnounceCas, AnnounceCasFails
<1>7. CASE WriteLoad(t)
  BY <1>7 DEF WriteLoad
<1>8. CASE WriteCas(t)
  BY <1>8 DEF WriteCas, WriterActive, Unlocked
<1>9. CASE WriteCasFails(t)
  BY <1>9 DEF WriteCasFails
<1>10. CASE WriteDrop(t)
  BY <1>10 DEF WriteDrop, Unlocked
<1> QED BY <1>1, <1>2, <1>3, <1>4, <1>5, <1>6, <1>7, <1>8, <1>9, <1>10 DEF ReaderStep, WriterStep

\* Only a writer that gets in, or one that leaves, takes the flag away, and
\* until it gets in a writer that has set it stays where it is.
LEMMA RwFlagStep ==
  ASSUME RwInd, NEW t \in Thread, ReaderStep(t) \/ WriterStep(t)
  PROVE  RwFlagOwned'
<1> USE DEF RwInd, RwTypeOK, RwStates, RwGo, RwLoad, RwFlagOwned, In
<1>1. CASE ReaderStep(t)
  BY <1>1 DEF ReaderStep, ReadLoad, ReadCas, ReadCasFails, ReadDrop
<1>2. CASE WriteFast(t) \/ WriteCas(t) \/ WriteDrop(t)
  BY <1>2 DEF WriteFast, WriteCas, WriteDrop, Unlocked, WriterActive
<1>3. CASE WriteSlow(t) \/ AnnounceOr(t)
  BY <1>3 DEF WriteSlow, AnnounceOr
<1>4. CASE AnnounceLoad(t) \/ AnnounceCas(t) \/ AnnounceCasFails(t)
  BY <1>4 DEF AnnounceLoad, AnnounceCas, AnnounceCasFails
<1>5. CASE WriteLoad(t) \/ WriteCasFails(t)
  BY <1>5 DEF WriteLoad, WriteCasFails
<1> QED BY <1>1, <1>2, <1>3, <1>4, <1>5 DEF WriterStep

LEMMA RwIndStep == RwInd /\ [RwNext]_rwVars => RwInd'
<1> SUFFICES ASSUME RwInd, [RwNext]_rwVars PROVE RwInd'
  OBVIOUS
<1>1. ASSUME NEW t \in Thread, ReaderStep(t) \/ WriterStep(t) PROVE RwInd'
  BY <1>1, RwTypeStep, RwCountStep, RwAloneStep, RwFlagStep DEF RwInd
<1>2. CASE UNCHANGED rwVars
  <2>1. RwTypeOK' /\ WriterAlone' /\ SeenFits'
    BY <1>2 DEF RwInd, rwVars, RwTypeOK, WriterAlone, SeenFits
  <2>2. WordCounts' /\ RwFlagOwned'
    BY <1>2 DEF RwInd, rwVars, WordCounts, RwFlagOwned, In
  <2> QED BY <2>1, <2>2 DEF RwInd
<1> QED BY <1>1, <1>2 DEF RwNext

LEMMA RwIndAlways == RwSpec => []RwInd
BY RwIndInit, RwIndStep, PTL DEF RwSpec

\* The word of the lock: no reader count runs into the flags or wraps, however
\* many threads read and give up.
THEOREM RwTypeCorrect == RwSpec => []RwTypeOK
<1>1. RwInd => RwTypeOK
  BY DEF RwInd
<1> QED BY <1>1, RwIndAlways, PTL

\* Read and write guards: a writer is alone, in all three locks.
THEOREM RwExclusive == RwSpec => []RwExclusion
<1>1. RwInd => RwExclusion
  <2> SUFFICES ASSUME RwInd, NEW t \in Thread, rwPlace[t] = "writing",
                      NEW u \in Thread, rwPlace[u] \in {"reading", "writing"}
               PROVE  u = t
    BY DEF RwExclusion, In
  <2>1. rwState.readers = 0
    BY DEF RwInd, WriterAlone
  <2>2. rwPlace[u] \notin {"reading"}
    BY <2>1, InNone DEF RwInd, WordCounts
  <2> QED BY <2>2 DEF RwInd, WriterAlone
<1> QED BY <1>1, RwIndAlways, PTL

\* Where nobody reads or writes according to the word, nobody does.
LEMMA WordIsTrue ==
  ASSUME RwInd
  PROVE  /\ rwState.readers = 0 => In(rwPlace, {"reading"}) = {}
         /\ rwState.active = 0 => In(rwPlace, {"writing"}) = {}
<1>1. rwState.readers = 0 => \A t \in Thread : rwPlace[t] \notin {"reading"}
  BY InNone DEF RwInd, WordCounts
<1>2. rwState.active = 0 => \A t \in Thread : rwPlace[t] \notin {"writing"}
  BY DEF RwInd, WriterAlone
<1> QED BY <1>1, <1>2 DEF In

\* Each step of the lock is a step of a read-write lock, or changes no guard.
LEMMA RwRefines ==
  ASSUME RwInd, NEW t \in Thread, ReaderStep(t) \/ WriterStep(t)
  PROVE  [Lock!Next]_(Lock!guards)
<1> USE DEF RwInd, RwTypeOK, RwGo, Lock!Next, Lock!guards
<1>1. CASE ReadCas(t)
  <2>1. rwState.active = 0
    BY <1>1 DEF ReadCas, SeenFits
  <2>2. In(rwPlace, {"writing"}) = {} /\ In(rwPlace, {"writing"})' = {}
    BY <1>1, <2>1, WordIsTrue DEF ReadCas, In
  <2>3. t \notin In(rwPlace, {"reading"})
        /\ In(rwPlace, {"reading"})' = In(rwPlace, {"reading"}) \cup {t}
    BY <1>1 DEF ReadCas, In
  <2> QED BY <2>2, <2>3 DEF Lock!Read
<1>2. CASE ReadDrop(t)
  <2>1. In(rwPlace, {"writing"})' = In(rwPlace, {"writing"})
    BY <1>2 DEF ReadDrop, In
  <2>2. t \in In(rwPlace, {"reading"})
        /\ In(rwPlace, {"reading"})' = In(rwPlace, {"reading"}) \ {t}
    BY <1>2 DEF ReadDrop, In
  <2> QED BY <2>1, <2>2 DEF Lock!DropRead
<1>3. CASE WriteFast(t) \/ WriteCas(t)
  <2>1. rwState.readers = 0 /\ rwState.active = 0
    BY <1>3 DEF WriteFast, WriteCas, SeenFits, Unlocked
  <2>2. In(rwPlace, {"reading"}) = {} /\ In(rwPlace, {"writing"}) = {}
    BY <2>1, WordIsTrue
  <2>3. In(rwPlace, {"reading"})' = {} /\ In(rwPlace, {"writing"})' = {t}
    BY <1>3, <2>2 DEF WriteFast, WriteCas, In
  <2> QED BY <2>2, <2>3 DEF Lock!Write
<1>4. CASE WriteDrop(t)
  <2>1. In(rwPlace, {"reading"})' = In(rwPlace, {"reading"})
    BY <1>4 DEF WriteDrop, In
  <2>2. t \in In(rwPlace, {"writing"})
        /\ In(rwPlace, {"writing"})' = In(rwPlace, {"writing"}) \ {t}
    BY <1>4 DEF WriteDrop, In
  <2> QED BY <2>1, <2>2 DEF Lock!DropWrite
<1>5. CASE \/ ReadLoad(t) \/ ReadCasFails(t) \/ WriteSlow(t) \/ AnnounceOr(t) \/ AnnounceLoad(t)
           \/ AnnounceCas(t) \/ AnnounceCasFails(t) \/ WriteLoad(t) \/ WriteCasFails(t)
  <2>1. In(rwPlace, {"reading"})' = In(rwPlace, {"reading"})
        /\ In(rwPlace, {"writing"})' = In(rwPlace, {"writing"})
    BY <1>5 DEF ReadLoad, ReadCasFails, WriteSlow, AnnounceOr, AnnounceLoad, AnnounceCas,
                AnnounceCasFails, WriteLoad, WriteCasFails, In
  <2> QED BY <2>1
<1> QED BY <1>1, <1>2, <1>3, <1>4, <1>5 DEF ReaderStep, WriterStep

\* The spin locks implement a read-write lock, for every number of threads.
THEOREM RwImplements == RwSpec => IsReadWriteLock
<1>1. RwInit => Lock!Init
  BY DEF RwInit, Lock!Init, In
<1>2. RwInd /\ [RwNext]_rwVars => [Lock!Next]_(Lock!guards)
  <2>1. CASE UNCHANGED rwVars
    BY <2>1 DEF rwVars, Lock!guards, In
  <2> QED BY <2>1, RwRefines DEF RwNext
<1> QED BY <1>1, <1>2, RwIndAlways, PTL DEF RwSpec, IsReadWriteLock, Lock!Spec

\* The writer-waiting flag: never left behind without a writer that clears it.
THEOREM RwNotShutOut == RwSpec => []RwFlagOwned
<1>1. RwInd => RwFlagOwned
  BY DEF RwInd
<1> QED BY <1>1, RwIndAlways, PTL
=============================================================================
