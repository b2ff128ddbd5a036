----------------------------- MODULE SpinRwLock -----------------------------
(***************************************************************************)
(* The three read-write spin locks of foundation_nostd: SpinRwLock and     *)
(* RawSpinRwLock, in which a writer announces itself to keep new readers   *)
(* out, and ReaderSpinRwLock, which has no such flag.  The state word is a *)
(* record of its three bit fields; compare_exchange compares all of them.  *)
(* A thread that spins in read() or write() before it has announced itself *)
(* is "out", like one that has got WouldBlock from a try_ variant: both    *)
(* come back to the same load.  Nothing in the code ever sets the separate *)
(* poison flag, so it is left out.                                         *)
(***************************************************************************)
EXTENDS Integers, Threads

CONSTANT MaxReaders  \* MAX_READERS

ASSUME MaxReadersAssumption == MaxReaders \in Nat

VARIABLES rwKind,  \* which of the three locks this is
          rwState, \* state: AtomicU32
          rwSeen,  \* what each thread loaded last
          rwPlace  \* where each thread is

rwVars == <<rwKind, rwState, rwSeen, rwPlace>>

RwKinds == {"SpinRwLock", "RawSpinRwLock", "ReaderSpinRwLock"}
RwPlaces == {"out", "readCas", "reading", "announce", "announceCas",
             "writeLoad", "writeCas", "writing"}

Unlocked == [readers |-> 0, waiting |-> 0, active |-> 0]
WriterActive == [Unlocked EXCEPT !.active = 1]

RwGo(t, p) == rwPlace' = [rwPlace EXCEPT ![t] = p]
RwLoad(t) == rwSeen' = [rwSeen EXCEPT ![t] = rwState]

RwInit == /\ rwKind \in RwKinds
          /\ rwState = Unlocked
          /\ rwSeen = [t \in Thread |-> Unlocked]
          /\ rwPlace = [t \in Thread |-> "out"]

\* One reader too many.
OneMoreReader(s) == /\ s.active = 0
                    /\ rwKind = "ReaderSpinRwLock" \/ s.waiting = 0
                    /\ s.readers <= MaxReaders

ReadersMayEnter(s) == /\ s.active = 0
                      /\ rwKind = "ReaderSpinRwLock" \/ s.waiting = 0
                      /\ s.readers < MaxReaders

ReadLoad(t) == /\ rwPlace[t] = "out"
               /\ ReadersMayEnter(rwState)
               /\ RwLoad(t)
               /\ RwGo(t, "readCas")
               /\ UNCHANGED <<rwKind, rwState>>

\* A load and a store in place of the compare_exchange.
ReadStore(t) == /\ rwPlace[t] = "readCas"
                /\ rwState' = [rwSeen[t] EXCEPT !.readers = @ + 1]
                /\ RwGo(t, "reading")
                /\ UNCHANGED <<rwKind, rwSeen>>

ReadCas(t) == /\ rwPlace[t] = "readCas"
              /\ rwState = rwSeen[t]
              /\ rwState' = [rwState EXCEPT !.readers = @ + 1]
              /\ RwGo(t, "reading")
              /\ UNCHANGED <<rwKind, rwSeen>>

(* Two of the locks use compare_exchange_weak, which may fail on its own. *)
ReadCasFails(t) == /\ rwPlace[t] = "readCas"
                   /\ rwState # rwSeen[t] \/ rwKind # "SpinRwLock"
                   /\ RwGo(t, "out")
                   /\ UNCHANGED <<rwKind, rwState, rwSeen>>

ReadDrop(t) == /\ rwPlace[t] = "reading"
               /\ rwState' = [rwState EXCEPT !.readers = @ - 1]
               /\ RwGo(t, "out")
               /\ UNCHANGED <<rwKind, rwSeen>>

(* The fast path of write(), all of try_write(), and all of write() of the
   reader-preferring lock. *)
WriteFast(t) == /\ rwPlace[t] = "out"
                /\ rwState = Unlocked
                /\ rwState' = WriterActive
                /\ RwGo(t, "writing")
                /\ UNCHANGED <<rwKind, rwSeen>>

WriteSlow(t) == /\ rwPlace[t] = "out"
                /\ rwState # Unlocked
                /\ rwKind # "ReaderSpinRwLock"
                /\ RwGo(t, "announce")
                /\ UNCHANGED <<rwKind, rwState, rwSeen>>

(* SpinRwLock: one fetch_or.  RawSpinRwLock: a load that must find the flag
   clear and a compare_exchange_weak. *)
AnnounceOr(t) == /\ rwPlace[t] = "announce"
                 /\ rwKind = "SpinRwLock"
                 /\ rwState' = [rwState EXCEPT !.waiting = 1]
                 /\ RwGo(t, "writeLoad")
                 /\ UNCHANGED <<rwKind, rwSeen>>

AnnounceLoad(t) == /\ rwPlace[t] = "announce"
                   /\ rwKind = "RawSpinRwLock"
                   /\ rwState.waiting = 0
                   /\ RwLoad(t)
                   /\ RwGo(t, "announceCas")
                   /\ UNCHANGED <<rwKind, rwState>>

AnnounceCas(t) == /\ rwPlace[t] = "announceCas"
                  /\ rwState = rwSeen[t]
                  /\ rwState' = [rwState EXCEPT !.waiting = 1]
                  /\ RwGo(t, "writeLoad")
                  /\ UNCHANGED <<rwKind, rwSeen>>

AnnounceCasFails(t) == /\ rwPlace[t] = "announceCas"
                       /\ RwGo(t, "announce")
                       /\ UNCHANGED <<rwKind, rwState, rwSeen>>

\* Looks at the active flag only.
WriteLoadAny(t) == /\ rwPlace[t] = "writeLoad"
                   /\ rwState.active = 0
                   /\ RwLoad(t)
                   /\ RwGo(t, "writeCas")
                   /\ UNCHANGED <<rwKind, rwState>>

WriteLoad(t) == /\ rwPlace[t] = "writeLoad"
                /\ rwState.readers = 0
                /\ rwState.active = 0
                /\ RwLoad(t)
                /\ RwGo(t, "writeCas")
                /\ UNCHANGED <<rwKind, rwState>>

\* Sets the active flag and leaves the waiting flag as it is.
WriteCasKeepsFlag(t) == /\ rwPlace[t] = "writeCas"
                        /\ rwState = rwSeen[t]
                        /\ rwState' = [rwState EXCEPT !.active = 1]
                        /\ RwGo(t, "writing")
                        /\ UNCHANGED <<rwKind, rwSeen>>

WriteCas(t) == /\ rwPlace[t] = "writeCas"
               /\ rwState = rwSeen[t]
               /\ rwState' = WriterActive
               /\ RwGo(t, "writing")
               /\ UNCHANGED <<rwKind, rwSeen>>

WriteCasFails(t) == /\ rwPlace[t] = "writeCas"
                    /\ rwState # rwSeen[t]
                    /\ RwGo(t, "writeLoad")
                    /\ UNCHANGED <<rwKind, rwState, rwSeen>>

(* The guard stores 0: a flag another writer has set meanwhile goes too. *)
WriteDrop(t) == /\ rwPlace[t] = "writing"
                /\ rwState' = Unlocked
                /\ RwGo(t, "out")
                /\ UNCHANGED <<rwKind, rwSeen>>

ReaderStep(t) == ReadLoad(t) \/ ReadCas(t) \/ ReadCasFails(t) \/ ReadDrop(t)
WriterStep(t) == \/ WriteFast(t) \/ WriteSlow(t)
                 \/ AnnounceOr(t) \/ AnnounceLoad(t) \/ AnnounceCas(t) \/ AnnounceCasFails(t)
                 \/ WriteLoad(t) \/ WriteCas(t) \/ WriteCasFails(t) \/ WriteDrop(t)

RwNext == \E t \in Thread : ReaderStep(t) \/ WriterStep(t)

RwSpec == RwInit /\ [][RwNext]_rwVars

----------------------------------------------------------------------------

RwStates == [readers : 0..MaxReaders, waiting : 0..1, active : 0..1]

(* Types of the lock: the fields of the word stay within their bits, so the
   reader count never runs into the flags and never wraps below zero. *)
RwTypeOK == /\ rwKind \in RwKinds
            /\ rwState \in RwStates
            /\ rwSeen \in [Thread -> RwStates]
            /\ rwPlace \in [Thread -> RwPlaces]

(* Read and write guards: whoever holds a write guard holds the lock alone,
   whatever CAS raced with whatever release. *)
RwExclusion == \A t \in In(rwPlace, {"writing"}) : \A u \in Thread :
                 rwPlace[u] \in {"reading", "writing"} => u = t

(* read, try_read, write, try_write and the drops of the guards: together they
   are a read-write lock, a failed compare_exchange included. *)
Lock == INSTANCE ReadWriteLock WITH readers <- In(rwPlace, {"reading"}),
                                    writers <- In(rwPlace, {"writing"})
IsReadWriteLock == Lock!Spec

(* The writer-waiting flag shuts every new reader out, and only a writer that
   gets in clears it: there is such a writer whenever the flag is set. *)
RwFlagOwned == rwState.waiting = 1 => In(rwPlace, {"writeLoad", "writeCas"}) # {}
=============================================================================
