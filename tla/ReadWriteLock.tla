--------------------------- MODULE ReadWriteLock ---------------------------
(***************************************************************************)
(* What a read-write lock promises: who has a guard, and nothing of words, *)
(* flags or spinning.  A thread gets a read guard while nobody writes, a   *)
(* write guard while nobody has a guard at all.                            *)
(***************************************************************************)
CONSTANT Thread

VARIABLES readers,  \* the threads with a read guard
          writers   \* the threads with a write guard

guards == <<readers, writers>>

Init == readers = {} /\ writers = {}

Read(t) == /\ t \notin readers
           /\ writers = {}
           /\ readers' = readers \cup {t}
           /\ UNCHANGED writers

Write(t) == /\ readers = {}
            /\ writers = {}
            /\ writers' = {t}
            /\ UNCHANGED readers

DropRead(t) == /\ t \in readers
               /\ readers' = readers \ {t}
               /\ UNCHANGED writers

DropWrite(t) == /\ t \in writers
                /\ writers' = writers \ {t}
                /\ UNCHANGED readers

Next == \E t \in Thread : Read(t) \/ Write(t) \/ DropRead(t) \/ DropWrite(t)

Spec == Init /\ [][Next]_guards
=============================================================================
