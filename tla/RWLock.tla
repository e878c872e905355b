------------------------------- MODULE RWLock -------------------------------
(***************************************************************************)
(* What a reader-writer lock promises its callers: the table above class   *)
(* ReaderWriterMutex in runtime/base/mutex.h.  A lock is free, held by one *)
(* writer, or shared by n readers.  `readers' and `writers' are the sets   *)
(* of threads that hold it; `writers' has at most one member.              *)
(***************************************************************************)
CONSTANT Threads

VARIABLES readers, writers

lock == <<readers, writers>>

Init == readers = {} /\ writers = {}

AcquireShared(t) ==
  /\ t \notin readers
  /\ writers = {}
  /\ readers' = readers \cup {t}
  /\ UNCHANGED writers

ReleaseShared(t) ==
  /\ t \in readers
  /\ readers' = readers \ {t}
  /\ UNCHANGED writers

AcquireExclusive(t) ==
  /\ readers = {} /\ writers = {}
  /\ writers' = {t}
  /\ UNCHANGED readers

ReleaseExclusive(t) ==
  /\ t \in writers
  /\ writers' = writers \ {t}
  /\ UNCHANGED readers

Next ==
  \E t \in Threads :
    \/ AcquireShared(t) \/ ReleaseShared(t)
    \/ AcquireExclusive(t) \/ ReleaseExclusive(t)

Spec == Init /\ [][Next]_lock
=============================================================================
