---------------------------- MODULE Monitor_proofs ----------------------------
(***************************************************************************)
(* Proofs about the lock of an object, for any number of threads, any      *)
(* recursion limit and any number of calls, interrupts and pauses: the     *)
(* Monitor stays while it is used, the identity hash code never changes, a *)
(* sleeping waiter can be woken, and the lock implements JavaLock.         *)
(***************************************************************************)
EXTENDS Monitor, FiniteSetTheorems, SequenceTheorems, TLAPS

-----------------------------------------------------------------------------
(* The inductive invariant.                                                *)

\* What the fields of a lock word say in each state.
Word(w) ==
  /\ w \in LockWords
  /\ w.state = "unlocked" => w = Unlocked
  /\ w.state = "fat" => w = Fat
  /\ w.state = "thin" => w.owner \in Threads /\ w.hash = 0
  /\ w.state = "hash" => w.owner = None /\ w.count = 0 /\ w.hash # 0

Words == Word(lock_word) /\ \A t \in Threads : Word(lw[t])

Blocking == {"blocked", "suspend", "suspending", "check", "resume", "unblock"}
Contending == {"contend", "contender", "woken", "relock"}
Asleep == {"waiting", "signaled", "waited"}

\* Which call a thread is in, by where it is.
CallOf(t) ==
  /\ pc[t] \in Ops => op[t] = pc[t]
  /\ pc[t] \in Blocking \cup Inflating => op[t] \in {"enter", "hash", "wait"}
  /\ pc[t] \in Blocking => m[t].owner \in Threads \ {t}
  /\ pc[t] \in Contending \cup {"lock"} => op[t] \in {"enter", "wait"}
  /\ pc[t] \in Asleep \cup {"rewait"} => op[t] = "wait"

\* Where the thread that holds the lock can be: not where it waits for anything.
HolderAt(t) ==
  \/ pc[t] \in Ops \cup {"idle", "rewait"}
  \/ pc[t] = "lock" /\ op[t] = "enter"
  \/ pc[t] \in Inflating /\ m[t].owner = t

\* The identity hash code of the object is h.
Hashed(h) ==
  /\ h # 0
  /\ \/ lock_word.state = "hash" /\ lock_word.hash = h
     \/ lock_word.state = "fat" /\ hash_code_ = h

\* What a thread knows of the lock from the word it has read.
Known(t) ==
  pc[t] \in Ops =>
    /\ lw[t].state = "thin" /\ lw[t].owner = t => lock_word = lw[t]
    /\ lw[t].state = "hash" => Hashed(lw[t].hash)
    /\ Holds(t) => lw[t] = lock_word

\* What a thread that installs a Monitor knows of the lock.
Installing(t) ==
  /\ pc[t] \in {"install", "cas"} =>
       /\ m[t].owner = None => Hashed(m[t].hash)
       /\ m[t].owner = t => lock_word.state = "thin" /\ lock_word.owner = t
       /\ ForOther(t) => Holds(m[t].owner)
  /\ pc[t] = "cas" =>
       IF m[t].owner = None
       THEN lw[t].state = "hash" /\ lw[t].hash = m[t].hash /\ m[t].count = 0
       ELSE lw[t].state = "thin" /\ lw[t].owner = m[t].owner /\ lw[t].count = m[t].count

\* A thread comes back from Object.wait with the lock.
Rewaiting(t) == pc[t] = "rewait" => lock_word.state = "fat" /\ owner_ = t /\ lock_count_ = 0

\* The thread keeps the owner it inflates for suspended.
Suspends(t) == pc[t] \in {"check", "resume"} \/ (pc[t] \in Inflating /\ ForOther(t))
Suspenders(o) == {u \in Threads : m[u].owner = o /\ (pc[u] = "suspending" \/ Suspends(u))}

\* Everything about one thread and the lock.
Mine(t) ==
  /\ CallOf(t) /\ Known(t) /\ Installing(t) /\ Rewaiting(t)
  /\ Holds(t) => HolderAt(t)
  /\ InMonitor(t) => lock_word.state = "fat"
  /\ Suspends(t) => AtSuspendPoint(m[t].owner)

\* num_waiters_ counts the threads that sleep for the lock and those in
\* Object.wait; a thread may be both.
Contenders == {t \in Threads : pc[t] \in Contending}
Waiters == {t \in Threads : Waiter(t) \/ pc[t] = "rewait"}

Counted ==
  /\ \A o \in Threads : suspend_count[o] = Cardinality(Suspenders(o))
  /\ lock_word.state = "fat" => num_waiters_ = Cardinality(Contenders) + Cardinality(Waiters)

\* A Monitor that nobody owns is not entered, and nobody has seen a hash code
\* but the one the object has.
Monitors ==
  /\ (lock_word.state = "fat" /\ owner_ = None) => lock_count_ = 0
  /\ \A h \in returned : Hashed(h)

MonitorInv ==
  /\ TypeOK /\ Words /\ Monitors /\ Counted /\ SleeperIsReachable
  /\ \A t \in Threads : Mine(t)

-----------------------------------------------------------------------------
(* What a step of one thread leaves alone.                                 *)

OthersSame(t) ==
  \A u \in Threads \ {t} :
    /\ pc'[u] = pc[u] /\ op'[u] = op[u] /\ lw'[u] = lw[u] /\ m'[u] = m[u]

\* At most the other threads are woken.
OthersWoken(t) ==
  \A u \in Threads \ {t} :
    /\ op'[u] = op[u] /\ lw'[u] = lw[u] /\ m'[u] = m[u]
    /\ \/ pc'[u] = pc[u]
       \/ pc[u] = "contender" /\ pc'[u] = "woken"
       \/ pc[u] = "waiting" /\ pc'[u] = "signaled"

\* Membership of t in the counted sets does not change.
CountsSame(t) ==
  /\ \A o \in Threads : (t \in Suspenders(o))' <=> t \in Suspenders(o)
  /\ (t \in Contenders)' <=> t \in Contenders
  /\ (t \in Waiters)' <=> t \in Waiters

\* A step of t as the other threads see it.  Who holds the lock elsewhere keeps
\* it, and unless that thread is in managed code the lock does not change form.
Steady(t) ==
  /\ OthersWoken(t)
  /\ \A h \in Nat : Hashed(h) => Hashed(h)'
  /\ \A u \in Threads \ {t} : Holds(u)' <=> Holds(u)
  /\ \A u \in Threads \ {t} :
       Holds(u) => pc[u] = "idle" \/ (lock_word' = lock_word /\ lock_count_' = lock_count_)
  /\ lock_word.state = "fat" => lock_word'.state = "fat"
  /\ (pc[t] = "idle" /\ Holds(t)) => Holds(t)'
  /\ (AtSuspendPoint(t) /\ ~MayRun(t)) => AtSuspendPoint(t)'

\* Nobody is woken when the other threads stay where they are.
LEMMA SameWoken ==
  ASSUME NEW t \in Threads, OthersSame(t)
  PROVE  OthersWoken(t)
BY Zenon DEF OthersSame, OthersWoken

\* The state of a suspended holder is managed code.
LEMMA SuspendedHolder ==
  ASSUME MonitorInv, NEW t \in Threads, Holds(t), AtSuspendPoint(t)
  PROVE  pc[t] = "idle"
BY Zenon DEF MonitorInv, TypeOK, Mine, HolderAt, AtSuspendPoint, ForOther, Inflating, Ops

\* A thread that another one keeps suspended may not become Runnable.
LEMMA SuspendedStays ==
  ASSUME MonitorInv, NEW u \in Threads, Suspends(u), m[u].owner \in Threads
  PROVE  ~MayRun(m[u].owner)
<1>1. PICK o \in Threads : o = m[u].owner
  BY Zenon
<1>2. u \in Suspenders(o) /\ Suspenders(o) \subseteq Threads
  BY <1>1, Zenon DEF Suspenders
<1>3. IsFiniteSet(Suspenders(o))
  BY <1>2, FS_Subset, MonitorAssumption, Zenon DEF MonitorAssumption
<1>4. Cardinality(Suspenders(o)) # 0
  BY <1>2, <1>3, FS_EmptySet, Zenon
<1> QED
  BY <1>1, <1>4, Zenon DEF MonitorInv, Counted, MayRun

\* A steady step of t leaves what the other threads know intact.
LEMMA SteadyStep ==
  ASSUME MonitorInv, NEW t \in Threads, Steady(t), NEW u \in Threads \ {t}
  PROVE  Mine(u)'
<1>1. /\ op'[u] = op[u] /\ lw'[u] = lw[u] /\ m'[u] = m[u]
      /\ Mine(u) /\ (Holds(u)' <=> Holds(u))
      /\ Holds(u) => pc[u] = "idle" \/ (lock_word' = lock_word /\ lock_count_' = lock_count_)
      /\ \A h \in Nat : Hashed(h) => Hashed(h)'
      /\ lw[u] \in LockWords /\ m[u] \in [owner : Threads \cup {None}, count : Nat, hash : Nat]
      /\ pc[u] \in Pcs
  BY Zenon DEF MonitorInv, TypeOK, Steady, OthersWoken
<1>2. CASE pc'[u] # pc[u]
  <2>1. /\ pc[u] \in {"contender", "waiting"} /\ pc'[u] \in {"woken", "signaled"}
        /\ pc[u] = "waiting" <=> pc'[u] = "signaled"
    BY <1>2, Zenon DEF Steady, OthersWoken
  <2>2. ~Holds(u)' /\ lock_word'.state = "fat"
    BY <1>1, <2>1, Zenon DEF Mine, HolderAt, Ops, Inflating, InMonitor, Steady
  <2> QED
    BY <1>1, <2>1, <2>2, Zenon
       DEF Mine, CallOf, Known, Installing, Rewaiting, Suspends, Ops, Blocking, Inflating,
           Contending, Asleep
<1>3. CASE pc'[u] = pc[u]
  <2>1. CallOf(u)'
    BY <1>1, <1>3, Zenon DEF Mine, CallOf
  <2>2. Known(u)'
    <3>1. lw[u].hash \in Nat
      BY <1>1, Zenon DEF LockWords
    <3> QED
      BY <1>1, <1>3, <3>1, Zenon DEF Mine, Known, Holds, Ops
  <2>3. ASSUME Suspends(u), m[u].owner \in Threads
        PROVE  AtSuspendPoint(m[u].owner)'
    <3>1. PICK o \in Threads : o = m[u].owner
      BY <2>3, Zenon
    <3>2. AtSuspendPoint(o) /\ ~MayRun(o)
      BY <1>1, <2>3, <3>1, SuspendedStays, Zenon DEF Mine
    <3>3. AtSuspendPoint(o)'
      <4>1. CASE o = t
        BY <3>2, <4>1, Zenon DEF Steady
      <4>2. CASE o # t
        BY <3>2, <4>2, Zenon DEF Steady, OthersWoken, AtSuspendPoint, ForOther
      <4> QED
        BY <4>1, <4>2, Zenon
    <3> QED
      BY <1>1, <3>1, <3>3, Zenon
  <2>4. Suspends(u) => m[u].owner \in Threads
    BY <1>1, Zenon DEF Suspends, ForOther, Mine, CallOf, Blocking
  <2>5. (Suspends(u) => AtSuspendPoint(m[u].owner))'
    BY <1>1, <1>3, <2>3, <2>4, Zenon DEF Suspends, ForOther
  <2>6. Installing(u)'
    <3>1. m[u].hash \in Nat
      BY <1>1, Zenon
    <3>2. ASSUME pc[u] \in {"install", "cas"}, ForOther(u)
          PROVE  Holds(m[u].owner)'
      <4>1. PICK o \in Threads : o = m[u].owner
        BY <1>1, <3>2, Zenon DEF ForOther
      <4>2. Suspends(u) /\ Holds(o) /\ AtSuspendPoint(o)
        BY <1>1, <3>2, <4>1, Zenon DEF Suspends, Inflating, Mine, Installing
      <4>3. pc[o] = "idle"
        BY <4>2, SuspendedHolder, Zenon
      <4>4. Holds(o)'
        BY <4>2, <4>3, Zenon DEF Steady
      <4> QED
        BY <1>1, <4>1, <4>4, Zenon
    <3>3. ForOther(u)' <=> ForOther(u)
      BY <1>1, Zenon DEF ForOther
    <3> QED
      BY <1>1, <1>3, <3>1, <3>2, <3>3, Zenon DEF Mine, Installing, Holds
  <2>7. Rewaiting(u)' /\ (InMonitor(u) => lock_word.state = "fat")'
    BY <1>1, <1>3, Zenon DEF Steady, Mine, Rewaiting, InMonitor, Holds
  <2>8. (Holds(u) => HolderAt(u))'
    BY <1>1, <1>3, Zenon DEF Mine, HolderAt
  <2> QED
    BY <2>1, <2>2, <2>5, <2>6, <2>7, <2>8, Zenon DEF Mine
<1> QED
  BY <1>2, <1>3, Zenon

\* The counts stay right when t enters and leaves none of the counted sets.
LEMMA CountsStep ==
  ASSUME MonitorInv, NEW t \in Threads, OthersWoken(t), CountsSame(t),
         UNCHANGED <<suspend_count, num_waiters_>>,
         lock_word'.state = "fat" => lock_word.state = "fat"
  PROVE  Counted'
<1>1. \A o \in Threads : Suspenders(o)' = Suspenders(o)
  BY DEF OthersWoken, CountsSame, Suspenders, Suspends, ForOther, Inflating
<1>2. Contenders' = Contenders
  BY Zenon DEF OthersWoken, CountsSame, Contenders, Contending
<1>3. Waiters' = Waiters
  BY DEF OthersWoken, CountsSame, Waiters, Waiter
<1> QED
  BY <1>1, <1>2, <1>3, Zenon DEF MonitorInv, Counted

\* A step in which t only moves on, having read something perhaps.
Quiet(t) ==
  /\ UNCHANGED <<lock_word, owner_, lock_count_, num_waiters_, wait_set_, hash_code_, suspend_count>>
  /\ OthersSame(t) /\ CountsSame(t)
  /\ \A u \in Threads \ {t} : wait_monitor_'[u] = wait_monitor_[u] /\ interrupted_'[u] = interrupted_[u]
  /\ pc'[t] # "waiting"
  /\ (AtSuspendPoint(t) /\ ~MayRun(t)) => AtSuspendPoint(t)'
  /\ \A h \in returned' : h \in returned \/ Hashed(h)

\* Such a step preserves the invariant if t knows what it must afterwards.
LEMMA QuietStep ==
  ASSUME MonitorInv, NEW t \in Threads, Quiet(t), TypeOK', Word(lw'[t]), Mine(t)'
  PROVE  MonitorInv'
<1>1. Words'
  BY Zenon DEF MonitorInv, Quiet, OthersSame, Words
<1>2. \A h \in Nat : Hashed(h) => Hashed(h)'
  BY Zenon DEF Quiet, Hashed
<1>3. Monitors'
  <2>1. returned' \subseteq Nat
    BY Zenon DEF TypeOK
  <2> QED
    BY <1>2, <2>1, Zenon DEF MonitorInv, Quiet, Monitors
<1>4. Counted'
  BY SameWoken, CountsStep, Zenon DEF Quiet
<1>5. SleeperIsReachable'
  BY Zenon DEF MonitorInv, Quiet, OthersSame, SleeperIsReachable
<1>6. Steady(t)
  BY <1>2, SameWoken, Zenon DEF Quiet, Steady, Holds
<1>7. \A u \in Threads : Mine(u)'
  BY <1>6, SteadyStep, Zenon
<1> QED
  BY <1>1, <1>3, <1>4, <1>5, <1>7, Zenon DEF MonitorInv

\* The fields of the lock words the code makes.
LEMMA WordsMade ==
  /\ Word(Unlocked) /\ Word(Fat)
  /\ Unlocked.state = "unlocked" /\ Fat.state = "fat" /\ Unlocked.owner = None
  /\ \A t \in Threads, n \in Nat :
       /\ Word(FromThinLockId(t, n)) /\ FromThinLockId(t, n).state = "thin"
       /\ FromThinLockId(t, n).owner = t /\ FromThinLockId(t, n).count = n
  /\ \A h \in Nat \ {0} :
       Word(FromHashCode(h)) /\ FromHashCode(h).state = "hash" /\ FromHashCode(h).hash = h
BY MonitorAssumption, Zenon
   DEF MonitorAssumption, Word, LockWords, Unlocked, Fat, FromThinLockId, FromHashCode

\* The states of a well-formed lock word.
LEMMA WordStates ==
  ASSUME NEW w, Word(w)
  PROVE  /\ w.state \in {"unlocked", "thin", "fat", "hash"} /\ w.count \in Nat /\ w.hash \in Nat
         /\ w.owner \in Threads \cup {None}
BY Zenon DEF Word, LockWords

\* A thread that read its own thin lock has read the word as it is.
LEMMA OwnThinLock ==
  ASSUME MonitorInv, NEW t \in Threads, pc[t] = "enter", lw[t].state = "thin", lw[t].owner = t
  PROVE  lock_word = lw[t] /\ lw[t].count + 1 \in Nat
<1>1. lw[t].count \in Nat
  BY WordStates, Zenon DEF MonitorInv, Words
<1>2. lw[t].count + 1 \in Nat
  BY <1>1
<1>3. lock_word = lw[t]
  BY Zenon DEF MonitorInv, Mine, Known, Ops
<1> QED
  BY <1>2, <1>3, Zenon

-----------------------------------------------------------------------------
(* Calls.                                                                  *)

\* The thread reads the lock word, at the beginning of a call or on its way
\* round a loop; whoever holds the lock has then read it as it is.
LEMMA ReadWord ==
  ASSUME MonitorInv, NEW t \in Threads, NEW o \in Ops,
         pc'[t] = o, op'[t] = o, lw'[t] = lock_word,
         UNCHANGED <<lock_word, owner_, lock_count_, hash_code_>>
  PROVE  Mine(t)' /\ Word(lw'[t])
<1>1. Word(lock_word)
  BY Zenon DEF MonitorInv, Words
<1>2. o \in {"enter", "exit", "wait", "notify", "notifyAll", "hash"}
  BY Zenon DEF Ops
<1>3. CallOf(t)'
  BY <1>2, Zenon DEF CallOf, Blocking, Inflating, Contending, Asleep
<1>4. Known(t)'
  BY <1>1, Zenon DEF Known, Hashed, Word, Holds
<1>5. Installing(t)' /\ Rewaiting(t)' /\ ~Suspends(t)'
  BY <1>2, Zenon DEF Installing, Rewaiting, Suspends, Inflating
<1>6. HolderAt(t)' /\ (InMonitor(t) => lock_word.state = "fat")'
  BY <1>2, Zenon DEF HolderAt, InMonitor
<1> QED
  BY <1>1, <1>3, <1>4, <1>5, <1>6, Zenon DEF Mine

\* Call
LEMMA CallStep ==
  ASSUME MonitorInv, NEW t \in Threads, NEW o \in Ops, Call(t, o)
  PROVE  MonitorInv'
<1> USE DEF Call, word, fat, waiting
<1>1. o \in {"enter", "exit", "wait", "notify", "notifyAll", "hash"}
  BY Zenon DEF Ops
<1>2. pc'[t] = o /\ op'[t] = o /\ lw'[t] = lock_word /\ m' = m /\ pc[t] = "idle"
  BY Zenon DEF MonitorInv, TypeOK
<1>3. Mine(t)' /\ Word(lw'[t])
  BY <1>2, ReadWord, Zenon
<1>4. TypeOK'
  BY SMTT(30) DEF MonitorInv, TypeOK, Pcs
<1>5. CountsSame(t)
  BY <1>1, <1>2, Zenon
     DEF CountsSame, Suspenders, Suspends, Inflating, Contenders, Contending, Waiters, Waiter
<1>6. Quiet(t)
  BY <1>1, <1>2, <1>5, Zenon DEF MonitorInv, TypeOK, Quiet, OthersSame, MayRun
<1> QED
  BY <1>3, <1>4, <1>6, QuietStep, Zenon

\* The thread is in none of the counted sets.
Uncounted(t) ==
  /\ pc[t] \notin Contending \cup Asleep \cup {"lock", "rewait", "suspending"}
  /\ ~Suspends(t)

\* It enters none.
LEMMA UncountedStep ==
  ASSUME NEW t \in Threads, Uncounted(t), Uncounted(t)'
  PROVE  CountsSame(t)
BY Zenon DEF CountsSame, Uncounted, Suspenders, Contenders, Waiters, Waiter, Contending, Asleep

\* A thread in managed code knows nothing.
LEMMA IdleMine ==
  ASSUME NEW t \in Threads, pc'[t] = "idle"
  PROVE  Mine(t)' /\ Uncounted(t)'
BY Zenon
   DEF Mine, CallOf, Known, Installing, Rewaiting, HolderAt, InMonitor, Suspends, Ops,
       Blocking, Inflating, Contending, Asleep, Uncounted

\* Return, from a call that only read.
LEMMA ReturnStep ==
  ASSUME MonitorInv, NEW t \in Threads, Return(t), Uncounted(t),
         UNCHANGED <<word, fat, suspend_count, waiting, counters>>,
         returned' \subseteq Nat, \A h \in returned' : h \in returned \/ Hashed(h)
  PROVE  MonitorInv'
<1> USE DEF Return, Goto, DropLocals, NewMonitor, word, fat, waiting, counters
<1>1. pc'[t] = "idle" /\ lw'[t] = Unlocked
  BY Zenon DEF MonitorInv, TypeOK
<1>2. TypeOK'
  BY WordsMade, Zenon DEF MonitorInv, TypeOK, Pcs, Ops, Word
<1>3. Quiet(t)
  BY <1>1, IdleMine, UncountedStep, Zenon
     DEF MonitorInv, TypeOK, Quiet, OthersSame, AtSuspendPoint
<1> QED
  BY <1>1, <1>2, <1>3, IdleMine, WordsMade, QuietStep, Zenon

\* Continue, which reads the lock word again.
LEMMA ContinueStep ==
  ASSUME MonitorInv, NEW t \in Threads, Continue(t), Uncounted(t), MayRun(t) \/ ~AtSuspendPoint(t),
         UNCHANGED <<word, fat, suspend_count, waiting, returned, counters>>
  PROVE  MonitorInv'
<1> USE DEF Continue, Goto, NewMonitor, word, fat, waiting, counters
<1>1. PICK o \in Ops : o = op[t]
  BY Zenon DEF MonitorInv, TypeOK
<1>2. pc'[t] = o /\ op'[t] = o /\ lw'[t] = lock_word
  BY <1>1, Zenon DEF MonitorInv, TypeOK
<1>3. Mine(t)' /\ Word(lw'[t])
  BY <1>2, ReadWord, Zenon
<1>4. TypeOK'
  BY Zenon DEF MonitorInv, TypeOK, Pcs
<1>5. Uncounted(t)' /\ pc'[t] # "waiting"
  BY <1>2, Zenon DEF Uncounted, Suspends, Contending, Asleep, Inflating, Ops
<1>6. Quiet(t)
  BY <1>5, UncountedStep, Zenon DEF MonitorInv, TypeOK, Quiet, OthersSame
<1> QED
  BY <1>3, <1>4, <1>6, QuietStep, Zenon

\* At the beginning of a call a thread is Runnable and in no counted set.
LEMMA InCall ==
  ASSUME NEW t \in Threads, pc[t] \in Ops
  PROVE  Uncounted(t) /\ ~AtSuspendPoint(t)
BY Zenon DEF Uncounted, Suspends, AtSuspendPoint, Contending, Asleep, Inflating, Ops

\* InflateThinLocked, up to the installation or to the suspension of the owner.
LEMMA InflateThinLockedStep ==
  ASSUME MonitorInv, NEW t \in Threads, NEW h \in Hashes \cup {0}, InflateThinLocked(t, h),
         pc[t] \in {"enter", "hash"}, lw[t].state = "thin",
         UNCHANGED <<word, fat, suspend_count, waiting, returned, counters>>
  PROVE  MonitorInv'
<1> USE DEF InflateThinLocked, Goto, NewMonitor, word, fat, waiting, counters
<1>1. /\ lw[t].owner \in Threads /\ lw'[t] = lw[t] /\ op'[t] = op[t] /\ Word(lw[t])
      /\ op[t] \in {"enter", "hash"} /\ pc[t] \in Ops /\ m'[t].owner = lw[t].owner
      /\ Known(t) /\ lw[t] \in LockWords
  BY Zenon DEF MonitorInv, TypeOK, Words, Word, Mine, CallOf, Ops
<1>2. TypeOK'
  BY <1>1, MonitorAssumption, SMTT(30)
     DEF MonitorInv, TypeOK, Pcs, Inflating, MonitorAssumption, LockWords
<1>3. CASE lw[t].owner = t
  <2>1. /\ pc'[t] = "install" /\ m'[t].owner = t /\ t # None
        /\ lock_word.state = "thin" /\ lock_word.owner = t
    BY <1>1, <1>3, MonitorAssumption, Zenon DEF MonitorInv, TypeOK, Known, MonitorAssumption
  <2>2. Mine(t)' /\ Uncounted(t)'
    BY <1>1, <2>1, Zenon
       DEF Mine, CallOf, Known, Installing, Rewaiting, HolderAt, InMonitor, Suspends, Ops,
           Blocking, Inflating, Contending, Asleep, ForOther, Uncounted
  <2>3. Quiet(t)
    BY <1>1, <2>1, <2>2, InCall, UncountedStep, Zenon DEF MonitorInv, TypeOK, Quiet, OthersSame
  <2> QED
    BY <1>1, <1>2, <2>2, <2>3, QuietStep, Zenon
<1>4. CASE lw[t].owner # t
  <2>1. pc'[t] = "blocked" /\ ~Holds(t)
    BY <1>1, <1>4, Zenon DEF MonitorInv, TypeOK, Known, Holds
  <2>2. Mine(t)' /\ Uncounted(t)'
    BY <1>1, <1>4, <2>1, Zenon
       DEF Mine, CallOf, Known, Installing, Rewaiting, InMonitor, Suspends, Ops, Blocking,
           Inflating, Contending, Asleep, Uncounted, Holds
  <2>3. Quiet(t)
    BY <1>1, <2>1, <2>2, InCall, UncountedStep, Zenon DEF MonitorInv, TypeOK, Quiet, OthersSame
  <2> QED
    BY <1>1, <1>2, <2>2, <2>3, QuietStep, Zenon
<1> QED
  BY <1>3, <1>4, Zenon

\* EnterFat: the thread goes on with the Monitor.
LEMMA EnterFatStep ==
  ASSUME MonitorInv, NEW t \in Threads, EnterFat(t)
  PROVE  MonitorInv'
<1> USE DEF EnterFat, Goto, word, fat, waiting, counters
<1>1. /\ pc[t] \in Ops /\ pc'[t] = "lock" /\ op'[t] = "enter" /\ lw'[t] = Unlocked /\ m' = m
      /\ lock_word.state = "fat"
  BY Zenon DEF MonitorInv, TypeOK, Ops, Mine, CallOf, InMonitor
<1>2. TypeOK'
  BY WordsMade, Zenon DEF MonitorInv, TypeOK, Pcs, Word
<1>3. Mine(t)'
  BY <1>1, Zenon
     DEF Mine, CallOf, Known, Installing, Rewaiting, HolderAt, InMonitor, Suspends, Ops,
         Blocking, Inflating, Contending, Asleep
<1>4. CountsSame(t)
  BY <1>1, Zenon
     DEF CountsSame, Suspenders, Suspends, Contenders, Waiters, Waiter, Contending, Inflating,
         Ops
<1>5. Quiet(t)
  BY <1>1, <1>4, InCall, Zenon DEF MonitorInv, TypeOK, Quiet, OthersSame
<1> QED
  BY <1>1, <1>2, <1>3, <1>5, WordsMade, QuietStep, Zenon

\* EnterHashed: a Monitor is made for an object that is hashed and not locked.
LEMMA EnterHashedStep ==
  ASSUME MonitorInv, NEW t \in Threads, EnterHashed(t)
  PROVE  MonitorInv'
<1> USE DEF EnterHashed, Goto, NewMonitor, word, fat, waiting, counters
<1>1. /\ pc[t] \in Ops /\ pc'[t] = "install" /\ op'[t] = "enter" /\ lw'[t] = lw[t]
      /\ m'[t].owner = None /\ m'[t].hash = lw[t].hash /\ Hashed(lw[t].hash)
      /\ Word(lw[t]) /\ lw[t].hash \in Nat /\ t # None
  BY MonitorAssumption, ZenonT(40)
     DEF MonitorInv, TypeOK, Words, Word, LockWords, Ops, Mine, CallOf, Known,
         MonitorAssumption
<1>2. TypeOK'
  BY <1>1, Zenon DEF MonitorInv, TypeOK, Pcs, Inflating
<1>3. ~Holds(t)
  BY <1>1, Zenon DEF MonitorInv, Mine, Known, Holds
<1>4. Mine(t)' /\ Uncounted(t)'
  BY <1>1, <1>3, Zenon
     DEF Mine, CallOf, Known, Installing, Rewaiting, InMonitor, Suspends, Ops, Blocking,
         Inflating, Contending, Asleep, ForOther, Holds, Hashed, Uncounted
<1>5. Quiet(t)
  BY <1>1, <1>4, InCall, UncountedStep, Zenon DEF MonitorInv, TypeOK, Quiet, OthersSame
<1> QED
  BY <1>1, <1>2, <1>4, <1>5, QuietStep, Zenon

\* WaitThin: the owner inflates its own lock in order to wait.
LEMMA WaitThinStep ==
  ASSUME MonitorInv, NEW t \in Threads, WaitThin(t)
  PROVE  MonitorInv'
<1> USE DEF WaitThin, Goto, NewMonitor, word, fat, waiting, counters
<1>1. /\ pc[t] \in Ops /\ pc'[t] = "install" /\ op'[t] = "wait" /\ lw'[t] = lw[t]
      /\ m'[t].owner = t /\ lock_word.state = "thin" /\ lock_word.owner = t
      /\ Word(lw[t]) /\ t # None
  BY MonitorAssumption, Zenon
     DEF MonitorInv, TypeOK, Words, Ops, Mine, CallOf, Known, MonitorAssumption
<1>2. TypeOK'
  BY Zenon DEF MonitorInv, TypeOK, Pcs, Inflating
<1>3. Mine(t)' /\ Uncounted(t)'
  BY <1>1, Zenon
     DEF Mine, CallOf, Known, Installing, Rewaiting, HolderAt, InMonitor, Suspends, Ops,
         Blocking, Inflating, Contending, Asleep, ForOther, Uncounted
<1>4. Quiet(t)
  BY <1>1, <1>3, InCall, UncountedStep, Zenon DEF MonitorInv, TypeOK, Quiet, OthersSame
<1> QED
  BY <1>1, <1>2, <1>3, <1>4, QuietStep, Zenon

\* EnterContended
LEMMA EnterContendedStep ==
  ASSUME MonitorInv, NEW t \in Threads, EnterContended(t)
  PROVE  MonitorInv'
<1>1. pc[t] \in Ops /\ pc[t] = "enter" /\ lw[t].state = "thin" /\ 0 \in Hashes \cup {0}
  BY Zenon DEF EnterContended, Ops
<1>2. CASE Continue(t)
  BY <1>1, <1>2, InCall, ContinueStep, Zenon DEF EnterContended
<1>3. CASE InflateThinLocked(t, 0)
  BY <1>1, <1>3, InflateThinLockedStep, Zenon DEF EnterContended
<1> QED
  BY <1>2, <1>3, Zenon DEF EnterContended

\* HashThin
LEMMA HashThinStep ==
  ASSUME MonitorInv, NEW t \in Threads, HashThin(t)
  PROVE  MonitorInv'
BY InflateThinLockedStep, Zenon DEF HashThin

\* HashHashed: the hash code read earlier is still the object's.
LEMMA HashHashedStep ==
  ASSUME MonitorInv, NEW t \in Threads, HashHashed(t)
  PROVE  MonitorInv'
<1>1. pc[t] \in Ops /\ Hashed(lw[t].hash) /\ lw[t].hash \in Nat
  BY Zenon DEF HashHashed, Ops, MonitorInv, Mine, Known, TypeOK, LockWords
<1>2. returned' \subseteq Nat /\ \A h \in returned' : h \in returned \/ Hashed(h)
  BY <1>1, Zenon DEF HashHashed, MonitorInv, TypeOK
<1> QED
  BY <1>1, <1>2, InCall, ReturnStep, Zenon DEF HashHashed

\* NotOwner, TimeoutOutOfRange and DoNotifyThin
LEMMA RefusedStep ==
  ASSUME MonitorInv, NEW t \in Threads,
         NotOwner(t) \/ TimeoutOutOfRange(t) \/ DoNotifyThin(t)
  PROVE  MonitorInv'
<1>1. pc[t] \in Ops /\ returned' = returned /\ returned \subseteq Nat
  BY Zenon DEF NotOwner, TimeoutOutOfRange, DoNotifyThin, Ops, MonitorInv, TypeOK
<1> QED
  BY <1>1, InCall, ReturnStep, Zenon DEF NotOwner, TimeoutOutOfRange, DoNotifyThin

-----------------------------------------------------------------------------
(* Stores to the lock word by a thread that enters, exits or hashes.       *)

\* The lock word is t's own or nobody's, and t replaces it and returns.
LEMMA StoreWordStep ==
  ASSUME MonitorInv, NEW t \in Threads, pc[t] \in Ops, Return(t), Word(lock_word'),
         lock_word.state = "unlocked" \/ (lock_word.state = "thin" /\ lock_word.owner = t),
         lock_word'.state = "thin" => lock_word'.owner = t,
         lock_word'.state # "fat",
         returned' \subseteq Nat, \A h \in returned' : h \in returned \/ Hashed(h)',
         UNCHANGED <<listed, allow_new_monitors_, fat, suspend_count, waiting, counters>>
  PROVE  MonitorInv'
<1> USE DEF Return, Goto, DropLocals, NewMonitor, fat, waiting, counters
<1>1. pc'[t] = "idle" /\ lw'[t] = Unlocked
  BY Zenon DEF MonitorInv, TypeOK
<1>2. TypeOK'
  BY WordsMade, Zenon DEF MonitorInv, TypeOK, Pcs, Ops, Word
<1>3. Words'
  BY <1>1, WordsMade, ZenonT(60) DEF MonitorInv, TypeOK, Words
<1>4. \A h : ~Hashed(h)
  BY Zenon DEF Hashed
<1>5. Monitors'
  BY <1>4, Zenon DEF MonitorInv, Monitors
<1>6. OthersSame(t) /\ CountsSame(t)
  BY <1>1, InCall, IdleMine, UncountedStep, Zenon DEF MonitorInv, TypeOK, OthersSame
<1>7. Counted'
  BY <1>6, SameWoken, CountsStep, Zenon
<1>8. SleeperIsReachable'
  BY <1>1, <1>6, Zenon DEF MonitorInv, OthersSame, SleeperIsReachable
<1>9. Steady(t)
  BY <1>1, <1>4, <1>6, SameWoken, InCall, Zenon DEF Steady, Holds, Ops
<1>10. \A u \in Threads : Mine(u)'
  BY <1>1, <1>9, IdleMine, SteadyStep, Zenon
<1> QED
  BY <1>2, <1>3, <1>5, <1>7, <1>8, <1>10, Zenon DEF MonitorInv

\* EnterUnlocked
LEMMA EnterUnlockedStep ==
  ASSUME MonitorInv, NEW t \in Threads, EnterUnlocked(t)
  PROVE  MonitorInv'
<1>1. pc[t] \in Ops /\ returned' = returned /\ returned' \subseteq Nat
  BY Zenon DEF EnterUnlocked, Ops, MonitorInv, TypeOK
<1>2. CASE lock_word = lw[t]
  <2>1. lock_word' = FromThinLockId(t, 0) /\ Return(t) /\ lock_word.state = "unlocked"
    BY <1>2, Zenon DEF EnterUnlocked
  <2>2. Word(lock_word') /\ lock_word'.state = "thin" /\ lock_word'.owner = t
    BY <2>1, WordsMade, Zenon
  <2> QED
    BY <1>1, <2>1, <2>2, StoreWordStep, Zenon DEF EnterUnlocked
<1>3. CASE lock_word # lw[t]
  BY <1>1, <1>3, InCall, ContinueStep, Zenon DEF EnterUnlocked, word
<1> QED
  BY <1>2, <1>3, Zenon

\* EnterRecursive: the plain store replaces the very word that was read.
LEMMA EnterRecursiveStep ==
  ASSUME MonitorInv, NEW t \in Threads, EnterRecursive(t)
  PROVE  MonitorInv'
<1>1. /\ pc[t] \in Ops /\ pc[t] = "enter" /\ returned' = returned /\ returned' \subseteq Nat
      /\ lock_word = lw[t] /\ lw[t].state = "thin" /\ lw[t].owner = t /\ lw[t].count + 1 \in Nat
  BY OwnThinLock, Zenon DEF EnterRecursive, Ops, MonitorInv, TypeOK
<1>2. CASE lw[t].count + 1 <= kThinLockMaxCount
  <2>1. lock_word' = FromThinLockId(t, lw[t].count + 1) /\ Return(t)
    BY <1>2, Zenon DEF EnterRecursive
  <2>2. Word(lock_word') /\ lock_word'.state = "thin" /\ lock_word'.owner = t
    BY <1>1, <2>1, WordsMade, Zenon
  <2> QED
    BY <1>1, <2>1, <2>2, StoreWordStep, Zenon DEF EnterRecursive
<1>3. CASE ~(lw[t].count + 1 <= kThinLockMaxCount)
  BY <1>1, <1>3, InflateThinLockedStep, Zenon DEF EnterRecursive, word
<1> QED
  BY <1>2, <1>3, Zenon

\* HashUnlocked
LEMMA HashUnlockedStep ==
  ASSUME MonitorInv, NEW t \in Threads, HashUnlocked(t)
  PROVE  MonitorInv'
<1>1. pc[t] \in Ops /\ returned \subseteq Nat
  BY Zenon DEF HashUnlocked, Ops, MonitorInv, TypeOK
<1>2. CASE lock_word = lw[t]
  <2>1. PICK h \in Hashes : lock_word' = FromHashCode(h) /\ returned' = returned \cup {h} /\ Return(t)
    BY <1>2, Zenon DEF HashUnlocked
  <2>2. /\ Word(lock_word') /\ lock_word'.state = "hash" /\ lock_word'.hash = h
        /\ h \in Nat /\ h # 0 /\ lock_word.state = "unlocked"
    BY <1>2, <2>1, WordsMade, MonitorAssumption, Zenon DEF MonitorAssumption, HashUnlocked
  <2>3. Hashed(h)'
    BY <2>2, Zenon DEF Hashed
  <2> QED
    BY <1>1, <2>1, <2>2, <2>3, StoreWordStep, Zenon DEF HashUnlocked
<1>3. CASE lock_word # lw[t]
  BY <1>1, <1>3, InCall, ContinueStep, Zenon DEF HashUnlocked, word
<1> QED
  BY <1>2, <1>3, Zenon

\* ExitThin: as in EnterRecursive, nothing is lost by the plain store.
LEMMA ExitThinStep ==
  ASSUME MonitorInv, NEW t \in Threads, ExitThin(t)
  PROVE  MonitorInv'
<1>1. /\ pc[t] \in Ops /\ returned' = returned /\ returned' \subseteq Nat
      /\ lock_word = lw[t] /\ lw[t].state = "thin" /\ lw[t].owner = t /\ lw[t].count \in Nat
  BY WordStates, Zenon DEF ExitThin, Ops, MonitorInv, TypeOK, Mine, Known, Words
<1>2. /\ Word(lock_word') /\ lock_word'.state \in {"thin", "unlocked"}
      /\ lock_word'.state = "thin" => lock_word'.owner = t
  <2>1. CASE lw[t].count # 0
    <3>1. lw[t].count - 1 \in Nat /\ lock_word' = FromThinLockId(t, lw[t].count - 1)
      BY <1>1, <2>1, SMTT(30) DEF ExitThin
    <3> QED
      BY <3>1, WordsMade, Zenon
  <2>2. CASE lw[t].count = 0
    BY <2>2, WordsMade, Zenon DEF ExitThin
  <2> QED
    BY <2>1, <2>2, Zenon
<1> QED
  BY <1>1, <1>2, StoreWordStep, Zenon DEF ExitThin

-----------------------------------------------------------------------------
(* InflateThinLocked for another owner.                                    *)

\* A thread that is kBlocked goes on, and perhaps suspends or resumes the owner.
LEMMA BlockedStep ==
  ASSUME MonitorInv, NEW t \in Threads, pc[t] \in Blocking, TypeOK', OthersSame(t),
         pc'[t] \in Blocking \cup {"install"},
         UNCHANGED <<word, fat, locals, waiting, returned>>,
         \A o \in Threads : suspend_count'[o] = Cardinality(Suspenders(o)'),
         pc'[t] = "install" => Holds(m[t].owner),
         pc'[t] \in {"check", "resume", "install"} => AtSuspendPoint(m[t].owner)
  PROVE  MonitorInv'
<1> USE DEF word, fat, locals, waiting
<1>1. PICK o \in Threads \ {t} : o = m[t].owner
  BY Zenon DEF MonitorInv, Mine, CallOf
<1>2. /\ op[t] \in {"enter", "hash", "wait"} /\ m' = m /\ op' = op /\ ~Holds(t) /\ o # None
  BY MonitorAssumption, Zenon
     DEF MonitorInv, Mine, CallOf, HolderAt, Blocking, Ops, Inflating, MonitorAssumption
<1>3. ~Holds(t)' /\ (Holds(o) => Holds(o)')
  BY <1>2, Zenon DEF Holds
<1>4. AtSuspendPoint(t)' /\ (AtSuspendPoint(o) => AtSuspendPoint(o)')
  BY <1>1, <1>2, Zenon DEF AtSuspendPoint, ForOther, Blocking, Inflating, OthersSame
<1>5. Steady(t)
  BY <1>3, <1>4, SameWoken, Zenon DEF Steady, Hashed, Holds
<1>6. Mine(t)'
  <2>1. CallOf(t)' /\ Known(t)' /\ Rewaiting(t)' /\ ~InMonitor(t)'
    BY <1>1, <1>2, Zenon
       DEF CallOf, Known, Rewaiting, InMonitor, Blocking, Inflating, Contending, Asleep, Ops
  <2>2. Installing(t)'
    BY <1>1, <1>2, <1>3, Zenon DEF Installing, Blocking
  <2>3. (Suspends(t) => AtSuspendPoint(m[t].owner))'
    BY <1>1, <1>2, <1>4, Zenon DEF Suspends, Blocking, Inflating
  <2> QED
    BY <1>3, <2>1, <2>2, <2>3, Zenon DEF Mine
<1>7. \A u \in Threads : Mine(u)'
  BY <1>5, <1>6, SteadyStep, Zenon
<1>8. Contenders' = Contenders /\ Waiters' = Waiters
  BY Zenon DEF OthersSame, Contenders, Waiters, Waiter, Contending, Blocking
<1>9. Counted'
  BY <1>8, Zenon DEF MonitorInv, Counted
<1>10. Words' /\ Monitors'
  BY Zenon DEF MonitorInv, Words, Monitors, Hashed
<1>11. SleeperIsReachable'
  BY Zenon DEF MonitorInv, SleeperIsReachable, OthersSame, Blocking
<1> QED
  BY <1>7, <1>9, <1>10, <1>11, Zenon DEF MonitorInv

\* CompareLockWord, OwnerSuspended and CheckLockWord: nobody is suspended or resumed.
LEMMA InspectStep ==
  ASSUME MonitorInv, NEW t \in Threads, CompareLockWord(t) \/ OwnerSuspended(t) \/ CheckLockWord(t)
  PROVE  MonitorInv'
<1> USE DEF CompareLockWord, OwnerSuspended, CheckLockWord, Goto, word, fat, locals, waiting, counters
<1>1. /\ pc[t] \in Blocking /\ pc'[t] \in Blocking \cup {"install"} /\ m' = m /\ op' = op /\ lw' = lw
      /\ UNCHANGED <<word, fat, locals, waiting, returned>> /\ suspend_count' = suspend_count
  BY Zenon DEF MonitorInv, TypeOK, Blocking
<1>2. TypeOK'
  BY Zenon DEF MonitorInv, TypeOK, Pcs, Inflating
<1>3. OthersSame(t)
  BY <1>1, Zenon DEF MonitorInv, TypeOK, OthersSame
<1>4. PICK o \in Threads \ {t} : o = m[t].owner
  BY <1>1, Zenon DEF MonitorInv, Mine, CallOf
<1>5. ForOther(t) /\ ForOther(t)'
  BY <1>1, <1>4, MonitorAssumption, Zenon DEF ForOther, MonitorAssumption
<1>6. (pc[t] = "suspending" \/ Suspends(t))' <=> (pc[t] = "suspending" \/ Suspends(t))
  BY <1>1, <1>5, Zenon DEF MonitorInv, TypeOK, Suspends, Inflating
<1>7. \A q \in Threads : Suspenders(q)' = Suspenders(q)
  BY <1>1, <1>3, <1>6, ZenonT(40) DEF Suspenders, Suspends, ForOther, OthersSame
<1>8. \A q \in Threads : suspend_count'[q] = Cardinality(Suspenders(q)')
  BY <1>1, <1>7, Zenon DEF MonitorInv, Counted
<1>9. pc'[t] = "install" => Holds(m[t].owner)
  BY <1>1, Zenon DEF MonitorInv, TypeOK, Holds
<1>10. pc'[t] \in {"check", "resume", "install"} => AtSuspendPoint(m[t].owner)
  BY <1>1, Zenon DEF MonitorInv, TypeOK, IsSuspended, Mine, Suspends
<1> QED
  BY <1>1, <1>2, <1>3, <1>8, <1>9, <1>10, BlockedStep, Zenon

\* RequestSuspension: t becomes one of those that keep the owner suspended.
LEMMA RequestSuspensionStep ==
  ASSUME MonitorInv, NEW t \in Threads, RequestSuspension(t)
  PROVE  MonitorInv'
<1> USE DEF RequestSuspension, Goto, word, fat, locals, waiting, counters
<1>1. /\ pc[t] \in Blocking /\ pc'[t] = "suspending" /\ m' = m /\ op' = op /\ lw' = lw
      /\ UNCHANGED <<word, fat, locals, waiting, returned>>
  BY Zenon DEF MonitorInv, TypeOK, Blocking
<1>2. PICK o \in Threads \ {t} : o = m[t].owner
  BY <1>1, Zenon DEF MonitorInv, Mine, CallOf
<1>3. suspend_count' = [suspend_count EXCEPT ![o] = @ + 1]
  BY <1>2, Zenon
<1>4. TypeOK'
  <2>1. suspend_count \in [Threads -> Nat] /\ suspend_count[o] + 1 \in Nat
    BY SMTT(30) DEF MonitorInv, TypeOK
  <2>2. suspend_count' \in [Threads -> Nat]
    BY ONLY <1>3, <2>1, Zenon
  <2> QED
    BY <2>2, Zenon DEF MonitorInv, TypeOK, Pcs
<1>5. OthersSame(t)
  BY <1>1, Zenon DEF MonitorInv, TypeOK, OthersSame
<1>6. \A q \in Threads \ {o} : Suspenders(q)' = Suspenders(q)
  BY <1>1, <1>2, <1>5, Zenon DEF Suspenders, Suspends, ForOther, OthersSame
<1>7. Suspenders(o)' = Suspenders(o) \cup {t} /\ t \notin Suspenders(o)
  BY <1>1, <1>2, <1>5, ZenonT(40) DEF Suspenders, Suspends, ForOther, OthersSame, Inflating
<1>8. IsFiniteSet(Suspenders(o))
  BY FS_Subset, MonitorAssumption, Zenon DEF MonitorAssumption, Suspenders
<1>9. Cardinality(Suspenders(o)') = Cardinality(Suspenders(o)) + 1
  BY <1>7, <1>8, FS_AddElement, Zenon
<1>10. \A q \in Threads : suspend_count'[q] = Cardinality(Suspenders(q)')
  BY <1>3, <1>6, <1>9, Zenon DEF MonitorInv, TypeOK, Counted
<1> QED
  BY <1>1, <1>4, <1>5, <1>10, BlockedStep, Zenon DEF Blocking

\* SuspensionTimedOut and ResumeOwner: t lets go of the owner.
LEMMA LetGoStep ==
  ASSUME MonitorInv, NEW t \in Threads, SuspensionTimedOut(t) \/ ResumeOwner(t)
  PROVE  MonitorInv'
<1> USE DEF SuspensionTimedOut, ResumeOwner, Goto, word, fat, locals, waiting, counters
<1>1. /\ pc[t] \in {"suspending", "resume"} /\ pc[t] \in Blocking /\ pc'[t] = "unblock"
      /\ m' = m /\ op' = op /\ lw' = lw
      /\ UNCHANGED <<word, fat, locals, waiting, returned>>
  BY Zenon DEF MonitorInv, TypeOK, Blocking
<1>2. PICK o \in Threads \ {t} : o = m[t].owner
  BY <1>1, Zenon DEF MonitorInv, Mine, CallOf
<1>3. suspend_count' = [suspend_count EXCEPT ![o] = @ - 1]
  BY <1>2, Zenon
<1>4. OthersSame(t)
  BY <1>1, Zenon DEF MonitorInv, TypeOK, OthersSame
<1>5. \A q \in Threads \ {o} : Suspenders(q)' = Suspenders(q)
  BY <1>1, <1>2, <1>4, ZenonT(40) DEF Suspenders, Suspends, ForOther, OthersSame
<1>6. Suspenders(o)' = Suspenders(o) \ {t} /\ t \in Suspenders(o)
  BY <1>1, <1>2, <1>4, ZenonT(60) DEF Suspenders, Suspends, ForOther, OthersSame, Inflating
<1>7. IsFiniteSet(Suspenders(o))
  BY FS_Subset, MonitorAssumption, Zenon DEF MonitorAssumption, Suspenders
<1>8. /\ Cardinality(Suspenders(o)') = Cardinality(Suspenders(o)) - 1
      /\ Cardinality(Suspenders(o)) \in Nat /\ Cardinality(Suspenders(o)) # 0
  BY <1>6, <1>7, FS_RemoveElement, FS_CardinalityType, FS_EmptySet, ZenonT(40)
<1>9. suspend_count[o] = Cardinality(Suspenders(o))
  BY Zenon DEF MonitorInv, Counted
<1>10. suspend_count' \in [Threads -> Nat]
  BY <1>3, <1>8, <1>9, SMTT(30) DEF MonitorInv, TypeOK
<1>11. TypeOK'
  BY <1>10, Zenon DEF MonitorInv, TypeOK, Pcs
<1>12. \A q \in Threads : suspend_count'[q] = Cardinality(Suspenders(q)')
  BY <1>3, <1>5, <1>8, <1>9, Zenon DEF MonitorInv, TypeOK, Counted
<1> QED
  BY <1>1, <1>4, <1>11, <1>12, BlockedStep, Zenon DEF Blocking

\* LeaveBlocked
LEMMA LeaveBlockedStep ==
  ASSUME MonitorInv, NEW t \in Threads, LeaveBlocked(t)
  PROVE  MonitorInv'
<1>1. Uncounted(t)
  BY Zenon DEF LeaveBlocked, Uncounted, Suspends, Contending, Asleep, Inflating
<1> QED
  BY <1>1, ContinueStep, Zenon DEF LeaveBlocked

-----------------------------------------------------------------------------
(* Inflate.                                                                *)

\* A thread goes on inflating for the same owner.
LEMMA InflatingStep ==
  ASSUME MonitorInv, NEW t \in Threads, pc[t] \in Inflating, pc'[t] \in Inflating,
         m'[t].owner = m[t].owner, op'[t] = op[t], OthersSame(t), TypeOK', Word(lw'[t]), Installing(t)',
         UNCHANGED <<lock_word, fat, suspend_count, waiting, returned>>
  PROVE  MonitorInv'
<1> USE DEF fat, waiting
<1>1. ForOther(t)' <=> ForOther(t)
  BY Zenon DEF ForOther
<1>2. Suspends(t)' <=> Suspends(t)
  BY <1>1, Zenon DEF Suspends, Inflating
<1>3. CountsSame(t)
  BY <1>2, Zenon DEF CountsSame, Suspenders, Contenders, Contending, Waiters, Waiter, Inflating
<1>4. AtSuspendPoint(t)' <=> AtSuspendPoint(t)
  BY <1>1, Zenon DEF AtSuspendPoint, Inflating
<1>5. Quiet(t)
  BY <1>3, <1>4, Zenon DEF Quiet, Inflating
<1>6. Suspends(t) => m[t].owner \in Threads \ {t}
  BY Zenon DEF Suspends, ForOther, Inflating, MonitorInv, TypeOK
<1>7. Suspends(t)' => AtSuspendPoint(m[t].owner)'
  <2>1. SUFFICES ASSUME Suspends(t)'
                 PROVE  AtSuspendPoint(m[t].owner)'
    BY Zenon
  <2>2. PICK o \in Threads \ {t} : o = m[t].owner
    BY <1>2, <1>6, <2>1, Zenon
  <2>3. AtSuspendPoint(o)'
    BY <1>2, <2>1, <2>2, Zenon DEF MonitorInv, Mine, AtSuspendPoint, ForOther, OthersSame
  <2> QED
    BY <2>2, <2>3, Zenon
<1>8. Mine(t)'
  <2>1. Mine(t) /\ (Holds(t)' <=> Holds(t))
    BY Zenon DEF MonitorInv, Holds
  <2>2. CallOf(t)' /\ Known(t)' /\ Rewaiting(t)' /\ ~InMonitor(t)'
    BY <2>1, Zenon
       DEF Mine, CallOf, Known, Rewaiting, InMonitor, Inflating, Ops, Blocking, Contending,
           Asleep
  <2>3. (Holds(t) => HolderAt(t))'
    BY <2>1, Zenon DEF Mine, HolderAt, Inflating, Ops
  <2> QED
    BY <1>7, <2>2, <2>3, Zenon DEF Mine
<1> QED
  BY <1>5, <1>8, QuietStep, Zenon

\* Install: the lock word is what the thread expects, with whatever count.
LEMMA InstallStep ==
  ASSUME MonitorInv, NEW t \in Threads, Install(t)
  PROVE  MonitorInv'
<1> USE DEF Install, Goto, word, fat, waiting, counters
<1>1. /\ pc[t] = "install" /\ pc'[t] = "cas" /\ lw'[t] = lock_word /\ op'[t] = op[t]
      /\ m'[t].owner = m[t].owner /\ m'[t].hash = m[t].hash /\ m'[t].count = lock_word.count
      /\ Word(lock_word) /\ Installing(t)
  BY Zenon DEF MonitorInv, TypeOK, Words, Mine
<1>2. TypeOK'
  <2>1. lock_word \in LockWords /\ lock_word.count \in Nat
    BY <1>1, WordStates, Zenon DEF Word
  <2>2. m' \in [Threads -> [owner : Threads \cup {None}, count : Nat, hash : Nat]]
    BY <2>1, Zenon DEF MonitorInv, TypeOK
  <2> QED
    BY <2>1, <2>2, Zenon DEF MonitorInv, TypeOK, Pcs, Inflating
<1>3. OthersSame(t)
  BY Zenon DEF MonitorInv, TypeOK, OthersSame
<1>4. Installing(t)'
  <2>1. m[t].owner = None => lock_word.state = "hash" /\ lock_word.hash = m[t].hash /\ lock_word.count = 0
    BY <1>1, Zenon DEF Installing, Hashed, Word
  <2>2. ForOther(t) => lock_word.state = "thin" /\ lock_word.owner = m[t].owner
    BY <1>1, Zenon DEF Installing, Holds
  <2>3. ForOther(t) => Holds(m[t].owner)
    BY <1>1, Zenon DEF Installing
  <2>4. (m[t].owner = None => Hashed(m[t].hash))'
    BY <1>1, Zenon DEF Installing, Hashed
  <2>5. (ForOther(t) => Holds(m[t].owner))'
    BY <1>1, <2>3, Zenon DEF ForOther, Holds
  <2> QED
    BY <1>1, <2>1, <2>2, <2>4, <2>5, Zenon DEF Installing, ForOther
<1> QED
  BY <1>1, <1>2, <1>3, <1>4, InflatingStep, Zenon DEF Inflating

\* Add
LEMMA AddStep ==
  ASSUME MonitorInv, NEW t \in Threads, Add(t)
  PROVE  MonitorInv'
<1> USE DEF Add, Goto, fat, locals, waiting, counters
<1>1. /\ pc[t] = "add" /\ pc'[t] = "added" /\ lw' = lw /\ op' = op /\ m' = m /\ Word(lw[t])
  BY Zenon DEF MonitorInv, TypeOK, Words
<1>2. TypeOK'
  BY Zenon DEF MonitorInv, TypeOK, Pcs, Inflating
<1>3. OthersSame(t)
  BY Zenon DEF MonitorInv, TypeOK, OthersSame
<1>4. Installing(t)'
  BY <1>1, Zenon DEF Installing
<1> QED
  BY <1>1, <1>2, <1>3, <1>4, InflatingStep, Zenon DEF Inflating

\* InstallBeaten and Added: back to the caller, or to resume the owner.
LEMMA InflatedStep ==
  ASSUME MonitorInv, NEW t \in Threads, InstallBeaten(t) \/ Added(t)
  PROVE  MonitorInv'
<1>1. /\ pc[t] \in Inflating /\ Inflated(t)
      /\ UNCHANGED <<word, fat, suspend_count, waiting, returned, counters>>
  BY Zenon DEF InstallBeaten, Added, Inflating
<1>2. CASE ~ForOther(t)
  <2>1. Uncounted(t) /\ ~AtSuspendPoint(t)
    BY <1>1, <1>2, Zenon DEF Uncounted, Suspends, AtSuspendPoint, Contending, Asleep, Inflating
  <2> QED
    BY <1>1, <1>2, <2>1, ContinueStep, Zenon DEF Inflated
<1>3. CASE ForOther(t)
  <2> USE DEF Goto, word, fat, locals, waiting, counters
  <2>1. pc' = [pc EXCEPT ![t] = "resume"] /\ UNCHANGED locals
    BY <1>1, <1>3, Zenon DEF Inflated
  <2>2. /\ pc'[t] = "resume" /\ m' = m /\ op' = op /\ lw' = lw /\ Word(lw[t])
    BY <2>1, Zenon DEF MonitorInv, TypeOK, Words
  <2>3. PICK o \in Threads \ {t} : o = m[t].owner
    BY <1>3, Zenon DEF MonitorInv, TypeOK, ForOther
  <2>4. TypeOK'
    BY <1>1, <2>1, Zenon DEF MonitorInv, TypeOK, Pcs
  <2>5. Suspends(t) /\ Suspends(t)' /\ OthersSame(t)
    BY <1>1, <1>3, <2>1, Zenon DEF Suspends, MonitorInv, TypeOK, OthersSame
  <2>6. CountsSame(t)
    BY <1>1, <2>2, <2>5, Zenon
       DEF CountsSame, Suspenders, Contenders, Contending, Waiters, Waiter, Inflating
  <2>7. Quiet(t)
    BY <1>1, <2>2, <2>5, <2>6, Zenon DEF Quiet, AtSuspendPoint
  <2>8. AtSuspendPoint(o)'
    BY <2>3, <2>5, Zenon DEF MonitorInv, Mine, AtSuspendPoint, ForOther, OthersSame
  <2>9. ~Holds(t)' /\ op[t] \in {"enter", "hash", "wait"}
    BY <1>1, <2>3, Zenon DEF MonitorInv, Mine, CallOf, HolderAt, Inflating, Ops, Holds
  <2>10. Mine(t)'
    BY <2>2, <2>3, <2>8, <2>9, Zenon
       DEF Mine, CallOf, Known, Installing, Rewaiting, InMonitor, Ops, Blocking, Inflating,
           Contending, Asleep
  <2> QED
    BY <2>2, <2>4, <2>7, <2>10, QuietStep, Zenon
<1> QED
  BY <1>2, <1>3, Zenon

\* Nobody sleeps on a Monitor the object does not have.
LEMMA NotFatEmpty ==
  ASSUME MonitorInv, lock_word.state # "fat"
  PROVE  /\ Contenders = {} /\ Waiters = {}
         /\ \A u \in Threads : pc[u] # "waiting"
BY Zenon DEF MonitorInv, Mine, InMonitor, Contenders, Contending, Waiters, Waiter

\* CasLockWord: the Monitor takes over what the lock word said; an owner other
\* than the thread itself is suspended in managed code.
LEMMA CasLockWordStep ==
  ASSUME MonitorInv, NEW t \in Threads, CasLockWord(t)
  PROVE  MonitorInv'
<1> USE DEF CasLockWord, Goto, locals, waiting, counters
<1>1. /\ pc[t] = "cas" /\ pc'[t] = "add" /\ lw' = lw /\ op' = op /\ m' = m /\ t # None
      /\ Installing(t) /\ lock_word = lw[t] /\ lock_word'.state = "fat" /\ Word(lock_word')
      /\ m[t].owner \in Threads \cup {None}
  BY WordsMade, MonitorAssumption, SMTT(30) DEF MonitorInv, TypeOK, Mine, MonitorAssumption
<1>2. TypeOK'
  BY <1>1, SMTT(30) DEF MonitorInv, TypeOK, Pcs, Inflating, Word
<1>3. OthersSame(t)
  BY Zenon DEF MonitorInv, TypeOK, OthersSame
<1>4. lock_word.state \in {"thin", "hash"} /\ (lock_word.state = "hash" <=> m[t].owner = None)
  BY <1>1, Zenon DEF Installing
<1>5. \A h \in Nat : Hashed(h) => Hashed(h)'
  BY <1>1, <1>4, Zenon DEF Hashed, Installing
<1>6. \A u \in Threads : Holds(u)' <=> Holds(u)
  BY <1>1, <1>4, MonitorAssumption, Zenon DEF Holds, Installing, MonitorAssumption
<1>7. \A u \in Threads \ {t} : Holds(u) => pc[u] = "idle"
  <2>1. SUFFICES ASSUME NEW u \in Threads \ {t}, Holds(u)
                 PROVE  pc[u] = "idle"
    BY Zenon
  <2>2. m[t].owner = u
    BY <1>1, <1>4, <2>1, Zenon DEF Holds, Installing
  <2>3. Suspends(t)
    BY <1>1, <2>2, MonitorAssumption, Zenon
       DEF Suspends, Inflating, ForOther, MonitorAssumption
  <2>4. AtSuspendPoint(u)
    BY <2>2, <2>3, Zenon DEF MonitorInv, Mine
  <2> QED
    BY <2>1, <2>4, SuspendedHolder, Zenon
<1>8. Suspends(t)' <=> Suspends(t)
  BY <1>1, Zenon DEF Suspends, Inflating, ForOther
<1>9. AtSuspendPoint(t)' <=> AtSuspendPoint(t)
  BY <1>1, Zenon DEF AtSuspendPoint, Inflating, ForOther
<1>10. Steady(t)
  BY <1>1, <1>3, <1>4, <1>5, <1>6, <1>7, <1>9, SameWoken, Zenon DEF Steady
<1>11. Suspends(t)' => AtSuspendPoint(m[t].owner)'
  <2>1. SUFFICES ASSUME Suspends(t)
                 PROVE  AtSuspendPoint(m[t].owner)'
    BY <1>8, Zenon
  <2>2. PICK o \in Threads \ {t} : o = m[t].owner
    BY <1>1, <2>1, Zenon DEF Suspends, ForOther
  <2>3. AtSuspendPoint(o)'
    BY <1>3, <2>1, <2>2, ZenonT(60) DEF MonitorInv, Mine, AtSuspendPoint, ForOther, OthersSame
  <2> QED
    BY <1>1, <2>2, <2>3, Zenon
<1>12. Mine(t)'
  <2>1. (Holds(t) => HolderAt(t))'
    BY <1>1, Zenon DEF Holds, HolderAt, Inflating
  <2>2. CallOf(t)'
    BY <1>1, Zenon DEF MonitorInv, Mine, CallOf, Inflating, Blocking, Contending, Asleep, Ops
  <2> QED
    BY <1>1, <1>11, <2>1, <2>2, Zenon DEF Mine, Known, Installing, Rewaiting, InMonitor, Ops
<1>13. \A u \in Threads : Mine(u)'
  BY <1>10, <1>12, SteadyStep, Zenon
<1>14. Words' /\ Monitors'
  <2>1. m[t].owner = None => m[t].count = 0
    BY <1>1, Zenon DEF Installing
  <2> QED
    BY <1>1, <1>5, <2>1, Zenon DEF MonitorInv, TypeOK, Words, Monitors
<1>15. \A o \in Threads : Suspenders(o)' = Suspenders(o)
  BY <1>1, <1>3, <1>8, Zenon DEF Suspenders, Suspends, ForOther, OthersSame
<1>16. Contenders' = {} /\ Waiters' = {}
  BY <1>1, <1>3, <1>4, NotFatEmpty, SMTT(30)
     DEF Contenders, Contending, Waiters, Waiter, OthersSame
<1>17. Counted'
  BY <1>15, <1>16, FS_EmptySet, SMTT(30) DEF MonitorInv, Counted
<1>18. SleeperIsReachable'
  BY <1>1, <1>3, <1>4, NotFatEmpty, Zenon DEF SleeperIsReachable, OthersSame
<1> QED
  BY <1>2, <1>13, <1>14, <1>17, <1>18, Zenon DEF MonitorInv

-----------------------------------------------------------------------------
(* Inside the Monitor.                                                     *)

\* A step of t that uses the Monitor, and perhaps wakes other threads.
Inside(t) ==
  /\ lock_word.state = "fat" /\ lock_word' = lock_word
  /\ OthersWoken(t)
  /\ pc[t] \notin Blocking \cup Inflating /\ pc'[t] \notin Blocking \cup Inflating
  /\ pc[t] # "idle"
  /\ owner_' = owner_ \/ (owner_ \in {None, t} /\ owner_' \in {None, t})
  /\ lock_count_' = lock_count_ \/ owner_ \in {None, t}
  /\ owner_' = None => lock_count_' = 0
  /\ hash_code_ # 0 => hash_code_' = hash_code_
  /\ \A h \in returned' : h \in returned \/ Hashed(h)'
  /\ suspend_count' = suspend_count
  /\ (AtSuspendPoint(t) /\ ~MayRun(t)) => AtSuspendPoint(t)'

\* Such a step preserves the invariant if num_waiters_ counts right, every
\* sleeper can be woken, and t knows what it must.
LEMMA InsideStep ==
  ASSUME MonitorInv, NEW t \in Threads, Inside(t), TypeOK', Word(lw'[t]), Mine(t)',
         SleeperIsReachable', num_waiters_' = Cardinality(Contenders') + Cardinality(Waiters')
  PROVE  MonitorInv'
<1>1. Words'
  BY Zenon DEF MonitorInv, Inside, OthersWoken, Words
<1>2. \A h \in Nat : Hashed(h) => Hashed(h)'
  BY Zenon DEF Inside, Hashed
<1>3. Monitors'
  <2>1. returned' \subseteq Nat
    BY Zenon DEF TypeOK
  <2> QED
    BY <1>2, <2>1, Zenon DEF MonitorInv, Inside, Monitors
<1>4. \A o \in Threads : Suspenders(o)' = Suspenders(o)
  BY ZenonT(60) DEF Inside, OthersWoken, Suspenders, Suspends, ForOther, Blocking, Inflating
<1>5. Counted'
  BY <1>4, Zenon DEF MonitorInv, Counted, Inside
<1>6. \A u \in Threads \ {t} : (Holds(u)' <=> Holds(u)) /\ (Holds(u) => lock_count_' = lock_count_)
  BY MonitorAssumption, SMTT(30) DEF Inside, Holds, MonitorAssumption
<1>7. Steady(t)
  BY <1>2, <1>6, Zenon DEF Inside, Steady
<1>8. \A u \in Threads : Mine(u)'
  BY <1>7, SteadyStep, Zenon
<1> QED
  BY <1>1, <1>3, <1>5, <1>8, Zenon DEF MonitorInv

Counts(t) == Waiter(t) \/ pc[t] = "rewait"

\* Contenders changes with t alone.
LEMMA ContendersMove ==
  ASSUME NEW t \in Threads, OthersWoken(t)
  PROVE  /\ Cardinality(Contenders) \in Nat
         /\ (pc'[t] \in Contending <=> pc[t] \in Contending) =>
              Cardinality(Contenders') = Cardinality(Contenders)
         /\ pc'[t] \in Contending /\ pc[t] \notin Contending =>
              Cardinality(Contenders') = Cardinality(Contenders) + 1
         /\ pc'[t] \notin Contending /\ pc[t] \in Contending =>
              /\ Cardinality(Contenders') = Cardinality(Contenders) - 1
              /\ Cardinality(Contenders) > 0
<1>1. IsFiniteSet(Contenders)
  BY FS_Subset, MonitorAssumption, Zenon DEF MonitorAssumption, Contenders
<1>2. Cardinality(Contenders) \in Nat
  BY <1>1, FS_CardinalityType, Zenon
<1>3. \A u \in Threads \ {t} : u \in Contenders' <=> u \in Contenders
  BY Zenon DEF OthersWoken, Contenders, Contending
<1>4. /\ t \in Contenders <=> pc[t] \in Contending
      /\ t \in Contenders' <=> pc'[t] \in Contending
      /\ Contenders \subseteq Threads /\ Contenders' \subseteq Threads
  BY Zenon DEF Contenders
<1>5. ASSUME pc'[t] \in Contending <=> pc[t] \in Contending
      PROVE  Contenders' = Contenders
  BY <1>3, <1>4, <1>5, SMTT(30)
<1>6. ASSUME pc'[t] \in Contending, pc[t] \notin Contending
      PROVE  Contenders' = Contenders \cup {t} /\ t \notin Contenders
  BY <1>3, <1>4, <1>6, Zenon
<1>7. ASSUME pc'[t] \notin Contending, pc[t] \in Contending
      PROVE  Contenders' = Contenders \ {t} /\ t \in Contenders
  BY <1>3, <1>4, <1>7, Zenon
<1> QED
  BY <1>1, <1>2, <1>5, <1>6, <1>7, FS_AddElement, FS_RemoveElement, FS_EmptySet, SMTT(30)

\* Waiters changes with t alone.
LEMMA WaitersMove ==
  ASSUME NEW t \in Threads, OthersWoken(t)
  PROVE  /\ Cardinality(Waiters) \in Nat
         /\ (Counts(t)' <=> Counts(t)) => Cardinality(Waiters') = Cardinality(Waiters)
         /\ Counts(t)' /\ ~Counts(t) => Cardinality(Waiters') = Cardinality(Waiters) + 1
         /\ ~Counts(t)' /\ Counts(t) =>
              /\ Cardinality(Waiters') = Cardinality(Waiters) - 1
              /\ Cardinality(Waiters) > 0
<1>1. IsFiniteSet(Waiters)
  BY FS_Subset, MonitorAssumption, Zenon DEF MonitorAssumption, Waiters
<1>2. Cardinality(Waiters) \in Nat
  BY <1>1, FS_CardinalityType, Zenon
<1>3. \A u \in Threads \ {t} : u \in Waiters' <=> u \in Waiters
  BY Zenon DEF OthersWoken, Waiters, Waiter
<1>4. /\ t \in Waiters <=> Counts(t)
      /\ t \in Waiters' <=> Counts(t)'
      /\ Waiters \subseteq Threads /\ Waiters' \subseteq Threads
  BY Zenon DEF Waiters, Counts
<1>5. ASSUME Counts(t)' <=> Counts(t)
      PROVE  Waiters' = Waiters
  BY <1>3, <1>4, <1>5, SMTT(30)
<1>6. ASSUME Counts(t)', ~Counts(t)
      PROVE  Waiters' = Waiters \cup {t} /\ t \notin Waiters
  BY <1>3, <1>4, <1>6, Zenon
<1>7. ASSUME ~Counts(t)', Counts(t)
      PROVE  Waiters' = Waiters \ {t} /\ t \in Waiters
  BY <1>3, <1>4, <1>7, Zenon
<1> QED
  BY <1>1, <1>2, <1>5, <1>6, <1>7, FS_AddElement, FS_RemoveElement, FS_EmptySet, SMTT(30)

\* A thread that waits for the lock or in Object.wait goes on waiting.
LEMMA StillWaitsStep ==
  ASSUME MonitorInv, NEW t \in Threads, OthersSame(t), TypeOK',
         \/ pc[t] \in Contending /\ pc'[t] \in Contending
         \/ pc[t] \in Asleep /\ pc'[t] \in {"signaled", "waited", "lock"},
         pc'[t] \in {"lock", "relock"} => MayRun(t),
         \A u \in Threads \ {t} :
           wait_monitor_'[u] = wait_monitor_[u] /\ interrupted_'[u] = interrupted_[u],
         UNCHANGED <<lock_word, fat, locals, suspend_count, returned>>
  PROVE  MonitorInv'
<1> USE DEF fat, locals
<1>1. Mine(t) /\ ~Holds(t) /\ ~Holds(t)' /\ lock_word.state = "fat"
  BY Zenon DEF MonitorInv, Mine, HolderAt, Holds, Contending, Asleep, Ops, Inflating, InMonitor
<1>2. CountsSame(t)
  BY <1>1, Zenon
     DEF CountsSame, Suspenders, Suspends, Contenders, Waiters, Waiter, Contending, Asleep,
         Inflating, Mine, CallOf
<1>3. Quiet(t)
  BY <1>2, Zenon DEF Quiet, Contending, Asleep, AtSuspendPoint
<1>4. Mine(t)'
  BY <1>1, Zenon
     DEF Mine, CallOf, Known, Installing, Rewaiting, InMonitor, Suspends, Ops, Blocking,
         Inflating, Contending, Asleep
<1> QED
  BY <1>3, <1>4, QuietStep, Zenon DEF MonitorInv, Words

\* Contend, BecomeRunnable, ContenderWakes, WaitTimesOut, WakeUp and EndWait
LEMMA WaitingStep ==
  ASSUME MonitorInv, NEW t \in Threads,
         \/ Contend(t) \/ BecomeRunnable(t) \/ ContenderWakes(t)
         \/ WaitTimesOut(t) \/ WakeUp(t) \/ EndWait(t)
  PROVE  MonitorInv'
<1> USE DEF Contend, BecomeRunnable, ContenderWakes, WaitTimesOut, WakeUp, EndWait, Goto,
        word, fat, locals, waiting, counters
<1>1. TypeOK'
  BY Zenon DEF MonitorInv, TypeOK, Pcs
<1>2. OthersSame(t)
  BY Zenon DEF MonitorInv, TypeOK, OthersSame
<1>3. /\ \/ pc[t] \in Contending /\ pc'[t] \in Contending
         \/ pc[t] \in Asleep /\ pc'[t] \in {"signaled", "waited", "lock"}
      /\ pc'[t] \in {"lock", "relock"} => MayRun(t)
  BY Zenon DEF MonitorInv, TypeOK, Contending, Asleep
<1>4. \A u \in Threads \ {t} :
        wait_monitor_'[u] = wait_monitor_[u] /\ interrupted_'[u] = interrupted_[u]
  BY Zenon DEF MonitorInv, TypeOK
<1> QED
  BY <1>1, <1>2, <1>3, <1>4, StillWaitsStep, Zenon

\* Interrupt: a sleeper is always signalled.
LEMMA InterruptStep ==
  ASSUME MonitorInv, NEW t \in Threads, Interrupt(t)
  PROVE  MonitorInv'
<1> USE DEF Interrupt, WaitCondSignal, word, fat, locals, waiting, counters
<1>1. t # None /\ \A u \in Threads : u # None
  BY MonitorAssumption, Zenon DEF MonitorAssumption
<1>2. OthersSame(t)
  BY <1>1, Zenon DEF OthersSame
<1>3. pc' \in [Threads -> Pcs]
  BY <1>1, Zenon DEF MonitorInv, TypeOK, Pcs
<1>4. TypeOK'
  BY <1>3, SMTT(30) DEF MonitorInv, TypeOK
<1>5. \A u \in Threads \ {t} :
        wait_monitor_'[u] = wait_monitor_[u] /\ interrupted_'[u] = interrupted_[u]
  BY Zenon DEF MonitorInv, TypeOK
<1>6. CASE pc[t] = "waiting"
  <2>1. pc'[t] = "signaled"
    BY <1>6, Zenon DEF MonitorInv, SleeperIsReachable
  <2> QED
    BY <1>2, <1>4, <1>5, <1>6, <2>1, StillWaitsStep, Zenon DEF Asleep
<1>7. CASE pc[t] # "waiting"
  <2>1. pc'[t] = pc[t] /\ pc' = pc
    BY <1>1, <1>7, Zenon DEF MonitorInv, TypeOK
  <2>2. CountsSame(t)
    BY <2>1, Zenon DEF CountsSame, Suspenders, Suspends, ForOther, Contenders, Waiters, Waiter
  <2>3. Quiet(t)
    BY <1>2, <1>5, <1>7, <2>1, <2>2, Zenon DEF Quiet, AtSuspendPoint, ForOther
  <2>4. Mine(t)'
    <3>1. Mine(t)
      BY Zenon DEF MonitorInv
    <3>2. CallOf(t)' /\ Known(t)' /\ Installing(t)' /\ Rewaiting(t)'
      BY <2>1, <3>1, ZenonT(40)
         DEF Mine, CallOf, Known, Installing, Rewaiting, ForOther, Holds, Hashed
    <3>3. (Holds(t) => HolderAt(t))' /\ (InMonitor(t) => lock_word.state = "fat")'
      BY <2>1, <3>1, Zenon DEF Mine, Holds, HolderAt, InMonitor
    <3>4. (Suspends(t) => AtSuspendPoint(m[t].owner))'
      BY <2>1, <3>1, Zenon DEF Mine, Suspends, ForOther, AtSuspendPoint
    <3> QED
      BY <3>2, <3>3, <3>4, Zenon DEF Mine
  <2> QED
    BY <1>4, <2>3, <2>4, QuietStep, Zenon DEF MonitorInv, Words
<1> QED
  BY <1>6, <1>7, Zenon

\* HashFat: the code of the Monitor is set once.
LEMMA HashFatStep ==
  ASSUME MonitorInv, NEW t \in Threads, HashFat(t)
  PROVE  MonitorInv'
<1> USE DEF HashFat, Return, Goto, DropLocals, NewMonitor, word, waiting, counters
<1>1. /\ pc[t] \in Ops /\ pc[t] = "hash" /\ pc'[t] = "idle" /\ lw'[t] = Unlocked
      /\ lock_word.state = "fat" /\ lock_word' = lock_word /\ owner_' = owner_
  BY Zenon DEF MonitorInv, TypeOK, Ops, Mine, InMonitor
<1>2. PICK h \in Hashes : hash_code_' = IF hash_code_ = 0 THEN h ELSE hash_code_
  BY Zenon
<1>3. hash_code_' \in Nat \ {0} /\ (hash_code_ # 0 => hash_code_' = hash_code_)
  BY <1>2, MonitorAssumption, Zenon DEF MonitorAssumption, MonitorInv, TypeOK
<1>4. TypeOK'
  BY <1>3, WordsMade, ZenonT(60) DEF MonitorInv, TypeOK, Pcs, Ops, Word
<1>5. Hashed(hash_code_)'
  BY <1>1, <1>3, Zenon DEF Hashed
<1>6. OthersSame(t) /\ OthersWoken(t)
  BY SameWoken, Zenon DEF MonitorInv, TypeOK, OthersSame
<1>7. Inside(t)
  <2>1. \A h2 \in returned' : h2 \in returned \/ Hashed(h2)'
    BY <1>1, <1>3, Zenon DEF Hashed
  <2>2. owner_' = None => lock_count_' = 0
    BY <1>1, Zenon DEF MonitorInv, Monitors
  <2> QED
    BY <1>1, <1>3, <1>6, <2>1, <2>2, InCall, Zenon DEF Inside, Blocking, Inflating
<1>8. num_waiters_' = Cardinality(Contenders') + Cardinality(Waiters')
  BY <1>1, <1>6, ContendersMove, WaitersMove, Zenon
     DEF MonitorInv, Counted, Counts, Waiter, Contending
<1>9. SleeperIsReachable'
  BY <1>1, <1>6, Zenon DEF MonitorInv, OthersSame, SleeperIsReachable
<1> QED
  BY <1>1, <1>4, <1>7, <1>8, <1>9, IdleMine, WordsMade, InsideStep, Zenon

\* LockTurn by a thread that is not counted as a contender, or no longer.
LEMMA LockTurnStep ==
  ASSUME MonitorInv, NEW t \in Threads, pc[t] \in {"lock", "relock"},
         LockTurn(t, num_waiters_ - (IF pc[t] = "relock" THEN 1 ELSE 0)),
         UNCHANGED <<word, wait_set_, hash_code_, suspend_count, waiting, returned, counters>>
  PROVE  MonitorInv'
<1> USE DEF LockTurn, Locked, Return, Goto, DropLocals, NewMonitor, word, locals, waiting, counters
<1> DEFINE w == num_waiters_ - (IF pc[t] = "relock" THEN 1 ELSE 0)
<1>1. /\ lock_word.state = "fat" /\ lock_word' = lock_word /\ op[t] \in {"enter", "wait"} /\ t # None
      /\ op[t] = "enter" \/ op[t] = "wait"
      /\ owner_ = t => pc[t] = "lock" /\ op[t] = "enter"
      /\ Word(lw[t]) /\ lw \in [Threads -> LockWords]
  BY MonitorAssumption, Zenon
     DEF MonitorInv, TypeOK, Words, Mine, CallOf, InMonitor, Contending, Holds, HolderAt, Ops,
         Inflating, MonitorAssumption
<1>2. /\ num_waiters_ = Cardinality(Contenders) + Cardinality(Waiters)
      /\ Cardinality(Contenders) \in Nat /\ Cardinality(Waiters) \in Nat
      /\ pc[t] = "relock" => Cardinality(Contenders) > 0
  <2>1. t \in Contenders <=> pc[t] = "relock"
    BY Zenon DEF Contenders, Contending
  <2>2. IsFiniteSet(Contenders) /\ IsFiniteSet(Waiters)
    BY FS_Subset, MonitorAssumption, Zenon DEF MonitorAssumption, Contenders, Waiters
  <2> QED
    BY <1>1, <2>1, <2>2, FS_CardinalityType, FS_EmptySet, SMTT(30) DEF MonitorInv, Counted
<1>3. w \in Nat
  BY <1>2, SMTT(30)
<1>4. OthersSame(t) /\ OthersWoken(t)
  BY SameWoken, Zenon DEF MonitorInv, TypeOK, OthersSame
<1>5. SleeperIsReachable'
  <2>1. pc'[t] # "waiting"
    BY Zenon DEF MonitorInv, TypeOK
  <2> QED
    BY <1>4, <2>1, Zenon DEF MonitorInv, OthersSame, SleeperIsReachable
<1>6. TypeOK'
  <2>1. pc' \in [Threads -> Pcs] /\ op' \in [Threads -> Ops]
    BY Zenon DEF MonitorInv, TypeOK, Pcs, Ops
  <2>2. /\ lw' \in [Threads -> LockWords]
        /\ m' \in [Threads -> [owner : Threads \cup {None}, count : Nat, hash : Nat]]
    <3>1. \/ lw' = lw /\ m' = m
          \/ /\ lw' = [lw EXCEPT ![t] = Unlocked]
             /\ m' = [m EXCEPT ![t] = [owner |-> None, count |-> 0, hash |-> 0]]
      BY Zenon
    <3>2. /\ Unlocked \in LockWords /\ lw \in [Threads -> LockWords]
          /\ m \in [Threads -> [owner : Threads \cup {None}, count : Nat, hash : Nat]]
      BY WordsMade, Zenon DEF MonitorInv, TypeOK, Word
    <3> QED
      BY ONLY <3>1, <3>2, SMTT(30)
  <2>3. owner_' \in Threads \cup {None} /\ lock_count_' \in Nat /\ num_waiters_' \in Nat
    BY <1>3, SMTT(30) DEF MonitorInv, TypeOK
  <2> QED
    BY <2>1, <2>2, <2>3, Zenon DEF MonitorInv, TypeOK
<1>7. Word(lw'[t])
  BY <1>1, WordsMade, SMTT(30) DEF MonitorInv, TypeOK
<1>8. CASE owner_ \in {None, t}
  <2>1. /\ owner_' = t /\ num_waiters_' = w /\ Locked(t)
        /\ lock_count_' = IF owner_ = None THEN lock_count_ ELSE lock_count_ + 1
    BY <1>1, <1>8, Zenon
  <2>2. CASE op[t] = "enter"
    <3>1. pc'[t] = "idle"
      BY <2>1, <2>2, Zenon DEF MonitorInv, TypeOK
    <3>2. Inside(t)
      BY <1>1, <1>4, <1>8, <2>1, <3>1, Zenon DEF Inside, Blocking, Inflating, AtSuspendPoint
    <3>3. num_waiters_' = Cardinality(Contenders') + Cardinality(Waiters')
      BY <1>2, <1>4, <2>1, <2>2, <3>1, ContendersMove, WaitersMove, SMTT(30)
         DEF Counts, Waiter, Contending
    <3> QED
      BY <1>5, <1>6, <1>7, <3>1, <3>2, <3>3, IdleMine, InsideStep, Zenon
  <2>3. CASE op[t] = "wait"
    <3>1. pc'[t] = "rewait" /\ op' = op /\ lock_count_ = 0 /\ lock_count_' = 0
      BY <1>1, <1>8, <2>1, <2>3, Zenon DEF MonitorInv, TypeOK, Monitors
    <3>2. Inside(t)
      BY <1>1, <1>4, <1>8, <2>1, <3>1, Zenon DEF Inside, Blocking, Inflating, AtSuspendPoint
    <3>3. num_waiters_' = Cardinality(Contenders') + Cardinality(Waiters')
      BY <1>2, <1>4, <2>1, <2>3, <3>1, ContendersMove, WaitersMove, SMTT(30)
         DEF Counts, Waiter, Contending
    <3>4. Mine(t)'
      BY <1>1, <2>1, <2>3, <3>1, Zenon
         DEF Mine, CallOf, Known, Installing, Rewaiting, HolderAt, InMonitor, Suspends, Ops,
             Blocking, Inflating, Contending, Asleep
    <3> QED
      BY <1>5, <1>6, <1>7, <3>2, <3>3, <3>4, InsideStep, Zenon
  <2> QED
    BY <1>1, <2>2, <2>3, Zenon
<1>9. CASE owner_ \notin {None, t}
  <2>1. /\ pc'[t] = "contend" /\ op' = op /\ num_waiters_' = w + 1 /\ owner_' = owner_
        /\ lock_count_' = lock_count_
    BY <1>9, Zenon DEF MonitorInv, TypeOK
  <2>2. Inside(t)
    BY <1>1, <1>4, <1>9, <2>1, Zenon DEF Inside, Blocking, Inflating, AtSuspendPoint
  <2>3. num_waiters_' = Cardinality(Contenders') + Cardinality(Waiters')
    BY <1>1, <1>2, <1>4, <2>1, ContendersMove, WaitersMove, SMTT(30)
       DEF Counts, Waiter, Contending
  <2>4. Mine(t)'
    BY <1>1, <1>9, <2>1, Zenon
       DEF Mine, CallOf, Known, Installing, Rewaiting, Holds, InMonitor, Suspends, Ops,
           Blocking, Inflating, Contending, Asleep
  <2> QED
    BY <1>5, <1>6, <1>7, <2>2, <2>3, <2>4, InsideStep, Zenon
<1> QED
  BY <1>8, <1>9, Zenon

\* Lock and Relock
LEMMA LockStep ==
  ASSUME MonitorInv, NEW t \in Threads, Lock(t) \/ Relock(t)
  PROVE  MonitorInv'
<1>1. /\ pc[t] \in {"lock", "relock"} /\ num_waiters_ \in Nat
      /\ UNCHANGED <<word, wait_set_, hash_code_, suspend_count, waiting, returned, counters>>
  BY Zenon DEF Lock, Relock, MonitorInv, TypeOK
<1>2. CASE pc[t] = "lock"
  <2>1. num_waiters_ - (IF pc[t] = "relock" THEN 1 ELSE 0) = num_waiters_
    BY <1>1, <1>2, SMTT(30)
  <2>2. LockTurn(t, num_waiters_)
    BY <1>2, Zenon DEF Lock, Relock
  <2> QED
    BY <1>1, <2>1, <2>2, LockTurnStep, Zenon
<1>3. CASE pc[t] = "relock"
  <2>1. num_waiters_ - (IF pc[t] = "relock" THEN 1 ELSE 0) = num_waiters_ - 1
    BY <1>3, Zenon
  <2>2. LockTurn(t, num_waiters_ - 1)
    BY <1>3, Zenon DEF Lock, Relock
  <2> QED
    BY <1>1, <2>1, <2>2, LockTurnStep, Zenon
<1> QED
  BY <1>1, <1>2, <1>3, Zenon

\* SignalContender, after t's own move to l, wakes at most one contender.
LEMMA SignalContenderMoves ==
  ASSUME NEW t \in Threads, NEW l \in Pcs \ {"contender"}, pc \in [Threads -> Pcs],
         SignalContender([pc EXCEPT ![t] = l])
  PROVE  /\ pc' \in [Threads -> Pcs] /\ pc'[t] = l
         /\ \A u \in Threads \ {t} : pc'[u] = pc[u] \/ (pc[u] = "contender" /\ pc'[u] = "woken")
<1> DEFINE p == [pc EXCEPT ![t] = l]
           sleeping == {c \in Threads : p[c] = "contender"}
<1>1. p \in [Threads -> Pcs] /\ p[t] = l /\ \A u \in Threads \ {t} : p[u] = pc[u]
  BY Zenon
<1>2. IF sleeping = {} THEN pc' = p ELSE \E c \in sleeping : pc' = [p EXCEPT ![c] = "woken"]
  BY Zenon DEF SignalContender
<1> HIDE DEF p
<1>3. CASE sleeping = {}
  BY <1>1, <1>2, <1>3, Zenon
<1>4. CASE sleeping # {}
  <2>1. PICK c \in sleeping : pc' = [p EXCEPT ![c] = "woken"]
    BY <1>2, <1>4, Zenon
  <2>2. c \in Threads /\ p[c] = "contender" /\ c # t
    BY <1>1, <2>1, Zenon
  <2> QED
    BY <1>1, <2>1, <2>2, Zenon DEF Pcs
<1> QED
  BY <1>3, <1>4, Zenon

\* ExitFat: the owner gives up one entry, or the lock.
LEMMA ExitFatStep ==
  ASSUME MonitorInv, NEW t \in Threads, ExitFat(t)
  PROVE  MonitorInv'
<1> USE DEF ExitFat, DropLocals, NewMonitor, word, waiting, counters
<1>1. /\ pc[t] \in Ops /\ pc[t] = "exit" /\ lw'[t] = Unlocked /\ owner_ = t /\ t # None
      /\ lock_word.state = "fat" /\ lock_word' = lock_word /\ pc \in [Threads -> Pcs]
      /\ lock_count_ \in Nat /\ "idle" \in Pcs \ {"contender"}
  BY MonitorAssumption, Zenon
     DEF MonitorInv, TypeOK, Ops, Mine, InMonitor, MonitorAssumption, Pcs
<1>2. /\ pc' \in [Threads -> Pcs] /\ pc'[t] = "idle"
      /\ \A u \in Threads \ {t} : pc'[u] = pc[u] \/ (pc[u] = "contender" /\ pc'[u] = "woken")
  <2>1. CASE lock_count_ = 0
    BY <1>1, <2>1, SignalContenderMoves, Zenon DEF Unlock
  <2>2. CASE lock_count_ # 0
    BY <1>1, <2>2, Zenon DEF Unlock, Goto
  <2> QED
    BY <2>1, <2>2, Zenon
<1>3. /\ owner_' \in {t, None} /\ lock_count_' \in Nat /\ (owner_' = None => lock_count_' = 0)
  BY <1>1, SMTT(30) DEF Unlock
<1>4. TypeOK'
  <2>1. lw' \in [Threads -> LockWords] /\ op' \in [Threads -> Ops]
    BY WordsMade, Zenon DEF MonitorInv, TypeOK, Ops, Word
  <2>2. m' \in [Threads -> [owner : Threads \cup {None}, count : Nat, hash : Nat]]
    BY Zenon DEF MonitorInv, TypeOK
  <2> QED
    BY <1>2, <1>3, <2>1, <2>2, Zenon DEF MonitorInv, TypeOK
<1>5. OthersWoken(t)
  BY <1>2, Zenon DEF MonitorInv, TypeOK, OthersWoken
<1>6. Inside(t)
  BY <1>1, <1>2, <1>3, <1>5, InCall, Zenon DEF Inside, Blocking, Inflating
<1>7. num_waiters_' = Cardinality(Contenders') + Cardinality(Waiters')
  BY <1>1, <1>2, <1>5, ContendersMove, WaitersMove, Zenon
     DEF MonitorInv, Counted, Counts, Waiter, Contending
<1>8. SleeperIsReachable'
  BY <1>2, Zenon DEF MonitorInv, SleeperIsReachable
<1> QED
  BY <1>1, <1>2, <1>4, <1>6, <1>7, <1>8, IdleMine, WordsMade, InsideStep, ZenonT(40)

\* Wait: the owner joins the wait set and gives up all of its entries.
LEMMA WaitStep ==
  ASSUME MonitorInv, NEW t \in Threads, Wait(t)
  PROVE  MonitorInv'
<1> USE DEF Wait, word, counters
<1> DEFINE l == IF interrupted_[t] THEN "waited" ELSE "waiting"
<1>1. /\ pc[t] \in Ops /\ pc[t] = "wait" /\ op[t] = "wait" /\ lw'[t] = Unlocked /\ owner_ = t
      /\ lock_word.state = "fat" /\ lock_word' = lock_word /\ pc \in [Threads -> Pcs]
      /\ l \in Pcs \ {"contender"} /\ op' = op /\ m' = m
  BY SMTT(30) DEF MonitorInv, TypeOK, Ops, Mine, CallOf, InMonitor, Pcs
<1>2. /\ pc' \in [Threads -> Pcs] /\ pc'[t] = l
      /\ \A u \in Threads \ {t} : pc'[u] = pc[u] \/ (pc[u] = "contender" /\ pc'[u] = "woken")
  <2>1. SignalContender([pc EXCEPT ![t] = l])
    BY Zenon
  <2> HIDE DEF l
  <2> QED
    BY <1>1, <2>1, SignalContenderMoves, Zenon
<1>3. pc'[t] \in {"waiting", "waited"} /\ pc'[t] \in Asleep
  BY <1>2, Zenon DEF Asleep
<1>4. TypeOK'
  <2>1. wait_set_' \in Seq(Threads) /\ num_waiters_' \in Nat /\ lw' \in [Threads -> LockWords]
    BY WordsMade, SMTT(30) DEF MonitorInv, TypeOK, Word
  <2>2. prev_lock_count' \in [Threads -> Nat] /\ owner_' \in Threads \cup {None} /\ lock_count_' \in Nat
    BY Zenon DEF MonitorInv, TypeOK
  <2>3. /\ wait_monitor_' \in [Threads -> BOOLEAN] /\ interrupted_' \in [Threads -> BOOLEAN]
        /\ was_interrupted' \in [Threads -> BOOLEAN]
    BY Zenon DEF MonitorInv, TypeOK
  <2> QED
    BY <1>2, <2>1, <2>2, <2>3, Zenon DEF MonitorInv, TypeOK
<1>5. OthersWoken(t)
  BY <1>1, <1>2, Zenon DEF MonitorInv, TypeOK, OthersWoken
<1>6. Inside(t)
  BY <1>1, <1>3, <1>5, InCall, Zenon DEF Inside, Blocking, Inflating
<1>7. num_waiters_' = Cardinality(Contenders') + Cardinality(Waiters')
  <2>1. Counts(t)' /\ ~Counts(t) /\ pc[t] \notin Contending /\ pc'[t] \notin Contending
    BY <1>1, <1>3, Zenon DEF Counts, Waiter, Contending
  <2>2. /\ Cardinality(Contenders') = Cardinality(Contenders) /\ Cardinality(Contenders) \in Nat
        /\ Cardinality(Waiters') = Cardinality(Waiters) + 1 /\ Cardinality(Waiters) \in Nat
    BY <1>5, <2>1, ContendersMove, WaitersMove, Zenon
  <2>3. num_waiters_ = Cardinality(Contenders) + Cardinality(Waiters)
    BY <1>1, Zenon DEF MonitorInv, Counted
  <2> QED
    BY <2>2, <2>3, SMTT(30)
<1>8. SleeperIsReachable'
  <2>1. wait_set_ \in Seq(Threads)
    BY Zenon DEF MonitorInv, TypeOK
  <2>2. \A u \in Threads : (\E i \in DOMAIN wait_set_ : wait_set_[i] = u) =>
                              \E i \in DOMAIN wait_set_' : wait_set_'[i] = u
    BY <2>1, SMTT(30)
  <2>3. \E i \in DOMAIN wait_set_' : wait_set_'[i] = t
    <3>1. Len(wait_set_) + 1 \in DOMAIN wait_set_' /\ wait_set_'[Len(wait_set_) + 1] = t
      BY <2>1, SMTT(30)
    <3> QED
      BY <3>1, Zenon
  <2>4. \A u \in Threads \ {t} : wait_monitor_'[u] = wait_monitor_[u] /\ interrupted_'[u] = interrupted_[u]
    BY Zenon DEF MonitorInv, TypeOK
  <2>5. pc'[t] = "waiting" => wait_monitor_'[t] /\ ~interrupted_'[t]
    BY <1>2, Zenon DEF MonitorInv, TypeOK
  <2> QED
    BY <1>2, <2>2, <2>3, <2>4, <2>5, SMTT(30) DEF MonitorInv, SleeperIsReachable
<1>9. Mine(t)'
  BY <1>1, <1>3, MonitorAssumption, Zenon
     DEF Mine, CallOf, Known, Installing, Rewaiting, Holds, InMonitor, Suspends, Ops, Blocking,
         Inflating, Contending, Asleep, MonitorAssumption
<1> QED
  BY <1>1, <1>4, <1>6, <1>7, <1>8, <1>9, WordsMade, InsideStep, Zenon

Without(s, i) == SubSeq(s, 1, i - 1) \o SubSeq(s, i + 1, Len(s))

\* Unlinking one element of a sequence keeps the others.
LEMMA Unlinked ==
  ASSUME NEW S, NEW s \in Seq(S), NEW i \in DOMAIN s
  PROVE  /\ Without(s, i) \in Seq(S)
         /\ \A j \in DOMAIN s : j # i => \E k \in DOMAIN Without(s, i) : Without(s, i)[k] = s[j]
<1> DEFINE r == Without(s, i)
<1>1. /\ SubSeq(s, 1, i - 1) \in Seq(S) /\ Len(SubSeq(s, 1, i - 1)) = i - 1
      /\ \A j \in 1..(i - 1) : SubSeq(s, 1, i - 1)[j] = s[j]
  BY SubSeqProperties
<1>2. /\ SubSeq(s, i + 1, Len(s)) \in Seq(S) /\ Len(SubSeq(s, i + 1, Len(s))) = Len(s) - i
      /\ \A j \in 1..(Len(s) - i) : SubSeq(s, i + 1, Len(s))[j] = s[i + j]
  BY SubSeqProperties
<1> DEFINE a == SubSeq(s, 1, i - 1)
           b == SubSeq(s, i + 1, Len(s))
<1> HIDE DEF a, b, r
<1>3. /\ r \in Seq(S) /\ Len(r) = (i - 1) + (Len(s) - i)
      /\ \A j \in 1..((i - 1) + (Len(s) - i)) : r[j] = IF j <= i - 1 THEN a[j] ELSE b[j - (i - 1)]
  <2>1. r = a \o b /\ a \in Seq(S) /\ b \in Seq(S) /\ Len(a) = i - 1 /\ Len(b) = Len(s) - i
    BY <1>1, <1>2, Zenon DEF a, b, r, Without
  <2>2. /\ a \o b \in Seq(S) /\ Len(a \o b) = Len(a) + Len(b)
        /\ \A j \in 1 .. Len(a) + Len(b) : (a \o b)[j] = IF j <= Len(a) THEN a[j] ELSE b[j - Len(a)]
    BY ONLY <2>1, ConcatProperties, Zenon
  <2> QED
    BY ONLY <2>1, <2>2, Zenon
<1>4. i \in Nat /\ Len(s) \in Nat /\ DOMAIN s = 1..Len(s) /\ DOMAIN r = 1..Len(r)
  BY <1>3
<1>5. ASSUME NEW j \in DOMAIN s, j < i
      PROVE  j \in DOMAIN r /\ r[j] = s[j]
  BY <1>1, <1>3, <1>4, <1>5, SMTT(30) DEF a
<1>6. ASSUME NEW j \in DOMAIN s, j > i
      PROVE  j - 1 \in DOMAIN r /\ r[j - 1] = s[j]
  <2>1. j \in Nat /\ j - i \in 1..(Len(s) - i) /\ ~(j - 1 <= i - 1) /\ (j - 1) - (i - 1) = j - i
    BY <1>4, <1>6, SMTT(30)
  <2>2. j - 1 \in 1..((i - 1) + (Len(s) - i)) /\ i + (j - i) = j
    BY <1>4, <1>6, SMTT(30)
  <2>3. r[j - 1] = b[j - i]
    BY <1>3, <2>1, <2>2, Zenon
  <2> QED
    BY <1>2, <1>3, <1>4, <2>1, <2>2, <2>3, Zenon DEF b
<1>7. ASSUME NEW j \in DOMAIN s, j # i
      PROVE  \E k \in DOMAIN r : r[k] = s[j]
  <2>1. j < i \/ j > i
    BY <1>4, <1>7, SMTT(30)
  <2> QED
    BY <1>5, <1>6, <2>1, Zenon
<1> QED
  BY <1>3, <1>7, Zenon DEF r

\* RemoveFromWaitSet takes nobody else out of the wait set.
LEMMA RemoveFromWaitSetKeeps ==
  ASSUME NEW t \in Threads, wait_set_ \in Seq(Threads), RemoveFromWaitSet(t)
  PROVE  /\ wait_set_' \in Seq(Threads)
         /\ \A u \in Threads \ {t} : (\E i \in DOMAIN wait_set_ : wait_set_[i] = u) =>
                                        \E i \in DOMAIN wait_set_' : wait_set_'[i] = u
<1>1. CASE wait_set_' = wait_set_
  BY <1>1, Zenon
<1>2. CASE wait_set_' # wait_set_
  <2>0. PICK s \in Seq(Threads) : s = wait_set_
    BY Zenon
  <2>1. PICK r : s = wait_set_ /\ r = wait_set_'
    BY <2>0, Zenon
  <2>2. PICK i \in DOMAIN s : s[i] = t /\ r = Without(s, i)
    BY <1>2, <2>1, Zenon DEF RemoveFromWaitSet, Without
  <2>3. r \in Seq(Threads) /\ \A j \in DOMAIN s : j # i => \E k \in DOMAIN r : r[k] = s[j]
    BY <2>2, Unlinked, Zenon
  <2>4. ASSUME NEW u \in Threads \ {t}, NEW j \in DOMAIN s, s[j] = u
        PROVE  \E k \in DOMAIN r : r[k] = u
    BY <2>2, <2>3, <2>4, Zenon
  <2> QED
    BY <2>1, <2>3, <2>4, Zenon
<1> QED
  BY <1>1, <1>2, Zenon

\* Rewait: the entries given up in Wait are back.
LEMMA RewaitStep ==
  ASSUME MonitorInv, NEW t \in Threads, Rewait(t)
  PROVE  MonitorInv'
<1> USE DEF Rewait, Return, Goto, DropLocals, NewMonitor, word, counters
<1>1. /\ pc[t] = "rewait" /\ pc'[t] = "idle" /\ lw'[t] = Unlocked /\ owner_ = t /\ t # None
      /\ lock_word.state = "fat" /\ lock_word' = lock_word /\ wait_set_ \in Seq(Threads)
  BY MonitorAssumption, Zenon DEF MonitorInv, TypeOK, Mine, Rewaiting, MonitorAssumption
<1>2. /\ wait_set_' \in Seq(Threads)
      /\ \A u \in Threads \ {t} : (\E i \in DOMAIN wait_set_ : wait_set_[i] = u) =>
                                     \E i \in DOMAIN wait_set_' : wait_set_'[i] = u
  BY <1>1, RemoveFromWaitSetKeeps, Zenon
<1>3. OthersSame(t) /\ OthersWoken(t)
  BY SameWoken, Zenon DEF MonitorInv, TypeOK, OthersSame
<1>4. /\ num_waiters_' = Cardinality(Contenders') + Cardinality(Waiters')
      /\ num_waiters_' \in Nat
  <2>1. ~Counts(t)' /\ Counts(t) /\ pc[t] \notin Contending /\ pc'[t] \notin Contending
    BY <1>1, Zenon DEF Counts, Waiter, Contending
  <2>2. /\ Cardinality(Contenders') = Cardinality(Contenders) /\ Cardinality(Contenders) \in Nat
        /\ Cardinality(Waiters') = Cardinality(Waiters) - 1 /\ Cardinality(Waiters) \in Nat
        /\ Cardinality(Waiters) > 0
    BY <1>3, <2>1, ContendersMove, WaitersMove, Zenon
  <2>3. num_waiters_ = Cardinality(Contenders) + Cardinality(Waiters)
    BY <1>1, Zenon DEF MonitorInv, Counted
  <2> QED
    BY <2>2, <2>3, SMTT(30)
<1>5. TypeOK'
  <2>1. pc' \in [Threads -> Pcs] /\ lw' \in [Threads -> LockWords] /\ op' \in [Threads -> Ops]
    BY WordsMade, Zenon DEF MonitorInv, TypeOK, Ops, Pcs, Word
  <2>2. m' \in [Threads -> [owner : Threads \cup {None}, count : Nat, hash : Nat]]
    BY Zenon DEF MonitorInv, TypeOK
  <2>3. prev_lock_count' \in [Threads -> Nat] /\ owner_' \in Threads \cup {None} /\ lock_count_' \in Nat
    BY Zenon DEF MonitorInv, TypeOK
  <2>4. interrupted_' \in [Threads -> BOOLEAN] /\ was_interrupted' \in [Threads -> BOOLEAN]
    BY Zenon DEF MonitorInv, TypeOK
  <2> QED
    BY <1>2, <1>4, <2>1, <2>2, <2>3, <2>4, Zenon DEF MonitorInv, TypeOK
<1>6. Inside(t)
  BY <1>1, <1>3, Zenon DEF Inside, Blocking, Inflating, AtSuspendPoint
<1>7. SleeperIsReachable'
  <2>1. \A u \in Threads \ {t} : interrupted_'[u] = interrupted_[u]
    BY Zenon DEF MonitorInv, TypeOK
  <2> QED
    BY <1>1, <1>2, <1>3, <2>1, Zenon DEF MonitorInv, OthersSame, SleeperIsReachable
<1> QED
  BY <1>1, <1>4, <1>5, <1>6, <1>7, IdleMine, WordsMade, InsideStep, Zenon

\* What Notify and NotifyAll have in common: t signals some sleepers and returns.
LEMMA SignalWaitersStep ==
  ASSUME MonitorInv, NEW t \in Threads, pc[t] \in {"notify", "notifyAll"}, lw[t].state = "fat", owner_ = t,
         pc' \in [Threads -> Pcs], pc'[t] = "idle", wait_set_' \in Seq(Threads), DropLocals(t),
         \A u \in Threads \ {t} : pc'[u] = pc[u] \/ (pc[u] = "waiting" /\ pc'[u] = "signaled"),
         SleeperIsReachable',
         UNCHANGED <<word, owner_, lock_count_, num_waiters_, hash_code_, suspend_count, waiting,
                     returned, counters>>
  PROVE  MonitorInv'
<1> USE DEF DropLocals, NewMonitor, word, waiting, counters
<1>1. /\ pc[t] \in Ops /\ lw'[t] = Unlocked /\ t # None
      /\ lock_word.state = "fat" /\ lock_word' = lock_word
  BY MonitorAssumption, Zenon DEF MonitorInv, TypeOK, Ops, Mine, InMonitor, MonitorAssumption
<1>2. TypeOK'
  <2>1. lw' \in [Threads -> LockWords] /\ op' \in [Threads -> Ops]
    BY WordsMade, Zenon DEF MonitorInv, TypeOK, Ops, Word
  <2>2. m' \in [Threads -> [owner : Threads \cup {None}, count : Nat, hash : Nat]]
    BY Zenon DEF MonitorInv, TypeOK
  <2> QED
    BY <2>1, <2>2, Zenon DEF MonitorInv, TypeOK
<1>3. OthersWoken(t)
  BY Zenon DEF MonitorInv, TypeOK, OthersWoken
<1>4. Inside(t)
  BY <1>1, <1>3, InCall, Zenon DEF Inside, Blocking, Inflating
<1>5. num_waiters_' = Cardinality(Contenders') + Cardinality(Waiters')
  <2>1. ~Counts(t)' /\ ~Counts(t) /\ pc[t] \notin Contending /\ pc'[t] \notin Contending
    BY Zenon DEF Counts, Waiter, Contending
  <2> QED
    BY <1>1, <1>3, <2>1, ContendersMove, WaitersMove, Zenon DEF MonitorInv, Counted
<1> QED
  BY <1>1, <1>2, <1>4, <1>5, IdleMine, WordsMade, InsideStep, Zenon

\* Notify: whom it takes off the wait set it wakes, or finds awake already.
LEMMA NotifyStep ==
  ASSUME MonitorInv, NEW t \in Threads, Notify(t)
  PROVE  MonitorInv'
<1> DEFINE still == {i \in DOMAIN wait_set_ : wait_monitor_[wait_set_[i]]}
<1> USE DEF Notify, waiting
<1>1. /\ wait_set_ \in Seq(Threads) /\ pc \in [Threads -> Pcs] /\ pc[t] = "notify" /\ "idle" \in Pcs
      /\ "signaled" \in Pcs
  BY Zenon DEF MonitorInv, TypeOK, Pcs
<1>2. \A u \in Threads : pc[u] = "waiting" =>
        \E j \in DOMAIN wait_set_ : wait_set_[j] = u /\ j \in still
  BY Zenon DEF MonitorInv, SleeperIsReachable
<1>3. CASE still = {} /\ wait_set_' = <<>> /\ pc' = [pc EXCEPT ![t] = "idle"]
  <2>1. \A u \in Threads : pc'[u] # "waiting"
    BY <1>1, <1>2, <1>3, Zenon
  <2>2. SleeperIsReachable' /\ wait_set_' \in Seq(Threads)
    BY <1>3, <2>1, SMTT(30) DEF SleeperIsReachable
  <2> QED
    BY <1>1, <1>3, <2>2, SignalWaitersStep, Zenon
<1>4. CASE \E i \in still : /\ \A j \in still : i <= j
                            /\ wait_set_' = SubSeq(wait_set_, i + 1, Len(wait_set_))
                            /\ WaitCondSignal({wait_set_[i]}, t, "idle")
  <2>1. PICK i \in still : /\ \A j \in still : i <= j
                           /\ wait_set_' = SubSeq(wait_set_, i + 1, Len(wait_set_))
                           /\ WaitCondSignal({wait_set_[i]}, t, "idle")
    BY <1>4, Zenon
  <2>2. i \in DOMAIN wait_set_ /\ i \in 1..Len(wait_set_) /\ wait_monitor_[wait_set_[i]]
    BY <1>1, <2>1, SMTT(30)
  <2>3. /\ SubSeq(wait_set_, i + 1, Len(wait_set_)) \in Seq(Threads)
        /\ Len(SubSeq(wait_set_, i + 1, Len(wait_set_))) = Len(wait_set_) - i
        /\ \A j \in 1..(Len(wait_set_) - i) : SubSeq(wait_set_, i + 1, Len(wait_set_))[j] = wait_set_[i + j]
    BY <1>1, <2>2, SubSeqProperties, SMTT(30)
  <2>4. \A j \in DOMAIN wait_set_ : j > i =>
          \E k \in DOMAIN wait_set_' : wait_set_'[k] = wait_set_[j]
    <3>1. SUFFICES ASSUME NEW j \in DOMAIN wait_set_, j > i
                   PROVE  j - i \in DOMAIN wait_set_' /\ wait_set_'[j - i] = wait_set_[j]
      BY Zenon
    <3>2. j - i \in 1..(Len(wait_set_) - i) /\ i + (j - i) = j
      BY <1>1, <2>2, <3>1, SMTT(30)
    <3> QED
      BY <2>1, <2>3, <3>2, SMTT(30)
  <2>5. /\ pc' \in [Threads -> Pcs] /\ pc'[t] = "idle"
        /\ \A u \in Threads \ {t} : pc'[u] = pc[u] \/ (pc[u] = "waiting" /\ pc'[u] = "signaled")
        /\ pc'[wait_set_[i]] # "waiting"
    BY <1>1, <2>1, <2>2, SMTT(30) DEF WaitCondSignal
  <2>6. ASSUME NEW u \in Threads, pc'[u] = "waiting"
        PROVE  /\ \E k \in DOMAIN wait_set_' : wait_set_'[k] = u
               /\ wait_monitor_'[u] /\ ~interrupted_'[u]
    <3>1. pc[u] = "waiting" /\ u # wait_set_[i]
      BY <2>5, <2>6, Zenon
    <3>2. PICK j \in DOMAIN wait_set_ : wait_set_[j] = u /\ j \in still
      BY <1>2, <3>1, Zenon
    <3>3. j > i
      BY <1>1, <2>1, <2>2, <3>1, <3>2, SMTT(30)
    <3> QED
      BY <2>4, <3>1, <3>2, <3>3, Zenon DEF MonitorInv, SleeperIsReachable
  <2>7. SleeperIsReachable'
    BY <2>6, Zenon DEF SleeperIsReachable
  <2>8. wait_set_' \in Seq(Threads)
    BY <2>1, <2>3, Zenon
  <2> QED
    BY <2>5, <2>7, <2>8, SignalWaitersStep, Zenon
<1> QED
  BY <1>3, <1>4, Zenon DEF Goto

\* NotifyAll: nobody sleeps on.
LEMMA NotifyAllStep ==
  ASSUME MonitorInv, NEW t \in Threads, NotifyAll(t)
  PROVE  MonitorInv'
<1> USE DEF NotifyAll
<1>1. pc \in [Threads -> Pcs] /\ pc[t] = "notifyAll" /\ "idle" \in Pcs /\ "signaled" \in Pcs
  BY Zenon DEF MonitorInv, TypeOK, Pcs
<1>2. /\ pc' \in [Threads -> Pcs] /\ pc'[t] = "idle"
      /\ \A u \in Threads \ {t} : pc'[u] = pc[u] \/ (pc[u] = "waiting" /\ pc'[u] = "signaled")
  BY <1>1, Zenon DEF WaitCondSignal
<1>3. \A u \in Threads : pc'[u] # "waiting"
  BY <1>1, Zenon DEF WaitCondSignal, MonitorInv, SleeperIsReachable
<1>4. SleeperIsReachable' /\ wait_set_' \in Seq(Threads)
  BY <1>3 DEF SleeperIsReachable
<1> QED
  BY <1>2, <1>4, SignalWaitersStep, Zenon

-----------------------------------------------------------------------------
(* The collector's side.                                                   *)

\* Deflate: nobody is inside the Monitor, and its owner is in managed code.
LEMMA DeflateStep ==
  ASSUME MonitorInv, Deflate
  PROVE  MonitorInv'
<1> USE DEF Deflate, locals, waiting
<1>1. /\ pc' = pc /\ op' = op /\ lw' = lw /\ m' = m /\ lock_word.state = "fat"
      /\ owner_ \in Threads \cup {None} /\ lock_count_ \in Nat /\ hash_code_ \in Nat
  BY Zenon DEF MonitorInv, TypeOK
<1>2. Contenders = {} /\ Waiters = {}
  <2>1. IsFiniteSet(Contenders) /\ IsFiniteSet(Waiters)
    BY FS_Subset, MonitorAssumption, Zenon DEF MonitorAssumption, Contenders, Waiters
  <2>2. Cardinality(Contenders) \in Nat /\ Cardinality(Waiters) \in Nat
    BY <2>1, FS_CardinalityType, Zenon
  <2>3. Cardinality(Contenders) + Cardinality(Waiters) = 0
    BY <1>1, Zenon DEF MonitorInv, Counted
  <2> QED
    BY <2>1, <2>2, <2>3, FS_EmptySet, SMTT(30)
<1>3. \A u \in Threads : pc[u] \in Blocking \cup {"idle"} \/ (pc[u] \in Inflating /\ ForOther(u))
  BY <1>2, Zenon DEF Paused, AtSuspendPoint, Contenders, Waiters, Waiter, Contending, Blocking
<1>4. /\ Word(lock_word') /\ lock_word'.state # "fat"
      /\ owner_ # None => lock_word'.state = "thin" /\ lock_word'.owner = owner_
      /\ owner_ = None => lock_word'.state # "thin"
      /\ (owner_ = None /\ hash_code_ # 0) => lock_word'.state = "hash" /\ lock_word'.hash = hash_code_
  <2>1. CASE owner_ # None
    <3>1. lock_word' = FromThinLockId(owner_, lock_count_) /\ owner_ \in Threads
      BY <1>1, <2>1, Zenon
    <3> QED
      BY <1>1, <2>1, <3>1, WordsMade, SMTT(30)
  <2>2. CASE owner_ = None /\ hash_code_ # 0
    <3>1. lock_word' = FromHashCode(hash_code_)
      BY <2>2, Zenon
    <3> QED
      BY <1>1, <2>2, <3>1, WordsMade, SMTT(30)
  <2>3. CASE owner_ = None /\ hash_code_ = 0
    BY <2>3, WordsMade, Zenon
  <2> QED
    BY <2>1, <2>2, <2>3, Zenon
<1>5. \A u \in Threads : Holds(u)' <=> Holds(u)
  BY <1>1, <1>4, MonitorAssumption, Zenon DEF Holds, MonitorAssumption
<1>6. \A h : Hashed(h) => Hashed(h)'
  BY <1>1, <1>4, Zenon DEF Hashed
<1>7. TypeOK'
  <2>1. /\ lock_word' \in LockWords /\ owner_' \in Threads \cup {None} /\ lock_count_' \in Nat
        /\ wait_set_' \in Seq(Threads) /\ hash_code_' \in Nat
    <3>1. wait_set_' = <<>> /\ owner_' = None /\ lock_count_' = 0 /\ hash_code_' = 0
      BY Zenon
    <3> QED
      BY ONLY <1>4, <3>1, SMTT(30) DEF Word
  <2>2. listed' \in BOOLEAN
    <3>1. listed' = FALSE
      BY Zenon
    <3> QED
      BY ONLY <3>1, Zenon
  <2>3. pauses' \in Nat
    BY SMTT(30) DEF MonitorInv, TypeOK
  <2> QED
    BY <2>1, <2>2, <2>3, Zenon DEF MonitorInv, TypeOK
<1>8. Words' /\ Monitors'
  BY <1>1, <1>4, <1>6, Zenon DEF MonitorInv, Words, Monitors
<1>9. Counted'
  <2>1. \A o \in Threads : Suspenders(o)' = Suspenders(o)
    BY <1>1, Zenon DEF Suspenders, Suspends, ForOther
  <2> QED
    BY <1>4, <2>1, Zenon DEF MonitorInv, Counted
<1>10. SleeperIsReachable'
  BY <1>1, <1>3, Zenon DEF SleeperIsReachable, Blocking, Inflating
<1>11. ASSUME NEW u \in Threads
       PROVE  Mine(u)'
  <2>1. Mine(u) /\ pc[u] \notin Ops /\ ~InMonitor(u) /\ pc[u] # "rewait"
    BY <1>3, Zenon DEF MonitorInv, Blocking, Inflating, Ops, InMonitor
  <2>2. CallOf(u)' /\ Known(u)' /\ Rewaiting(u)' /\ ~InMonitor(u)'
    BY <1>1, <2>1, Zenon DEF Mine, CallOf, Known, Rewaiting, InMonitor
  <2>3. Installing(u)'
    <3>1. ASSUME pc[u] \in {"install", "cas"}
          PROVE  ForOther(u) /\ Holds(m[u].owner)' /\ m[u].owner \notin {u, None}
      <4>1. ForOther(u)
        BY <1>3, <3>1, Zenon DEF Blocking
      <4>2. PICK o \in Threads : o = m[u].owner
        BY <4>1, Zenon DEF ForOther, MonitorInv, TypeOK
      <4>3. Holds(o)
        BY <2>1, <3>1, <4>1, <4>2, Zenon DEF Mine, Installing
      <4> QED
        BY <1>1, <1>5, <4>1, <4>2, <4>3, Zenon DEF ForOther
    <3> QED
      BY <1>1, <2>1, <3>1, Zenon DEF Mine, Installing, ForOther
  <2>4. (Holds(u) => HolderAt(u))'
    BY <1>1, <1>5, <2>1, Zenon DEF Mine, HolderAt
  <2>5. (Suspends(u) => AtSuspendPoint(m[u].owner))'
    BY <1>1, <2>1, Zenon DEF Mine, Suspends, ForOther, AtSuspendPoint
  <2> QED
    BY <2>2, <2>3, <2>4, <2>5, Zenon DEF Mine
<1> QED
  BY <1>7, <1>8, <1>9, <1>10, <1>11, Zenon DEF MonitorInv

\* DisallowNewMonitors, AllowNewMonitors, and steps that change nothing.
LEMMA SameLockStep ==
  ASSUME MonitorInv, TypeOK', UNCHANGED <<lock_word, fat, pc, locals, suspend_count, waiting, returned>>
  PROVE  MonitorInv'
<1> USE DEF fat, locals, waiting
<1>1. Words' /\ Monitors' /\ SleeperIsReachable'
  BY Zenon DEF MonitorInv, Words, Monitors, Hashed, SleeperIsReachable
<1>2. Counted'
  <2>1. \A o \in Threads : Suspenders(o)' = Suspenders(o)
    BY Zenon DEF Suspenders, Suspends, ForOther
  <2>2. Contenders' = Contenders /\ Waiters' = Waiters
    BY Zenon DEF Contenders, Waiters, Waiter
  <2> QED
    BY <2>1, <2>2, Zenon DEF MonitorInv, Counted
<1>3. ASSUME NEW u \in Threads
      PROVE  Mine(u)'
  <2>1. Mine(u)
    BY Zenon DEF MonitorInv
  <2>2. CallOf(u)' /\ Known(u)' /\ Installing(u)' /\ Rewaiting(u)'
    BY <2>1, Zenon DEF Mine, CallOf, Known, Installing, Rewaiting, ForOther, Holds, Hashed
  <2>3. (Holds(u) => HolderAt(u))' /\ (InMonitor(u) => lock_word.state = "fat")'
    BY <2>1, Zenon DEF Mine, Holds, HolderAt, InMonitor
  <2>4. (Suspends(u) => AtSuspendPoint(m[u].owner))'
    BY <2>1, Zenon DEF Mine, Suspends, ForOther, AtSuspendPoint
  <2> QED
    BY <2>2, <2>3, <2>4, Zenon DEF Mine
<1> QED
  BY <1>1, <1>2, <1>3, Zenon DEF MonitorInv

-----------------------------------------------------------------------------
(* The theorems.                                                           *)

\* The invariant holds initially.
LEMMA InitInv == Init => MonitorInv
<1> SUFFICES ASSUME Init PROVE MonitorInv
  BY Zenon
<1> USE DEF Init
<1>1. \A t \in Threads : pc[t] = "idle" /\ lw[t] = Unlocked
  BY Zenon
<1>2. TypeOK
  <2>1. /\ lock_word \in LockWords /\ lw \in [Threads -> LockWords]
        /\ m \in [Threads -> [owner : Threads \cup {None}, count : Nat, hash : Nat]]
    BY WordsMade, Zenon DEF Word
  <2>2. pc \in [Threads -> Pcs] /\ op \in [Threads -> Ops]
    BY Zenon DEF Pcs, Ops
  <2>3. listed \in BOOLEAN /\ allow_new_monitors_ \in BOOLEAN
    BY Zenon
  <2>4. /\ wait_monitor_ \in [Threads -> BOOLEAN] /\ interrupted_ \in [Threads -> BOOLEAN]
        /\ was_interrupted \in [Threads -> BOOLEAN]
    BY Zenon
  <2>5. wait_set_ \in Seq(Threads)
    <3>1. wait_set_ = <<>>
      BY Zenon
    <3> QED
      BY ONLY <3>1
  <2>6. /\ suspend_count \in [Threads -> Nat] /\ prev_lock_count \in [Threads -> Nat] /\ returned \subseteq Nat
        /\ owner_ \in Threads \cup {None} /\ lock_count_ \in Nat /\ num_waiters_ \in Nat
        /\ hash_code_ \in Nat /\ calls \in Nat /\ interrupts \in Nat /\ pauses \in Nat
    BY Zenon
  <2> QED
    BY ONLY <2>1, <2>2, <2>3, <2>4, <2>5, <2>6, Zenon DEF TypeOK
<1>3. Words /\ SleeperIsReachable
  BY <1>1, WordsMade, Zenon DEF Words, SleeperIsReachable
<1>4. Monitors
  BY Zenon DEF Monitors
<1>5. Counted
  <2>1. \A o \in Threads : Suspenders(o) = {}
    BY <1>1, Zenon DEF Suspenders, Suspends, Inflating
  <2>2. lock_word.state # "fat"
    BY WordsMade, Zenon
  <2> QED
    BY <2>1, <2>2, FS_EmptySet, Zenon DEF Counted
<1>6. \A t \in Threads : Mine(t)
  BY <1>1, Zenon
     DEF Mine, CallOf, Known, Installing, Rewaiting, HolderAt, InMonitor, Suspends, Ops,
         Blocking, Inflating, Contending, Asleep
<1> QED
  BY <1>2, <1>3, <1>4, <1>5, <1>6, Zenon DEF MonitorInv

\* Every step preserves it.
LEMMA NextInv == MonitorInv /\ [Next]_vars => MonitorInv'
<1> SUFFICES ASSUME MonitorInv, [Next]_vars PROVE MonitorInv'
  BY Zenon
<1>1. ASSUME NEW t \in Threads, NEW o \in Ops, Call(t, o) PROVE MonitorInv'
  BY <1>1, CallStep, Zenon
<1>2. ASSUME NEW t \in Threads, Step(t) PROVE MonitorInv'
  <2>1. CASE \/ EnterUnlocked(t) \/ EnterRecursive(t) \/ EnterContended(t) \/ EnterFat(t) \/ EnterHashed(t)
    BY <2>1, EnterUnlockedStep, EnterRecursiveStep, EnterContendedStep, EnterFatStep,
       EnterHashedStep, Zenon
  <2>2. CASE HashUnlocked(t) \/ HashThin(t) \/ HashFat(t) \/ HashHashed(t)
    BY <2>2, HashUnlockedStep, HashThinStep, HashFatStep, HashHashedStep, Zenon
  <2>3. CASE \/ CompareLockWord(t) \/ RequestSuspension(t) \/ OwnerSuspended(t) \/ SuspensionTimedOut(t)
             \/ CheckLockWord(t) \/ ResumeOwner(t) \/ LeaveBlocked(t)
    BY <2>3, InspectStep, RequestSuspensionStep, LetGoStep, LeaveBlockedStep, Zenon
  <2>4. CASE Install(t) \/ InstallBeaten(t) \/ CasLockWord(t) \/ Add(t) \/ Added(t)
    BY <2>4, InstallStep, InflatedStep, CasLockWordStep, AddStep, Zenon
  <2>5. CASE Lock(t) \/ Contend(t) \/ BecomeRunnable(t) \/ Relock(t)
    BY <2>5, LockStep, WaitingStep, Zenon
  <2>6. CASE ExitThin(t) \/ ExitFat(t) \/ NotOwner(t)
    BY <2>6, ExitThinStep, ExitFatStep, RefusedStep, Zenon
  <2>7. CASE WaitThin(t) \/ Wait(t) \/ TimeoutOutOfRange(t) \/ WakeUp(t) \/ EndWait(t) \/ Rewait(t)
    BY <2>7, WaitThinStep, WaitStep, RefusedStep, WaitingStep, RewaitStep, Zenon
  <2>8. CASE DoNotifyThin(t) \/ Notify(t) \/ NotifyAll(t)
    BY <2>8, RefusedStep, NotifyStep, NotifyAllStep, Zenon
  <2> QED
    BY <1>2, <2>1, <2>2, <2>3, <2>4, <2>5, <2>6, <2>7, <2>8, Zenon DEF Step
<1>3. ASSUME NEW t \in Threads, ContenderWakes(t) \/ WaitTimesOut(t) \/ Interrupt(t) PROVE MonitorInv'
  BY <1>3, WaitingStep, InterruptStep, Zenon
<1>4. CASE Deflate
  BY <1>4, DeflateStep, Zenon
<1>5. CASE DisallowNewMonitors \/ AllowNewMonitors
  <2>1. TypeOK'
    <3>1. allow_new_monitors_' \in BOOLEAN
      BY <1>5, Zenon DEF DisallowNewMonitors, AllowNewMonitors
    <3>2. calls' \in Nat /\ interrupts' \in Nat /\ pauses' \in Nat
      BY <1>5, SMTT(30) DEF DisallowNewMonitors, AllowNewMonitors, MonitorInv, TypeOK, counters
    <3>3. UNCHANGED <<lock_word, listed, fat, pc, locals, suspend_count, waiting, returned>>
      BY <1>5, Zenon DEF DisallowNewMonitors, AllowNewMonitors
    <3> QED
      BY <3>1, <3>2, <3>3, Zenon DEF MonitorInv, TypeOK, fat, locals, waiting
  <2> QED
    BY <1>5, <2>1, SameLockStep, Zenon DEF DisallowNewMonitors, AllowNewMonitors
<1>6. CASE UNCHANGED vars
  <2>1. TypeOK'
    BY <1>6, Zenon DEF vars, MonitorInv, TypeOK, word, fat, locals, waiting, counters
  <2> QED
    BY <1>6, <2>1, SameLockStep, Zenon DEF vars, word
<1> QED
  BY <1>1, <1>2, <1>3, <1>4, <1>5, <1>6, ZenonT(40) DEF Next

\* The inductive invariant of the lock: thin and fat lock words agree with what
\* every thread knows of them, num_waiters_ counts the threads inside the
\* Monitor, and a suspended owner stays where it was found.
THEOREM MonitorInvariant == Spec => []MonitorInv
BY InitInv, NextInv, PTL DEF Spec

\* The Monitor a thread uses is the object's Monitor: Monitor::Deflate, and the
\* plain stores of MonitorEnter and MonitorExit, never replace it under a thread
\* that is inside.
THEOREM MonitorIsNotDeflatedWhileUsed == Spec => []MonitorStaysWhileUsed
<1>1. MonitorInv => MonitorStaysWhileUsed
  BY Zenon DEF MonitorInv, Mine, MonitorStaysWhileUsed
<1> QED
  BY <1>1, MonitorInvariant, PTL

\* Object::IdentityHashCode returns one value, whether it is kept in the lock
\* word or in a Monitor, and through inflation and deflation.
THEOREM IdentityHashCodeIsStable == Spec => []HashNeverChanges
<1>1. MonitorInv => HashNeverChanges
  <2> SUFFICES ASSUME MonitorInv PROVE Cardinality(returned) <= 1
    BY Zenon DEF HashNeverChanges
  <2>1. \A g, h \in returned : g = h
    BY Zenon DEF MonitorInv, Monitors, Hashed
  <2>2. CASE returned = {}
    BY <2>2, FS_EmptySet, SMTT(30)
  <2>3. CASE returned # {}
    <3>1. PICK h : returned = {h}
      BY <2>1, <2>3, SMTT(30)
    <3>2. Cardinality({h}) = 1
      BY FS_Singleton, Zenon
    <3> QED
      BY <3>1, <3>2, SMTT(30)
  <2> QED
    BY <2>2, <2>3, Zenon
<1> QED
  BY <1>1, MonitorInvariant, PTL

\* A thread asleep in Object.wait is in the wait set, with its wait_monitor_ set
\* and no interrupt pending: Notify, NotifyAll and Interrupt all find it.
THEOREM SleepingWaiterCanBeWoken == Spec => []SleeperIsReachable
<1>1. MonitorInv => SleeperIsReachable
  BY Zenon DEF MonitorInv
<1> QED
  BY <1>1, MonitorInvariant, PTL

-----------------------------------------------------------------------------
(* The lock implements JavaLock.                                           *)

\* What a Java program sees of a thread.
CallSeen(t) ==
  /\ pc[t] = "idle" => call[t] = "none" /\ saved[t] = 0
  /\ Waiter(t) => call[t] = "waiting" /\ saved[t] = prev_lock_count[t] + 1
  /\ pc[t] = "rewait" => call[t] = "return" /\ saved[t] = 0
  /\ (pc[t] \notin {"idle", "rewait"} /\ ~Waiter(t)) => call[t] = op[t] /\ saved[t] = 0

\* What it sees of the lock.
LockSeen ==
  /\ (lock_word.state = "thin" /\ lock_word.owner # None) =>
       holder = lock_word.owner /\ depth = lock_word.count + 1
  /\ lock_word.state \in {"unlocked", "hash"} => holder = None /\ depth = 0
  /\ lock_word.state = "fat" => holder = owner_
  /\ (lock_word.state = "fat" /\ owner_ = None) => depth = 0
  /\ (lock_word.state = "fat" /\ owner_ # None /\ pc[owner_] = "rewait") =>
       depth = prev_lock_count[owner_] + 1
  /\ (lock_word.state = "fat" /\ owner_ # None /\ pc[owner_] # "rewait") => depth = lock_count_ + 1

\* It sees a call before and after a step,
LEMMA CallView ==
  ASSUME NEW t \in Threads
  PROVE  CallSeen(t) /\ CallSeen(t)'
BY Zenon DEF CallSeen, call, saved, Waiter

\* and the lock,
LEMMA LockView == LockSeen /\ LockSeen'
<1>1. LockSeen
  BY Zenon DEF LockSeen, holder, depth
<1>2. LockSeen'
  BY Zenon DEF LockSeen, holder, depth
<1> QED
  BY <1>1, <1>2, Zenon

\* and in a step of t nothing of the calls of other threads.
LEMMA OthersView ==
  ASSUME NEW t \in Threads, OthersWoken(t),
         \A u \in Threads \ {t} : prev_lock_count'[u] = prev_lock_count[u]
  PROVE  call' = [call EXCEPT ![t] = call'[t]] /\ saved' = [saved EXCEPT ![t] = saved'[t]]
<1>1. \A u \in Threads \ {t} : /\ Waiter(u)' <=> Waiter(u)
                               /\ pc'[u] = "idle" <=> pc[u] = "idle"
                               /\ pc'[u] = "rewait" <=> pc[u] = "rewait"
                               /\ op'[u] = op[u]
  BY Zenon DEF OthersWoken, Waiter
<1>2. \A u \in Threads \ {t} : call'[u] = call[u] /\ saved'[u] = saved[u]
  BY <1>1 DEF call, saved
<1>3. /\ call = [u \in Threads |-> call[u]] /\ call' = [u \in Threads |-> call'[u]]
      /\ saved = [u \in Threads |-> saved[u]] /\ saved' = [u \in Threads |-> saved'[u]]
  BY DEF call, saved
<1> QED
  BY <1>2, <1>3, Zenon

\* It sees the lock unchanged.
LEMMA SameLockView ==
  ASSUME MonitorInv, UNCHANGED <<lock_word, owner_, lock_count_>>,
         \A u \in Threads : Holds(u) => /\ pc'[u] = "rewait" <=> pc[u] = "rewait"
                                        /\ prev_lock_count'[u] = prev_lock_count[u]
  PROVE  holder' = holder /\ depth' = depth
<1>1. lock_word.state \in {"unlocked", "thin", "fat", "hash"} /\ owner_ \in Threads \cup {None}
  BY Zenon DEF MonitorInv, TypeOK, LockWords
<1>2. CASE lock_word.state = "fat" /\ owner_ # None
  <2>1. /\ pc'[owner_] = "rewait" <=> pc[owner_] = "rewait"
        /\ prev_lock_count'[owner_] = prev_lock_count[owner_]
    BY <1>1, <1>2, Zenon DEF Holds
  <2> QED
    BY <1>2, <2>1, LockView, Zenon DEF LockSeen
<1>3. CASE lock_word.state = "thin"
  <2>1. lock_word.owner # None
    BY <1>3, MonitorAssumption, Zenon DEF MonitorInv, Words, Word, MonitorAssumption
  <2> QED
    BY <1>3, <2>1, LockView, Zenon DEF LockSeen
<1>4. CASE lock_word.state \in {"unlocked", "hash"} \/ (lock_word.state = "fat" /\ owner_ = None)
  BY <1>4, LockView, Zenon DEF LockSeen
<1> QED
  BY <1>1, <1>2, <1>3, <1>4, Zenon

Stutters == UNCHANGED <<holder, depth, saved, call>>

\* A thread goes on in its call and nothing is seen.
LEMMA UnseenStep ==
  ASSUME MonitorInv, NEW t \in Threads, OthersWoken(t), op'[t] = op[t],
         pc[t] \notin {"idle", "rewait"}, pc'[t] \notin {"idle", "rewait"}, Waiter(t)' <=> Waiter(t),
         UNCHANGED <<lock_word, owner_, lock_count_, prev_lock_count>>
  PROVE  Stutters
<1>1. call'[t] = call[t] /\ saved'[t] = saved[t]
  BY CallView, Zenon DEF CallSeen
<1>2. call' = call /\ saved' = saved
  <2>1. call' = [call EXCEPT ![t] = call[t]] /\ saved' = [saved EXCEPT ![t] = saved[t]]
    BY <1>1, OthersView, Zenon
  <2> QED
    BY <2>1, Zenon DEF call, saved
<1>3. holder' = holder /\ depth' = depth
  BY SameLockView, Zenon DEF OthersWoken
<1> QED
  BY <1>2, <1>3, Zenon DEF Stutters

\* Nothing is seen of a step that leaves threads and lock as they are.
LEMMA NothingSeen ==
  ASSUME MonitorInv, UNCHANGED <<lock_word, owner_, lock_count_, prev_lock_count, pc, op>>
  PROVE  Stutters
<1>1. holder' = holder /\ depth' = depth
  BY SameLockView, Zenon
<1>2. call' = call /\ saved' = saved
  BY Zenon DEF call, saved, Waiter
<1> QED
  BY <1>1, <1>2, Zenon DEF Stutters

\* Call is Begin.
LEMMA CallImplements ==
  ASSUME MonitorInv, NEW t \in Threads, NEW o \in Ops, Call(t, o)
  PROVE  Java!Next
<1> USE DEF Call, word, fat, waiting
<1>1. pc[t] = "idle" /\ pc'[t] = o /\ op'[t] = o
  BY Zenon DEF MonitorInv, TypeOK
<1>2. OthersSame(t) /\ OthersWoken(t)
  BY SameWoken, Zenon DEF MonitorInv, TypeOK, OthersSame
<1>3. ~Waiter(t)' /\ pc'[t] \notin {"idle", "rewait"}
  BY <1>1, Zenon DEF Waiter, Ops
<1>4. call[t] = "none" /\ call'[t] = o /\ saved'[t] = saved[t]
  BY <1>1, <1>3, CallView, Zenon DEF CallSeen
<1>5. call' = [call EXCEPT ![t] = o] /\ saved' = saved
  <2>1. call' = [call EXCEPT ![t] = o] /\ saved' = [saved EXCEPT ![t] = saved[t]]
    BY <1>2, <1>4, OthersView, Zenon
  <2> QED
    BY <2>1, Zenon DEF saved
<1>6. holder' = holder /\ depth' = depth
  BY <1>1, <1>2, <1>3, SameLockView, Zenon DEF OthersSame
<1> QED
  BY <1>4, <1>5, <1>6, Zenon DEF Java!Next, Java!Begin, Java!Become

\* A call ends.
LEMMA ReturnView ==
  ASSUME NEW t \in Threads, OthersWoken(t), pc'[t] = "idle", ~Waiter(t), pc[t] # "idle",
         \A u \in Threads \ {t} : prev_lock_count'[u] = prev_lock_count[u]
  PROVE  /\ call' = [call EXCEPT ![t] = "none"] /\ saved' = saved
         /\ call[t] = IF pc[t] = "rewait" THEN "return" ELSE op[t]
<1>1. call'[t] = "none" /\ saved'[t] = saved[t] /\ call[t] = IF pc[t] = "rewait" THEN "return" ELSE op[t]
  BY CallView, Zenon DEF CallSeen
<1>2. call' = [call EXCEPT ![t] = "none"] /\ saved' = [saved EXCEPT ![t] = saved[t]]
  BY <1>1, OthersView, Zenon
<1> QED
  BY <1>1, <1>2, Zenon DEF saved

\* A call that has not got further than the lock word ends.
LEMMA ReturnFromCall ==
  ASSUME MonitorInv, NEW t \in Threads, pc[t] \in Ops, Return(t), prev_lock_count' = prev_lock_count
  PROVE  /\ call' = [call EXCEPT ![t] = "none"] /\ saved' = saved /\ call[t] = pc[t]
         /\ pc'[t] = "idle" /\ OthersSame(t)
<1>1. OthersSame(t) /\ OthersWoken(t) /\ pc'[t] = "idle"
  BY SameWoken, Zenon DEF MonitorInv, TypeOK, OthersSame, Return, Goto, DropLocals, NewMonitor
<1>2. ~Waiter(t) /\ pc[t] \notin {"idle", "rewait"} /\ op[t] = pc[t]
  BY Zenon DEF Waiter, Ops, MonitorInv, Mine, CallOf
<1> QED
  BY <1>1, <1>2, ReturnView, Zenon

\* Continue goes round in the call.
LEMMA ContinueUnseen ==
  ASSUME MonitorInv, NEW t \in Threads, Continue(t), pc[t] \notin {"idle", "rewait"}, ~Waiter(t),
         UNCHANGED <<lock_word, owner_, lock_count_, prev_lock_count>>
  PROVE  Stutters
<1>1. OthersSame(t) /\ OthersWoken(t)
  BY SameWoken, Zenon DEF MonitorInv, TypeOK, OthersSame, Continue, Goto, NewMonitor
<1>2. pc'[t] \in Ops /\ op' = op
  BY Zenon DEF MonitorInv, TypeOK, Continue, Goto
<1>3. ~Waiter(t)' /\ pc'[t] \notin {"idle", "rewait"}
  BY <1>2, Zenon DEF Waiter, Ops
<1> QED
  BY <1>1, <1>2, <1>3, UnseenStep, Zenon

\* InflateThinLocked, up to the suspension of the owner, shows nothing.
LEMMA InflateUnseen ==
  ASSUME MonitorInv, NEW t \in Threads, NEW h, InflateThinLocked(t, h), pc[t] \in Ops,
         UNCHANGED <<lock_word, owner_, lock_count_, prev_lock_count>>
  PROVE  Stutters
<1>1. OthersSame(t) /\ OthersWoken(t)
  BY SameWoken, Zenon DEF MonitorInv, TypeOK, OthersSame, InflateThinLocked, Goto, NewMonitor
<1>2. pc'[t] \in {"install", "blocked"} /\ op' = op
  BY Zenon DEF MonitorInv, TypeOK, InflateThinLocked, Goto
<1>3. ~Waiter(t) /\ ~Waiter(t)' /\ pc[t] \notin {"idle", "rewait"} /\ pc'[t] \notin {"idle", "rewait"}
  BY <1>2, Zenon DEF Waiter, Ops
<1> QED
  BY <1>1, <1>2, <1>3, UnseenStep, Zenon

\* The steps of MonitorEnter on the lock word.
LEMMA EnterImplements ==
  ASSUME MonitorInv, NEW t \in Threads,
         \/ EnterUnlocked(t) \/ EnterRecursive(t) \/ EnterContended(t) \/ EnterFat(t) \/ EnterHashed(t)
  PROVE  Java!Next \/ Stutters
<1> USE DEF word, fat, waiting
<1>1. pc[t] = "enter" /\ pc[t] \in Ops /\ t # None /\ pc[t] \notin {"idle", "rewait"} /\ ~Waiter(t)
  BY MonitorAssumption, Zenon
     DEF EnterUnlocked, EnterRecursive, EnterContended, EnterFat, EnterHashed, Ops, Waiter,
         MonitorAssumption
<1>2. UNCHANGED <<owner_, lock_count_, prev_lock_count>>
  BY Zenon DEF EnterUnlocked, EnterRecursive, EnterContended, EnterFat, EnterHashed
<1>3. ASSUME Return(t), lock_word'.state = "thin", lock_word'.owner = t,
             holder \in {None, t}, lock_word'.count + 1 = depth + 1
      PROVE  Java!Next
  <2>1. call' = [call EXCEPT ![t] = "none"] /\ saved' = saved /\ call[t] = "enter"
    BY <1>1, <1>2, <1>3, ReturnFromCall, Zenon
  <2>2. holder' = t /\ depth' = depth + 1
    BY <1>1, <1>3, LockView, Zenon DEF LockSeen
  <2> QED
    BY <1>3, <2>1, <2>2, Zenon DEF Java!Next, Java!Enter, Java!Become
<1>4. CASE EnterUnlocked(t) /\ lock_word = lw[t]
  <2>1. lock_word.state = "unlocked" /\ lock_word' = FromThinLockId(t, 0) /\ Return(t)
    BY <1>4, Zenon DEF EnterUnlocked
  <2>2. lock_word'.state = "thin" /\ lock_word'.owner = t /\ lock_word'.count = 0
    BY <2>1, WordsMade, Zenon
  <2>3. holder = None /\ depth = 0
    BY <2>1, LockView, Zenon DEF LockSeen
  <2> QED
    BY <1>3, <2>1, <2>2, <2>3, Zenon
<1>5. CASE EnterRecursive(t) /\ lw[t].count + 1 <= kThinLockMaxCount
  <2>1. /\ lock_word = lw[t] /\ lw[t].state = "thin" /\ lw[t].owner = t /\ lw[t].count + 1 \in Nat
        /\ lock_word' = FromThinLockId(t, lw[t].count + 1) /\ Return(t)
    BY <1>1, <1>5, OwnThinLock, Zenon DEF EnterRecursive
  <2>2. lock_word'.state = "thin" /\ lock_word'.owner = t /\ lock_word'.count = lw[t].count + 1
    BY <2>1, WordsMade, Zenon
  <2>3. holder = t /\ depth = lw[t].count + 1
    BY <1>1, <2>1, LockView, Zenon DEF LockSeen
  <2> QED
    BY <1>3, <2>1, <2>2, <2>3, Zenon
<1>6. CASE Continue(t) /\ lock_word' = lock_word
  BY <1>1, <1>2, <1>6, ContinueUnseen, Zenon
<1>7. CASE InflateThinLocked(t, 0) /\ lock_word' = lock_word
  BY <1>1, <1>2, <1>7, InflateUnseen, Zenon
<1>8. CASE EnterFat(t) \/ EnterHashed(t)
  <2>1. OthersSame(t) /\ OthersWoken(t)
    BY <1>8, SameWoken, Zenon
       DEF MonitorInv, TypeOK, OthersSame, EnterFat, EnterHashed, Goto, NewMonitor
  <2>2. pc'[t] \in {"lock", "install"} /\ op' = op /\ lock_word' = lock_word /\ op[t] = "enter"
    BY <1>1, <1>8, Zenon DEF MonitorInv, TypeOK, EnterFat, EnterHashed, Goto, Mine, CallOf
  <2>3. ~Waiter(t)' /\ pc'[t] \notin {"idle", "rewait"}
    BY <2>2, Zenon DEF Waiter
  <2> QED
    BY <1>1, <1>2, <2>1, <2>2, <2>3, UnseenStep, Zenon
<1> QED
  BY <1>4, <1>5, <1>6, <1>7, <1>8, Zenon DEF EnterUnlocked, EnterRecursive, EnterContended

\* IdentityHashCode leaves the lock alone.
LEMMA HashImplements ==
  ASSUME MonitorInv, NEW t \in Threads,
         \/ HashUnlocked(t) \/ HashThin(t) \/ HashFat(t) \/ HashHashed(t)
  PROVE  Java!Next \/ Stutters
<1> USE DEF word, fat, waiting
<1>1. pc[t] = "hash" /\ pc[t] \in Ops /\ pc[t] \notin {"idle", "rewait"} /\ ~Waiter(t)
  BY Zenon DEF HashUnlocked, HashThin, HashFat, HashHashed, Ops, Waiter
<1>2. UNCHANGED <<owner_, lock_count_, prev_lock_count>>
  BY Zenon DEF HashUnlocked, HashThin, HashFat, HashHashed
<1>3. ASSUME Return(t), holder' = holder, depth' = depth
      PROVE  Java!Next
  <2>1. call' = [call EXCEPT ![t] = "none"] /\ saved' = saved /\ call[t] = "hash"
    BY <1>1, <1>2, <1>3, ReturnFromCall, Zenon
  <2> QED
    BY <1>3, <2>1, Zenon DEF Java!Next, Java!Return, Java!Become
<1>4. CASE HashUnlocked(t) /\ lock_word = lw[t]
  <2>1. PICK h \in Hashes : lock_word' = FromHashCode(h) /\ Return(t)
    BY <1>4, Zenon DEF HashUnlocked
  <2>2. lock_word.state = "unlocked" /\ lock_word'.state = "hash"
    BY <1>4, <2>1, WordsMade, MonitorAssumption, Zenon DEF MonitorAssumption, HashUnlocked
  <2> QED
    BY <1>3, <2>1, <2>2, LockView, Zenon DEF LockSeen
<1>5. CASE HashFat(t) \/ HashHashed(t)
  <2>1. Return(t) /\ lock_word' = lock_word
    BY <1>5, Zenon DEF HashFat, HashHashed
  <2>2. OthersSame(t) /\ pc'[t] = "idle"
    BY <1>1, <1>2, <2>1, ReturnFromCall, Zenon
  <2>3. holder' = holder /\ depth' = depth
    BY <1>1, <1>2, <2>1, <2>2, SameLockView, Zenon DEF OthersSame
  <2> QED
    BY <1>3, <2>1, <2>3, Zenon
<1>6. CASE Continue(t) /\ lock_word' = lock_word
  BY <1>1, <1>2, <1>6, ContinueUnseen, Zenon
<1>7. CASE HashThin(t)
  BY <1>1, <1>2, <1>7, InflateUnseen, Zenon DEF HashThin
<1> QED
  BY <1>4, <1>5, <1>6, <1>7, Zenon DEF HashUnlocked

\* The steps of InflateThinLocked and Inflate but the compare-and-swap.
LEMMA InflationUnseen ==
  ASSUME MonitorInv, NEW t \in Threads,
         \/ CompareLockWord(t) \/ RequestSuspension(t) \/ OwnerSuspended(t) \/ SuspensionTimedOut(t)
         \/ CheckLockWord(t) \/ ResumeOwner(t) \/ LeaveBlocked(t)
         \/ Install(t) \/ InstallBeaten(t) \/ Add(t) \/ Added(t) \/ WaitThin(t)
  PROVE  Stutters
<1> USE DEF CompareLockWord, RequestSuspension, OwnerSuspended, SuspensionTimedOut, CheckLockWord,
        ResumeOwner, LeaveBlocked, Install, InstallBeaten, Add, Added, WaitThin,
        word, fat, waiting
<1>1. pc[t] \in {"blocked", "suspend", "suspending", "check", "resume", "unblock", "install", "cas",
                 "add", "added", "wait"}
  BY Zenon
<1>2. UNCHANGED <<lock_word, owner_, lock_count_, prev_lock_count>>
  BY Zenon
<1>3. pc[t] \notin {"idle", "rewait"} /\ ~Waiter(t)
  BY <1>1, Zenon DEF Waiter
<1>4. CASE Continue(t)
  BY <1>2, <1>3, <1>4, ContinueUnseen, Zenon
<1>5. CASE ~Continue(t)
  <2>1. /\ pc' = [pc EXCEPT ![t] = pc'[t]] /\ op' = op
        /\ pc'[t] \in {"suspend", "unblock", "suspending", "check", "install", "resume", "cas", "added"}
    BY <1>5, Zenon DEF Inflated, Goto, locals, MonitorInv, TypeOK
  <2>2. \A u \in Threads \ {t} : lw'[u] = lw[u] /\ m'[u] = m[u]
    BY <1>5, Zenon DEF Inflated, locals, NewMonitor, MonitorInv, TypeOK
  <2>3. OthersSame(t)
    BY <2>1, <2>2, Zenon DEF OthersSame, MonitorInv, TypeOK
  <2>4. ~Waiter(t)' /\ pc'[t] \notin {"idle", "rewait"}
    BY <2>1, Zenon DEF Waiter
  <2> QED
    BY <1>2, <1>3, <2>1, <2>3, <2>4, SameWoken, UnseenStep, Zenon
<1> QED
  BY <1>4, <1>5, Zenon

\* The steps of a thread that waits for the lock, or in Object.wait.
LEMMA WaitingUnseen ==
  ASSUME MonitorInv, NEW t \in Threads,
         \/ Contend(t) \/ BecomeRunnable(t) \/ ContenderWakes(t)
         \/ WaitTimesOut(t) \/ WakeUp(t) \/ EndWait(t)
  PROVE  Stutters
<1> USE DEF Contend, BecomeRunnable, ContenderWakes, WaitTimesOut, WakeUp, EndWait, Goto,
        word, fat, locals, waiting
<1>1. /\ UNCHANGED <<lock_word, owner_, lock_count_, prev_lock_count>> /\ op' = op
      /\ \/ /\ pc[t] \in {"contend", "contender", "woken"}
            /\ pc'[t] \in {"contender", "woken", "relock"}
         \/ /\ pc[t] \in {"waiting", "signaled", "waited"}
            /\ pc'[t] \in {"signaled", "waited", "lock"} /\ op[t] = "wait"
  BY ZenonT(60) DEF MonitorInv, TypeOK, Mine, CallOf, Asleep
<1>2. OthersSame(t)
  BY Zenon DEF MonitorInv, TypeOK, OthersSame
<1>3. /\ pc[t] \notin {"idle", "rewait"} /\ pc'[t] \notin {"idle", "rewait"}
      /\ Waiter(t)' <=> Waiter(t)
  BY <1>1, Zenon DEF Waiter
<1> QED
  BY <1>1, <1>2, <1>3, SameWoken, UnseenStep, Zenon

\* Interrupt
LEMMA InterruptUnseen ==
  ASSUME MonitorInv, NEW t \in Threads, Interrupt(t)
  PROVE  Stutters
<1> USE DEF Interrupt, WaitCondSignal, word, fat, locals
<1>1. t # None /\ \A u \in Threads : u # None
  BY MonitorAssumption, Zenon DEF MonitorAssumption
<1>2. OthersSame(t)
  BY <1>1, Zenon DEF OthersSame
<1>3. pc'[t] = pc[t] \/ (pc[t] = "waiting" /\ pc'[t] = "signaled")
  BY <1>1, Zenon
<1>4. CASE pc'[t] # pc[t]
  BY <1>2, <1>3, <1>4, SameWoken, UnseenStep, Zenon DEF Waiter
<1>5. CASE pc'[t] = pc[t]
  <2>1. pc' = pc
    BY <1>2, <1>5, Zenon DEF OthersSame, MonitorInv, TypeOK
  <2> QED
    BY <2>1, NothingSeen, Zenon
<1> QED
  BY <1>4, <1>5, Zenon

\* CasLockWord: the Monitor has the holder and the count of the lock word.
LEMMA CasLockWordUnseen ==
  ASSUME MonitorInv, NEW t \in Threads, CasLockWord(t)
  PROVE  Stutters
<1> USE DEF CasLockWord, Goto, locals, waiting
<1>1. /\ pc[t] = "cas" /\ pc'[t] = "add" /\ op' = op /\ Installing(t) /\ lock_word = lw[t]
      /\ lock_word'.state = "fat" /\ m[t].owner \in Threads \cup {None} /\ Word(lock_word)
  BY WordsMade, Zenon DEF MonitorInv, TypeOK, Mine, Words
<1>2. OthersSame(t) /\ OthersWoken(t)
  BY SameWoken, Zenon DEF MonitorInv, TypeOK, OthersSame
<1>3. call' = call /\ saved' = saved
  <2>1. ~Waiter(t) /\ ~Waiter(t)'
    BY <1>1, Zenon DEF Waiter
  <2>2. call'[t] = call[t] /\ saved'[t] = saved[t]
    <3>1. call[t] = op[t] /\ saved[t] = 0
      BY <1>1, <2>1, CallView, Zenon DEF CallSeen
    <3>2. call'[t] = op'[t] /\ saved'[t] = 0
      BY <1>1, <2>1, CallView, Zenon DEF CallSeen
    <3> QED
      BY <1>1, <3>1, <3>2, Zenon
  <2>3. call' = [call EXCEPT ![t] = call[t]] /\ saved' = [saved EXCEPT ![t] = saved[t]]
    BY <1>2, <2>2, OthersView, Zenon
  <2> QED
    BY <2>3, Zenon DEF call, saved
<1>4. CASE m[t].owner = None
  <2>1. lock_word.state = "hash" /\ owner_' = None
    BY <1>1, <1>4, Zenon DEF Installing
  <2> QED
    BY <1>1, <1>3, <2>1, LockView, Zenon DEF LockSeen, Stutters
<1>5. CASE m[t].owner # None
  <2>1. PICK o \in Threads : o = m[t].owner
    BY <1>1, <1>5, Zenon
  <2>2. /\ lock_word.state = "thin" /\ lock_word.owner = o /\ owner_' = o
        /\ lock_count_' = lock_word.count /\ o # None
    BY <1>1, <1>5, <2>1, Zenon DEF Installing
  <2>3. pc'[o] # "rewait"
    <3>1. Rewaiting(o)
      BY Zenon DEF MonitorInv, Mine
    <3> QED
      BY <1>1, <1>2, <2>2, <3>1, ZenonT(60) DEF OthersSame, Rewaiting
  <2> QED
    BY <1>1, <1>3, <2>2, <2>3, LockView, Zenon DEF LockSeen, Stutters
<1> QED
  BY <1>4, <1>5, Zenon

\* Deflate: the lock word has the holder and the count of the Monitor.
LEMMA DeflateUnseen ==
  ASSUME MonitorInv, Deflate
  PROVE  Stutters
<1> USE DEF Deflate, locals, waiting
<1>1. /\ pc' = pc /\ op' = op /\ prev_lock_count' = prev_lock_count /\ lock_word.state = "fat"
      /\ owner_ \in Threads \cup {None} /\ lock_count_ \in Nat /\ hash_code_ \in Nat
  BY Zenon DEF MonitorInv, TypeOK
<1>2. call' = call /\ saved' = saved
  BY <1>1, Zenon DEF call, saved, Waiter
<1>3. CASE owner_ = None
  <2>1. lock_word' = IF hash_code_ # 0 THEN FromHashCode(hash_code_) ELSE Unlocked
    BY <1>3, Zenon
  <2>2. lock_word'.state \in {"unlocked", "hash"}
    BY <1>1, <2>1, WordsMade, SMTT(30)
  <2> QED
    BY <1>1, <1>2, <1>3, <2>2, LockView, Zenon DEF LockSeen, Stutters
<1>4. CASE owner_ # None
  <2>1. /\ owner_ \in Threads /\ lock_word' = FromThinLockId(owner_, lock_count_)
        /\ Holds(owner_) /\ AtSuspendPoint(owner_)
    BY <1>1, <1>4, Zenon DEF Holds, Paused
  <2>2. pc[owner_] = "idle"
    BY <2>1, SuspendedHolder, Zenon
  <2>3. lock_word'.state = "thin" /\ lock_word'.owner = owner_ /\ lock_word'.count = lock_count_
    BY <1>1, <2>1, WordsMade, SMTT(30)
  <2> QED
    BY <1>1, <1>2, <1>4, <2>2, <2>3, LockView, Zenon DEF LockSeen, Stutters
<1> QED
  BY <1>3, <1>4, Zenon

\* LockTurn is Enter, or EndWait for a thread that comes back from Object.wait.
LEMMA LockImplements ==
  ASSUME MonitorInv, NEW t \in Threads, Lock(t) \/ Relock(t)
  PROVE  Java!Next \/ Stutters
<1> USE DEF Lock, Relock, word, waiting
<1>1. PICK w : LockTurn(t, w)
  BY Zenon
<1>2. /\ pc[t] \in {"lock", "relock"} /\ lock_word.state = "fat" /\ lock_word' = lock_word /\ t # None
      /\ op[t] = "enter" \/ op[t] = "wait"
      /\ prev_lock_count' = prev_lock_count
      /\ owner_ = t => op[t] = "enter"
      /\ owner_ = None => lock_count_ = 0
  BY MonitorAssumption, Zenon
     DEF MonitorInv, Mine, CallOf, InMonitor, Contending, Holds, HolderAt, Ops, Inflating,
         Monitors, MonitorAssumption
<1>3. OthersSame(t) /\ OthersWoken(t)
  BY <1>1, SameWoken, Zenon
     DEF LockTurn, Locked, Return, DropLocals, NewMonitor, Goto, locals, MonitorInv, TypeOK,
         OthersSame
<1>4. CASE owner_ \notin {None, t}
  <2>1. pc'[t] = "contend" /\ op' = op /\ owner_' = owner_ /\ lock_count_' = lock_count_
    BY <1>1, <1>4, Zenon DEF LockTurn, Goto, locals, MonitorInv, TypeOK
  <2>2. pc[t] \notin {"idle", "rewait"} /\ (Waiter(t)' <=> Waiter(t))
    BY <1>2, <2>1, Zenon DEF Waiter
  <2> QED
    BY <1>2, <1>3, <2>1, <2>2, UnseenStep, Zenon
<1>5. CASE owner_ \in {None, t}
  <2>1. /\ owner_' = t /\ Locked(t)
        /\ lock_count_' = IF owner_ = None THEN lock_count_ ELSE lock_count_ + 1
    BY <1>1, <1>2, <1>5, Zenon DEF LockTurn
  <2>2. CASE op[t] = "enter"
    <3>1. pc'[t] = "idle" /\ ~Waiter(t)
      BY <1>2, <2>1, <2>2, Zenon DEF Locked, Return, Goto, MonitorInv, TypeOK, Waiter
    <3>2. call' = [call EXCEPT ![t] = "none"] /\ saved' = saved /\ call[t] = "enter"
      BY <1>2, <1>3, <2>2, <3>1, ReturnView, Zenon
    <3>3. holder \in {None, t} /\ holder' = t /\ depth' = lock_count_' + 1
      BY <1>2, <1>5, <2>1, <3>1, LockView, Zenon DEF LockSeen
    <3>4. lock_count_' = depth
      BY <1>2, <1>5, <2>1, LockView, Zenon DEF LockSeen
    <3> QED
      BY <3>2, <3>3, <3>4, Zenon DEF Java!Next, Java!Enter, Java!Become
  <2>3. CASE op[t] = "wait"
    <3>1. pc'[t] = "rewait" /\ op' = op /\ owner_ = None
      BY <1>2, <1>5, <2>1, <2>3, Zenon DEF Locked, Goto, locals, MonitorInv, TypeOK
    <3>2. Waiter(t)
      BY <1>2, <2>3, Zenon DEF Waiter
    <3>3. call[t] = "waiting" /\ saved[t] = prev_lock_count[t] + 1 /\ call'[t] = "return" /\ saved'[t] = 0
      BY <3>1, <3>2, CallView, Zenon DEF CallSeen
    <3>4. call' = [call EXCEPT ![t] = "return"] /\ saved' = [saved EXCEPT ![t] = 0]
      BY <1>2, <1>3, <3>3, OthersView, Zenon
    <3>5. holder = None /\ holder' = t /\ depth' = saved[t]
      BY <1>2, <2>1, <3>1, <3>3, LockView, Zenon DEF LockSeen
    <3> QED
      BY <3>3, <3>4, <3>5, Zenon DEF Java!Next, Java!EndWait, Java!Become
  <2> QED
    BY <1>2, <2>2, <2>3, Zenon
<1> QED
  BY <1>4, <1>5, Zenon

\* MonitorExit is Exit.
LEMMA ExitImplements ==
  ASSUME MonitorInv, NEW t \in Threads, ExitThin(t) \/ ExitFat(t)
  PROVE  Java!Next
<1> USE DEF word, waiting
<1>1. pc[t] = "exit" /\ pc[t] \in Ops /\ t # None /\ op[t] = "exit" /\ prev_lock_count' = prev_lock_count
  BY MonitorAssumption, Zenon
     DEF ExitThin, ExitFat, Ops, MonitorInv, Mine, CallOf, MonitorAssumption
<1>2. /\ call' = [call EXCEPT ![t] = "none"] /\ saved' = saved /\ call[t] = "exit"
      /\ pc'[t] = "idle"
  <2>1. CASE ExitThin(t)
    BY <1>1, <2>1, ReturnFromCall, Zenon DEF ExitThin
  <2>2. CASE ExitFat(t)
    <3>1. /\ pc'[t] = "idle"
          /\ \A u \in Threads \ {t} : pc'[u] = pc[u] \/ (pc[u] = "contender" /\ pc'[u] = "woken")
      <4>1. pc \in [Threads -> Pcs] /\ "idle" \in Pcs \ {"contender"}
        BY Zenon DEF MonitorInv, TypeOK, Pcs
      <4>2. CASE lock_count_ = 0
        BY <2>2, <4>1, <4>2, SignalContenderMoves, Zenon DEF ExitFat, Unlock
      <4>3. CASE lock_count_ # 0
        BY <2>2, <4>1, <4>3, Zenon DEF ExitFat, Unlock, Goto
      <4> QED
        BY <4>2, <4>3, Zenon
    <3>2. OthersWoken(t)
      BY <2>2, <3>1, Zenon DEF ExitFat, DropLocals, NewMonitor, MonitorInv, TypeOK, OthersWoken
    <3>3. ~Waiter(t)
      BY <1>1, Zenon DEF Waiter
    <3> QED
      BY <1>1, <3>1, <3>2, <3>3, ReturnView, Zenon
  <2> QED
    BY <2>1, <2>2, Zenon
<1>3. ASSUME holder = t, depth' = depth - 1, holder' = IF depth = 1 THEN None ELSE t
      PROVE  Java!Next
  BY <1>2, <1>3, Zenon DEF Java!Next, Java!Exit, Java!Become
<1>4. CASE ExitThin(t)
  <2>1. /\ lock_word = lw[t] /\ lw[t].state = "thin" /\ lw[t].owner = t /\ lw[t].count \in Nat
        /\ lock_word' = IF lw[t].count # 0 THEN FromThinLockId(t, lw[t].count - 1) ELSE Unlocked
    BY <1>1, <1>4, WordStates, Zenon DEF ExitThin, MonitorInv, Mine, Known, Words
  <2>2. holder = t /\ depth = lw[t].count + 1
    BY <1>1, <2>1, LockView, Zenon DEF LockSeen
  <2>3. CASE lw[t].count # 0
    <3>1. lw[t].count - 1 \in Nat /\ lock_word' = FromThinLockId(t, lw[t].count - 1)
      BY <2>1, <2>3, SMTT(30)
    <3>2. lock_word'.state = "thin" /\ lock_word'.owner = t /\ lock_word'.count = lw[t].count - 1
      BY <3>1, WordsMade, ZenonT(40)
    <3>3. holder' = t /\ depth' = (lw[t].count - 1) + 1
      BY <1>1, <3>2, LockView, Zenon DEF LockSeen
    <3> QED
      BY <1>3, <2>1, <2>2, <2>3, <3>3, SMTT(30)
  <2>4. CASE lw[t].count = 0
    <3>1. lock_word'.state = "unlocked"
      BY <2>1, <2>4, WordsMade, Zenon
    <3>2. holder' = None /\ depth' = 0
      BY <3>1, LockView, Zenon DEF LockSeen
    <3> QED
      BY <1>3, <2>2, <2>4, <3>2, SMTT(30)
  <2> QED
    BY <2>3, <2>4, Zenon
<1>5. CASE ExitFat(t)
  <2>1. lock_word.state = "fat" /\ lock_word' = lock_word /\ owner_ = t /\ lock_count_ \in Nat
    BY <1>1, <1>5, Zenon DEF ExitFat, MonitorInv, TypeOK, Mine, InMonitor
  <2>2. holder = t /\ depth = lock_count_ + 1
    BY <1>1, <2>1, LockView, Zenon DEF LockSeen
  <2>3. CASE lock_count_ = 0
    <3>1. owner_' = None
      BY <1>5, <2>3, Zenon DEF ExitFat, Unlock
    <3>2. holder' = None /\ depth' = 0
      BY <2>1, <3>1, LockView, Zenon DEF LockSeen
    <3> QED
      BY <1>3, <2>2, <2>3, <3>2, SMTT(30)
  <2>4. CASE lock_count_ # 0
    <3>1. owner_' = t /\ lock_count_' = lock_count_ - 1
      BY <1>5, <2>1, <2>4, Zenon DEF ExitFat, Unlock
    <3>2. holder' = t /\ depth' = (lock_count_ - 1) + 1
      BY <1>1, <1>2, <2>1, <3>1, LockView, Zenon DEF LockSeen
    <3> QED
      BY <1>3, <2>1, <2>2, <2>4, <3>2, SMTT(30)
  <2> QED
    BY <2>3, <2>4, Zenon
<1> QED
  BY <1>4, <1>5, Zenon

\* A call that is refused, or that notifies, leaves the lock alone.
LEMMA ReturnImplements ==
  ASSUME MonitorInv, NEW t \in Threads,
         NotOwner(t) \/ TimeoutOutOfRange(t) \/ DoNotifyThin(t) \/ Notify(t) \/ NotifyAll(t)
  PROVE  Java!Next
<1> USE DEF NotOwner, TimeoutOutOfRange, DoNotifyThin, Notify, NotifyAll, word, fat, waiting
<1>1. /\ pc[t] \in {"exit", "wait", "notify", "notifyAll"} /\ pc[t] \in Ops /\ op[t] = pc[t] /\ ~Waiter(t)
      /\ pc[t] \notin {"idle", "rewait"}
      /\ UNCHANGED <<lock_word, owner_, lock_count_, prev_lock_count>>
  BY Zenon DEF Ops, Waiter, MonitorInv, Mine, CallOf
<1>2. /\ pc'[t] = "idle"
      /\ \A u \in Threads \ {t} : pc'[u] = pc[u] \/ (pc[u] = "waiting" /\ pc'[u] = "signaled")
  <2>1. pc \in [Threads -> Pcs]
    BY Zenon DEF MonitorInv, TypeOK
  <2> QED
    BY <1>1, <2>1, Zenon DEF Return, Goto, WaitCondSignal
<1>3. OthersWoken(t)
  BY <1>2, Zenon DEF Return, DropLocals, NewMonitor, MonitorInv, TypeOK, OthersWoken
<1>4. call' = [call EXCEPT ![t] = "none"] /\ saved' = saved /\ call[t] = pc[t]
  BY <1>1, <1>2, <1>3, ReturnView, Zenon
<1>5. holder' = holder /\ depth' = depth
  BY <1>1, <1>2, SameLockView, Zenon
<1>6. pc[t] = "exit" => holder # t
  <2>1. ASSUME pc[t] = "exit", holder = t
        PROVE  FALSE
    <3>1. Holds(t)
      BY <2>1, MonitorAssumption, LockView, Zenon
         DEF MonitorInv, TypeOK, LockWords, Words, Word, Holds, LockSeen, MonitorAssumption
    <3>2. lw[t] = lock_word
      BY <1>1, <3>1, Zenon DEF MonitorInv, Mine, Known
    <3> QED
      BY <2>1, <3>1, <3>2, Zenon DEF Holds
  <2> QED
    BY <2>1, Zenon
<1> QED
  BY <1>1, <1>4, <1>5, <1>6, Zenon DEF Java!Next, Java!Return, Java!Become

\* Wait gives up all entries, and Rewait only returns.
LEMMA WaitImplements ==
  ASSUME MonitorInv, NEW t \in Threads, Wait(t) \/ Rewait(t)
  PROVE  Java!Next
<1> USE DEF word
<1>1. CASE Wait(t)
  <2> DEFINE l == IF interrupted_[t] THEN "waited" ELSE "waiting"
  <2>1. /\ pc[t] = "wait" /\ op[t] = "wait" /\ owner_ = t /\ t # None /\ lock_word.state = "fat"
        /\ lock_word' = lock_word /\ owner_' = None /\ op' = op /\ l \in Pcs \ {"contender"}
        /\ prev_lock_count'[t] = lock_count_ /\ pc \in [Threads -> Pcs]
        /\ \A u \in Threads \ {t} : prev_lock_count'[u] = prev_lock_count[u]
    BY <1>1, MonitorAssumption, SMTT(30)
       DEF Wait, MonitorInv, TypeOK, Mine, CallOf, InMonitor, Ops, Pcs, MonitorAssumption
  <2>2. /\ pc'[t] = l
        /\ \A u \in Threads \ {t} : pc'[u] = pc[u] \/ (pc[u] = "contender" /\ pc'[u] = "woken")
    <3>1. SignalContender([pc EXCEPT ![t] = l])
      BY <1>1, Zenon DEF Wait
    <3> HIDE DEF l
    <3> QED
      BY <2>1, <3>1, SignalContenderMoves, Zenon
  <2>3. OthersWoken(t)
    BY <1>1, <2>1, <2>2, Zenon DEF Wait, MonitorInv, TypeOK, OthersWoken
  <2>4. Waiter(t)' /\ ~Waiter(t)
    BY <2>1, <2>2, Zenon DEF Waiter
  <2>5. call[t] = "wait" /\ call'[t] = "waiting" /\ saved'[t] = lock_count_ + 1
    BY <2>1, <2>4, CallView, Zenon DEF CallSeen
  <2>6. call' = [call EXCEPT ![t] = "waiting"] /\ saved' = [saved EXCEPT ![t] = lock_count_ + 1]
    BY <2>1, <2>3, <2>5, OthersView, Zenon
  <2>7. holder = t /\ depth = lock_count_ + 1 /\ holder' = None /\ depth' = 0
    BY <2>1, LockView, Zenon DEF LockSeen
  <2> QED
    BY <2>5, <2>6, <2>7, Zenon DEF Java!Next, Java!Wait, Java!Become
<1>2. CASE Rewait(t)
  <2>1. /\ pc[t] = "rewait" /\ pc'[t] = "idle" /\ owner_ = t /\ t # None /\ lock_word.state = "fat"
        /\ lock_word' = lock_word /\ owner_' = t /\ lock_count_' = prev_lock_count[t]
        /\ \A u \in Threads \ {t} : prev_lock_count'[u] = prev_lock_count[u]
    BY <1>2, MonitorAssumption, Zenon
       DEF Rewait, Return, Goto, MonitorInv, TypeOK, Mine, Rewaiting, MonitorAssumption
  <2>2. OthersSame(t) /\ OthersWoken(t)
    BY <1>2, SameWoken, Zenon
       DEF Rewait, Return, Goto, DropLocals, NewMonitor, MonitorInv, TypeOK, OthersSame
  <2>3. ~Waiter(t)
    BY <2>1, Zenon DEF Waiter
  <2>4. call' = [call EXCEPT ![t] = "none"] /\ saved' = saved /\ call[t] = "return"
    BY <2>1, <2>2, <2>3, ReturnView, Zenon
  <2>5. holder' = holder /\ depth' = depth
    BY <2>1, LockView, Zenon DEF LockSeen
  <2> QED
    BY <2>4, <2>5, Zenon DEF Java!Next, Java!Return, Java!Become
<1> QED
  BY <1>1, <1>2, Zenon

\* Every step is a step of JavaLock or is not seen.
LEMMA NextImplements == MonitorInv /\ [Next]_vars => [Java!Next]_(Java!vars)
<1> SUFFICES ASSUME MonitorInv, [Next]_vars PROVE Java!Next \/ Stutters
  BY Zenon DEF Java!vars, Stutters
<1>1. ASSUME NEW t \in Threads, NEW o \in Ops, Call(t, o) PROVE Java!Next
  BY <1>1, CallImplements, Zenon
<1>2. ASSUME NEW t \in Threads, Step(t) PROVE Java!Next \/ Stutters
  <2>1. CASE \/ EnterUnlocked(t) \/ EnterRecursive(t) \/ EnterContended(t) \/ EnterFat(t) \/ EnterHashed(t)
    BY <2>1, EnterImplements, Zenon
  <2>2. CASE HashUnlocked(t) \/ HashThin(t) \/ HashFat(t) \/ HashHashed(t)
    BY <2>2, HashImplements, Zenon
  <2>3. CASE \/ CompareLockWord(t) \/ RequestSuspension(t) \/ OwnerSuspended(t) \/ SuspensionTimedOut(t)
             \/ CheckLockWord(t) \/ ResumeOwner(t) \/ LeaveBlocked(t)
             \/ Install(t) \/ InstallBeaten(t) \/ Add(t) \/ Added(t) \/ WaitThin(t)
    BY <2>3, InflationUnseen, Zenon
  <2>4. CASE CasLockWord(t)
    BY <2>4, CasLockWordUnseen, Zenon
  <2>5. CASE Lock(t) \/ Relock(t)
    BY <2>5, LockImplements, Zenon
  <2>6. CASE Contend(t) \/ BecomeRunnable(t) \/ WakeUp(t) \/ EndWait(t)
    BY <2>6, WaitingUnseen, Zenon
  <2>7. CASE ExitThin(t) \/ ExitFat(t)
    BY <2>7, ExitImplements, Zenon
  <2>8. CASE NotOwner(t) \/ TimeoutOutOfRange(t) \/ DoNotifyThin(t) \/ Notify(t) \/ NotifyAll(t)
    BY <2>8, ReturnImplements, Zenon
  <2>9. CASE Wait(t) \/ Rewait(t)
    BY <2>9, WaitImplements, Zenon
  <2> QED
    BY <1>2, <2>1, <2>2, <2>3, <2>4, <2>5, <2>6, <2>7, <2>8, <2>9, ZenonT(40) DEF Step
<1>3. ASSUME NEW t \in Threads, ContenderWakes(t) \/ WaitTimesOut(t) \/ Interrupt(t) PROVE Stutters
  BY <1>3, WaitingUnseen, InterruptUnseen, Zenon
<1>4. CASE Deflate
  BY <1>4, DeflateUnseen, Zenon
<1>5. CASE DisallowNewMonitors \/ AllowNewMonitors
  BY <1>5, NothingSeen, Zenon DEF DisallowNewMonitors, AllowNewMonitors, fat, locals, waiting
<1>6. CASE UNCHANGED vars
  BY <1>6, NothingSeen, Zenon DEF vars, word, fat, locals, waiting
<1> QED
  BY <1>1, <1>2, <1>3, <1>4, <1>5, <1>6, Zenon DEF Next

\* The lock implements JavaLock: through every race of monitor.cc between thin
\* locking, inflation by the owner or by a contender, hashing and deflation, it
\* has one holder, keeps its recursion count, and is entered, left and given up
\* only by the call that does so; a refused call, that of a thread that does not
\* hold the lock or a wait whose timeout is out of range, changes nothing.
THEOREM LockImplementsJavaLock == Spec => ImplementsJavaLock
<1>1. Init => Java!Init
  <2> SUFFICES ASSUME Init PROVE Java!Init
    BY Zenon
  <2>1. lock_word.state = "unlocked"
    BY WordsMade, Zenon DEF Init
  <2>2. holder = None /\ depth = 0
    BY <2>1, LockView, Zenon DEF LockSeen
  <2>3. \A t \in Threads : pc[t] = "idle" /\ ~Waiter(t)
    BY Zenon DEF Init, Waiter
  <2>4. saved = [t \in Threads |-> 0] /\ call = [t \in Threads |-> "none"]
    BY <2>3, Zenon DEF saved, call
  <2> QED
    BY <2>2, <2>4, Zenon DEF Java!Init
<1> QED
  BY <1>1, MonitorInvariant, NextImplements, PTL DEF Spec, ImplementsJavaLock, Java!Spec
=============================================================================
