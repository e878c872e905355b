------------------------------ MODULE Monitor ------------------------------
(***************************************************************************)
(* The lock of one Java object: its lock word (lock_word.h), the fat       *)
(* Monitor it may be inflated to and deflated from (monitor.cc), its wait  *)
(* set, and its identity hash code (mirror/object.cc), which shares the    *)
(* lock word with the lock.                                                *)
(*                                                                         *)
(* The lock word is read into a local (lw) and stored back later, and some *)
(* of those stores are plain ones: reads and stores are separate steps.    *)
(* What holds monitor_lock_ or a wait_mutex_ from end to end is one step.  *)
(* A thread that is not Runnable still runs (it may be blocked, waiting,   *)
(* or inflating somebody else's lock); a pause happens whenever no thread  *)
(* is Runnable, and a suspended thread cannot become Runnable again.       *)
(***************************************************************************)
EXTENDS Integers, Sequences, FiniteSets

CONSTANTS Threads, None,
          kThinLockMaxCount,   \* the largest recursion count of a thin lock
          Hashes,              \* what GenerateIdentityHashCode may produce
          MaxCalls,            \* bound: calls, unlocking apart
          MaxInterrupts,       \* bound: calls of Thread.interrupt
          MaxPauses            \* bound: pauses of the collector

ASSUME MonitorAssumption ==
  /\ None \notin Threads /\ IsFiniteSet(Threads)
  /\ kThinLockMaxCount \in Nat
  /\ Hashes \subseteq Nat \ {0}
  /\ MaxCalls \in Nat
  /\ MaxInterrupts \in Nat
  /\ MaxPauses \in Nat

VARIABLES
  lock_word,           \* of the object
  owner_, lock_count_, num_waiters_, wait_set_, hash_code_,  \* the Monitor
  listed,              \* the Monitor is in the MonitorList
  allow_new_monitors_,
  pc, op,              \* where a thread is, and in which call
  lw,                  \* its local lock_word
  m,                   \* the Monitor it is constructing, and for which owner
  suspend_count,
  prev_lock_count,     \* local of Monitor::Wait
  wait_monitor_,       \* is Thread::wait_monitor_ set
  interrupted_, was_interrupted,
  returned,            \* history: the values IdentityHashCode returned
  calls, interrupts, pauses    \* the bounds' counters

word == <<lock_word, listed, allow_new_monitors_>>
fat == <<owner_, lock_count_, num_waiters_, wait_set_, hash_code_>>
locals == <<op, lw, m>>
waiting == <<prev_lock_count, wait_monitor_, interrupted_, was_interrupted>>
counters == <<calls, interrupts, pauses>>
vars == <<word, fat, pc, locals, suspend_count, waiting, returned, counters>>

-----------------------------------------------------------------------------
(* The states of a lock word.                                              *)

Unlocked == [state |-> "unlocked", owner |-> None, count |-> 0, hash |-> 0]
FromThinLockId(t, n) == [Unlocked EXCEPT !.state = "thin", !.owner = t, !.count = n]
FromHashCode(h) == [Unlocked EXCEPT !.state = "hash", !.hash = h]
Fat == [Unlocked EXCEPT !.state = "fat"]

Ops == {"enter", "exit", "wait", "notify", "notifyAll", "hash"}

\* Where a thread inflates: on its own behalf it is Runnable, on behalf of a
\* suspended owner it is kBlocked.
Inflating == {"install", "cas", "add", "added"}
ForOther(t) == m[t].owner \notin {t, None}

\* The thread states in which a thread counts as suspended.  "idle" is
\* managed code, which polls for suspension.
AtSuspendPoint(t) ==
  \/ pc[t] \in {"idle", "blocked", "suspend", "suspending", "check", "resume", "unblock",
                "contend", "contender", "woken", "waiting", "signaled", "waited"}
  \/ pc[t] \in Inflating /\ ForOther(t)
MayRun(t) == suspend_count[t] = 0
IsSuspended(t) == suspend_count[t] > 0 /\ AtSuspendPoint(t)

Init ==
  /\ lock_word = Unlocked
  /\ owner_ = None /\ lock_count_ = 0 /\ num_waiters_ = 0
  /\ wait_set_ = <<>> /\ hash_code_ = 0
  /\ listed = FALSE /\ allow_new_monitors_ = TRUE
  /\ pc = [t \in Threads |-> "idle"]
  /\ op = [t \in Threads |-> "exit"]
  /\ lw = [t \in Threads |-> Unlocked]
  /\ m = [t \in Threads |-> [owner |-> None, count |-> 0, hash |-> 0]]
  /\ suspend_count = [t \in Threads |-> 0]
  /\ prev_lock_count = [t \in Threads |-> 0]
  /\ wait_monitor_ = [t \in Threads |-> FALSE]
  /\ interrupted_ = [t \in Threads |-> FALSE]
  /\ was_interrupted = [t \in Threads |-> FALSE]
  /\ returned = {}
  /\ calls = 0
  /\ interrupts = 0
  /\ pauses = 0

-----------------------------------------------------------------------------
(* A call begins by reading the lock word; Continue goes round the loop of *)
(* MonitorEnter and IdentityHashCode, or on after the inflation in Wait.   *)

Holds(t) == \/ lock_word.state = "thin" /\ lock_word.owner = t
            \/ lock_word.state = "fat" /\ owner_ = t

Call(t, o) ==
  /\ pc[t] = "idle" /\ MayRun(t)
  /\ IF o = "exit" /\ Holds(t) THEN UNCHANGED calls
     ELSE calls < MaxCalls /\ calls' = calls + 1
  /\ pc' = [pc EXCEPT ![t] = o]
  /\ op' = [op EXCEPT ![t] = o]
  /\ lw' = [lw EXCEPT ![t] = lock_word]
  /\ UNCHANGED <<word, fat, m, suspend_count, waiting, returned, interrupts, pauses>>

Goto(t, l) == pc' = [pc EXCEPT ![t] = l]

\* Constructing a Monitor for owner o (None: the object is hashed, unlocked).
NewMonitor(t, o, h) == m' = [m EXCEPT ![t] = [owner |-> o, count |-> 0, hash |-> h]]

\* A call's locals end with it.
DropLocals(t) ==
  /\ op' = [op EXCEPT ![t] = "exit"]
  /\ lw' = [lw EXCEPT ![t] = Unlocked]
  /\ NewMonitor(t, None, 0)

Return(t) == Goto(t, "idle") /\ DropLocals(t)

Continue(t) ==
  /\ Goto(t, op[t])
  /\ lw' = [lw EXCEPT ![t] = lock_word]
  /\ NewMonitor(t, None, 0)
  /\ UNCHANGED op

\* InflateThinLocked: at once when t itself is the owner, else by suspending
\* the owner, for which t goes to kBlocked.
InflateThinLocked(t, h) ==
  /\ NewMonitor(t, lw[t].owner, h)
  /\ Goto(t, IF lw[t].owner = t THEN "install" ELSE "blocked")
  /\ UNCHANGED <<op, lw>>

-----------------------------------------------------------------------------
(* MonitorEnter, by the state the lock word was read in.                   *)

EnterUnlocked(t) ==
  /\ pc[t] = "enter" /\ lw[t].state = "unlocked"
  /\ IF lock_word = lw[t] THEN lock_word' = FromThinLockId(t, 0) /\ Return(t)
                          ELSE Continue(t) /\ UNCHANGED lock_word
  /\ UNCHANGED <<listed, allow_new_monitors_, fat, suspend_count, waiting, returned, counters>>

\* The owner stores the new count without a compare-and-swap.
EnterRecursive(t) ==
  /\ pc[t] = "enter" /\ lw[t].state = "thin" /\ lw[t].owner = t
  /\ LET new_count == lw[t].count + 1 IN
     IF new_count <= kThinLockMaxCount
     THEN lock_word' = FromThinLockId(t, new_count) /\ Return(t)
     ELSE InflateThinLocked(t, 0) /\ UNCHANGED lock_word
  /\ UNCHANGED <<listed, allow_new_monitors_, fat, suspend_count, waiting, returned, counters>>

\* Somebody else's thin lock: sleep and look again, or inflate it.
EnterContended(t) ==
  /\ pc[t] = "enter" /\ lw[t].state = "thin" /\ lw[t].owner # t
  /\ \/ Continue(t)
     \/ InflateThinLocked(t, 0)
  /\ UNCHANGED <<word, fat, suspend_count, waiting, returned, counters>>

EnterFat(t) ==
  /\ pc[t] = "enter" /\ lw[t].state = "fat"
  /\ Goto(t, "lock")
  /\ lw' = [lw EXCEPT ![t] = Unlocked]
  /\ UNCHANGED <<word, fat, op, m, suspend_count, waiting, returned, counters>>

\* Faulty: the new Monitor does not take the hash code over.
EnterHashedAnew(t) ==
  /\ pc[t] = "enter" /\ lw[t].state = "hash"
  /\ NewMonitor(t, None, 0)
  /\ Goto(t, "install")
  /\ UNCHANGED <<word, fat, op, lw, suspend_count, waiting, returned, counters>>

EnterHashed(t) ==
  /\ pc[t] = "enter" /\ lw[t].state = "hash"
  /\ NewMonitor(t, None, lw[t].hash)
  /\ Goto(t, "install")
  /\ UNCHANGED <<word, fat, op, lw, suspend_count, waiting, returned, counters>>

-----------------------------------------------------------------------------
(* Object::IdentityHashCode.                                               *)

HashUnlocked(t) ==
  /\ pc[t] = "hash" /\ lw[t].state = "unlocked"
  /\ IF lock_word = lw[t]
     THEN \E h \in Hashes : /\ lock_word' = FromHashCode(h)
                            /\ returned' = returned \cup {h}
                            /\ Return(t)
     ELSE Continue(t) /\ UNCHANGED <<lock_word, returned>>
  /\ UNCHANGED <<listed, allow_new_monitors_, fat, suspend_count, waiting, counters>>

HashThin(t) ==
  /\ pc[t] = "hash" /\ lw[t].state = "thin"
  /\ \E h \in Hashes : InflateThinLocked(t, h)
  /\ UNCHANGED <<word, fat, suspend_count, waiting, returned, counters>>

\* Monitor::GetHashCode, which sets the code of a monitor that has none.
HashFat(t) ==
  /\ pc[t] = "hash" /\ lw[t].state = "fat"
  /\ \E h \in Hashes : hash_code_' = IF hash_code_ = 0 THEN h ELSE hash_code_
  /\ returned' = returned \cup {hash_code_'}
  /\ Return(t)
  /\ UNCHANGED <<word, owner_, lock_count_, num_waiters_, wait_set_, suspend_count,
                 waiting, counters>>

HashHashed(t) ==
  /\ pc[t] = "hash" /\ lw[t].state = "hash"
  /\ returned' = returned \cup {lw[t].hash}
  /\ Return(t)
  /\ UNCHANGED <<word, fat, suspend_count, waiting, counters>>

-----------------------------------------------------------------------------
(* InflateThinLocked for another owner, in kBlocked.  SuspendThreadById is *)
(* taken at its promise (module SuspendThread): it returns with the owner  *)
(* suspended or, having timed out, with its request withdrawn.             *)

CompareLockWord(t) ==
  /\ pc[t] = "blocked"
  /\ Goto(t, IF lock_word = lw[t] THEN "suspend" ELSE "unblock")
  /\ UNCHANGED <<word, fat, locals, suspend_count, waiting, returned, counters>>

RequestSuspension(t) ==
  /\ pc[t] = "suspend" /\ MayRun(t)
  /\ suspend_count' = [suspend_count EXCEPT ![m[t].owner] = @ + 1]
  /\ Goto(t, "suspending")
  /\ UNCHANGED <<word, fat, locals, waiting, returned, counters>>

OwnerSuspended(t) ==
  /\ pc[t] = "suspending" /\ MayRun(t) /\ IsSuspended(m[t].owner)
  /\ Goto(t, "check")
  /\ UNCHANGED <<word, fat, locals, suspend_count, waiting, returned, counters>>

SuspensionTimedOut(t) ==
  /\ pc[t] = "suspending" /\ MayRun(t) /\ ~IsSuspended(m[t].owner)
  /\ suspend_count' = [suspend_count EXCEPT ![m[t].owner] = @ - 1]
  /\ Goto(t, "unblock")
  /\ UNCHANGED <<word, fat, locals, waiting, returned, counters>>

CheckLockWord(t) ==
  /\ pc[t] = "check"
  /\ Goto(t, IF lock_word.state = "thin" /\ lock_word.owner = m[t].owner
             THEN "install" ELSE "resume")
  /\ UNCHANGED <<word, fat, locals, suspend_count, waiting, returned, counters>>

ResumeOwner(t) ==
  /\ pc[t] = "resume"
  /\ suspend_count' = [suspend_count EXCEPT ![m[t].owner] = @ - 1]
  /\ Goto(t, "unblock")
  /\ UNCHANGED <<word, fat, locals, waiting, returned, counters>>

LeaveBlocked(t) ==
  /\ pc[t] = "unblock" /\ MayRun(t)
  /\ Continue(t)
  /\ UNCHANGED <<word, fat, suspend_count, waiting, returned, counters>>

-----------------------------------------------------------------------------
(* Inflate: Install reads the lock word, copies its state and swaps it;    *)
(* the loser of a race throws its Monitor away.  The winner adds it to the *)
(* MonitorList.                                                            *)

Inflated(t) == IF ForOther(t) THEN Goto(t, "resume") /\ UNCHANGED locals ELSE Continue(t)

\* Faulty: the recursion count of the thin lock is not copied.
InstallUncounted(t) ==
  /\ pc[t] = "install" /\ lock_word.state \in {"thin", "hash"}
  /\ lw' = [lw EXCEPT ![t] = lock_word]
  /\ Goto(t, "cas")
  /\ UNCHANGED <<word, fat, op, m, suspend_count, waiting, returned, counters>>

Install(t) ==
  /\ pc[t] = "install" /\ lock_word.state \in {"thin", "hash"}
  /\ lw' = [lw EXCEPT ![t] = lock_word]
  /\ m' = [m EXCEPT ![t].count = lock_word.count]
  /\ Goto(t, "cas")
  /\ UNCHANGED <<word, fat, op, suspend_count, waiting, returned, counters>>

InstallBeaten(t) ==
  /\ \/ pc[t] = "install" /\ lock_word.state = "fat"
     \/ pc[t] = "cas" /\ lock_word # lw[t]
  /\ Inflated(t)
  /\ UNCHANGED <<word, fat, suspend_count, waiting, returned, counters>>

CasLockWord(t) ==
  /\ pc[t] = "cas" /\ lock_word = lw[t]
  /\ lock_word' = Fat
  /\ owner_' = m[t].owner /\ lock_count_' = m[t].count /\ hash_code_' = m[t].hash
  /\ num_waiters_' = 0 /\ wait_set_' = <<>>
  /\ Goto(t, "add")
  /\ UNCHANGED <<listed, allow_new_monitors_, locals, suspend_count, waiting, returned, counters>>

Add(t) ==
  /\ pc[t] = "add" /\ allow_new_monitors_
  /\ listed' = TRUE
  /\ Goto(t, "added")
  /\ UNCHANGED <<lock_word, allow_new_monitors_, fat, locals, suspend_count, waiting, returned,
                 counters>>

\* The CHECK_EQ after Add, and back to the caller.
Added(t) ==
  /\ pc[t] = "added"
  /\ Inflated(t)
  /\ UNCHANGED <<word, fat, suspend_count, waiting, returned, counters>>

-----------------------------------------------------------------------------
(* Monitor::Lock and Unlock.  Lock is entered by MonitorEnter and, at the  *)
(* end of a wait, by Monitor::Wait, which goes on at "rewait".             *)

Locked(t) == IF op[t] = "wait" THEN Goto(t, "rewait") /\ UNCHANGED locals ELSE Return(t)

\* One turn of Lock's loop, with w threads counted in num_waiters_.
LockTurn(t, w) ==
  \/ /\ owner_ = None
     /\ owner_' = t
     /\ num_waiters_' = w /\ UNCHANGED lock_count_
     /\ Locked(t)
  \/ /\ owner_ = t
     /\ lock_count_' = lock_count_ + 1
     /\ num_waiters_' = w /\ UNCHANGED owner_
     /\ Locked(t)
  \/ /\ owner_ \notin {None, t}
     /\ num_waiters_' = w + 1 /\ UNCHANGED <<owner_, lock_count_>>
     /\ Goto(t, "contend") /\ UNCHANGED locals

Lock(t) ==
  /\ pc[t] = "lock"
  /\ LockTurn(t, num_waiters_)
  /\ UNCHANGED <<word, wait_set_, hash_code_, suspend_count, waiting, returned, counters>>

\* Faulty: the thread sleeps without looking whether the lock was given up.
ContendUnchecked(t) ==
  /\ pc[t] = "contend"
  /\ Goto(t, "contender")
  /\ UNCHANGED <<word, fat, locals, suspend_count, waiting, returned, counters>>

\* kBlocked, holding monitor_lock_ again: did the owner give the lock up?
Contend(t) ==
  /\ pc[t] = "contend"
  /\ Goto(t, IF owner_ # None THEN "contender" ELSE "woken")
  /\ UNCHANGED <<word, fat, locals, suspend_count, waiting, returned, counters>>

BecomeRunnable(t) ==
  /\ pc[t] = "woken" /\ MayRun(t)
  /\ Goto(t, "relock")
  /\ UNCHANGED <<word, fat, locals, suspend_count, waiting, returned, counters>>

Relock(t) ==
  /\ pc[t] = "relock"
  /\ LockTurn(t, num_waiters_ - 1)
  /\ UNCHANGED <<word, wait_set_, hash_code_, suspend_count, waiting, returned, counters>>

\* monitor_contenders_.Signal, after the caller's own move to p.
SignalContender(p) ==
  LET sleeping == {c \in Threads : p[c] = "contender"} IN
  IF sleeping = {} THEN pc' = p ELSE \E c \in sleeping : pc' = [p EXCEPT ![c] = "woken"]

Unlock(t) ==
  IF lock_count_ = 0
  THEN /\ owner_' = None /\ UNCHANGED lock_count_
       /\ SignalContender([pc EXCEPT ![t] = "idle"])
  ELSE /\ lock_count_' = lock_count_ - 1 /\ UNCHANGED owner_
       /\ Goto(t, "idle")

\* A futex wait may also end by itself.
ContenderWakes(t) ==
  /\ pc[t] = "contender"
  /\ Goto(t, "woken")
  /\ UNCHANGED <<word, fat, locals, suspend_count, waiting, returned, counters>>

-----------------------------------------------------------------------------
(* MonitorExit: a plain store for a thin lock.                             *)

ExitThin(t) ==
  /\ pc[t] = "exit" /\ lw[t].state = "thin" /\ lw[t].owner = t
  /\ lock_word' = IF lw[t].count # 0 THEN FromThinLockId(t, lw[t].count - 1) ELSE Unlocked
  /\ Return(t)
  /\ UNCHANGED <<listed, allow_new_monitors_, fat, suspend_count, waiting, returned, counters>>

ExitFat(t) ==
  /\ pc[t] = "exit" /\ lw[t].state = "fat" /\ owner_ = t
  /\ Unlock(t)
  /\ DropLocals(t)
  /\ UNCHANGED <<word, num_waiters_, wait_set_, hash_code_, suspend_count, waiting, returned,
                 counters>>

\* MonitorExit, Wait and DoNotify by a thread that does not own the lock
\* throw IllegalMonitorStateException and change nothing.
NotOwner(t) ==
  /\ pc[t] \in {"exit", "wait", "notify", "notifyAll"}
  /\ \/ lw[t].state \in {"unlocked", "hash"}
     \/ lw[t].state = "thin" /\ lw[t].owner # t
     \/ lw[t].state = "fat" /\ owner_ # t
  /\ Return(t)
  /\ UNCHANGED <<word, fat, suspend_count, waiting, returned, counters>>

-----------------------------------------------------------------------------
(* Object.wait, notify and interrupt.  A waiter appends itself to the wait *)
(* set, gives the lock up and sets wait_monitor_ before it lets go of its  *)
(* wait_mutex_ to sleep; it leaves the wait set only when it owns the lock *)
(* again.                                                                  *)

WaitThin(t) ==
  /\ pc[t] = "wait" /\ lw[t].state = "thin" /\ lw[t].owner = t
  /\ NewMonitor(t, t, 0)
  /\ Goto(t, "install")
  /\ UNCHANGED <<word, fat, op, lw, suspend_count, waiting, returned, counters>>

\* Faulty: the thread sleeps without looking at interrupted_.
WaitUninterruptibly(t) ==
  /\ pc[t] = "wait" /\ lw[t].state = "fat" /\ owner_ = t
  /\ wait_set_' = Append(wait_set_, t)
  /\ num_waiters_' = num_waiters_ + 1
  /\ prev_lock_count' = [prev_lock_count EXCEPT ![t] = lock_count_]
  /\ lock_count_' = 0 /\ owner_' = None
  /\ wait_monitor_' = [wait_monitor_ EXCEPT ![t] = TRUE]
  /\ SignalContender([pc EXCEPT ![t] = "waiting"])
  /\ lw' = [lw EXCEPT ![t] = Unlocked]
  /\ UNCHANGED <<word, hash_code_, op, m, suspend_count, interrupted_, was_interrupted, returned,
                 counters>>

Wait(t) ==
  /\ pc[t] = "wait" /\ lw[t].state = "fat" /\ owner_ = t
  /\ wait_set_' = Append(wait_set_, t)
  /\ num_waiters_' = num_waiters_ + 1
  /\ prev_lock_count' = [prev_lock_count EXCEPT ![t] = lock_count_]
  /\ lock_count_' = 0
  /\ owner_' = None
  /\ wait_monitor_' = [wait_monitor_ EXCEPT ![t] = TRUE]
  /\ SignalContender([pc EXCEPT ![t] = IF interrupted_[t] THEN "waited" ELSE "waiting"])
  /\ was_interrupted' = [was_interrupted EXCEPT ![t] = interrupted_[t]]
  /\ lw' = [lw EXCEPT ![t] = Unlocked]
  /\ UNCHANGED <<word, hash_code_, op, m, suspend_count, interrupted_, returned, counters>>

\* "timeout arguments out of range": IllegalArgumentException, after the lock
\* has been inflated for the wait, and the caller still holds it.
TimeoutOutOfRange(t) ==
  /\ pc[t] = "wait" /\ lw[t].state = "fat" /\ owner_ = t
  /\ Return(t)
  /\ UNCHANGED <<word, fat, suspend_count, waiting, returned, counters>>

\* The timeout of a timed wait, or a futex wait that ends by itself.
WaitTimesOut(t) ==
  /\ pc[t] = "waiting"
  /\ Goto(t, "signaled")
  /\ UNCHANGED <<word, fat, locals, suspend_count, waiting, returned, counters>>

\* Back from wait_cond_ with wait_mutex_ held.
WakeUp(t) ==
  /\ pc[t] = "signaled"
  /\ was_interrupted' = [was_interrupted EXCEPT ![t] = interrupted_[t]]
  /\ interrupted_' = [interrupted_ EXCEPT ![t] = FALSE]
  /\ Goto(t, "waited")
  /\ UNCHANGED <<word, fat, locals, suspend_count, prev_lock_count, wait_monitor_, returned, counters>>

EndWait(t) ==
  /\ pc[t] = "waited" /\ MayRun(t)
  /\ wait_monitor_' = [wait_monitor_ EXCEPT ![t] = FALSE]
  /\ Goto(t, "lock")
  /\ UNCHANGED <<word, fat, locals, suspend_count, prev_lock_count, interrupted_, was_interrupted,
                 returned, counters>>

\* Unlinks the thread, if it is still linked.
RemoveFromWaitSet(t) ==
  LET at == {i \in DOMAIN wait_set_ : wait_set_[i] = t} IN
  \/ at = {} /\ UNCHANGED wait_set_
  \/ \E i \in at :
       /\ \A j \in at : i <= j
       /\ wait_set_' = SubSeq(wait_set_, 1, i - 1) \o SubSeq(wait_set_, i + 1, Len(wait_set_))

Rewait(t) ==
  /\ pc[t] = "rewait"
  /\ owner_' = t
  /\ lock_count_' = prev_lock_count[t]
  /\ num_waiters_' = num_waiters_ - 1
  /\ RemoveFromWaitSet(t)
  /\ interrupted_' = [interrupted_ EXCEPT ![t] = @ /\ ~was_interrupted[t]]
  /\ was_interrupted' = [was_interrupted EXCEPT ![t] = FALSE]
  /\ prev_lock_count' = [prev_lock_count EXCEPT ![t] = 0]
  /\ Return(t)
  /\ UNCHANGED <<word, hash_code_, suspend_count, wait_monitor_, returned, counters>>

\* NotifyLocked on the threads of S, for their wait_cond_, when t goes on to l.
WaitCondSignal(S, t, l) ==
  pc' = [u \in Threads |-> IF u \in S /\ wait_monitor_[u] /\ pc[u] = "waiting" THEN "signaled"
                           ELSE IF u = t THEN l ELSE pc[u]]

DoNotifyThin(t) ==
  /\ pc[t] \in {"notify", "notifyAll"} /\ lw[t].state = "thin" /\ lw[t].owner = t
  /\ Return(t)
  /\ UNCHANGED <<word, fat, suspend_count, waiting, returned, counters>>

\* Takes threads off the wait set up to the first that is still waiting.
Notify(t) ==
  /\ pc[t] = "notify" /\ lw[t].state = "fat" /\ owner_ = t
  /\ LET still == {i \in DOMAIN wait_set_ : wait_monitor_[wait_set_[i]]} IN
     \/ /\ still = {}
        /\ wait_set_' = <<>>
        /\ Goto(t, "idle")
     \/ \E i \in still :
          /\ \A j \in still : i <= j
          /\ wait_set_' = SubSeq(wait_set_, i + 1, Len(wait_set_))
          /\ WaitCondSignal({wait_set_[i]}, t, "idle")
  /\ DropLocals(t)
  /\ UNCHANGED <<word, owner_, lock_count_, num_waiters_, hash_code_, suspend_count, waiting,
                 returned, counters>>

NotifyAll(t) ==
  /\ pc[t] = "notifyAll" /\ lw[t].state = "fat" /\ owner_ = t
  /\ wait_set_' = <<>>
  /\ WaitCondSignal({wait_set_[i] : i \in DOMAIN wait_set_}, t, "idle")
  /\ DropLocals(t)
  /\ UNCHANGED <<word, owner_, lock_count_, num_waiters_, hash_code_, suspend_count, waiting,
                 returned, counters>>

\* Thread::Interrupt by some other thread, at any time.
Interrupt(u) ==
  /\ ~interrupted_[u] /\ interrupts < MaxInterrupts
  /\ interrupts' = interrupts + 1
  /\ interrupted_' = [interrupted_ EXCEPT ![u] = TRUE]
  /\ WaitCondSignal({u}, None, "idle")
  /\ UNCHANGED <<word, fat, locals, suspend_count, prev_lock_count, wait_monitor_, was_interrupted,
                 returned, calls, pauses>>

-----------------------------------------------------------------------------
(* The collector's side: DeflateMonitors in a pause, and the stretch in    *)
(* which new monitors may not be added to the list (begun in a pause).     *)

Paused == \A t \in Threads : AtSuspendPoint(t)

\* Faulty: threads that wait or contend do not keep the Monitor.
DeflateContended ==
  /\ Paused /\ pauses < MaxPauses
  /\ pauses' = pauses + 1
  /\ listed /\ lock_word.state = "fat"
  /\ owner_ # None => hash_code_ = 0 /\ lock_count_ <= kThinLockMaxCount
  /\ lock_word' = IF owner_ # None THEN FromThinLockId(owner_, lock_count_)
                  ELSE IF hash_code_ # 0 THEN FromHashCode(hash_code_) ELSE Unlocked
  /\ listed' = FALSE
  /\ owner_' = None /\ lock_count_' = 0 /\ wait_set_' = <<>> /\ hash_code_' = 0
  /\ UNCHANGED <<allow_new_monitors_, num_waiters_, pc, locals, suspend_count, waiting, returned,
                 calls, interrupts>>

Deflate ==
  /\ Paused /\ pauses < MaxPauses
  /\ pauses' = pauses + 1
  /\ listed /\ lock_word.state = "fat"
  /\ num_waiters_ = 0
  /\ owner_ # None => hash_code_ = 0 /\ lock_count_ <= kThinLockMaxCount
  /\ lock_word' = IF owner_ # None THEN FromThinLockId(owner_, lock_count_)
                  ELSE IF hash_code_ # 0 THEN FromHashCode(hash_code_) ELSE Unlocked
  /\ listed' = FALSE
  /\ owner_' = None /\ lock_count_' = 0 /\ wait_set_' = <<>> /\ hash_code_' = 0
  /\ UNCHANGED <<allow_new_monitors_, num_waiters_, pc, locals, suspend_count, waiting, returned,
                 calls, interrupts>>

DisallowNewMonitors ==
  /\ Paused /\ allow_new_monitors_ /\ pauses < MaxPauses
  /\ allow_new_monitors_' = FALSE
  /\ pauses' = pauses + 1
  /\ UNCHANGED <<lock_word, listed, fat, pc, locals, suspend_count, waiting, returned, calls,
                 interrupts>>

AllowNewMonitors ==
  /\ ~allow_new_monitors_
  /\ allow_new_monitors_' = TRUE
  /\ UNCHANGED <<lock_word, listed, fat, pc, locals, suspend_count, waiting, returned, counters>>

-----------------------------------------------------------------------------
\* What a thread in a call does next.
Step(t) ==
  \/ EnterUnlocked(t) \/ EnterRecursive(t) \/ EnterContended(t) \/ EnterFat(t) \/ EnterHashed(t)
  \/ HashUnlocked(t) \/ HashThin(t) \/ HashFat(t) \/ HashHashed(t)
  \/ CompareLockWord(t) \/ RequestSuspension(t) \/ OwnerSuspended(t) \/ SuspensionTimedOut(t)
  \/ CheckLockWord(t) \/ ResumeOwner(t) \/ LeaveBlocked(t)
  \/ Install(t) \/ InstallBeaten(t) \/ CasLockWord(t) \/ Add(t) \/ Added(t)
  \/ Lock(t) \/ Contend(t) \/ BecomeRunnable(t) \/ Relock(t)
  \/ ExitThin(t) \/ ExitFat(t) \/ NotOwner(t)
  \/ WaitThin(t) \/ Wait(t) \/ TimeoutOutOfRange(t) \/ WakeUp(t) \/ EndWait(t) \/ Rewait(t)
  \/ DoNotifyThin(t) \/ Notify(t) \/ NotifyAll(t)

Next ==
  \/ \E t \in Threads :
       \/ \E o \in Ops : Call(t, o)
       \/ Step(t)
       \/ ContenderWakes(t) \/ WaitTimesOut(t)
       \/ Interrupt(t)
  \/ Deflate \/ DisallowNewMonitors \/ AllowNewMonitors

\* A thread in a call keeps running, an owner in the end unlocks, and the
\* collector allows new monitors again.
Spec ==
  /\ Init /\ [][Next]_vars
  /\ \A t \in Threads : WF_vars(Step(t)) /\ WF_vars(Holds(t) /\ Call(t, "exit"))
  /\ WF_vars(AllowNewMonitors)

-----------------------------------------------------------------------------
(* Properties.                                                             *)

Pcs == Ops \cup Inflating \cup
       {"idle", "blocked", "suspend", "suspending", "check", "resume", "unblock", "lock",
        "contend", "contender", "woken", "relock", "waiting", "signaled", "waited", "rewait"}

LockWords == [state : {"unlocked", "thin", "fat", "hash"}, owner : Threads \cup {None},
              count : Nat, hash : Nat]

\* The type invariant.
TypeOK ==
  /\ lock_word \in LockWords
  /\ owner_ \in Threads \cup {None} /\ lock_count_ \in Nat /\ num_waiters_ \in Nat
  /\ wait_set_ \in Seq(Threads) /\ hash_code_ \in Nat
  /\ listed \in BOOLEAN /\ allow_new_monitors_ \in BOOLEAN
  /\ pc \in [Threads -> Pcs] /\ op \in [Threads -> Ops]
  /\ lw \in [Threads -> LockWords]
  /\ m \in [Threads -> [owner : Threads \cup {None}, count : Nat, hash : Nat]]
  /\ suspend_count \in [Threads -> Nat]
  /\ prev_lock_count \in [Threads -> Nat]
  /\ wait_monitor_ \in [Threads -> BOOLEAN]
  /\ interrupted_ \in [Threads -> BOOLEAN] /\ was_interrupted \in [Threads -> BOOLEAN]
  /\ returned \subseteq Nat
  /\ calls \in Nat /\ interrupts \in Nat /\ pauses \in Nat

\* A thread that gave the lock up in Object.wait and does not have it back.
Waiter(t) ==
  \/ pc[t] \in {"waiting", "signaled", "waited"}
  \/ op[t] = "wait" /\ pc[t] \in {"lock", "contend", "contender", "woken", "relock"}

holder == CASE lock_word.state = "thin" -> lock_word.owner
            [] lock_word.state = "fat" -> owner_
            [] OTHER -> None
depth == IF holder = None THEN 0
         ELSE IF lock_word.state = "thin" THEN lock_word.count + 1
         ELSE IF pc[holder] = "rewait" THEN prev_lock_count[holder] + 1
         ELSE lock_count_ + 1
saved == [t \in Threads |-> IF Waiter(t) THEN prev_lock_count[t] + 1 ELSE 0]
call == [t \in Threads |-> CASE pc[t] = "idle" -> "none"
                             [] Waiter(t) -> "waiting"
                             [] pc[t] = "rewait" -> "return"
                             [] OTHER -> op[t]]

Java == INSTANCE JavaLock

\* Whatever the lock word goes through (thin, inflated by the owner, by a
\* contender or for a hash code, deflated), the lock keeps its holder and
\* its recursion count: nobody enters, leaves or loses an entry but by one
\* call of MonitorEnter, MonitorExit or Wait.  MonitorExit is refused only to a
\* thread that does not hold the lock, and a call that is refused, for that or
\* for its timeout, leaves every entry as it is.
ImplementsJavaLock == Java!Spec

\* The threads that hold a pointer to the Monitor or sleep on it.
InMonitor(t) ==
  \/ pc[t] \in {"lock", "contend", "contender", "woken", "relock",
                "waiting", "signaled", "waited", "rewait"}
  \/ pc[t] \in Ops /\ lw[t].state = "fat"

\* The Monitor a thread uses is the object's Monitor: Deflate deletes it, and
\* a plain store to the lock word drops it, only when nobody is inside.
MonitorStaysWhileUsed == \A t \in Threads : InMonitor(t) => lock_word.state = "fat"

\* IdentityHashCode returns the same value to everybody, for ever.
HashNeverChanges == Cardinality(returned) <= 1

\* A thread asleep in Object.wait can be woken: Notify and NotifyAll find it
\* in the wait set and see its wait_monitor_, and no interrupt is waiting for
\* it to wake up by itself.
SleeperIsReachable ==
  \A t \in Threads :
    pc[t] = "waiting" => /\ \E i \in DOMAIN wait_set_ : wait_set_[i] = t
                         /\ wait_monitor_[t] /\ ~interrupted_[t]

\* A thread that calls MonitorEnter, or comes back from Object.wait, gets the
\* lock in the end, as owners unlock in the end: no wake-up of
\* monitor_contenders_ is lost, and no inflation gets stuck.
Entering(t) == pc[t] # "idle" /\ pc[t] # "waiting"
EveryEnterReturns == \A t \in Threads : Entering(t) ~> ~Entering(t)

=============================================================================
