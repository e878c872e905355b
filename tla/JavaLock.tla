------------------------------ MODULE JavaLock ------------------------------
(***************************************************************************)
(* What the lock of an object promises a Java program: one holder, that    *)
(* may enter again and must exit as often as it entered; Object.wait gives *)
(* all of the holder's entries up at once and restores them before it      *)
(* returns; only a call changes the lock, each at most once.  Exit is      *)
(* refused to nobody but the threads that do not hold the lock, and so is  *)
(* wait unless its timeout is out of range; a call that is refused leaves  *)
(* the lock and its entries as they are.  How the lock is stored, and when *)
(* it is inflated or deflated, cannot be seen.                             *)
(***************************************************************************)
EXTENDS Naturals

CONSTANTS Threads, None, Ops

VARIABLES holder, depth,
          saved,   \* saved[t]: the entries t gave up in Object.wait
          call     \* call[t]: the call t is in, "waiting" and "return" in Object.wait

vars == <<holder, depth, saved, call>>

Init == /\ holder = None /\ depth = 0
        /\ saved = [t \in Threads |-> 0]
        /\ call = [t \in Threads |-> "none"]

Become(t, c) == call' = [call EXCEPT ![t] = c]

Begin(t, o) ==
  /\ call[t] = "none"
  /\ Become(t, o)
  /\ UNCHANGED <<holder, depth, saved>>

Enter(t) ==
  /\ call[t] = "enter" /\ holder \in {None, t}
  /\ holder' = t
  /\ depth' = depth + 1
  /\ Become(t, "none")
  /\ UNCHANGED saved

Exit(t) ==
  /\ call[t] = "exit" /\ holder = t
  /\ depth' = depth - 1
  /\ holder' = IF depth = 1 THEN None ELSE t
  /\ Become(t, "none")
  /\ UNCHANGED saved

Wait(t) ==
  /\ call[t] = "wait" /\ holder = t
  /\ saved' = [saved EXCEPT ![t] = depth]
  /\ holder' = None
  /\ depth' = 0
  /\ Become(t, "waiting")

EndWait(t) ==
  /\ call[t] = "waiting" /\ holder = None
  /\ holder' = t
  /\ depth' = saved[t]
  /\ saved' = [saved EXCEPT ![t] = 0]
  /\ Become(t, "return")

\* A call that leaves the lock alone, or one that is refused: exit to a thread
\* that does not hold the lock (IllegalMonitorStateException), wait to such a
\* thread or for its arguments (IllegalArgumentException).
Return(t) ==
  /\ \/ call[t] \in {"return", "hash"}
     \/ call[t] \in {"notify", "notifyAll"}
     \/ call[t] = "exit" /\ holder # t
     \/ call[t] = "wait"
  /\ Become(t, "none")
  /\ UNCHANGED <<holder, depth, saved>>

Next == \E t \in Threads :
  \/ \E o \in Ops : Begin(t, o)
  \/ Enter(t) \/ Exit(t) \/ Wait(t) \/ EndWait(t) \/ Return(t)

Spec == Init /\ [][Next]_vars

=============================================================================
