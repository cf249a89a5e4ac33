----------------------------- MODULE SafePoint -----------------------------
(***************************************************************************)
(* What stopping the world promises to the collector, to Thread.suspend()  *)
(* and to the debug dump: threads run Java code as they please, but once   *)
(* the world is stopped the thread that stopped it runs Java code alone,   *)
(* until it lets the others go.                                            *)
(***************************************************************************)
CONSTANTS Threads, NoThread

VARIABLES running, \* the threads that may be touching the Java heap
          stopper  \* the thread that has the world stopped, or NoThread

Init ==
  /\ running \in SUBSET Threads
  /\ stopper = NoThread

\* A thread comes back from native code, from a halt, or is created.
Enter(t) ==
  /\ stopper = NoThread
  /\ running' = running \cup {t}
  /\ UNCHANGED stopper

\* A thread goes to native code, halts, or ends.
Leave(t) ==
  /\ t # stopper
  /\ running' = running \ {t}
  /\ UNCHANGED stopper

Stop(t) ==
  /\ stopper = NoThread
  /\ running = {t}
  /\ stopper' = t
  /\ UNCHANGED running

Resume ==
  /\ stopper # NoThread
  /\ stopper' = NoThread
  /\ UNCHANGED running

Next == Resume \/ \E t \in Threads : Enter(t) \/ Leave(t) \/ Stop(t)

vars == <<running, stopper>>

Safety == Init /\ [][Next]_vars

Spec == Safety /\ WF_vars(Resume)

=============================================================================
