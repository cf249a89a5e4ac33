----------------------------- MODULE Monitors -----------------------------
(***************************************************************************)
(* What a Java monitor promises: it is held by one thread at a time, as    *)
(* often as that thread entered it, is given up whole by Object.wait() and *)
(* taken back whole when that returns.                                     *)
(***************************************************************************)
EXTENDS Naturals

CONSTANTS Threads, Objects

VARIABLES held, \* how many times each thread is in each monitor
          kept  \* what a thread in Object.wait() gave up, and will get back

Free(o) == \A t \in Threads : held[t][o] = 0

Init ==
  /\ held = [t \in Threads |-> [o \in Objects |-> 0]]
  /\ kept = [t \in Threads |-> 0]

Enter(t, o) ==
  /\ \A u \in Threads \ {t} : held[u][o] = 0
  /\ held' = [held EXCEPT ![t][o] = @ + 1]
  /\ UNCHANGED kept

Exit(t, o) ==
  /\ held[t][o] > 0
  /\ held' = [held EXCEPT ![t][o] = @ - 1]
  /\ UNCHANGED kept

StartWait(t, o) ==
  /\ held[t][o] > 0
  /\ kept[t] = 0
  /\ kept' = [kept EXCEPT ![t] = held[t][o]]
  /\ held' = [held EXCEPT ![t][o] = 0]

EndWait(t, o) ==
  /\ kept[t] > 0
  /\ Free(o)
  /\ held' = [held EXCEPT ![t][o] = kept[t]]
  /\ kept' = [kept EXCEPT ![t] = 0]

Next == \E t \in Threads, o \in Objects :
  Enter(t, o) \/ Exit(t, o) \/ StartWait(t, o) \/ EndWait(t, o)

vars == <<held, kept>>

Spec == Init /\ [][Next]_vars

=============================================================================
