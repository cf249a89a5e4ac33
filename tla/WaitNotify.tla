----------------------------- MODULE WaitNotify -----------------------------
(***************************************************************************)
(* Object.wait(), notify() and notifyAll() of java_lang_VMObject.c on one  *)
(* object, whose lock is fat, and Thread.interrupt(), stop() and           *)
(* interrupted().                                                          *)
(*                                                                         *)
(* A notification is a counter, which tells a waiter that there was one    *)
(* since it fell asleep, and a flag, which says who may take it.  Both are *)
(* under the mutex of the fat lock.  The interrupt status of a thread is   *)
(* not: the thread and its interrupter change it by compare-and-swap, and  *)
(* a read and the swap that relies on it are two steps here.               *)
(*                                                                         *)
(* How often the owner is in the monitor is left to module Monitor.        *)
(***************************************************************************)
EXTENDS Integers, FiniteSets

CONSTANTS
  Threads,
  Waiters,  \* those that may wait
  Callers,  \* those that may notify, interrupt and stop
  None,     \* no thread
  CountMod  \* notify_count is a jchar: 2^16 in the code

ASSUME WaitAssumption ==
  /\ None \notin Threads
  /\ Waiters \subseteq Threads
  /\ Callers \subseteq Threads
  /\ CountMod \in Nat \ {0, 1}

VARIABLES
  owner,         \* lock->u.owner, or None if recursion_count is 0
  mutex,         \* who keeps lock->mutex from one step to the next
  notifyCount,   \* lock->notify_count
  notifyWakeup,  \* lock->notify_wakeup: 1, or -1 for all, and 0 once taken
  status,        \* env->interrupt_status
  interruptible, \* whether env->interruptible_lock is set
  cross,         \* whether env->cross_exception is set
  pc,
  seen,          \* old_status
  recorded,      \* notify_count as it was when the thread fell asleep
  timed,         \* timed_wait
  late,          \* whether the wakeup time has passed
  interrupted,   \* interrupted, in wait()
  target,        \* whom a thread is interrupting
  notified       \* history: notified since the thread fell asleep

lock == <<owner, mutex, notifyCount, notifyWakeup>>
flags == <<status, interruptible, cross>>
locals == <<seen, recorded, timed, late, interrupted, target>>
vars == <<lock, flags, locals, pc, notified>>

Statuses == {"clear", "set", "interruptible", "interrupted"}

\* In wait(): on the way to sleep, with lock->mutex; sleeping or just woken
\* up; waiting for the monitor; on the way out.
Entering == {"wait", "swapIn", "sleep"}
Waiting  == {"asleep", "woken"}
Leaving  == {"resumed", "swapOut", "unlist"}
\* In _jc_thread_interrupt(), with vm->mutex.
Interrupting == {"interrupt", "swap", "signal", "broadcast"}
Pcs == {"java", "finished"} \cup Entering \cup Waiting \cup Leaving
         \cup Interrupting

Init ==
  /\ owner = None
  /\ mutex = None
  /\ notifyCount = 0
  /\ notifyWakeup = 0
  /\ status = [t \in Threads |-> "clear"]
  /\ interruptible = [t \in Threads |-> FALSE]
  /\ cross = [t \in Threads |-> FALSE]
  /\ pc = [t \in Threads |-> "java"]
  /\ seen = [t \in Threads |-> "clear"]
  /\ recorded = [t \in Threads |-> 0]
  /\ timed = [t \in Threads |-> FALSE]
  /\ late = [t \in Threads |-> FALSE]
  /\ interrupted = [t \in Threads |-> FALSE]
  /\ target = [t \in Threads |-> None]
  /\ notified = [t \in Threads |-> FALSE]

Goto(t, l) == pc' = [pc EXCEPT ![t] = l]

\* A broadcast on lock->notify.
WakeAll == [u \in Threads |-> IF pc[u] = "asleep" THEN "woken" ELSE pc[u]]

-----------------------------------------------------------------------------
(* The monitor *)

Lock(t) ==
  /\ pc[t] = "java"
  /\ mutex = None
  /\ owner = None
  /\ owner' = t
  /\ UNCHANGED <<mutex, notifyCount, notifyWakeup, flags, locals, pc,
                 notified>>

Unlock(t) ==
  /\ pc[t] = "java"
  /\ mutex = None
  /\ owner = t
  /\ owner' = None
  /\ UNCHANGED <<mutex, notifyCount, notifyWakeup, flags, locals, pc,
                 notified>>

-----------------------------------------------------------------------------
(* do_notify() *)

Notification(t, wakeup) ==
  /\ pc[t] = "java"
  /\ mutex = None
  /\ owner = t
  /\ notifyCount' = (notifyCount + 1) % CountMod
  /\ notifyWakeup' = wakeup
  /\ notified' = [u \in Threads |-> notified[u] \/ pc[u] \in Waiting]
  /\ UNCHANGED <<owner, mutex, flags, locals>>

\* The signal wakes one of those asleep, if there is one.
Notify(t) ==
  /\ Notification(t, 1)
  /\ \/ \E u \in Threads : pc[u] = "asleep" /\ Goto(u, "woken")
     \/ (\A u \in Threads : pc[u] # "asleep") /\ UNCHANGED pc

NotifyAll(t) ==
  /\ Notification(t, -1)
  /\ pc' = WakeAll

-----------------------------------------------------------------------------
(* wait() *)

\* Leave Java mode and give the monitor up.
Wait(t, withTimeout) ==
  /\ pc[t] = "java"
  /\ mutex = None
  /\ owner = t
  /\ owner' = None
  /\ mutex' = t
  /\ timed' = [timed EXCEPT ![t] = withTimeout]
  /\ Goto(t, "wait")
  /\ UNCHANGED <<notifyCount, notifyWakeup, flags, seen, recorded, late,
                 interrupted, target, notified>>

\* Mutant: the lock is not listed.
ReadStatusInUnlisted(t) ==
  /\ pc[t] = "wait"
  /\ seen' = [seen EXCEPT ![t] = status[t]]
  /\ Goto(t, "swapIn")
  /\ UNCHANGED <<lock, flags, recorded, timed, late, interrupted, target,
                 notified>>

\* The look at the interrupt status on the way in.
ReadStatusIn(t) ==
  /\ pc[t] = "wait"
  /\ seen' = [seen EXCEPT ![t] = status[t]]
  /\ interruptible' =
       [interruptible EXCEPT ![t] = @ \/ status[t] = "clear"]
  /\ Goto(t, "swapIn")
  /\ UNCHANGED <<lock, status, cross, recorded, timed, late, interrupted,
                 target, notified>>

\* The end of wait(): get the monitor back, at once or when it is free.
Finish(t) ==
  /\ IF owner = None THEN owner' = t /\ Goto(t, "resumed")
                     ELSE UNCHANGED owner /\ Goto(t, "finished")
  /\ mutex' = None

\* Fall asleep, or fall asleep again, which releases the mutex.
SleepOn(t) ==
  /\ Goto(t, "asleep")
  /\ mutex' = None
  /\ UNCHANGED owner

\* The thread declares itself interruptible, and will sleep; or it has been
\* interrupted before, and will not.
SwapIn(t) ==
  /\ pc[t] = "swapIn"
  /\ \/ /\ seen[t] = "clear"
        /\ status[t] = "clear"
        /\ status' = [status EXCEPT ![t] = "interruptible"]
        /\ Goto(t, "sleep")
        /\ UNCHANGED <<owner, mutex>>
     \/ /\ seen[t] = "clear"
        /\ status[t] # "clear"
        /\ Goto(t, "wait")
        /\ UNCHANGED <<owner, mutex, status>>
     \/ /\ seen[t] = "set"
        /\ status' = [status EXCEPT ![t] = "interrupted"]
        /\ Finish(t)
  /\ UNCHANGED <<notifyCount, notifyWakeup, interruptible, cross, locals,
                 notified>>

FallAsleep(t) ==
  /\ pc[t] = "sleep"
  /\ recorded' = [recorded EXCEPT ![t] = notifyCount]
  /\ notified' = [notified EXCEPT ![t] = FALSE]
  /\ SleepOn(t)
  /\ UNCHANGED <<notifyCount, notifyWakeup, flags, seen, timed, late,
                 interrupted, target>>

\* The wakeup time passes,
Expire(t) ==
  /\ timed[t]
  /\ ~late[t]
  /\ late' = [late EXCEPT ![t] = TRUE]
  /\ UNCHANGED <<lock, flags, seen, recorded, timed, interrupted, target, pc,
                 notified>>

\* and pthread_cond_timedwait() returns.
TimeOut(t) ==
  /\ pc[t] = "asleep"
  /\ late[t]
  /\ Goto(t, "woken")
  /\ UNCHANGED <<lock, flags, locals, notified>>

\* "Spurious wakeups may occur".
SpuriousWakeup(t) ==
  /\ pc[t] = "asleep"
  /\ Goto(t, "woken")
  /\ UNCHANGED <<lock, flags, locals, notified>>

\* Awake, with the mutex: is there a reason to end the wait?
Called(t) == status[t] = "interrupted" \/ cross[t]

\* Mutant: the notification is not checked to be a new one.
WokenUncounted(t) ==
  /\ pc[t] = "woken"
  /\ mutex = None
  /\ \/ (Called(t) \/ late[t])
        /\ Finish(t)
        /\ UNCHANGED notifyWakeup
     \/ ~Called(t) /\ ~late[t] /\ notifyWakeup = 0
        /\ SleepOn(t)
        /\ UNCHANGED notifyWakeup
     \/ ~Called(t) /\ ~late[t] /\ notifyWakeup # 0
        /\ Finish(t)
        /\ notifyWakeup' = IF notifyWakeup = 1 THEN 0 ELSE notifyWakeup
  /\ UNCHANGED <<notifyCount, flags, locals, notified>>

Woken(t) ==
  /\ pc[t] = "woken"
  /\ mutex = None
  /\ \/ (Called(t) \/ (notifyCount = recorded[t] /\ late[t]))
        /\ Finish(t)
        /\ UNCHANGED notifyWakeup
     \/ ~Called(t) /\ notifyCount = recorded[t] /\ ~late[t]
        /\ SleepOn(t)
        /\ UNCHANGED notifyWakeup
     \/ ~Called(t) /\ notifyCount # recorded[t] /\ notifyWakeup = 0
        /\ SleepOn(t)
        /\ UNCHANGED notifyWakeup
     \/ ~Called(t) /\ notifyCount # recorded[t] /\ notifyWakeup # 0
        /\ Finish(t)
        /\ notifyWakeup' = IF notifyWakeup = 1 THEN 0 ELSE notifyWakeup
  /\ UNCHANGED <<notifyCount, flags, locals, notified>>

Regain(t) ==
  /\ pc[t] = "finished"
  /\ mutex = None
  /\ owner = None
  /\ Finish(t)
  /\ UNCHANGED <<notifyCount, notifyWakeup, flags, locals, notified>>

\* The look at the interrupt status on the way out, in Java mode.
ReadStatusOut(t) ==
  /\ pc[t] = "resumed"
  /\ seen' = [seen EXCEPT ![t] = status[t]]
  /\ Goto(t, "swapOut")
  /\ UNCHANGED <<lock, flags, recorded, timed, late, interrupted, target,
                 notified>>

\* Mutant: a plain store in place of the compare-and-swap.
SwapOutPlain(t) ==
  /\ pc[t] = "swapOut"
  /\ status' = [status EXCEPT ![t] = "clear"]
  /\ interrupted' = [interrupted EXCEPT ![t] = seen[t] = "interrupted"]
  /\ Goto(t, "unlist")
  /\ UNCHANGED <<lock, interruptible, cross, seen, recorded, timed, late,
                 target, notified>>

SwapOut(t) ==
  /\ pc[t] = "swapOut"
  /\ \/ /\ seen[t] = "interruptible"
        /\ status[t] # "interruptible"
        /\ Goto(t, "resumed")
        /\ UNCHANGED <<status, interrupted>>
     \/ /\ seen[t] \in {"interruptible", "interrupted"}
        /\ status[t] = seen[t]
        /\ status' = [status EXCEPT ![t] = "clear"]
        /\ interrupted' = [interrupted EXCEPT ![t] = seen[t] = "interrupted"]
        /\ Goto(t, "unlist")
  /\ UNCHANGED <<lock, interruptible, cross, seen, recorded, timed, late,
                 target, notified>>

\* wait() returns, or throws: an exception posted by stop() first.
Return(t) ==
  /\ pc[t] = "unlist"
  /\ interruptible' = [interruptible EXCEPT ![t] = FALSE]
  /\ cross' = [cross EXCEPT ![t] = FALSE]
  /\ interrupted' = [interrupted EXCEPT ![t] = FALSE]
  /\ timed' = [timed EXCEPT ![t] = FALSE]
  /\ late' = [late EXCEPT ![t] = FALSE]
  /\ seen' = [seen EXCEPT ![t] = "clear"]
  /\ recorded' = [recorded EXCEPT ![t] = 0]
  /\ notified' = [notified EXCEPT ![t] = FALSE]
  /\ Goto(t, "java")
  /\ UNCHANGED <<lock, status, target>>

-----------------------------------------------------------------------------
(* interrupt(), stop(), interrupted() *)

\* vm->mutex is held throughout.
VmMutexFree == \A u \in Threads : pc[u] \notin Interrupting

Interrupt(t, u) ==
  /\ pc[t] = "java"
  /\ VmMutexFree
  /\ target' = [target EXCEPT ![t] = u]
  /\ Goto(t, "interrupt")
  /\ UNCHANGED <<lock, flags, seen, recorded, timed, late, interrupted,
                 notified>>

\* nativeStop(): post the exception, then interrupt.
Stop(t, u) ==
  /\ t # u
  /\ pc[t] = "java"
  /\ VmMutexFree
  /\ cross' = [cross EXCEPT ![u] = TRUE]
  /\ target' = [target EXCEPT ![t] = u]
  /\ Goto(t, "interrupt")
  /\ UNCHANGED <<lock, status, interruptible, seen, recorded, timed, late,
                 interrupted, notified>>

ReadStatus(t) ==
  /\ pc[t] = "interrupt"
  /\ seen' = [seen EXCEPT ![t] = status[target[t]]]
  /\ Goto(t, "swap")
  /\ UNCHANGED <<lock, flags, recorded, timed, late, interrupted, target,
                 notified>>

\* Back in the program.
InterruptDone(t) ==
  /\ Goto(t, "java")
  /\ target' = [target EXCEPT ![t] = None]
  /\ seen' = [seen EXCEPT ![t] = "clear"]

SwapStatus(t) ==
  LET u == target[t] IN
  /\ pc[t] = "swap"
  /\ \/ /\ seen[t] \in {"set", "interrupted"}
        /\ InterruptDone(t)
        /\ UNCHANGED status
     \/ /\ seen[t] \in {"clear", "interruptible"}
        /\ status[u] # seen[t]
        /\ Goto(t, "interrupt")
        /\ UNCHANGED <<status, target, seen>>
     \/ /\ seen[t] = "clear"
        /\ status[u] = "clear"
        /\ status' = [status EXCEPT ![u] = "set"]
        /\ InterruptDone(t)
     \/ /\ seen[t] = "interruptible"
        /\ status[u] = "interruptible"
        /\ status' = [status EXCEPT ![u] = "interrupted"]
        /\ Goto(t, "signal")
        /\ UNCHANGED <<target, seen>>
  /\ UNCHANGED <<lock, interruptible, cross, recorded, timed, late,
                 interrupted, notified>>

\* No lock there: the thread has left wait().
ReadInterruptibleLock(t) ==
  /\ pc[t] = "signal"
  /\ IF interruptible[target[t]]
       THEN Goto(t, "broadcast") /\ UNCHANGED <<target, seen>>
       ELSE InterruptDone(t)
  /\ UNCHANGED <<lock, flags, recorded, timed, late, interrupted, notified>>

\* Mutant: the broadcast does not wait for the mutex.
BroadcastUnlocked(t) ==
  /\ pc[t] = "broadcast"
  /\ pc' = [WakeAll EXCEPT ![t] = "java"]
  /\ target' = [target EXCEPT ![t] = None]
  /\ seen' = [seen EXCEPT ![t] = "clear"]
  /\ UNCHANGED <<lock, flags, recorded, timed, late, interrupted, notified>>

\* Wake everyone, with the mutex: each sees for itself.
Broadcast(t) ==
  /\ pc[t] = "broadcast"
  /\ mutex = None
  /\ pc' = [WakeAll EXCEPT ![t] = "java"]
  /\ target' = [target EXCEPT ![t] = None]
  /\ seen' = [seen EXCEPT ![t] = "clear"]
  /\ UNCHANGED <<lock, flags, recorded, timed, late, interrupted, notified>>

Interrupted(t) ==
  /\ pc[t] = "java"
  /\ status[t] = "set"
  /\ status' = [status EXCEPT ![t] = "clear"]
  /\ UNCHANGED <<lock, interruptible, cross, locals, pc, notified>>

\* _jc_thread_check(), which Java code calls now and then, throws what stop()
\* has posted.
CheckCross(t) ==
  /\ pc[t] = "java"
  /\ cross[t]
  /\ cross' = [cross EXCEPT ![t] = FALSE]
  /\ UNCHANGED <<lock, status, interruptible, locals, pc, notified>>

-----------------------------------------------------------------------------

\* What happens by itself.
Progress(t) ==
  \/ ReadStatusIn(t)
  \/ SwapIn(t)
  \/ FallAsleep(t)
  \/ TimeOut(t)
  \/ Woken(t)
  \/ Regain(t)
  \/ ReadStatusOut(t)
  \/ SwapOut(t)
  \/ Return(t)
  \/ ReadStatus(t)
  \/ SwapStatus(t)
  \/ ReadInterruptibleLock(t)
  \/ Broadcast(t)
  \/ CheckCross(t)

\* What the program, or the operating system, may do.
Choice(t) ==
  \/ Lock(t)
  \/ Unlock(t)
  \/ t \in Callers /\ (Notify(t) \/ NotifyAll(t))
  \/ t \in Waiters /\ \E withTimeout \in BOOLEAN : Wait(t, withTimeout)
  \/ SpuriousWakeup(t)
  \/ t \in Callers /\ \E u \in Waiters : Interrupt(t, u) \/ Stop(t, u)
  \/ Interrupted(t)

Next == \E t \in Threads : Progress(t) \/ Expire(t) \/ Choice(t)

\* lock->mutex starves nobody.
Fairness == \A t \in Threads :
  /\ WF_vars(Progress(t))
  /\ WF_vars(Expire(t))
  /\ SF_vars(Woken(t) \/ Broadcast(t))

Spec == Init /\ [][Next]_vars /\ Fairness

-----------------------------------------------------------------------------
(* Properties *)

TypeOK ==
  /\ owner \in Threads \cup {None}
  /\ mutex \in Threads \cup {None}
  /\ notifyCount \in 0 .. CountMod - 1
  /\ notifyWakeup \in {-1, 0, 1}
  /\ status \in [Threads -> Statuses]
  /\ interruptible \in [Threads -> BOOLEAN]
  /\ cross \in [Threads -> BOOLEAN]
  /\ pc \in [Threads -> Pcs]
  /\ seen \in [Threads -> Statuses]
  /\ recorded \in [Threads -> 0 .. CountMod - 1]
  /\ timed \in [Threads -> BOOLEAN]
  /\ late \in [Threads -> BOOLEAN]
  /\ interrupted \in [Threads -> BOOLEAN]
  /\ target \in [Threads -> Threads \cup {None}]
  /\ notified \in [Threads -> BOOLEAN]

\* The assertions on the interrupt status hold: the switches of wait(), on the
\* way in and out, and of interrupted() never reach their defaults, and a
\* thread that wakes up is interruptible, or interrupted.
StatusAsserts ==
  \A t \in Threads :
    /\ pc[t] = "java" => status[t] \in {"clear", "set"}
    /\ pc[t] = "swapIn" => seen[t] \in {"clear", "set"}
    /\ pc[t] \in Waiting => status[t] \in {"interruptible", "interrupted"}
    /\ pc[t] = "swapOut" => seen[t] \in {"interruptible", "interrupted"}

\* A wait ends only if the thread was notified since it fell asleep, its time
\* is up, or it was interrupted or stopped: no stale notify_wakeup, spurious
\* wakeup or interrupt of another thread ends it.
NoSpuriousReturn ==
  \A t \in Threads : pc[t] \in {"finished"} \cup Leaving =>
    \/ notified[t]
    \/ late[t]
    \/ interrupted[t] \/ status[t] = "interrupted"
    \/ cross[t]

\* A thread that sleeps although it has been interrupted is about to be woken:
\* its interrupter cannot have come too early for its sleep.
InterruptedWillWake ==
  \A t \in Threads : pc[t] = "asleep" /\ status[t] = "interrupted" =>
    \E u \in Threads : pc[u] \in {"signal", "broadcast"} /\ target[u] = t

\* An interrupt is never lost: the status is cleared only in reporting it, by
\* interrupted() or by an exception that wait() throws.
Flagged(t) == status[t] \in {"set", "interrupted"}
InterruptReported ==
  [][\A t \in Threads :
       Flagged(t) /\ ~Flagged(t)' => pc[t] = "java" \/ interrupted'[t]]_vars

\* notifyAll() reaches everyone who waits: nobody it was meant for sleeps on.
NotifyAllReachesAll ==
  \A t \in Threads :
    pc[t] = "asleep" /\ notifyCount # recorded[t] => notifyWakeup # -1

(* The inductive invariant. *)

\* The two mutexes.
Mutexes ==
  /\ \A t \in Threads : mutex = t <=> pc[t] \in Entering
  /\ \A t, u \in Threads :
       pc[t] \in Interrupting /\ pc[u] \in Interrupting => t = u
  /\ \A t \in Threads : pc[t] \in Interrupting => target[t] \in Threads

\* Where a thread is in wait() decides what its status can be: only it enters
\* or leaves an interruptible state, only others set it.
StatusFits ==
  \A t \in Threads :
    /\ IF pc[t] \in {"sleep", "finished", "resumed", "swapOut"} \cup Waiting
         THEN status[t] \in {"interruptible", "interrupted"}
         ELSE status[t] \in {"clear", "set"}
    /\ pc[t] = "swapIn" =>
         seen[t] \in {"clear", "set"} /\ (seen[t] = "set" => status[t] = "set")
    /\ pc[t] = "swapOut" =>
         /\ seen[t] \in {"interruptible", "interrupted"}
         /\ seen[t] = "interrupted" => status[t] = "interrupted"
    /\ interrupted[t] => pc[t] = "unlist"

\* A thread that may be asleep has said which lock it sleeps on.
Listed ==
  \A t \in Threads :
    /\ pc[t] = "swapIn" /\ seen[t] = "clear" => interruptible[t]
    /\ pc[t] \in {"sleep"} \cup Waiting => interruptible[t]

\* Nor does an interrupt come too early for a thread about to sleep.
WakerComes ==
  \A t \in Threads :
    pc[t] \in {"sleep", "asleep"} /\ status[t] = "interrupted" =>
      \E u \in Threads : pc[u] \in {"signal", "broadcast"} /\ target[u] = t

\* The counter moves only in a notification.
CountTold ==
  \A t \in Threads :
    pc[t] \in Waiting /\ notifyCount # recorded[t] => notified[t]

IInv ==
  /\ TypeOK
  /\ Mutexes
  /\ StatusFits
  /\ Listed
  /\ WakerComes
  /\ CountTold
  /\ NoSpuriousReturn
  /\ NotifyAllReachesAll

(* What the code does not keep. *)

\* A wait with a timeout ends when its time is up.
TimedWaitEnds ==
  \A t \in Threads :
    pc[t] \in Waiting /\ late[t] ~> pc[t] \notin Waiting

\* A thread that is stopped sleeps no longer.
StopWakes ==
  \A t \in Threads :
    pc[t] \in Waiting /\ cross[t] ~> pc[t] \notin Waiting

\* A notification that finds somebody waiting is taken.
NotifyTaken ==
  LET due == /\ notifyWakeup = 1
             /\ \E t \in Threads :
                  pc[t] \in Waiting /\ notifyCount # recorded[t]
  IN  due ~> ~due

=============================================================================
