------------------------------- MODULE World -------------------------------
(***************************************************************************)
(* The stop-the-world protocol of libjc/thread.c and its users: safe-point *)
(* checks, the Java/native transitions, thread creation, attachment and    *)
(* detachment, garbage collection's use of it, and Thread.suspend() and    *)
(* Thread.resume().                                                        *)
(*                                                                         *)
(* A "thread" is a _jc_env structure: it is allocated to a Java thread,    *)
(* freed when that thread ends, and reused by a later one.  vm->mutex is   *)
(* a variable of its own only while a stopping thread keeps it over        *)
(* several steps; the other critical sections are single steps, which is   *)
(* what they are to the rest of the program: the only state they touch     *)
(* that is also written without the mutex is a thread's own status, by     *)
(* that thread's own compare-and-swap.                                     *)
(***************************************************************************)
EXTENDS Naturals, FiniteSets

CONSTANTS
  Threads,      \* the _jc_env structures
  NoThread,     \* "no thread", for vm->mutex and for target
  Main,         \* the thread that created the VM
  Ops,          \* what the program does, a subset of AllOps
  StartMayFail, \* can VMThread.start() fail after it allocated the thread?
  HandOff       \* does a signalled stopper get vm->mutex before an attacher?

AllOps == {"gc", "suspend", "start", "attach", "native", "exit"}

ASSUME WorldAssumption ==
  /\ IsFiniteSet(Threads)
  /\ Main \in Threads
  /\ NoThread \notin Threads
  /\ Ops \subseteq AllOps
  /\ StartMayFail \in BOOLEAN
  /\ HandOff \in BOOLEAN

VARIABLES
  alive,            \* vm->threads.alive_list
  status,           \* env->status
  suspended,        \* env->suspended
  pc,               \* where each thread is
  target,           \* the other thread it works on: the child of start(),
                    \* the victim of suspend(); NoThread for a collection
  toVisit,          \* what is left of the LIST_FOREACH over alive_list
  pendingHaltCount, \* vm->pending_halt_count
  worldStopped,     \* vm->world_stopped
  mutex             \* who keeps vm->mutex from step to step

vars == <<alive, status, suspended, pc, target, toVisit, pendingHaltCount,
          worldStopped, mutex>>

Java    == {"RUNNING_NORMAL", "HALTING_NORMAL"}
NonJava == {"RUNNING_NONJAVA", "HALTING_NONJAVA"}
Status  == Java \cup NonJava \cup {"HALTED"}

\* A thread at one of these takes vm->mutex and calls _jc_halt_if_requested();
\* it sleeps in there while its status is HALTED.
HaltPoints == {"check", "leave", "leaveSuspend", "gc", "suspend", "start",
               "detach"}

\* The steps of _jc_stop_the_world() .. _jc_resume_the_world().
StopperPcs == {"mark", "awaitHalt", "signalled", "stopped", "resume"}

InJavaPcs == {"java", "checkSuspended", "starting", "born"}
NativePcs == {"native", "suspended", "unsuspend", "enter"}
Pcs == HaltPoints \cup StopperPcs \cup InJavaPcs \cup NativePcs
         \cup {"out", "attach"}

\* The threads asked to halt that have not, with the structures that a start()
\* put on the free list in that state.
Halting  == {t \in Threads : status[t] = "HALTING_NORMAL"}
Stoppers == {t \in Threads : pc[t] \in StopperPcs}

\* The last thread has halted, and the stopper has yet to get vm->mutex back.
StopperSignalled ==
  pendingHaltCount = 0 /\ \E s \in Threads : pc[s] = "signalled"

Init ==
  /\ alive = {Main}
  /\ status = [t \in Threads |-> "RUNNING_NORMAL"]
  /\ suspended = [t \in Threads |-> FALSE]
  /\ pc = [t \in Threads |-> IF t = Main THEN "java" ELSE "out"]
  /\ target = [t \in Threads |-> NoThread]
  /\ toVisit = {}
  /\ pendingHaltCount = 0
  /\ worldStopped = FALSE
  /\ mutex = NoThread

-----------------------------------------------------------------------------
(* Helpers *)

Goto(t, l) == pc' = [pc EXCEPT ![t] = l]
SetStatus(t, s) == status' = [status EXCEPT ![t] = s]

MutexFree == mutex = NoThread

\* t gets vm->mutex, finds no (further) halt request and goes on from l.
PastHalt(t, l) ==
  /\ pc[t] = l
  /\ MutexFree
  /\ status[t] = "RUNNING_NORMAL"

\* The body of _jc_halt_if_requested()'s loop up to its wait, for a thread
\* asked to halt; the last one to halt signals the stopper.
HaltSelf(t) ==
  /\ status[t] = "HALTING_NORMAL"
  /\ SetStatus(t, "HALTED")
  /\ pendingHaltCount' = pendingHaltCount - 1

\* Mutant: the count is tested before it is decremented.
AfterHaltLate(t, l) ==
  [u \in Threads |->
     IF u = t THEN l
     ELSE IF pc[u] = "awaitHalt" /\ pendingHaltCount = 0 THEN "signalled"
     ELSE pc[u]]

\* pc after t halts at l: the signal on all_halted is sent at count zero.
AfterHalt(t, l) ==
  [u \in Threads |->
     IF u = t THEN l
     ELSE IF pc[u] = "awaitHalt" /\ pendingHaltCount = 1 THEN "signalled"
     ELSE pc[u]]

\* _jc_stop_the_world() has halted for others, and starts its loop.
StartMarking(t) ==
  /\ Goto(t, "mark")
  /\ toVisit' = alive \ {t}
  /\ mutex' = t

-----------------------------------------------------------------------------
(* Safe points *)

\* Mutant: only a halt request is noticed.
ThreadCheckHaltOnly(t) ==
  /\ pc[t] = "java"
  /\ Goto(t, IF status[t] = "HALTING_NORMAL" THEN "check" ELSE "java")
  /\ UNCHANGED <<alive, status, suspended, target, toVisit,
                 pendingHaltCount, worldStopped, mutex>>

\* _jc_thread_check(): the tests of status and of suspended are made without
\* vm->mutex, and are separate steps.
ThreadCheck(t) ==
  /\ pc[t] = "java"
  /\ IF status[t] = "HALTING_NORMAL"
       THEN Goto(t, "check")
       ELSE Goto(t, "checkSuspended")
  /\ UNCHANGED <<alive, status, suspended, target, toVisit,
                 pendingHaltCount, worldStopped, mutex>>

CheckHalted(t) ==
  /\ PastHalt(t, "check")
  /\ Goto(t, "checkSuspended")
  /\ UNCHANGED <<alive, status, suspended, target, toVisit,
                 pendingHaltCount, worldStopped, mutex>>

\* The rest of _jc_thread_check(), into _jc_thread_suspend(): its call of
\* _jc_stopping_java() swaps RUNNING_NORMAL for RUNNING_NONJAVA, or has to halt.
CheckSuspended(t) ==
  /\ pc[t] = "checkSuspended"
  /\ \/ /\ ~suspended[t]
        /\ Goto(t, "java")
        /\ UNCHANGED status
     \/ /\ suspended[t]
        /\ status[t] = "RUNNING_NORMAL"
        /\ SetStatus(t, "RUNNING_NONJAVA")
        /\ Goto(t, "suspended")
     \/ /\ suspended[t]
        /\ status[t] = "HALTING_NORMAL"
        /\ Goto(t, "leaveSuspend")
        /\ UNCHANGED status
  /\ UNCHANGED <<alive, suspended, target, toVisit, pendingHaltCount,
                 worldStopped, mutex>>

\* _jc_halt_if_requested(), the first time and whenever a thread wakes up to
\* find that the world is being stopped again.
Halt(t) ==
  /\ pc[t] \in HaltPoints
  /\ MutexFree
  /\ HaltSelf(t)
  /\ pc' = AfterHalt(t, pc[t])
  /\ UNCHANGED <<alive, suspended, target, toVisit, worldStopped, mutex>>

\* _jc_thread_suspend() wakes up; resume() signals with the mutex held, so
\* waiting for the predicate is waiting for the signal.
Unsuspend(t) ==
  /\ pc[t] = "suspended"
  /\ MutexFree
  /\ ~suspended[t]
  /\ Goto(t, "unsuspend")
  /\ UNCHANGED <<alive, status, suspended, target, toVisit,
                 pendingHaltCount, worldStopped, mutex>>

-----------------------------------------------------------------------------
(* Java to native and back *)

\* _jc_stopping_java(): the compare-and-swap, and the path taken if it fails.
StoppingJava(t) ==
  /\ "native" \in Ops
  /\ pc[t] = "java"
  /\ \/ /\ status[t] = "RUNNING_NORMAL"
        /\ SetStatus(t, "RUNNING_NONJAVA")
        /\ Goto(t, "native")
     \/ /\ status[t] = "HALTING_NORMAL"
        /\ Goto(t, "leave")
        /\ UNCHANGED status
  /\ UNCHANGED <<alive, suspended, target, toVisit, pendingHaltCount,
                 worldStopped, mutex>>

StoppingJavaHalted(t) ==
  /\ \/ PastHalt(t, "leave") /\ Goto(t, "native")
     \/ PastHalt(t, "leaveSuspend") /\ Goto(t, "suspended")
  /\ SetStatus(t, "RUNNING_NONJAVA")
  /\ UNCHANGED <<alive, suspended, target, toVisit, pendingHaltCount,
                 worldStopped, mutex>>

\* _jc_resuming_java(), from native code or from _jc_thread_suspend().
ResumingJava(t) ==
  /\ pc[t] \in {"native", "unsuspend"}
  /\ \/ /\ status[t] = "RUNNING_NONJAVA"
        /\ SetStatus(t, "RUNNING_NORMAL")
        /\ Goto(t, "java")
     \/ /\ status[t] = "HALTING_NONJAVA"
        /\ Goto(t, "enter")
        /\ UNCHANGED status
  /\ UNCHANGED <<alive, suspended, target, toVisit, pendingHaltCount,
                 worldStopped, mutex>>

\* Mutant: "if" in place of "while": a spurious wakeup is taken for real.
ResumingJavaOnAnyWakeup(t) ==
  /\ pc[t] = "enter"
  /\ MutexFree
  /\ SetStatus(t, "RUNNING_NORMAL")
  /\ Goto(t, "java")
  /\ UNCHANGED <<alive, suspended, target, toVisit, pendingHaltCount,
                 worldStopped, mutex>>

ResumingJavaRestarted(t) ==
  /\ pc[t] = "enter"
  /\ MutexFree
  /\ status[t] = "RUNNING_NONJAVA"
  /\ SetStatus(t, "RUNNING_NORMAL")
  /\ Goto(t, "java")
  /\ UNCHANGED <<alive, suspended, target, toVisit, pendingHaltCount,
                 worldStopped, mutex>>

-----------------------------------------------------------------------------
(* Threads come and go *)

\* A Java thread calls VMThread.start(), _jc_gc(), or comes to its end.
Call(t) ==
  /\ pc[t] = "java"
  /\ \/ "start" \in Ops /\ Goto(t, "start")
     \/ "gc" \in Ops /\ Goto(t, "gc")
     \/ "exit" \in Ops /\ Goto(t, "detach")
  /\ UNCHANGED <<alive, status, suspended, target, toVisit,
                 pendingHaltCount, worldStopped, mutex>>

\* VMThread.start() allocates the child's structure.  A structure from the
\* free list keeps its status and its suspended flag.
AllocateThread(t) ==
  /\ PastHalt(t, "start")
  /\ \/ /\ alive = Threads          \* max number of threads exceeded
        /\ Goto(t, "java")
        /\ UNCHANGED <<alive, target>>
     \/ \E c \in Threads \ alive :
          /\ alive' = alive \cup {c}
          /\ target' = [target EXCEPT ![t] = c]
          /\ pc' = [pc EXCEPT ![t] = "starting", ![c] = "born"]
  /\ UNCHANGED <<status, suspended, toVisit, pendingHaltCount, worldStopped,
                 mutex>>

\* pthread_create() succeeds: the child runs _jc_thread_start().
StartThread(t) ==
  /\ pc[t] = "starting"
  /\ pc' = [pc EXCEPT ![t] = "java", ![target[t]] = "java"]
  /\ target' = [target EXCEPT ![t] = NoThread]
  /\ UNCHANGED <<alive, status, suspended, toVisit, pendingHaltCount,
                 worldStopped, mutex>>

\* "goto fail" in VMThread.start().  Past the mmap() of its stack, the child's
\* structure goes to the free list as it is; before that it is destroyed, and
\* the next one allocated in its place starts from zeroes.
FailStart(t) ==
  /\ StartMayFail
  /\ pc[t] = "starting"
  /\ MutexFree
  /\ alive' = alive \ {target[t]}
  /\ pc' = [pc EXCEPT ![t] = "java", ![target[t]] = "out"]
  /\ \/ UNCHANGED <<status, suspended>>
     \/ /\ SetStatus(target[t], "RUNNING_NORMAL")
        /\ suspended' = [suspended EXCEPT ![target[t]] = FALSE]
  /\ target' = [target EXCEPT ![t] = NoThread]
  /\ UNCHANGED <<toVisit, pendingHaltCount, worldStopped, mutex>>

\* _jc_attach_thread() for JNI's AttachCurrentThread().
AttachThread(t) ==
  /\ "attach" \in Ops
  /\ t \in Threads \ alive
  /\ MutexFree
  /\ HandOff => ~StopperSignalled
  /\ alive' = alive \cup {t}
  /\ \/ /\ worldStopped \/ pendingHaltCount > 0
        /\ SetStatus(t, "HALTED")
        /\ Goto(t, "attach")
     \/ /\ ~(worldStopped \/ pendingHaltCount > 0)
        /\ Goto(t, "java")
        /\ UNCHANGED status
  /\ UNCHANGED <<suspended, target, toVisit, pendingHaltCount, worldStopped,
                 mutex>>

AttachRestarted(t) ==
  /\ pc[t] = "attach"
  /\ MutexFree
  /\ status[t] # "HALTED"
  /\ Goto(t, "java")
  /\ UNCHANGED <<alive, status, suspended, target, toVisit,
                 pendingHaltCount, worldStopped, mutex>>

\* Mutant: leaves without the last check for a halt.
DetachThreadUnchecked(t) ==
  /\ pc[t] = "detach"
  /\ status[t] \in Java
  /\ MutexFree
  /\ alive' = alive \ {t}
  /\ Goto(t, "out")
  /\ SetStatus(t, "RUNNING_NORMAL")
  /\ UNCHANGED <<suspended, target, toVisit, pendingHaltCount, worldStopped,
                 mutex>>

\* _jc_detach_thread() and _jc_free_thread(): the structure is cached.
DetachThread(t) ==
  /\ PastHalt(t, "detach")
  /\ alive' = alive \ {t}
  /\ Goto(t, "out")
  /\ UNCHANGED <<status, suspended, target, toVisit, pendingHaltCount,
                 worldStopped, mutex>>

-----------------------------------------------------------------------------
(* Stopping the world *)

\* VMThread.suspend(): the victim is looked up and found not suspended, and
\* _jc_stop_the_world() is entered, with the mutex held throughout.
Suspend(t, u) ==
  /\ "suspend" \in Ops
  /\ pc[t] = "java"
  /\ MutexFree
  /\ u \in alive
  /\ ~suspended[u]
  /\ target' = [target EXCEPT ![t] = u]
  /\ \/ /\ status[t] = "RUNNING_NORMAL"
        /\ StartMarking(t)
        /\ UNCHANGED <<status, pendingHaltCount>>
     \/ /\ HaltSelf(t)
        /\ pc' = AfterHalt(t, "suspend")
        /\ UNCHANGED <<toVisit, mutex>>
  /\ UNCHANGED <<alive, suspended, worldStopped>>

\* _jc_stop_the_world() past its own _jc_halt_if_requested().
StopTheWorld(t) ==
  /\ PastHalt(t, "gc") \/ PastHalt(t, "suspend")
  /\ StartMarking(t)
  /\ UNCHANGED <<alive, status, suspended, target, pendingHaltCount,
                 worldStopped>>

\* The loop: one compare-and-swap that succeeds.
MarkThread(t, u) ==
  /\ pc[t] = "mark"
  /\ u \in toVisit
  /\ \/ /\ status[u] = "RUNNING_NORMAL"
        /\ SetStatus(u, "HALTING_NORMAL")
        /\ pendingHaltCount' = pendingHaltCount + 1
     \/ /\ status[u] = "RUNNING_NONJAVA"
        /\ SetStatus(u, "HALTING_NONJAVA")
        /\ UNCHANGED pendingHaltCount
  /\ toVisit' = toVisit \ {u}
  /\ UNCHANGED <<alive, suspended, pc, target, worldStopped, mutex>>

\* Mutant: an off-by-one in the test of the count.
AwaitHaltedButOne(t) ==
  /\ \/ pc[t] = "mark" /\ toVisit = {}
     \/ pc[t] = "signalled" /\ MutexFree
  /\ \/ /\ pendingHaltCount > 1
        /\ Goto(t, "awaitHalt")
        /\ mutex' = NoThread
        /\ UNCHANGED worldStopped
     \/ /\ pendingHaltCount <= 1
        /\ Goto(t, "stopped")
        /\ worldStopped' = TRUE
        /\ mutex' = IF target[t] = NoThread THEN NoThread ELSE t
  /\ UNCHANGED <<alive, status, suspended, target, toVisit,
                 pendingHaltCount>>

\* The loop over, or the waiting stopper back with the mutex: wait (again)
\* for all_halted, or declare the world stopped.  suspend() goes on with the
\* mutex held, a collection releases it.
AwaitHalted(t) ==
  /\ \/ pc[t] = "mark" /\ toVisit = {}
     \/ pc[t] = "signalled" /\ MutexFree
  /\ \/ /\ pendingHaltCount > 0
        /\ Goto(t, "awaitHalt")
        /\ mutex' = NoThread
        /\ UNCHANGED worldStopped
     \/ /\ pendingHaltCount = 0
        /\ Goto(t, "stopped")
        /\ worldStopped' = TRUE
        /\ mutex' = IF target[t] = NoThread THEN NoThread ELSE t
  /\ UNCHANGED <<alive, status, suspended, target, toVisit,
                 pendingHaltCount>>

\* A spurious wakeup of the stopper.
SpuriousWakeup(t) ==
  /\ pc[t] = "awaitHalt"
  /\ Goto(t, "signalled")
  /\ UNCHANGED <<alive, status, suspended, target, toVisit,
                 pendingHaltCount, worldStopped, mutex>>

\* The world is stopped and used: the end of a collection, or the marking of
\* the victim of suspend().  Then _jc_resume_the_world() begins.
UseStoppedWorld(t) ==
  /\ pc[t] = "stopped"
  /\ \/ /\ target[t] = NoThread
        /\ MutexFree
        /\ UNCHANGED suspended
     \/ /\ target[t] # NoThread
        /\ suspended' = [suspended EXCEPT ![target[t]] = TRUE]
  /\ mutex' = t
  /\ Goto(t, "resume")
  /\ toVisit' = alive \ {t}
  /\ UNCHANGED <<alive, status, target, pendingHaltCount, worldStopped>>

\* Mutant: only the threads in native code are let go.
ResumeThreadInNative(t, u) ==
  /\ pc[t] = "resume"
  /\ u \in toVisit
  /\ IF status[u] = "HALTING_NONJAVA" THEN SetStatus(u, "RUNNING_NONJAVA")
     ELSE UNCHANGED status
  /\ toVisit' = toVisit \ {u}
  /\ UNCHANGED <<alive, suspended, pc, target, pendingHaltCount,
                 worldStopped, mutex>>

ResumeThread(t, u) ==
  /\ pc[t] = "resume"
  /\ u \in toVisit
  /\ \/ status[u] = "HALTED" /\ SetStatus(u, "RUNNING_NORMAL")
     \/ status[u] = "HALTING_NONJAVA" /\ SetStatus(u, "RUNNING_NONJAVA")
  /\ toVisit' = toVisit \ {u}
  /\ UNCHANGED <<alive, suspended, pc, target, pendingHaltCount,
                 worldStopped, mutex>>

\* Mutant: world_stopped is not reset.
ResumeTheWorldStopped(t) ==
  /\ pc[t] = "resume"
  /\ toVisit = {}
  /\ mutex' = NoThread
  /\ Goto(t, "java")
  /\ target' = [target EXCEPT ![t] = NoThread]
  /\ UNCHANGED <<alive, status, suspended, toVisit, pendingHaltCount,
                 worldStopped>>

\* The broadcast on world_restarted wakes every halted thread; each of them
\* goes on once it gets the mutex and finds its status changed.
ResumeTheWorld(t) ==
  /\ pc[t] = "resume"
  /\ toVisit = {}
  /\ worldStopped' = FALSE
  /\ mutex' = NoThread
  /\ Goto(t, "java")
  /\ target' = [target EXCEPT ![t] = NoThread]
  /\ UNCHANGED <<alive, status, suspended, toVisit, pendingHaltCount>>

\* VMThread.resume() by t.
Resume(t, u) ==
  /\ "suspend" \in Ops
  /\ pc[t] = "java"
  /\ MutexFree
  /\ u \in alive
  /\ suspended[u]
  /\ suspended' = [suspended EXCEPT ![u] = FALSE]
  /\ UNCHANGED <<alive, status, pc, target, toVisit, pendingHaltCount,
                 worldStopped, mutex>>

-----------------------------------------------------------------------------

\* What a thread does without being told to by its program.
Progress(t) ==
  \/ ThreadCheck(t)
  \/ CheckHalted(t)
  \/ CheckSuspended(t)
  \/ Halt(t)
  \/ Unsuspend(t)
  \/ StoppingJavaHalted(t)
  \/ ResumingJavaRestarted(t)
  \/ pc[t] = "unsuspend" /\ ResumingJava(t)
  \/ AllocateThread(t)
  \/ StartThread(t)
  \/ FailStart(t)
  \/ AttachRestarted(t)
  \/ DetachThread(t)
  \/ StopTheWorld(t)
  \/ \E u \in Threads : MarkThread(t, u)
  \/ AwaitHalted(t)
  \/ UseStoppedWorld(t)
  \/ \E u \in Threads : ResumeThread(t, u)
  \/ ResumeTheWorld(t)

\* What its program may or may not do, and what the environment may do.
Choice(t) ==
  \/ pc[t] = "native" /\ ResumingJava(t)
  \/ StoppingJava(t)
  \/ Call(t)
  \/ \E u \in Threads : Suspend(t, u)
  \/ \E u \in Threads : Resume(t, u)
  \/ AttachThread(t)
  \/ SpuriousWakeup(t)

Next == \E t \in Threads : Progress(t) \/ Choice(t)

\* A thread that is scheduled makes progress.  In Java code this is the safe
\* point: the unmapped check page, or the interpreter's ticker, forces it.
Fairness == \A t \in Threads : WF_vars(Progress(t))

Spec == Init /\ [][Next]_vars /\ Fairness

\* The step a thread takes once it has vm->mutex and no halt request is left.
MutexGranted(t) ==
  \/ CheckHalted(t)
  \/ StoppingJavaHalted(t)
  \/ ResumingJavaRestarted(t)
  \/ AllocateThread(t)
  \/ DetachThread(t)
  \/ StopTheWorld(t)

\* A scheduler that does not starve a thread on vm->mutex, and threads that
\* reach a safe point again and again in whatever Java code they run: a frame
\* of the interpreter checks at least at every 32nd jump.
StrongFairness ==
  \A t \in Threads : SF_vars(ThreadCheck(t)) /\ SF_vars(MutexGranted(t))

StrongSpec == Spec /\ StrongFairness

(* Properties *)

TypeOK ==
  /\ alive \subseteq Threads
  /\ status \in [Threads -> Status]
  /\ suspended \in [Threads -> BOOLEAN]
  /\ pc \in [Threads -> Pcs]
  /\ target \in [Threads -> Threads \cup {NoThread}]
  /\ toVisit \subseteq alive
  /\ pendingHaltCount \in Nat
  /\ worldStopped \in BOOLEAN
  /\ mutex \in Threads \cup {NoThread}

\* When a thread has the world stopped, no other thread runs Java code: each
\* is halted, or in native code and bound to wait when it comes back.
WorldStoppedSafe ==
  \A t \in Threads : pc[t] = "stopped" =>
    \A u \in alive \ {t} : status[u] \in {"HALTED", "HALTING_NONJAVA"}

\* pending_halt_count never falls short of the threads that were asked to
\* halt and have not: the stopper cannot be woken too early.
NoHaltMissed == pendingHaltCount >= Cardinality(Halting)

\* It counts exactly those, so that the stopper is woken at all.
HaltsCounted == pendingHaltCount = Cardinality(Halting)

\* The defaults of the two switches over thread->status, which assert false
\* (and spin, with assertions off, in the case of the first): no thread is
\* found already halting or halted when a stop begins, or running at its end.
SwitchDefaultsUnreached ==
  \A t \in Threads : \A u \in toVisit :
    /\ pc[t] = "mark" => status[u] \in {"RUNNING_NORMAL", "RUNNING_NONJAVA"}
    /\ pc[t] = "resume" => status[u] \in {"HALTED", "HALTING_NONJAVA"}

\* The sanity checks of _jc_stop_the_world(): nobody else is stopping the
\* world, or has it stopped, when a thread gets past its own halt.
OneStopper ==
  \A t \in Threads :
    (PastHalt(t, "gc") \/ PastHalt(t, "suspend")) =>
      Stoppers = {} /\ ~worldStopped /\ pendingHaltCount = 0

\* A stopper asleep on all_halted has a halt to wait for: the signal of the
\* last thread to halt is not lost.
SleepingStopperWaits ==
  \A t \in Threads :
    pc[t] = "awaitHalt" => \E u \in alive : status[u] = "HALTING_NORMAL"

\* No step starts running Java code in a thread (makes it RUNNING_NORMAL
\* from anything else) while another thread has the world stopped.
NoJavaWhileStopped ==
  [][\A t, u \in Threads :
       /\ t # u
       /\ pc[t] = "stopped"
       /\ t \in alive
       /\ u \in alive'
       /\ status'[u] = "RUNNING_NORMAL"
       => u \in alive /\ status[u] = "RUNNING_NORMAL"]_vars

\* A stop in progress is completed.
StopCompletes ==
  \A t \in Threads : pc[t] = "awaitHalt" ~> pc[t] = "stopped"

\* A halted thread, and one that attached during a stop, runs again.
HaltedRunAgain ==
  \A t \in Threads : status[t] = "HALTED" ~> status[t] # "HALTED"

\* Thread.suspend() takes effect: a thread that is suspended for good stops
\* running Java code for good.
SuspendTakesEffect ==
  \A t \in Threads :
    <>[](suspended[t] /\ t \in alive) => <>[](status[t] \notin Java)

\* A collection that a thread has to do is done, however many others stop the
\* world before it.
CollectionDone == \A t \in Threads : pc[t] = "gc" ~> pc[t] = "resume"

\* _jc_attach_thread() asserts, after its wait for the world to restart, that
\* the new thread is RUNNING_NORMAL.
AttachedRunning ==
  \A t \in Threads :
    pc[t] = "attach" => status[t] \in {"HALTED", "RUNNING_NORMAL"}

\* _jc_allocate_thread() asserts of a structure off the free list that it is
\* not suspended.
FreeNotSuspended == \A t \in Threads \ alive : ~suspended[t]

\* The victim that suspend() looked up, "so thread doesn't disappear", is
\* still there when its suspended flag is set.
VictimAlive ==
  \A t \in Threads :
    pc[t] = "stopped" /\ target[t] # NoThread => target[t] \in alive

(* The inductive invariant: what a thread's place in the code says of its    *)
(* status, and, for each phase of a stop, how far all the other threads are. *)

PcStatus ==
  \A t \in Threads :
    /\ pc[t] = "out" <=> t \notin alive
    /\ pc[t] \in StopperPcs => status[t] = "RUNNING_NORMAL"
    /\ pc[t] \in InJavaPcs => status[t] \in Java
    /\ pc[t] \in NativePcs => status[t] \in NonJava
    /\ pc[t] \in HaltPoints \cup {"attach"} => status[t] \in Java \cup {"HALTED"}

\* The child of start() exists, has one parent and does not run yet.
ParentOfBorn ==
  \A t \in Threads : pc[t] = "starting" =>
    /\ target[t] \in Threads
    /\ pc[target[t]] = "born"
    /\ \A u \in Threads :
         u # t /\ pc[u] = "starting" => target[u] # target[t]

MutexHeld ==
  /\ \A t \in Threads :
       mutex = t <=> \/ pc[t] \in {"mark", "resume"}
                     \/ pc[t] = "stopped" /\ target[t] # NoThread
  /\ mutex = NoThread => toVisit = {}

AtMostOneStopper ==
  \A t, u \in Threads : pc[t] \in StopperPcs /\ pc[u] \in StopperPcs => t = u

Idle ==
  Stoppers = {} =>
    /\ \A u \in alive : status[u] \in {"RUNNING_NORMAL", "RUNNING_NONJAVA"}
    /\ pendingHaltCount = 0
    /\ ~worldStopped

\* During a stop by t, before it is complete and after.
Stopping(t) ==
  /\ pc[t] = "mark" =>
       \A u \in alive \ {t} :
         status[u] \in IF u \in toVisit
                         THEN {"RUNNING_NORMAL", "RUNNING_NONJAVA"}
                         ELSE {"HALTING_NORMAL", "HALTING_NONJAVA"}
  /\ pc[t] \in {"awaitHalt", "signalled"} =>
       \A u \in alive \ {t} :
         status[u] \in {"HALTING_NORMAL", "HALTED", "HALTING_NONJAVA"}
  /\ pc[t] = "awaitHalt" => pendingHaltCount > 0
  /\ pc[t] \in {"mark", "awaitHalt", "signalled"} => ~worldStopped

Stopped(t) ==
  /\ pc[t] = "stopped" =>
       \A u \in alive \ {t} : status[u] \in {"HALTED", "HALTING_NONJAVA"}
  /\ pc[t] = "resume" =>
       \A u \in alive \ {t} :
         status[u] \in IF u \in toVisit
                         THEN {"HALTED", "HALTING_NONJAVA"}
                         ELSE {"RUNNING_NORMAL", "RUNNING_NONJAVA"}
  /\ pc[t] \in {"stopped", "resume"} => worldStopped /\ pendingHaltCount = 0
  /\ pc[t] \in {"mark", "resume"} => t \notin toVisit

PhaseInv ==
  /\ TypeOK
  /\ PcStatus
  /\ ParentOfBorn
  /\ MutexHeld
  /\ AtMostOneStopper
  /\ Idle
  /\ \A t \in Threads : Stopping(t) /\ Stopped(t)

\* A structure on the free list that still has to halt is counted for ever, and
\* keeps the stopper that asked it waiting: nobody reuses it as it is.
FreeStatus ==
  \A t \in Threads : pc[t] = "out" =>
    \/ status[t] = "RUNNING_NORMAL"
    \/ /\ StartMayFail
       /\ status[t] = "HALTING_NORMAL"
       /\ \E s \in Threads : pc[s] \in {"awaitHalt", "signalled"}

IInv == PhaseInv /\ FreeStatus /\ NoHaltMissed

-----------------------------------------------------------------------------
(* Refinement *)

JavaThreads == {t \in alive : status[t] \in Java}
HasWorld    == {t \in Threads : pc[t] = "stopped"}
Stopper     == IF HasWorld = {} THEN NoThread ELSE CHOOSE t \in HasWorld : TRUE

SP == INSTANCE SafePoint WITH running <- JavaThreads, stopper <- Stopper

\* The protocol keeps the promise of SafePoint, and lets the world go again.
RefinesSafePoint == SP!Spec

=============================================================================
