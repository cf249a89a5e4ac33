------------------------------ MODULE Monitor ------------------------------
(***************************************************************************)
(* The monitors of libjc/lock.c: a lockword in each object that holds a    *)
(* thin lock, changed by compare-and-swap or by its owner alone, or the    *)
(* number of a fat lock; and, for each thread, a contention flag and a     *)
(* queue of the threads that wait for one of its thin locks.  The part of  *)
(* Object.wait() that gives up a monitor and takes it back is here too.    *)
(*                                                                         *)
(* A thread spends several steps wherever lock.c reads something it does   *)
(* not protect: the lockword of another's lock, its own contention flag.   *)
(* A fat lock's state is only touched under its own mutex, for a moment:   *)
(* each such section is one step.  A collection is one step as well, taken *)
(* when every other thread is at a safe point (module World).              *)
(***************************************************************************)
EXTENDS Naturals, FiniteSets

CONSTANTS
  Threads, Objects,
  FatIds,   \* the fat locks there can be
  None,     \* no thread, no object, no fat lock
  MaxThin,  \* _JC_MAX_THIN_RECURSION
  MaxDepth, \* bound on how often a thread enters one monitor
  Races     \* the races of the code that the model admits, of AllRaces

\* unowned: a lock is taken between lock()'s look at a free lockword and its
\* compare-and-swap;  idOverlap: a fat lock's number reads as a thread's in a
\* lockword taken for a thin one;  exit: threads end.
AllRaces == {"unowned", "idOverlap", "exit"}

ASSUME MonitorAssumption ==
  /\ IsFiniteSet(Threads)
  /\ None \notin Threads \cup Objects \cup FatIds
  /\ MaxThin \in Nat \ {0}
  /\ MaxDepth \in Nat \ {0}
  /\ Races \subseteq AllRaces

VARIABLES
  lockword,   \* obj->lockword, the lock bits
  fatLock,    \* owner and recursion_count of each fat lock
  fatFree,    \* those on the free list or not yet created
  contention, \* env->lock.owner.contention
  waiters,    \* env->lock.owner.waiters
  waitObj,    \* env->lock.waiter.object
  mutex,      \* who has env->lock.owner.mutex
  pc,
  obj,        \* the object of the operation in progress
  seen,       \* old_lockword
  oldFlag,    \* old_flag
  toWake,     \* what is left of the SLIST_FOREACH over the waiters
  triedGc,    \* tried_gc
  alive,      \* the threads that have not ended
  held,       \* how often the program of each thread is in each monitor
  kept        \* recursion_count, in Object.wait()

locks == <<lockword, fatLock, fatFree>>
queues == <<contention, waiters, waitObj, mutex>>
locals == <<seen, oldFlag, toWake, triedGc>>
program == <<held, kept>>
vars == <<locks, queues, locals, program, pc, obj, alive>>

Thin(t, n) == [thin |-> t, count |-> n, fat |-> None]
Unlocked   == Thin(None, 0)
Fat(f)     == [thin |-> None, count |-> 0, fat |-> f]
Lockwords  == [thin : Threads \cup {None}, count : 0 .. MaxThin - 1,
               fat : FatIds \cup {None}]

\* Java mode, in the middle of something.
Busy == {"cas", "contend", "noted", "retry", "overflow", "released",
         "contention", "wakeWaiters", "wait", "leave"}
\* Waiting, out of Java mode.
Asleep == {"parked", "fat", "waiting"}
Pcs == {"java", "out"} \cup Busy \cup Asleep

Init ==
  /\ lockword = [o \in Objects |-> Unlocked]
  /\ fatLock = [f \in FatIds |-> [owner |-> None, count |-> 0]]
  /\ fatFree = FatIds
  /\ contention = [t \in Threads |-> FALSE]
  /\ waiters = [t \in Threads |-> {}]
  /\ waitObj = [t \in Threads |-> None]
  /\ mutex = [t \in Threads |-> None]
  /\ pc = [t \in Threads |-> "java"]
  /\ obj = [t \in Threads |-> None]
  /\ seen = [t \in Threads |-> Unlocked]
  /\ oldFlag = [t \in Threads |-> FALSE]
  /\ toWake = [t \in Threads |-> {}]
  /\ triedGc = [t \in Threads |-> FALSE]
  /\ alive = Threads
  /\ held = [t \in Threads |-> [o \in Objects |-> 0]]
  /\ kept = [t \in Threads |-> 0]

-----------------------------------------------------------------------------
(* Helpers *)

Goto(t, l) == pc' = [pc EXCEPT ![t] = l]

\* Back to the program.
Done(t) ==
  /\ Goto(t, "java")
  /\ obj' = [obj EXCEPT ![t] = None]
  /\ seen' = [seen EXCEPT ![t] = Unlocked]

Entered(t, o) ==
  /\ held' = [held EXCEPT ![t][o] = @ + 1]
  /\ Done(t)
  /\ UNCHANGED kept

\* The test of JoinWaiters: a lockword with the thread id of the owner, or
\* with a fat lock's number that reads as one.
ReadsAs(w, owner) ==
  \/ w.thin = owner
  \/ w.fat # None /\ "idOverlap" \in Races

-----------------------------------------------------------------------------
(* Lock *)

\* _jc_lock_object() reads the lockword.  Without the race "unowned" a free
\* lock is taken at once.
ReadLockword(t, o) ==
  IF lockword[o] = Unlocked /\ "unowned" \notin Races
    THEN /\ lockword' = [lockword EXCEPT ![o] = Thin(t, 0)]
         /\ Entered(t, o)
         /\ UNCHANGED <<fatLock, fatFree, oldFlag, toWake, triedGc>>
    ELSE /\ seen' = [seen EXCEPT ![t] = lockword[o]]
         /\ obj' = [obj EXCEPT ![t] = o]
         /\ Goto(t, "cas")
         /\ UNCHANGED <<locks, oldFlag, toWake, triedGc, program>>

Lock(t, o) ==
  /\ pc[t] = "java"
  /\ held[t][o] < MaxDepth
  /\ ReadLockword(t, o)
  /\ UNCHANGED <<queues, alive>>

Retry(t) ==
  /\ pc[t] = "retry"
  /\ ReadLockword(t, obj[t])
  /\ UNCHANGED <<queues, alive>>

\* The compare-and-swap succeeds.
SwapThin(t) ==
  /\ pc[t] = "cas"
  /\ lockword[obj[t]] = Unlocked
  /\ lockword' = [lockword EXCEPT ![obj[t]] = Thin(t, 0)]
  /\ Entered(t, obj[t])
  /\ UNCHANGED <<fatLock, fatFree, queues, oldFlag, toWake, triedGc, alive>>

\* It fails: what is to be done depends on the lockword read before it.
SwapFails(t) ==
  /\ pc[t] = "cas"
  /\ lockword[obj[t]] # Unlocked
  /\ \/ seen[t].fat # None /\ Goto(t, "fat")
     \/ seen[t].fat = None /\ seen[t].thin # t /\ Goto(t, "contend")
     \/ seen[t].thin = t /\ seen[t].count + 1 = MaxThin /\ Goto(t, "overflow")
  /\ UNCHANGED <<locks, queues, locals, program, obj, alive>>

\* The lock is the thread's own already.
Recurse(t) ==
  /\ pc[t] = "cas"
  /\ lockword[obj[t]] # Unlocked
  /\ seen[t].thin = t
  /\ seen[t].count + 1 < MaxThin
  /\ lockword' = [lockword EXCEPT ![obj[t]] = Thin(t, seen[t].count + 1)]
  /\ Entered(t, obj[t])
  /\ UNCHANGED <<fatLock, fatFree, queues, oldFlag, toWake, triedGc, alive>>

\* Mutant: "if" in place of "while": any wakeup is taken for real.
LockFatOnAnyWakeup(t) ==
  LET f == seen[t].fat IN
  /\ pc[t] = "fat"
  /\ fatLock' = [fatLock EXCEPT ![f] = [owner |-> t, count |-> @.count + 1]]
  /\ Entered(t, obj[t])
  /\ UNCHANGED <<lockword, fatFree, queues, oldFlag, toWake, triedGc, alive>>

\* A fat lock: wait until it is free or the thread's own.  Every release
\* broadcasts with the mutex held.
LockFat(t) ==
  LET f == seen[t].fat IN
  /\ pc[t] = "fat"
  /\ fatLock[f].count = 0 \/ fatLock[f].owner = t
  /\ fatLock' = [fatLock EXCEPT ![f] = [owner |-> t, count |-> @.count + 1]]
  /\ Entered(t, obj[t])
  /\ UNCHANGED <<lockword, fatFree, queues, oldFlag, toWake, triedGc, alive>>

-----------------------------------------------------------------------------
(* Contention for a thin lock *)

\* Under the mutex of the thread that owned the lock when it was read, set
\* that thread's contention flag.  Of a thread that is not there (any more)
\* there is no mutex to take: the program crashes.
NoteContention(t) ==
  LET owner == seen[t].thin IN
  /\ pc[t] = "contend"
  /\ owner \in alive
  /\ mutex[owner] = None
  /\ mutex' = [mutex EXCEPT ![owner] = t]
  /\ oldFlag' = [oldFlag EXCEPT ![t] = contention[owner]]
  /\ contention' = [contention EXCEPT ![owner] = TRUE]
  /\ Goto(t, "noted")
  /\ UNCHANGED <<locks, waiters, waitObj, seen, toWake, triedGc, program, obj,
                 alive>>

\* If it owns the lock still, join its waiters and leave Java mode;
\* otherwise put the flag back.
JoinWaiters(t) ==
  LET owner == seen[t].thin IN
  /\ pc[t] = "noted"
  /\ \/ /\ ReadsAs(lockword[obj[t]], owner)
        /\ waiters' = [waiters EXCEPT ![owner] = @ \cup {t}]
        /\ waitObj' = [waitObj EXCEPT ![t] = obj[t]]
        /\ Goto(t, "parked")
        /\ UNCHANGED contention
     \/ /\ ~ReadsAs(lockword[obj[t]], owner)
        /\ contention' = [contention EXCEPT ![owner] = oldFlag[t]]
        /\ Goto(t, "retry")
        /\ UNCHANGED <<waiters, waitObj>>
  /\ mutex' = [mutex EXCEPT ![owner] = None]
  /\ oldFlag' = [oldFlag EXCEPT ![t] = FALSE]
  /\ UNCHANGED <<locks, seen, toWake, triedGc, program, obj, alive>>

\* The waiter wakes up, or never falls asleep, when it finds itself off the
\* list: who empties the list signals first, with the mutex held.
Unpark(t) ==
  LET owner == seen[t].thin IN
  /\ pc[t] = "parked"
  /\ mutex[owner] = None
  /\ t \notin waiters[owner]
  /\ waitObj' = [waitObj EXCEPT ![t] = None]
  /\ Goto(t, "retry")
  /\ UNCHANGED <<locks, contention, waiters, mutex, locals, program, obj,
                 alive>>

-----------------------------------------------------------------------------
(* Inflation, and the collection that it may take *)

\* _jc_inflate_lock() finds a fat lock: it is given to t, whosever the thin
\* lock was.
Inflate(t, o, f) ==
  /\ f \in fatFree
  /\ fatFree' = fatFree \ {f}
  /\ fatLock' = [fatLock EXCEPT
                   ![f] = [owner |-> t, count |-> lockword[o].count + 1]]
  /\ lockword' = [lockword EXCEPT ![o] = Fat(f)]
  /\ triedGc' = [triedGc EXCEPT ![t] = FALSE]

\* The waiter's object is not the one just released, and has a thin lock.
ToInflate(t, w) == waitObj[w] # obj[t] /\ lockword[waitObj[w]].fat = None

Inflating(t) ==
  \/ pc[t] \in {"overflow", "wait"}
  \/ pc[t] = "wakeWaiters" /\ \E w \in toWake[t] : ToInflate(t, w)

WantsGc(t) == Inflating(t) /\ fatFree = {} /\ ~triedGc[t]

\* No fat lock, and a collection failed or has not helped; or a new one cannot be made
\* for want of memory.  A lock on the free list needs none, but the model does not tell
\* the locks that are there from those that are still to be made.
InflateFails(t) ==
  /\ triedGc' = [triedGc EXCEPT ![t] = FALSE]
  /\ UNCHANGED locks

\* An object that no thread has to do with.
Unused(o) ==
  \A t \in Threads : held[t][o] = 0 /\ obj[t] # o

AtSafePoint(t) == pc[t] \in {"java", "out"} \cup Asleep \/ WantsGc(t)

\* _jc_gc(): the locks of dead objects are recycled, and other objects take
\* their place.  A thread halted on its way to a collection of its own makes
\* do with this one.
Collect(t) ==
  /\ WantsGc(t)
  /\ \A u \in Threads \ {t} : AtSafePoint(u)
  /\ \E dead \in SUBSET {o \in Objects : Unused(o)} :
       /\ lockword' = [o \in Objects |->
                         IF o \in dead THEN Unlocked ELSE lockword[o]]
       /\ fatFree' = fatFree \cup ({lockword[o].fat : o \in dead} \ {None})
  /\ triedGc' = [u \in Threads |-> triedGc[u] \/ WantsGc(u)]
  /\ UNCHANGED <<fatLock, queues, seen, oldFlag, toWake, program, pc, obj,
                 alive>>

\* The recursion count of a thin lock overflows: inflate it and try again.
Overflow(t) ==
  /\ pc[t] = "overflow"
  /\ \/ (\E f \in FatIds : Inflate(t, obj[t], f)) /\ Goto(t, "retry")
        /\ UNCHANGED <<obj, seen>>
     \/ InflateFails(t) /\ Done(t)
  /\ UNCHANGED <<queues, oldFlag, toWake, program, alive>>

-----------------------------------------------------------------------------
(* Unlock *)

\* _jc_unlock_object(); a thread that is not the owner gets an exception, and
\* nothing changes.
Owns(t, w) == IF w.fat = None THEN w.thin = t
                              ELSE fatLock[w.fat].owner = t

UnlockThin(t, o) ==
  /\ lockword[o].fat = None
  /\ IF lockword[o].count > 0
       THEN /\ lockword' = [lockword EXCEPT ![o] = Thin(t, @.count - 1)]
            /\ UNCHANGED <<pc, obj>>
       ELSE /\ lockword' = [lockword EXCEPT ![o] = Unlocked]
            /\ Goto(t, "released")
            /\ obj' = [obj EXCEPT ![t] = o]
  /\ UNCHANGED fatLock

UnlockFat(t, o) ==
  LET f == lockword[o].fat IN
  /\ f # None
  /\ IF fatLock[f].count > 1
       THEN /\ fatLock' = [fatLock EXCEPT
                             ![f] = [owner |-> t, count |-> @.count - 1]]
            /\ UNCHANGED <<pc, obj>>
       ELSE /\ fatLock' = [fatLock EXCEPT ![f] = [owner |-> None, count |-> 0]]
            /\ Goto(t, "released")
            /\ obj' = [obj EXCEPT ![t] = o]
  /\ UNCHANGED lockword

Unlock(t, o) ==
  /\ pc[t] = "java"
  /\ held[t][o] > 0
  /\ Owns(t, lockword[o])
  /\ held' = [held EXCEPT ![t][o] = @ - 1]
  /\ UnlockThin(t, o) \/ UnlockFat(t, o)
  /\ UNCHANGED <<fatFree, queues, locals, kept, alive>>

\* Where a thread goes from here: on, or, if it still has the monitor, to
\* give it up in Object.wait().
GoOn(t) ==
  IF held[t][obj[t]] > 0 THEN Goto(t, "leave") /\ UNCHANGED <<obj, seen>>
                         ELSE Done(t)

\* Mutant: a thread that has other locks does not look.
CheckContentionLast(t) ==
  /\ pc[t] = "released"
  /\ IF contention[t] /\ \A o \in Objects : held[t][o] = 0
       THEN Goto(t, "contention") /\ UNCHANGED <<obj, seen>>
       ELSE GoOn(t)
  /\ UNCHANGED <<locks, queues, oldFlag, toWake, triedGc, program, alive>>

\* The look at the contention flag, after a release or an inflation.
CheckContention(t) ==
  /\ pc[t] = "released"
  /\ IF contention[t] THEN Goto(t, "contention") /\ UNCHANGED <<obj, seen>>
                      ELSE GoOn(t)
  /\ UNCHANGED <<locks, queues, oldFlag, toWake, triedGc, program, alive>>

-----------------------------------------------------------------------------
(* _jc_lock_contention() *)

HandleContention(t) ==
  /\ pc[t] = "contention"
  /\ mutex[t] = None
  /\ mutex' = [mutex EXCEPT ![t] = t]
  /\ toWake' = [toWake EXCEPT ![t] = waiters[t]]
  /\ Goto(t, "wakeWaiters")
  /\ UNCHANGED <<locks, contention, waiters, waitObj, seen, oldFlag, triedGc,
                 program, obj, alive>>

\* One waiter: the lock it waits for is inflated, unless it has just been
\* released or is fat already; failure to inflate it is ignored.
WakeWaiter(t, w) ==
  /\ pc[t] = "wakeWaiters"
  /\ w \in toWake[t]
  /\ toWake' = [toWake EXCEPT ![t] = @ \ {w}]
  /\ \/ ~ToInflate(t, w) /\ UNCHANGED <<locks, triedGc>>
     \/ ToInflate(t, w)
        /\ ((\E f \in FatIds : Inflate(t, waitObj[w], f)) \/ InflateFails(t))
  /\ UNCHANGED <<queues, seen, oldFlag, program, pc, obj, alive>>

\* Mutant: the waiters are woken, but not taken off the list.
WokenAllListed(t) ==
  /\ pc[t] = "wakeWaiters"
  /\ toWake[t] = {}
  /\ contention' = [contention EXCEPT ![t] = FALSE]
  /\ mutex' = [mutex EXCEPT ![t] = None]
  /\ GoOn(t)
  /\ UNCHANGED <<locks, waiters, waitObj, oldFlag, toWake, triedGc, program,
                 alive>>

WokenAll(t) ==
  /\ pc[t] = "wakeWaiters"
  /\ toWake[t] = {}
  /\ waiters' = [waiters EXCEPT ![t] = {}]
  /\ contention' = [contention EXCEPT ![t] = FALSE]
  /\ mutex' = [mutex EXCEPT ![t] = None]
  /\ GoOn(t)
  /\ UNCHANGED <<locks, waitObj, oldFlag, toWake, triedGc, program, alive>>

-----------------------------------------------------------------------------
(* Object.wait(), as far as the monitor goes, and the end of a thread *)

\* A thin lock is inflated first, and its contention handled; a fat one is not
\* looked at.
Wait(t, o) ==
  /\ pc[t] = "java"
  /\ held[t][o] > 0
  /\ Owns(t, lockword[o])
  /\ obj' = [obj EXCEPT ![t] = o]
  /\ Goto(t, IF lockword[o].fat = None THEN "wait" ELSE "leave")
  /\ UNCHANGED <<locks, queues, locals, program, alive>>

InflateToWait(t) ==
  /\ pc[t] = "wait"
  /\ \/ (\E f \in FatIds : Inflate(t, obj[t], f)) /\ Goto(t, "released")
        /\ UNCHANGED <<obj, seen>>
     \/ InflateFails(t) /\ Done(t)
  /\ UNCHANGED <<queues, oldFlag, toWake, program, alive>>

\* Mutant: how often the thread was in the monitor is forgotten.
LeaveMonitorOnce(t) ==
  LET f == lockword[obj[t]].fat IN
  /\ pc[t] = "leave"
  /\ kept' = [kept EXCEPT ![t] = 1]
  /\ held' = [held EXCEPT ![t][obj[t]] = 0]
  /\ fatLock' = [fatLock EXCEPT ![f] = [owner |-> None, count |-> 0]]
  /\ Goto(t, "waiting")
  /\ UNCHANGED <<lockword, fatFree, queues, locals, obj, alive>>

LeaveMonitor(t) ==
  LET f == lockword[obj[t]].fat IN
  /\ pc[t] = "leave"
  /\ kept' = [kept EXCEPT ![t] = fatLock[f].count]
  /\ held' = [held EXCEPT ![t][obj[t]] = 0]
  /\ fatLock' = [fatLock EXCEPT ![f] = [owner |-> None, count |-> 0]]
  /\ Goto(t, "waiting")
  /\ UNCHANGED <<lockword, fatFree, queues, locals, obj, alive>>

\* The wait is over, for whatever reason (module WaitNotify), and the monitor
\* is free.
Reenter(t) ==
  LET f == lockword[obj[t]].fat IN
  /\ pc[t] = "waiting"
  /\ fatLock[f].count = 0
  /\ fatLock' = [fatLock EXCEPT ![f] = [owner |-> t, count |-> kept[t]]]
  /\ held' = [held EXCEPT ![t][obj[t]] = kept[t]]
  /\ kept' = [kept EXCEPT ![t] = 0]
  /\ Done(t)
  /\ UNCHANGED <<lockword, fatFree, queues, oldFlag, toWake, triedGc, alive>>

\* A thread ends, and its structure may be freed.
Exit(t) ==
  /\ "exit" \in Races
  /\ pc[t] = "java"
  /\ \A o \in Objects : held[t][o] = 0
  /\ alive' = alive \ {t}
  /\ Goto(t, "out")
  /\ UNCHANGED <<locks, queues, locals, program, obj>>

-----------------------------------------------------------------------------

\* What a thread does inside an operation, once it has begun.
Progress(t) ==
  \/ Retry(t)
  \/ SwapThin(t)
  \/ SwapFails(t)
  \/ Recurse(t)
  \/ LockFat(t)
  \/ NoteContention(t)
  \/ JoinWaiters(t)
  \/ Unpark(t)
  \/ Collect(t)
  \/ Overflow(t)
  \/ CheckContention(t)
  \/ HandleContention(t)
  \/ \E w \in Threads : WakeWaiter(t, w)
  \/ WokenAll(t)
  \/ InflateToWait(t)
  \/ LeaveMonitor(t)

\* What its program, or its notifiers, may or may not do.
Choice(t) ==
  \/ \E o \in Objects : Lock(t, o) \/ Unlock(t, o) \/ Wait(t, o)
  \/ Reenter(t)
  \/ Exit(t)

Next == \E t \in Threads : Progress(t) \/ Choice(t)

Fairness == \A t \in Threads : WF_vars(Progress(t))

Spec == Init /\ [][Next]_vars /\ Fairness

-----------------------------------------------------------------------------
(* Properties *)

TypeOK ==
  /\ lockword \in [Objects -> Lockwords]
  /\ fatLock \in [FatIds -> [owner : Threads \cup {None}, count : Nat]]
  /\ fatFree \subseteq FatIds
  /\ contention \in [Threads -> BOOLEAN]
  /\ waiters \in [Threads -> SUBSET Threads]
  /\ waitObj \in [Threads -> Objects \cup {None}]
  /\ mutex \in [Threads -> Threads \cup {None}]
  /\ pc \in [Threads -> Pcs]
  /\ obj \in [Threads -> Objects \cup {None}]
  /\ seen \in [Threads -> Lockwords]
  /\ oldFlag \in [Threads -> BOOLEAN]
  /\ toWake \in [Threads -> SUBSET Threads]
  /\ triedGc \in [Threads -> BOOLEAN]
  /\ alive \subseteq Threads
  /\ held \in [Threads -> [Objects -> Nat]]
  /\ kept \in [Threads -> Nat]

\* A monitor is held by one thread at a time.
MutualExclusion ==
  \A o \in Objects : \A t, u \in Threads :
    held[t][o] > 0 /\ held[u][o] > 0 => t = u

\* Thin or fat, the lock of an object says exactly who is in its monitor and
\* how often: no thread gets IllegalMonitorStateException for a monitor it is
\* in, or leaves one locked behind it.
LockSaysWho ==
  \A o \in Objects, t \in Threads :
    LET w == lockword[o] IN
    held[t][o] = IF w.fat # None
                   THEN IF fatLock[w.fat].owner = t THEN fatLock[w.fat].count
                                                    ELSE 0
                   ELSE IF w.thin = t THEN w.count + 1 ELSE 0

\* A fat lock serves one object, and none while it is on the free list.
FatLocksApart ==
  /\ \A o, p \in Objects :
       lockword[o].fat # None /\ lockword[o].fat = lockword[p].fat => o = p
  /\ \A o \in Objects : lockword[o].fat \notin fatFree
  /\ \A f \in fatFree : fatLock[f].count = 0

\* Whoever sleeps in a thread's queue will be woken: the thread's flag is up,
\* and it is in the monitor waited for, or about to look at the flag.
NoStrandedWaiter ==
  \A t \in Threads : \A w \in waiters[t] :
    /\ contention[t]
    /\ \/ held[t][waitObj[w]] > 0
       \/ pc[t] \in {"released", "contention", "wakeWaiters"}

\* _jc_lock_contention() asserts that a thin lock it inflates is its own.
InflatesOwnLocks ==
  \A t \in Threads : \A w \in toWake[t] :
    ToInflate(t, w) => lockword[waitObj[w]].thin = t

\* A thread that waits for the others to halt, in a collection, holds no
\* mutex that they wait for without halting.
NoGcDeadlock ==
  \A t \in Threads : WantsGc(t) =>
    ~\E u \in Threads : pc[u] = "contend" /\ mutex[seen[u].thin] = t

\* lock() has found a thin lock, and goes to its owner: there is one.
ContenderHasOwner ==
  \A t \in Threads : pc[t] = "contend" => seen[t].thin \in Threads

\* The owner whose mutex a contender is about to take, or whose queue it
\* sleeps in, still exists.
OwnerExists ==
  \A t \in Threads :
    pc[t] \in {"contend", "noted", "parked"} => seen[t].thin \in alive

\* A release wakes every thread that waits for one of the owner's locks.
ReleaseWakes ==
  \A t \in Threads :
    (pc[t] = "released" /\ waiters[t] # {}) ~> waiters[t] = {}

(* The inductive invariant. *)

WellFormed ==
  /\ \A o \in Objects :
       LET w == lockword[o] IN
       /\ w.fat # None => w.thin = None
       /\ w.thin = None => w.count = 0
  /\ \A f \in FatIds :
       /\ fatLock[f].owner = None <=> fatLock[f].count = 0
       /\ f \in fatFree <=> \A o \in Objects : lockword[o].fat # f

\* What a thread's place in the code says of the object it works on, and of
\* what it read before.
PcObj ==
  \A t \in Threads :
    LET o == obj[t]
        w == seen[t] IN
    /\ pc[t] \in Busy \cup Asleep => o \in Objects
    /\ pc[t] = "cas" /\ w.thin = t => lockword[o] = w
    /\ pc[t] \in {"cas", "fat"} =>
         /\ w.fat # None => lockword[o].fat = w.fat
         /\ w.fat = None => pc[t] # "fat"
    /\ pc[t] \in {"contend", "noted", "parked"} => w.thin # t
    /\ pc[t] \in {"overflow", "wait"} => lockword[o].thin = t
    /\ pc[t] = "leave" => held[t][o] > 0
    /\ /\ pc[t] \in {"released", "contention", "wakeWaiters", "leave"}
       /\ held[t][o] > 0
       => lockword[o].fat # None
    /\ kept[t] > 0 <=> pc[t] = "waiting"
    /\ pc[t] = "waiting" => lockword[o].fat # None

\* Who holds the mutex of a thread's queue, and what it knows.
QueueMutex ==
  /\ \A t \in Threads :
       /\ mutex[t] = t <=> pc[t] = "wakeWaiters"
       /\ pc[t] # "wakeWaiters" => toWake[t] = {}
       /\ toWake[t] \subseteq waiters[t]
       /\ waiters[t] # {} => contention[t]
  /\ \A t \in Threads : pc[t] = "noted" =>
       /\ seen[t].thin \in Threads
       /\ mutex[seen[t].thin] = t
       /\ contention[seen[t].thin]
       /\ waiters[seen[t].thin] # {} => oldFlag[t]
  /\ \A t, u \in Threads :
       mutex[t] = u /\ u # t => pc[u] = "noted" /\ seen[u].thin = t

\* Why the waiters in a thread's queue wait for it.
Queued ==
  \A t \in Threads : \A w \in waiters[t] :
    /\ pc[w] = "parked"
    /\ seen[w].thin = t
    /\ waitObj[w] = obj[w]
    /\ \/ lockword[obj[w]].fat # None
       \/ lockword[obj[w]].thin = t
       \/ /\ obj[w] = obj[t]
          /\ pc[t] \in {"released", "contention", "wakeWaiters"}

IInv ==
  /\ TypeOK
  /\ LockSaysWho
  /\ FatLocksApart
  /\ WellFormed
  /\ PcObj
  /\ QueueMutex
  /\ Queued

-----------------------------------------------------------------------------
(* Refinement *)

M == INSTANCE Monitors

\* Thin and fat locks are monitors.
RefinesMonitors == M!Spec

=============================================================================
