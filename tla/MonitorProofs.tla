--------------------------- MODULE MonitorProofs ---------------------------
(***************************************************************************)
(* Proofs about Monitor, for any threads, objects and fat locks, any       *)
(* recursion limit and any of the races: IInv is inductive, monitors       *)
(* exclude, the lock of an object says exactly who is in it, and the whole *)
(* implements Monitors.                                                    *)
(***************************************************************************)
EXTENDS Monitor, TLAPS

USE DEF Busy, Asleep, Pcs, Lockwords, Thin, Unlocked, Fat, locks, queues,
        locals, program, Goto, Done, Entered

-----------------------------------------------------------------------------
(* Every step keeps the invariant: one lemma per action *)

LEMMA InitIInv == ASSUME MonitorAssumption, Init PROVE IInv
BY DEF MonitorAssumption, Init, IInv, TypeOK, LockSaysWho, FatLocksApart,
       WellFormed, PcObj, QueueMutex, Queued

\* The first look at a lockword, which takes a free lock if no race is
\* admitted.
LEMMA ReadLockwordIInv ==
  ASSUME MonitorAssumption, IInv,
         NEW t \in Threads, NEW o \in Objects,
         pc[t] = "java" \/ (pc[t] = "retry" /\ o = obj[t]),
         ReadLockword(t, o), UNCHANGED <<queues, alive>>
  PROVE  IInv'
<1> USE DEF IInv, MonitorAssumption
<1>1. CASE lockword[o] = Unlocked /\ "unowned" \notin Races
  <2>1. /\ lockword' = [lockword EXCEPT ![o] = Thin(t, 0)]
        /\ held' = [held EXCEPT ![t][o] = @ + 1]
        /\ pc' = [pc EXCEPT ![t] = "java"]
        /\ obj' = [obj EXCEPT ![t] = None]
        /\ seen' = [seen EXCEPT ![t] = Unlocked]
        /\ UNCHANGED <<fatLock, fatFree, oldFlag, toWake, triedGc, kept>>
    BY <1>1 DEF ReadLockword
  <2> QED
    BY <1>1, <2>1 DEF TypeOK, LockSaysWho, FatLocksApart, WellFormed, PcObj,
                      QueueMutex, Queued
<1>2. CASE ~(lockword[o] = Unlocked /\ "unowned" \notin Races)
  <2>1. /\ seen' = [seen EXCEPT ![t] = lockword[o]]
        /\ obj' = [obj EXCEPT ![t] = o]
        /\ pc' = [pc EXCEPT ![t] = "cas"]
        /\ UNCHANGED <<locks, oldFlag, toWake, triedGc, program>>
    BY <1>2 DEF ReadLockword
  <2> QED
    BY <2>1 DEF TypeOK, LockSaysWho, FatLocksApart, WellFormed, PcObj,
                QueueMutex, Queued
<1> QED
  BY <1>1, <1>2

LEMMA LockIInv ==
  ASSUME MonitorAssumption, IInv,
         NEW t \in Threads, NEW o \in Objects, Lock(t, o)
  PROVE  IInv'
<1>1. pc[t] = "java" \/ (pc[t] = "retry" /\ o = obj[t])
  BY DEF Lock
<1>2. ReadLockword(t, o) /\ UNCHANGED <<queues, alive>>
  BY DEF Lock
<1> QED
  BY <1>1, <1>2, ReadLockwordIInv

LEMMA RetryIInv ==
  ASSUME MonitorAssumption, IInv, NEW t \in Threads, Retry(t)
  PROVE  IInv'
<1>1. obj[t] \in Objects
  BY DEF Retry, IInv, PcObj
<1> QED
  BY <1>1, ReadLockwordIInv DEF Retry

LEMMA SwapFailsIInv ==
  ASSUME MonitorAssumption, IInv, NEW t \in Threads, SwapFails(t)
  PROVE  IInv'
<1> USE DEF IInv, MonitorAssumption
<1>1. PICK l \in {"fat", "contend", "overflow"} :
        /\ pc' = [pc EXCEPT ![t] = l]
        /\ l = "fat" => seen[t].fat # None
        /\ l = "contend" => seen[t].fat = None /\ seen[t].thin # t
        /\ l = "overflow" => seen[t].thin = t
  BY DEF SwapFails
<1>2. /\ pc[t] = "cas"
      /\ UNCHANGED <<locks, queues, locals, program, obj, alive>>
  BY DEF SwapFails
<1> QED
  BY <1>1, <1>2 DEF TypeOK, LockSaysWho, FatLocksApart, WellFormed, PcObj,
                    QueueMutex, Queued

LEMMA JoinWaitersIInv ==
  ASSUME MonitorAssumption, IInv, NEW t \in Threads,
         JoinWaiters(t)
  PROVE  IInv'
<1> USE DEF IInv, MonitorAssumption
<1> DEFINE owner == seen[t].thin
<1>1. /\ pc[t] = "noted"
      /\ mutex' = [mutex EXCEPT ![owner] = None]
      /\ oldFlag' = [oldFlag EXCEPT ![t] = FALSE]
      /\ UNCHANGED <<locks, seen, toWake, triedGc, program, obj, alive>>
  BY DEF JoinWaiters
<1>2. owner \in Threads /\ owner # t /\ obj[t] \in Objects
  BY <1>1 DEF PcObj, QueueMutex
<1>3. CASE ReadsAs(lockword[obj[t]], owner)
  <2>1. /\ waiters' = [waiters EXCEPT ![owner] = @ \cup {t}]
        /\ waitObj' = [waitObj EXCEPT ![t] = obj[t]]
        /\ pc' = [pc EXCEPT ![t] = "parked"]
        /\ UNCHANGED contention
        /\ lockword[obj[t]].thin = owner \/ lockword[obj[t]].fat # None
    BY <1>3 DEF JoinWaiters, ReadsAs
  <2>2. (TypeOK /\ LockSaysWho /\ FatLocksApart /\ WellFormed /\ PcObj)'
    BY <1>1, <1>2, <2>1 DEF TypeOK, LockSaysWho, FatLocksApart, WellFormed,
                            PcObj
  <2>3. QueueMutex'
    BY <1>1, <1>2, <2>1 DEF TypeOK, PcObj, QueueMutex
  <2>4. Queued'
    <3>1. \A u \in Threads : t \notin waiters[u]
      BY <1>1 DEF TypeOK, Queued
    <3> QED
      BY <1>1, <1>2, <2>1, <3>1 DEF TypeOK, Queued
  <2> QED
    BY <2>2, <2>3, <2>4
<1>4. CASE ~ReadsAs(lockword[obj[t]], owner)
  <2>1. /\ contention' = [contention EXCEPT ![owner] = oldFlag[t]]
        /\ pc' = [pc EXCEPT ![t] = "retry"]
        /\ UNCHANGED <<waiters, waitObj>>
    BY <1>4 DEF JoinWaiters
  <2>2. (TypeOK /\ LockSaysWho /\ FatLocksApart /\ WellFormed /\ PcObj)'
    BY <1>1, <1>2, <2>1 DEF TypeOK, LockSaysWho, FatLocksApart, WellFormed,
                            PcObj
  <2>3. QueueMutex'
    BY <1>1, <1>2, <2>1 DEF TypeOK, PcObj, QueueMutex
  <2>4. Queued'
    BY <1>1, <1>2, <2>1 DEF TypeOK, QueueMutex, Queued
  <2> QED
    BY <2>2, <2>3, <2>4
<1> QED
  BY <1>3, <1>4

\* A thread that is off its owner's list is on no other.
LEMMA UnparkIInv ==
  ASSUME MonitorAssumption, IInv, NEW t \in Threads, Unpark(t)
  PROVE  IInv'
<1> USE DEF IInv, MonitorAssumption
<1>1. \A u \in Threads : t \notin waiters[u]
  BY DEF Unpark, TypeOK, Queued
<1> QED
  BY <1>1 DEF Unpark, TypeOK, LockSaysWho, FatLocksApart, WellFormed, PcObj,
              QueueMutex, Queued

\* Inflation by the owner of the thin lock, by itself.
LEMMA InflateLocks ==
  ASSUME MonitorAssumption, IInv,
         NEW t \in Threads, NEW o \in Objects, NEW f \in FatIds,
         lockword[o].thin = t, Inflate(t, o, f), UNCHANGED held
  PROVE  /\ (LockSaysWho /\ FatLocksApart /\ WellFormed)'
         /\ lockword' = [lockword EXCEPT ![o] = Fat(f)]
         /\ lockword' \in [Objects -> Lockwords]
         /\ fatLock' \in [FatIds -> [owner : Threads \cup {None}, count : Nat]]
         /\ fatFree' \subseteq FatIds
         /\ triedGc' = [triedGc EXCEPT ![t] = FALSE]
BY DEF IInv, MonitorAssumption, Inflate, TypeOK, LockSaysWho, FatLocksApart,
       WellFormed

LEMMA OverflowIInv ==
  ASSUME MonitorAssumption, IInv, NEW t \in Threads, Overflow(t)
  PROVE  IInv'
<1> USE DEF IInv, MonitorAssumption
<1>1. /\ pc[t] = "overflow"
      /\ obj[t] \in Objects
      /\ lockword[obj[t]].thin = t
      /\ UNCHANGED <<queues, oldFlag, toWake, program, alive>>
  BY DEF Overflow, PcObj
<1>2. CASE pc' = [pc EXCEPT ![t] = "retry"] /\ UNCHANGED <<obj, seen>>
           /\ \E f \in FatIds : Inflate(t, obj[t], f)
  <2>1. PICK f \in FatIds : Inflate(t, obj[t], f)
    BY <1>2
  <2>2. /\ (LockSaysWho /\ FatLocksApart /\ WellFormed)'
        /\ lockword' = [lockword EXCEPT ![obj[t]] = Fat(f)]
        /\ lockword' \in [Objects -> Lockwords]
        /\ fatLock' \in [FatIds -> [owner : Threads \cup {None}, count : Nat]]
        /\ fatFree' \subseteq FatIds
        /\ triedGc' = [triedGc EXCEPT ![t] = FALSE]
    BY <1>1, <2>1, InflateLocks
  <2>3. TypeOK'
    BY <1>1, <1>2, <2>2 DEF TypeOK
  <2>4. PcObj'
    BY <1>1, <1>2, <2>2 DEF TypeOK, LockSaysWho, FatLocksApart, WellFormed,
       PcObj
  <2>5. QueueMutex'
    BY <1>1, <1>2, <2>2 DEF TypeOK, PcObj, QueueMutex
  <2>6. Queued'
    BY <1>1, <1>2, <2>2 DEF TypeOK, WellFormed, PcObj, Queued
  <2> QED
    BY <2>3, <2>4, <2>5, <2>6, <2>2
<1>3. CASE InflateFails(t) /\ Done(t)
  BY <1>1, <1>3 DEF InflateFails, TypeOK, LockSaysWho, FatLocksApart,
                    WellFormed, PcObj, QueueMutex, Queued
<1> QED
  BY <1>2, <1>3 DEF Overflow

LEMMA UnlockIInv ==
  ASSUME MonitorAssumption, IInv,
         NEW t \in Threads, NEW o \in Objects, Unlock(t, o)
  PROVE  IInv'
<1> USE DEF IInv, MonitorAssumption
<1>1. /\ pc[t] = "java"
      /\ held[t][o] > 0
      /\ held' = [held EXCEPT ![t][o] = @ - 1]
      /\ UNCHANGED <<fatFree, queues, locals, kept, alive>>
  BY DEF Unlock
<1>2. CASE UnlockThin(t, o)
  <2>1. lockword[o].thin = t /\ held[t][o] = lockword[o].count + 1
    BY <1>1, <1>2 DEF UnlockThin, LockSaysWho, TypeOK
  <2>2. CASE lockword[o].count > 0
    <3>1. /\ lockword' = [lockword EXCEPT ![o] = Thin(t, @.count - 1)]
          /\ UNCHANGED <<pc, obj, fatLock>>
      BY <1>2, <2>2 DEF UnlockThin
    <3>2. TypeOK'
      BY <1>1, <2>1, <2>2, <3>1 DEF TypeOK
    <3>3. LockSaysWho'
      BY <1>1, <2>1, <2>2, <3>1 DEF TypeOK, LockSaysWho, WellFormed,
         FatLocksApart
    <3>4. FatLocksApart'
      BY <1>1, <2>1, <2>2, <3>1 DEF TypeOK, FatLocksApart, WellFormed
    <3>5. WellFormed'
      BY <1>1, <2>1, <2>2, <3>1 DEF TypeOK, FatLocksApart, WellFormed
    <3>6. PcObj'
      BY <1>1, <2>1, <2>2, <3>1 DEF TypeOK, LockSaysWho, FatLocksApart,
         WellFormed, PcObj
    <3>7. QueueMutex'
      BY <1>1, <2>1, <2>2, <3>1 DEF TypeOK, PcObj, QueueMutex
    <3>8. Queued'
      BY <1>1, <2>1, <2>2, <3>1 DEF TypeOK, WellFormed, PcObj, Queued
    <3> QED
      BY <3>2, <3>3, <3>4, <3>5, <3>6, <3>7, <3>8
  <2>3. CASE ~(lockword[o].count > 0)
    <3>1. /\ lockword' = [lockword EXCEPT ![o] = Unlocked]
          /\ pc' = [pc EXCEPT ![t] = "released"]
          /\ obj' = [obj EXCEPT ![t] = o]
          /\ UNCHANGED fatLock
      BY <1>2, <2>3 DEF UnlockThin
    <3> QED
      BY <1>1, <2>1, <2>3, <3>1 DEF TypeOK, LockSaysWho, FatLocksApart,
         WellFormed, PcObj, QueueMutex, Queued
  <2> QED
    BY <2>2, <2>3
<1>3. CASE UnlockFat(t, o)
  <2> DEFINE f == lockword[o].fat
  <2>1. /\ f \in FatIds
        /\ fatLock[f].owner = t
        /\ held[t][o] = fatLock[f].count
        /\ UNCHANGED lockword
    BY <1>1, <1>3 DEF UnlockFat, LockSaysWho, TypeOK
  <2>2. CASE fatLock[f].count > 1
    <3>1. /\ fatLock' = [fatLock EXCEPT
                         ![f] = [owner |-> t, count |-> @.count - 1]]
          /\ UNCHANGED <<pc, obj>>
      BY <1>3, <2>2 DEF UnlockFat
    <3>2. TypeOK'
      BY <1>1, <2>1, <2>2, <3>1 DEF TypeOK
    <3>3. LockSaysWho'
      BY <1>1, <2>1, <2>2, <3>1 DEF TypeOK, LockSaysWho, WellFormed,
         FatLocksApart
    <3>4. FatLocksApart'
      BY <1>1, <2>1, <2>2, <3>1 DEF TypeOK, FatLocksApart, WellFormed
    <3>5. WellFormed'
      BY <1>1, <2>1, <2>2, <3>1 DEF TypeOK, FatLocksApart, WellFormed
    <3>6. PcObj'
      BY <1>1, <2>1, <2>2, <3>1 DEF TypeOK, LockSaysWho, FatLocksApart,
         WellFormed, PcObj
    <3>7. QueueMutex'
      BY <1>1, <2>1, <2>2, <3>1 DEF TypeOK, PcObj, QueueMutex
    <3>8. Queued'
      BY <1>1, <2>1, <2>2, <3>1 DEF TypeOK, WellFormed, PcObj, Queued
    <3> QED
      BY <3>2, <3>3, <3>4, <3>5, <3>6, <3>7, <3>8
  <2>3. CASE ~(fatLock[f].count > 1)
    <3>1. /\ fatLock' = [fatLock EXCEPT ![f] = [owner |-> None, count |-> 0]]
          /\ pc' = [pc EXCEPT ![t] = "released"]
          /\ obj' = [obj EXCEPT ![t] = o]
      BY <1>3, <2>3 DEF UnlockFat
    <3> QED
      BY <1>1, <2>1, <2>3, <3>1 DEF TypeOK, LockSaysWho, FatLocksApart,
         WellFormed, PcObj, QueueMutex, Queued
  <2> QED
    BY <2>2, <2>3
<1> QED
  BY <1>2, <1>3 DEF Unlock

\* GoOn, after a look at the queue or a walk through it.
LEMMA CheckContentionIInv ==
  ASSUME MonitorAssumption, IInv, NEW t \in Threads,
         CheckContention(t)
  PROVE  IInv'
<1> USE DEF IInv, MonitorAssumption
<1>1. /\ pc[t] = "released"
      /\ UNCHANGED <<locks, queues, oldFlag, toWake, triedGc, program, alive>>
  BY DEF CheckContention
<1>2. CASE contention[t] /\ Goto(t, "contention") /\ UNCHANGED <<obj, seen>>
  BY <1>1, <1>2 DEF TypeOK, LockSaysWho, FatLocksApart, WellFormed, PcObj,
                    QueueMutex, Queued
<1>3. CASE /\ ~contention[t] /\ held[t][obj[t]] > 0
           /\ Goto(t, "leave") /\ UNCHANGED <<obj, seen>>
  BY <1>1, <1>3 DEF TypeOK, LockSaysWho, FatLocksApart, WellFormed, PcObj,
                    QueueMutex, Queued
<1>4. CASE ~contention[t] /\ Done(t)
  BY <1>1, <1>4 DEF TypeOK, LockSaysWho, FatLocksApart, WellFormed, PcObj,
                    QueueMutex, Queued
<1> QED
  BY <1>2, <1>3, <1>4 DEF CheckContention, GoOn

LEMMA WakeWaiterIInv ==
  ASSUME MonitorAssumption, IInv,
         NEW t \in Threads, NEW w \in Threads, WakeWaiter(t, w)
  PROVE  IInv'
<1> USE DEF IInv, MonitorAssumption
<1>1. /\ pc[t] = "wakeWaiters"
      /\ w \in waiters[t]
      /\ toWake' = [toWake EXCEPT ![t] = @ \ {w}]
      /\ UNCHANGED <<queues, seen, oldFlag, program, pc, obj, alive>>
  BY DEF WakeWaiter, QueueMutex
<1>2. CASE UNCHANGED <<locks, triedGc>>
  BY <1>1, <1>2 DEF TypeOK, LockSaysWho, FatLocksApart, WellFormed, PcObj,
                    QueueMutex, Queued
<1>3. CASE ToInflate(t, w) /\ \E f \in FatIds : Inflate(t, waitObj[w], f)
  <2>1. PICK f \in FatIds : Inflate(t, waitObj[w], f)
    BY <1>3
  <2>2. waitObj[w] = obj[w] /\ obj[w] \in Objects /\ lockword[obj[w]].thin = t
    BY <1>1, <1>3 DEF ToInflate, Queued, PcObj
  <2>3. /\ (LockSaysWho /\ FatLocksApart /\ WellFormed)'
        /\ lockword' = [lockword EXCEPT ![obj[w]] = Fat(f)]
        /\ lockword' \in [Objects -> Lockwords]
        /\ fatLock' \in [FatIds -> [owner : Threads \cup {None}, count : Nat]]
        /\ fatFree' \subseteq FatIds
        /\ triedGc' = [triedGc EXCEPT ![t] = FALSE]
    BY <1>1, <2>1, <2>2, InflateLocks
  <2>4. TypeOK'
    BY <1>1, <2>2, <2>3 DEF TypeOK
  <2>5. PcObj'
    BY <1>1, <2>2, <2>3 DEF TypeOK, LockSaysWho, FatLocksApart, WellFormed,
       PcObj
  <2>6. QueueMutex'
    BY <1>1, <2>2, <2>3 DEF TypeOK, PcObj, QueueMutex
  <2>7. Queued'
    BY <1>1, <2>2, <2>3 DEF TypeOK, WellFormed, PcObj, Queued
  <2> QED
    BY <2>3, <2>4, <2>5, <2>6, <2>7
<1>4. CASE InflateFails(t)
  BY <1>1, <1>4 DEF InflateFails, TypeOK, LockSaysWho, FatLocksApart,
                    WellFormed, PcObj, QueueMutex, Queued
<1> QED
  BY <1>2, <1>3, <1>4 DEF WakeWaiter

LEMMA WokenAllIInv ==
  ASSUME MonitorAssumption, IInv, NEW t \in Threads, WokenAll(t)
  PROVE  IInv'
<1> USE DEF IInv, MonitorAssumption
<1>1. /\ pc[t] = "wakeWaiters"
      /\ toWake[t] = {}
      /\ waiters' = [waiters EXCEPT ![t] = {}]
      /\ contention' = [contention EXCEPT ![t] = FALSE]
      /\ mutex' = [mutex EXCEPT ![t] = None]
      /\ UNCHANGED <<locks, waitObj, oldFlag, toWake, triedGc, program,
                     alive>>
  BY DEF WokenAll
<1>2. CASE held[t][obj[t]] > 0 /\ Goto(t, "leave") /\ UNCHANGED <<obj, seen>>
  BY <1>1, <1>2 DEF TypeOK, LockSaysWho, FatLocksApart, WellFormed, PcObj,
                    QueueMutex, Queued
<1>3. CASE Done(t)
  BY <1>1, <1>3 DEF TypeOK, LockSaysWho, FatLocksApart, WellFormed, PcObj,
                    QueueMutex, Queued
<1> QED
  BY <1>2, <1>3 DEF WokenAll, GoOn

LEMMA InflateToWaitIInv ==
  ASSUME MonitorAssumption, IInv, NEW t \in Threads,
         InflateToWait(t)
  PROVE  IInv'
<1> USE DEF IInv, MonitorAssumption
<1>1. /\ pc[t] = "wait"
      /\ obj[t] \in Objects
      /\ lockword[obj[t]].thin = t
      /\ UNCHANGED <<queues, oldFlag, toWake, program, alive>>
  BY DEF InflateToWait, PcObj
<1>2. CASE pc' = [pc EXCEPT ![t] = "released"] /\ UNCHANGED <<obj, seen>>
           /\ \E f \in FatIds : Inflate(t, obj[t], f)
  <2>1. PICK f \in FatIds : Inflate(t, obj[t], f)
    BY <1>2
  <2>2. /\ (LockSaysWho /\ FatLocksApart /\ WellFormed)'
        /\ lockword' = [lockword EXCEPT ![obj[t]] = Fat(f)]
        /\ lockword' \in [Objects -> Lockwords]
        /\ fatLock' \in [FatIds -> [owner : Threads \cup {None}, count : Nat]]
        /\ fatFree' \subseteq FatIds
        /\ triedGc' = [triedGc EXCEPT ![t] = FALSE]
    BY <1>1, <2>1, InflateLocks
  <2>3. TypeOK'
    BY <1>1, <1>2, <2>2 DEF TypeOK
  <2>4. PcObj'
    BY <1>1, <1>2, <2>2 DEF TypeOK, LockSaysWho, FatLocksApart, WellFormed,
       PcObj
  <2>5. QueueMutex'
    BY <1>1, <1>2, <2>2 DEF TypeOK, PcObj, QueueMutex
  <2>6. Queued'
    BY <1>1, <1>2, <2>2 DEF TypeOK, WellFormed, PcObj, Queued
  <2> QED
    BY <2>3, <2>4, <2>5, <2>6, <2>2
<1>3. CASE InflateFails(t) /\ Done(t)
  BY <1>1, <1>3 DEF InflateFails, TypeOK, LockSaysWho, FatLocksApart,
                    WellFormed, PcObj, QueueMutex, Queued
<1> QED
  BY <1>2, <1>3 DEF InflateToWait

LEMMA SwapThinIInv ==
  ASSUME MonitorAssumption, IInv, NEW t \in Threads,
         SwapThin(t)
  PROVE  IInv'
<1> USE DEF IInv, MonitorAssumption, SwapThin
<1> QED
  BY DEF TypeOK, LockSaysWho, FatLocksApart, WellFormed, PcObj, QueueMutex,
         Queued

LEMMA RecurseIInv ==
  ASSUME MonitorAssumption, IInv, NEW t \in Threads,
         Recurse(t)
  PROVE  IInv'
<1> USE DEF IInv, MonitorAssumption, Recurse
<1> QED
  BY DEF TypeOK, LockSaysWho, FatLocksApart, WellFormed, PcObj, QueueMutex,
         Queued

LEMMA LockFatIInv ==
  ASSUME MonitorAssumption, IInv, NEW t \in Threads,
         LockFat(t)
  PROVE  IInv'
<1> USE DEF IInv, MonitorAssumption, LockFat
<1> QED
  BY DEF TypeOK, LockSaysWho, FatLocksApart, WellFormed, PcObj, QueueMutex,
         Queued

LEMMA NoteContentionIInv ==
  ASSUME MonitorAssumption, IInv, NEW t \in Threads,
         NoteContention(t)
  PROVE  IInv'
<1> USE DEF IInv, MonitorAssumption, NoteContention
<1> QED
  BY DEF TypeOK, LockSaysWho, FatLocksApart, WellFormed, PcObj, QueueMutex,
         Queued

LEMMA CollectIInv ==
  ASSUME MonitorAssumption, IInv, NEW t \in Threads,
         Collect(t)
  PROVE  IInv'
<1> USE DEF IInv, MonitorAssumption, Collect, Unused,
           AtSafePoint, WantsGc, Inflating
<1> QED
  BY DEF TypeOK, LockSaysWho, FatLocksApart, WellFormed, PcObj, QueueMutex,
         Queued

LEMMA HandleContentionIInv ==
  ASSUME MonitorAssumption, IInv, NEW t \in Threads,
         HandleContention(t)
  PROVE  IInv'
<1> USE DEF IInv, MonitorAssumption, HandleContention
<1> QED
  BY DEF TypeOK, LockSaysWho, FatLocksApart, WellFormed, PcObj, QueueMutex,
         Queued

LEMMA WaitIInv ==
  ASSUME MonitorAssumption, IInv, NEW t \in Threads, NEW o \in Objects,
         Wait(t, o)
  PROVE  IInv'
<1> USE DEF IInv, MonitorAssumption, Wait, Owns
<1> QED
  BY DEF TypeOK, LockSaysWho, FatLocksApart, WellFormed, PcObj, QueueMutex,
         Queued

LEMMA LeaveMonitorIInv ==
  ASSUME MonitorAssumption, IInv, NEW t \in Threads,
         LeaveMonitor(t)
  PROVE  IInv'
<1> USE DEF IInv, MonitorAssumption, LeaveMonitor
<1> QED
  BY DEF TypeOK, LockSaysWho, FatLocksApart, WellFormed, PcObj, QueueMutex,
         Queued

LEMMA ReenterIInv ==
  ASSUME MonitorAssumption, IInv, NEW t \in Threads,
         Reenter(t)
  PROVE  IInv'
<1> USE DEF IInv, MonitorAssumption, Reenter
<1> QED
  BY DEF TypeOK, LockSaysWho, FatLocksApart, WellFormed, PcObj, QueueMutex,
         Queued

LEMMA ExitIInv ==
  ASSUME MonitorAssumption, IInv, NEW t \in Threads,
         Exit(t)
  PROVE  IInv'
<1> USE DEF IInv, MonitorAssumption, Exit
<1> QED
  BY DEF TypeOK, LockSaysWho, FatLocksApart, WellFormed, PcObj, QueueMutex,
         Queued

-----------------------------------------------------------------------------
(* The invariant *)

\* No step of any thread breaks the invariant.
LEMMA StepIInv == MonitorAssumption /\ IInv /\ [Next]_vars => IInv'
<1> SUFFICES ASSUME MonitorAssumption, IInv, [Next]_vars
             PROVE  IInv'
  OBVIOUS
<1>1. CASE UNCHANGED vars
  BY <1>1 DEF vars, IInv, TypeOK, LockSaysWho, FatLocksApart, WellFormed,
              PcObj, QueueMutex, Queued
<1>2. CASE Next
  <2>1. PICK t \in Threads : Progress(t) \/ Choice(t)
    BY <1>2 DEF Next
  <2>2. CASE Progress(t)
    BY <2>2, RetryIInv, SwapThinIInv, SwapFailsIInv, RecurseIInv, LockFatIInv,
       NoteContentionIInv, JoinWaitersIInv, UnparkIInv, CollectIInv,
       OverflowIInv, CheckContentionIInv, HandleContentionIInv,
       WakeWaiterIInv, WokenAllIInv, InflateToWaitIInv, LeaveMonitorIInv
    DEF Progress
  <2>3. CASE Choice(t)
    BY <2>3, LockIInv, UnlockIInv, WaitIInv, ReenterIInv, ExitIInv DEF Choice
  <2> QED
    BY <2>1, <2>2, <2>3
<1> QED
  BY <1>1, <1>2

\* The invariant holds in every reachable state.
THEOREM Invariance == MonitorAssumption => (Spec => []IInv)
<1> SUFFICES ASSUME MonitorAssumption PROVE Spec => []IInv
  OBVIOUS
<1>1. Init => IInv
  BY InitIInv
<1>2. IInv /\ [Next]_vars => IInv'
  BY StepIInv
<1> QED
  BY <1>1, <1>2, PTL DEF Spec

\* Lockwords, fat locks, queues and flags keep their types.
THEOREM TypeCorrect == MonitorAssumption => (Spec => []TypeOK)
<1> SUFFICES ASSUME MonitorAssumption PROVE Spec => []TypeOK
  OBVIOUS
<1>1. IInv => TypeOK
  BY DEF IInv
<1> QED
  BY <1>1, Invariance, PTL

\* Thin or fat, the lock of an object says who is in its monitor, how often.
THEOREM LocksSayWho == MonitorAssumption => (Spec => []LockSaysWho)
<1> SUFFICES ASSUME MonitorAssumption PROVE Spec => []LockSaysWho
  OBVIOUS
<1>1. IInv => LockSaysWho
  BY DEF IInv
<1> QED
  BY <1>1, Invariance, PTL

\* Fat locks are not shared, whatever the collections recycle.
THEOREM FatLocksAreApart == MonitorAssumption => (Spec => []FatLocksApart)
<1> SUFFICES ASSUME MonitorAssumption PROVE Spec => []FatLocksApart
  OBVIOUS
<1>1. IInv => FatLocksApart
  BY DEF IInv
<1> QED
  BY <1>1, Invariance, PTL

\* A lock has one owner, so that a monitor has one thread in it.
LEMMA OneHolder == MonitorAssumption /\ IInv => MutualExclusion
<1> SUFFICES ASSUME MonitorAssumption, IInv,
                    NEW o \in Objects, NEW t \in Threads, NEW u \in Threads,
                    held[t][o] > 0, held[u][o] > 0
             PROVE  t = u
  BY DEF MutualExclusion
<1>1. CASE lockword[o].fat # None
  <2>1. ASSUME NEW v \in Threads, held[v][o] > 0 PROVE fatLock[lockword[o].fat].owner = v
    BY <1>1, <2>1 DEF IInv, LockSaysWho
  <2> QED
    BY <2>1
<1>2. CASE lockword[o].fat = None
  <2>1. ASSUME NEW v \in Threads, held[v][o] > 0 PROVE lockword[o].thin = v
    BY <1>2, <2>1 DEF IInv, LockSaysWho
  <2> QED
    BY <2>1
<1> QED
  BY <1>1, <1>2

\* Two threads are never in one monitor.
THEOREM MonitorsExclude == MonitorAssumption => (Spec => []MutualExclusion)
<1> SUFFICES ASSUME MonitorAssumption PROVE Spec => []MutualExclusion
  OBVIOUS
<1>1. IInv => MutualExclusion
  BY OneHolder
<1> QED
  BY <1>1, Invariance, PTL

\* Contention handling inflates nobody else's thin locks: what is left of the
\* waiters' list is part of the list, and those on it wait for this thread.
THEOREM OwnLocksInflated == MonitorAssumption => (Spec => []InflatesOwnLocks)
<1> SUFFICES ASSUME MonitorAssumption PROVE Spec => []InflatesOwnLocks
  OBVIOUS
<1>1. IInv => InflatesOwnLocks
  BY DEF IInv, InflatesOwnLocks, ToInflate, QueueMutex, Queued
<1> QED
  BY <1>1, Invariance, PTL

-----------------------------------------------------------------------------
(* Nobody is left in a queue *)

\* No thread enters a monitor more often than a thin lock counts, and no number
\* of a fat lock reads as a thread's.  With either, a thread can be stranded:
\* its owner goes to Object.wait() with a fat lock, and does not look at its
\* contention flag.
ThinSuffices == MaxDepth <= MaxThin /\ "idOverlap" \notin Races

Looking == {"released", "contention", "wakeWaiters"}

\* A thread on its way into a monitor is not in it too often.
Shallow ==
  \A t \in Threads :
    /\ pc[t] # "overflow"
    /\ pc[t] \in {"cas", "contend", "noted", "parked", "retry"} =>
         held[t][obj[t]] < MaxDepth

\* What a waiter waits for is its owner's thin lock, which the owner cannot give
\* up without a look at the flag, or the owner is about to look.
Watched ==
  \A t \in Threads : \A w \in waiters[t] :
    lockword[waitObj[w]].thin = t \/ pc[t] \in Looking

Watch == Shallow /\ Watched

LEMMA InitWatch == ASSUME Init PROVE Watch
BY DEF Init, Watch, Shallow, Watched

LEMMA ReadLockwordWatch ==
  ASSUME MonitorAssumption, ThinSuffices, IInv, Watch,
         NEW t \in Threads, NEW o \in Objects,
         pc[t] = "java" \/ (pc[t] = "retry" /\ o = obj[t]),
         held[t][o] < MaxDepth, ReadLockword(t, o), UNCHANGED <<queues, alive>>
  PROVE  Watch'
<1> USE DEF IInv, MonitorAssumption, Watch, Looking
<1>1. CASE lockword[o] = Unlocked /\ "unowned" \notin Races
  <2>1. /\ lockword' = [lockword EXCEPT ![o] = Thin(t, 0)]
        /\ held' = [held EXCEPT ![t][o] = @ + 1]
        /\ pc' = [pc EXCEPT ![t] = "java"]
        /\ obj' = [obj EXCEPT ![t] = None]
        /\ UNCHANGED queues
    BY <1>1 DEF ReadLockword
  <2>2. Shallow'
    BY <2>1 DEF TypeOK, Shallow
  <2>3. Watched'
    BY <1>1, <2>1 DEF TypeOK, Watched
  <2> QED
    BY <2>2, <2>3
<1>2. CASE ~(lockword[o] = Unlocked /\ "unowned" \notin Races)
  <2>1. /\ obj' = [obj EXCEPT ![t] = o]
        /\ pc' = [pc EXCEPT ![t] = "cas"]
        /\ UNCHANGED <<locks, queues, program>>
    BY <1>2 DEF ReadLockword
  <2>2. Shallow'
    BY <2>1 DEF TypeOK, Shallow
  <2>3. Watched'
    BY <2>1 DEF TypeOK, Watched
  <2> QED
    BY <2>2, <2>3
<1> QED
  BY <1>1, <1>2

\* The recursion count of a thin lock does not overflow.
LEMMA SwapFailsWatch ==
  ASSUME MonitorAssumption, ThinSuffices, IInv, Watch, NEW t \in Threads, SwapFails(t)
  PROVE  Watch'
<1> USE DEF IInv, MonitorAssumption, Watch, Looking
<1>1. ~(seen[t].thin = t /\ seen[t].count + 1 = MaxThin)
  <2> SUFFICES ASSUME seen[t].thin = t, seen[t].count + 1 = MaxThin PROVE FALSE
    OBVIOUS
  <2>1. obj[t] \in Objects /\ lockword[obj[t]] = seen[t] /\ held[t][obj[t]] < MaxDepth
    BY DEF SwapFails, PcObj, Shallow
  <2>2. held[t][obj[t]] = seen[t].count + 1
    BY <2>1 DEF LockSaysWho, WellFormed
  <2> QED
    BY <2>1, <2>2 DEF ThinSuffices, TypeOK
<1>2. PICK l \in {"fat", "contend"} : pc' = [pc EXCEPT ![t] = l]
  BY <1>1 DEF SwapFails
<1>3. pc[t] = "cas" /\ UNCHANGED <<locks, queues, locals, program, obj, alive>>
  BY DEF SwapFails
<1> QED
  BY <1>2, <1>3 DEF TypeOK, Shallow, Watched

LEMMA JoinWaitersWatch ==
  ASSUME MonitorAssumption, ThinSuffices, IInv, Watch, NEW t \in Threads, JoinWaiters(t)
  PROVE  Watch'
<1> USE DEF IInv, MonitorAssumption, Watch, Looking
<1> DEFINE owner == seen[t].thin
<1>1. pc[t] = "noted" /\ UNCHANGED <<locks, program, obj>>
  BY DEF JoinWaiters
<1>2. owner \in Threads /\ owner # t /\ \A u \in Threads : t \notin waiters[u]
  BY <1>1 DEF PcObj, QueueMutex, Queued
<1>3. CASE ReadsAs(lockword[obj[t]], owner)
  <2>1. /\ waiters' = [waiters EXCEPT ![owner] = @ \cup {t}]
        /\ waitObj' = [waitObj EXCEPT ![t] = obj[t]]
        /\ pc' = [pc EXCEPT ![t] = "parked"]
        /\ lockword[obj[t]].thin = owner
    BY <1>3 DEF JoinWaiters, ReadsAs, ThinSuffices
  <2> QED
    BY <1>1, <1>2, <2>1 DEF TypeOK, Shallow, Watched
<1>4. CASE ~ReadsAs(lockword[obj[t]], owner)
  <2>1. pc' = [pc EXCEPT ![t] = "retry"] /\ UNCHANGED <<waiters, waitObj>>
    BY <1>4 DEF JoinWaiters
  <2>2. Shallow'
    BY <1>1, <2>1 DEF TypeOK, Shallow
  <2>3. Watched'
    BY <1>1, <2>1 DEF TypeOK, Watched
  <2> QED
    BY <2>2, <2>3
<1> QED
  BY <1>3, <1>4

\* A thread that inflates a lock with waiters is about to look at its flag.
LEMMA InflateWatch ==
  ASSUME MonitorAssumption, ThinSuffices, IInv, Watch,
         NEW t \in Threads, NEW o \in Objects, NEW f \in FatIds,
         lockword[o].thin = t, Inflate(t, o, f), pc[t] \in {"wait", "wakeWaiters"},
         pc' = [pc EXCEPT ![t] = pc'[t]], pc'[t] \in Looking,
         UNCHANGED <<queues, program, obj>>
  PROVE  Watch'
BY DEF IInv, MonitorAssumption, Watch, Looking, Inflate, TypeOK, Shallow, Watched

LEMMA UnlockWatch ==
  ASSUME MonitorAssumption, ThinSuffices, IInv, Watch,
         NEW t \in Threads, NEW o \in Objects, Unlock(t, o)
  PROVE  Watch'
<1> USE DEF IInv, MonitorAssumption, Watch, Looking
<1>1. /\ pc[t] = "java"
      /\ held' = [held EXCEPT ![t][o] = @ - 1]
      /\ UNCHANGED <<queues, alive>>
  BY DEF Unlock
<1>2. CASE UnlockThin(t, o)
  <2>1. CASE lockword[o].count > 0
    <3>1. lockword' = [lockword EXCEPT ![o] = Thin(t, @.count - 1)] /\ UNCHANGED <<pc, obj>>
      BY <1>2, <2>1 DEF UnlockThin
    <3>2. lockword[o].thin = t
      BY <1>2 DEF UnlockThin, Unlock, Owns
    <3>3. Shallow'
      BY <1>1, <3>1 DEF TypeOK, Shallow
    <3>4. Watched'
      BY <1>1, <3>1, <3>2 DEF TypeOK, Watched
    <3> QED
      BY <3>3, <3>4
  <2>2. CASE ~(lockword[o].count > 0)
    <3>1. /\ lockword' = [lockword EXCEPT ![o] = Unlocked]
          /\ pc' = [pc EXCEPT ![t] = "released"]
          /\ obj' = [obj EXCEPT ![t] = o]
          /\ lockword[o].thin = t
      BY <1>2, <2>2 DEF UnlockThin, Unlock, Owns
    <3> QED
      BY <1>1, <3>1 DEF TypeOK, Shallow, Watched
  <2> QED
    BY <2>1, <2>2
<1>3. CASE UnlockFat(t, o)
  <2>1. UNCHANGED lockword /\ (UNCHANGED <<pc, obj>>
          \/ (pc' = [pc EXCEPT ![t] = "released"] /\ obj' = [obj EXCEPT ![t] = o]))
    BY <1>3 DEF UnlockFat
  <2> QED
    <3>1. Shallow'
      BY <1>1, <2>1 DEF TypeOK, Shallow
    <3>2. Watched'
      BY <1>1, <2>1 DEF TypeOK, Watched
    <3> QED
      BY <3>1, <3>2
<1> QED
  BY <1>2, <1>3 DEF Unlock

LEMMA LooksOn ==
  ASSUME Watch, TypeOK, NEW t \in Threads, NEW l \in Looking,
         pc' = [pc EXCEPT ![t] = l], UNCHANGED <<locks, queues, program, obj>>
  PROVE  Watch'
<1>1. Shallow'
  BY DEF Looking, Watch, TypeOK, Shallow
<1>2. Watched'
  BY DEF Looking, Watch, TypeOK, Watched
<1> QED
  BY <1>1, <1>2 DEF Watch

\* A thread without waiters may go where it likes.
LEMMA GoOnWatch ==
  ASSUME Watch, TypeOK, NEW t \in Threads, GoOn(t),
         UNCHANGED <<locks, waitObj, program>>,
         waiters'[t] = {}, \A u \in Threads \ {t} : waiters'[u] = waiters[u]
  PROVE  Watch'
<1>1. PICK l \in {"leave", "java"} : pc' = [pc EXCEPT ![t] = l]
  BY DEF GoOn
<1>2. \A u \in Threads \ {t} : obj'[u] = obj[u]
  BY DEF GoOn, TypeOK
<1>3. Shallow'
  BY <1>1, <1>2 DEF Watch, TypeOK, Shallow
<1>4. Watched'
  BY <1>1 DEF Watch, TypeOK, Watched, Looking
<1> QED
  BY <1>3, <1>4 DEF Watch

\* Who looks at its flag and finds it down, or has woken all, has no waiters.
LEMMA LookWatch ==
  ASSUME MonitorAssumption, ThinSuffices, IInv, Watch, NEW t \in Threads,
         CheckContention(t) \/ HandleContention(t) \/ WokenAll(t)
  PROVE  Watch'
<1> USE DEF IInv, MonitorAssumption, Watch, Looking
<1>1. CASE CheckContention(t) /\ contention[t]
  <2>1. /\ pc' = [pc EXCEPT ![t] = "contention"]
        /\ UNCHANGED <<locks, queues, program, obj>>
    BY <1>1 DEF CheckContention
  <2> QED
    BY <2>1, LooksOn
<1>2. CASE CheckContention(t) /\ ~contention[t]
  <2>1. waiters[t] = {}
    BY <1>2 DEF QueueMutex
  <2>2. GoOn(t) /\ UNCHANGED <<locks, queues, program>>
    BY <1>2 DEF CheckContention
  <2>3. waiters'[t] = {} /\ \A u \in Threads \ {t} : waiters'[u] = waiters[u]
    BY <2>1, <2>2
  <2> QED
    BY <2>2, <2>3, GoOnWatch
<1>3. CASE HandleContention(t)
  BY <1>3 DEF HandleContention, TypeOK, Shallow, Watched
<1>4. CASE WokenAll(t)
  <2>1. waiters' = [waiters EXCEPT ![t] = {}] /\ GoOn(t) /\ UNCHANGED <<locks, waitObj, program>>
    BY <1>4 DEF WokenAll
  <2>2. waiters'[t] = {} /\ \A u \in Threads \ {t} : waiters'[u] = waiters[u]
    BY <2>1 DEF TypeOK
  <2> QED
    BY <2>1, <2>2, GoOnWatch
<1> QED
  BY <1>1, <1>2, <1>3, <1>4

LEMMA WakeWaiterWatch ==
  ASSUME MonitorAssumption, ThinSuffices, IInv, Watch,
         NEW t \in Threads, NEW w \in Threads, WakeWaiter(t, w)
  PROVE  Watch'
<1> USE DEF IInv, MonitorAssumption, Watch, Looking
<1>1. /\ pc[t] = "wakeWaiters"
      /\ w \in waiters[t]
      /\ UNCHANGED <<queues, program, pc, obj>>
  BY DEF WakeWaiter, QueueMutex
<1>2. CASE UNCHANGED locks
  BY <1>1, <1>2 DEF Shallow, Watched
<1>3. CASE ToInflate(t, w) /\ \E f \in FatIds : Inflate(t, waitObj[w], f)
  <2>1. PICK f \in FatIds : Inflate(t, waitObj[w], f)
    BY <1>3
  <2>2. waitObj[w] \in Objects /\ lockword[waitObj[w]].thin = t
    BY <1>1, <1>3 DEF ToInflate, Queued, PcObj
  <2>3. pc' = [pc EXCEPT ![t] = pc'[t]] /\ pc'[t] \in Looking
    BY <1>1 DEF TypeOK
  <2> QED
    BY <1>1, <2>1, <2>2, <2>3, InflateWatch
<1> QED
  BY <1>2, <1>3 DEF WakeWaiter, InflateFails

LEMMA InflateToWaitWatch ==
  ASSUME MonitorAssumption, ThinSuffices, IInv, Watch, NEW t \in Threads, InflateToWait(t)
  PROVE  Watch'
<1> USE DEF IInv, MonitorAssumption, Watch, Looking
<1>1. /\ pc[t] = "wait"
      /\ obj[t] \in Objects
      /\ lockword[obj[t]].thin = t
      /\ UNCHANGED <<queues, program>>
  BY DEF InflateToWait, PcObj
<1>2. CASE pc' = [pc EXCEPT ![t] = "released"] /\ UNCHANGED <<obj, seen>>
           /\ \E f \in FatIds : Inflate(t, obj[t], f)
  <2>1. pc' = [pc EXCEPT ![t] = pc'[t]] /\ pc'[t] \in Looking
    BY <1>2 DEF TypeOK
  <2> QED
    BY <1>1, <1>2, <2>1, InflateWatch
<1>3. CASE InflateFails(t) /\ Done(t)
  BY <1>1, <1>3 DEF InflateFails, TypeOK, Shallow, Watched
<1> QED
  BY <1>2, <1>3 DEF InflateToWait

\* A collection recycles no lock that somebody waits for.
LEMMA CollectWatch ==
  ASSUME MonitorAssumption, ThinSuffices, IInv, Watch, NEW t \in Threads, Collect(t)
  PROVE  Watch'
<1> USE DEF IInv, MonitorAssumption, Watch, Looking
<1>1. PICK dead \in SUBSET {o \in Objects : Unused(o)} :
        lockword' = [o \in Objects |-> IF o \in dead THEN Unlocked ELSE lockword[o]]
  BY DEF Collect
<1>2. UNCHANGED <<queues, program, pc, obj>>
  BY DEF Collect
<1>3. ASSUME NEW u \in Threads, NEW w \in waiters[u]
      PROVE  waitObj[w] \in Objects \ dead
  <2>1. w \in Threads /\ waitObj[w] = obj[w] /\ obj[w] \in Objects
    BY DEF TypeOK, Queued, PcObj
  <2> QED
    BY <2>1, <1>1 DEF Unused
<1> QED
  BY <1>1, <1>2, <1>3 DEF Shallow, Watched

\* The other steps change neither queues nor the locks of others.
LEMMA OtherWatch ==
  ASSUME MonitorAssumption, ThinSuffices, IInv, Watch, NEW t \in Threads,
         \/ SwapThin(t) \/ Recurse(t) \/ LockFat(t) \/ NoteContention(t)
         \/ Unpark(t) \/ LeaveMonitor(t) \/ Reenter(t) \/ Exit(t)
         \/ \E o \in Objects : Wait(t, o)
  PROVE  Watch'
<1> USE DEF IInv, MonitorAssumption, Watch, Looking
<1>1. CASE SwapThin(t)
  BY <1>1 DEF SwapThin, TypeOK, PcObj, Shallow, Watched
<1>2. CASE Recurse(t)
  BY <1>2 DEF Recurse, TypeOK, PcObj, Shallow, Watched
<1>3. CASE LockFat(t)
  BY <1>3 DEF LockFat, TypeOK, Shallow, Watched
<1>4. CASE NoteContention(t)
  BY <1>4 DEF NoteContention, TypeOK, Shallow, Watched
<1>5. CASE Unpark(t)
  <2>1. \A u \in Threads : t \notin waiters[u]
    BY <1>5 DEF Unpark, Queued
  <2> QED
    BY <1>5, <2>1 DEF Unpark, TypeOK, Shallow, Watched
<1>6. CASE LeaveMonitor(t)
  BY <1>6 DEF LeaveMonitor, TypeOK, Shallow, Watched
<1>7. CASE Reenter(t)
  BY <1>7 DEF Reenter, TypeOK, Shallow, Watched
<1>8. CASE Exit(t)
  BY <1>8 DEF Exit, TypeOK, Shallow, Watched
<1>9. CASE \E o \in Objects : Wait(t, o)
  BY <1>9 DEF Wait, TypeOK, Shallow, Watched
<1> QED
  BY <1>1, <1>2, <1>3, <1>4, <1>5, <1>6, <1>7, <1>8, <1>9

LEMMA StepWatch ==
  MonitorAssumption /\ ThinSuffices /\ IInv /\ Watch /\ [Next]_vars => Watch'
<1> SUFFICES ASSUME MonitorAssumption, ThinSuffices, IInv, Watch, [Next]_vars
             PROVE  Watch'
  OBVIOUS
<1>1. CASE UNCHANGED vars
  BY <1>1 DEF vars, Watch, Shallow, Watched
<1>2. CASE Next
  <2>1. PICK t \in Threads : Progress(t) \/ Choice(t)
    BY <1>2 DEF Next
  <2>2. ASSUME Retry(t) PROVE Watch'
    <3>1. obj[t] \in Objects /\ held[t][obj[t]] < MaxDepth
      BY <2>2 DEF Retry, IInv, PcObj, Watch, Shallow
    <3> QED
      BY <2>2, <3>1, ReadLockwordWatch DEF Retry
  <2>3. ASSUME NEW o \in Objects, Lock(t, o) PROVE Watch'
    BY <2>3, ReadLockwordWatch DEF Lock
  <2>4. ~Overflow(t)
    BY DEF Overflow, Watch, Shallow
  <2>5. CASE Progress(t)
    BY <2>5, <2>2, <2>4, SwapFailsWatch, JoinWaitersWatch, CollectWatch, LookWatch,
       WakeWaiterWatch, InflateToWaitWatch, OtherWatch
    DEF Progress
  <2>6. CASE Choice(t)
    BY <2>6, <2>3, UnlockWatch, OtherWatch DEF Choice
  <2> QED
    BY <2>1, <2>5, <2>6
<1> QED
  BY <1>1, <1>2

\* A thread that sleeps in the queue of another is not forgotten there, threads
\* that end and locks that are taken under its eyes included, unless a thin
\* lock overflows or fat locks' numbers read as threads'.
THEOREM NobodyStranded ==
  MonitorAssumption /\ ThinSuffices => (Spec => []NoStrandedWaiter)
<1> SUFFICES ASSUME MonitorAssumption, ThinSuffices PROVE Spec => []NoStrandedWaiter
  OBVIOUS
<1>1. Init => Watch
  BY InitWatch
<1>2. IInv /\ Watch /\ [Next]_vars => Watch'
  BY StepWatch
<1>3. ASSUME IInv, Watch PROVE NoStrandedWaiter
  <2> SUFFICES ASSUME NEW t \in Threads, NEW w \in waiters[t]
               PROVE  contention[t] /\ (held[t][waitObj[w]] > 0 \/ pc[t] \in Looking)
    BY DEF NoStrandedWaiter, Looking
  <2>1. contention[t]
    BY <1>3 DEF IInv, QueueMutex
  <2>2. waitObj[w] \in Objects
    BY <1>3 DEF IInv, TypeOK, Queued, PcObj
  <2>3. ASSUME lockword[waitObj[w]].thin = t PROVE held[t][waitObj[w]] > 0
    <3>1. lockword[waitObj[w]].fat = None
      BY <1>3, <2>2, <2>3 DEF MonitorAssumption, IInv, WellFormed
    <3>2. held[t][waitObj[w]] = lockword[waitObj[w]].count + 1
      BY <1>3, <2>2, <2>3, <3>1 DEF IInv, LockSaysWho
    <3> QED
      BY <1>3, <2>2, <3>2 DEF IInv, TypeOK
  <2> QED
    BY <1>3, <2>1, <2>3 DEF Watch, Watched
<1> QED
  BY <1>1, <1>2, <1>3, Invariance, PTL DEF Spec

-----------------------------------------------------------------------------
(* Monitor implements Monitors *)

\* Who takes a lock, in whatever way, enters a monitor that is free or its own.
LEMMA EnterRefines ==
  ASSUME MonitorAssumption, IInv, IInv',
         NEW t \in Threads, NEW o \in Objects, Entered(t, o)
  PROVE  M!Enter(t, o)
<1>1. held'[t][o] > 0
  BY DEF IInv, TypeOK
<1>2. \A u \in Threads \ {t} : held[u][o] = 0
  <2> TAKE u \in Threads \ {t}
  <2>1. held'[u][o] \in Nat /\ held'[u][o] = held[u][o]
    BY DEF IInv, TypeOK
  <2>2. CASE lockword'[o].fat # None
    BY <1>1, <2>1, <2>2 DEF IInv, LockSaysWho, TypeOK
  <2>3. CASE lockword'[o].fat = None
    BY <1>1, <2>1, <2>3 DEF IInv, LockSaysWho, TypeOK
  <2> QED
    BY <2>2, <2>3
<1> QED
  BY <1>2 DEF M!Enter

\* Giving up the fat lock gives up the monitor, and all of it.
LEMMA LeaveRefines ==
  ASSUME MonitorAssumption, IInv, NEW t \in Threads, LeaveMonitor(t)
  PROVE  obj[t] \in Objects /\ M!StartWait(t, obj[t])
<1>1. /\ obj[t] \in Objects
      /\ held[t][obj[t]] > 0
      /\ lockword[obj[t]].fat # None
      /\ kept[t] = 0
  BY DEF LeaveMonitor, IInv, TypeOK, PcObj
<1>2. fatLock[lockword[obj[t]].fat].count = held[t][obj[t]]
  BY <1>1 DEF IInv, TypeOK, LockSaysWho
<1> QED
  BY <1>1, <1>2 DEF LeaveMonitor, M!StartWait

\* A fat lock without an owner is a monitor with nobody in it.
LEMMA ReenterRefines ==
  ASSUME MonitorAssumption, IInv, NEW t \in Threads, Reenter(t)
  PROVE  obj[t] \in Objects /\ M!EndWait(t, obj[t])
<1>1. /\ obj[t] \in Objects
      /\ lockword[obj[t]].fat # None
      /\ kept[t] > 0
  BY DEF Reenter, IInv, TypeOK, PcObj
<1>2. \A u \in Threads : held[u][obj[t]] = 0
  BY <1>1 DEF Reenter, IInv, TypeOK, LockSaysWho, WellFormed
<1> QED
  BY <1>1, <1>2 DEF Reenter, M!EndWait, M!Free

\* A step of one thread is a step of Monitors, or one that it does not see.
LEMMA StepRefines ==
  ASSUME MonitorAssumption, IInv, IInv', NEW t \in Threads,
         Progress(t) \/ Choice(t)
  PROVE  (\E o \in Objects : \/ M!Enter(t, o)
                             \/ M!Exit(t, o)
                             \/ M!StartWait(t, o)
                             \/ M!EndWait(t, o))
         \/ UNCHANGED <<held, kept>>
<1>1. CASE \E o \in Objects : Lock(t, o)
  BY <1>1, EnterRefines DEF Lock, ReadLockword
<1>2. CASE \E o \in Objects : Unlock(t, o)
  BY <1>2 DEF Unlock, M!Exit
<1>3. CASE \E o \in Objects : Wait(t, o)
  BY <1>3 DEF Wait
<1>4. CASE LeaveMonitor(t)
  BY <1>4, LeaveRefines
<1>5. CASE Reenter(t)
  BY <1>5, ReenterRefines
<1>6. CASE Retry(t) \/ SwapThin(t) \/ Recurse(t) \/ LockFat(t)
  <2>1. obj[t] \in Objects
    BY <1>6 DEF Retry, SwapThin, Recurse, LockFat, IInv, PcObj
  <2>2. Entered(t, obj[t]) \/ UNCHANGED <<held, kept>>
    BY <1>6 DEF Retry, ReadLockword, SwapThin, Recurse, LockFat
  <2> QED
    BY <2>1, <2>2, EnterRefines
<1>7. CASE SwapFails(t) \/ NoteContention(t) \/ JoinWaiters(t) \/ Unpark(t)
  BY <1>7 DEF SwapFails, NoteContention, JoinWaiters, Unpark
<1>8. CASE Collect(t) \/ Overflow(t) \/ CheckContention(t)
           \/ HandleContention(t)
  BY <1>8 DEF Collect, Overflow, CheckContention, HandleContention
<1>9. CASE (\E w \in Threads : WakeWaiter(t, w)) \/ WokenAll(t)
           \/ InflateToWait(t) \/ Exit(t)
  BY <1>9 DEF WakeWaiter, WokenAll, InflateToWait, Exit
<1> QED
  BY <1>1, <1>2, <1>3, <1>4, <1>5, <1>6, <1>7, <1>8, <1>9
  DEF Progress, Choice

\* Thin locks, inflation, contention and collections together are monitors:
\* held by one thread at a time, given up and taken back whole by wait().
THEOREM Refinement == MonitorAssumption => (Spec => RefinesMonitors)
<1> SUFFICES ASSUME MonitorAssumption PROVE Spec => RefinesMonitors
  OBVIOUS
<1>1. Init => M!Init
  BY DEF Init, M!Init
<1>2. IInv /\ IInv' /\ [Next]_vars => [M!Next]_M!vars
  <2> SUFFICES ASSUME IInv, IInv', [Next]_vars
               PROVE  M!Next \/ UNCHANGED <<held, kept>>
    BY DEF M!vars
  <2>1. CASE UNCHANGED vars
    BY <2>1 DEF vars
  <2>2. CASE Next
    <3>1. PICK t \in Threads : Progress(t) \/ Choice(t)
      BY <2>2 DEF Next
    <3> QED
      BY <3>1, StepRefines DEF M!Next
  <2> QED
    BY <2>1, <2>2
<1> QED
  BY <1>1, <1>2, Invariance, PTL DEF Spec, RefinesMonitors, M!Spec

=============================================================================
