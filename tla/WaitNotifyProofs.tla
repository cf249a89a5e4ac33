-------------------------- MODULE WaitNotifyProofs --------------------------
(***************************************************************************)
(* Proofs about WaitNotify, for any threads, whoever of them may wait or   *)
(* call, and any width of the notification counter: IInv is inductive; the *)
(* assertions on the interrupt status hold, no wait ends without a reason, *)
(* nobody sleeps through an interrupt or notifyAll(), no interrupt is lost.*)
(***************************************************************************)
EXTENDS WaitNotify, TLAPS

USE DEF Entering, Waiting, Leaving, Interrupting, Pcs, Statuses, lock, flags,
        locals, Goto, WakeAll

-----------------------------------------------------------------------------
(* Every step keeps the invariant: one lemma per action *)

\* It holds at the start.
LEMMA InitIInv == ASSUME WaitAssumption, Init PROVE IInv
BY DEF WaitAssumption, Init, IInv, TypeOK, Mutexes, StatusFits, Listed,
       WakerComes, CountTold, NoSpuriousReturn, NotifyAllReachesAll

\* Taking the monitor leaves wait() alone.
LEMMA LockIInv ==
  ASSUME WaitAssumption, IInv, NEW t \in Threads, Lock(t)
  PROVE  IInv'
<1> USE DEF WaitAssumption, IInv, Lock
<1>1. TypeOK'
  BY DEF TypeOK
<1>2. Mutexes'
  BY DEF TypeOK, Mutexes
<1>3. StatusFits'
  BY DEF TypeOK, StatusFits, Mutexes
<1>4. Listed'
  BY DEF TypeOK, Listed, StatusFits
<1>5. WakerComes'
  BY DEF TypeOK, WakerComes, Mutexes, StatusFits, Listed
<1>6. CountTold'
  BY DEF TypeOK, CountTold
<1>7. NoSpuriousReturn'
  BY DEF TypeOK, NoSpuriousReturn, CountTold, StatusFits
<1>8. NotifyAllReachesAll'
  BY DEF TypeOK, NotifyAllReachesAll
<1> QED
  BY <1>1, <1>2, <1>3, <1>4, <1>5, <1>6, <1>7, <1>8

\* So does leaving it.
LEMMA UnlockIInv ==
  ASSUME WaitAssumption, IInv, NEW t \in Threads, Unlock(t)
  PROVE  IInv'
<1> USE DEF WaitAssumption, IInv, Unlock
<1>1. TypeOK'
  BY DEF TypeOK
<1>2. Mutexes'
  BY DEF TypeOK, Mutexes
<1>3. StatusFits'
  BY DEF TypeOK, StatusFits, Mutexes
<1>4. Listed'
  BY DEF TypeOK, Listed, StatusFits
<1>5. WakerComes'
  BY DEF TypeOK, WakerComes, Mutexes, StatusFits, Listed
<1>6. CountTold'
  BY DEF TypeOK, CountTold
<1>7. NoSpuriousReturn'
  BY DEF TypeOK, NoSpuriousReturn, CountTold, StatusFits
<1>8. NotifyAllReachesAll'
  BY DEF TypeOK, NotifyAllReachesAll
<1> QED
  BY <1>1, <1>2, <1>3, <1>4, <1>5, <1>6, <1>7, <1>8

\* A signal: those who sleep on may still take it later.
LEMMA NotifyIInv ==
  ASSUME WaitAssumption, IInv, NEW t \in Threads, Notify(t)
  PROVE  IInv'
<1> USE DEF WaitAssumption, IInv, Notify, Notification
<1>1. TypeOK'
  BY DEF TypeOK
<1>2. Mutexes'
  BY DEF TypeOK, Mutexes
<1>3. StatusFits'
  BY DEF TypeOK, StatusFits, Mutexes
<1>4. Listed'
  BY DEF TypeOK, Listed, StatusFits
<1>5. WakerComes'
  BY DEF TypeOK, WakerComes, Mutexes, StatusFits, Listed
<1>6. CountTold'
  BY DEF TypeOK, CountTold
<1>7. NoSpuriousReturn'
  BY DEF TypeOK, NoSpuriousReturn, CountTold, StatusFits
<1>8. NotifyAllReachesAll'
  BY DEF TypeOK, NotifyAllReachesAll
<1> QED
  BY <1>1, <1>2, <1>3, <1>4, <1>5, <1>6, <1>7, <1>8

\* A broadcast: nobody it was meant for sleeps on.
LEMMA NotifyAllIInv ==
  ASSUME WaitAssumption, IInv, NEW t \in Threads, NotifyAll(t)
  PROVE  IInv'
<1> USE DEF WaitAssumption, IInv, NotifyAll, Notification
<1>1. TypeOK'
  BY DEF TypeOK
<1>2. Mutexes'
  BY DEF TypeOK, Mutexes
<1>3. StatusFits'
  BY DEF TypeOK, StatusFits, Mutexes
<1>4. Listed'
  BY DEF TypeOK, Listed, StatusFits
<1>5. WakerComes'
  BY DEF TypeOK, WakerComes, Mutexes, StatusFits, Listed
<1>6. CountTold'
  BY DEF TypeOK, CountTold
<1>7. NoSpuriousReturn'
  BY DEF TypeOK, NoSpuriousReturn, CountTold, StatusFits
<1>8. NotifyAllReachesAll'
  BY DEF TypeOK, NotifyAllReachesAll
<1> QED
  BY <1>1, <1>2, <1>3, <1>4, <1>5, <1>6, <1>7, <1>8

\* A thread that gives the monitor up keeps the mutex.
LEMMA WaitIInv ==
  ASSUME WaitAssumption, IInv, NEW t \in Threads, NEW b \in BOOLEAN,
         Wait(t, b)
  PROVE  IInv'
<1> USE DEF WaitAssumption, IInv, Wait
<1>1. TypeOK'
  BY DEF TypeOK
<1>2. Mutexes'
  BY DEF TypeOK, Mutexes
<1>3. StatusFits'
  BY DEF TypeOK, StatusFits, Mutexes
<1>4. Listed'
  BY DEF TypeOK, Listed, StatusFits
<1>5. WakerComes'
  BY DEF TypeOK, WakerComes, Mutexes, StatusFits, Listed
<1>6. CountTold'
  BY DEF TypeOK, CountTold
<1>7. NoSpuriousReturn'
  BY DEF TypeOK, NoSpuriousReturn, CountTold, StatusFits
<1>8. NotifyAllReachesAll'
  BY DEF TypeOK, NotifyAllReachesAll
<1> QED
  BY <1>1, <1>2, <1>3, <1>4, <1>5, <1>6, <1>7, <1>8

\* The lock is listed before the thread calls itself interruptible.
LEMMA ReadStatusInIInv ==
  ASSUME WaitAssumption, IInv, NEW t \in Threads, ReadStatusIn(t)
  PROVE  IInv'
<1> USE DEF WaitAssumption, IInv, ReadStatusIn
<1>1. TypeOK'
  BY DEF TypeOK
<1>2. Mutexes'
  BY DEF TypeOK, Mutexes
<1>3. StatusFits'
  BY DEF TypeOK, StatusFits, Mutexes
<1>4. Listed'
  BY DEF TypeOK, Listed, StatusFits
<1>5. WakerComes'
  BY DEF TypeOK, WakerComes, Mutexes, StatusFits, Listed
<1>6. CountTold'
  BY DEF TypeOK, CountTold
<1>7. NoSpuriousReturn'
  BY DEF TypeOK, NoSpuriousReturn, CountTold, StatusFits
<1>8. NotifyAllReachesAll'
  BY DEF TypeOK, NotifyAllReachesAll
<1> QED
  BY <1>1, <1>2, <1>3, <1>4, <1>5, <1>6, <1>7, <1>8

\* From here on the thread may be interrupted, or has been already.
LEMMA SwapInIInv ==
  ASSUME WaitAssumption, IInv, NEW t \in Threads, SwapIn(t)
  PROVE  IInv'
<1> USE DEF WaitAssumption, IInv, SwapIn, Finish
<1>1. TypeOK'
  BY DEF TypeOK
<1>2. Mutexes'
  BY DEF TypeOK, Mutexes
<1>3. StatusFits'
  BY DEF TypeOK, StatusFits, Mutexes
<1>4. Listed'
  BY DEF TypeOK, Listed, StatusFits
<1>5. WakerComes'
  BY DEF TypeOK, WakerComes, Mutexes, StatusFits, Listed
<1>6. CountTold'
  BY DEF TypeOK, CountTold
<1>7. NoSpuriousReturn'
  BY DEF TypeOK, NoSpuriousReturn, CountTold, StatusFits
<1>8. NotifyAllReachesAll'
  BY DEF TypeOK, NotifyAllReachesAll
<1> QED
  BY <1>1, <1>2, <1>3, <1>4, <1>5, <1>6, <1>7, <1>8

\* The count is taken as it is, with the mutex.
LEMMA FallAsleepIInv ==
  ASSUME WaitAssumption, IInv, NEW t \in Threads, FallAsleep(t)
  PROVE  IInv'
<1> USE DEF WaitAssumption, IInv, FallAsleep, SleepOn
<1>1. TypeOK'
  BY DEF TypeOK
<1>2. Mutexes'
  BY DEF TypeOK, Mutexes
<1>3. StatusFits'
  BY DEF TypeOK, StatusFits, Mutexes
<1>4. Listed'
  BY DEF TypeOK, Listed, StatusFits
<1>5. WakerComes'
  BY DEF TypeOK, WakerComes, Mutexes, StatusFits, Listed
<1>6. CountTold'
  BY DEF TypeOK, CountTold
<1>7. NoSpuriousReturn'
  BY DEF TypeOK, NoSpuriousReturn, CountTold, StatusFits
<1>8. NotifyAllReachesAll'
  BY DEF TypeOK, NotifyAllReachesAll
<1> QED
  BY <1>1, <1>2, <1>3, <1>4, <1>5, <1>6, <1>7, <1>8

\* Only a timed wait gets late.
LEMMA ExpireIInv ==
  ASSUME WaitAssumption, IInv, NEW t \in Threads, Expire(t)
  PROVE  IInv'
<1> USE DEF WaitAssumption, IInv, Expire
<1>1. TypeOK'
  BY DEF TypeOK
<1>2. Mutexes'
  BY DEF TypeOK, Mutexes
<1>3. StatusFits'
  BY DEF TypeOK, StatusFits, Mutexes
<1>4. Listed'
  BY DEF TypeOK, Listed, StatusFits
<1>5. WakerComes'
  BY DEF TypeOK, WakerComes, Mutexes, StatusFits, Listed
<1>6. CountTold'
  BY DEF TypeOK, CountTold
<1>7. NoSpuriousReturn'
  BY DEF TypeOK, NoSpuriousReturn, CountTold, StatusFits
<1>8. NotifyAllReachesAll'
  BY DEF TypeOK, NotifyAllReachesAll
<1> QED
  BY <1>1, <1>2, <1>3, <1>4, <1>5, <1>6, <1>7, <1>8

\* Waking up says nothing.
LEMMA TimeOutIInv ==
  ASSUME WaitAssumption, IInv, NEW t \in Threads, TimeOut(t)
  PROVE  IInv'
<1> USE DEF WaitAssumption, IInv, TimeOut
<1>1. TypeOK'
  BY DEF TypeOK
<1>2. Mutexes'
  BY DEF TypeOK, Mutexes
<1>3. StatusFits'
  BY DEF TypeOK, StatusFits, Mutexes
<1>4. Listed'
  BY DEF TypeOK, Listed, StatusFits
<1>5. WakerComes'
  BY DEF TypeOK, WakerComes, Mutexes, StatusFits, Listed
<1>6. CountTold'
  BY DEF TypeOK, CountTold
<1>7. NoSpuriousReturn'
  BY DEF TypeOK, NoSpuriousReturn, CountTold, StatusFits
<1>8. NotifyAllReachesAll'
  BY DEF TypeOK, NotifyAllReachesAll
<1> QED
  BY <1>1, <1>2, <1>3, <1>4, <1>5, <1>6, <1>7, <1>8

\* Waking up says nothing.
LEMMA SpuriousWakeupIInv ==
  ASSUME WaitAssumption, IInv, NEW t \in Threads, SpuriousWakeup(t)
  PROVE  IInv'
<1> USE DEF WaitAssumption, IInv, SpuriousWakeup
<1>1. TypeOK'
  BY DEF TypeOK
<1>2. Mutexes'
  BY DEF TypeOK, Mutexes
<1>3. StatusFits'
  BY DEF TypeOK, StatusFits, Mutexes
<1>4. Listed'
  BY DEF TypeOK, Listed, StatusFits
<1>5. WakerComes'
  BY DEF TypeOK, WakerComes, Mutexes, StatusFits, Listed
<1>6. CountTold'
  BY DEF TypeOK, CountTold
<1>7. NoSpuriousReturn'
  BY DEF TypeOK, NoSpuriousReturn, CountTold, StatusFits
<1>8. NotifyAllReachesAll'
  BY DEF TypeOK, NotifyAllReachesAll
<1> QED
  BY <1>1, <1>2, <1>3, <1>4, <1>5, <1>6, <1>7, <1>8

\* Who goes on has a reason, who sleeps on was not called.
LEMMA WokenIInv ==
  ASSUME WaitAssumption, IInv, NEW t \in Threads, Woken(t)
  PROVE  IInv'
<1> USE DEF WaitAssumption, IInv, Woken, Called, Finish, SleepOn
<1>1. TypeOK'
  BY DEF TypeOK
<1>2. Mutexes'
  BY DEF TypeOK, Mutexes
<1>3. StatusFits'
  BY DEF TypeOK, StatusFits, Mutexes
<1>4. Listed'
  BY DEF TypeOK, Listed, StatusFits
<1>5. WakerComes'
  BY DEF TypeOK, WakerComes, Mutexes, StatusFits, Listed
<1>6. CountTold'
  BY DEF TypeOK, CountTold
<1>7. NoSpuriousReturn'
  BY DEF TypeOK, NoSpuriousReturn, CountTold, StatusFits
<1>8. NotifyAllReachesAll'
  BY DEF TypeOK, NotifyAllReachesAll
<1> QED
  BY <1>1, <1>2, <1>3, <1>4, <1>5, <1>6, <1>7, <1>8

\* The monitor comes back, the reason stays.
LEMMA RegainIInv ==
  ASSUME WaitAssumption, IInv, NEW t \in Threads, Regain(t)
  PROVE  IInv'
<1> USE DEF WaitAssumption, IInv, Regain, Finish
<1>1. TypeOK'
  BY DEF TypeOK
<1>2. Mutexes'
  BY DEF TypeOK, Mutexes
<1>3. StatusFits'
  BY DEF TypeOK, StatusFits, Mutexes
<1>4. Listed'
  BY DEF TypeOK, Listed, StatusFits
<1>5. WakerComes'
  BY DEF TypeOK, WakerComes, Mutexes, StatusFits, Listed
<1>6. CountTold'
  BY DEF TypeOK, CountTold
<1>7. NoSpuriousReturn'
  BY DEF TypeOK, NoSpuriousReturn, CountTold, StatusFits
<1>8. NotifyAllReachesAll'
  BY DEF TypeOK, NotifyAllReachesAll
<1> QED
  BY <1>1, <1>2, <1>3, <1>4, <1>5, <1>6, <1>7, <1>8

\* What is read as interrupted stays so.
LEMMA ReadStatusOutIInv ==
  ASSUME WaitAssumption, IInv, NEW t \in Threads, ReadStatusOut(t)
  PROVE  IInv'
<1> USE DEF WaitAssumption, IInv, ReadStatusOut
<1>1. TypeOK'
  BY DEF TypeOK
<1>2. Mutexes'
  BY DEF TypeOK, Mutexes
<1>3. StatusFits'
  BY DEF TypeOK, StatusFits, Mutexes
<1>4. Listed'
  BY DEF TypeOK, Listed, StatusFits
<1>5. WakerComes'
  BY DEF TypeOK, WakerComes, Mutexes, StatusFits, Listed
<1>6. CountTold'
  BY DEF TypeOK, CountTold
<1>7. NoSpuriousReturn'
  BY DEF TypeOK, NoSpuriousReturn, CountTold, StatusFits
<1>8. NotifyAllReachesAll'
  BY DEF TypeOK, NotifyAllReachesAll
<1> QED
  BY <1>1, <1>2, <1>3, <1>4, <1>5, <1>6, <1>7, <1>8

\* The status is cleared, and an interrupt remembered.
LEMMA SwapOutIInv ==
  ASSUME WaitAssumption, IInv, NEW t \in Threads, SwapOut(t)
  PROVE  IInv'
<1> USE DEF WaitAssumption, IInv, SwapOut
<1>1. TypeOK'
  <2>1. interrupted' \in [Threads -> BOOLEAN]
    BY Zenon DEF TypeOK
  <2> QED
    BY <2>1 DEF TypeOK
<1>2. Mutexes'
  BY DEF TypeOK, Mutexes
<1>3. StatusFits'
  BY DEF TypeOK, StatusFits, Mutexes
<1>4. Listed'
  BY DEF TypeOK, Listed, StatusFits
<1>5. WakerComes'
  BY DEF TypeOK, WakerComes, Mutexes, StatusFits, Listed
<1>6. CountTold'
  BY DEF TypeOK, CountTold
<1>7. NoSpuriousReturn'
  <2>1. CASE seen[t] = "interruptible" /\ status[t] # "interruptible"
    BY <2>1 DEF TypeOK, NoSpuriousReturn
  <2>2. CASE seen[t] = "interruptible" /\ status[t] = "interruptible"
    <3>1. /\ pc' = [pc EXCEPT ![t] = "unlist"]
          /\ status' = [status EXCEPT ![t] = "clear"]
          /\ \A u \in Threads : u # t => interrupted'[u] = interrupted[u]
      BY <2>2 DEF TypeOK
    <3> QED
      BY <2>2, <3>1 DEF TypeOK, StatusFits, NoSpuriousReturn
  <2>3. CASE seen[t] = "interrupted"
    <3>1. interrupted' = [interrupted EXCEPT ![t] = TRUE]
      BY <2>3 DEF TypeOK, StatusFits
    <3> QED
      BY <2>3, <3>1 DEF TypeOK, NoSpuriousReturn
  <2> QED
    BY <2>1, <2>2, <2>3 DEF StatusFits
<1>8. NotifyAllReachesAll'
  BY DEF TypeOK, NotifyAllReachesAll
<1> QED
  BY <1>1, <1>2, <1>3, <1>4, <1>5, <1>6, <1>7, <1>8

\* Nothing is left of the wait.
LEMMA ReturnIInv ==
  ASSUME WaitAssumption, IInv, NEW t \in Threads, Return(t)
  PROVE  IInv'
<1> USE DEF WaitAssumption, IInv, Return
<1>1. TypeOK'
  BY DEF TypeOK
<1>2. Mutexes'
  BY DEF TypeOK, Mutexes
<1>3. StatusFits'
  BY DEF TypeOK, StatusFits, Mutexes
<1>4. Listed'
  BY DEF TypeOK, Listed, StatusFits
<1>5. WakerComes'
  BY DEF TypeOK, WakerComes, Mutexes, StatusFits, Listed
<1>6. CountTold'
  BY DEF TypeOK, CountTold
<1>7. NoSpuriousReturn'
  BY DEF TypeOK, NoSpuriousReturn, CountTold, StatusFits
<1>8. NotifyAllReachesAll'
  BY DEF TypeOK, NotifyAllReachesAll
<1> QED
  BY <1>1, <1>2, <1>3, <1>4, <1>5, <1>6, <1>7, <1>8

\* One thread has vm->mutex.
LEMMA InterruptIInv ==
  ASSUME WaitAssumption, IInv, NEW t \in Threads, NEW u \in Threads,
         Interrupt(t, u)
  PROVE  IInv'
<1> USE DEF WaitAssumption, IInv, Interrupt, VmMutexFree
<1>1. TypeOK'
  BY DEF TypeOK
<1>2. Mutexes'
  BY DEF TypeOK, Mutexes
<1>3. StatusFits'
  BY DEF TypeOK, StatusFits, Mutexes
<1>4. Listed'
  BY DEF TypeOK, Listed, StatusFits
<1>5. WakerComes'
  BY DEF TypeOK, WakerComes, Mutexes, StatusFits, Listed
<1>6. CountTold'
  BY DEF TypeOK, CountTold
<1>7. NoSpuriousReturn'
  BY DEF TypeOK, NoSpuriousReturn, CountTold, StatusFits
<1>8. NotifyAllReachesAll'
  BY DEF TypeOK, NotifyAllReachesAll
<1> QED
  BY <1>1, <1>2, <1>3, <1>4, <1>5, <1>6, <1>7, <1>8

\* One thread has vm->mutex; a reason to go is a reason to be woken.
LEMMA StopIInv ==
  ASSUME WaitAssumption, IInv, NEW t \in Threads, NEW u \in Threads,
         Stop(t, u)
  PROVE  IInv'
<1> USE DEF WaitAssumption, IInv, Stop, VmMutexFree
<1>1. TypeOK'
  BY DEF TypeOK
<1>2. Mutexes'
  BY DEF TypeOK, Mutexes
<1>3. StatusFits'
  BY DEF TypeOK, StatusFits, Mutexes
<1>4. Listed'
  BY DEF TypeOK, Listed, StatusFits
<1>5. WakerComes'
  BY DEF TypeOK, WakerComes, Mutexes, StatusFits, Listed
<1>6. CountTold'
  BY DEF TypeOK, CountTold
<1>7. NoSpuriousReturn'
  BY DEF TypeOK, NoSpuriousReturn, CountTold, StatusFits
<1>8. NotifyAllReachesAll'
  BY DEF TypeOK, NotifyAllReachesAll
<1> QED
  BY <1>1, <1>2, <1>3, <1>4, <1>5, <1>6, <1>7, <1>8

\* The interrupter looks.
LEMMA ReadStatusIInv ==
  ASSUME WaitAssumption, IInv, NEW t \in Threads, ReadStatus(t)
  PROVE  IInv'
<1> USE DEF WaitAssumption, IInv, ReadStatus
<1>1. TypeOK'
  BY DEF TypeOK, Mutexes
<1>2. Mutexes'
  BY DEF TypeOK, Mutexes
<1>3. StatusFits'
  BY DEF TypeOK, StatusFits, Mutexes
<1>4. Listed'
  BY DEF TypeOK, Listed, StatusFits
<1>5. WakerComes'
  BY DEF TypeOK, WakerComes, Mutexes, StatusFits, Listed
<1>6. CountTold'
  BY DEF TypeOK, CountTold
<1>7. NoSpuriousReturn'
  BY DEF TypeOK, NoSpuriousReturn, CountTold, StatusFits
<1>8. NotifyAllReachesAll'
  BY DEF TypeOK, NotifyAllReachesAll
<1> QED
  BY <1>1, <1>2, <1>3, <1>4, <1>5, <1>6, <1>7, <1>8

\* Who interrupts a sleeper is about to wake it.
LEMMA SwapStatusIInv ==
  ASSUME WaitAssumption, IInv, NEW t \in Threads, SwapStatus(t)
  PROVE  IInv'
<1> USE DEF WaitAssumption, IInv, SwapStatus, InterruptDone
<1>1. TypeOK'
  BY DEF TypeOK
<1>2. Mutexes'
  BY DEF TypeOK, Mutexes
<1>3. StatusFits'
  BY DEF TypeOK, StatusFits, Mutexes
<1>4. Listed'
  BY DEF TypeOK, Listed, StatusFits
<1>5. WakerComes'
  BY DEF TypeOK, WakerComes, Mutexes, StatusFits, Listed
<1>6. CountTold'
  BY DEF TypeOK, CountTold
<1>7. NoSpuriousReturn'
  BY DEF TypeOK, NoSpuriousReturn, CountTold, StatusFits
<1>8. NotifyAllReachesAll'
  BY DEF TypeOK, NotifyAllReachesAll
<1> QED
  BY <1>1, <1>2, <1>3, <1>4, <1>5, <1>6, <1>7, <1>8

\* Who may sleep is listed, so that its waker comes.
LEMMA ReadInterruptibleLockIInv ==
  ASSUME WaitAssumption, IInv, NEW t \in Threads, ReadInterruptibleLock(t)
  PROVE  IInv'
<1> USE DEF WaitAssumption, IInv, ReadInterruptibleLock, InterruptDone
<1>1. TypeOK'
  BY DEF TypeOK
<1>2. Mutexes'
  BY DEF TypeOK, Mutexes
<1>3. StatusFits'
  BY DEF TypeOK, StatusFits, Mutexes
<1>4. Listed'
  BY DEF TypeOK, Listed, StatusFits
<1>5. WakerComes'
  BY DEF TypeOK, WakerComes, Mutexes, StatusFits, Listed
<1>6. CountTold'
  BY DEF TypeOK, CountTold
<1>7. NoSpuriousReturn'
  BY DEF TypeOK, NoSpuriousReturn, CountTold, StatusFits
<1>8. NotifyAllReachesAll'
  BY DEF TypeOK, NotifyAllReachesAll
<1> QED
  BY <1>1, <1>2, <1>3, <1>4, <1>5, <1>6, <1>7, <1>8

\* With the mutex, nobody is between the swap and the sleep.
LEMMA BroadcastIInv ==
  ASSUME WaitAssumption, IInv, NEW t \in Threads, Broadcast(t)
  PROVE  IInv'
<1> USE DEF WaitAssumption, IInv, Broadcast
<1>1. TypeOK'
  BY DEF TypeOK
<1>2. Mutexes'
  BY DEF TypeOK, Mutexes
<1>3. StatusFits'
  BY DEF TypeOK, StatusFits, Mutexes
<1>4. Listed'
  BY DEF TypeOK, Listed, StatusFits
<1>5. WakerComes'
  <2>1. \A u \in Threads : pc'[u] \notin {"sleep", "asleep"}
    BY DEF TypeOK, Mutexes
  <2> QED
    BY <2>1 DEF WakerComes
<1>6. CountTold'
  BY DEF TypeOK, CountTold
<1>7. NoSpuriousReturn'
  BY DEF TypeOK, NoSpuriousReturn, CountTold, StatusFits
<1>8. NotifyAllReachesAll'
  BY DEF TypeOK, NotifyAllReachesAll
<1> QED
  BY <1>1, <1>2, <1>3, <1>4, <1>5, <1>6, <1>7, <1>8

\* Outside wait() the status is the thread's own.
LEMMA InterruptedIInv ==
  ASSUME WaitAssumption, IInv, NEW t \in Threads, Interrupted(t)
  PROVE  IInv'
<1> USE DEF WaitAssumption, IInv, Interrupted
<1>1. TypeOK'
  BY DEF TypeOK
<1>2. Mutexes'
  BY DEF TypeOK, Mutexes
<1>3. StatusFits'
  BY DEF TypeOK, StatusFits, Mutexes
<1>4. Listed'
  BY DEF TypeOK, Listed, StatusFits
<1>5. WakerComes'
  BY DEF TypeOK, WakerComes, Mutexes, StatusFits, Listed
<1>6. CountTold'
  BY DEF TypeOK, CountTold
<1>7. NoSpuriousReturn'
  BY DEF TypeOK, NoSpuriousReturn, CountTold, StatusFits
<1>8. NotifyAllReachesAll'
  BY DEF TypeOK, NotifyAllReachesAll
<1> QED
  BY <1>1, <1>2, <1>3, <1>4, <1>5, <1>6, <1>7, <1>8

\* Outside wait() nobody needs a reason.
LEMMA CheckCrossIInv ==
  ASSUME WaitAssumption, IInv, NEW t \in Threads, CheckCross(t)
  PROVE  IInv'
<1> USE DEF WaitAssumption, IInv, CheckCross
<1>1. TypeOK'
  BY DEF TypeOK
<1>2. Mutexes'
  BY DEF TypeOK, Mutexes
<1>3. StatusFits'
  BY DEF TypeOK, StatusFits, Mutexes
<1>4. Listed'
  BY DEF TypeOK, Listed, StatusFits
<1>5. WakerComes'
  BY DEF TypeOK, WakerComes, Mutexes, StatusFits, Listed
<1>6. CountTold'
  BY DEF TypeOK, CountTold
<1>7. NoSpuriousReturn'
  BY DEF TypeOK, NoSpuriousReturn, CountTold, StatusFits
<1>8. NotifyAllReachesAll'
  BY DEF TypeOK, NotifyAllReachesAll
<1> QED
  BY <1>1, <1>2, <1>3, <1>4, <1>5, <1>6, <1>7, <1>8

-----------------------------------------------------------------------------
(* The theorems *)

\* No step breaks the invariant.
LEMMA StepIInv == WaitAssumption /\ IInv /\ [Next]_vars => IInv'
<1> SUFFICES ASSUME WaitAssumption, IInv, [Next]_vars
             PROVE  IInv'
  OBVIOUS
<1>1. CASE UNCHANGED vars
  BY <1>1 DEF vars, IInv, TypeOK, Mutexes, StatusFits, Listed, WakerComes,
              CountTold, NoSpuriousReturn, NotifyAllReachesAll
<1>2. CASE Next
  <2>1. PICK t \in Threads : Progress(t) \/ Expire(t) \/ Choice(t)
    BY <1>2 DEF Next
  <2>2. CASE Progress(t)
    BY <2>2, ReadStatusInIInv, SwapInIInv, FallAsleepIInv, TimeOutIInv,
       WokenIInv, RegainIInv, ReadStatusOutIInv, SwapOutIInv, ReturnIInv,
       ReadStatusIInv, SwapStatusIInv, ReadInterruptibleLockIInv,
       BroadcastIInv, CheckCrossIInv
    DEF Progress
  <2>3. CASE Choice(t)
    <3>1. \A b \in BOOLEAN : Wait(t, b) => IInv'
      BY WaitIInv
    <3>2. \A u \in Threads : Interrupt(t, u) \/ Stop(t, u) => IInv'
      BY InterruptIInv, StopIInv
    <3>3. Waiters \subseteq Threads
      BY DEF WaitAssumption
    <3> QED
      BY <2>3, <3>1, <3>2, <3>3, LockIInv, UnlockIInv, NotifyIInv,
         NotifyAllIInv, SpuriousWakeupIInv, InterruptedIInv DEF Choice
  <2> QED
    BY <2>1, <2>2, <2>3, ExpireIInv
<1> QED
  BY <1>1, <1>2

\* The invariant holds in every reachable state.
THEOREM Invariance == WaitAssumption => (Spec => []IInv)
<1> SUFFICES ASSUME WaitAssumption PROVE Spec => []IInv
  OBVIOUS
<1>1. Init => IInv
  BY InitIInv
<1>2. IInv /\ [Next]_vars => IInv'
  BY StepIInv
<1> QED
  BY <1>1, <1>2, PTL DEF Spec

\* Statuses, counters and flags keep their types.
THEOREM TypeCorrect == WaitAssumption => (Spec => []TypeOK)
<1> SUFFICES ASSUME WaitAssumption PROVE Spec => []TypeOK
  OBVIOUS
<1>1. IInv => TypeOK
  BY DEF IInv
<1> QED
  BY <1>1, Invariance, PTL

\* The assertions of wait() and interrupted() on the status hold.
THEOREM StatusAsserted == WaitAssumption => (Spec => []StatusAsserts)
<1> SUFFICES ASSUME WaitAssumption PROVE Spec => []StatusAsserts
  OBVIOUS
<1>1. IInv => StatusAsserts
  BY DEF IInv, TypeOK, StatusFits, StatusAsserts
<1> QED
  BY <1>1, Invariance, PTL

\* No wait ends without a reason.
THEOREM ReturnsHaveReasons == WaitAssumption => (Spec => []NoSpuriousReturn)
<1> SUFFICES ASSUME WaitAssumption PROVE Spec => []NoSpuriousReturn
  OBVIOUS
<1>1. IInv => NoSpuriousReturn
  BY DEF IInv
<1> QED
  BY <1>1, Invariance, PTL

\* Nobody sleeps through an interrupt.
THEOREM InterruptsGetThrough ==
  WaitAssumption => (Spec => []InterruptedWillWake)
<1> SUFFICES ASSUME WaitAssumption PROVE Spec => []InterruptedWillWake
  OBVIOUS
<1>1. IInv => InterruptedWillWake
  BY DEF IInv, WakerComes, InterruptedWillWake
<1> QED
  BY <1>1, Invariance, PTL

\* Nobody sleeps through notifyAll().
THEOREM NotifyAllGetsThrough ==
  WaitAssumption => (Spec => []NotifyAllReachesAll)
<1> SUFFICES ASSUME WaitAssumption PROVE Spec => []NotifyAllReachesAll
  OBVIOUS
<1>1. IInv => NotifyAllReachesAll
  BY DEF IInv
<1> QED
  BY <1>1, Invariance, PTL

\* No step loses an interrupt.
LEMMA StepReports ==
  ASSUME WaitAssumption, IInv, [Next]_vars, NEW u \in Threads,
         Flagged(u), ~Flagged(u)'
  PROVE  pc[u] = "java" \/ interrupted'[u]
<1>1. status'[u] # status[u]
  BY DEF Flagged
<1>2. PICK t \in Threads : Progress(t) \/ Expire(t) \/ Choice(t)
  BY <1>1 DEF Next, vars
<1>3. \/ SwapIn(t) \/ SwapOut(t) \/ SwapStatus(t) \/ Interrupted(t)
      \/ UNCHANGED status
  BY <1>2 DEF Progress, Choice, ReadStatusIn, FallAsleep, TimeOut, Woken,
     Regain, ReadStatusOut, Return, ReadStatus, ReadInterruptibleLock,
     Broadcast, CheckCross, Expire, Lock, Unlock, Notify, NotifyAll,
     Notification, Wait, SpuriousWakeup, Interrupt, Stop
<1>4. CASE SwapIn(t)
  BY <1>4 DEF SwapIn, Flagged, IInv, TypeOK, StatusFits
<1>5. CASE SwapOut(t)
  <2>1. u = t /\ seen[t] = status[t] /\ seen[t] = "interrupted"
    BY <1>1, <1>5 DEF SwapOut, Flagged, IInv, TypeOK
  <2>2. interrupted' = [interrupted EXCEPT ![t] = seen[t] = "interrupted"]
    BY <1>1, <1>5, <2>1 DEF SwapOut
  <2>3. interrupted' = [interrupted EXCEPT ![t] = TRUE]
    BY <2>1, <2>2
  <2> QED
    BY <2>1, <2>3 DEF IInv, TypeOK
<1>6. CASE SwapStatus(t)
  BY <1>6 DEF SwapStatus, Flagged, IInv, TypeOK, Mutexes
<1>7. CASE Interrupted(t)
  BY <1>1, <1>7 DEF Interrupted, IInv, TypeOK
<1> QED
  BY <1>1, <1>3, <1>4, <1>5, <1>6, <1>7

\* The interrupt status is cleared only in reporting it.
THEOREM InterruptsReported == WaitAssumption => (Spec => InterruptReported)
<1> SUFFICES ASSUME WaitAssumption PROVE Spec => InterruptReported
  OBVIOUS
<1>1. IInv /\ [Next]_vars =>
        [\A t \in Threads : Flagged(t) /\ ~Flagged(t)' =>
                             pc[t] = "java" \/ interrupted'[t]]_vars
  BY StepReports
<1> QED
  BY <1>1, Invariance, PTL DEF Spec, InterruptReported

=============================================================================
