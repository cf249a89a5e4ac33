----------------------------- MODULE ClassInit ------------------------------
(***************************************************************************)
(* Initialization of classes, _jc_initialize_type() of initialize.c, by    *)
(* several threads at once, once the virtual machine may run Java code.    *)
(*                                                                         *)
(* A call that has claimed a class may call for another one, first for the *)
(* superclass and then out of <clinit>, so that a thread has a stack of    *)
(* calls.  Classes are not interfaces.  The code tests INITIALIZED without *)
(* a lock; the rest of the state of a class is under the monitor of its    *)
(* Class object, and what a call does from getting the monitor to giving   *)
(* it back is one step, but where others could look in between.            *)
(***************************************************************************)
EXTENDS Integers, Sequences

CONSTANTS
  Threads,
  Classes,
  None,       \* no thread, no class
  Super,      \* type->superclass; None is Object, which is initialized
  Finalizers, \* classes that declare finalize()
  Failing     \* what may fail: among "resolve", "lock", "wait", "fields",
              \* "box" (of an exception, in step 10) and "notify"

ASSUME InitAssumption ==
  /\ None \notin Threads
  /\ None \notin Classes
  /\ Super \in [Classes -> Classes \cup {None}]
  /\ Finalizers \subseteq Classes

VARIABLES
  initialized,  \* classes with the flag INITIALIZED
  failed,       \* classes with the flag INIT_ERROR
  initializing, \* type->u.nonarray.initializing_thread
  lockword,     \* type->initial_lockword: whether it is set, and FINALIZE
  owner,        \* the owner of the monitor of the Class object
  began,        \* classes whose <clinit> has been invoked
  pc,
  at,           \* the class of the innermost call that is not in <clinit>
  stack,        \* the classes of the calls around it, innermost first
  silent        \* history: classes whose notifyAll(), in step 11, failed

class == <<initialized, failed, initializing, lockword, began>>
vars == <<class, owner, pc, at, stack, silent>>

\* Java code, of the program or of the <clinit> of the class on top of the
\* stack; before step 1; in step 2; after step 6; in step 8; before step 9;
\* at "done"; before step 11.
Pcs == {"java", "lock", "asleep", "woken", "super", "fields", "finish",
        "done", "error"}

Init ==
  /\ initialized = {}
  /\ failed = {}
  /\ initializing = [c \in Classes |-> None]
  /\ lockword = [c \in Classes |-> "unset"]
  /\ owner = [c \in Classes |-> None]
  /\ began = {}
  /\ pc = [t \in Threads |-> "java"]
  /\ at = [t \in Threads |-> None]
  /\ stack = [t \in Threads |-> <<>>]
  /\ silent = {}

Goto(t, l) == pc' = [pc EXCEPT ![t] = l]

\* t and its call are past step 6 with class c.
Claimed == {"super", "fields", "finish", "error"}

\* _jc_initialize_lockword() without and with a superclass.
PlainLockword(c) == [lockword EXCEPT ![c] = "plain"]
FullLockword(c) ==
  [lockword EXCEPT ![c] =
     IF \/ c \in Finalizers
        \/ Super[c] # None /\ lockword[Super[c]] = "finalize"
     THEN "finalize" ELSE "plain"]

\* The call of t returns to Java code, or to step 7 of the call around it;
\* pcs is where the threads are.
ReturnAmong(pcs, t, ok) ==
  IF stack[t] = <<>> \/ Head(stack[t]) \in began
  THEN /\ pc' = [pcs EXCEPT ![t] = "java"]
       /\ at' = [at EXCEPT ![t] = None]
       /\ UNCHANGED stack
  ELSE /\ pc' = [pcs EXCEPT ![t] = IF ok THEN "fields" ELSE "error"]
       /\ at' = [at EXCEPT ![t] = Head(stack[t])]
       /\ stack' = [stack EXCEPT ![t] = Tail(stack[t])]

Return(t, ok) == ReturnAmong(pc, t, ok)

-----------------------------------------------------------------------------
(* _jc_initialize_type() *)

\* Java code needs class c, which is not initialized.
Request(t, c) ==
  /\ pc[t] = "java"
  /\ c \notin initialized
  /\ at' = [at EXCEPT ![t] = c]
  /\ Goto(t, "lock")
  /\ UNCHANGED <<class, owner, stack, silent>>

\* The type cannot be resolved, or the monitor cannot be had.
RequestFails(t) ==
  /\ pc[t] = "lock"
  /\ Failing \cap {"resolve", "lock"} # {}
  /\ Return(t, FALSE)
  /\ UNCHANGED <<class, owner, silent>>

-----------------------------------------------------------------------------
(* Steps 1 to 6: t gets the monitor of the class, first or after a wait *)

Entering(t) ==
  /\ pc[t] \in {"lock", "woken"}
  /\ owner[at[t]] = None

\* Step 2.
Wait(t) ==
  /\ Entering(t)
  /\ initializing[at[t]] \notin {None, t}
  /\ Goto(t, "asleep")
  /\ UNCHANGED <<class, owner, at, stack, silent>>

\* Step 3, or 4.
Ready(t) ==
  /\ Entering(t)
  /\ \/ initializing[at[t]] = t
     \/ initializing[at[t]] = None /\ at[t] \in initialized
  /\ owner' = [owner EXCEPT ![at[t]] = t]
  /\ Goto(t, "done")
  /\ UNCHANGED <<class, at, stack, silent>>

\* Step 5.
Refuse(t) ==
  /\ Entering(t)
  /\ initializing[at[t]] = None
  /\ at[t] \in failed \ initialized
  /\ Return(t, FALSE)
  /\ UNCHANGED <<class, owner, silent>>

\* Mutant: without step 3, the thread claims again what it has claimed.
ClaimAgain(t) ==
  /\ Entering(t)
  /\ initializing[at[t]] \in {None, t}
  /\ at[t] \notin failed \cup initialized
  /\ initializing' = [initializing EXCEPT ![at[t]] = t]
  /\ Goto(t, "super")
  /\ UNCHANGED <<initialized, failed, lockword, began, owner, at, stack,
                 silent>>

\* Step 6.
Claim(t) ==
  /\ Entering(t)
  /\ initializing[at[t]] = None
  /\ at[t] \notin failed \cup initialized
  /\ initializing' = [initializing EXCEPT ![at[t]] = t]
  /\ Goto(t, "super")
  /\ UNCHANGED <<initialized, failed, lockword, began, owner, at, stack,
                 silent>>

\* wait() throws an exception, with the monitor.
WaitFails(t) ==
  /\ "wait" \in Failing
  /\ pc[t] \in {"asleep", "woken"}
  /\ owner[at[t]] = None
  /\ Return(t, FALSE)
  /\ UNCHANGED <<class, owner, silent>>

\* Somebody else notifies those who wait for the Class object.
OtherNotify(t) ==
  /\ pc[t] = "asleep"
  /\ Goto(t, "woken")
  /\ UNCHANGED <<class, owner, at, stack, silent>>

-----------------------------------------------------------------------------
(* Steps 7 and 8 *)

\* Mutant: a superclass that somebody has claimed will do.
SuperReadyClaimed(c) ==
  Super[c] \in initialized \cup {d \in Classes : initializing[d] # None}
                \cup {None}

SuperReady(c) == Super[c] \in initialized \cup {None}

NeedSuper(t) ==
  /\ pc[t] = "super"
  /\ ~SuperReady(at[t])
  /\ stack' = [stack EXCEPT ![t] = <<at[t]>> \o @]
  /\ at' = [at EXCEPT ![t] = Super[at[t]]]
  /\ Goto(t, "lock")
  /\ UNCHANGED <<class, owner, silent>>

HaveSuper(t) ==
  /\ pc[t] = "super"
  /\ SuperReady(at[t])
  /\ Goto(t, "fields")
  /\ UNCHANGED <<class, owner, at, stack, silent>>

\* The lockword for the time being, the constant fields, and <clinit>.
InvokeClinit(t) ==
  /\ pc[t] = "fields"
  /\ lockword' = PlainLockword(at[t])
  /\ began' = began \cup {at[t]}
  /\ stack' = [stack EXCEPT ![t] = <<at[t]>> \o @]
  /\ at' = [at EXCEPT ![t] = None]
  /\ Goto(t, "java")
  /\ UNCHANGED <<initialized, failed, initializing, owner, silent>>

\* A constant string cannot be had.  The class remains claimed.
FieldsFail(t) ==
  /\ pc[t] = "fields"
  /\ "fields" \in Failing
  /\ lockword' = PlainLockword(at[t])
  /\ Return(t, FALSE)
  /\ UNCHANGED <<initialized, failed, initializing, began, owner, silent>>

\* <clinit> returns, or throws an exception, which step 10 wraps.
ClinitEnds(t) ==
  /\ pc[t] = "java"
  /\ stack[t] # <<>>
  /\ \E l \in {"finish", "error"} : Goto(t, l)
  /\ at' = [at EXCEPT ![t] = Head(stack[t])]
  /\ stack' = [stack EXCEPT ![t] = Tail(stack[t])]
  /\ UNCHANGED <<class, owner, silent>>

-----------------------------------------------------------------------------
(* Steps 9 to 11 *)

\* Mutant: the class remains claimed.
FinishClaimed(t) ==
  /\ pc[t] = "finish"
  /\ owner[at[t]] = None
  /\ owner' = [owner EXCEPT ![at[t]] = t]
  /\ initialized' = initialized \cup {at[t]}
  /\ Goto(t, "done")
  /\ UNCHANGED <<failed, initializing, lockword, began, at, stack, silent>>

\* Step 9.  Nobody is notified.
Finish(t) ==
  /\ pc[t] = "finish"
  /\ owner[at[t]] = None
  /\ owner' = [owner EXCEPT ![at[t]] = t]
  /\ initialized' = initialized \cup {at[t]}
  /\ initializing' = [initializing EXCEPT ![at[t]] = None]
  /\ Goto(t, "done")
  /\ UNCHANGED <<failed, lockword, began, at, stack, silent>>

\* The lockword that counts.
Done(t) ==
  /\ pc[t] = "done"
  /\ lockword' = FullLockword(at[t])
  /\ owner' = [owner EXCEPT ![at[t]] = None]
  /\ Return(t, TRUE)
  /\ UNCHANGED <<initialized, failed, initializing, began, silent>>

\* The exception cannot be wrapped, in step 10, or the monitor cannot be had
\* a second time.  The class remains claimed.
EndFails(t) ==
  /\ \/ "lock" \in Failing /\ pc[t] \in {"finish", "error"}
     \/ "box" \in Failing /\ pc[t] = "error" /\ at[t] \in began
  /\ Return(t, FALSE)
  /\ UNCHANGED <<class, owner, silent>>

\* notifyAll() on the Class object of c.
NotifyAll(c) ==
  [u \in Threads |-> IF pc[u] = "asleep" /\ at[u] = c THEN "woken" ELSE pc[u]]

\* Step 11.
Error(t) ==
  /\ pc[t] = "error"
  /\ owner[at[t]] = None
  /\ failed' = failed \cup {at[t]}
  /\ initializing' = [initializing EXCEPT ![at[t]] = None]
  /\ \/ /\ ReturnAmong(NotifyAll(at[t]), t, FALSE)
        /\ UNCHANGED silent
     \/ /\ "notify" \in Failing
        /\ Return(t, FALSE)
        /\ silent' = silent \cup {at[t]}
  /\ UNCHANGED <<initialized, lockword, began, owner>>

-----------------------------------------------------------------------------

Step(t) ==
  \/ RequestFails(t) \/ Wait(t) \/ Ready(t) \/ Refuse(t) \/ Claim(t)
  \/ WaitFails(t) \/ OtherNotify(t) \/ NeedSuper(t) \/ HaveSuper(t)
  \/ InvokeClinit(t) \/ FieldsFail(t) \/ ClinitEnds(t) \/ Finish(t)
  \/ Done(t) \/ EndFails(t) \/ Error(t)

Next == \E t \in Threads : Step(t) \/ \E c \in Classes : Request(t, c)

Spec == Init /\ [][Next]_vars

-----------------------------------------------------------------------------
(* Properties *)

Active(t) == {stack[t][i] : i \in DOMAIN stack[t]}
               \cup IF pc[t] \in Claimed THEN {at[t]} ELSE {}

\* Everything has its type, and a thread is in a call unless in Java code.
TypeOK ==
  /\ initialized \subseteq Classes
  /\ failed \subseteq Classes
  /\ initializing \in [Classes -> Threads \cup {None}]
  /\ lockword \in [Classes -> {"unset", "plain", "finalize"}]
  /\ owner \in [Classes -> Threads \cup {None}]
  /\ began \subseteq Classes
  /\ pc \in [Threads -> Pcs]
  /\ at \in [Threads -> Classes \cup {None}]
  /\ stack \in [Threads -> Seq(Classes)]
  /\ silent \subseteq failed
  /\ \A t \in Threads : pc[t] = "java" <=> at[t] = None

\* No class is initialized by two threads at once, and nobody is on the way to
\* invoke a <clinit> that has been invoked before, whatever failed since
\* (initialize.c:76-107, steps 2 to 6).
ClinitOnce ==
  \A t \in Threads :
    /\ pc[t] \in {"super", "fields"} => at[t] \notin began
    /\ \A u \in Threads \ {t} : Active(t) \cap Active(u) = {}

\* While <clinit> runs, the superclass is initialized, or has been claimed by
\* the thread itself, whose business it is then to use it half-way
\* (initialize.c:114-117, step 7, with steps 2 and 3 of the inner call).
SuperFirst ==
  \A t \in Threads : \A i \in DOMAIN stack[t] :
    LET c == stack[t][i] IN
    c \in began /\ Super[c] # None =>
      Super[c] \in initialized \/ initializing[Super[c]] = t

\* A thread is told that it may use a class only when the class is initialized
\* or claimed by the thread itself, and an initialized class has a lockword
\* for its instances, as new.c:111 asserts (initialize.c:85-90, steps 3 and 4).
OkMeansReady ==
  /\ \A t \in Threads : pc[t] = "done" =>
       at[t] \in initialized \/ initializing[at[t]] = t
  /\ \A c \in initialized : lockword[c] # "unset"

\* A class that is initialized, or whose initialization has failed, stays so,
\* is never the other as well and is never claimed again, by whatever calls
\* that began before (initialize.c:89-103, steps 4 and 5).
FlagsAreFinal ==
  [][/\ initialized \subseteq initialized'
     /\ failed \subseteq failed'
     /\ initialized' \cap failed' = {}
     /\ \A c \in initialized \cup failed : initializing'[c] = None]_vars

\* Nobody sleeps on for a class whose initialization has failed
\* (initialize.c:172-186, step 11), unless notifyAll() failed as well.
FailureWakesAll ==
  \A t \in Threads : pc[t] = "asleep" => at[t] \notin failed \ silent

-----------------------------------------------------------------------------
(* What the code does not do *)

\* Nobody sleeps on for a class that has been initialized.  Step 9 of the
\* procedure that initialize.c:52 refers to notifies all; step 9 of the code,
\* initialize.c:142-151, does not.
NobodyLeftAsleep ==
  \A t \in Threads : pc[t] = "asleep" /\ at[t] \in initialized =>
    owner[at[t]] # None

\* The superclass has a lockword when the one of a class is derived from it:
\* derive.c:813 asserts it.  The <clinit> of a class that is initialized for
\* the sake of a grandchild breaks it if it needs the grandchild.
SuperHasLockword ==
  \A t \in Threads : pc[t] = "done" /\ Super[at[t]] # None =>
    lockword[Super[at[t]]] # "unset"

\* The lockword of an initialized class, which its instances get, says whether
\* the class or a superclass declares finalize() (derive.c:843).  The flag is
\* there before the lockword, initialize.c:149 and 188-192, and new.c:108 and
\* step 7 look at the flag: a subclass that is initialized in between inherits
\* the lockword for the time being, for good.
FinalizersKept ==
  \A c \in initialized :
    \/ c \in Finalizers
    \/ Super[c] # None /\ lockword[Super[c]] = "finalize"
    => lockword[c] = "finalize"

\* A claimed class is being initialized.  A step that fails leaves it claimed
\* for good, and its next user waits for good.
ClaimsAreLive ==
  \A c \in Classes : initializing[c] # None => c \in Active(initializing[c])

-----------------------------------------------------------------------------
(* The inductive invariant *)

\* Who claimed a class, on the way or further out, is its initializer, once.
ClaimsHeld ==
  \A t \in Threads :
    /\ \A i \in DOMAIN stack[t] : initializing[stack[t][i]] = t
    /\ \A i, j \in DOMAIN stack[t] : stack[t][i] = stack[t][j] => i = j
    /\ pc[t] \in Claimed =>
         /\ initializing[at[t]] = t
         /\ \A i \in DOMAIN stack[t] : stack[t][i] # at[t]

\* Between claim and <clinit>, in step 7, and after it.
Phases ==
  \A t \in Threads :
    /\ pc[t] \in {"super", "fields"} => at[t] \notin began
    /\ pc[t] = "finish" => at[t] \in began
    /\ \A i \in DOMAIN stack[t] : stack[t][i] \notin began =>
         IF i = 1 THEN pc[t] # "java" /\ at[t] = Super[stack[t][i]]
                  ELSE stack[t][i - 1] = Super[stack[t][i]]

\* The superclass was ready, and, if only claimed, is claimed further out.
Ready7(t, c) ==
  Super[c] # None => Super[c] \in initialized \/ initializing[Super[c]] = t

SupersReady ==
  \A t \in Threads :
    /\ pc[t] = "fields" => Ready7(t, at[t])
    /\ \A i \in DOMAIN stack[t] : stack[t][i] \in began =>
         /\ Ready7(t, stack[t][i])
         /\ Super[stack[t][i]] \notin initialized =>
              /\ \A j \in 1..(i - 1) : stack[t][j] # Super[stack[t][i]]
              /\ pc[t] \in Claimed => at[t] # Super[stack[t][i]]

\* The states of a class.
ClassStates ==
  \A c \in Classes :
    /\ c \in initialized \cup failed => initializing[c] = None
    /\ c \in initialized => c \in began
    /\ c \in began => c \in initialized \cup failed \/ initializing[c] # None
    /\ c \notin initialized \cap failed
    /\ c \in began => lockword[c] # "unset"

IInv ==
  TypeOK /\ ClaimsHeld /\ Phases /\ SupersReady /\ ClassStates
    /\ OkMeansReady /\ FailureWakesAll
=============================================================================
