----------------------------- MODULE Execution -----------------------------
(* How one thread runs Java: the interpreter (interp.c), methods compiled   *)
(* into ELF objects (the generated C code with jc_defs.h and c_support.c),  *)
(* the gateways between them and the C code of the VM (invoke.c), native    *)
(* methods (native_lib.c), the Java stack (stack.c) and exceptions          *)
(* (exception.c).                                                           *)
(*                                                                          *)
(* The thread's C stack is the sequence "calls" of activations of the C     *)
(* functions that matter.  What the VM knows of it are four lists that      *)
(* those functions keep: java_stack, catch_list, native_locals and the      *)
(* monitors held.  An exception in interpreted code is an error that every  *)
(* function returns; in ELF code it is a longjmp over several activations.  *)
EXTENDS Naturals, Sequences, SequencesExt, FiniteSetsExt

CONSTANTS
  Methods,       \* the methods
  KindOf,        \* of each: "interp", "elf", "jni" or "jcni" (both native)
  Synchronized,  \* those with ACC_SYNCHRONIZED
  Traps,         \* of each: its trap table, in order
  Constructor,   \* the constructor of the VM's exceptions
  NullPointer, StackOverflow, OutOfMemory,    \* classes of exceptions
  AnyType,           \* the type of a trap that catches all exceptions
  LockMayFail,   \* methods at whose start locking may run out of memory
  None,
  MaxPc,         \* bound: a method's instructions are 0 .. MaxPc
  MaxDepth,      \* the stack limit, in activations
  MaxCalls       \* bound: native code makes no calls above this depth

Exceptions == {NullPointer, StackOverflow, OutOfMemory}

ASSUME ExecutionAssumption ==
  /\ KindOf \in [Methods -> {"interp", "elf", "jni", "jcni"}]
  /\ {None, "invoke_method"} \cap Methods = {} /\ None \notin Exceptions
  /\ Synchronized \subseteq Methods /\ LockMayFail \subseteq Synchronized
  /\ Traps \in [Methods -> Seq([start : Nat, end : Nat, type : Exceptions \cup {AnyType}, target : 0 .. MaxPc])]
  /\ \A m \in Methods : KindOf[m] = "elf" => \A i \in DOMAIN Traps[m] : Traps[m][i].start > 0
  /\ Constructor \in Methods
  /\ MaxPc \in Nat /\ MaxDepth \in Nat /\ MaxCalls \in Nat

VARIABLES
  calls,         \* the C stack
  st,            \* what its top is about: "enter", "run", or a callee's status "ok" or "err"
  java_stack,    \* env->java_stack, bottom first
  catch_list,    \* env->head.catch_list, oldest first
  native_locals, \* env->native_locals: who pushed each frame, oldest first
  stack_limit,   \* env->stack_limit: who set it, or 0
  pending,       \* env->head.pending
  in_vmex,       \* env->in_vmex
  jni_method,    \* env->jni_method
  native,        \* RUNNING_NONJAVA
  held           \* how many times each method's monitor is held

lists == <<java_stack, catch_list, native_locals>>
execvars == <<calls, st, lists, stack_limit, pending, in_vmex, jni_method, native, held>>

-----------------------------------------------------------------------------
(* Activations.  "got" is what the function has done and has to undo: the   *)
(* flags pushed_java_stack, pushed_native_frame, set_stack_limit,           *)
(* got_monitor and clipped_stack_top, and the catch frame; "kept" is what   *)
(* else it keeps.                                                           *)

Activation(fn, m) == [fn |-> fn, m |-> m, pc |-> 0, got |-> {}, kept |-> None]

Depth == Len(calls)
Top == calls[Depth]
In(fn, s) == Top.fn = fn /\ st = s
Caller == SubSeq(calls, 1, Depth - 1)

Got(S) == [calls EXCEPT ![Depth].got = @ \cup S]
Push(cs, a) == calls' = Append(cs, a) /\ st' = "enter"

\* A function that called another goes on in its body, or looks at the status.
Resume(a, status) ==
  IF a.fn = "native" \/ (a.fn \in {"interp", "elf", "jcni"} /\ status = "ok") THEN "run" ELSE status
ReturnWith(status) == calls' = Caller /\ st' = Resume(calls[Depth - 1], status)

Raise(e) == pending' = e /\ st' = "err"
Lock(m) == held' = [held EXCEPT ![m] = @ + 1]

\* Mutant: the monitor is not released when an exception is pending.
UnlockIfReturned(b, m) == held' = IF b /\ pending = None THEN [held EXCEPT ![m] = @ - 1] ELSE held

UnlockIf(b, m) == held' = IF b THEN [held EXCEPT ![m] = @ - 1] ELSE held

ExecutionInit ==
  /\ calls = <<[Activation("native", None) EXCEPT !.got = {"frame"}]>> /\ st = "run"
  /\ java_stack = <<>> /\ catch_list = <<>> /\ native_locals = <<1>>
  /\ stack_limit = 0 /\ pending = None /\ in_vmex = {} /\ jni_method = None /\ native = TRUE
  /\ held = [m \in Methods |-> 0]

-----------------------------------------------------------------------------
(* The Java stack: chunks of C stack frames.  "top" is the activation that  *)
(* a crawl of a chunk begins with, or 0 when the chunk is not clipped.      *)

Chunk(interp) == [interp |-> interp, owner |-> Depth, top |-> 0]
CanClip == java_stack # <<>> /\ Last(java_stack).top = 0
Clip == IF CanClip THEN [java_stack EXCEPT ![Len(java_stack)].top = Depth - 1] ELSE java_stack

\* Mutant: what was clipped stays so when the function returns.
UnclipNever(js, b) == js

Unclip(js, b) == IF b THEN [js EXCEPT ![Len(js)].top = 0] ELSE js
ClipFlag == IF CanClip THEN {"clip"} ELSE {}

\* The functions that a crawl of C stack frames recognizes.
Registered(d) == calls[d].fn \in {"elf", "gate"}

\* A crawl goes through a chunk from its top to the first _jc_invoke_jcni_a().
ChunkTop(k) == IF java_stack[k].top = 0 THEN Depth ELSE java_stack[k].top
RegisteredBelow(d) == Max({e \in 1 .. d : Registered(e)} \cup {0})
InChunk(k) ==
  LET bottom == Max({d \in 1 .. ChunkTop(k) : calls[d].fn = "gate"} \cup {0})
  IN  IF java_stack[k].interp THEN {java_stack[k].owner}
      ELSE {d \in bottom .. ChunkTop(k) : d > 0 /\ Registered(d)}

\* The first frame of a chunk, and the next one that the crawl comes to.
CrawlChunk(k) ==
  [chunk |-> k, d |-> IF k = 0 THEN 0
                      ELSE IF java_stack[k].interp THEN java_stack[k].owner ELSE RegisteredBelow(ChunkTop(k))]
CrawlNext(e) ==
  IF java_stack[e.chunk].interp \/ calls[e.d].fn = "gate" THEN CrawlChunk(e.chunk - 1)
  ELSE [e EXCEPT !.d = RegisteredBelow(e.d - 1)]

-----------------------------------------------------------------------------
(* Posting an exception of the VM: its constructor is Java code             *)

Post(cs, e) == Push(cs, Activation("post", e))

\* Posting one while posting the same one posts the instance made in advance.
PostAgain ==
  /\ In("post", "enter") /\ Top.m \in in_vmex
  /\ pending' = Top.m /\ ReturnWith("err")
  /\ UNCHANGED <<lists, stack_limit, in_vmex, jni_method, native, held>>

PostNew ==
  /\ In("post", "enter") /\ Top.m \notin in_vmex
  /\ in_vmex' = in_vmex \cup {Top.m}
  /\ \/ Push(Got({"vmex"}), Activation("gate", Constructor))
     \/ Depth < MaxCalls /\ Post(Got({"vmex"}), OutOfMemory)
  /\ UNCHANGED <<lists, stack_limit, pending, jni_method, native, held>>

PostDone ==
  /\ Top.fn = "post" /\ st \in {"ok", "err"}
  /\ pending' = IF st = "ok" THEN Top.m ELSE pending
  /\ in_vmex' = in_vmex \ {Top.m}
  /\ ReturnWith("err")
  /\ UNCHANGED <<lists, stack_limit, jni_method, native, held>>

-----------------------------------------------------------------------------
(* Calls, and where they lead *)

\* method->function: interpreted and native methods have trampolines.
Entry(m) ==
  CASE KindOf[m] = "elf" -> Activation("elf", m)
    [] KindOf[m] = "interp" -> Activation("vinterp", m)
    [] OTHER -> Activation("vnative", m)

Gate(m) == Activation("gate", m)

\* _jc_invoke_native_method(): pc 1 tells that the gateway gets the native function.
NativeEntry(m) ==
  IF KindOf[m] = "jni" THEN Activation("jni_a", m) ELSE [Gate(m) EXCEPT !.pc = 1]

-----------------------------------------------------------------------------
(* The interpreter *)

InterpOverflow ==
  /\ In("interp", "enter") /\ stack_limit # 0 /\ Depth > MaxDepth
  /\ Post(calls, StackOverflow)
  /\ UNCHANGED <<lists, stack_limit, pending, in_vmex, jni_method, native, held>>

InterpEnter ==
  /\ In("interp", "enter") /\ ~(stack_limit # 0 /\ Depth > MaxDepth)
  /\ java_stack' = Append(java_stack, Chunk(TRUE))
  /\ \/ /\ Top.m \in Synchronized /\ Lock(Top.m)
        /\ calls' = Got({"chunk", "lock"}) /\ st' = "run"
     \/ Top.m \in LockMayFail /\ Post(Got({"chunk"}), OutOfMemory) /\ UNCHANGED held
     \/ Top.m \notin Synchronized /\ calls' = Got({"chunk"}) /\ st' = "run" /\ UNCHANGED held
  /\ UNCHANGED <<catch_list, native_locals, stack_limit, pending, in_vmex, jni_method, native>>

InterpCall ==
  /\ In("interp", "run")
  /\ \E m \in Methods \ {Constructor} :
       Push(calls, CASE KindOf[m] = "interp" -> Activation("interp", m)
                     [] KindOf[m] = "elf" -> Gate(m)
                     [] OTHER -> NativeEntry(m))
  /\ UNCHANGED <<lists, stack_limit, pending, in_vmex, jni_method, native, held>>

\* Of the traps that cover an instruction the first that matches is taken.
Covers(trap, pc, e) == trap.start <= pc /\ pc < trap.end /\ trap.type \in {AnyType, e}
Matching(m, pc, e) == {i \in DOMAIN Traps[m] : Covers(Traps[m][i], pc, e)}

InterpException ==
  /\ In("interp", "err") /\ "chunk" \in Top.got
  /\ LET S == Matching(Top.m, Top.pc, pending) IN
     \/ /\ S # {}
        /\ calls' = [calls EXCEPT ![Depth].pc = Traps[Top.m][Min(S)].target] /\ st' = "run"
        /\ pending' = None /\ UNCHANGED <<java_stack, held>>
     \/ /\ S = {} /\ ReturnWith("err")
        /\ UnlockIf("lock" \in Top.got, Top.m)
        /\ java_stack' = Front(java_stack) /\ UNCHANGED pending
  /\ UNCHANGED <<catch_list, native_locals, stack_limit, in_vmex, jni_method, native>>

InterpNoFrame ==
  /\ In("interp", "err") /\ "chunk" \notin Top.got
  /\ ReturnWith("err")
  /\ UNCHANGED <<lists, stack_limit, pending, in_vmex, jni_method, native, held>>

InterpReturn ==
  /\ In("interp", "run") /\ ReturnWith("ok")
  /\ UnlockIf("lock" \in Top.got, Top.m)
  /\ java_stack' = Front(java_stack)
  /\ UNCHANGED <<catch_list, native_locals, stack_limit, pending, in_vmex, jni_method, native>>

-----------------------------------------------------------------------------
(* ELF methods *)

\* The check for stack overflow comes before the traps are defined.
ElfEnter ==
  /\ In("elf", "enter")
  /\ \/ /\ Depth > MaxDepth /\ Post(calls, StackOverflow) /\ UNCHANGED catch_list
     \/ /\ Depth <= MaxDepth /\ Traps[Top.m] # <<>>
        /\ calls' = Got({"catch"}) /\ st' = "run"
        /\ catch_list' = Append(catch_list, [method |-> Top.m, region |-> 0, owner |-> Depth])
     \/ /\ Depth <= MaxDepth /\ Traps[Top.m] = <<>>
        /\ st' = "run" /\ UNCHANGED <<calls, catch_list>>
  /\ UNCHANGED <<java_stack, native_locals, stack_limit, pending, in_vmex, jni_method, native, held>>

\* Mutant: a compiled method does not note which traps cover it.
SetRegionNever(cl, has, pc) == cl

\* The trap region of an instruction is its pc.
SetRegion(cl, has, pc) == IF has THEN [cl EXCEPT ![Len(cl)].region = pc] ELSE cl

NextInsn ==
  /\ Top.fn \in {"interp", "elf"} /\ st = "run" /\ Top.pc < MaxPc
  /\ calls' = [calls EXCEPT ![Depth].pc = @ + 1]
  /\ catch_list' = SetRegion(catch_list, "catch" \in Top.got, Top.pc + 1)
  /\ UNCHANGED <<st, java_stack, native_locals, stack_limit, pending, in_vmex, jni_method, native, held>>

ElfCall ==
  /\ In("elf", "run")
  /\ \E m \in Methods \ {Constructor} : Push(calls, Entry(m))
  /\ UNCHANGED <<lists, stack_limit, pending, in_vmex, jni_method, native, held>>

ElfReturn ==
  /\ In("elf", "run") /\ ReturnWith("ok")
  /\ catch_list' = IF "catch" \in Top.got THEN Front(catch_list) ELSE catch_list
  /\ UNCHANGED <<java_stack, native_locals, stack_limit, pending, in_vmex, jni_method, native, held>>

\* athrow, and what an instruction or a C function of the VM finds wrong.
JavaThrows ==
  /\ Top.fn \in {"interp", "elf", "jcni"} /\ st = "run"
  /\ \/ Raise(NullPointer) /\ UNCHANGED calls
     \/ Post(calls, NullPointer) /\ UNCHANGED pending
  /\ UNCHANGED <<lists, stack_limit, in_vmex, jni_method, native, held>>

-----------------------------------------------------------------------------
(* _jc_throw_exception(): it keeps the crawl, and where it is in the catch  *)
(* list.                                                                    *)

Position(e, c) == [chunk |-> e.chunk, d |-> e.d, catch |-> c]

Throw ==
  /\ Top.fn \in {"elf", "vinterp", "vnative", "jcni"} /\ st = "err" /\ "clip" \notin Top.got
  /\ calls' = Append(calls, [Activation("throw", None) EXCEPT
                               !.kept = Position(CrawlChunk(Len(java_stack)), Len(catch_list))])
  /\ UNCHANGED <<st, lists, stack_limit, pending, in_vmex, jni_method, native, held>>

MethodOf(d) == IF calls[d].fn = "gate" THEN "invoke_method" ELSE calls[d].m
Catch == catch_list[Top.kept.catch]
TrapsFor == IF Catch.region = 0 THEN {} ELSE Matching(Catch.method, Catch.region, pending)
IsCatch == MethodOf(Top.kept.d) = Catch.method
Caught == IsCatch /\ (Catch.method = "invoke_method" \/ TrapsFor # {})

\* A catch frame of the method at hand that does not catch the exception is discarded.
ThrowNext ==
  /\ Top.fn = "throw" /\ ~Caught
  /\ calls' = [calls EXCEPT ![Depth].kept =
       Position(CrawlNext(Top.kept), IF IsCatch THEN Top.kept.catch - 1 ELSE Top.kept.catch)]
  /\ UNCHANGED <<st, lists, stack_limit, pending, in_vmex, jni_method, native, held>>

\* The exception is caught by the method, or posted again by the gateway.
ThrowCaught ==
  LET unwound == SubSeq(calls, 1, Catch.owner)
      left == SubSeq(catch_list, 1, Top.kept.catch)
  IN  /\ Top.fn = "throw" /\ Caught
      /\ java_stack' = [SubSeq(java_stack, 1, Top.kept.chunk) EXCEPT ![Top.kept.chunk].top = 0]
      /\ \/ /\ Catch.method = "invoke_method"
            /\ calls' = unwound /\ catch_list' = left /\ UNCHANGED <<st, pending>>
         \/ /\ Catch.method # "invoke_method"
            /\ LET target == Traps[Catch.method][Min(TrapsFor)].target
               IN  /\ calls' = [unwound EXCEPT ![Catch.owner].pc = target] /\ st' = "run"
                   /\ catch_list' = SetRegion(left, TRUE, target)
            /\ pending' = None
      /\ UNCHANGED <<native_locals, stack_limit, in_vmex, jni_method, native, held>>

-----------------------------------------------------------------------------
(* The gateway _jc_invoke_jcni_a() *)

GateFrames == ClipFlag \cup {"catch", "frame"} \cup IF stack_limit = 0 THEN {"limit"} ELSE {}

\* A native method is synchronized here, other methods do it themselves.
GateEnter ==
  /\ In("gate", "enter")
  /\ LET direct == Top.pc = 1
         locks == direct /\ Top.m \in Synchronized
         callee == IF direct THEN Activation("jcni", Top.m) ELSE Entry(Top.m)
     IN  \/ /\ Push(Got(GateFrames \cup {"chunk"} \cup IF locks THEN {"lock"} ELSE {}), callee)
            /\ held' = IF locks THEN [held EXCEPT ![Top.m] = @ + 1] ELSE held
            /\ java_stack' = Append(Clip, Chunk(FALSE))
         \/ /\ locks /\ Top.m \in LockMayFail
            /\ Post(Got(GateFrames), OutOfMemory) /\ java_stack' = Clip /\ UNCHANGED held
  /\ catch_list' = Append(catch_list, [method |-> "invoke_method", region |-> 0, owner |-> Depth])
  /\ native_locals' = Append(native_locals, Depth)
  /\ stack_limit' = IF stack_limit = 0 THEN Depth ELSE stack_limit
  /\ UNCHANGED <<pending, in_vmex, jni_method, native>>

\* Only JNI functions get here with a null object.
GateNull ==
  /\ In("gate", "enter") /\ calls[Depth - 1].fn = "call"
  /\ Post(Got({"catch"}), NullPointer)
  /\ catch_list' = Append(catch_list, [method |-> "invoke_method", region |-> 0, owner |-> Depth])
  /\ UNCHANGED <<java_stack, native_locals, stack_limit, pending, in_vmex, jni_method, native, held>>

GateDone ==
  /\ Top.fn = "gate" /\ st \in {"ok", "err"}
  /\ java_stack' =
       Unclip(IF "chunk" \in Top.got THEN Front(java_stack) ELSE java_stack, "clip" \in Top.got)
  /\ native_locals' = IF "frame" \in Top.got THEN Front(native_locals) ELSE native_locals
  /\ stack_limit' = IF "limit" \in Top.got THEN 0 ELSE stack_limit
  /\ UnlockIf("lock" \in Top.got, Top.m)
  /\ catch_list' = Front(catch_list)
  /\ ReturnWith(st)
  /\ UNCHANGED <<pending, in_vmex, jni_method, native>>

-----------------------------------------------------------------------------
(* The trampolines _jc_vinterp() and _jc_vinterp_native().  Both throw the  *)
(* exception that they were returned, which is Throw.                       *)

VinterpEnter ==
  /\ In("vinterp", "enter")
  /\ LET clips == ~Last(java_stack).interp /\ CanClip IN
     /\ java_stack' = IF clips THEN Clip ELSE java_stack
     /\ Push(Got(IF clips THEN {"clip"} ELSE {}), Activation("interp", Top.m))
  /\ UNCHANGED <<catch_list, native_locals, stack_limit, pending, in_vmex, jni_method, native, held>>

VinterpDone ==
  /\ Top.fn = "vinterp" /\ st \in {"ok", "err"} /\ (st = "ok" \/ "clip" \in Top.got)
  /\ java_stack' = Unclip(java_stack, "clip" \in Top.got)
  /\ IF st = "ok" THEN ReturnWith("ok") ELSE calls' = [calls EXCEPT ![Depth].got = {}] /\ UNCHANGED st
  /\ UNCHANGED <<catch_list, native_locals, stack_limit, pending, in_vmex, jni_method, native, held>>

\* The native function may not be found.
VnativeEnter ==
  /\ In("vnative", "enter")
  /\ Push(calls, NativeEntry(Top.m))
  /\ UNCHANGED <<lists, stack_limit, pending, in_vmex, jni_method, native, held>>

VnativeDone ==
  /\ In("vnative", "ok") /\ ReturnWith("ok")
  /\ UNCHANGED <<lists, stack_limit, pending, in_vmex, jni_method, native, held>>

-----------------------------------------------------------------------------
(* JNI native methods: _jc_invoke_jni_a() and the native code               *)

JniEnter ==
  /\ In("jni_a", "enter")
  /\ native_locals' = Append(native_locals, Depth)
  /\ LET locks == Top.m \in Synchronized IN
     \/ /\ calls' = Append(Got(ClipFlag \cup {"frame"} \cup IF locks THEN {"lock"} ELSE {}),
                           [Activation("native", Top.m) EXCEPT !.kept = jni_method])
        /\ st' = "run" /\ native' = TRUE /\ jni_method' = Top.m
        /\ java_stack' = Clip
        /\ held' = IF locks THEN [held EXCEPT ![Top.m] = @ + 1] ELSE held
     \/ /\ Top.m \in LockMayFail /\ Post(Got({"frame"}), OutOfMemory)
        /\ UNCHANGED <<java_stack, native, jni_method, held>>
  /\ UNCHANGED <<catch_list, stack_limit, pending, in_vmex>>

\* The native function returns, and previous_jni_method is back.
NativeReturn ==
  /\ In("native", "run") /\ Depth > 1
  /\ native' = FALSE /\ jni_method' = Top.kept
  /\ ReturnWith(IF pending = None THEN "ok" ELSE "err")
  /\ UNCHANGED <<lists, stack_limit, pending, in_vmex, held>>

JniDone ==
  /\ Top.fn = "jni_a" /\ st \in {"ok", "err"}
  /\ java_stack' = Unclip(java_stack, "clip" \in Top.got)
  /\ native_locals' = Front(native_locals)
  /\ UnlockIf("lock" \in Top.got, Top.m)
  /\ ReturnWith(st)
  /\ UNCHANGED <<catch_list, stack_limit, pending, in_vmex, jni_method, native>>

\* Throw(), ThrowNew(), and ExceptionClear().
NativeThrows ==
  /\ In("native", "run") /\ pending = None
  /\ pending' = NullPointer
  /\ UNCHANGED <<calls, st, lists, stack_limit, in_vmex, jni_method, native, held>>

NativeClears ==
  /\ In("native", "run") /\ pending # None
  /\ pending' = None
  /\ UNCHANGED <<calls, st, lists, stack_limit, in_vmex, jni_method, native, held>>

-----------------------------------------------------------------------------
(* The JNI functions that call methods, and C code of the VM that does      *)

NativeCall ==
  /\ In("native", "run") /\ pending = None /\ Depth < MaxCalls
  /\ native' = FALSE
  /\ \E m \in Methods \ {Constructor} : Push(calls, [Activation("call", m) EXCEPT !.got = {"frame"}])
  /\ native_locals' = Append(native_locals, Depth + 1)
  /\ UNCHANGED <<java_stack, catch_list, stack_limit, pending, in_vmex, jni_method, held>>

\* What a call of each sort does before it gets to the gateway.
CallNonvirtual == Push(calls, Gate(Top.m)) /\ UNCHANGED pending
CallVirtual == Post(calls, NullPointer) /\ UNCHANGED pending
CallStatic == Raise(OutOfMemory) /\ UNCHANGED calls

CallEnter ==
  /\ In("call", "enter")
  /\ CallNonvirtual \/ CallVirtual \/ CallStatic
  /\ UNCHANGED <<lists, stack_limit, in_vmex, jni_method, native, held>>

CallDone ==
  /\ Top.fn = "call" /\ st \in {"ok", "err"}
  /\ native_locals' = Front(native_locals)
  /\ native' = TRUE
  /\ ReturnWith(st)
  /\ UNCHANGED <<java_stack, catch_list, stack_limit, pending, in_vmex, jni_method, held>>

\* A native function of the VM calls a method, or returns.
JcniCall ==
  /\ In("jcni", "run") /\ Depth < MaxCalls
  /\ \E m \in Methods \ {Constructor} : Push(calls, Gate(m))
  /\ UNCHANGED <<lists, stack_limit, pending, in_vmex, jni_method, native, held>>

JcniEnter ==
  /\ In("jcni", "enter") /\ st' = "run"
  /\ UNCHANGED <<calls, lists, stack_limit, pending, in_vmex, jni_method, native, held>>

JcniReturn ==
  /\ In("jcni", "run") /\ ReturnWith("ok")
  /\ UNCHANGED <<lists, stack_limit, pending, in_vmex, jni_method, native, held>>

-----------------------------------------------------------------------------
ExecutionNext ==
  \/ PostAgain \/ PostNew \/ PostDone
  \/ InterpOverflow \/ InterpEnter \/ InterpCall \/ InterpException \/ InterpNoFrame \/ InterpReturn
  \/ NextInsn \/ ElfEnter \/ ElfCall \/ ElfReturn \/ JavaThrows
  \/ Throw \/ ThrowNext \/ ThrowCaught
  \/ GateEnter \/ GateNull \/ GateDone
  \/ VinterpEnter \/ VinterpDone \/ VnativeEnter \/ VnativeDone
  \/ JniEnter \/ NativeReturn \/ JniDone \/ NativeThrows \/ NativeClears
  \/ NativeCall \/ CallEnter \/ CallDone \/ JcniCall \/ JcniEnter \/ JcniReturn

ExecutionSpec == ExecutionInit /\ [][ExecutionNext]_execvars

-----------------------------------------------------------------------------
(* Properties *)

Holders(x) == {d \in 1 .. Depth : x \in calls[d].got}
OwnersOf(list) == [k \in DOMAIN list |-> list[k].owner]
Lists(q, S) == Range(q) = S /\ \A i, j \in DOMAIN q : i < j => q[i] < q[j]

\* The Java methods that the thread is in.
LiveJava ==
  {d \in 1 .. Depth : calls[d].fn = "elf" \/ (calls[d].fn \in {"interp", "gate"} /\ "chunk" \in calls[d].got)}

\* Whatever functions returned early or were left by a longjmp, the lists that
\* the VM keeps are those of the live activations: a crawl of the stack, for a
\* stack trace or for the collector, sees each Java method once and in order, the
\* top is clipped while the thread is in native code, and the catch frames, the
\* frames of native references, the stack limit, in_vmex and jni_method are the
\* live activations' own.
StacksAgree ==
  /\ Lists(OwnersOf(java_stack), Holders("chunk"))
  /\ Lists(OwnersOf(catch_list), Holders("catch"))
  /\ Lists(native_locals, Holders("frame"))
  /\ \A k \in DOMAIN java_stack : java_stack[k].top <= Depth
  /\ st # "enter" =>
       /\ UNION {InChunk(k) : k \in DOMAIN java_stack} = LiveJava
       /\ \A j, k \in DOMAIN java_stack : j < k => \A d \in InChunk(j), e \in InChunk(k) : d < e
  /\ native /\ java_stack # <<>> => Last(java_stack).top # 0
  /\ Holders("limit") = IF stack_limit = 0 THEN {} ELSE {stack_limit}
  /\ in_vmex = {calls[d].m : d \in Holders("vmex")}
  /\ jni_method = LET S == {d \in 1 .. Depth : calls[d].fn = "native"} IN calls[Max(S)].m

\* A monitor is held once for each live activation of its synchronized method,
\* and the code of such a method runs only while it is held.
MonitorsBalanced ==
  /\ \A m \in Methods : held[m] = Cardinality({d \in Holders("lock") : calls[d].m = m})
  /\ \A d \in 1 .. Depth :
       /\ calls[d].fn = "interp" /\ calls[d].m \in Synchronized
       /\ IF d = Depth THEN st = "run" ELSE calls[d + 1].fn # "post"
       => "lock" \in calls[d].got

\* Where an exception has to go: to the innermost activation that has begun and has
\* a trap for it where it is, or to the native code that called Java.
Catches(d, e) ==
  \/ calls[d].fn = "native"
  \/ /\ calls[d].fn = "interp" /\ "chunk" \in calls[d].got /\ Matching(calls[d].m, calls[d].pc, e) # {}
     /\ calls[d].m \in Synchronized => "lock" \in calls[d].got
  \/ calls[d].fn = "elf" /\ "catch" \in calls[d].got /\ Matching(calls[d].m, calls[d].pc, e) # {}
Handler == Max({d \in 1 .. Depth : Catches(d, pending)})
InFlight == pending # None /\ st = "err"

\* However many activations, interpreted, compiled and native, are between, and
\* whatever longjmps and returned errors take it there, an exception gets to the
\* innermost handler for it, at the right trap, and to no other.
HandlerFound ==
  [][InFlight =>
       \/ InFlight' /\ pending' = pending /\ Handler' = Handler
       \/ calls[Handler].fn = "native" /\ Depth' = Handler /\ pending' = pending /\ st' = "run"
       \/ /\ calls[Handler].fn # "native" /\ Depth' = Handler /\ pending' = None /\ st' = "run"
          /\ LET S == Matching(calls[Handler].m, calls[Handler].pc, pending)
             IN  Top'.pc = Traps[calls[Handler].m][Min(S)].target]_execvars

-----------------------------------------------------------------------------
(* What the properties rest on                                              *)

\* No interpreted method that may fail to take its monitor has a trap for its first
\* instruction: it would catch the exception and run without the monitor.
LockFailuresLeave ==
  \A m \in LockMayFail : \A i \in DOMAIN Traps[m] : Traps[m][i].start > 0

Functions == {"native", "interp", "elf", "gate", "vinterp", "vnative", "jcni", "jni_a", "call", "post", "throw"}
Things == {"frame", "chunk", "lock", "catch", "clip", "limit", "vmex"}
Positions == [chunk : Nat, d : Nat, catch : Nat]
ActivationType ==
  [fn : Functions, m : Methods \cup Exceptions \cup {None},
   pc : Nat, got : SUBSET Things, kept : Methods \cup {None} \cup Positions]

ChunkType == [interp : BOOLEAN, owner : Nat, top : Nat]
CatchType == [method : Methods \cup {"invoke_method"}, region : Nat, owner : Nat]

TypeOK ==
  /\ calls \in Seq(ActivationType) /\ calls # <<>> /\ st \in {"enter", "run", "ok", "err"}
  /\ java_stack \in Seq(ChunkType)
  /\ catch_list \in Seq(CatchType)
  /\ native_locals \in Seq(Nat)
  /\ stack_limit \in Nat /\ pending \in Exceptions \cup {None} /\ in_vmex \subseteq Exceptions
  /\ jni_method \in Methods \cup {None} /\ native \in BOOLEAN /\ held \in [Methods -> Nat]

\* What each function may have to undo.
May ==
  [fn \in Functions |->
     CASE fn \in {"native", "call"} -> {"frame"}
       [] fn = "interp" -> {"chunk", "lock"}
       [] fn = "elf" -> {"catch"}
       [] fn = "gate" -> {"clip", "catch", "frame", "limit", "chunk", "lock"}
       [] fn = "vinterp" -> {"clip"}
       [] fn = "jni_a" -> {"clip", "frame", "lock"}
       [] fn = "post" -> {"vmex"}
       [] OTHER -> {}]

Shape(a) ==
  /\ a.got \subseteq May[a.fn]
  /\ a.fn \notin {"native", "post", "throw"} => a.m \in Methods
  /\ a.fn = "native" => a.m \in Methods \cup {None}
  /\ a.fn = "post" => a.m \in Exceptions
  /\ a.fn = "call" => "frame" \in a.got
  /\ a.fn = "elf" => KindOf[a.m] = "elf"
  /\ a.fn = "interp" => /\ "lock" \in a.got => "chunk" \in a.got /\ a.m \in Synchronized
                        /\ "lock" \notin a.got /\ a.m \in Synchronized =>
                             a.pc = 0 /\ ("chunk" \in a.got => a.m \in LockMayFail)

\* What an activation has that has called another, and one whose code runs.
Started(a) ==
  /\ a.fn = "gate" => "catch" \in a.got
  /\ a.fn = "jni_a" => "frame" \in a.got
  /\ a.fn = "post" => "vmex" \in a.got

Underway(a) ==
  /\ a.fn = "gate" => "chunk" \in a.got
  /\ a.fn = "elf" => (Traps[a.m] # <<>> => "catch" \in a.got)
  /\ a.fn = "interp" => "chunk" \in a.got /\ (a.m \in Synchronized => "lock" \in a.got)

\* Which function calls which.
Thrower == {"elf", "vinterp", "vnative", "jcni"}
Callees ==
  [fn \in Functions |->
     CASE fn = "native" -> {"call"}
       [] fn = "call" -> {"gate", "post"}
       [] fn = "gate" -> Thrower \cup {"post"}
       [] fn = "elf" -> {"elf", "vinterp", "vnative", "post", "throw"}
       [] fn = "vinterp" -> {"interp", "throw"}
       [] fn = "vnative" -> {"gate", "jni_a", "throw"}
       [] fn = "jcni" -> {"gate", "post", "throw"}
       [] fn = "interp" -> {"interp", "gate", "jni_a", "post"}
       [] fn = "jni_a" -> {"native", "post"}
       [] fn = "post" -> {"gate", "post"}
       [] OTHER -> {}]

\* An activation that waits for another.
Waits(a, b) ==
  /\ b.fn \in Callees[a.fn] /\ Started(a)
  /\ b.fn \notin {"post", "throw"} => Underway(a)

\* Each activation has what it may, and so does who waits for it.
Links ==
  /\ \A d \in 1 .. Depth : Shape(calls[d])
  /\ \A d \in 1 .. Depth - 1 : Waits(calls[d], calls[d + 1])
  /\ calls[1].fn = "native" /\ "frame" \in calls[1].got
  /\ \A d \in 2 .. Depth : calls[d].fn = "native" => calls[d].got = {}

\* What the status says of the top.
TopIs ==
  /\ native <=> Top.fn = "native"
  /\ st = "enter" => /\ Top.fn \notin {"native", "throw"}
                     /\ Top.got = IF Top.fn = "call" THEN {"frame"} ELSE {}
                     /\ Top.fn = "elf" => Top.pc = 0
  /\ st = "run" => Top.fn \in {"native", "interp", "elf", "jcni"} /\ Underway(Top)
  /\ st \in {"ok", "err"} => Top.fn # "native" /\ Started(Top)
  /\ st = "ok" => Top.fn \notin {"interp", "elf", "jcni", "throw"}

\* The chunks and the catch frames say what their owners are.
Chunks ==
  /\ Lists(OwnersOf(java_stack), Holders("chunk"))
  /\ \A k \in DOMAIN java_stack : java_stack[k].interp <=> calls[java_stack[k].owner].fn = "interp"
Catchers ==
  /\ Lists(OwnersOf(catch_list), Holders("catch"))
  /\ \A c \in DOMAIN catch_list :
       LET a == calls[catch_list[c].owner]
       IN  /\ a.fn = "gate" => catch_list[c].method = "invoke_method"
           /\ a.fn = "elf" => catch_list[c].method = a.m /\ catch_list[c].region = a.pc
NativeLocals == Lists(native_locals, Holders("frame"))
Limits == Holders("limit") = IF stack_limit = 0 THEN {} ELSE {stack_limit}

\* A chunk is clipped by one activation, which comes after its frames; some functions
\* never go on without.
LastBefore(q, k, d) == q[k].owner < d /\ (k < Len(q) => d <= q[k + 1].owner)
ClipsIn(q, n, H) ==
  /\ \A k \in DOMAIN q, d \in 1 .. n : LastBefore(q, k, d) => (d \in H <=> q[k].top = d - 1)
  /\ \A k \in DOMAIN q : q[k].top # 0 => q[k].top < n /\ LastBefore(q, k, q[k].top + 1)
  /\ \A d \in H : \E k \in DOMAIN q : q[k].owner < d
ClippedIn(q, n, L, M) ==
  \A k \in DOMAIN q, d \in 1 .. n :
    LastBefore(q, k, d) /\ (d \in L \/ (d \in M /\ ~q[k].interp)) => q[k].top # 0 /\ q[k].top < d

Leading ==
  {d \in 1 .. Depth : \/ calls[d].fn = "gate" /\ calls[d].got # {}
                      \/ d < Depth /\ calls[d].fn = "jni_a" /\ calls[d + 1].fn = "native"}
Interpreting == {d \in 1 .. Depth : d < Depth /\ calls[d].fn = "vinterp" /\ calls[d + 1].fn = "interp"}
Clips == ClipsIn(java_stack, Depth, Holders("clip"))
Clipped == ClippedIn(java_stack, Depth, Leading, Interpreting)

\* The exceptions that are being posted, and the native methods that call each other.
Posting ==
  /\ in_vmex = {calls[d].m : d \in Holders("vmex")}
  /\ \A d, e \in Holders("vmex") : calls[d].m = calls[e].m => d = e
LastNative(d, e) == calls[d].fn = "native" /\ \A x \in 1 .. Depth : d < x /\ x < e => calls[x].fn # "native"
JniMethods ==
  /\ \A d \in 1 .. Depth : LastNative(d, Depth + 1) => jni_method = calls[d].m
  /\ \A d, e \in 1 .. Depth : d < e /\ calls[e].fn = "native" /\ LastNative(d, e) => calls[e].kept = calls[d].m

Balance == \A m \in Methods : held[m] = Cardinality({d \in Holders("lock") : calls[d].m = m})

\* _jc_throw_exception() has the last chunk in hand and a frame of it that is not below
\* the catch frame; those that it has discarded do not catch.
Search(p) ==
  LET K == Len(java_stack) IN
  /\ p.chunk = K /\ K # 0 /\ ~java_stack[K].interp
  /\ p.d \in java_stack[K].owner .. Depth - 1 /\ Registered(p.d)
  /\ p.catch \in DOMAIN catch_list
  /\ catch_list[p.catch].owner \in java_stack[K].owner .. p.d
  /\ \A c \in DOMAIN catch_list : c > p.catch => ~Catches(catch_list[c].owner, pending)
Searches == Top.fn = "throw" => st = "err" /\ Top.kept \in Positions /\ Search(Top.kept)

\* The inductive invariant.
ExecutionInv ==
  /\ TypeOK /\ Links /\ TopIs
  /\ Chunks /\ Catchers /\ NativeLocals /\ Limits /\ Clips /\ Clipped
  /\ Posting /\ JniMethods /\ Balance /\ Searches
=============================================================================
