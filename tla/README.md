# Formal models of the JC virtual machine

JC is a Java virtual machine written in C: `libjc` holds the virtual machine
(threads, monitors, class loading, garbage collection, an interpreter, JNI),
`java/org/dellroad/jc` a code generator that compiles bytecode to C, `tools`
a few programs around class files. This directory models `libjc`: first the parts
whose correctness rests on an order of events (the interleaving of threads, the
phases of a stop of the world, the states of a lock or of a class), then the
parts that have to agree with each other (frames of several kinds on one stack,
callers and methods that pass parameters differently, tables built here and read
there).

Every definition is translated from the C source; `PROJECT.json` maps each one
to its lines. Where the code does not do what its documentation, a comment or an
assertion says, section 4 says so; one of these is refuted by a run of its own.

## 1. Inventory

| Component | State | Operations | Hard part | Module |
|---|---|---|---|---|
| Threads, stop-the-world (`thread.c`, `java_lang_VMThread.c`) | list of live threads, `status` and `suspended` of each, `pending_halt_count`, `world_stopped`, `vm->mutex` | check, halt, stop and resume the world, enter and leave Java, start, attach, detach, suspend, resume | every step races with every other; one counter and one signal per stop | World, SafePoint |
| Monitors (`lock.c`) | lockword of each object, fat locks, per-thread contention flag and queue of waiters | lock, unlock, inflate, contention, free | unlocking never looks at a mutex unless the owner's flag is set | Monitor, Monitors |
| wait and notify (`java_lang_VMObject.c`) | per fat lock: notify counter and "wakeup" word; per thread: interrupt status | wait, timed wait, notify, notifyAll, interrupt | one word of memory stands for all the notifications | WaitNotify |
| Class initialization (`initialize.c`) | per type: INITIALIZED flag, `initializing_thread`, error | initialize | several threads, superclasses, failure half-way | ClassInit |
| Class loading (`load.c`, `class_loader.c`, `class_file.c`, `class_object.c`, `derive*.c`) | per loader: trees of initiated, defined and partly derived types, `waiters`; the VM's tree of class files with reference counts; object files | load, define, derive, find object, unload | recursive loading, several threads, circularity, failures half-way | Loading |
| Loader memory (`cl_alloc.c`) | chunks, current offset, marks | alloc, mark, rewind, unalloc | a failed derivation gives back what it took | not modelled |
| Collector (`gc_scan.c`, `gc_root.c`, `gc_final.c`) | LIVE, KEEP and FINALIZE bits, marks of loaders, scanning stack, the finalizer's cursor | mark, process references, sweep, unload, finalize | reference strengths, resurrection, a collection that fails or comes during a sweep of the finalizer | Gc |
| Heap (`heap.c`, `new.c`) | first word of each page, words of its blocks, hints, `use_first` lists, `next_page` | allocate, grow, collect | allocation by compare-and-swap, without a lock | Heap |
| Native references (`native_ref.c`), JNI functions (`jni_native.c`) | frames of local references, global references, flags of used slots; pending exception | new, free, push, pop, and every JNI function | the flags must agree with the references; functions made of others fail in the middle | Jni |
| Execution (`interp.c`, `invoke.c`, `stack.c`, `exception.c`, `native_lib.c`, `c_support.c`) | Java stack, catch list, frames of native references, stack limit, pending exception, monitors held | call, return, throw, catch, lock and unlock, in four kinds of methods | an exception is a returned error in some frames and a longjmp over others | Execution |
| Passing of parameters (`invoke.c`, `interp.c`, `arch_functions.c`) | parameters in one of six forms | convert | words and double words, registers, references that are wrapped and unwrapped | Arguments |
| Interpreter's instructions (`interp.c`) | stack and locals, as untyped words | every opcode | offsets from the stack pointer, types of one word and of two | Operands, Bytecode |
| Method tables and type tests (`derive2.c`, `resolve*.c`, `instance.c`) | vtable, mtable, interface hash tables, instanceof tables | derive, resolve, invoke, test | tables built in one place and read in seven | Dispatch |
| Class file parser (`cf_parse.c`) | constant pool, instructions, maps from bytes to instructions | parse | references forwards and backwards, input that is not well formed | ClassFile |
| VM life cycle (`init.c`, `vm.c`, `bootstrap.c`, `jni_invoke.c`) | list of VMs, the VM's fields | create, attach, detach, destroy | shutdown against live threads | World (attach, detach) |
| Splay trees, UTF-8, zip, ELF relocation, reflection's conversions, the OS layer, tools, code generator | see `components` in PROJECT.json | | mostly sequential translation | not modelled |

How they interact: every component runs inside a thread that is in Java mode
(and holds off any collection) or in native mode (and may not touch the heap).
Blocking operations (monitors, wait, suspend, native code) leave Java mode
first. The collector stops the world through `_jc_stop_the_world()`; monitors
call the collector when they run out of fat locks; the collector frees fat
locks, runs no Java code itself and wakes the finalizer thread through
`_jc_thread_interrupt()`; class initialization uses the class's own monitor with
wait and notify.


What makes each component correct, in a line:

- *stop the world*: stopped means that nobody else is in Java code; a stop
  completes and lets everybody go again; two stops never overlap;
- *monitors*: one owner at a time, lockword and owner agree, every waiter is
  woken by somebody;
- *wait and notify*: a wait ends for a reason, no interrupt and no `notifyAll()`
  gets lost, a timeout ends the wait;
- *class initialization*: `<clinit>` runs once and after the superclass, nobody
  uses a class half-way but its initializer, everybody who waits is told;
- *class loading*: one type per name and loader, supertypes before the type, every
  load ends, a failed one leaves no trace;
- *loader memory*: no block is handed out twice, a rewind gives back just what
  came after the mark;
- *collector*: marks exactly what is reachable, clears references in the order
  of their strengths, finalizes once, unloads a loader only with all it loaded;
- *heap*: a block has one user, a page one state; a walk finds every object;
- *native references and JNI*: a slot is used as long as somebody has its
  reference; the first exception is the one that native code sees;
- *execution*: what the VM knows of the stack is what is on it, and exceptions get
  to the innermost handler, after any mix of frames;
- *parameters, instructions, tables, parser*: they mean what Java says they mean.

The hazards - the places where this is hard to get right and hard to test - are
listed by line in `PROJECT.json`, with the properties that watch over them.

## 2. The modules

    SafePoint <---- World        implements (RefinesSafePoint)
    Monitors  <---- Monitor      implements (RefinesMonitors)
                    WaitNotify
                    ClassInit
                    Loading
                    Heap
                    Gc
    Bytecode  <---- Operands     implements (RunsBytecode)
                    Execution
                    Arguments
                    Jni
                    Dispatch
                    ClassFile

The first seven detailed modules have each an `MC` module, which adds symmetry
sets and constants for TLC. The last six, about code that
runs in one thread, share the module `MCCode`, which extends Jni, Execution and
Dispatch and instantiates the others: its variable `part` says which of them a behaviour is about,
so that one run checks them all. The proofs about a module are in its `Proofs` module;
those about World, the stop that a collection runs in, and about Gc, the collection,
are in `CollectionProofs`, and those about Jni and Dispatch in `CodeProofs`. Arguments,
Bytecode, Operands and ClassFile have none.
They do not interact there; each takes from the others what its comment says. The definitions whose comment
begins with "Mutant:" are bugs that are *not* in the code. They take part in no
specification: each is a changed form of the definition that follows it, and
shows that some property would notice the change (section 6).

Each module takes as one step what nobody can look into: a critical section
under a mutex, if what it touches is touched nowhere else; a compare-and-swap; a
read of something that is not protected. Where the code reads and then acts on
what it read, there are two steps, and a local variable for what was read.

### World (`thread.c`, `java_lang_VMThread.c`, the frame of `gc_scan.c`)

A thread is a `_jc_env` structure. `status` and `suspended` are its fields;
`alive` is `vm->threads.alive_list`, `pendingHaltCount` and `worldStopped` are
fields of the VM, `mutex` is `vm->mutex` where a thread keeps it over several
steps (the loops of `_jc_stop_the_world()` and `_jc_resume_the_world()`, whose
compare-and-swaps race with those of the threads they deal with). `pc` says
where a thread is:

| `pc` | place in the code |
|---|---|
| `java`, `checkSuspended` | Java code; `_jc_thread_check()` between its two tests |
| `check`, `leave`, `leaveSuspend`, `gc`, `suspend`, `start`, `detach` | in `_jc_halt_if_requested()`, called from there |
| `mark`, `awaitHalt`, `signalled`, `stopped`, `resume` | `_jc_stop_the_world()`: the loop, the wait, the return from it; the world is stopped; `_jc_resume_the_world()` |
| `native`, `enter` | native code; `_jc_resuming_java()` waiting |
| `suspended`, `unsuspend` | `_jc_thread_suspend()` |
| `starting`, `born` | parent and child in `VMThread.start()` |
| `attach`, `out` | `_jc_attach_thread()` waiting; no thread |

A spurious wakeup of a halted thread changes nothing: its predicate is tested
again. One of the stopper does, and is `SpuriousWakeup`.

Constants: `Ops` is what programs do, all of it in every run. `StartMayFail`
lets `VMThread.start()` fail after the child is on the list: late, and the structure
goes to the free list with the status and the suspension it has, for the next thread;
or early, and it is destroyed. `HandOff` decides
who gets `vm->mutex` when a stopper has been signalled and a native thread wants
to attach: POSIX does not say, and with `HandOff = FALSE` the world is not safe
(`World_attach_race`). Runs and theorems that need the assumption name it.

Not in World: thread ids, the order of the free list, interrupts (in WaitNotify),
exceptions that other threads post (likewise), `_jc_thread_shutdown()`, the end
of the VM.

**SafePoint** is what the users of World rely on: `Stop(t)` happens when `t`
alone runs Java code, and nobody enters Java code until `Resume`, which comes.
World implements it with `running` the live threads whose status is one of Java
mode, and `stopper` the thread at `stopped`.

### Monitor (`lock.c`, part of `java_lang_VMObject.c`)

`lockword` is a record: thread and count of a thin lock, or a fat lock.
`contention`, `waiters` and `mutex` are fields of the owner's `_jc_env`,
`waitObj` of the waiter's. `held` and `kept` are the program's view: how often a
thread is in a monitor, and what it gave up in `Object.wait()`.

| `pc` | place in the code |
|---|---|
| `cas`, `retry` | `_jc_lock_object()` after its look at the lockword; at "retry" |
| `contend`, `noted`, `parked` | before the owner's mutex; flag set; asleep in the owner's queue |
| `fat`, `overflow` | waiting for a fat lock; recursion at its limit |
| `released` | a lock released or inflated, `contention` not yet read |
| `contention`, `wakeWaiters` | `_jc_lock_contention()` before and after its mutex |
| `wait`, `leave`, `waiting` | `Object.wait()`: to inflate, to give up, asleep |

`Collect` is a collection as monitors see it: it happens when all others are at
safe points and returns the fat locks of dead objects. Inflation may fail at any time
(`InflateFails`), as memory may; with no fat lock left it fails if a collection does
not help or fails itself. `Races` switches on three
races of the code:

- `unowned`: the lock is free when looked at and is taken before the swap;
- `idOverlap`: a fat lock's number reads as a thread id, as both share bits;
- `exit`: an owner ends before a contender takes its mutex.

With all of them on, the monitors still exclude (`Monitor_safety`, and the
theorems); what they break is liveness. A contender that goes to an owner that
does not exist stops for good in the model, where the code would follow a pointer
to nowhere.

Stores are seen by all threads in program order. The i386 promises less: the
release of a thin lock, `lock.c:258`, and the load of the contention flag after
it may change places. This is a hazard of the code that the model leaves out.

**Monitors** is the abstract specification: a count per thread and object,
entered, left, given up whole and taken back whole.

### WaitNotify (`java_lang_VMObject.c`, `java_lang_VMThread.c`, `thread.c`)

One object with a fat lock. `mutex` is `lock->mutex` where wait() keeps it over
several steps; `notifyCount` and `notifyWakeup` are the two words under it;
`status`, `interruptible` and `cross` are fields of each thread.
`notified` is a history variable: has there been a notification since the thread
fell asleep. wait() goes `wait`, `swapIn`, `sleep` (all with the mutex),
`asleep`, `woken`, `finished` (waiting for the monitor), `resumed`, `swapOut`,
`unlist`; interrupt() goes `interrupt`, `swap`, `signal`, `broadcast`. Constants:
`Waiters` may wait, `Callers` may notify, interrupt and stop, `CountMod` is the
range of `notify_count` (65536 in the code). Time is one event per wait,
`Expire`. `pthread_cond_wait()` may return at any time.

Monitor and WaitNotify meet in `Object.wait()`: Monitor has how the lock is
given up and taken back (`LeaveMonitor`, `Reenter`), WaitNotify why the thread
sleeps and wakes. Recursion counts are left to the first, thin locks too.

### ClassInit (`initialize.c`, part of `derive.c`)

A call of `_jc_initialize_type()` works on class `at[t]`; the classes of the
calls around it are on `stack[t]`. A class on the stack that has begun its
`<clinit>` runs Java code, and `<clinit>` may need any class; one that has not
is in step 7, initializing its superclass. `pc` follows the numbered steps of
the source. The critical sections are under the monitor of the `Class` object:
`owner` is that monitor where a call keeps it over two steps, from step 9 (or 3,
or 4) to "done", in between which INITIALIZED is set and the lockword is not.

`Failing` says which steps may fail: resolving the type, taking the monitor,
waiting (interrupts), constant fields, wrapping an exception, `notifyAll()`.
`silent` is a history variable: classes whose `notifyAll()` failed.
`OtherNotify` is a wakeup by somebody else: a spurious one, or a program that
synchronizes on the `Class` object.

Not in ClassInit: the time before Java code may run, when there are no locks;
interfaces; the values of fields.

### Loading (`load.c`, `derive.c`, `derive2.c`, `class_loader.c`, `class_file.c`, `class_object.c`)

A load recurses through loaders, so each thread has a `stack` of activations of
the functions of the code, each with its place `pc`, and `ret` is what the last
one returned: a type, nothing (the class is not found, or an exception), or
`OutOfMemory`. A step is what happens while a loader's mutex is held. `initiated`, `deriving`
and `defined` are the trees of a loader, `loading` and `waiters` those of the boot
loader, which waits for other threads' loads; other loaders are Java code, whose
`loadClass()` is synchronized (`monitor`). `files` is the VM's tree of class
files with the references of each. `mode` stands for the flags that tell whether
code is interpreted, generated or read from objects.

`Supers` and `ClassFiles` are what the class files say; `ObjectFiles` says which
classes an ELF object holds: one of a single class, or one of a package, whose
types are all derived together; these are distinct, for the code keeps them in a tree under
their names (`class_object.c:111`). `MayFail` lets memory run out where the code
allocates: nodes of classes, types and class files, what holds the supertypes, and the
types themselves. In "objects", the boot loader has objects only; another loader looks for
one and interprets the class when there is none. In the instance, a class loads its superclass, another is its own
superclass, two are in one object, a loader has another version of one of them,
and there are arrays of a class of each kind.

### Heap (`heap.c`, `new.c`)

`page[p]` is the descriptor of a page, `block[p]` the first words of its blocks:
these change by compare-and-swap. `hint`, `list` and `nextPage` are plain words
that any thread may set at any moment. `job[t]` has the local variables of the
allocation in progress, `held[t]` the objects that the program has got. An
allocation is looked at between any two accesses to shared words, a collection is
one step (World has its beginning and end, Gc what it frees). Pages of a large
object after its first have no descriptor, and what is there is the object's data.
`misled` is a history variable that no step reads: whether a thread has gone on by the
length it read in a reservation that is not complete (section 4). `GcFails` is a
collection that fails before or after it has reset hints and lists. `MaxBlocks` is the
most blocks of a page.

### Gc (`gc_scan.c`, `gc_root.c`, `gc_final.c`, `FinalizerThread.java`)

`heap` and `loaders` are what there is; `fields`, `referent` and `statics` are
the references; `live`, `keep`, `finalize` the bits of objects, `gcMark` that of
loaders. A loader stands for its Class objects. `todo` is the scanning stack:
`Trace` takes any element of it, as its order does not matter, and `FailGc` is its
overflow. `phase` is "run" while the world runs, "live" and "keep" in the two
traces. `final` is the cursor of `_jc_gc_finalize()` with the object in its
hands. `Load`, `Forget` and `Store` are the program, which moves references
through `stack`.

### Code that runs in one thread (`MCCode`)

**Execution.** `calls` is the C stack as activations of the functions that
matter: the interpreter, compiled methods, native methods (JNI and the VM's own),
the gateways between them, and `post`, the creation of an exception, which is Java
code again. `st` is what the top is about: to begin, to run, or to look at the
status of what it called. `java_stack`, `catch_list`, `native_locals`,
`stack_limit`, `in_vmex` and `jni_method` are the lists that the functions keep
by hand; `StacksAgree` compares them with `calls`. `got` of an activation is what its
function has done and has to undo, `kept` what else it keeps. An exception is `err`
returned from function to function, or goes by `_jc_throw_exception()`. That is an
activation as well: `Throw` begins a crawl of the stack with `CrawlChunk` and the head of
the catch list, each `ThrowNext` goes to the next frame (`CrawlNext`) and discards a catch
frame of that method which does not catch, and `ThrowCaught` is the longjmp. Which
instruction calls, throws or returns is any.

**Arguments.** The parameters of a method go from the form the caller has
(`jvalue`s, words, C's variable arguments, registers and stack) to the form the
method has. Words know which part of which parameter they are, so `ArgumentsArrive`
can ask whether each is where the convention, or the bytecode, looks for it. All
lists of up to four parameters are in the instance.

**Operands** has the effect of every opcode on the words of stack and locals, by
the offsets and types that the code's macros use; **Bytecode** has the same on
values, as the Java virtual machine defines it: it is the abstract specification,
and `RunsBytecode` the refinement. A word carries the type it was written as; what
is read as another type is garbage.

**Jni.** `frames` are the local and `globals` the global frames with their words
of flags; `refs`, `own`, `theirs` are the references that native code, a JNI
function in progress and another thread have. A JNI function that is made of
others is a list of steps (`code`) with `temps`; any of these may fail. Native
code keeps to JNI's rules: it uses references it has, and calls few functions
while an exception is pending. A call of a method takes its object from `env->retval`
whether it failed or not, and what an earlier call left there gets a reference next to
the exception: native code does not know of it when one JNI function calls another
(`lost`). The result of a native method is read after its frames are gone, so from memory
that may have been freed (`Dangling`) it is any object. The flags of global references
are changed by the other thread in two steps, a read and a write; `raced` is a history
variable: whether native code has changed the same word in between.

**Dispatch.** Types are derived and resolved in any order that the code allows,
with any declarations of `Declarable` and `Implementable`, in a hierarchy `Chain` of
which `ChainAssumption` says what is so of any in Java. The tables `mtable`
(and vtable), `imethods`, `quick` and `instanceof` are what `derive2.c` and
`resolve.c` build; the ways to look into them are operators, compared with what
Java selects.

**ClassFile.** `Files` are class files as lists of constants or instructions,
well formed or not; the parser's loops go one element a step, and
`ParsedAsWritten` compares the result, or the error, with what the format says.

## 3. The runs

| Run | Instance | What it shows |
|---|---|---|
| `World_safety` | 3 threads, all operations, start() may fail | the world is stopped when it is declared stopped (`WorldStoppedSafe`); `IInv` holds: the counter misses nobody, the defaults of the switches over `status` are never reached, stops do not overlap |
| `World_live` | 3 threads, all operations, start() succeeds | every stop completes, every halted thread runs again; SafePoint is implemented, its fairness included |
| `World_strong` | 2 threads, strong fairness | `Thread.suspend()` takes effect, every collection that is asked for is done |
| `World_attach_race` | as `World_live`, `HandOff` false | refutes `WorldStoppedSafe` |
| `Monitor_safety` | 3 threads, 2 objects, 1 fat lock, all races | mutual exclusion; `IInv` holds: lockwords say who is in, fat locks are shared by nobody; Monitors is implemented |
| `Monitor_live` | 3 threads, 2 objects, 2 fat locks, no overflow, no race | every release reaches the waiters, nobody is stranded |
| `WaitNotify_safety` | 2 waiters, 1 caller, counter modulo 3 | no wait ends without a reason, no interrupt is lost or slept through; `IInv` holds: the assertions on the status, `notifyAll()` reaches all |
| `ClassInit_safety` | 3 threads, chain of 3 classes, everything may fail | `<clinit>` once, after the superclass; `IInv` holds: who is told "ready" may use the class, outcomes are final, a failure wakes all |
| `Loading_safety` | 2 threads, 2 loaders, 4 classes, 2 array types, memory runs out | one type for a name and loader, supertypes first, reference counts of class files, every load ends |
| `Heap_safety` | 2 threads, 3 pages of which 1 is reserved, blocks of half a page, objects of 2 pages | until a thread is misled by a reservation in progress: nobody's memory overlaps another's, a walk finds every object, hints and lists are right, `heap_check()` passes |
| `Gc_safety` | 4 objects, 2 loaders, 2 collections that may fail | nothing that can be reached is freed or unloaded, marking is exact, references and finalization are in order, the finalizer misses nobody |
| `Code_safety` | the six modules of `MCCode` | Execution: lists and stack agree, monitors are balanced, exceptions get to their handler; Arguments: every word arrives; Operands: Bytecode is implemented; Jni: slots are those of references, the first exception is kept; Dispatch: calls and type tests are Java's; ClassFile: parsed as written |

### Bounds, and why they are enough

Three threads are what it takes for the races here: a stopper, a thread that is
halted and a third that starts, attaches or stops the world as well; an owner,
its waiter, and a third that takes the lock in between; two waiters that compete
for one notification. `World_strong` has two, so that the check of strong
fairness stays short; two stoppers that compete are the case it is about.

- `MaxThin` (32 in the code) is 2, or 1 where overflow is to be left out:
  with `MaxDepth` 3 a thread then goes thin, overflows, and recurses in a fat
  lock. With `MaxDepth` 1 nobody enters a monitor it is in.
- One fat lock for two objects makes a collection recycle it; with two there is always
  one, and inflation fails for want of memory only.
- `CountMod` 3 lets the counter wrap within a wait; 2 is its least value.
- A chain of three classes has a class with both a superclass and a subclass;
  `Finalizers` is the one in the middle.
- Two threads are enough for Heap and Loading, where the races are between two
  claims of a word, and a load and one that waits for it. A heap of three
  pages, two of them there from the start, grows, runs full, is collected, and
  dips into its reserve.
- Two collections in Gc: one that finds an object to finalize, and one that comes
  while the finalizer has it, or frees it. The first state is any graph within
  `Targets`: cycles, an object that only its finalizer reaches, a loader that only
  an instance of its class reaches.
- In Execution, a native method may call Java that calls it again, up to seven
  activations; compiled and interpreted methods with and without traps, constructors
  of exceptions included. The stack limit is at six, so that overflow happens
  with and without a catch frame.
- Arguments has all signatures of up to four parameters, since three words are
  passed in registers and the first stacked one is special, of all five kinds.
- Jni has frames of two slots, extended and pushed, and two objects. `MaxGlobals` is
  one: both threads' global references are in the frame that the first of them makes,
  which may be full (what native code changes in another frame than the other thread does
  is no race, and covered by the theorems). The other thread has one global reference at a
  time, and its making one is a single step, under `vm->mutex`; no more are made once
  flags are wrong, when a slot may be given out twice.
- Deadlock is not checked (`CHECK_DEADLOCK FALSE`) since the modelled system may
  really stop: all threads suspended; a program that takes two monitors in two
  orders; everybody waiting and nobody left to notify; two classes that need
  each other; for ClassInit, a wakeup that never comes (section 4); and where the
  bound on collections or calls is reached.

Symmetry is used in safety runs only: threads, objects and fat locks are alike,
but for `Main` in World and the parts of threads in WaitNotify. The runs with
liveness properties have none. Heap's two threads are alike.

### Fairness, and why the code justifies it

- `WF(Progress(t))`, in World and Monitor: a thread that can go on by itself
  does, as a scheduler sees to. What the program chooses to do (take a lock,
  call for a collection, return from native code, notify) is in `Choice` and is
  under no fairness. A safe point in Java code is progress: compiled code loads
  from a check page that is made unreadable, and the interpreter calls
  `_jc_thread_check()` at every 32nd step that its ticker counts
  (`PERIODIC_CHECK_TICKS`, `interp.c:93`, `interp.c:1489`).
- `StrongSpec` of World adds `SF(ThreadCheck(t))`: a thread that is in Java code
  again and again passes a safe point again and again; and
  `SF(MutexGranted(t))`: nobody is starved on `vm->mutex`. POSIX mutexes do not
  promise that; without it a thread can be kept from its own collection for ever
  by others that collect.
- WaitNotify's `FairSpec` has `WF` of progress and of time, and `SF(Woken(t) \/
  Broadcast(t))`, again for the mutex of the lock. The runs check its safety only.
- Gc has `WF` of the finalizer's steps (it is a thread of its own that waits for
  nobody but the collector) and of each step of a collection (a loop in one
  thread). What the program does, and whether a collection begins or fails, is
  under no fairness.
- Loading has `WF(Step(t))`: a load that can go on does; one that waits for
  another thread's is not enabled. Which load begins is the program's choice.
- ClassInit, Heap and the parts of MCCode have no fairness: what is checked of
  them is safety.

## 4. What the code does not do

Refuted by a run (`findings`):

- **Attaching to a stopped world** (`thread.c:657`): between the last halt and
  the return of the stopper from its wait, `pending_halt_count` is 0 and
  `world_stopped` not yet set; a native thread that attaches then runs.

Stated in the modules, and seen to be broken by TLC on instances that this
directory does not keep as runs:

- World. `AttachedRunning`: an attached thread wakes up in a second stop
  (`thread.c:671`). `StopCompletes` with `StartMayFail`: a child freed by a failed
  start() is never counted as halted (`java_lang_VMThread.c:446`).
  `FreeNotSuspended`: a structure is reused with `suspended` set (`thread.c:966`), by
  a thread that detached or by a child whose start() failed.
  `VictimAlive`: the victim of suspend() ends while its suspender halts for
  another stop (`java_lang_VMThread.c:468`).
- Monitor. `ContenderHasOwner` (`lock.c:88`): the lockword that was read was
  free, the swap fails, and thread 0 is taken for the owner. `NoStrandedWaiter`
  with overflow (`java_lang_VMObject.c:261`): a lock that overflowed is fat and still
  has waiters from before; `Object.wait()` handles contention only when it
  inflates the lock itself. The same with numbers of fat locks that read as thread
  ids. `OwnerExists`, with threads that end; `NoGcDeadlock`, where an owner collects
  with its queue's mutex held.
- WaitNotify. `TimedWaitEnds` (`java_lang_VMObject.c:376`), under the strong
  fairness of `FairSpec`: a waiter that has missed a notification goes round
  without a look at the clock. `StopWakes`, where a stopped thread clears its
  interrupt status and waits; `NotifyTaken`, where the waiter that was signalled
  ends for another reason and leaves the notification to nobody.
- ClassInit. `NobodyLeftAsleep` (`initialize.c:142`): step 9 notifies nobody.
  `SuperHasLockword`, the assertion `derive.c:813`; `FinalizersKept`, where a
  subclass takes over the lockword its superclass had for the time being and its
  instances are never finalized; `ClaimsAreLive`, where a failure half-way leaves a
  class claimed for good.
- Heap. `Apart`, nobody's memory overlaps another's, with 4 pages and `MaxHeld` 2
  (`heap.c:179`): a thread that finds a page reserved skips what the reservation asks
  for, but that may be undone. The thread is then in the middle of a large object,
  where there are no descriptors and data that is still zero reads as free pages,
  although `doc/jc.texi` has the pages of a large object wholly dedicated to it. The
  steps are those of the code, in runs and theorems, and go on after such a skip; what
  is checked and proved is that this skip is the only way: until the first,
  `misled` is FALSE, and `MemoryApart`, `WalkFindsObjects` and `HeapConsistent` hold.
- Gc. With a loader among the `Referents`, `NothingDangles` is violated: a weak
  reference to a Class object is not cleared when its loader is unloaded
  (`gc_scan.c:272`).
- Loading. Without `ObjectsAlone` (where a loader both reads objects and interprets
  what it has no object of, an object holds one type; "mixed" is a mode in which every
  loader does), `OneType` is violated: while a class without an object is derived,
  another thread finds one that has it, and the loader has both.
  Without `ObjectsApart` (an object holds a type that the loader has no class file
  of), too: what an object holds is looked for among the types that the loader
  defined, not among those it initiated (`derive.c:330`), so it gets a second type
  next to the one it had from its parent.
- Jni. `SlotsAreHandles` without its `~raced` (a word of flags that two processors
  change by plain reads and writes, `jni_native.c:1259`): until this happens global
  references are right, and afterwards local ones still are. With 0 among the
  `Capacities` (PushLocalFrame(0) pushes no frame, PopLocalFrame() pops one), or without
  "NewString" in `NotCalled` (it uses a reference it has deleted,
  `jni_native.c:1800`), `SlotsAreHandles` is violated. That a call returns an object
  or an exception is false (`jni_native.c:399`): after a failing `Call*ObjectMethod()`
  there may be both, the object being what an earlier call left in `retval`, with a slot
  that `GetStringRegion()` does not give back; and in a full frame the failure to make
  that reference replaces the pending exception by an InternalError.
- Dispatch. With `JniInterfaces`, `CallsSelect` is violated: JNI calls and
  `_jc_invoke_virtual()` take a method of an interface for one with an index into
  the vtable (`invoke.c:201`, `jni_native.c:457`). Reflection looks such a method up, and
  then looks what it found up once more as a virtual method (`reflect.c:570`).
  Without `~Hidden`, too, since the code's tables are not Java's in three cases. A private
  method, and one that is private to a package, is replaced by a method of a subclass
  with its signature, in another package as well (`resolve.c`): a virtual call, reflection
  and JNI run the latter for an object of the subclass. And where a subclass has a method
  that is not public below a public one that implements an interface, which a compiler
  refuses but classes compiled apart may have, Java has an IllegalAccessError; the
  interpreter's test for one (`interp.c:994`) never fails, since only public methods get
  into the table: the interpreter and compiled code run the superclass's method, and
  reflection the subclass's. All these declarations are in the instance; a call of such
  a method, and no other, is left out of `CallsSelect`. With `LowerArrays`,
  `AssignableIsSubtype` is violated: an array is compared with arrays of more dimensions
  by their elements (`instance.c`).

Met while modelling, not stated as a property:

- A soft reference to an object that only a finalizer reaches fails an assertion
  of the collector; a reference that is only kept when it is cleared is passed over by
  the finalizer, and nobody comes back for it.
- `_jc_derive_types_from_object()` undoes with `while (--i > 0)` and never undoes the first
  type; two boot classes that are each other's superclass, loaded by two threads,
  wait for each other; a loader that defines a class again after a failure
  fails the assertion `csave->bytes == NULL`; a failed `ref_class_node()` leaks
  its class file.
- An exception while a synchronized interpreted method takes its monitor is offered
  to the method's own traps, as if at its first instruction (the theorems on Execution
  exclude this by `LockFailuresLeave`); `_jc_vinterp()`
  allocates as many bytes as it needs words (`interp.c:1678`); `_jc_invoke_jni_a()`
  reads its result from a frame it has freed (`invoke.c:713`), and returns an
  object that nothing keeps while its monitor is released.
- `NewGlobalRef(NULL)`, `NewLocalRef(NULL)` and `GetSuperclass()` of Object follow a
  null pointer; `IsAssignableFrom()` and `IsInstanceOf()` return -1, which is true,
  after an error; weak global references are not there.
- The parser leaks `offset_map` when it succeeds and the tables of switches when it
  fails, and leaves an instruction that runs past its code to an assertion.


## 5. What is proved

The `Proofs` modules prove, for every value of the constants that satisfies the
module's assumption, safety only. Each follows the same plan: an invariant
`IInv` (`GcInv` of Gc, `ExecutionInv` of Execution, `DispatchInv` of Dispatch) that the
initial states have and every step keeps, one lemma per action;
then what the runs check, from `IInv`. The runs
check the first four `IInv` as well. TLC finds the others (`IInv` and `Tidy` of Heap,
`GcInv` and `MarksOnlyReached` of Gc, those of Loading, Jni and
Execution) to hold in the instances of the safety runs, too; they are left out of the
runs to keep these short. `Watch` of MonitorProofs holds in an instance of Monitor where
`ThinSuffices` does: that of `Monitor_safety` with locks of depth two and the races
`unowned` and `exit`. `DispatchInv` speaks of all functions, which TLC cannot try.

| Module | Theorems |
|---|---|
| CollectionProofs, on World | `Invariance`, `TypeCorrect`, `StoppedSafe`, `PendingCovers`, `PendingExact`, `SleepersHaveHalts`, `SwitchesSafe`, `StopsExclude`, `NobodyEnters`, `Refinement` |
| MonitorProofs | `Invariance`, `TypeCorrect`, `MonitorsExclude`, `LocksSayWho`, `FatLocksAreApart`, `OwnLocksInflated`, `NobodyStranded`, `Refinement` |
| WaitNotifyProofs | `Invariance`, `TypeCorrect`, `StatusAsserted`, `ReturnsHaveReasons`, `InterruptsGetThrough`, `NotifyAllGetsThrough`, `InterruptsReported` |
| ClassInitProofs | `Invariance`, `TypeCorrect`, `InitializedOnce`, `SuperclassesFirst`, `ReadyWhenTold`, `FailuresWake`, `OutcomesFinal` |
| HeapProofs | `Invariance`, `AllocationsApart`, `WalksFindObjects`, `Tidiness`, `HeapStaysConsistent` |
| CollectionProofs, on Gc | `GcInvariance`, `GcTypeCorrect`, `NoneDangles`, `InOrderAlways`, `Exactness` |
| LoadingProofs | `LoadingStaysConsistent`, `LoadersAgree`, `SupersComeFirst`, `ClassFilesCounted` |
| CodeProofs, on Jni | `Invariance`, `TypeCorrect`, `HandlesAlways`, `ErrorsAlwaysKept` |
| CodeProofs, on Dispatch | `TablesInvariance`, `Assignability` |
| ExecutionProofs | `Invariance`, `StacksHold`, `MonitorsHold`, `HandlerHolds` |

- **World.** `WorldStoppedSafe` is not inductive: that all have halted when the
  count is zero needs, for each phase of a stop, how far every other thread is
  (`Stopping`, `Stopped`, `Idle`), what each place in the code says of the status
  (`PcStatus`), who has the mutex, and that there is one stopper. This is
  `PhaseInv`. It needs `NoHaltMissed`, the count covers the threads that have
  still to halt, which is an argument over cardinalities; `FreeStatus`, since a failed
  start() leaves the child's status to whoever gets its structure next: either it is
  that of a running thread, or the child was asked to halt, and then the count stays
  above zero, the stopper waits, and nobody gets the structure; and it needs
  `HandOff`, without which it is false. `PendingExact` proves more, that the
  count is exact, when start() does not fail; with `NoHaltMissed` alone a stopper
  could wait for ever. With it, a stopper that sleeps has a halt to wait for
  (`SleepersHaveHalts`). `Refinement` proves that each step is one of SafePoint or
  a stutter; that the world is let go again (the fairness of SafePoint) is
  checked by TLC.
- **Monitor.** `LockSaysWho` needs what each place in the code knows of the
  lockword it read (`PcObj`), the bookkeeping of fat locks (`WellFormed`,
  `FatLocksApart`), who holds a queue's mutex (`QueueMutex`), and why a thread is
  in a queue (`Queued`): the last is what keeps the owner from inflating a lock
  that is not its own. No race is excluded. `Refinement` proves the whole of
  `RefinesMonitors`. `NobodyStranded` has an invariant of its own, `Watch`: what a
  waiter waits for is a thin lock of its owner, which gives it up, or makes it fat, only
  on the way to a look at its flag. That this fails for a lock that has overflowed is
  what the hypothesis `ThinSuffices` excludes (section 4); threads that end and locks that
  are taken before the compare-and-swap, which the run `Monitor_live` leaves out,
  are covered.
- **WaitNotify.** The status of a thread and its place in the code determine each
  other (`StatusFits`), a thread that may sleep has said on which lock
  (`Listed`), and whoever interrupted it is on the way to wake it (`WakerComes`).
- **ClassInit.** A stack lists classes that its thread has claimed, each once
  (`ClaimsHeld`). `SuperFirst` needs that a superclass that was only claimed when
  `<clinit>` began was claimed further out (`SupersReady`). The hierarchy
  may be any function from classes to classes.

- **Heap.** `MemoryApart` needs to know why a page that reads as free is nobody's,
  although the pages of a large object read as free too. `Layout` says that what
  descriptors speak for (`Extent`) and what threads have reserved (`Own`) is apart;
  `PagesOK` and `ListsOK` say that a thread begins to reserve, and `next_page` is, only
  where something ends (`IsEnd`). So nothing crosses the place where a thread begins,
  what it has reserved reaches from there to the page it looks at, and whatever
  had that page would begin in between (`FreeIsNobodys`). A thread that goes on by
  the length in a reservation may begin anywhere, see section 4: the invariant, and the
  properties with it, are about the states before (`~misled`), and the theorems assume
  nothing of the steps. A walk finds every object (`WalksFindObjects`, and `Collect`
  is such a walk) since a large object that an allocation is still writing is never
  what a walk goes into: take the last page where a walk from there on would miss
  something. `HeapStaysConsistent` is about `_jc_heap_check()`: that it finds nothing
  to complain of, whenever no allocation is going on, needs `Tidy` (hints and lists
  lead to pages of small blocks, and a list to each page once), and that the walk and
  the lists end.
- **Gc.** `NothingDangles` needs `Marking`, the invariant of the two traces: what a
  marked object or loader refers to is marked or on the scanning stack, and so are
  the roots and, in the second, the finalizable objects that are left. When
  the stack is empty, what is kept is therefore closed (`KeptIsClosed`), which is all
  that `Sweep` asks. Between collections, `WeakAreCleared` is what makes finalization
  come after the clearing of weak references, and `FinalizedOnce` follows each
  finalizable object from its bit to its end. The assumption `NoClassReferents` (no
  reference has a Class object for its referent) is needed: see section 4. The other
  direction, that nothing is kept that cannot be reached, needs that what is marked
  in the middle of a trace is reached from the roots (`MarksOnlyReached`). Both
  together are `Exactness`, against `Reach`, which is defined by steps along the
  graph as TLC can count them; `ReachIsLeast` shows it to be the least set that has
  the roots and is closed. Induction over the number of steps is done by taking the
  least number for which a claim fails.
- **Loading.** What one activation knows was found out many steps before, while
  other threads and its own callees changed the trees. `Frames` says for each place
  what an activation has found out and may still rely on; `Linked`, by which place of
  another it was called; `Answers`, what the last return means to the one that waits
  for it. All three talk of trees that only grow under whoever is loading, since a
  loader that is in use is not unloaded. `Trees` says what is in a loader's trees: each
  type `Proper` (under a name that the loader has a class file of, its own; under
  another, the boot loader's; of an array, the one its element type's loader has) and
  its supertypes with it. `Derivers` and `Absent` say that a class that is being
  derived has one activation that does so and no type yet: this is where two types
  under a name would come from. `Waiting` is who waits for whom in the boot loader. That a
  type that was returned remains (`Kept`, for `OneType`) is a second, smaller invariant.
  Both hypotheses are needed, see section 4: `ObjectsAlone` and `ObjectsApart`. `Absent`
  covers a class whose object is looked for and not found, too.
  `FilesCounted` is an argument over cardinalities, on top of `IInv`. The sets it counts
  are `Holders` (types that use a class file: their own, or one that a type from an
  object depends on) and `Works` (activations that have taken a reference). `Right` says
  of each node that they are finite, that their cardinalities add up to `refs`, and, more
  than the property, that all of them want the one version that is there: without that of
  dependents, a reference could be taken for a class file of another version. `NodeGains` and
  `NodeLoses` say once what a step does that adds or takes users, and each action is one of
  the two, or moves as `MovesWork` allows. For an object it is shown that the first of its
  types that uses a class file finds the version of its loader there, and that those
  that use it are as many as the places in the object that name it (`CountsAlike`).
- **Jni.** `SlotsAreHandles` compares numbers of slots and of references; the invariant
  says which slots (`Holds`, for the local and for the global frames): each reference is
  that of a slot in use with its object, and each such slot is that of a reference.
  While another thread has emptied a global slot and not yet written the flags,
  `UpdateHolds` says that the word it will write differs in empty slots only. That a
  scope's frames are popped whole, and no others, rests on where frames extend nothing
  (`Stacked`): at the base of a scope, and next to it for a native method. A function
  that calls others may fail at each call; `Runs` says that it is in the middle of a
  list of steps, that its variables are what it has left, and that with an exception pending it
  looks for it before it calls again and lets go of all it has (`Cautious`). That
  each list is so (`WellMade`) is proved of the lists as they are, step by
  step from the end. What a failing call leaves behind next to its exception is in a
  variable of the function only until its next look for one, which gives back
  everything but that (`RunsAt`). `GlobalHandles`, what is known of the global frames,
  is part of the invariant until two threads change a word of flags at the same time
  (`~raced`); after that the global references of native code are still in frames that
  are there (`InFrames`), which is all that the local frames need. The hypothesis
  `LocalRules` excludes PushLocalFrame(0) and NewString() (section 4): with either the
  run finds `SlotsAreHandles` violated. In a frame there
  is any number of slots, and native code may have any references.

- **Execution.** The theorems are about stacks of any depth, any methods with any trap
  tables, and exceptions while exceptions are posted. What the VM knows is in lists; the
  proof is about sets of activations. `Links` says which function calls which, and what
  each must have got by the time it waits for another (`Waits`); `TopIs` what the status
  says of the top. Each list then is that of the activations that have got the thing
  (`Chunks`, `Catchers`, `NativeLocals`, `Limits`, `Posting`, `JniMethods`, `Balance`): a
  call, a change of the top and a return each change one end of it, and a longjmp
  cuts all of them at one place. That this is the right place for lists that
  `_jc_throw_exception()` does not touch (frames of native references, the stack
  limit, the monitors) is because compiled code runs on top of a gateway, above which
  there is nothing but compiled code and what it called that has nothing to undo: the
  lemmas `BaseIs` and `StretchIs`. `Clips` and `Clipped` say who clips a chunk (one
  activation, just above where the chunk ends) and who never goes on without, from which
  `StacksAgree` has it that a crawl sees each Java method once and in order. For
  `HandlerFound`, `Searches` says that the crawl and the catch list stay in step: what is
  discarded would not have caught the exception, and the catch frame in hand is never
  passed by. So the frame that is found is that of `Handler`, defined without any of the lists.
  The hypothesis `LockFailuresLeave` is that an interpreted synchronized method whose
  monitor may be refused has no trap for its first instruction. It is needed: with such a
  trap the code (`interp.c:317`) enters the handler without the monitor, and
  `MonitorsBalanced` and `HandlerFound` are false.

- **Dispatch.** `SuperInterfaces`, what the declarations say, is a recursive function. That
  there is a function as it says (`SuperInterfacesIs`) is shown by the least one of those
  that are closed. The table of a type is made of its interfaces' when it is resolved,
  while `SuperInterfaces` changes with every derivation; so `Listed` says of the tables
  that they agree, on the types that are resolved, with any function that is there as
  the recursion demands, of which the later `SuperInterfaces` is one. `Grounded` says
  that what a resolved type stands on is resolved. `Assignability` is under the hypothesis
  `~LowerArrays`, without which it is false (section 4).

Left to model checking: all liveness (`StopCompletes`, `HaltedRunAgain`,
`SuspendTakesEffect`, `CollectionDone`, `ReleaseWakes`, `FinalizerReachesAll`,
`LoadsEnd`) and the fairness half of `RefinesSafePoint`, which are out of the prover's
reach; and `CallsSelect` of Dispatch, Arguments, Operands and ClassFile: translations of
sequences by folds, whose results on all inputs would need induction over data.


## 6. Mutants

Each property of a passing run has a mutant in `PROJECT.json`: an action changed
as a plausible mistake would change it (a dropped guard, a test before instead
of after a decrement, a signal for a broadcast, a store for a compare-and-swap, a
missing reset), with which TLC finds that property violated in the same run.

## 7. Not modelled

- **Threads and the VM's life**: thread ids, `by_id[]` and the free list,
  `_jc_thread_shutdown()`, creation and destruction of the VM against live and
  attached threads (`thread.c`, `vm.c`, `jni_invoke.c`). This is what is worth
  modelling next, with World.
- **LoaderMemory** (`cl_alloc.c`): the chunks and marks of a loader's memory. Loading
  takes an allocation as granted or refused, and a rewind as complete.
- **Splay trees** (`splay.c`), UTF-8 (`utf.c`), zip files (`zip.c`): pure algorithms;
  the models use sets in place of the trees.
- **Preparation and verification**: `verify.c` is a stub; the layout of fields is
  arithmetic.
- **The interpreter's values**: what arithmetic computes, and the rewriting of
  an opcode once its operand is resolved, but for calls.
- **ELF relocation, line numbers, the resolution of fields, attributes and inner
  classes**: sequential translation of data.
- **Signal handlers, stack switching, atomic instructions**: machine code, taken by
  its meaning. The store buffers of the i386 are left out (`lock.c:258`).
- **Composition**: World, Monitor, Gc, Heap and Execution each take the others as
  single steps; a joint model of a collection under contention is out of TLC's reach
  at the sizes used here.
- **Tools and the code generator**: small sequential programs; the generator and Soot
  run before the virtual machine does.

Exceptions that other threads post are in WaitNotify (stop() and interrupt()); where
they are noticed is World's safe point.
