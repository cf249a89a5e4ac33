--------------------------------- MODULE Gc ---------------------------------
(***************************************************************************)
(* The collector of libjc/gc_scan.c, the roots of libjc/gc_root.c and the  *)
(* finalizer of libjc/gc_final.c.                                          *)
(*                                                                         *)
(* A collection runs with the world stopped (module World).  It marks what *)
(* the roots reach LIVE and KEEP; if finalizable objects are left, it      *)
(* marks what those reach KEEP; it frees the rest, clears the references   *)
(* whose referent is not live, and unloads the class loaders that nothing  *)
(* marked has come by.  Marking takes a step per reference, in any order.  *)
(* The heap's blocks and pages are in module Heap.                         *)
(*                                                                         *)
(* A class loader stands for its Class objects too: they are in the        *)
(* loader's memory, and a reference to one of them is the loader here.     *)
(***************************************************************************)
EXTENDS Naturals, FiniteSets

CONSTANTS
  Objects, Loaders, None,
  Boot,        \* vm->boot.loader
  Thread,      \* the java.lang.Thread instance of the program's thread
  LoaderOf,    \* obj->type->loader
  ClassLoader, \* the java.lang.ClassLoader instance of each loader but Boot
  Kinds,       \* the kinds each object may have: "soft", "weak", "phantom",
               \* "plain", "throwable" or "loader"
  Targets,     \* bound on what the field of each object, the static field of a
               \* loader's classes, may refer to
  Referents,   \* bound on the referents: a loader stands for a Class object
  Finalizers,  \* the objects whose class overrides Object.finalize()
  MaxHeld,     \* bound on what the program's stack holds
  MaxCycles    \* bound on the collections

Things == Objects \cup Loaders

ASSUME GcAssumption ==
  /\ IsFiniteSet(Things) /\ Objects \cap Loaders = {} /\ None \notin Things
  /\ Boot \in Loaders /\ Thread \in Objects
  /\ LoaderOf \in [Objects -> Loaders] /\ LoaderOf[Thread] = Boot
  /\ ClassLoader \in [Loaders \ {Boot} -> Objects]
  /\ Kinds \in [Objects -> SUBSET {"soft", "weak", "phantom", "plain", "throwable", "loader"}]
  /\ \A o \in Objects : "loader" \in Kinds[o] => Kinds[o] = {"loader"}
  /\ \A l \in Loaders \ {Boot} : Kinds[ClassLoader[l]] = {"loader"}
  /\ Targets \in [Things -> SUBSET Things]
  /\ \A l \in Loaders : Targets[l] \subseteq Objects
  /\ Referents \subseteq Things
  /\ Finalizers \subseteq Objects
  /\ MaxHeld \in Nat /\ MaxCycles \in Nat

VARIABLES
  heap,      \* the objects there are
  loaders,   \* vm->class_loaders
  kind,
  fields,    \* what each object refers to, but for the referent
  referent,  \* Reference.referent
  queued,    \* the references whose queue field is not null
  statics,   \* the static fields of a loader's classes, its implicit references
  stack,     \* what the stacks, registers and native references of threads hold
  live, keep, finalize,  \* the LIVE, KEEP and FINALIZE bits of the objects
  gcMark,    \* the loaders with gc_mark
  todo,      \* the lists on the scanning stack
  phase,     \* what the collector is doing
  soft,      \* trace->follow_soft
  cycles,    \* vm->gc_cycles
  wakeup,    \* the interrupt status of the finalizer thread
  final,     \* the finalizer: its cursor, what it works on
  done       \* the objects that were finalized (history)

graph == <<heap, loaders, kind, fields, referent, queued, statics>>
bits == <<live, keep, finalize, gcMark>>
gcvars == <<graph, stack, bits, todo, phase, soft, cycles, wakeup, final, done>>

IsRef(o) == kind[o] \in {"soft", "weak", "phantom"}

-----------------------------------------------------------------------------
(* What refers to what *)

\* locate_object(): a word on a stack that points into the memory of a loader
\* keeps its ClassLoader, and so the loader.
Locate(w) == ({w} \cap heap) \cup {ClassLoader[l] : l \in {w} \cap (loaders \ {Boot})}

\* Mutant: the finalizer holds its object by a plain pointer.
RootsNoNative == (UNION {Locate(w) : w \in stack}) \cup {Thread}

\* root_walk(): stacks and native references, the thread's instance.
Roots == (UNION {Locate(w) : w \in stack}) \cup {Thread} \cup final.local

\* The references that gc_trace() pushes for an object: all its fields, but of a
\* reference the referent only if it is soft and soft ones are followed.  A
\* VMThrowable has the classes in its stack trace among its fields.
Follows(o) ==
  fields[o] \cup
    (IF referent[o] # None /\ kind[o] = "soft" /\ soft THEN {referent[o]} ELSE {})

\* The loaders that gc_trace() marks for an object: that of its class, and the
\* one that a ClassLoader stands for.
LoadersOf(o) == {LoaderOf[o]} \cup {l \in loaders \ {Boot} : ClassLoader[l] = o}

\* get_explicit_refs() and the implicit references: the first of those, from the
\* creation of the loader on, is its ClassLoader.
LoaderRefs(l) == statics[l] \cup (IF l = Boot THEN {} ELSE {ClassLoader[l]})

\* Mutant: a ClassLoader is an object like any other.
MarksOne(x) == (IF x \in Objects THEN {LoaderOf[x]} ELSE {x}) \ gcMark

\* Which loaders are marked by coming to x.
Marks(x) == (IF x \in Objects THEN LoadersOf(x) ELSE {x}) \ gcMark

\* What is pushed then.
Pushes(x) == (IF x \in Objects THEN Follows(x) ELSE {})
               \cup UNION {LoaderRefs(l) : l \in Marks(x)}

-----------------------------------------------------------------------------
(* The collection *)

AtRest == [at |-> "wait", left |-> {}, local |-> {}, seen |-> 0]

GcInit ==
  /\ heap = Objects
  /\ loaders = Loaders
  /\ kind \in {k \in [Objects -> UNION {Kinds[o] : o \in Objects}] :
                 \A o \in Objects : k[o] \in Kinds[o]}
  /\ fields \in {f \in [Objects -> {{}} \cup {{x} : x \in Things}] :
                   \A o \in Objects : f[o] \subseteq Targets[o]}
  /\ referent \in {f \in [Objects -> Referents \cup {None}] :
                     \A o \in Objects : IsRef(o) <=> f[o] # None}
  /\ statics \in {f \in [Loaders -> {{}} \cup {{x} : x \in Objects}] :
                    \A l \in Loaders : f[l] \subseteq Targets[l]}
  /\ queued = {o \in Objects : IsRef(o)}
  /\ stack = {}
  /\ live = Objects /\ keep = Objects
  /\ finalize = Finalizers
  /\ gcMark = {}
  /\ todo = {}
  /\ phase = "run"
  /\ soft = FALSE
  /\ cycles = 0
  /\ wakeup = FALSE
  /\ final = AtRest
  /\ done = {}

\* gc(): the world is stopped, all bits are cleared, the roots are pushed.  An
\* urgent collection does not follow soft references.
StartGc ==
  /\ phase = "run" /\ cycles < MaxCycles
  /\ phase' = "live"
  /\ soft' \in BOOLEAN
  /\ cycles' = cycles + 1
  /\ gcMark' = {} /\ live' = {} /\ keep' = {}
  /\ todo' = Roots
  /\ UNCHANGED <<graph, stack, finalize, wakeup, final, done>>

\* gc_trace(), one reference: an object that is marked already is passed over, a
\* Class object only marks its loader.
Trace ==
  /\ phase \in {"live", "keep"}
  /\ \E x \in todo :
       /\ IF x \in keep THEN todo' = todo \ {x} /\ UNCHANGED <<keep, live, gcMark>>
          ELSE /\ todo' = (todo \ {x}) \cup Pushes(x)
               /\ gcMark' = gcMark \cup Marks(x)
               /\ keep' = keep \cup ({x} \cap Objects)
               /\ live' = live \cup (IF phase = "live" THEN {x} \cap Objects ELSE {})
  /\ UNCHANGED <<graph, stack, finalize, phase, soft, cycles, wakeup, final, done>>

\* The finalizable objects that are not live are the roots of the second trace.
Unreached == {o \in heap : o \in finalize /\ o \notin live}

TraceFinalizable ==
  /\ phase = "live" /\ todo = {}
  /\ phase' = "keep"
  /\ todo' = Unreached
  /\ UNCHANGED <<graph, stack, bits, soft, cycles, wakeup, final, done>>

\* Mutant: phantom references are cleared like weak ones.
ClearedEarly ==
  {o \in keep : IsRef(o) /\ referent[o] # None /\ referent[o] \in Objects \ live}

\* The references that are cleared: their referent is not live, and if they are
\* phantoms it is neither kept nor waiting for its finalization.  Class objects
\* always look live.
Cleared ==
  {o \in keep : /\ IsRef(o) /\ referent[o] # None
                /\ referent[o] \in Objects \ live
                /\ (kind[o] = "phantom" => referent[o] \notin finalize \cup keep)}

\* Mutant: only references wake the finalizer.
SweepQuietly ==
  /\ phase = "keep" /\ todo = {}
  /\ phase' = "run"
  /\ heap' = keep
  /\ loaders' = gcMark
  /\ referent' = [o \in Objects |->
       IF o \in Cleared \/ o \notin keep THEN None ELSE referent[o]]
  /\ wakeup' = (wakeup \/ Cleared \cap queued # {})
  /\ UNCHANGED <<kind, fields, queued, statics, stack, bits, todo, soft, cycles, final, done>>

\* What is not kept is freed, loaders that are not marked are unloaded, and the
\* world runs again; the finalizer is interrupted if there is work for it.
Sweep ==
  /\ phase = "keep" /\ todo = {}
  /\ phase' = "run"
  /\ heap' = keep
  /\ loaders' = gcMark
  /\ referent' = [o \in Objects |->
       IF o \in Cleared \/ o \notin keep THEN None ELSE referent[o]]
  /\ wakeup' = (wakeup \/ Unreached # {} \/ Cleared \cap queued # {})
  /\ UNCHANGED <<kind, fields, queued, statics, stack, bits, todo, soft, cycles, final, done>>

\* The scanning stack cannot grow: every object is made to look live again.
FailGc ==
  /\ phase \in {"live", "keep"} /\ todo # {}
  /\ phase' = "run"
  /\ todo' = {}
  /\ live' = heap /\ keep' = heap
  /\ UNCHANGED <<graph, stack, finalize, gcMark, soft, cycles, wakeup, final, done>>

-----------------------------------------------------------------------------
(* The finalizer thread *)

\* FinalizerThread.run() waits for an interrupt and calls finalizeObjects(), which
\* sweeps the heap.
StartFinalizer ==
  /\ phase = "run" /\ final.at = "wait" /\ wakeup
  /\ wakeup' = FALSE
  /\ final' = [final EXCEPT !.at = "sweep", !.left = heap]
  /\ UNCHANGED <<graph, stack, bits, todo, phase, soft, cycles, done>>

Enqueueable(o) == o \in live /\ IsRef(o) /\ o \in queued /\ referent[o] = None

\* An object that the sweep comes by: nothing to do, a reference to enqueue, or an
\* object to finalize, which is kept by a native reference from now on.
Visit ==
  /\ phase = "run" /\ final.at = "sweep"
  /\ \E o \in final.left :
       \/ /\ Enqueueable(o)
          /\ final' = [final EXCEPT !.at = "enqueue", !.local = {o}, !.seen = cycles]
          /\ UNCHANGED finalize
       \/ /\ ~Enqueueable(o) /\ o \in finalize /\ o \notin live
          /\ final' = [at |-> "finalize", left |-> final.left \ {o}, local |-> {o},
                       seen |-> cycles]
          /\ finalize' = finalize \ {o}
       \/ /\ ~Enqueueable(o) /\ ~(o \in finalize /\ o \notin live)
          /\ final' = [final EXCEPT !.left = @ \ {o}]
          /\ UNCHANGED finalize
  /\ UNCHANGED <<graph, stack, live, keep, gcMark, todo, phase, soft, cycles, wakeup, done>>

\* A collection took place during the call: all over again.
GoOn(left) ==
  final' = [final EXCEPT !.at = "sweep", !.local = {},
                         !.left = IF final.seen = cycles THEN left ELSE heap]

\* Reference.enqueue() returns.
Enqueue ==
  /\ phase = "run" /\ final.at = "enqueue"
  /\ queued' = queued \ final.local
  /\ GoOn(final.left)
  /\ UNCHANGED <<heap, loaders, kind, fields, referent, statics, stack, bits, todo, phase,
                 soft, cycles, wakeup, done>>

\* finalize() returns.  It may have stored "this" where the program finds it.
Finalize ==
  /\ phase = "run" /\ final.at = "finalize"
  /\ \/ UNCHANGED stack
     \/ stack' = stack \cup final.local
  /\ done' = done \cup final.local
  /\ GoOn(final.left)
  /\ UNCHANGED <<graph, bits, todo, phase, soft, cycles, wakeup>>

EndFinalizer ==
  /\ phase = "run" /\ final.at = "sweep" /\ final.left = {}
  /\ final' = AtRest
  /\ UNCHANGED <<graph, stack, bits, todo, phase, soft, cycles, wakeup, done>>

-----------------------------------------------------------------------------
(* The program *)

\* It follows a reference to where its stack keeps it, Reference.get() included
\* but not for phantoms.
Load ==
  /\ phase = "run" /\ Cardinality(stack) < MaxHeld
  /\ \E o \in Roots, x \in Things :
       /\ x \in fields[o] \/ (x = referent[o] /\ kind[o] # "phantom")
       /\ stack' = stack \cup {x}
  /\ UNCHANGED <<graph, bits, todo, phase, soft, cycles, wakeup, final, done>>

Forget ==
  /\ phase = "run"
  /\ \E x \in stack : stack' = stack \ {x}
  /\ UNCHANGED <<graph, bits, todo, phase, soft, cycles, wakeup, final, done>>

\* It overwrites a field: with null, or something else it has.
Store ==
  /\ phase = "run"
  /\ \E o \in Roots, x \in Roots \cup {None} :
       /\ x = None \/ x \in Targets[o]
       /\ fields' = [fields EXCEPT ![o] = {x} \ {None}]
  /\ UNCHANGED <<heap, loaders, kind, referent, queued, statics, stack, bits, todo, phase,
                 soft, cycles, wakeup, final, done>>

GcNext ==
  \/ StartGc \/ Trace \/ TraceFinalizable \/ Sweep \/ FailGc
  \/ StartFinalizer \/ Visit \/ Enqueue \/ Finalize \/ EndFinalizer
  \/ Load \/ Forget \/ Store

GcSpec == GcInit /\ [][GcNext]_gcvars

\* The finalizer thread runs, and a collection ends that has begun.
FinalizerSteps ==
  StartFinalizer \/ Visit \/ Enqueue \/ Finalize \/ EndFinalizer

FairSpec ==
  /\ GcSpec
  /\ WF_gcvars(FinalizerSteps) /\ WF_gcvars(Trace) /\ WF_gcvars(TraceFinalizable) /\ WF_gcvars(Sweep)

-----------------------------------------------------------------------------
(* Properties *)

\* The values of the variables.
GcTypeOK ==
  /\ heap \subseteq Objects /\ loaders \subseteq Loaders
  /\ kind \in [Objects -> {"soft", "weak", "phantom", "plain", "throwable", "loader"}]
  /\ fields \in [Objects -> SUBSET Things]
  /\ referent \in [Objects -> Things \cup {None}]
  /\ queued \subseteq Objects
  /\ statics \in [Loaders -> SUBSET Objects]
  /\ stack \subseteq Things
  /\ live \subseteq keep /\ keep \subseteq heap /\ finalize \subseteq Objects
  /\ gcMark \subseteq loaders
  /\ todo \subseteq Things
  /\ phase \in {"run", "live", "keep"}
  /\ soft \in BOOLEAN /\ cycles \in Nat /\ wakeup \in BOOLEAN
  /\ final \in [at : {"wait", "sweep", "enqueue", "finalize"}, left : SUBSET Objects,
                local : SUBSET Objects, seen : Nat]
  /\ done \subseteq Objects

\* Whatever the program or an object can get at exists: no collection frees an
\* object, or unloads the loader of a class, that something left refers to.
Exists(x) == x \in heap \cup loaders
NothingDangles ==
  /\ \A x \in stack \cup final.local \cup {Thread, Boot} : Exists(x)
  /\ \A o \in heap :
       /\ \A x \in fields[o] \cup ({referent[o]} \ {None}) : Exists(x)
       /\ LoaderOf[o] \in loaders
  /\ \A l \in loaders : \A x \in LoaderRefs(l) : Exists(x)

\* The reference definition: what can be reached from S in a graph.
Edges(x) ==
  IF x \in Objects THEN Follows(x) \cup LoadersOf(x) ELSE LoaderRefs(x)
ReachIn(e, S) ==
  LET R[n \in Nat] == IF n = 0 THEN S ELSE R[n - 1] \cup UNION {e[x] : x \in R[n - 1]}
  IN R[Cardinality(Things)]
Reach(S) == ReachIn([x \in Things |-> Edges(x)], S)

\* When the first trace ends, exactly the objects that can be reached are live, and
\* when the second ends, exactly those and what finalizable ones reach are kept.
MarksExactly ==
  /\ (phase = "live" /\ todo = {}) => live = Reach(Roots) \cap Objects
  /\ (phase = "keep" /\ todo = {}) =>
       keep = Reach(Roots \cup {o \in heap : o \in finalize /\ o \notin Reach(Roots)}) \cap Objects

\* References and finalization as java.lang.ref has them.  An object is finalized
\* once; a weak reference to it that the program can reach is cleared by then, a
\* phantom one is not, and is cleared only when the object is gone.
ReferencesInOrder ==
  [][/\ \A o \in done' \ done : o \notin done
     /\ \A o \in final'.local \ final.local :
          final'.at = "finalize" =>
            /\ o \notin done
            /\ \A r \in live : kind[r] = "weak" => referent[r] # o
     /\ \A r \in heap' :
          kind[r] = "phantom" /\ referent[r] # None /\ referent'[r] = None
            => referent[r] \notin heap' /\ (referent[r] \in Finalizers => referent[r] \in done)
    ]_gcvars

\* A finalizable object that a collection found unreachable is finalized in the
\* end, and a live reference that it clears is enqueued: the finalizer misses
\* nobody, though collections make it start over and fail.  (A reference that is
\* only kept is passed over, and nobody comes back for it if it is live again.)
FinalizerReachesAll ==
  \A o \in Objects :
    /\ (phase = "run" /\ o \in (heap \cap finalize) \ live) ~> (o \notin finalize \/ o \in live)
    /\ (phase = "keep" /\ todo = {} /\ o \in Cleared \cap queued \cap live)
         ~> (o \notin queued \cap live)

-----------------------------------------------------------------------------
(* The inductive invariant of the proofs *)

\* Only references have a referent, and it is no Class object.
RefersToObjects ==
  \A o \in Objects : referent[o] # None => IsRef(o) /\ referent[o] \in Objects

\* In a collection, what a marked object or loader refers to, the roots, and later the
\* finalizable objects that are left, are marked or still on the scanning stack.
Reached == keep \cup gcMark \cup todo
Marking ==
  phase # "run" =>
    /\ todo \subseteq heap \cup loaders
    /\ \A o \in keep : Follows(o) \subseteq Reached /\ LoadersOf(o) \subseteq gcMark
    /\ \A l \in gcMark : LoaderRefs(l) \subseteq Reached
    /\ Roots \subseteq Reached
    /\ phase = "keep" => Unreached \subseteq Reached

\* While the program runs, a live weak reference refers to what is live.
WeakAreCleared ==
  phase = "run" => \A r \in live : kind[r] = "weak" /\ referent[r] # None => referent[r] \in live

\* An object has its FINALIZE bit, is being finalized, or has been, and the sweep under
\* way comes by no object with the bit that is gone.
BeingFinalized == IF final.at = "finalize" THEN final.local ELSE {}
FinalizedOnce ==
  /\ finalize \cap done = {} /\ BeingFinalized \cap (finalize \cup done) = {}
  /\ Finalizers \subseteq finalize \cup BeingFinalized \cup done
  /\ final.left \cap finalize \subseteq heap

GcInv ==
  /\ GcTypeOK
  /\ RefersToObjects
  /\ NothingDangles
  /\ Marking
  /\ WeakAreCleared
  /\ FinalizedOnce

\* Next to that: in a collection, what is marked or on the scanning stack is reached, and
\* the objects that are live when the second trace begins are those that the roots reach.
MarksOnlyReached ==
  /\ phase = "live" => live = keep /\ Reached \subseteq Reach(Roots)
  /\ phase = "keep" => live = Reach(Roots) \cap Objects /\ Reached \subseteq Reach(Roots \cup Unreached)
=============================================================================
