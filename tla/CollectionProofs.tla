-------------------------- MODULE CollectionProofs --------------------------
(***************************************************************************)
(* Proofs about World, the stop that a collection runs in, and about Gc,   *)
(* the collection.                                                         *)
(*                                                                         *)
(* World: for any finite set of threads and any use of the protocol (Ops,  *)
(* StartMayFail), IInv is inductive, and with it the world is really       *)
(* stopped when it is declared stopped.  HandOff is assumed where the      *)
(* result needs it: without it the result is false.                        *)
(*                                                                         *)
(* Gc: collections free and unload nothing that something left refers to,  *)
(* and references are cleared, and objects finalized, in the order of      *)
(* java.lang.ref, for any objects, loaders and references between them, as *)
(* long as no reference has a Class object for its referent; and what is   *)
(* marked is exactly what can be reached.                                  *)
(***************************************************************************)
EXTENDS World, Gc, FiniteSetTheorems, WellFoundedInduction, TLAPS

\* No java.lang.ref.Reference refers to a Class object.
NoClassReferents == Referents \subseteq Objects

-----------------------------------------------------------------------------
(* The initial states, and lemmas about what follows from IInv *)

LEMMA GcInitInv == ASSUME GcAssumption, NoClassReferents, GcInit PROVE GcInv
<1>1. GcTypeOK
  BY DEF GcTypeOK, GcInit, GcAssumption, NoClassReferents, AtRest, Things
<1>2. RefersToObjects
  BY DEF RefersToObjects, GcInit, NoClassReferents
<1>3. NothingDangles
  BY <1>2 DEF NothingDangles, Exists, RefersToObjects, LoaderRefs, GcInit, GcAssumption, AtRest, Things
<1>4. Marking
  BY DEF Marking, GcInit
<1>5. WeakAreCleared
  BY <1>2 DEF WeakAreCleared, RefersToObjects, GcInit
<1>6. FinalizedOnce
  BY DEF FinalizedOnce, BeingFinalized, GcInit, AtRest
<1> QED
  BY <1>1, <1>2, <1>3, <1>4, <1>5, <1>6 DEF GcInv

\* What root_walk() finds are objects that exist.
LEMMA RootsExist == ASSUME GcAssumption, GcTypeOK, NothingDangles PROVE Roots \subseteq heap
<1>1. Thread \in heap /\ final.local \subseteq heap
  BY DEF NothingDangles, Exists, GcAssumption, GcTypeOK, Things
<1>2. ASSUME NEW l \in loaders \ {Boot} PROVE ClassLoader[l] \in heap
  <2>1. ClassLoader[l] \in LoaderRefs(l)
    BY DEF LoaderRefs
  <2>2. ClassLoader[l] \in Objects /\ Exists(ClassLoader[l])
    BY <2>1 DEF NothingDangles, GcAssumption, GcTypeOK
  <2> QED
    BY <2>2 DEF Exists, GcAssumption, GcTypeOK
<1>3. ASSUME NEW w \in stack PROVE Locate(w) \subseteq heap
  BY <1>2 DEF Locate
<1> QED
  BY <1>1, <1>3 DEF Roots

\* What an object or a loader that exists refers to exists.
LEMMA EdgesExist ==
  ASSUME GcAssumption, GcTypeOK, NothingDangles
  PROVE  /\ \A o \in heap : Follows(o) \subseteq heap \cup loaders /\ LoadersOf(o) \subseteq loaders
         /\ \A l \in loaders : LoaderRefs(l) \subseteq heap \cup loaders
  BY DEF NothingDangles, Exists, Follows, LoadersOf, GcTypeOK

-----------------------------------------------------------------------------
(* One lemma for each action of a collection *)

LEMMA StartGcInv == ASSUME GcAssumption, GcInv, StartGc PROVE GcInv'
<1> USE DEF GcInv
<1>1. GcTypeOK'
  BY RootsExist DEF GcTypeOK, StartGc, graph, Things
<1>2. RefersToObjects' /\ NothingDangles'
  BY DEF RefersToObjects, IsRef, NothingDangles, Exists, LoaderRefs, StartGc, graph
<1>3. Roots' = Roots /\ Roots \subseteq heap
  BY RootsExist DEF Roots, Locate, StartGc, graph
<1>4. Marking'
  BY <1>3 DEF Marking, Reached, Unreached, StartGc, graph
<1>5. WeakAreCleared'
  BY DEF WeakAreCleared, StartGc
<1>6. FinalizedOnce'
  BY DEF FinalizedOnce, BeingFinalized, StartGc, graph
<1> QED
  BY <1>1, <1>2, <1>4, <1>5, <1>6

LEMMA TraceInv == ASSUME GcAssumption, GcInv, Trace PROVE GcInv'
<1> USE DEF GcInv
<1>1. PICK x \in todo :
        /\ IF x \in keep THEN todo' = todo \ {x} /\ UNCHANGED <<keep, live, gcMark>>
           ELSE /\ todo' = (todo \ {x}) \cup Pushes(x)
                /\ gcMark' = gcMark \cup Marks(x)
                /\ keep' = keep \cup ({x} \cap Objects)
                /\ live' = live \cup (IF phase = "live" THEN {x} \cap Objects ELSE {})
  BY DEF Trace
<1>2. phase \in {"live", "keep"} /\ phase' = phase /\ UNCHANGED <<graph, stack, finalize, soft, cycles, wakeup, final, done>>
  BY DEF Trace
<1>3. /\ \A o : Follows(o)' = Follows(o) /\ LoadersOf(o)' = LoadersOf(o)
      /\ \A l : LoaderRefs(l)' = LoaderRefs(l)
      /\ Roots' = Roots
  BY <1>2 DEF Follows, LoadersOf, LoaderRefs, Roots, Locate, graph
<1>4. x \in heap \cup loaders /\ (x \in Objects => x \in heap) /\ (x \notin Objects => x \in loaders)
  BY <1>2 DEF Marking, GcTypeOK, GcAssumption
<1>5. Pushes(x) \subseteq heap \cup loaders /\ Marks(x) \subseteq loaders
  BY <1>4, EdgesExist DEF Pushes, Marks
<1>6. /\ todo' \subseteq heap \cup loaders /\ keep' \subseteq heap /\ gcMark' \subseteq loaders
      /\ live' \subseteq keep' /\ live \subseteq live' /\ live' \subseteq Objects
  BY <1>1, <1>2, <1>4, <1>5 DEF Marking, GcTypeOK
<1>7. Reached \subseteq Reached' /\ gcMark \subseteq gcMark'
  <2>1. CASE x \in keep
    BY <1>1, <2>1 DEF Reached
  <2>2. CASE x \notin keep /\ x \in Objects
    BY <1>1, <2>2 DEF Reached
  <2>3. CASE x \notin keep /\ x \notin Objects
    BY <1>1, <2>3 DEF Reached, Marks
  <2> QED
    BY <2>1, <2>2, <2>3
<1>8. GcTypeOK'
  BY <1>2, <1>6 DEF GcTypeOK, graph, Things
<1>9. RefersToObjects' /\ NothingDangles'
  BY <1>2 DEF RefersToObjects, IsRef, NothingDangles, Exists, LoaderRefs, graph
<1>10. ASSUME NEW o \in keep' PROVE Follows(o) \subseteq Reached' /\ LoadersOf(o) \subseteq gcMark'
  <2>1. CASE o \in keep
    BY <1>2, <1>7, <2>1 DEF Marking
  <2>2. CASE o \notin keep
    <3>1. o = x /\ x \notin keep /\ x \in Objects
      BY <1>1, <2>2
    <3>2. Follows(x) \subseteq todo' /\ LoadersOf(x) \subseteq gcMark'
      BY <1>1, <3>1 DEF Pushes, Marks
    <3> QED
      BY <3>1, <3>2 DEF Reached
  <2> QED
    BY <2>1, <2>2
<1>11. ASSUME NEW l \in gcMark' PROVE LoaderRefs(l) \subseteq Reached'
  <2>1. CASE l \in gcMark
    BY <1>2, <1>7, <2>1 DEF Marking
  <2>2. CASE l \notin gcMark
    <3>1. l \in Marks(x) /\ todo' = (todo \ {x}) \cup Pushes(x)
      BY <1>1, <2>2
    <3>2. LoaderRefs(l) \subseteq todo'
      BY <3>1 DEF Pushes
    <3> QED
      BY <3>2 DEF Reached
  <2> QED
    BY <2>1, <2>2
<1>12. Unreached' \subseteq Unreached
  BY <1>2, <1>6 DEF Unreached, graph
<1>13. Marking'
  <2>1. Roots \subseteq Reached' /\ (phase = "keep" => Unreached' \subseteq Reached')
    BY <1>2, <1>7, <1>12 DEF Marking
  <2> QED
    BY <1>2, <1>3, <1>6, <1>10, <1>11, <2>1 DEF Marking, graph
<1>14. WeakAreCleared' /\ FinalizedOnce'
  BY <1>2 DEF WeakAreCleared, FinalizedOnce, BeingFinalized, graph
<1> QED
  BY <1>8, <1>9, <1>13, <1>14

LEMMA TraceFinalizableInv == ASSUME GcAssumption, GcInv, TraceFinalizable PROVE GcInv'
<1> USE DEF GcInv
<1>1. Reached \subseteq Reached' /\ Unreached' = Unreached
  BY DEF Reached, Unreached, TraceFinalizable, graph, bits
<1>2. /\ \A o : Follows(o)' = Follows(o) /\ LoadersOf(o)' = LoadersOf(o)
      /\ \A l : LoaderRefs(l)' = LoaderRefs(l)
      /\ Roots' = Roots
  BY DEF Follows, LoadersOf, LoaderRefs, Roots, Locate, TraceFinalizable, graph
<1>3. GcTypeOK'
  BY DEF GcTypeOK, TraceFinalizable, Unreached, graph, bits, Things
<1>4. RefersToObjects' /\ NothingDangles'
  BY DEF RefersToObjects, IsRef, NothingDangles, Exists, LoaderRefs, TraceFinalizable, graph
<1>5. Marking'
  <2>1. Unreached' \subseteq Reached' /\ todo' \subseteq heap'
    BY <1>1 DEF Reached, Unreached, TraceFinalizable, graph
  <2>2. phase = "live" /\ UNCHANGED <<heap, loaders, keep, gcMark>>
    BY DEF TraceFinalizable, graph, bits
  <2> QED
    BY <1>1, <1>2, <2>1, <2>2 DEF Marking
<1>6. WeakAreCleared' /\ FinalizedOnce'
  BY DEF WeakAreCleared, FinalizedOnce, BeingFinalized, TraceFinalizable, graph, bits
<1> QED
  BY <1>3, <1>4, <1>5, <1>6

\* When nothing is left to trace, what is kept is closed under references.
LEMMA KeptIsClosed ==
  ASSUME GcAssumption, GcInv, phase = "keep", todo = {}
  PROVE  /\ Roots \subseteq keep /\ Unreached \subseteq keep
         /\ \A o \in keep : Follows(o) \subseteq keep \cup gcMark /\ LoadersOf(o) \subseteq gcMark
         /\ \A l \in gcMark : LoaderRefs(l) \subseteq keep \cup gcMark
         /\ Boot \in gcMark
<1> USE DEF GcInv
<1>1. Reached = keep \cup gcMark /\ gcMark \cap Objects = {}
  BY DEF Reached, GcTypeOK, GcAssumption
<1>2. Roots \subseteq Objects /\ Unreached \subseteq Objects
  BY RootsExist DEF Unreached, GcTypeOK
<1>3. Roots \subseteq keep /\ Unreached \subseteq keep
  BY <1>1, <1>2 DEF Marking
<1>4. /\ \A o \in keep : Follows(o) \subseteq keep \cup gcMark /\ LoadersOf(o) \subseteq gcMark
      /\ \A l \in gcMark : LoaderRefs(l) \subseteq keep \cup gcMark
  BY <1>1 DEF Marking
<1>5. Thread \in keep /\ Boot \in LoadersOf(Thread)
  BY <1>3 DEF Roots, LoadersOf, GcAssumption
<1> QED
  BY <1>3, <1>4, <1>5

LEMMA SweepInv == ASSUME GcAssumption, GcInv, Sweep PROVE GcInv'
<1> USE DEF GcInv
<1>1. /\ phase = "keep" /\ todo = {} /\ phase' = "run" /\ heap' = keep /\ loaders' = gcMark
      /\ referent' = [o \in Objects |-> IF o \in Cleared \/ o \notin keep THEN None ELSE referent[o]]
      /\ UNCHANGED <<kind, fields, queued, statics, stack, live, keep, finalize, gcMark, todo, soft, cycles, final, done>>
      /\ wakeup' = (wakeup \/ Unreached # {} \/ Cleared \cap queued # {})
  BY DEF Sweep, bits
<1>2. GcTypeOK'
  <2>1. wakeup' \in BOOLEAN
    BY <1>1
  <2>2. referent' \in [Objects -> Things \cup {None}]
    BY <1>1 DEF GcTypeOK
  <2>3. heap' \subseteq Objects /\ loaders' \subseteq Loaders /\ keep' \subseteq heap' /\ gcMark' \subseteq loaders'
    BY <1>1 DEF GcTypeOK
  <2> QED
    BY <1>1, <2>1, <2>2, <2>3 DEF GcTypeOK, Things
<1>3. RefersToObjects'
  BY <1>1 DEF RefersToObjects, IsRef
<1>4. NothingDangles'
  <2>1. ASSUME NEW x \in stack PROVE x \in keep \cup gcMark
    <3>1. CASE x \in heap
      BY <1>1, <3>1, KeptIsClosed DEF Roots, Locate
    <3>2. CASE x \notin heap /\ x # Boot
      <4>1. x \in loaders \ {Boot} /\ ClassLoader[x] \in Roots
        BY <3>2 DEF NothingDangles, Exists, Roots, Locate
      <4>2. x \in LoadersOf(ClassLoader[x])
        BY <4>1 DEF LoadersOf
      <4> QED
        BY <1>1, <4>1, <4>2, KeptIsClosed
    <3>3. CASE x = Boot
      BY <1>1, <3>3, KeptIsClosed
    <3> QED
      BY <3>1, <3>2, <3>3
  <2>2. final.local \cup {Thread, Boot} \subseteq keep \cup gcMark
    BY <1>1, KeptIsClosed DEF Roots
  <2>3. ASSUME NEW o \in keep PROVE fields[o] \subseteq keep \cup gcMark /\ LoaderOf[o] \in gcMark
    BY <1>1, KeptIsClosed DEF Follows, LoadersOf
  <2>4. ASSUME NEW o \in keep, referent'[o] # None PROVE referent'[o] \in keep
    <3>1. o \in heap /\ o \in Objects /\ o \notin Cleared /\ referent'[o] = referent[o] /\ referent[o] # None
      BY <1>1, <2>4 DEF GcTypeOK
    <3>2. IsRef(o) /\ referent[o] \in Objects /\ referent[o] \in heap
      BY <3>1 DEF RefersToObjects, NothingDangles, Exists, GcTypeOK, GcAssumption
    <3>3. referent[o] \in live \/ (referent[o] \in finalize /\ referent[o] \notin live) \/ referent[o] \in keep
      BY <3>1, <3>2 DEF Cleared
    <3>4. live \subseteq keep /\ Unreached \subseteq keep
      BY <1>1, KeptIsClosed DEF GcTypeOK
    <3> QED
      BY <3>1, <3>2, <3>3, <3>4 DEF Unreached
  <2>5. ASSUME NEW l \in gcMark PROVE LoaderRefs(l)' \subseteq keep \cup gcMark
    BY <1>1, KeptIsClosed DEF LoaderRefs
  <2>6. \A x \in stack' \cup final'.local \cup {Thread, Boot} : Exists(x)'
    BY <1>1, <2>1, <2>2 DEF Exists
  <2>7. \A o \in heap' : /\ \A x \in fields'[o] \cup ({referent'[o]} \ {None}) : Exists(x)'
                         /\ LoaderOf[o] \in loaders'
    <3>1. heap' = keep /\ loaders' = gcMark /\ fields' = fields
      BY <1>1
    <3>2. ASSUME NEW o \in keep, NEW x \in fields[o] \cup ({referent'[o]} \ {None})
          PROVE  x \in keep \cup gcMark
      <4>1. CASE x \in fields[o]
        BY <2>3, <4>1
      <4>2. CASE x = referent'[o] /\ x # None
        BY <2>4, <4>2
      <4> QED
        BY <4>1, <4>2
    <3> HIDE DEF GcInv
    <3> QED
      BY <2>3, <3>1, <3>2 DEF Exists
  <2>8. \A l \in loaders' : \A x \in LoaderRefs(l)' : Exists(x)'
    BY <1>1, <2>5 DEF Exists
  <2> QED
    BY <2>6, <2>7, <2>8 DEF NothingDangles
<1>5. Marking'
  BY <1>1 DEF Marking
<1>6. WeakAreCleared'
  <2>1. SUFFICES ASSUME NEW r \in live, kind[r] = "weak", referent'[r] # None PROVE referent'[r] \in live
    BY <1>1 DEF WeakAreCleared
  <2>2. r \in keep /\ r \in Objects /\ r \notin Cleared /\ referent'[r] = referent[r] /\ referent[r] # None
    BY <1>1, <2>1 DEF GcTypeOK
  <2>3. IsRef(r) /\ referent[r] \in Objects
    BY <2>2 DEF RefersToObjects
  <2> QED
    BY <2>1, <2>2, <2>3 DEF Cleared
<1>7. FinalizedOnce'
  <2>1. final.left \cap finalize \subseteq keep
    <3>1. live \subseteq keep /\ Unreached \subseteq keep
      BY <1>1, KeptIsClosed DEF GcTypeOK
    <3> QED
      BY <3>1 DEF FinalizedOnce, Unreached
  <2> QED
    BY <1>1, <2>1 DEF FinalizedOnce, BeingFinalized
<1> QED
  BY <1>2, <1>3, <1>4, <1>5, <1>6, <1>7

LEMMA FailGcInv == ASSUME GcAssumption, GcInv, FailGc PROVE GcInv'
<1> USE DEF GcInv
<1>1. GcTypeOK'
  BY DEF GcTypeOK, FailGc, graph, Things
<1>2. RefersToObjects' /\ NothingDangles'
  BY DEF RefersToObjects, IsRef, NothingDangles, Exists, LoaderRefs, FailGc, graph
<1>3. Marking'
  BY DEF Marking, FailGc
<1>4. WeakAreCleared'
  BY DEF WeakAreCleared, RefersToObjects, NothingDangles, Exists, FailGc, graph, GcTypeOK, GcAssumption
<1>5. FinalizedOnce'
  BY DEF FinalizedOnce, BeingFinalized, FailGc, graph
<1> QED
  BY <1>1, <1>2, <1>3, <1>4, <1>5

-----------------------------------------------------------------------------
(* Steps of the finalizer and the program, while no collection runs *)

\* They leave the graph but for fields, and the LIVE bits, as they are.
LEMMA RunInv ==
  ASSUME GcAssumption, GcInv, phase = "run", GcTypeOK', FinalizedOnce',
         UNCHANGED <<heap, loaders, kind, referent, statics, live, phase>>,
         stack' \cup final'.local \subseteq heap \cup loaders,
         \A o \in heap : fields'[o] \subseteq heap \cup loaders
  PROVE  GcInv'
<1> USE DEF GcInv
<1>1. RefersToObjects' /\ WeakAreCleared' /\ Marking'
  BY DEF RefersToObjects, IsRef, WeakAreCleared, Marking
<1>2. NothingDangles'
  BY DEF NothingDangles, Exists, LoaderRefs
<1> QED
  BY <1>1, <1>2

LEMMA StartFinalizerInv == ASSUME GcAssumption, GcInv, StartFinalizer PROVE GcInv'
<1>1. GcTypeOK'
  BY DEF GcInv, GcTypeOK, StartFinalizer, graph, bits
<1>2. FinalizedOnce'
  BY DEF GcInv, FinalizedOnce, BeingFinalized, StartFinalizer, graph, bits, GcTypeOK
<1>3. final'.local = final.local
  BY DEF GcInv, GcTypeOK, StartFinalizer
<1> QED
  BY <1>1, <1>2, <1>3, RunInv DEF GcInv, NothingDangles, Exists, StartFinalizer, graph, bits

LEMMA VisitInv == ASSUME GcAssumption, GcInv, Visit PROVE GcInv'
<1> USE DEF GcInv
<1>1. PICK o \in final.left :
       \/ /\ Enqueueable(o)
          /\ final' = [final EXCEPT !.at = "enqueue", !.local = {o}, !.seen = cycles]
          /\ UNCHANGED finalize
       \/ /\ ~Enqueueable(o) /\ o \in finalize /\ o \notin live
          /\ final' = [at |-> "finalize", left |-> final.left \ {o}, local |-> {o}, seen |-> cycles]
          /\ finalize' = finalize \ {o}
       \/ /\ ~Enqueueable(o) /\ ~(o \in finalize /\ o \notin live)
          /\ final' = [final EXCEPT !.left = @ \ {o}]
          /\ UNCHANGED finalize
  BY DEF Visit
<1>2. /\ phase = "run" /\ final.at = "sweep"
      /\ UNCHANGED <<graph, stack, live, keep, gcMark, todo, phase, soft, cycles, wakeup, done>>
  BY DEF Visit
<1>3. GcTypeOK' /\ final'.local \subseteq heap \cup final.local
  <2>1. CASE Enqueueable(o) /\ final' = [final EXCEPT !.at = "enqueue", !.local = {o}, !.seen = cycles] /\ UNCHANGED finalize
    <3>1. o \in heap /\ o \in Objects
      BY <2>1 DEF GcTypeOK, Enqueueable
    <3>2. final' \in [at : {"wait", "sweep", "enqueue", "finalize"}, left : SUBSET Objects,
                      local : SUBSET Objects, seen : Nat]
      BY <2>1, <3>1 DEF GcTypeOK
    <3>3. final'.local = {o}
      BY <2>1 DEF GcTypeOK
    <3> QED
      BY <1>2, <2>1, <3>1, <3>2, <3>3 DEF GcTypeOK, graph
  <2>2. CASE o \in finalize /\ finalize' = finalize \ {o}
             /\ final' = [at |-> "finalize", left |-> final.left \ {o}, local |-> {o}, seen |-> cycles]
    <3>1. o \in heap
      BY <2>2 DEF FinalizedOnce
    <3> QED
      BY <1>2, <2>2, <3>1 DEF GcTypeOK, graph
  <2>3. CASE final' = [final EXCEPT !.left = @ \ {o}] /\ UNCHANGED finalize
    BY <1>2, <2>3 DEF GcTypeOK, graph
  <2> QED
    BY <1>1, <2>1, <2>2, <2>3
<1>4. FinalizedOnce'
  <2>1. CASE Enqueueable(o) /\ final' = [final EXCEPT !.at = "enqueue", !.local = {o}, !.seen = cycles] /\ UNCHANGED finalize
    BY <1>2, <2>1 DEF GcTypeOK, FinalizedOnce, BeingFinalized, graph
  <2>2. CASE o \in finalize /\ finalize' = finalize \ {o}
             /\ final' = [at |-> "finalize", left |-> final.left \ {o}, local |-> {o}, seen |-> cycles]
    BY <1>2, <2>2 DEF GcTypeOK, FinalizedOnce, BeingFinalized, graph
  <2>3. CASE final' = [final EXCEPT !.left = @ \ {o}] /\ UNCHANGED finalize
    BY <1>2, <2>3 DEF GcTypeOK, FinalizedOnce, BeingFinalized, graph
  <2> QED
    BY <1>1, <2>1, <2>2, <2>3
<1> QED
  BY <1>2, <1>3, <1>4, RunInv DEF NothingDangles, Exists, graph

\* The sweep goes on, or starts over.
LEMMA ResumeLocal ==
  ASSUME GcTypeOK, GoOn(final.left)
  PROVE  /\ final'.at = "sweep" /\ final'.local = {} /\ final'.left \in {final.left, heap}
         /\ final' \in [at : {"wait", "sweep", "enqueue", "finalize"}, left : SUBSET Objects,
                        local : SUBSET Objects, seen : Nat]
  BY DEF GoOn, GcTypeOK

LEMMA EnqueueInv == ASSUME GcAssumption, GcInv, Enqueue PROVE GcInv'
<1>1. GcTypeOK'
  BY ResumeLocal DEF GcInv, GcTypeOK, Enqueue, bits
<1>2. FinalizedOnce'
  BY ResumeLocal DEF GcInv, FinalizedOnce, BeingFinalized, Enqueue, bits
<1> QED
  BY <1>1, <1>2, ResumeLocal, RunInv DEF GcInv, NothingDangles, Exists, Enqueue, bits

LEMMA FinalizeInv == ASSUME GcAssumption, GcInv, Finalize PROVE GcInv'
<1>1. stack' \subseteq stack \cup final.local
  BY DEF Finalize
<1>2. GcTypeOK'
  BY <1>1, ResumeLocal DEF GcInv, GcTypeOK, Finalize, graph, bits, Things
<1>3. FinalizedOnce'
  BY ResumeLocal DEF GcInv, FinalizedOnce, BeingFinalized, Finalize, graph, bits
<1> QED
  BY <1>1, <1>2, <1>3, ResumeLocal, RunInv DEF GcInv, NothingDangles, Exists, Finalize, graph, bits

LEMMA EndFinalizerInv == ASSUME GcAssumption, GcInv, EndFinalizer PROVE GcInv'
<1>1. GcTypeOK'
  BY DEF GcInv, GcTypeOK, EndFinalizer, AtRest, graph, bits
<1>2. FinalizedOnce'
  BY DEF GcInv, FinalizedOnce, BeingFinalized, EndFinalizer, AtRest, graph, bits
<1> QED
  BY <1>1, <1>2, RunInv DEF GcInv, NothingDangles, Exists, EndFinalizer, AtRest, graph, bits

LEMMA LoadInv == ASSUME GcAssumption, GcInv, Load PROVE GcInv'
<1> USE DEF GcInv
<1>1. PICK o \in Roots, x \in Things :
        /\ x \in fields[o] \/ (x = referent[o] /\ kind[o] # "phantom")
        /\ stack' = stack \cup {x}
  BY DEF Load
<1>2. phase = "run" /\ UNCHANGED <<graph, bits, todo, phase, soft, cycles, wakeup, final, done>>
  BY DEF Load
<1>3. x \in heap \cup loaders
  BY <1>1, RootsExist DEF NothingDangles, Exists, GcAssumption
<1>4. GcTypeOK' /\ FinalizedOnce'
  BY <1>1, <1>2 DEF GcTypeOK, FinalizedOnce, BeingFinalized, graph, bits
<1> QED
  BY <1>1, <1>2, <1>3, <1>4, RunInv DEF NothingDangles, Exists, graph, bits

LEMMA ForgetInv == ASSUME GcAssumption, GcInv, Forget PROVE GcInv'
<1>1. stack' \subseteq stack
  BY DEF Forget
<1>2. GcTypeOK' /\ FinalizedOnce'
  BY <1>1 DEF GcInv, GcTypeOK, FinalizedOnce, BeingFinalized, Forget, graph, bits
<1> QED
  BY <1>1, <1>2, RunInv DEF GcInv, NothingDangles, Exists, Forget, graph, bits

LEMMA StoreInv == ASSUME GcAssumption, GcInv, Store PROVE GcInv'
<1> USE DEF GcInv
<1>1. PICK o \in Roots, x \in Roots \cup {None} : fields' = [fields EXCEPT ![o] = {x} \ {None}]
  BY DEF Store
<1>2. /\ phase = "run"
      /\ UNCHANGED <<heap, loaders, kind, referent, queued, statics, stack, bits, todo, phase,
                     soft, cycles, wakeup, final, done>>
  BY DEF Store
<1>3. o \in heap /\ {x} \ {None} \subseteq heap /\ heap \subseteq Objects
  BY <1>1, RootsExist DEF GcTypeOK
<1>4. fields' \in [Objects -> SUBSET Things]
  BY <1>1, <1>3 DEF GcTypeOK, Things
<1>5. GcTypeOK' /\ FinalizedOnce'
  BY <1>2, <1>4 DEF GcTypeOK, FinalizedOnce, BeingFinalized, bits
<1>6. \A p \in heap : fields'[p] \subseteq heap \cup loaders
  BY <1>1, <1>3 DEF NothingDangles, Exists, GcTypeOK
<1> QED
  BY <1>2, <1>5, <1>6, RunInv DEF NothingDangles, Exists, bits

-----------------------------------------------------------------------------
(* The theorems *)

LEMMA NextInv == ASSUME GcAssumption, GcInv, [GcNext]_gcvars PROVE GcInv'
<1>1. CASE StartGc            BY <1>1, StartGcInv
<1>2. CASE Trace              BY <1>2, TraceInv
<1>3. CASE TraceFinalizable   BY <1>3, TraceFinalizableInv
<1>4. CASE Sweep              BY <1>4, SweepInv
<1>5. CASE FailGc             BY <1>5, FailGcInv
<1>6. CASE StartFinalizer     BY <1>6, StartFinalizerInv
<1>7. CASE Visit              BY <1>7, VisitInv
<1>8. CASE Enqueue            BY <1>8, EnqueueInv
<1>9. CASE Finalize           BY <1>9, FinalizeInv
<1>10. CASE EndFinalizer      BY <1>10, EndFinalizerInv
<1>11. CASE Load              BY <1>11, LoadInv
<1>12. CASE Forget            BY <1>12, ForgetInv
<1>13. CASE Store             BY <1>13, StoreInv
<1>14. CASE UNCHANGED gcvars
  <2>1. UNCHANGED <<graph, stack, bits, todo, phase, soft, cycles, wakeup, final, done>>
    BY <1>14 DEF gcvars
  <2>2. GcTypeOK' /\ RefersToObjects' /\ NothingDangles'
    BY <2>1 DEF GcInv, GcTypeOK, RefersToObjects, IsRef, NothingDangles, Exists, LoaderRefs, graph, bits
  <2>3. Marking'
    BY <2>1 DEF GcInv, Marking, Reached, Unreached, Follows, LoadersOf, LoaderRefs, Roots, Locate, graph, bits
  <2>4. WeakAreCleared' /\ FinalizedOnce'
    BY <2>1 DEF GcInv, WeakAreCleared, FinalizedOnce, BeingFinalized, graph, bits
  <2> QED
    BY <2>2, <2>3, <2>4 DEF GcInv
<1> QED
  BY <1>1, <1>2, <1>3, <1>4, <1>5, <1>6, <1>7, <1>8, <1>9, <1>10, <1>11, <1>12, <1>13, <1>14 DEF GcNext

\* The invariant that the others follow from: in gc(), whatever a marked object or
\* loader refers to is marked or on the scanning stack; outside, the LIVE bits and the
\* FINALIZE bits mean what the finalizer takes them to mean.
THEOREM GcInvariance == ASSUME GcAssumption, NoClassReferents PROVE GcSpec => []GcInv
<1>1. GcInit => GcInv
  BY GcInitInv
<1>2. GcInv /\ [GcNext]_gcvars => GcInv'
  BY NextInv
<1> QED
  BY <1>1, <1>2, PTL DEF GcSpec

\* Every variable of the collector keeps its type.
THEOREM GcTypeCorrect == ASSUME GcAssumption, NoClassReferents PROVE GcSpec => []GcTypeOK
<1>1. GcInv => GcTypeOK
  BY DEF GcInv
<1> QED
  BY <1>1, GcInvariance, PTL

\* No collection frees an object, or unloads the loader of a class, that the program,
\* an object or a loader that is left refers to, failed collections included.
THEOREM NoneDangles == ASSUME GcAssumption, NoClassReferents PROVE GcSpec => []NothingDangles
<1>1. GcInv => NothingDangles
  BY DEF GcInv
<1> QED
  BY <1>1, GcInvariance, PTL

-----------------------------------------------------------------------------
(* The order of finalization and clearing *)

InOrder ==
  /\ \A o \in done' \ done : o \notin done
  /\ \A o \in final'.local \ final.local :
       final'.at = "finalize" =>
         /\ o \notin done
         /\ \A r \in live : kind[r] = "weak" => referent[r] # o
  /\ \A r \in heap' :
       kind[r] = "phantom" /\ referent[r] # None /\ referent'[r] = None
         => referent[r] \notin heap' /\ (referent[r] \in Finalizers => referent[r] \in done)

\* An object that is about to be finalized has not been, and nothing weak refers to it.
LEMMA VisitInOrder ==
  ASSUME GcAssumption, GcInv, Visit, NEW o \in final'.local \ final.local, final'.at = "finalize"
  PROVE  o \notin done /\ \A r \in live : kind[r] = "weak" => referent[r] # o
<1> USE DEF GcInv
<1>1. phase = "run" /\ final.at = "sweep"
  BY DEF Visit
<1>2. PICK p \in final.left : p \in finalize /\ p \notin live /\ final'.local = {p}
  <2>1. PICK p \in final.left :
         \/ final' = [final EXCEPT !.at = "enqueue", !.local = {p}, !.seen = cycles]
         \/ /\ p \in finalize /\ p \notin live
            /\ final' = [at |-> "finalize", left |-> final.left \ {p}, local |-> {p}, seen |-> cycles]
         \/ final' = [final EXCEPT !.left = @ \ {p}]
    BY DEF Visit
  <2>2. final' # [final EXCEPT !.at = "enqueue", !.local = {p}, !.seen = cycles]
    BY DEF GcTypeOK
  <2>3. final' # [final EXCEPT !.left = @ \ {p}]
    BY <1>1 DEF GcTypeOK
  <2> QED
    BY <2>1, <2>2, <2>3
<1>3. o = p
  BY <1>2
<1> QED
  BY <1>1, <1>2, <1>3 DEF FinalizedOnce, WeakAreCleared, GcTypeOK, GcAssumption, Things

\* A phantom reference is cleared when its referent is freed, which has been finalized.
LEMMA SweepInOrder ==
  ASSUME GcAssumption, GcInv, Sweep, NEW r \in heap', kind[r] = "phantom", referent[r] # None, referent'[r] = None
  PROVE  referent[r] \notin heap' /\ (referent[r] \in Finalizers => referent[r] \in done)
<1> USE DEF GcInv
<1>1. phase = "keep" /\ todo = {} /\ heap' = keep /\ r \in Objects
      /\ referent' = [o \in Objects |-> IF o \in Cleared \/ o \notin keep THEN None ELSE referent[o]]
  BY DEF Sweep, GcTypeOK
<1>2. r \in Cleared
  BY <1>1
<1>3. referent[r] \notin finalize \cup keep
  BY <1>2 DEF Cleared
<1>4. BeingFinalized \subseteq keep
  BY <1>1, KeptIsClosed DEF BeingFinalized, Roots
<1> QED
  BY <1>1, <1>3, <1>4 DEF FinalizedOnce

LEMMA StepInOrder == ASSUME GcAssumption, GcInv, [GcNext]_gcvars PROVE InOrder
<1> USE DEF GcInv
<1>1. CASE Visit
  BY <1>1, VisitInOrder DEF InOrder, Visit, graph
<1>2. CASE Sweep
  BY <1>2, SweepInOrder DEF InOrder, Sweep, bits
<1>3. CASE UNCHANGED <<referent, final>> /\ UNCHANGED done
  BY <1>3 DEF InOrder
<1>4. CASE StartFinalizer \/ Enqueue \/ Finalize \/ EndFinalizer
  <2>1. UNCHANGED referent
    BY <1>4 DEF StartFinalizer, Enqueue, Finalize, EndFinalizer, graph
  <2>2. CASE StartFinalizer
    BY <2>1, <2>2 DEF InOrder, StartFinalizer, GcTypeOK
  <2>3. CASE Enqueue \/ Finalize
    <3>1. final'.local = {} /\ (Finalize => done' = done \cup BeingFinalized) /\ (Enqueue => done' = done)
      BY <2>3, ResumeLocal DEF Enqueue, Finalize, BeingFinalized
    <3> QED
      BY <2>1, <2>3, <3>1 DEF InOrder, FinalizedOnce
  <2>4. CASE EndFinalizer
    BY <2>1, <2>4 DEF InOrder, EndFinalizer, AtRest
  <2> QED
    BY <1>4, <2>2, <2>3, <2>4
<1>5. CASE StartGc \/ Trace \/ TraceFinalizable \/ FailGc \/ Load \/ Forget \/ Store \/ UNCHANGED gcvars
  <2>1. UNCHANGED <<referent, final>> /\ UNCHANGED done
    BY <1>5 DEF StartGc, Trace, TraceFinalizable, FailGc, Load, Forget, Store, gcvars, graph
  <2> QED
    BY <2>1, <1>3
<1> QED
  BY <1>1, <1>2, <1>4, <1>5 DEF GcNext

\* However collections and the finalizer interleave, an object is finalized once, its
\* weak references are cleared before, its phantom ones only when it is gone.
THEOREM InOrderAlways == ASSUME GcAssumption, NoClassReferents PROVE GcSpec => ReferencesInOrder
<1>1. GcInv /\ [GcNext]_gcvars => [InOrder]_gcvars
  BY StepInOrder
<1> QED
  BY <1>1, GcInvariance, PTL DEF GcSpec, ReferencesInOrder, InOrder

-----------------------------------------------------------------------------
(* What can be reached in a graph *)

\* A set of naturals that is not empty has a least element.
LEMMA Least ==
  ASSUME NEW S \in SUBSET Nat, S # {} PROVE \E m \in S : \A k \in S : m <= k
<1>1. PICK m \in S : \A k \in S : ~(<<k, m>> \in OpToRel(<, Nat))
  BY WFMin, NatLessThanWellFounded
<1>2. \A k \in S : ~(k < m)
  BY <1>1 DEF OpToRel
<1> QED
  BY <1>2

\* The edges of a graph of things.
EdgeSets == [Things -> SUBSET Things]
Closed(e, C) == \A x \in C : e[x] \subseteq C

\* The steps that ReachIn() counts up to.
Steps(e, S) ==
  CHOOSE R : R = [n \in Nat |-> IF n = 0 THEN S ELSE R[n - 1] \cup UNION {e[x] : x \in R[n - 1]}]

\* What paths of at most n edges lead to.
Within(e, S, n) ==
  {x \in Things : \E m \in 0..n : \E f \in [0..m -> Things] :
     f[0] \in S /\ f[m] = x /\ \A i \in 0..m : i < m => f[i + 1] \in e[f[i]]}

\* There is such a function: the paths are one.
LEMMA StepsAre ==
  ASSUME NEW e \in EdgeSets, NEW S \in SUBSET Things
  PROVE  /\ Steps(e, S)[0] = S
         /\ \A n \in Nat : \A x :
              x \in Steps(e, S)[n + 1] <=>
                x \in Steps(e, S)[n] \/ \E y \in Steps(e, S)[n] : x \in e[y]
<1> DEFINE P == [n \in Nat |-> Within(e, S, n)]
           Is(R) == R = [n \in Nat |-> IF n = 0 THEN S ELSE R[n - 1] \cup UNION {e[x] : x \in R[n - 1]}]
<1>1. Within(e, S, 0) = S
  <2>1. ASSUME NEW x \in S PROVE x \in Within(e, S, 0)
    <3> DEFINE f == [i \in 0..0 |-> x]
    <3>1. f \in [0..0 -> Things] /\ f[0] = x /\ (\A i \in 0..0 : ~(i < 0)) /\ 0 \in 0..0
      OBVIOUS
    <3> HIDE DEF f
    <3> QED
      BY <3>1 DEF Within
  <2>2. ASSUME NEW x \in Within(e, S, 0) PROVE x \in S
    BY DEF Within
  <2> QED
    BY <2>1, <2>2
<1>2. ASSUME NEW n \in Nat
      PROVE  Within(e, S, n + 1) = Within(e, S, n) \cup UNION {e[x] : x \in Within(e, S, n)}
  <2>1. ASSUME NEW x \in Within(e, S, n) PROVE x \in Within(e, S, n + 1)
    <3>1. PICK m \in 0..n : \E f \in [0..m -> Things] :
                 f[0] \in S /\ f[m] = x /\ \A i \in 0..m : i < m => f[i + 1] \in e[f[i]]
      BY DEF Within
    <3>2. m \in 0..(n + 1)
      OBVIOUS
    <3> QED
      BY <3>1, <3>2 DEF Within
  <2>2. ASSUME NEW y \in Within(e, S, n), NEW x \in e[y] PROVE x \in Within(e, S, n + 1)
    <3>0. PICK m \in 0..n : \E f \in [0..m -> Things] :
                 f[0] \in S /\ f[m] = y /\ \A i \in 0..m : i < m => f[i + 1] \in e[f[i]]
      BY DEF Within
    <3>1. PICK f \in [0..m -> Things] :
                 f[0] \in S /\ f[m] = y /\ \A i \in 0..m : i < m => f[i + 1] \in e[f[i]]
      BY <3>0
    <3> DEFINE g == [i \in 0..(m + 1) |-> IF i = m + 1 THEN x ELSE f[i]]
    <3>2. x \in Things
      BY DEF EdgeSets, Within
    <3>3. g \in [0..(m + 1) -> Things] /\ g[0] \in S /\ g[m + 1] = x
      BY <3>1, <3>2
    <3>4. ASSUME NEW i \in 0..(m + 1), i < m + 1 PROVE g[i + 1] \in e[g[i]]
      <4>1. CASE i = m
        BY <3>1, <4>1
      <4>2. CASE i < m
        BY <3>1, <4>2
      <4> QED
        BY <3>4, <4>1, <4>2
    <3>5. m + 1 \in 0..(n + 1)
      OBVIOUS
    <3> HIDE DEF g
    <3> QED
      BY <3>2, <3>3, <3>4, <3>5 DEF Within
  <2>3. ASSUME NEW x \in Within(e, S, n + 1), x \notin Within(e, S, n)
        PROVE  \E y \in Within(e, S, n) : x \in e[y]
    <3>0. PICK m \in 0..(n + 1) : \E f \in [0..m -> Things] :
                 f[0] \in S /\ f[m] = x /\ \A i \in 0..m : i < m => f[i + 1] \in e[f[i]]
      BY DEF Within
    <3>1. PICK f \in [0..m -> Things] :
                 f[0] \in S /\ f[m] = x /\ \A i \in 0..m : i < m => f[i + 1] \in e[f[i]]
      BY <3>0
    <3>2. m = n + 1
      <4>1. m \notin 0..n
        BY <2>3, <3>1 DEF Within
      <4> QED
        BY <4>1
    <3> DEFINE g == [i \in 0..n |-> f[i]]
    <3>3. g \in [0..n -> Things] /\ g[0] \in S /\ g[n] = f[n]
      BY <3>1, <3>2
    <3>4. \A i \in 0..n : i < n => g[i + 1] \in e[g[i]]
      BY <3>1, <3>2
    <3>5. f[n] \in Things /\ n \in 0..n
      BY <3>2
    <3>6. f[n] \in Within(e, S, n)
      <4> HIDE DEF g
      <4> QED
        BY <3>3, <3>4, <3>5 DEF Within
    <3>7. x \in e[f[n]]
      BY <3>1, <3>2
    <3> QED
      BY <3>6, <3>7
  <2> QED
    BY <2>1, <2>2, <2>3
<1>3. Is(P)
  <2>1. ASSUME NEW n \in Nat
        PROVE  P[n] = IF n = 0 THEN S ELSE P[n - 1] \cup UNION {e[x] : x \in P[n - 1]}
    <3>1. CASE n = 0
      BY <1>1, <3>1
    <3>2. CASE n # 0
      <4>1. n - 1 \in Nat /\ (n - 1) + 1 = n
        BY <3>2
      <4>2. Within(e, S, n) = Within(e, S, n - 1) \cup UNION {e[x] : x \in Within(e, S, n - 1)}
        BY <1>2, <4>1
      <4> QED
        BY <3>2, <4>1, <4>2
    <3> QED
      BY <3>1, <3>2
  <2> HIDE DEF P
  <2>2. P = [n \in Nat |-> P[n]]
    BY DEF P
  <2> QED
    BY <2>1, <2>2
<1>4. Steps(e, S) = [n \in Nat |-> IF n = 0 THEN S ELSE
                       Steps(e, S)[n - 1] \cup UNION {e[x] : x \in Steps(e, S)[n - 1]}]
  BY <1>3 DEF Steps
<1> DEFINE R == Steps(e, S)
<1> HIDE DEF R
<1>5. \A n \in Nat : R[n] = IF n = 0 THEN S ELSE R[n - 1] \cup UNION {e[x] : x \in R[n - 1]}
  BY <1>4 DEF R
<1>6. R[0] = S
  BY <1>5
<1>7. ASSUME NEW n \in Nat PROVE R[n + 1] = R[n] \cup UNION {e[x] : x \in R[n]}
  <2>1. n + 1 \in Nat /\ n + 1 # 0 /\ (n + 1) - 1 = n
    OBVIOUS
  <2>2. R[n + 1] = R[(n + 1) - 1] \cup UNION {e[x] : x \in R[(n + 1) - 1]}
    BY <1>5, <2>1
  <2> QED
    BY <2>1, <2>2
<1>8. \A n \in Nat : \A x : x \in R[n + 1] <=> x \in R[n] \/ \E y \in R[n] : x \in e[y]
  BY <1>7
<1> QED
  BY <1>6, <1>8 DEF R

\* The counted steps are within whatever has the start and is closed ...
LEMMA StepsWithin ==
  ASSUME NEW e \in EdgeSets, NEW S \in SUBSET Things, NEW C, S \subseteq C, Closed(e, C)
  PROVE  \A n \in Nat : Steps(e, S)[n] \subseteq C
<1> DEFINE Bad == {n \in Nat : ~(Steps(e, S)[n] \subseteq C)}
<1>1. Bad = {}
  <2>1. SUFFICES ASSUME Bad # {} PROVE FALSE
    OBVIOUS
  <2>2. PICK n \in Bad : \A k \in Bad : n <= k
    <3>1. Bad \in SUBSET Nat
      OBVIOUS
    <3> HIDE DEF Bad
    <3> QED
      BY <2>1, <3>1, Least
  <2>3. n # 0
    BY StepsAre
  <2>4. n - 1 \in Nat /\ (n - 1) + 1 = n /\ ~(n <= n - 1)
    BY <2>3
  <2>5. n - 1 \notin Bad
    <3> HIDE DEF Bad
    <3> QED
      BY <2>2, <2>4
  <2>6. Steps(e, S)[n - 1] \subseteq C
    BY <2>4, <2>5
  <2>7. \A x : x \in Steps(e, S)[n] <=>
               x \in Steps(e, S)[n - 1] \/ \E y \in Steps(e, S)[n - 1] : x \in e[y]
    BY <2>4, StepsAre
  <2> QED
    BY <2>6, <2>7 DEF Closed
<1> QED
  BY <1>1

\* ... and grow until they are closed themselves.
LEMMA StepsGrow ==
  ASSUME IsFiniteSet(Things), NEW e \in EdgeSets, NEW S \in SUBSET Things
  PROVE  \A n \in Nat : Closed(e, Steps(e, S)[n]) \/ Cardinality(Steps(e, S)[n]) >= n
<1> DEFINE R == Steps(e, S)
<1>1. \A n \in Nat : \A x : x \in R[n + 1] <=> x \in R[n] \/ \E y \in R[n] : x \in e[y]
  BY StepsAre
<1>2. \A n \in Nat : R[n] \in SUBSET Things
  <2>1. Closed(e, Things)
    BY DEF Closed, EdgeSets
  <2> QED
    BY <2>1, StepsWithin
<1> HIDE DEF R
<1>3. \A n \in Nat : IsFiniteSet(R[n]) /\ Cardinality(R[n]) \in Nat
  BY <1>2, FS_Subset, FS_CardinalityType
<1> DEFINE Bad == {n \in Nat : ~(Closed(e, R[n]) \/ Cardinality(R[n]) >= n)}
<1>4. Bad = {}
  <2>1. SUFFICES ASSUME Bad # {} PROVE FALSE
    OBVIOUS
  <2>2. PICK n \in Bad : \A k \in Bad : n <= k
    <3>1. Bad \in SUBSET Nat
      OBVIOUS
    <3> HIDE DEF Bad
    <3> QED
      BY <2>1, <3>1, Least
  <2>3. n \in Nat /\ ~Closed(e, R[n]) /\ ~(Cardinality(R[n]) >= n)
    OBVIOUS
  <2>4. n # 0
    BY <1>3, <2>3
  <2> DEFINE m == n - 1
  <2>5. m \in Nat /\ m + 1 = n /\ ~(n <= m)
    BY <2>3, <2>4
  <2>6. m \notin Bad
    <3> HIDE DEF Bad, m
    <3> QED
      BY <2>2, <2>5
  <2> HIDE DEF m
  <2>7. \A x : x \in R[n] <=> x \in R[m] \/ \E y \in R[m] : x \in e[y]
    BY <1>1, <2>5
  <2>8. ~Closed(e, R[m])
    <3>1. SUFFICES ASSUME Closed(e, R[m]) PROVE Closed(e, R[n])
      BY <2>3
    <3>2. R[n] = R[m]
      BY <2>7, <3>1 DEF Closed
    <3> QED
      BY <3>1, <3>2
  <2>9. Cardinality(R[m]) >= m
    BY <2>5, <2>6, <2>8
  <2>10. R[m] # R[n]
    BY <2>7, <2>8 DEF Closed
  <2>11. Cardinality(R[m]) <= Cardinality(R[n]) /\ Cardinality(R[m]) # Cardinality(R[n])
    <3>1. R[m] \in SUBSET R[n] /\ IsFiniteSet(R[n])
      BY <1>3, <2>3, <2>7
    <3> QED
      BY <2>10, <3>1, FS_Subset
  <2> QED
    BY <1>3, <2>3, <2>5, <2>9, <2>11
<1>5. ASSUME NEW n \in Nat PROVE Closed(e, R[n]) \/ Cardinality(R[n]) >= n
  <2>1. n \notin Bad
    <3> HIDE DEF Bad
    <3> QED
      BY <1>4
  <2> QED
    BY <2>1
<1> QED
  BY <1>5 DEF R

\* What can be reached is the least set that has the start and is closed.
LEMMA ReachIsLeast ==
  ASSUME IsFiniteSet(Things), NEW e \in EdgeSets, NEW S \in SUBSET Things
  PROVE  /\ S \subseteq ReachIn(e, S) /\ ReachIn(e, S) \subseteq Things
         /\ Closed(e, ReachIn(e, S))
         /\ \A C : S \subseteq C /\ Closed(e, C) => ReachIn(e, S) \subseteq C
<1> DEFINE R == Steps(e, S)
           N == Cardinality(Things)
<1>1. ReachIn(e, S) = R[N]
  BY DEF ReachIn, Steps
<1>2. N \in Nat
  BY FS_CardinalityType
<1>3. \A C : S \subseteq C /\ Closed(e, C) => \A n \in Nat : R[n] \subseteq C
  BY StepsWithin
<1>4. \A n \in Nat : R[n] \subseteq Things
  <2>1. Closed(e, Things)
    BY DEF Closed, EdgeSets
  <2> QED
    BY <1>3, <2>1
<1>5. R[0] = S /\ \A n \in Nat : \A x : x \in R[n + 1] <=> x \in R[n] \/ \E y \in R[n] : x \in e[y]
  BY StepsAre
<1>6. Closed(e, R[N]) \/ Cardinality(R[N]) >= N
  BY <1>2, StepsGrow
<1> HIDE DEF R
<1>7. Closed(e, R[N])
  <2>1. SUFFICES ASSUME Cardinality(R[N]) >= N PROVE Closed(e, R[N])
    BY <1>6
  <2>2. R[N] \in SUBSET Things
    BY <1>2, <1>4
  <2>3. Cardinality(R[N]) <= N /\ (N = Cardinality(R[N]) => Things = R[N]) /\ IsFiniteSet(R[N])
    BY <1>2, <2>2, FS_Subset
  <2>4. Cardinality(R[N]) \in Nat
    BY <2>3, FS_CardinalityType
  <2>5. R[N] = Things
    <3> HIDE DEF N
    <3> QED
      BY <1>2, <2>1, <2>3, <2>4
  <2> QED
    BY <2>5 DEF Closed, EdgeSets
<1>8. S \subseteq R[N]
  <2> DEFINE Bad == {n \in Nat : ~(S \subseteq R[n])}
  <2>1. Bad = {}
    <3>1. SUFFICES ASSUME Bad # {} PROVE FALSE
      OBVIOUS
    <3>2. PICK n \in Bad : \A k \in Bad : n <= k
      <4>1. Bad \in SUBSET Nat
        OBVIOUS
      <4> HIDE DEF Bad
      <4> QED
        BY <3>1, <4>1, Least
    <3>3. n # 0
      BY <1>5
    <3>4. n - 1 \in Nat /\ (n - 1) + 1 = n /\ ~(n <= n - 1)
      BY <3>3
    <3>5. n - 1 \notin Bad
      <4> HIDE DEF Bad
      <4> QED
        BY <3>2, <3>4
    <3>6. S \subseteq R[n - 1] /\ R[n - 1] \subseteq R[n]
      BY <1>5, <3>4, <3>5
    <3> QED
      BY <3>6
  <2> QED
    BY <1>2, <2>1
<1> HIDE DEF N
<1>9. R[N] \subseteq Things
  BY <1>2, <1>4
<1>10. \A C : S \subseteq C /\ Closed(e, C) => R[N] \subseteq C
  BY <1>2, <1>3
<1> QED
  BY <1>1, <1>7, <1>8, <1>9, <1>10

-----------------------------------------------------------------------------
(* What is marked is what is reached *)

\* The graph of a state.
GraphNow == [x \in Things |-> Edges(x)]

LEMMA GraphType == ASSUME GcAssumption, GcTypeOK PROVE GraphNow \in EdgeSets
<1>1. ASSUME NEW x \in Things PROVE Edges(x) \subseteq Things
  <2>1. CASE x \in Objects
    <3>1. Follows(x) \subseteq Things
      BY <2>1 DEF Follows, GcTypeOK
    <3>2. LoadersOf(x) \subseteq Things
      BY <2>1 DEF LoadersOf, GcTypeOK, GcAssumption, Things
    <3> QED
      BY <2>1, <3>1, <3>2 DEF Edges
  <2>2. CASE x \in Loaders /\ x \notin Objects
    BY <2>2 DEF Edges, LoaderRefs, GcTypeOK, GcAssumption, Things
  <2> QED
    BY <2>1, <2>2 DEF Things
<1> QED
  BY <1>1 DEF GraphNow, EdgeSets

\* What can be reached now.
LEMMA ReachNow ==
  ASSUME GcAssumption, GcTypeOK, NEW S \in SUBSET Things
  PROVE  /\ S \subseteq Reach(S) /\ Reach(S) \subseteq Things
         /\ \A x \in Reach(S) : Edges(x) \subseteq Reach(S)
         /\ \A C \in SUBSET Things :
              S \subseteq C /\ (\A x \in C : Edges(x) \subseteq C) => Reach(S) \subseteq C
<1>1. GraphNow \in EdgeSets /\ Reach(S) = ReachIn(GraphNow, S) /\ IsFiniteSet(Things)
  BY GraphType DEF Reach, GraphNow, GcAssumption
<1>2. \A x \in Things : GraphNow[x] = Edges(x)
  BY DEF GraphNow
<1>3. S \subseteq Reach(S) /\ Reach(S) \subseteq Things /\ Closed(GraphNow, Reach(S))
  BY <1>1, ReachIsLeast
<1>4. \A C : S \subseteq C /\ Closed(GraphNow, C) => Reach(S) \subseteq C
  BY <1>1, ReachIsLeast
<1>5. \A x \in Reach(S) : Edges(x) \subseteq Reach(S)
  BY <1>2, <1>3 DEF Closed
<1>6. ASSUME NEW C \in SUBSET Things, S \subseteq C, \A x \in C : Edges(x) \subseteq C
      PROVE  Reach(S) \subseteq C
  <2>1. Closed(GraphNow, C)
    BY <1>2, <1>6 DEF Closed
  <2> QED
    BY <1>4, <1>6, <2>1
<1> QED
  BY <1>3, <1>5, <1>6

LEMMA RootsAreThings ==
  ASSUME GcAssumption, GcInv
  PROVE  /\ Roots \in SUBSET Things /\ Unreached \in SUBSET Things
         /\ Roots \subseteq Objects /\ Unreached \subseteq Objects
<1>1. Roots \subseteq heap /\ heap \subseteq Objects
  BY RootsExist DEF GcInv, GcTypeOK
<1> QED
  BY <1>1 DEF Unreached, Things

\* Whatever is marked when nothing is left to trace has all that can be reached.
LEMMA MarksAll ==
  ASSUME GcAssumption, GcInv, phase # "run", todo = {}, NEW S \in SUBSET Objects,
         S \subseteq Reached
  PROVE  Reach(S) \cap Objects \subseteq keep
<1>1. Reached = keep \cup gcMark /\ gcMark \cap Objects = {} /\ keep \subseteq Objects
      /\ gcMark \subseteq Loaders
  BY DEF Reached, GcInv, GcTypeOK, GcAssumption
<1>2. keep \cup gcMark \in SUBSET Things /\ S \in SUBSET Things
  BY <1>1 DEF Things
<1>3. ASSUME NEW x \in keep \cup gcMark PROVE Edges(x) \subseteq keep \cup gcMark
  <2>1. CASE x \in keep
    <3>1. Follows(x) \subseteq Reached /\ LoadersOf(x) \subseteq gcMark /\ x \in Objects
      BY <1>1, <2>1 DEF GcInv, Marking
    <3> QED
      BY <1>1, <3>1 DEF Edges
  <2>2. CASE x \in gcMark
    <3>1. LoaderRefs(x) \subseteq Reached /\ x \notin Objects
      BY <1>1, <2>2 DEF GcInv, Marking
    <3> QED
      BY <1>1, <3>1 DEF Edges
  <2> QED
    BY <2>1, <2>2
<1>4. Reach(S) \subseteq keep \cup gcMark
  <2>1. GcTypeOK
    BY DEF GcInv
  <2> QED
    BY <1>1, <1>2, <1>3, <2>1, ReachNow
<1> QED
  BY <1>1, <1>4

\* The end of the first trace.
LEMMA LiveExactly ==
  ASSUME GcAssumption, GcInv, MarksOnlyReached, phase = "live", todo = {}
  PROVE  live = Reach(Roots) \cap Objects
<1>1. Roots \subseteq Reached /\ live = keep /\ keep \subseteq Objects
  BY DEF GcInv, Marking, MarksOnlyReached, GcTypeOK
<1>2. Reach(Roots) \cap Objects \subseteq keep
  BY <1>1, MarksAll, RootsAreThings
<1>3. keep \subseteq Reach(Roots)
  BY DEF MarksOnlyReached, Reached
<1> QED
  BY <1>1, <1>2, <1>3

LEMMA ExactlyByInv == ASSUME GcAssumption, GcInv, MarksOnlyReached PROVE MarksExactly
<1>1. ASSUME phase = "keep", todo = {}
      PROVE  keep = Reach(Roots \cup {o \in heap : o \in finalize /\ o \notin Reach(Roots)}) \cap Objects
  <2>1. live = Reach(Roots) \cap Objects /\ Reached \subseteq Reach(Roots \cup Unreached)
    BY <1>1 DEF MarksOnlyReached
  <2>2. {o \in heap : o \in finalize /\ o \notin Reach(Roots)} = Unreached
    <3>1. heap \subseteq Objects
      BY DEF GcInv, GcTypeOK
    <3> QED
      BY <2>1, <3>1 DEF Unreached
  <2>3. Roots \cup Unreached \subseteq Reached
    BY <1>1 DEF GcInv, Marking
  <2>4. Reach(Roots \cup Unreached) \cap Objects \subseteq keep
    BY <1>1, <2>3, MarksAll, RootsAreThings
  <2>5. keep \subseteq Reach(Roots \cup Unreached) /\ keep \subseteq Objects
    BY <2>1 DEF Reached, GcInv, GcTypeOK
  <2>6. keep = Reach(Roots \cup Unreached) \cap Objects
    BY <2>4, <2>5
  <2> QED
    BY <2>2, <2>6
<1> QED
  BY <1>1, LiveExactly DEF MarksExactly

\* A collection leaves the graph, the roots and the finalizable objects alone.
LEMMA ReachStays ==
  ASSUME UNCHANGED <<graph, stack, finalize, soft, final>>
  PROVE  /\ Roots' = Roots /\ Reach(Roots)' = Reach(Roots)
         /\ live' = live => Unreached' = Unreached /\
              Reach(Roots \cup Unreached)' = Reach(Roots \cup Unreached)
<1>1. GraphNow' = GraphNow
  BY DEF GraphNow, Edges, Follows, LoadersOf, LoaderRefs, graph
<1>2. Roots' = Roots
  BY DEF Roots, Locate, graph
<1>3. live' = live => Unreached' = Unreached
  BY DEF Unreached, graph
<1> QED
  BY <1>1, <1>2, <1>3 DEF Reach, GraphNow

\* A reference that is traced leads to what it reaches.
LEMMA TraceReaches ==
  ASSUME GcAssumption, GcInv, Trace, NEW S \in SUBSET Things, Reached \subseteq Reach(S)
  PROVE  Reached' \subseteq Reach(S)
<1>1. PICK x \in todo :
        IF x \in keep THEN todo' = todo \ {x} /\ UNCHANGED <<keep, live, gcMark>>
        ELSE /\ todo' = (todo \ {x}) \cup Pushes(x)
             /\ gcMark' = gcMark \cup Marks(x)
             /\ keep' = keep \cup ({x} \cap Objects)
  BY DEF Trace
<1>2. CASE x \in keep
  BY <1>1, <1>2 DEF Reached
<1>3. CASE x \notin keep
  <2>1. x \in Reach(S)
    BY DEF Reached
  <2>2. GcTypeOK
    BY DEF GcInv
  <2>3. \A y \in Reach(S) : Edges(y) \subseteq Reach(S)
    BY <2>2, ReachNow
  <2>4. Marks(x) \subseteq Reach(S) /\ \A l \in Marks(x) : l \notin Objects
    <3>1. CASE x \in Objects
      <4>1. Marks(x) \subseteq LoadersOf(x) /\ LoadersOf(x) \subseteq Edges(x)
        BY <3>1 DEF Marks, Edges
      <4>2. LoadersOf(x) \cap Objects = {}
        BY <2>2, <3>1 DEF LoadersOf, GcTypeOK, GcAssumption
      <4> QED
        BY <2>1, <2>3, <4>1, <4>2
    <3>2. CASE x \notin Objects
      BY <2>1, <3>2 DEF Marks
    <3> QED
      BY <3>1, <3>2
  <2>5. Pushes(x) \subseteq Reach(S)
    <3>1. ASSUME NEW l \in Marks(x) PROVE LoaderRefs(l) \subseteq Reach(S)
      <4>1. l \in Reach(S) /\ LoaderRefs(l) = Edges(l)
        BY <2>4 DEF Edges
      <4> QED
        BY <2>3, <4>1
    <3>2. x \in Objects => Follows(x) \subseteq Reach(S)
      BY <2>1, <2>3 DEF Edges
    <3> QED
      BY <3>1, <3>2 DEF Pushes
  <2> QED
    BY <1>1, <1>3, <2>1, <2>4, <2>5 DEF Reached
<1> QED
  BY <1>2, <1>3

LEMMA TraceMarksOnlyReached ==
  ASSUME GcAssumption, GcInv, MarksOnlyReached, Trace PROVE MarksOnlyReached'
<1>1. UNCHANGED <<graph, stack, finalize, soft, final>> /\ phase' = phase
  BY DEF Trace
<1>2. CASE phase = "live"
  <2>1. live = keep /\ Reached \subseteq Reach(Roots)
    BY <1>2 DEF MarksOnlyReached
  <2>2. live' = keep'
    BY <1>2, <2>1 DEF Trace
  <2>3. Reached' \subseteq Reach(Roots)
    BY <2>1, TraceReaches, RootsAreThings
  <2> QED
    BY <1>1, <1>2, <2>2, <2>3, ReachStays DEF MarksOnlyReached
<1>3. CASE phase = "keep"
  <2>1. live = Reach(Roots) \cap Objects /\ Reached \subseteq Reach(Roots \cup Unreached)
    BY <1>3 DEF MarksOnlyReached
  <2>2. live' = live
    BY <1>3 DEF Trace, GcInv, GcTypeOK
  <2>3. Reached' \subseteq Reach(Roots \cup Unreached)
    BY <2>1, TraceReaches, RootsAreThings
  <2> QED
    <3>1. phase' = "keep" /\ phase' # "live"
      BY <1>1, <1>3
    <3>2. live' = Reach(Roots)' \cap Objects
      BY <1>1, <2>1, <2>2, ReachStays
    <3>3. Reached' \subseteq Reach(Roots \cup Unreached)'
      BY <1>1, <2>2, <2>3, ReachStays
    <3> QED
      BY <3>1, <3>2, <3>3 DEF MarksOnlyReached
<1> QED
  BY <1>1, <1>2, <1>3 DEF Trace

LEMMA SecondTraceMarksOnlyReached ==
  ASSUME GcAssumption, GcInv, MarksOnlyReached, TraceFinalizable PROVE MarksOnlyReached'
<1>1. /\ phase = "live" /\ todo = {} /\ phase' = "keep" /\ todo' = Unreached
      /\ UNCHANGED <<graph, stack, finalize, soft, final>> /\ UNCHANGED <<live, keep, gcMark>>
  BY DEF TraceFinalizable, bits
<1>2. live = Reach(Roots) \cap Objects /\ Reached \subseteq Reach(Roots)
  BY <1>1, LiveExactly DEF MarksOnlyReached
<1>3. Roots \cup Unreached \subseteq Reach(Roots \cup Unreached)
      /\ Reach(Roots) \subseteq Reach(Roots \cup Unreached)
  <2>1. GcTypeOK /\ Roots \in SUBSET Things /\ Roots \cup Unreached \in SUBSET Things
    BY RootsAreThings DEF GcInv
  <2> DEFINE C == Reach(Roots \cup Unreached)
  <2>2. Roots \cup Unreached \subseteq C /\ C \in SUBSET Things /\ \A x \in C : Edges(x) \subseteq C
    BY <2>1, ReachNow
  <2> HIDE DEF C
  <2>3. Reach(Roots) \subseteq C
    BY <2>1, <2>2, ReachNow
  <2> QED
    BY <2>2, <2>3 DEF C
<1>4. Reached' \subseteq Reach(Roots \cup Unreached)
  BY <1>1, <1>2, <1>3 DEF Reached
<1> QED
  BY <1>1, <1>2, <1>4, ReachStays DEF MarksOnlyReached

LEMMA StartMarksOnlyReached ==
  ASSUME GcAssumption, GcInv, StartGc PROVE MarksOnlyReached'
<1>1. phase' = "live" /\ live' = {} /\ keep' = {} /\ gcMark' = {} /\ todo' = Roots
  BY DEF StartGc
<1>2. Roots' = Roots
  BY DEF StartGc, Roots, Locate, graph
<1>3. GcInv'
  BY StartGcInv
<1>4. GraphNow' \in EdgeSets
  <2>1. GcTypeOK'
    BY <1>3 DEF GcInv
  <2>2. fields' = fields /\ statics' = statics /\ loaders' = loaders /\ referent' = referent
    BY DEF StartGc, graph
  <2>3. ASSUME NEW x \in Things PROVE Edges(x)' \subseteq Things
    <3>1. CASE x \in Objects
      <4>1. Follows(x)' \subseteq Things
        BY <2>1, <3>1 DEF Follows, GcTypeOK
      <4>2. LoadersOf(x)' \subseteq Things
        BY <2>1, <3>1 DEF LoadersOf, GcTypeOK, GcAssumption, Things
      <4> QED
        BY <3>1, <4>1, <4>2 DEF Edges
    <3>2. CASE x \in Loaders /\ x \notin Objects
      BY <2>1, <3>2 DEF Edges, LoaderRefs, GcTypeOK, GcAssumption, Things
    <3> QED
      BY <3>1, <3>2 DEF Things
  <2> QED
    BY <2>3 DEF GraphNow, EdgeSets
<1>5. Roots \subseteq ReachIn(GraphNow', Roots)
  BY <1>4, ReachIsLeast, RootsAreThings DEF GcAssumption
<1>6. Roots' \subseteq Reach(Roots)'
  BY <1>2, <1>5 DEF Reach, GraphNow
<1> QED
  BY <1>1, <1>2, <1>6 DEF MarksOnlyReached, Reached

LEMMA NextMarksOnlyReached ==
  ASSUME GcAssumption, GcInv, MarksOnlyReached, [GcNext]_gcvars PROVE MarksOnlyReached'
<1>1. CASE Sweep \/ FailGc \/ StartFinalizer \/ Visit \/ Enqueue \/ Finalize \/ EndFinalizer
           \/ Load \/ Forget \/ Store
  <2>1. phase' = "run"
    BY <1>1 DEF Sweep, FailGc, StartFinalizer, Visit, Enqueue, Finalize, EndFinalizer, Load, Forget, Store
  <2> QED
    BY <2>1 DEF MarksOnlyReached
<1>2. CASE UNCHANGED gcvars
  <2>1. UNCHANGED <<graph, stack, finalize, soft, final>> /\ UNCHANGED <<live, keep, gcMark, todo, phase>>
    BY <1>2 DEF gcvars, bits
  <2>2. Reached' = Reached
    BY <2>1 DEF Reached
  <2>3. Reach(Roots)' = Reach(Roots) /\ Reach(Roots \cup Unreached)' = Reach(Roots \cup Unreached)
    BY <2>1, ReachStays
  <2>4. phase' = "live" => live' = keep' /\ Reached' \subseteq Reach(Roots)'
    BY <2>1, <2>2, <2>3 DEF MarksOnlyReached
  <2>5. phase' = "keep" => live' = Reach(Roots)' \cap Objects
                             /\ Reached' \subseteq Reach(Roots \cup Unreached)'
    BY <2>1, <2>2, <2>3 DEF MarksOnlyReached
  <2> QED
    BY <2>4, <2>5 DEF MarksOnlyReached
<1> QED
  BY <1>1, <1>2, TraceMarksOnlyReached, SecondTraceMarksOnlyReached, StartMarksOnlyReached DEF GcNext

\* When gc_trace() is through with the roots, exactly the objects that can be reached from
\* them are live, and when it is through with the finalizable ones, exactly those that can
\* be reached from either are kept: by induction over the references of a graph of any size.
THEOREM Exactness == ASSUME GcAssumption, NoClassReferents PROVE GcSpec => []MarksExactly
<1>1. GcInit => GcInv /\ MarksOnlyReached
  BY GcInitInv DEF GcInit, MarksOnlyReached
<1>2. GcInv /\ MarksOnlyReached /\ [GcNext]_gcvars => (GcInv /\ MarksOnlyReached)'
  BY NextInv, NextMarksOnlyReached
<1>3. GcInv /\ MarksOnlyReached => MarksExactly
  BY ExactlyByInv
<1> QED
  BY <1>1, <1>2, <1>3, PTL DEF GcSpec

-----------------------------------------------------------------------------
(* World *)

USE DEF Java, NonJava, Status, HaltPoints, StopperPcs, InJavaPcs, NativePcs,
        Pcs

-----------------------------------------------------------------------------
(* Counting the threads that still have to halt *)

LEMMA HaltingFinite ==
  ASSUME WorldAssumption, TypeOK
  PROVE  IsFiniteSet(Halting) /\ Cardinality(Halting) \in Nat
<1>1. Halting \subseteq Threads
  BY DEF Halting, TypeOK
<1>2. IsFiniteSet(Halting)
  BY <1>1, FS_Subset DEF WorldAssumption
<1> QED
  BY <1>2, FS_CardinalityType

\* The stopper is not told that all have halted before they have.
LEMMA NoneLeft ==
  ASSUME WorldAssumption, TypeOK, NoHaltMissed, pendingHaltCount = 0
  PROVE  Halting = {}
<1>1. Cardinality(Halting) = 0
  BY HaltingFinite DEF NoHaltMissed, TypeOK
<1> QED
  BY <1>1, HaltingFinite, FS_EmptySet

\* _jc_halt_if_requested() asserts that the count it decrements is positive.
LEMMA HaltPending ==
  ASSUME WorldAssumption, TypeOK, NoHaltMissed, Halting # {}
  PROVE  pendingHaltCount > 0
<1>1. Cardinality(Halting) # 0
  BY HaltingFinite, FS_EmptySet
<1> QED
  BY <1>1, HaltingFinite DEF NoHaltMissed, TypeOK

-----------------------------------------------------------------------------
(* Every step keeps the phases of a stop in order *)

LEMMA InitIInv == ASSUME WorldAssumption, Init PROVE IInv
<1>1. Halting = {}
  BY DEF Init, Halting
<1>2. NoHaltMissed
  BY <1>1, FS_EmptySet DEF Init, NoHaltMissed
<1>3. PhaseInv
  BY DEF WorldAssumption, Init, PhaseInv, TypeOK, PcStatus, ParentOfBorn,
         MutexHeld, AtMostOneStopper, Idle, Stoppers, Stopping, Stopped
<1>4. FreeStatus
  BY DEF Init, FreeStatus
<1> QED
  BY <1>2, <1>3, <1>4 DEF IInv

\* Unless a stopper waits for a thread that never halts, what is on the free
\* list may be used as it is.
LEMMA FreeRunning ==
  ASSUME WorldAssumption, IInv,
         \/ pendingHaltCount = 0
         \/ \A s \in Threads : pc[s] \notin {"awaitHalt", "signalled"}
  PROVE  \A t \in Threads \ alive : status[t] = "RUNNING_NORMAL"
<1> SUFFICES ASSUME NEW t \in Threads \ alive, status[t] # "RUNNING_NORMAL"
             PROVE  FALSE
  OBVIOUS
<1>1. pc[t] = "out"
  BY DEF IInv, PhaseInv, PcStatus
<1>2. /\ status[t] = "HALTING_NORMAL"
      /\ \E s \in Threads : pc[s] \in {"awaitHalt", "signalled"}
  BY <1>1 DEF IInv, FreeStatus
<1>3. pendingHaltCount > 0
  BY <1>2, HaltPending DEF IInv, PhaseInv, Halting
<1> QED
  BY <1>2, <1>3

\* Nobody stops the world if a thread with vm->mutex runs on.
LEMMA AloneNoStopper ==
  ASSUME WorldAssumption, IInv, NEW t \in Threads, t \in alive,
         MutexFree, status[t] = "RUNNING_NORMAL", pc[t] \notin StopperPcs
  PROVE  \A s \in Threads : pc[s] \notin StopperPcs
BY DEF IInv, PhaseInv, MutexHeld, MutexFree, Stopping, Stopped, WorldAssumption

\* A thread that halts was counted, so the count stays a natural number, and
\* it is only the last one that lets the stopper go on.
LEMMA HaltPhase ==
  ASSUME WorldAssumption, IInv, NEW t \in Threads, NEW l \in HaltPoints,
         t \in alive, pc[t] \in HaltPoints \cup InJavaPcs,
         MutexFree, HaltSelf(t), pc' = AfterHalt(t, l),
         target' \in [Threads -> Threads \cup {NoThread}],
         \A s \in Threads \ {t} : target'[s] = target[s],
         pc[t] # "starting", pc[t] # "born",
         UNCHANGED <<alive, suspended, toVisit, worldStopped, mutex>>
  PROVE  PhaseInv'
<1> USE DEF IInv, PhaseInv
<1>1. pendingHaltCount > 0
  BY HaltPending DEF Halting, HaltSelf
<1>2. /\ status' = [status EXCEPT ![t] = "HALTED"]
      /\ pendingHaltCount' = pendingHaltCount - 1
      /\ status[t] = "HALTING_NORMAL"
  BY DEF HaltSelf, SetStatus
<1>3. pc' = [u \in Threads |->
               IF u = t THEN l
               ELSE IF pc[u] = "awaitHalt" /\ pendingHaltCount = 1
                    THEN "signalled" ELSE pc[u]]
  BY DEF AfterHalt
<1>4. TypeOK'
  BY <1>1, <1>2, <1>3 DEF TypeOK
<1>5. PcStatus' /\ ParentOfBorn' /\ AtMostOneStopper'
  BY <1>2, <1>3 DEF TypeOK, PcStatus, ParentOfBorn, AtMostOneStopper
<1>6. MutexHeld'
  BY <1>2, <1>3 DEF TypeOK, MutexHeld, MutexFree
<1>7. Idle' /\ \A x \in Threads : (Stopping(x) /\ Stopped(x))'
  BY <1>1, <1>2, <1>3
     DEF TypeOK, MutexHeld, MutexFree, Idle, Stoppers, Stopping, Stopped,
         WorldAssumption
<1> QED
  BY <1>4, <1>5, <1>6, <1>7

\* The world is declared stopped only with nobody left to halt.
LEMMA AwaitHaltedPhase ==
  ASSUME WorldAssumption, IInv, NEW t \in Threads, AwaitHalted(t)
  PROVE  PhaseInv'
<1> USE DEF IInv, PhaseInv, AwaitHalted, Goto
<1>1. TypeOK'
  <2>1. worldStopped' \in BOOLEAN
    BY Zenon DEF TypeOK
  <2> QED
    BY <2>1 DEF TypeOK
<1>0. PcStatus' /\ ParentOfBorn' /\ AtMostOneStopper'
  BY DEF TypeOK, PcStatus, ParentOfBorn, AtMostOneStopper
<1>2. MutexHeld' /\ Idle'
  BY DEF TypeOK, MutexHeld, MutexFree, Idle, Stoppers, AtMostOneStopper,
         WorldAssumption
<1>3. ASSUME NEW x \in Threads PROVE (Stopping(x) /\ Stopped(x))'
  <2>1. CASE x # t
    BY <2>1 DEF TypeOK, AtMostOneStopper, Stopping, Stopped
  <2>2. CASE x = t /\ pendingHaltCount > 0
    BY <2>2 DEF TypeOK, Stopping, Stopped
  <2>3. CASE x = t /\ pendingHaltCount = 0
    <3>1. Halting = {}
      BY <2>3, NoneLeft
    <3>2. \A u \in alive \ {t} : status[u] \in {"HALTED", "HALTING_NONJAVA"}
      BY <3>1 DEF Halting, Stopping, TypeOK
    <3> QED
      BY <2>3, <3>2 DEF TypeOK, Stopping, Stopped
  <2> QED
    BY <2>1, <2>2, <2>3 DEF TypeOK
<1> QED
  BY <1>0, <1>1, <1>2, <1>3

LEMMA UseStoppedWorldPhase ==
  ASSUME WorldAssumption, IInv, NEW t \in Threads, UseStoppedWorld(t)
  PROVE  PhaseInv'
<1> USE DEF IInv, PhaseInv, UseStoppedWorld, Goto
<1>1. TypeOK'
  <2>1. suspended' \in [Threads -> BOOLEAN]
    BY Zenon DEF TypeOK
  <2>2. pc' \in [Threads -> Pcs] /\ toVisit' \subseteq alive'
    BY DEF TypeOK
  <2> QED
    BY <2>1, <2>2 DEF TypeOK
<1>0. PcStatus' /\ ParentOfBorn' /\ AtMostOneStopper'
  BY DEF TypeOK, PcStatus, ParentOfBorn, AtMostOneStopper
<1>2. MutexHeld' /\ Idle'
  BY DEF TypeOK, MutexHeld, MutexFree, Idle, Stoppers, AtMostOneStopper,
         WorldAssumption
<1>3. ASSUME NEW x \in Threads PROVE (Stopping(x) /\ Stopped(x))'
  BY DEF TypeOK, AtMostOneStopper, Stopping, Stopped
<1> QED
  BY <1>0, <1>1, <1>2, <1>3

LEMMA ResumeTheWorldPhase ==
  ASSUME WorldAssumption, IInv, NEW t \in Threads, ResumeTheWorld(t)
  PROVE  PhaseInv'
<1> USE DEF IInv, PhaseInv, ResumeTheWorld, Goto
<1>1. TypeOK'
  <2>1. worldStopped' \in BOOLEAN
    BY Zenon DEF TypeOK
  <2> QED
    BY <2>1 DEF TypeOK
<1>0. PcStatus' /\ ParentOfBorn' /\ AtMostOneStopper'
  BY DEF TypeOK, PcStatus, ParentOfBorn, AtMostOneStopper
<1>2. MutexHeld'
  BY DEF TypeOK, MutexHeld, AtMostOneStopper, WorldAssumption
<1>3. Idle'
  BY DEF TypeOK, PcStatus, Idle, Stopped, AtMostOneStopper, Stoppers
<1>4. ASSUME NEW x \in Threads PROVE (Stopping(x) /\ Stopped(x))'
  BY DEF TypeOK, AtMostOneStopper, Stopping, Stopped
<1> QED
  BY <1>0, <1>1, <1>2, <1>3, <1>4

LEMMA HaltActionPhase ==
  ASSUME WorldAssumption, IInv, NEW t \in Threads, Halt(t)
  PROVE  PhaseInv'
<1>1. /\ t \in alive
      /\ pc[t] \in HaltPoints
      /\ pc[t] # "starting" /\ pc[t] # "born"
  BY DEF Halt, IInv, PhaseInv, PcStatus
<1>2. target' \in [Threads -> Threads \cup {NoThread}] /\ target' = target
  BY DEF Halt, IInv, PhaseInv, TypeOK
<1>3. PICK l \in HaltPoints : l = pc[t]
  BY <1>1
<1> HIDE DEF HaltPoints
<1> QED
  BY <1>1, <1>2, <1>3, HaltPhase DEF Halt

LEMMA SuspendPhase ==
  ASSUME WorldAssumption, IInv, NEW t \in Threads, NEW u \in Threads,
         Suspend(t, u)
  PROVE  PhaseInv'
<1>1. CASE status[t] = "RUNNING_NORMAL" /\ StartMarking(t)
  BY <1>1
     DEF Suspend, IInv, PhaseInv, TypeOK, PcStatus, ParentOfBorn, MutexHeld,
         AtMostOneStopper, Idle, Stopping, Stopped, Stoppers, Goto,
         MutexFree, StartMarking, HaltSelf, WorldAssumption
<1>2. CASE HaltSelf(t)
  <2>1. /\ t \in alive
        /\ target' \in [Threads -> Threads \cup {NoThread}]
        /\ \A s \in Threads \ {t} : target'[s] = target[s]
    BY DEF Suspend, IInv, PhaseInv, PcStatus, TypeOK
  <2>2. /\ pc' = AfterHalt(t, "suspend")
        /\ UNCHANGED <<alive, suspended, toVisit, worldStopped, mutex>>
    BY <1>2 DEF Suspend, HaltSelf
  <2> QED
    BY <1>2, <2>1, <2>2, HaltPhase DEF Suspend
<1> QED
  BY <1>1, <1>2 DEF Suspend

\* The structure that start() gives up keeps its state, or is destroyed.
LEMMA FailStartIs ==
  ASSUME TypeOK, NEW t \in Threads, FailStart(t), target[t] \in Threads
  PROVE  /\ status' \in [Threads -> Status] /\ suspended' \in [Threads -> BOOLEAN]
         /\ \A u \in Threads : u # target[t] => status'[u] = status[u]
         /\ status'[target[t]] \in {status[target[t]], "RUNNING_NORMAL"}
<1>1. CASE UNCHANGED <<status, suspended>>
  BY <1>1 DEF TypeOK
<1>2. CASE /\ SetStatus(target[t], "RUNNING_NORMAL")
           /\ suspended' = [suspended EXCEPT ![target[t]] = FALSE]
  <2>1. suspended' \in [Threads -> BOOLEAN]
    BY <1>2, Zenon DEF TypeOK
  <2> QED
    BY <1>2, <2>1 DEF SetStatus, TypeOK
<1> QED
  BY <1>1, <1>2 DEF FailStart

\* Every step of every thread, one case per action.
LEMMA PhaseStep ==
  ASSUME WorldAssumption, HandOff, IInv, Next
  PROVE  PhaseInv'
<1> USE DEF IInv, PhaseInv, TypeOK, PcStatus, ParentOfBorn, MutexHeld,
            AtMostOneStopper, Idle, Stopping, Stopped, Stoppers,
            Goto, SetStatus, MutexFree, PastHalt, StartMarking
<1> SUFFICES ASSUME NEW t \in Threads, Progress(t) \/ Choice(t)
             PROVE  PhaseInv'
  BY DEF Next
<1>1. CASE ThreadCheck(t)
  BY <1>1 DEF ThreadCheck
<1>2. CASE CheckHalted(t)
  BY <1>2 DEF CheckHalted
<1>3. CASE CheckSuspended(t)
  BY <1>3 DEF CheckSuspended
<1>4. CASE Halt(t)
  BY <1>4, HaltActionPhase
<1>5. CASE Unsuspend(t)
  BY <1>5 DEF Unsuspend
<1>6. CASE StoppingJava(t)
  BY <1>6 DEF StoppingJava
<1>7. CASE StoppingJavaHalted(t)
  BY <1>7 DEF StoppingJavaHalted
<1>8. CASE ResumingJava(t)
  BY <1>8 DEF ResumingJava
<1>9. CASE ResumingJavaRestarted(t)
  BY <1>9 DEF ResumingJavaRestarted
<1>10. CASE Call(t)
  BY <1>10 DEF Call
<1>11. CASE AllocateThread(t)
  <2>1. \A s \in Threads : pc[s] \notin StopperPcs
    BY <1>11, AloneNoStopper DEF AllocateThread
  <2>2. \A c \in Threads \ alive : status[c] = "RUNNING_NORMAL"
    BY <2>1, FreeRunning
  <2> QED
    BY <1>11, <2>1, <2>2 DEF AllocateThread, WorldAssumption
<1>12. CASE StartThread(t)
  BY <1>12 DEF StartThread
<1>13. CASE FailStart(t)
  <2>1. target[t] \in Threads /\ pc[target[t]] = "born"
    BY <1>13 DEF FailStart
  <2>2. /\ status' \in [Threads -> Status] /\ suspended' \in [Threads -> BOOLEAN]
        /\ \A u \in Threads : u # target[t] => status'[u] = status[u]
    BY <1>13, <2>1, FailStartIs
  <2>3. /\ pc[t] = "starting" /\ mutex = NoThread /\ alive' = alive \ {target[t]}
        /\ pc' = [pc EXCEPT ![t] = "java", ![target[t]] = "out"]
        /\ target' = [target EXCEPT ![t] = NoThread]
        /\ UNCHANGED <<toVisit, pendingHaltCount, worldStopped, mutex>>
    BY <1>13 DEF FailStart
  <2> QED
    BY <2>1, <2>2, <2>3 DEF WorldAssumption
<1>14. CASE AttachThread(t)
  <2>1. pendingHaltCount = 0 => status[t] = "RUNNING_NORMAL"
    BY <1>14, FreeRunning DEF AttachThread
  <2> QED
    BY <1>14, <2>1 DEF AttachThread, StopperSignalled, WorldAssumption
<1>15. CASE AttachRestarted(t)
  BY <1>15 DEF AttachRestarted
<1>16. CASE DetachThread(t)
  BY <1>16 DEF DetachThread
<1>17. ASSUME NEW u \in Threads, Suspend(t, u) PROVE PhaseInv'
  BY <1>17, SuspendPhase
<1>18. CASE StopTheWorld(t)
  BY <1>18 DEF StopTheWorld, WorldAssumption
<1>19. ASSUME NEW u \in Threads, MarkThread(t, u) PROVE PhaseInv'
  BY <1>19 DEF MarkThread
<1>20. CASE AwaitHalted(t)
  BY <1>20, AwaitHaltedPhase
<1>21. CASE SpuriousWakeup(t)
  BY <1>21 DEF SpuriousWakeup
<1>22. CASE UseStoppedWorld(t)
  BY <1>22, UseStoppedWorldPhase
<1>23. ASSUME NEW u \in Threads, ResumeThread(t, u) PROVE PhaseInv'
  BY <1>23 DEF ResumeThread
<1>24. CASE ResumeTheWorld(t)
  BY <1>24, ResumeTheWorldPhase
<1>25. ASSUME NEW u \in Threads, Resume(t, u) PROVE PhaseInv'
  BY <1>25 DEF Resume
<1> QED
  BY <1>1, <1>2, <1>3, <1>4, <1>5, <1>6, <1>7, <1>8, <1>9, <1>10, <1>11,
     <1>12, <1>13, <1>14, <1>15, <1>16, <1>17, <1>18, <1>19, <1>20,
     <1>21, <1>22, <1>23, <1>24, <1>25 DEF Progress, Choice

-----------------------------------------------------------------------------
(* The count follows the threads that still have to halt *)

\* A step that leaves every thread's status, and the threads, as they are.
LEMMA HaltingSame ==
  ASSUME UNCHANGED <<alive, status, pendingHaltCount>>
  PROVE  Halting' = Halting /\ pendingHaltCount' = pendingHaltCount
BY DEF Halting

CountKept == Halting' = Halting /\ pendingHaltCount' = pendingHaltCount
CountDown == \E t \in Halting : /\ Halting' = Halting \ {t}
                                /\ pendingHaltCount' = pendingHaltCount - 1
CountUp   == \E t \in Threads \ Halting :
                                /\ Halting' = Halting \cup {t}
                                /\ pendingHaltCount' = pendingHaltCount + 1

\* The child that start() gives up may have been asked to halt: it is the one
\* way to leave, for good or to be attached later, without being counted.
CountLost == /\ StartMayFail
             /\ Halting' \subseteq Halting
             /\ pendingHaltCount' = pendingHaltCount

LEMMA CountStep ==
  ASSUME WorldAssumption, IInv, Next
  PROVE  CountKept \/ CountDown \/ CountUp \/ CountLost
<1> SUFFICES ASSUME NEW t \in Threads, Progress(t) \/ Choice(t)
             PROVE  CountKept \/ CountDown \/ CountUp \/ CountLost
  BY DEF Next
<1> USE DEF IInv, PhaseInv, TypeOK, PcStatus
<1>1. CASE ThreadCheck(t)
  BY <1>1, HaltingSame DEF ThreadCheck, CountKept
<1>2. CASE CheckHalted(t)
  BY <1>2, HaltingSame DEF CheckHalted, CountKept
<1>3. CASE CheckSuspended(t)
  BY <1>3 DEF CheckSuspended, SetStatus, PastHalt, Halting, CountKept
<1>4. CASE Halt(t)
  BY <1>4 DEF Halt, HaltSelf, SetStatus, Halting, CountDown
<1>5. CASE Unsuspend(t)
  BY <1>5, HaltingSame DEF Unsuspend, CountKept
<1>6. CASE StoppingJava(t)
  BY <1>6 DEF StoppingJava, SetStatus, PastHalt, Halting, CountKept
<1>7. CASE StoppingJavaHalted(t)
  BY <1>7 DEF StoppingJavaHalted, SetStatus, PastHalt, Halting, CountKept
<1>8. CASE ResumingJava(t)
  BY <1>8 DEF ResumingJava, SetStatus, PastHalt, Halting, CountKept
<1>9. CASE ResumingJavaRestarted(t)
  BY <1>9 DEF ResumingJavaRestarted, SetStatus, PastHalt, Halting, CountKept
<1>10. CASE Call(t)
  BY <1>10, HaltingSame DEF Call, CountKept
<1>11. CASE AllocateThread(t)
  BY <1>11 DEF AllocateThread, PastHalt, Halting, CountKept
<1>12. CASE StartThread(t)
  BY <1>12, HaltingSame DEF StartThread, CountKept
<1>13. CASE FailStart(t)
  <2>1. target[t] \in Threads
    BY <1>13 DEF FailStart, ParentOfBorn
  <2> QED
    BY <1>13, <2>1, FailStartIs DEF FailStart, Halting, CountLost
<1>14. CASE AttachThread(t)
  <2>1. status[t] \in {"RUNNING_NORMAL", "HALTING_NORMAL"}
        /\ (status[t] = "HALTING_NORMAL" => StartMayFail)
    BY <1>14 DEF AttachThread, FreeStatus
  <2> QED
    BY <1>14, <2>1 DEF AttachThread, SetStatus, Halting, CountKept, CountLost
<1>15. CASE AttachRestarted(t)
  BY <1>15, HaltingSame DEF AttachRestarted, CountKept
<1>16. CASE DetachThread(t)
  BY <1>16 DEF DetachThread, PastHalt, Halting, CountKept
<1>17. ASSUME NEW u \in Threads, Suspend(t, u)
      PROVE  CountKept \/ CountDown \/ CountUp \/ CountLost
  BY <1>17 DEF Suspend, HaltSelf, SetStatus, Halting, CountDown, CountKept
<1>18. CASE StopTheWorld(t)
  BY <1>18, HaltingSame DEF StopTheWorld, CountKept
<1>19. ASSUME NEW u \in Threads, MarkThread(t, u)
      PROVE  CountKept \/ CountDown \/ CountUp \/ CountLost
  BY <1>19 DEF MarkThread, SetStatus, Halting, CountUp, CountKept
<1>20. CASE AwaitHalted(t)
  BY <1>20, HaltingSame DEF AwaitHalted, CountKept
<1>21. CASE SpuriousWakeup(t)
  BY <1>21, HaltingSame DEF SpuriousWakeup, CountKept
<1>22. CASE UseStoppedWorld(t)
  BY <1>22, HaltingSame DEF UseStoppedWorld, CountKept
<1>23. ASSUME NEW u \in Threads, ResumeThread(t, u)
      PROVE  CountKept \/ CountDown \/ CountUp \/ CountLost
  BY <1>23 DEF ResumeThread, SetStatus, PastHalt, Halting, CountKept
<1>24. CASE ResumeTheWorld(t)
  BY <1>24, HaltingSame DEF ResumeTheWorld, CountKept
<1>25. ASSUME NEW u \in Threads, Resume(t, u)
      PROVE  CountKept \/ CountDown \/ CountUp \/ CountLost
  BY <1>25, HaltingSame DEF Resume, CountKept
<1> QED
  BY <1>1, <1>2, <1>3, <1>4, <1>5, <1>6, <1>7, <1>8, <1>9, <1>10, <1>11,
     <1>12, <1>13, <1>14, <1>15, <1>16, <1>17, <1>18, <1>19, <1>20,
     <1>21, <1>22, <1>23, <1>24, <1>25 DEF Progress, Choice

LEMMA NoHaltMissedStep ==
  ASSUME WorldAssumption, IInv, PhaseInv', Next
  PROVE  NoHaltMissed'
<1>1. /\ IsFiniteSet(Halting) /\ Cardinality(Halting) \in Nat
      /\ pendingHaltCount \in Nat
      /\ pendingHaltCount >= Cardinality(Halting)
  BY HaltingFinite DEF IInv, PhaseInv, TypeOK, NoHaltMissed
<1>2. CASE CountKept
  BY <1>1, <1>2 DEF CountKept, NoHaltMissed
<1>3. CASE CountDown
  <2>1. PICK t \in Halting : /\ Halting' = Halting \ {t}
                             /\ pendingHaltCount' = pendingHaltCount - 1
    BY <1>3 DEF CountDown
  <2>2. Cardinality(Halting') = Cardinality(Halting) - 1
    BY <1>1, <2>1, FS_RemoveElement
  <2> QED
    BY <1>1, <2>1, <2>2 DEF NoHaltMissed
<1>4. CASE CountUp
  <2>1. PICK t \in Threads \ Halting :
          /\ Halting' = Halting \cup {t}
          /\ pendingHaltCount' = pendingHaltCount + 1
    BY <1>4 DEF CountUp
  <2>2. Cardinality(Halting') = Cardinality(Halting) + 1
    BY <1>1, <2>1, FS_AddElement
  <2> QED
    BY <1>1, <2>1, <2>2 DEF NoHaltMissed
<1>5. CASE CountLost
  <2>1. Cardinality(Halting') <= Cardinality(Halting)
        /\ Cardinality(Halting') \in Nat
    BY <1>1, <1>5, FS_Subset, FS_CardinalityType DEF CountLost
  <2> QED
    BY <1>1, <1>5, <2>1 DEF CountLost, NoHaltMissed
<1> QED
  BY <1>2, <1>3, <1>4, <1>5, CountStep

\* A structure leaves the free list, or comes to it, only in these steps.
LEMMA OutStep ==
  ASSUME WorldAssumption, IInv, Next, NEW x \in Threads, pc'[x] = "out"
  PROVE  \/ pc[x] = "out" /\ status'[x] = status[x]
         \/ status'[x] = "RUNNING_NORMAL"
         \/ /\ StartMayFail
            /\ pc[x] = "born"
            /\ status'[x] = status[x]
            /\ MutexFree
            /\ \A s \in Threads : pc[s] = "awaitHalt" \/ pc[s] = "signalled" => pc'[s] = pc[s]
<1> USE DEF IInv, PhaseInv, TypeOK, PcStatus
<1> PICK t \in Threads : Progress(t) \/ Choice(t)
  BY DEF Next
<1> USE DEF Goto, SetStatus, PastHalt
<1>1. CASE FailStart(t)
  BY <1>1 DEF FailStart, ParentOfBorn
<1>2. CASE AttachThread(t)
  BY <1>2 DEF AttachThread
<1>3. CASE DetachThread(t)
  BY <1>3 DEF DetachThread
<1>4. CASE AllocateThread(t)
  BY <1>4 DEF AllocateThread
<1>5. CASE StartThread(t)
  BY <1>5 DEF StartThread, ParentOfBorn
<1>6. CASE \/ ThreadCheck(t) \/ CheckHalted(t) \/ CheckSuspended(t)
           \/ Unsuspend(t) \/ StoppingJava(t) \/ StoppingJavaHalted(t)
           \/ ResumingJava(t) \/ ResumingJavaRestarted(t) \/ Call(t)
  BY <1>6 DEF ThreadCheck, CheckHalted, CheckSuspended, Unsuspend, StoppingJava,
       StoppingJavaHalted, ResumingJava, ResumingJavaRestarted, Call
<1>7. CASE Halt(t)
  BY <1>7 DEF Halt, HaltSelf, AfterHalt
<1>8. CASE \E u \in Threads : Suspend(t, u)
  BY <1>8 DEF Suspend, HaltSelf, AfterHalt, StartMarking
<1>9. CASE \E u \in Threads : MarkThread(t, u) \/ ResumeThread(t, u)
  BY <1>9 DEF MarkThread, ResumeThread
<1>10. CASE \/ StopTheWorld(t) \/ AwaitHalted(t) \/ SpuriousWakeup(t)
            \/ UseStoppedWorld(t) \/ ResumeTheWorld(t) \/ AttachRestarted(t)
            \/ \E u \in Threads : Resume(t, u)
  BY <1>10 DEF StopTheWorld, StartMarking, AwaitHalted, SpuriousWakeup,
       UseStoppedWorld, ResumeTheWorld, AttachRestarted, Resume
<1> QED
  BY <1>1, <1>2, <1>3, <1>4, <1>5, <1>6, <1>7, <1>8, <1>9, <1>10
     DEF Progress, Choice

\* A stopper that waits goes on only when nobody is left to halt.
LEMMA WaiterStep ==
  ASSUME WorldAssumption, IInv, Next, pendingHaltCount > 0,
         NEW s \in Threads, pc[s] \in {"awaitHalt", "signalled"}
  PROVE  pc'[s] \in {"awaitHalt", "signalled"}
<1> USE DEF IInv, PhaseInv, TypeOK, PcStatus
<1> PICK t \in Threads : Progress(t) \/ Choice(t)
  BY DEF Next
<1> USE DEF Goto, PastHalt
<1>1. CASE FailStart(t)
  BY <1>1 DEF FailStart, ParentOfBorn
<1>2. CASE AttachThread(t)
  BY <1>2 DEF AttachThread
<1>4. CASE AllocateThread(t)
  BY <1>4 DEF AllocateThread
<1>5. CASE StartThread(t)
  BY <1>5 DEF StartThread, ParentOfBorn
<1>6. CASE \/ ThreadCheck(t) \/ CheckHalted(t) \/ CheckSuspended(t)
           \/ Unsuspend(t) \/ StoppingJava(t) \/ StoppingJavaHalted(t)
           \/ ResumingJava(t) \/ ResumingJavaRestarted(t) \/ Call(t)
  BY <1>6 DEF ThreadCheck, CheckHalted, CheckSuspended, Unsuspend, StoppingJava,
       StoppingJavaHalted, ResumingJava, ResumingJavaRestarted, Call
<1>7. CASE Halt(t)
  BY <1>7 DEF Halt, AfterHalt
<1>8. CASE \E u \in Threads : Suspend(t, u)
  BY <1>8 DEF Suspend, AfterHalt, StartMarking
<1>9. CASE \E u \in Threads : MarkThread(t, u) \/ ResumeThread(t, u)
  BY <1>9 DEF MarkThread, ResumeThread
<1>10. CASE \/ StopTheWorld(t) \/ AwaitHalted(t) \/ SpuriousWakeup(t)
            \/ UseStoppedWorld(t) \/ ResumeTheWorld(t) \/ AttachRestarted(t)
            \/ DetachThread(t) \/ \E u \in Threads : Resume(t, u)
  BY <1>10 DEF StopTheWorld, StartMarking, AwaitHalted, SpuriousWakeup,
       UseStoppedWorld, ResumeTheWorld, AttachRestarted, DetachThread, Resume
<1> QED
  BY <1>1, <1>2, <1>4, <1>5, <1>6, <1>7, <1>8, <1>9, <1>10
     DEF Progress, Choice

\* A child asked to halt is asked by a stopper that has yet to see it halt.
LEMMA FreeStatusStep ==
  ASSUME WorldAssumption, IInv, Next
  PROVE  FreeStatus'
<1> SUFFICES ASSUME NEW x \in Threads, pc'[x] = "out", status'[x] # "RUNNING_NORMAL"
             PROVE  /\ StartMayFail
                    /\ status'[x] = "HALTING_NORMAL"
                    /\ \E s \in Threads : pc'[s] \in {"awaitHalt", "signalled"}
  BY DEF FreeStatus
<1>1. CASE pc[x] = "out" /\ status'[x] = status[x]
  <2>1. PICK s \in Threads : /\ StartMayFail
                             /\ status[x] = "HALTING_NORMAL"
                             /\ pc[s] \in {"awaitHalt", "signalled"}
    BY <1>1 DEF IInv, FreeStatus
  <2>2. pendingHaltCount > 0
    BY <2>1, HaltPending DEF IInv, PhaseInv, Halting
  <2> QED
    BY <1>1, <2>1, <2>2, WaiterStep
<1>2. CASE /\ StartMayFail
           /\ pc[x] = "born"
           /\ status'[x] = status[x]
           /\ MutexFree
           /\ \A s \in Threads : pc[s] = "awaitHalt" \/ pc[s] = "signalled" => pc'[s] = pc[s]
  <2>1. x \in alive /\ status[x] = "HALTING_NORMAL"
    BY <1>2 DEF IInv, PhaseInv, PcStatus
  <2>2. \E s \in Threads : pc[s] \in StopperPcs
    BY <2>1 DEF IInv, PhaseInv, Idle, Stoppers
  <2>3. PICK s \in Threads : pc[s] \in {"awaitHalt", "signalled"}
    BY <1>2, <2>1, <2>2
       DEF IInv, PhaseInv, MutexHeld, MutexFree, Stopped, WorldAssumption
  <2> QED
    BY <1>2, <2>1, <2>3
<1> QED
  BY <1>1, <1>2, OutStep

LEMMA StutterIInv == ASSUME IInv, UNCHANGED vars PROVE IInv'
BY DEF vars, IInv, PhaseInv, TypeOK, PcStatus, ParentOfBorn, MutexHeld,
       AtMostOneStopper, Idle, Stopping, Stopped, Stoppers, NoHaltMissed,
       FreeStatus, Halting

\* The inductive invariant holds of every behaviour of the protocol.
THEOREM Invariance ==
  ASSUME WorldAssumption, HandOff
  PROVE  Spec => []IInv
<1>1. Init => IInv
  BY InitIInv
<1>2. IInv /\ [Next]_vars => IInv'
  <2> SUFFICES ASSUME IInv, [Next]_vars PROVE IInv'
    OBVIOUS
  <2>1. CASE Next
    BY <2>1, PhaseStep, FreeStatusStep, NoHaltMissedStep DEF IInv
  <2>2. CASE UNCHANGED vars
    BY <2>2, StutterIInv
  <2> QED
    BY <2>1, <2>2
<1> QED
  BY <1>1, <1>2, PTL DEF Spec

-----------------------------------------------------------------------------
(* What the invariant gives *)

\* TypeOK holds always.
THEOREM TypeCorrect ==
  ASSUME WorldAssumption, HandOff
  PROVE  Spec => []TypeOK
<1>1. IInv => TypeOK
  BY DEF IInv, PhaseInv
<1> QED
  BY <1>1, Invariance, PTL

\* _jc_stop_the_world(): when a thread has the world stopped, no other thread
\* is in Java code, nor can return to it.
THEOREM StoppedSafe ==
  ASSUME WorldAssumption, HandOff
  PROVE  Spec => []WorldStoppedSafe
<1>1. IInv => WorldStoppedSafe
  BY DEF IInv, PhaseInv, Stopped, WorldStoppedSafe
<1> QED
  BY <1>1, Invariance, PTL

\* pending_halt_count covers every thread that was asked to halt and has not,
\* even if Thread.start() may fail.
THEOREM PendingCovers ==
  ASSUME WorldAssumption, HandOff
  PROVE  Spec => []NoHaltMissed
<1>1. IInv => NoHaltMissed
  BY DEF IInv
<1> QED
  BY <1>1, Invariance, PTL

\* The switches of _jc_stop_the_world() and _jc_resume_the_world() meet no
\* thread in a state they do not expect.
THEOREM SwitchesSafe ==
  ASSUME WorldAssumption, HandOff
  PROVE  Spec => []SwitchDefaultsUnreached
<1>1. IInv => SwitchDefaultsUnreached
  <2> SUFFICES ASSUME IInv, NEW t \in Threads, NEW u \in toVisit
               PROVE  /\ pc[t] = "mark" => status[u] \in {"RUNNING_NORMAL", "RUNNING_NONJAVA"}
                      /\ pc[t] = "resume" => status[u] \in {"HALTED", "HALTING_NONJAVA"}
    BY DEF SwitchDefaultsUnreached
  <2> QED
    BY DEF IInv, PhaseInv, TypeOK, Stopping, Stopped
<1> QED
  BY <1>1, Invariance, PTL

\* The assertions of _jc_stop_the_world(): a thread that gets past its own
\* halt finds no other stop in progress, and a count of zero.
THEOREM StopsExclude ==
  ASSUME WorldAssumption, HandOff
  PROVE  Spec => []OneStopper
<1>1. IInv /\ WorldAssumption => OneStopper
  <2> SUFFICES ASSUME IInv, WorldAssumption, NEW t \in Threads,
                      PastHalt(t, "gc") \/ PastHalt(t, "suspend")
               PROVE  Stoppers = {} /\ ~worldStopped /\ pendingHaltCount = 0
    BY DEF OneStopper
  <2>1. t \in alive /\ status[t] = "RUNNING_NORMAL" /\ mutex = NoThread
    BY DEF IInv, PhaseInv, PcStatus, PastHalt, MutexFree
  <2>2. ASSUME NEW s \in Threads, pc[s] \in StopperPcs PROVE FALSE
    BY <2>1, <2>2
       DEF IInv, PhaseInv, MutexHeld, Stopping, Stopped, PastHalt,
           WorldAssumption
  <2>3. Stoppers = {}
    BY <2>2 DEF Stoppers
  <2> QED
    BY <2>3 DEF IInv, PhaseInv, Idle
<1> QED
  BY <1>1, Invariance, PTL

\* No thread is let into Java code while another has the world stopped.
THEOREM NobodyEnters ==
  ASSUME WorldAssumption, HandOff
  PROVE  Spec => NoJavaWhileStopped
<1> DEFINE Entered(t, u) ==
       /\ t # u
       /\ pc[t] = "stopped"
       /\ t \in alive
       /\ u \in alive'
       /\ status'[u] = "RUNNING_NORMAL"
<1>1. ASSUME WorldAssumption, IInv, Next, NEW t \in Threads, NEW u \in Threads,
             Entered(t, u)
      PROVE  u \in alive /\ status[u] = "RUNNING_NORMAL"
  <2> USE <1>1 DEF IInv, PhaseInv, PcStatus, TypeOK, Stopped, AtMostOneStopper,
           MutexHeld, WorldAssumption
  <2>1. PICK s \in Threads : Progress(s) \/ Choice(s)
    BY DEF Next
  <2> USE DEF SetStatus, Goto, PastHalt, HaltSelf, MutexFree
  <2>2. CASE UNCHANGED <<alive, status>>
    BY <2>2
  <2>3. CASE CheckSuspended(s)
    BY <2>3 DEF CheckSuspended
  <2>4. CASE Halt(s)
    BY <2>4 DEF Halt
  <2>5. CASE StoppingJava(s)
    BY <2>5 DEF StoppingJava
  <2>6. CASE StoppingJavaHalted(s)
    BY <2>6 DEF StoppingJavaHalted
  <2>7. CASE ResumingJava(s)
    BY <2>7 DEF ResumingJava
  <2>8. CASE ResumingJavaRestarted(s)
    BY <2>8 DEF ResumingJavaRestarted
  <2>9. CASE AllocateThread(s)
    BY <2>9 DEF AllocateThread
  <2>10. CASE FailStart(s)
    BY <2>10 DEF FailStart, ParentOfBorn
  <2>11. CASE AttachThread(s)
    BY <2>11 DEF AttachThread
  <2>12. CASE DetachThread(s)
    BY <2>12 DEF DetachThread
  <2>13. CASE \E v \in Threads : Suspend(s, v)
    BY <2>13 DEF Suspend
  <2>14. CASE \E v \in Threads : MarkThread(s, v)
    BY <2>14 DEF MarkThread
  <2>15. CASE \E v \in Threads : ResumeThread(s, v)
    BY <2>15 DEF ResumeThread
  <2>16. CASE \/ ThreadCheck(s) \/ CheckHalted(s) \/ Unsuspend(s) \/ Call(s)
              \/ StartThread(s) \/ AttachRestarted(s) \/ StopTheWorld(s)
              \/ AwaitHalted(s) \/ SpuriousWakeup(s) \/ UseStoppedWorld(s)
              \/ ResumeTheWorld(s) \/ \E v \in Threads : Resume(s, v)
    <3>1. UNCHANGED <<alive, status>>
      BY <2>16 DEF ThreadCheck, CheckHalted, Unsuspend, Call, StartThread,
           AttachRestarted, StopTheWorld, AwaitHalted, SpuriousWakeup,
           UseStoppedWorld, ResumeTheWorld, Resume
    <3> QED
      BY <3>1, <2>2
  <2> QED
    BY <2>1, <2>3, <2>4, <2>5, <2>6, <2>7, <2>8, <2>9, <2>10, <2>11, <2>12,
       <2>13, <2>14, <2>15, <2>16 DEF Progress, Choice
<1>2. WorldAssumption /\ IInv /\ [Next]_vars
        => [\A t, u \in Threads :
              Entered(t, u) => u \in alive /\ status[u] = "RUNNING_NORMAL"]_vars
  BY <1>1
<1> QED
  BY <1>2, Invariance, PTL DEF Spec, NoJavaWhileStopped

\* Unless Thread.start() may fail, pending_halt_count is exact.
THEOREM PendingExact ==
  ASSUME WorldAssumption, HandOff, ~StartMayFail
  PROVE  Spec => []HaltsCounted
<1>1. Init => HaltsCounted
  <2> SUFFICES ASSUME Init PROVE HaltsCounted
    OBVIOUS
  <2>1. Halting = {}
    BY DEF Init, Halting
  <2> QED
    BY <2>1, FS_EmptySet DEF Init, HaltsCounted
<1>2. IInv /\ HaltsCounted /\ [Next]_vars => HaltsCounted'
  <2> SUFFICES ASSUME IInv, HaltsCounted, [Next]_vars PROVE HaltsCounted'
    OBVIOUS
  <2>1. /\ IsFiniteSet(Halting) /\ Cardinality(Halting) \in Nat
        /\ pendingHaltCount = Cardinality(Halting)
    BY HaltingFinite DEF IInv, PhaseInv, HaltsCounted
  <2>2. CASE UNCHANGED vars
    BY <2>1, <2>2 DEF vars, HaltsCounted, Halting
  <2>3. CASE CountKept
    BY <2>1, <2>3 DEF CountKept, HaltsCounted
  <2>4. CASE CountDown
    <3>1. PICK t \in Halting : /\ Halting' = Halting \ {t}
                               /\ pendingHaltCount' = pendingHaltCount - 1
      BY <2>4 DEF CountDown
    <3> QED
      BY <2>1, <3>1, FS_RemoveElement DEF HaltsCounted
  <2>5. CASE CountUp
    <3>1. PICK t \in Threads \ Halting :
            /\ Halting' = Halting \cup {t}
            /\ pendingHaltCount' = pendingHaltCount + 1
      BY <2>5 DEF CountUp
    <3> QED
      BY <2>1, <3>1, FS_AddElement DEF HaltsCounted
  <2> QED
    BY <2>2, <2>3, <2>4, <2>5, CountStep DEF CountLost
<1> QED
  BY <1>1, <1>2, Invariance, PTL DEF Spec

\* A stopper that sleeps waits for a thread that has still to halt: it does not
\* sleep on after the last has halted, unless Thread.start() may fail.
THEOREM SleepersHaveHalts ==
  ASSUME WorldAssumption, HandOff, ~StartMayFail
  PROVE  Spec => []SleepingStopperWaits
<1>1. ASSUME IInv, HaltsCounted PROVE SleepingStopperWaits
  <2> SUFFICES ASSUME NEW t \in Threads, pc[t] = "awaitHalt"
               PROVE  \E u \in alive : status[u] = "HALTING_NORMAL"
    BY DEF SleepingStopperWaits
  <2>1. pendingHaltCount > 0
    BY <1>1 DEF IInv, PhaseInv, Stopping
  <2>2. Cardinality(Halting) # 0
    BY <1>1, <2>1 DEF HaltsCounted
  <2>3. PICK u \in Threads : status[u] = "HALTING_NORMAL"
    BY <2>2, FS_EmptySet DEF Halting
  <2>4. pc[u] # "out"
    BY <1>1, <2>3 DEF IInv, FreeStatus
  <2> QED
    BY <1>1, <2>3, <2>4 DEF IInv, PhaseInv, PcStatus
<1> QED
  BY <1>1, Invariance, PendingExact, PTL

-----------------------------------------------------------------------------
(* The protocol implements SafePoint *)

LEMMA StopperIs ==
  ASSUME WorldAssumption, AtMostOneStopper, NEW t \in Threads, pc[t] = "stopped"
  PROVE  Stopper = t
<1>1. HasWorld = {t}
  BY DEF AtMostOneStopper, HasWorld
<1> QED
  BY <1>1 DEF Stopper

LEMMA StopperNone ==
  ASSUME \A t \in Threads : pc[t] # "stopped"
  PROVE  Stopper = NoThread
BY DEF Stopper, HasWorld

\* A step that keeps pc's "stopped" where it is keeps the stopper.
LEMMA StopperKept ==
  ASSUME \A t \in Threads : pc'[t] = "stopped" <=> pc[t] = "stopped"
  PROVE  Stopper' = Stopper
<1>1. HasWorld' = HasWorld
  BY DEF HasWorld
<1> QED
  BY <1>1 DEF Stopper

Stutters == JavaThreads' = JavaThreads /\ Stopper' = Stopper

\* Only a thread that runs alone has the world.
LEMMA NobodyHasWorld ==
  ASSUME WorldAssumption, IInv,
         \/ ~worldStopped
         \/ \E t, s \in Threads : /\ pc[s] \in StopperPcs
                                  /\ pc[s] # "stopped"
                                  /\ t = s
         \/ \E u \in alive : /\ pc[u] # "stopped"
                             /\ status[u] \in {"RUNNING_NORMAL", "RUNNING_NONJAVA"}
  PROVE  Stopper = NoThread
<1>1. ASSUME NEW t \in Threads, pc[t] = "stopped" PROVE FALSE
  BY <1>1 DEF IInv, PhaseInv, Stopped, AtMostOneStopper, TypeOK
<1> QED
  BY <1>1, StopperNone

LEMMA RefinementStep ==
  ASSUME WorldAssumption, IInv, IInv', Next
  PROVE  SP!Next \/ Stutters
<1> SUFFICES ASSUME NEW t \in Threads, Progress(t) \/ Choice(t)
             PROVE  SP!Next \/ Stutters
  BY DEF Next
<1> USE DEF SetStatus, Goto, PastHalt, HaltSelf, MutexFree, AfterHalt
<1>0. TypeOK /\ PcStatus /\ TypeOK'
  BY DEF IInv, PhaseInv
\* A step that takes x out of Java code, or leaves it outside.
<1>a. ASSUME NEW x \in Threads, pc[x] # "stopped", JavaThreads' = JavaThreads \ {x},
             \A y \in Threads : pc'[y] = "stopped" <=> pc[y] = "stopped"
      PROVE  SP!Next
  <2>1. Stopper # x
    BY <1>a, StopperNone, StopperIs DEF IInv, PhaseInv, WorldAssumption, Stopper,
       HasWorld
  <2> QED
    BY <1>a, <2>1, StopperKept DEF SP!Next, SP!Leave
\* A step that brings x into Java code while nobody has the world.
<1>b. ASSUME NEW x \in Threads, Stopper = NoThread, JavaThreads' = JavaThreads \cup {x},
             \A y \in Threads : pc'[y] = "stopped" <=> pc[y] = "stopped"
      PROVE  SP!Next
  BY <1>b, StopperKept DEF SP!Next, SP!Enter
\* A step that does neither.
<1>c. ASSUME JavaThreads' = JavaThreads,
             \A y \in Threads : pc'[y] = "stopped" <=> pc[y] = "stopped"
      PROVE  Stutters
  BY <1>c, StopperKept DEF Stutters
<1>1. CASE ThreadCheck(t)
  BY <1>1, <1>0, <1>c DEF ThreadCheck, JavaThreads, StartMarking, TypeOK
<1>2. CASE CheckHalted(t)
  BY <1>2, <1>0, <1>c DEF CheckHalted, JavaThreads, StartMarking, TypeOK
<1>3. CASE CheckSuspended(t)
  BY <1>3, <1>0, <1>a, <1>c DEF CheckSuspended, JavaThreads, TypeOK, PcStatus
<1>4. CASE Halt(t)
  BY <1>4, <1>0, <1>a DEF Halt, JavaThreads, TypeOK, PcStatus
<1>5. CASE Unsuspend(t)
  BY <1>5, <1>0, <1>c DEF Unsuspend, JavaThreads, StartMarking, TypeOK
<1>6. CASE StoppingJava(t)
  BY <1>6, <1>0, <1>a, <1>c DEF StoppingJava, JavaThreads, TypeOK, PcStatus
<1>7. CASE StoppingJavaHalted(t)
  BY <1>7, <1>0, <1>a DEF StoppingJavaHalted, JavaThreads, TypeOK, PcStatus
<1>8. CASE ResumingJava(t)
  <2>1. CASE status[t] = "RUNNING_NONJAVA"
    <3>1. Stopper = NoThread
      BY <1>8, <1>0, <2>1, NobodyHasWorld DEF ResumingJava, PcStatus
    <3> QED
      BY <1>8, <1>0, <2>1, <3>1, <1>b DEF ResumingJava, JavaThreads, TypeOK, PcStatus
  <2>2. CASE status[t] = "HALTING_NONJAVA"
    BY <1>8, <1>0, <2>2, <1>c DEF ResumingJava, JavaThreads, TypeOK
  <2> QED
    BY <1>8, <1>0, <2>1, <2>2 DEF ResumingJava
<1>9. CASE ResumingJavaRestarted(t)
  <2>1. Stopper = NoThread
    BY <1>9, <1>0, NobodyHasWorld DEF ResumingJavaRestarted, PcStatus
  <2> QED
    BY <1>9, <1>0, <2>1, <1>b DEF ResumingJavaRestarted, JavaThreads, TypeOK, PcStatus
<1>10. CASE Call(t)
  BY <1>10, <1>0, <1>c DEF Call, JavaThreads, StartMarking, TypeOK
<1>11. CASE AllocateThread(t)
  <2>1. CASE UNCHANGED alive
    BY <1>11, <1>0, <2>1, <1>c DEF AllocateThread, JavaThreads, TypeOK
  <2>2. ASSUME NEW c \in Threads \ alive, alive' = alive \cup {c},
               pc' = [pc EXCEPT ![t] = "starting", ![c] = "born"]
        PROVE  SP!Next
    <3>1. Stopper = NoThread
      BY <1>11, <1>0, NobodyHasWorld DEF AllocateThread, PcStatus
    <3> QED
      BY <1>11, <1>0, <2>2, <3>1, <1>b DEF AllocateThread, JavaThreads, TypeOK, PcStatus
  <2> QED
    BY <1>11, <1>0, <2>1, <2>2 DEF AllocateThread
<1>12. CASE StartThread(t)
  BY <1>12, <1>0, <1>c DEF StartThread, JavaThreads, TypeOK, IInv, PhaseInv, ParentOfBorn
<1>13. CASE FailStart(t)
  <2>1. target[t] \in Threads /\ pc[target[t]] = "born"
    BY <1>13, <1>0 DEF FailStart, IInv, PhaseInv, ParentOfBorn
  <2>2. JavaThreads' = JavaThreads \ {target[t]}
    BY <1>13, <1>0, <2>1, FailStartIs DEF FailStart, JavaThreads, TypeOK
  <2>3. pc' = [pc EXCEPT ![t] = "java", ![target[t]] = "out"] /\ pc[t] = "starting"
    BY <1>13 DEF FailStart
  <2>4. \A y \in Threads : pc'[y] = "stopped" <=> pc[y] = "stopped"
    BY <1>0, <2>1, <2>3 DEF TypeOK
  <2>5. PICK x \in Threads : x = target[t]
    BY <2>1
  <2>6. pc[x] # "stopped" /\ JavaThreads' = JavaThreads \ {x}
    BY <2>1, <2>2, <2>5
  <2>7. SP!Next
    BY <2>4, <2>6, <1>a
  <2> QED
    BY <2>7
<1>14. CASE AttachThread(t)
  <2>1. CASE worldStopped \/ pendingHaltCount > 0
    BY <1>14, <1>0, <2>1, <1>c DEF AttachThread, JavaThreads, TypeOK, PcStatus
  <2>2. CASE ~(worldStopped \/ pendingHaltCount > 0)
    <3>1. Stopper = NoThread
      BY <2>2, NobodyHasWorld
    <3>2. t \in Threads \ alive /\ pendingHaltCount = 0
      BY <1>14, <1>0, <2>2 DEF AttachThread, TypeOK
    <3>3. status[t] = "RUNNING_NORMAL"
      BY <3>2, FreeRunning
    <3>4. alive' = alive \cup {t} /\ pc' = [pc EXCEPT ![t] = "java"] /\ status' = status
      BY <1>14, <2>2 DEF AttachThread
    <3>5. JavaThreads' = JavaThreads \cup {t}
      BY <1>0, <3>3, <3>4 DEF JavaThreads, TypeOK, Java
    <3>6. pc[t] # "stopped"
      BY <3>2, <1>0 DEF PcStatus
    <3>7. \A y \in Threads : pc'[y] = "stopped" <=> pc[y] = "stopped"
      BY <1>0, <3>4, <3>6 DEF TypeOK
    <3> QED
      BY <3>1, <3>5, <3>7, <1>b
  <2> QED
    BY <2>1, <2>2
<1>15. CASE AttachRestarted(t)
  BY <1>15, <1>0, <1>c DEF AttachRestarted, JavaThreads, StartMarking, TypeOK
<1>16. CASE DetachThread(t)
  BY <1>16, <1>0, <1>a DEF DetachThread, JavaThreads, TypeOK, PcStatus
<1>17. ASSUME NEW u \in Threads, Suspend(t, u) PROVE SP!Next \/ Stutters
  BY <1>17, <1>0, <1>a, <1>c DEF Suspend, JavaThreads, TypeOK, PcStatus, StartMarking
<1>18. CASE StopTheWorld(t)
  BY <1>18, <1>0, <1>c DEF StopTheWorld, JavaThreads, StartMarking, TypeOK
<1>19. ASSUME NEW u \in Threads, MarkThread(t, u) PROVE SP!Next \/ Stutters
  BY <1>19, <1>0, <1>c DEF MarkThread, JavaThreads, StartMarking, TypeOK
<1>20. CASE AwaitHalted(t)
  <2>1. CASE pendingHaltCount > 0
    BY <1>20, <1>0, <2>1, <1>c DEF AwaitHalted, JavaThreads, TypeOK
  <2>2. CASE pendingHaltCount = 0
    <3>1. Halting = {}
      BY <2>2, NoneLeft DEF IInv, PhaseInv
    <3>2. JavaThreads = {t}
      BY <1>20, <1>0, <3>1
         DEF AwaitHalted, Halting, JavaThreads, IInv, PhaseInv, Stopping,
             PcStatus, TypeOK
    <3>3. Stopper = NoThread
      BY <1>20, <1>0, NobodyHasWorld DEF AwaitHalted
    <3>4. Stopper' = t
      BY <1>20, <1>0, <2>2, StopperIs, WorldAssumption' DEF AwaitHalted, IInv, PhaseInv, TypeOK, Stopper, HasWorld, AtMostOneStopper
    <3>5. JavaThreads' = JavaThreads
      BY <1>20, <1>0, <2>2 DEF AwaitHalted, JavaThreads
    <3> QED
      BY <3>2, <3>3, <3>4, <3>5 DEF SP!Next, SP!Stop
  <2> QED
    BY <1>20, <1>0, <2>1, <2>2 DEF AwaitHalted
<1>21. CASE SpuriousWakeup(t)
  BY <1>21, <1>0, <1>c DEF SpuriousWakeup, JavaThreads, StartMarking, TypeOK
<1>22. CASE UseStoppedWorld(t)
  <2>1. Stopper = t
    BY <1>22, <1>0, StopperIs DEF UseStoppedWorld, IInv, PhaseInv
  <2>2. \A x \in Threads : pc'[x] # "stopped"
    BY <1>22, <1>0 DEF UseStoppedWorld, TypeOK, IInv, PhaseInv, AtMostOneStopper
  <2>3. Stopper' = NoThread
    BY <2>2 DEF Stopper, HasWorld
  <2> QED
    BY <1>22, <1>0, <2>1, <2>3
       DEF UseStoppedWorld, JavaThreads, SP!Next, SP!Resume, WorldAssumption
<1>23. ASSUME NEW u \in Threads, ResumeThread(t, u) PROVE SP!Next \/ Stutters
  <2>1. Stopper = NoThread
    BY <1>23, <1>0, NobodyHasWorld DEF ResumeThread
  <2>2. u \in alive
    BY <1>23, <1>0 DEF ResumeThread, TypeOK
  <2>3. CASE status[u] = "HALTED"
    BY <1>23, <1>0, <2>1, <2>2, <2>3, <1>b DEF ResumeThread, JavaThreads, TypeOK
  <2>4. CASE status[u] = "HALTING_NONJAVA"
    BY <1>23, <1>0, <2>2, <2>4, <1>c DEF ResumeThread, JavaThreads, TypeOK
  <2> QED
    BY <1>23, <1>0, <2>3, <2>4 DEF ResumeThread
<1>24. CASE ResumeTheWorld(t)
  BY <1>24, <1>0, <1>c DEF ResumeTheWorld, JavaThreads, StartMarking, TypeOK
<1>25. ASSUME NEW u \in Threads, Resume(t, u) PROVE SP!Next \/ Stutters
  BY <1>25, <1>0, <1>c DEF Resume, JavaThreads, StartMarking, TypeOK
<1> QED
  BY <1>1, <1>2, <1>3, <1>4, <1>5, <1>6, <1>7, <1>8, <1>9, <1>10, <1>11,
     <1>12, <1>13, <1>14, <1>15, <1>16, <1>17, <1>18, <1>19, <1>20,
     <1>21, <1>22, <1>23, <1>24, <1>25 DEF Progress, Choice

\* The protocol implements SafePoint: whatever the rest of the program does,
\* each of its steps is one that SafePoint allows, or none to it.
THEOREM Refinement ==
  ASSUME WorldAssumption, HandOff
  PROVE  Spec => SP!Safety
<1>1. Init => SP!Init
  <2> SUFFICES ASSUME Init PROVE SP!Init
    OBVIOUS
  <2>1. \A t \in Threads : pc[t] # "stopped"
    BY DEF Init
  <2> QED
    BY <2>1, StopperNone DEF SP!Init, Init, JavaThreads, WorldAssumption
<1>2. IInv /\ IInv' /\ [Next]_vars => [SP!Next]_(SP!vars)
  <2> SUFFICES ASSUME IInv, IInv', [Next]_vars
               PROVE  [SP!Next]_(SP!vars)
    OBVIOUS
  <2>1. CASE Next
    BY <2>1, RefinementStep DEF Stutters, SP!vars
  <2>2. CASE UNCHANGED vars
    BY <2>2 DEF vars, SP!vars, JavaThreads, Stopper, HasWorld
  <2> QED
    BY <2>1, <2>2
<1> QED
  BY <1>1, <1>2, Invariance, PTL DEF Spec, SP!Safety
=============================================================================
