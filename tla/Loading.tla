------------------------------ MODULE Loading ------------------------------
(***************************************************************************)
(* Loading and deriving of types: libjc/load.c, derive.c, derive2.c, the   *)
(* trees of a class loader (class_loader.c), the VM's tree of class files  *)
(* (class_file.c) and the object files of class_object.c.                  *)
(*                                                                         *)
(* A load recurses: the loader derives the type, which loads its supertypes *)
(* by the same loader, which may be Java code that asks another loader.    *)
(* The threads' C stacks are variable stack, a step is what happens while  *)
(* a loader's mutex (and vm->mutex inside it) is held.                     *)
(***************************************************************************)
EXTENDS Naturals, Sequences, FiniteSets

CONSTANTS
  Threads,
  None, Ok, OutOfMemory,  \* what is returned in place of a type
  Loaders, Boot,
  Names,       \* class names and names of array types
  Elem,        \* the element type of the names of array types
  Supers,      \* the superclass and superinterfaces in a class file
  Final,       \* the classes that cannot be a supertype
  Core,        \* _JC_CORE_CLASS
  ClassFiles,  \* the names each loader finds a class file of
  Version,     \* the hash of the class file that a loader has of a name
  ObjectFiles, \* the types in the ELF object that is found for a name, if any
  Modes,       \* bound on mode
  MayFail,     \* whether memory can run out
  MaxLoads     \* bound on the loads that each thread begins

Arrays == DOMAIN Elem
Classes == Names \ Arrays

ASSUME LoadingAssumption ==
  /\ Boot \in Loaders /\ {None, Ok, OutOfMemory} \cap Threads = {} /\ Ok # None
  /\ Elem \in [Arrays -> Names] /\ Arrays \subseteq Names
  /\ Supers \in [Classes -> Seq(Classes)]
  /\ Final \subseteq Classes /\ Core \subseteq Classes
  /\ ClassFiles \in [Loaders -> SUBSET Classes]
  /\ Version \in [Loaders -> [Classes -> Nat]]
  /\ ObjectFiles \in [Classes -> Seq(Classes)]
  /\ \A n \in Classes : \A i, j \in DOMAIN ObjectFiles[n] :
       ObjectFiles[n][i] = ObjectFiles[n][j] => i = j
  /\ Modes \subseteq {"interpret", "generate", "mixed", "objects"}
  /\ MayFail \in BOOLEAN /\ MaxLoads \in Nat

VARIABLES
  mode,       \* loader_enabled, generation_enabled and without_classfiles
  initiated,  \* loader->initiated_types
  deriving,   \* loader->deriving_types: pairs of a name and a thread
  defined,    \* loader->defined_types
  loading,    \* vm->boot.loading_types: pairs of a name and a thread
  waiters,    \* the boot loader's waiters flag
  monitor,    \* who is in the synchronized loadClass() of each other loader
  files,      \* vm->classfiles: the hash and the references of each node
  stack,      \* each thread's activations of the functions below
  ret,        \* what the last of those returned: a type or NoType
  loads       \* how many loads a thread began (bounded by MaxLoads)

trees == <<initiated, deriving, defined>>
vars == <<mode, trees, loading, waiters, monitor, files, stack, ret, loads>>

\* Of mode: "interpret" has no ELF objects.  "generate" has objects, and generates
\* those that are missing.  In "mixed" a class without one is interpreted.  With
\* "objects" the boot loader reads no class files, and other loaders, which do,
\* interpret a class without an object as well.
\*
\* A type is told from another of its name by how it came to be, and by whom.
Types == [l : Loaders, n : Names, how : {"interp", "elf", "array"}, by : Threads]

NoType == {None, Ok, OutOfMemory}

ASSUME NoTypeAssumption == NoType \cap Types = {}

Named(S, n) == {y \in S : y.n = n}

-----------------------------------------------------------------------------
(* The activations of a thread *)

Frame(fn, l, n) ==
  [fn |-> fn, l |-> l, n |-> n, pc |-> "start", i |-> 1, own |-> FALSE, got |-> None]
LoadFrame(l, n) == Frame(IF l = Boot THEN "boot" ELSE "user", l, n)

Top(t) == stack[t][Len(stack[t])]
At(t, fn, pc) == stack[t] # <<>> /\ Top(t).fn = fn /\ Top(t).pc = pc

Goto(t, f) == [stack EXCEPT ![t][Len(stack[t])] = f]
Continue(t, f) == stack' = Goto(t, f) /\ UNCHANGED ret
Call(t, f, g) == stack' = [Goto(t, f) EXCEPT ![t] = Append(@, g)] /\ UNCHANGED ret
Returned(t) == [stack EXCEPT ![t] = SubSeq(@, 1, Len(@) - 1)]
Return(t, x) == stack' = Returned(t) /\ ret' = [ret EXCEPT ![t] = x]

-----------------------------------------------------------------------------
(* The tree of class files *)

NoFile == [hash |-> 0, refs |-> 0]

\* ref_class_node() for a name and a hash.
Matches(fs, n, h) == fs[n].refs = 0 \/ fs[n].hash = h
Ref(fs, n, h) == [fs EXCEPT ![n] = [hash |-> h, refs |-> @.refs + 1]]

\* unref_class_node(), and unref_class_deps() for a set of names.
Unref(fs, S) ==
  [n \in Classes |-> IF n \notin S THEN fs[n]
                     ELSE IF fs[n].refs = 1 THEN NoFile
                     ELSE [fs[n] EXCEPT !.refs = @ - 1]]

\* The class files that the object code of a class depends on.
Deps(n) == {Supers[n][i] : i \in DOMAIN Supers[n]} \ {n}

-----------------------------------------------------------------------------

Init ==
  /\ mode \in Modes
  /\ initiated = [l \in Loaders |-> {}]
  /\ deriving = [l \in Loaders |-> {}]
  /\ defined = [l \in Loaders |-> {}]
  /\ loading = {}
  /\ waiters = FALSE
  /\ monitor = [l \in Loaders |-> None]
  /\ files = [n \in Classes |-> NoFile]
  /\ stack = [t \in Threads |-> <<>>]
  /\ ret = [t \in Threads |-> None]
  /\ loads = [t \in Threads |-> 0]

\* A thread resolves a name, or asks for it by Class.forName().
Begin(t) ==
  /\ stack[t] = <<>> /\ loads[t] < MaxLoads
  /\ \E l \in Loaders, n \in Names : stack' = [stack EXCEPT ![t] = <<LoadFrame(l, n)>>]
  /\ loads' = [loads EXCEPT ![t] = @ + 1]
  /\ ret' = [ret EXCEPT ![t] = None]
  /\ UNCHANGED <<mode, trees, loading, waiters, monitor, files>>

(* bootcl_load_type() *)

\* Whoever waits for a load looks again.
Woken(st) == [u \in Threads |->
  [i \in DOMAIN st[u] |-> IF st[u][i].pc = "wait" THEN [st[u][i] EXCEPT !.pc = "start"]
                                                  ELSE st[u][i]]]

\* It has the type; or another thread is loading it, and this one waits; or this one
\* is (there will be a ClassCircularityError); or it starts to.
BootFind(t) ==
  LET f == Top(t)
      others == {p \in loading : p[1] = f.n}
  IN /\ At(t, "boot", "start")
     /\ \/ \E y \in Named(initiated[Boot], f.n) :
             Return(t, y) /\ UNCHANGED <<loading, waiters>>
        \/ /\ Named(initiated[Boot], f.n) = {}
           /\ \/ /\ others \ {<<f.n, t>>} # {}
                 /\ Continue(t, [f EXCEPT !.pc = "wait"])
                 /\ waiters' = TRUE /\ UNCHANGED loading
              \/ /\ others = {<<f.n, t>>}
                 /\ Continue(t, [f EXCEPT !.pc = "body"])
                 /\ UNCHANGED <<loading, waiters>>
              \/ /\ others = {}
                 /\ Continue(t, [f EXCEPT !.pc = "body", !.own = TRUE])
                 /\ loading' = loading \cup {<<f.n, t>>} /\ UNCHANGED waiters
  /\ UNCHANGED <<mode, trees, monitor, files, loads>>

\* By what it is loaded: as an array, from an object, or from its class file, which
\* may not be found.
BootBody(t) ==
  LET f == [Top(t) EXCEPT !.pc = "done"]
  IN /\ At(t, "boot", "body")
     /\ \/ f.n \in Arrays /\ Call(t, f, Frame("array", Boot, f.n))
        \/ f.n \in Classes /\ mode = "objects" /\ Call(t, f, Frame("object", Boot, f.n))
        \/ /\ f.n \in ClassFiles[Boot] /\ mode # "objects"
           /\ Call(t, f, Frame("derive", Boot, f.n))
        \/ /\ f.n \in Classes \ ClassFiles[Boot] /\ mode # "objects"
           /\ stack' = Goto(t, f) /\ ret' = [ret EXCEPT ![t] = None]
     /\ UNCHANGED <<mode, trees, loading, waiters, monitor, files, loads>>

\* Mutant: nobody is told of a load that failed.
BootDoneQuietly(t) ==
  LET f == Top(t)
      found == IF ret[t] = Ok THEN Named(defined[Boot], f.n)
               ELSE IF ret[t] = OutOfMemory THEN {None} ELSE {ret[t]}
  IN /\ At(t, "boot", "done")
     /\ \E y \in found : ret' = [ret EXCEPT ![t] = y]
     /\ IF f.own
        THEN /\ loading' = loading \ {<<f.n, t>>}
             /\ stack' = IF waiters /\ None \notin found THEN Woken(Returned(t)) ELSE Returned(t)
             /\ waiters' = (waiters /\ None \in found)
        ELSE stack' = Returned(t) /\ UNCHANGED <<loading, waiters>>
     /\ UNCHANGED <<mode, trees, monitor, files, loads>>

\* The type is no longer being loaded, and whoever waits looks again.
BootDone(t) ==
  LET f == Top(t)
      found == IF ret[t] = Ok THEN Named(defined[Boot], f.n)
               ELSE IF ret[t] = OutOfMemory THEN {None} ELSE {ret[t]}
  IN /\ At(t, "boot", "done")
     /\ \E y \in found : ret' = [ret EXCEPT ![t] = y]
     /\ IF f.own
        THEN /\ loading' = loading \ {<<f.n, t>>}
             /\ stack' = IF waiters THEN Woken(Returned(t)) ELSE Returned(t)
             /\ waiters' = FALSE
        ELSE stack' = Returned(t) /\ UNCHANGED <<loading, waiters>>
     /\ UNCHANGED <<mode, trees, monitor, files, loads>>

(* usercl_load_type(), and the loadClass() of the ClassLoader *)

\* The node for the type is allocated first of all.
UserFind(t) ==
  LET f == Top(t)
  IN /\ At(t, "user", "start")
     /\ \/ MayFail /\ Return(t, None)
        \/ \E y \in Named(initiated[f.l], f.n) : Return(t, y)
        \/ /\ Named(initiated[f.l], f.n) = {}
           /\ IF f.n \in Arrays
              THEN Call(t, [f EXCEPT !.pc = "record"], Frame("array", f.l, f.n))
              ELSE Continue(t, [f EXCEPT !.pc = "java"])
     /\ UNCHANGED <<mode, trees, loading, waiters, monitor, files, loads>>

\* loadClass() is synchronized.  It looks for the class by findLoadedClass(), defines
\* it by defineClass() if it has a class file, and asks the boot loader otherwise.
UserJava(t) ==
  LET f == [Top(t) EXCEPT !.pc = "exit", !.own = monitor[Top(t).l] # t]
  IN /\ At(t, "user", "java")
     /\ monitor[f.l] \in {None, t}
     /\ monitor' = [monitor EXCEPT ![f.l] = t]
     /\ \/ \E y \in Named(initiated[f.l], f.n) :
             stack' = Goto(t, f) /\ ret' = [ret EXCEPT ![t] = y]
        \/ /\ Named(initiated[f.l], f.n) = {}
           /\ Call(t, f, IF f.n \in ClassFiles[f.l] THEN Frame("derive", f.l, f.n)
                                                    ELSE LoadFrame(Boot, f.n))
     /\ UNCHANGED <<mode, trees, loading, waiters, files, loads>>

UserExit(t) ==
  LET f == Top(t)
  IN /\ At(t, "user", "exit")
     /\ monitor' = [monitor EXCEPT ![f.l] = IF f.own THEN None ELSE @]
     /\ Continue(t, [f EXCEPT !.pc = "record"])
     /\ UNCHANGED <<mode, trees, loading, waiters, files, loads>>

\* The loader is recorded as an initiating loader of the type it returned.
UserRecord(t) ==
  LET f == Top(t)
      y == ret[t]
  IN /\ At(t, "user", "record")
     /\ initiated' = [initiated EXCEPT ![f.l] =
          IF y = None \/ Named(@, f.n) # {} THEN @ ELSE @ \cup {y}]
     /\ Return(t, y)
     /\ UNCHANGED <<mode, deriving, defined, loading, waiters, monitor, files, loads>>

(* derive_array_type() *)

ArrayStart(t) ==
  LET f == Top(t)
  IN /\ At(t, "array", "start")
     /\ Call(t, [f EXCEPT !.pc = "elem"], LoadFrame(f.l, Elem[f.n]))
     /\ UNCHANGED <<mode, trees, loading, waiters, monitor, files, loads>>

\* The loader that defined the element type defines the array type.
ArrayElem(t) ==
  LET f == Top(t)
      y == ret[t]
  IN /\ At(t, "array", "elem")
     /\ \/ y = None /\ Return(t, None)
        \/ /\ y # None /\ y.l # f.l
           /\ Call(t, [f EXCEPT !.pc = "other"], LoadFrame(y.l, f.n))
        \/ y # None /\ y.l = f.l /\ Continue(t, [f EXCEPT !.pc = "make"])
     /\ UNCHANGED <<mode, trees, loading, waiters, monitor, files, loads>>

ArrayOther(t) ==
  /\ At(t, "array", "other")
  /\ Return(t, ret[t])
  /\ UNCHANGED <<mode, trees, loading, waiters, monitor, files, loads>>

\* Mutant: nobody looks whether another thread has been faster.
ArrayMakeAgain(t) ==
  LET f == Top(t)
      new == [l |-> f.l, n |-> f.n, how |-> "array", by |-> t]
  IN /\ At(t, "array", "make")
     /\ Return(t, new)
     /\ initiated' = [initiated EXCEPT ![f.l] = @ \cup {new}]
     /\ defined' = [defined EXCEPT ![f.l] = @ \cup {new}]
     /\ UNCHANGED <<mode, deriving, loading, waiters, monitor, files, loads>>

\* Another thread may have made it; the loader's memory may run out.
ArrayMake(t) ==
  LET f == Top(t)
      new == [l |-> f.l, n |-> f.n, how |-> "array", by |-> t]
  IN /\ At(t, "array", "make")
     /\ \/ /\ \E y \in Named(defined[f.l], f.n) : Return(t, y)
           /\ UNCHANGED <<initiated, defined>>
        \/ /\ Named(defined[f.l], f.n) = {}
           /\ Return(t, new)
           /\ initiated' = [initiated EXCEPT ![f.l] = @ \cup {new}]
           /\ defined' = [defined EXCEPT ![f.l] = @ \cup {new}]
        \/ /\ MayFail /\ Named(defined[f.l], f.n) = {}
           /\ Return(t, None)
           /\ UNCHANGED <<initiated, defined>>
     /\ UNCHANGED <<mode, deriving, loading, waiters, monitor, files, loads>>

(* derive_type_from_classfile() *)

\* Core classes are for the boot loader.  The class file goes into the tree of class
\* files, where there may be another of that name; a new node is allocated.
DeriveStart(t) ==
  LET f == Top(t)
      h == Version[f.l][f.n]
  IN /\ At(t, "derive", "start")
     /\ \/ /\ \/ (f.l # Boot /\ f.n \in Core) \/ ~Matches(files, f.n, h)
              \/ MayFail /\ files[f.n].refs = 0
           /\ Return(t, None) /\ UNCHANGED files
        \/ /\ f.l = Boot \/ f.n \notin Core
           /\ Matches(files, f.n, h)
           /\ files' = Ref(files, f.n, h)
           /\ Continue(t, [f EXCEPT !.pc = "enter"])
     /\ UNCHANGED <<mode, trees, loading, waiters, monitor, loads>>

\* The type must not be defined, nor be one that is being derived (a
\* ClassCircularityError).  What is to hold its supertypes is allocated next, unless
\* objects are generated.
DeriveEnter(t) ==
  LET f == Top(t)
      free == Named(initiated[f.l], f.n) = {} /\ \A p \in deriving[f.l] : p[1] # f.n
  IN /\ At(t, "derive", "enter")
     /\ IF free
        THEN /\ deriving' = [deriving EXCEPT ![f.l] = @ \cup {<<f.n, t>>}]
             /\ \/ Continue(t, [f EXCEPT !.pc = "supers", !.own = TRUE])
                \/ /\ MayFail /\ mode # "generate"
                   /\ Continue(t, [f EXCEPT !.pc = "leave", !.own = TRUE])
        ELSE Continue(t, [f EXCEPT !.pc = "unref"]) /\ UNCHANGED deriving
     /\ UNCHANGED <<mode, initiated, defined, loading, waiters, monitor, files, loads>>

DeriveSuper(t) ==
  LET f == Top(t)
  IN /\ At(t, "derive", "supers") /\ f.i \in DOMAIN Supers[f.n]
     /\ Call(t, [f EXCEPT !.pc = "super"], LoadFrame(f.l, Supers[f.n][f.i]))
     /\ UNCHANGED <<mode, trees, loading, waiters, monitor, files, loads>>

\* Mutant: the result of loading a supertype is not looked at.
CheckSuperNot(t) ==
  LET f == Top(t)
  IN /\ At(t, "derive", "super")
     /\ Continue(t, [f EXCEPT !.pc = "supers", !.i = @ + 1])
     /\ UNCHANGED <<mode, trees, loading, waiters, monitor, files, loads>>

CheckSuper(t) ==
  LET f == Top(t)
      good == ret[t] # None /\ ret[t].n \notin Final
  IN /\ At(t, "derive", "super")
     /\ Continue(t, IF good THEN [f EXCEPT !.pc = "supers", !.i = @ + 1]
                            ELSE [f EXCEPT !.pc = "leave"])
     /\ UNCHANGED <<mode, trees, loading, waiters, monitor, files, loads>>

\* An object file loaded for a supertype may have had this type in it.  If not, an
\* object is looked for, unless all is interpreted.
DeriveCheck(t) ==
  LET f == Top(t)
  IN /\ At(t, "derive", "supers") /\ f.i \notin DOMAIN Supers[f.n]
     /\ \/ \E y \in Named(defined[f.l], f.n) :
             Continue(t, [f EXCEPT !.pc = "leave", !.got = y])
        \/ /\ Named(defined[f.l], f.n) = {}
           /\ IF mode = "interpret" THEN Continue(t, [f EXCEPT !.pc = "interp"])
              ELSE Call(t, [f EXCEPT !.pc = "object"], Frame("object", f.l, f.n))
     /\ UNCHANGED <<mode, trees, loading, waiters, monitor, files, loads>>

\* The object is there, and ought to hold the type; or it is generated, which may fail,
\* and loaded; or the class is interpreted.  Nothing of that if memory ran out.
DeriveObject(t) ==
  LET f == Top(t)
  IN /\ At(t, "derive", "object")
     /\ \/ /\ ret[t] = Ok
           /\ \E y \in Named(defined[f.l], f.n) :
                Continue(t, [f EXCEPT !.pc = "leave", !.got = y])
        \/ /\ ret[t] = None /\ mode # "generate"
           /\ Continue(t, [f EXCEPT !.pc = "interp"])
        \/ /\ \/ ret[t] = OutOfMemory \/ (ret[t] = None /\ mode = "generate")
              \/ ret[t] = Ok /\ Named(defined[f.l], f.n) = {}
           /\ Continue(t, [f EXCEPT !.pc = "leave"])
        \/ /\ ret[t] = None /\ mode = "generate" /\ f.i # 0
           /\ Call(t, [f EXCEPT !.i = 0], [Frame("object", f.l, f.n) EXCEPT !.own = TRUE])
     /\ UNCHANGED <<mode, trees, loading, waiters, monitor, files, loads>>

\* derive_type_interp(): the type is built in the loader's memory, which is given
\* back if that fails.  The type has a reference of its own to its class file.
DeriveInterp(t) ==
  LET f == Top(t)
      new == [l |-> f.l, n |-> f.n, how |-> "interp", by |-> t]
  IN /\ At(t, "derive", "interp")
     /\ \/ /\ Matches(files, f.n, Version[f.l][f.n])
           /\ files' = Ref(files, f.n, Version[f.l][f.n])
           /\ initiated' = [initiated EXCEPT ![f.l] = @ \cup {new}]
           /\ defined' = [defined EXCEPT ![f.l] = @ \cup {new}]
           /\ Continue(t, [f EXCEPT !.pc = "leave", !.got = new])
        \/ /\ MayFail \/ ~Matches(files, f.n, Version[f.l][f.n])
           /\ Continue(t, [f EXCEPT !.pc = "leave"])
           /\ UNCHANGED <<files, initiated, defined>>
     /\ UNCHANGED <<mode, deriving, loading, waiters, monitor, loads>>

DeriveLeave(t) ==
  LET f == Top(t)
  IN /\ At(t, "derive", "leave")
     /\ deriving' = [deriving EXCEPT ![f.l] = @ \ {<<f.n, t>>}]
     /\ Continue(t, [f EXCEPT !.pc = "unref"])
     /\ UNCHANGED <<mode, initiated, defined, loading, waiters, monitor, files, loads>>

\* Mutant: the reference is kept with the type.
DeriveUnrefFailed(t) ==
  LET f == Top(t)
  IN /\ At(t, "derive", "unref")
     /\ files' = IF f.got = None THEN Unref(files, {f.n}) ELSE files
     /\ Return(t, f.got)
     /\ UNCHANGED <<mode, trees, loading, waiters, monitor, loads>>

DeriveUnref(t) ==
  LET f == Top(t)
  IN /\ At(t, "derive", "unref")
     /\ files' = Unref(files, {f.n})
     /\ Return(t, f.got)
     /\ UNCHANGED <<mode, trees, loading, waiters, monitor, loads>>

(* load_object() and derive_types_from_object() *)

\* The object that was generated has the one type.
TypesIn(f) == IF f.own THEN <<f.n>> ELSE ObjectFiles[f.n]

ObjectFind(t) ==
  LET f == Top(t)
  IN /\ At(t, "object", "start")
     /\ \/ TypesIn(f) = <<>> /\ Return(t, None)
        \/ TypesIn(f) # <<>> /\ Continue(t, [f EXCEPT !.pc = "derive"])
        \/ MayFail /\ Return(t, OutOfMemory)
     /\ UNCHANGED <<mode, trees, loading, waiters, monitor, files, loads>>

\* derive_type() for the first k types of an object: the nodes it has references to.
Users(ns, k, n) == {i \in 1 .. k : n \in {ns[i]} \cup Deps(ns[i])}
Refs(l, ns, k) ==
  [n \in Classes |->
     IF Users(ns, k, n) = {} THEN files[n]
     ELSE [hash |-> Version[l][n], refs |-> files[n].refs + Cardinality(Users(ns, k, n))]]
CanDerive(l, ns, k) ==
  \A n \in {ns[k]} \cup Deps(ns[k]) : Matches(Refs(l, ns, k - 1), n, Version[l][n])

\* All types of the object are derived, under the loader's mutex, if none is defined
\* yet.  If one of them cannot be, those before it are undone, but for the first:
\* "while (--i > 0)" does not get there.
ObjectDerive(t) ==
  LET f == Top(t)
      ns == TypesIn(f)
      Elf(k) == {[l |-> f.l, n |-> ns[i], how |-> "elf", by |-> t] : i \in 1 .. k}
      left(k) == IF k > 1 THEN 1 ELSE 0
      Put(k) == /\ files' = Refs(f.l, ns, k)
                /\ initiated' = [initiated EXCEPT ![f.l] = @ \cup Elf(k)]
                /\ defined' = [defined EXCEPT ![f.l] = @ \cup Elf(k)]
  IN /\ At(t, "object", "derive")
     /\ \/ /\ \E i \in DOMAIN ns : Named(defined[f.l], ns[i]) # {}
           /\ Return(t, None) /\ UNCHANGED <<files, initiated, defined>>
        \/ /\ \A i \in DOMAIN ns : Named(defined[f.l], ns[i]) = {}
           /\ \/ /\ \A k \in DOMAIN ns : CanDerive(f.l, ns, k)
                 /\ Return(t, Ok) /\ Put(Len(ns))
              \/ \E k \in DOMAIN ns :
                   /\ \A j \in 1 .. k - 1 : CanDerive(f.l, ns, j)
                   /\ \/ MayFail /\ Return(t, OutOfMemory)
                      \/ ~CanDerive(f.l, ns, k) /\ Return(t, None)
                   /\ Put(left(k))
     /\ UNCHANGED <<mode, deriving, loading, waiters, monitor, loads>>

(* destroy_loader() *)

\* A collection finds that nothing uses a loader: its types are gone, with their
\* references.
OwnIn(df, n) == {y \in df : y.n = n}
DependentIn(df, n) == {y \in df : y.how = "elf" /\ n \in Deps(y.n)}
Released(l) ==
  [n \in Classes |->
     LET c == Cardinality(OwnIn(defined[l], n) \cup DependentIn(defined[l], n))
     IN IF c = 0 THEN files[n]
        ELSE IF c = files[n].refs THEN NoFile
        ELSE [files[n] EXCEPT !.refs = @ - c]]
Unload(l) ==
  /\ l # Boot /\ initiated[l] # {}
  /\ \A t \in Threads :
       /\ ret[t] \notin NoType => ret[t].l # l
       /\ \A i \in DOMAIN stack[t] :
            stack[t][i].l # l /\ (stack[t][i].got # None => stack[t][i].got.l # l)
  /\ \A m \in Loaders \ {l} : \A y \in initiated[m] : y.l # l
  /\ files' = Released(l)
  /\ initiated' = [initiated EXCEPT ![l] = {}]
  /\ defined' = [defined EXCEPT ![l] = {}]
  /\ UNCHANGED <<mode, deriving, loading, waiters, monitor, stack, ret, loads>>

Step(t) ==
  \/ BootFind(t) \/ BootBody(t) \/ BootDone(t)
  \/ UserFind(t) \/ UserJava(t) \/ UserExit(t) \/ UserRecord(t)
  \/ ArrayStart(t) \/ ArrayElem(t) \/ ArrayOther(t) \/ ArrayMake(t)
  \/ DeriveStart(t) \/ DeriveEnter(t) \/ DeriveSuper(t) \/ CheckSuper(t) \/ DeriveCheck(t)
  \/ DeriveObject(t) \/ DeriveInterp(t) \/ DeriveLeave(t) \/ DeriveUnref(t)
  \/ ObjectFind(t) \/ ObjectDerive(t)

Next == (\E t \in Threads : Begin(t) \/ Step(t)) \/ \E l \in Loaders : Unload(l)

\* Every thread that is not waiting runs on.
Spec == Init /\ [][Next]_vars /\ \A t \in Threads : WF_vars(Step(t))

-----------------------------------------------------------------------------
(* Properties *)

\* A loader has one type for a name, whoever loads it, and when a load returns a type
\* it is one that its loader defined and knows.
OneType ==
  /\ \A l \in Loaders :
       /\ \A x, y \in initiated[l] : x.n = y.n => x = y
       /\ defined[l] \subseteq initiated[l]
       /\ \A y \in initiated[l] : y.l \in Loaders /\ y \in defined[y.l]
       /\ \A y \in defined[l] : y.l = l
  /\ \A t \in Threads : ret[t] \notin NoType => ret[t] \in defined[ret[t].l]

\* The supertypes of an interpreted type, and the element type of an array type, are
\* there before it and by the same loader, so no class comes to be that is among its
\* own supertypes; nobody waits for a type that nobody is loading.
SupersKnown ==
  /\ \A l \in Loaders : \A y \in defined[l] :
       /\ y.how = "interp" =>
            \A s \in {Supers[y.n][i] : i \in DOMAIN Supers[y.n]} :
              s # y.n /\ Named(initiated[l], s) # {}
       /\ y.how = "array" => Named(defined[l], Elem[y.n]) # {}
  /\ \A t \in Threads : At(t, "boot", "wait") =>
       waiters /\ \E p \in loading : p[1] = Top(t).n /\ p[2] # t

\* A class file's node has a reference for each type of that name, for each type of an
\* object that depends on it, and for each thread that is deriving from it; all have
\* the same class file.
AllTypes(df) == UNION {df[l] : l \in Loaders}
Derivations(st, n) ==
  {p \in UNION {{t} \X DOMAIN st[t] : t \in Threads} :
     /\ st[p[1]][p[2]].fn = "derive" /\ st[p[1]][p[2]].n = n
     /\ st[p[1]][p[2]].pc # "start"}
FilesCounted ==
  \A n \in Classes :
    LET own == OwnIn(AllTypes(defined), n)
        dep == DependentIn(AllTypes(defined), n)
        using == Derivations(stack, n)
    IN /\ files[n].refs = Cardinality(own) + Cardinality(dep) + Cardinality(using)
       /\ \A y \in own : files[n].hash = Version[y.l][n]
       /\ \A p \in using : files[n].hash = Version[stack[p[1]][p[2]].l][n]

\* Every load ends: a thread that waits for another's load is woken up, and a class
\* that is its own superclass is found out.
LoadsEnd == \A t \in Threads : stack[t] # <<>> ~> stack[t] = <<>>

-----------------------------------------------------------------------------
(* What the properties rest on *)

\* A loader other than the boot loader has class files of all types of an object, if
\* it has one of the type that the object is found for.
ObjectsApart ==
  \A l \in Loaders \ {Boot} : \A n \in ClassFiles[l] : \A i \in DOMAIN ObjectFiles[n] :
    ObjectFiles[n][i] \in ClassFiles[l]

\* In these modes a loader interprets a class that it finds no object of, and uses
\* the object of another.  Then an object holds the one type it is found for.
Mixes(m, l) == m = "mixed" \/ (m = "objects" /\ l # Boot)
ObjectsAlone ==
  \A m \in Modes, l \in Loaders : Mixes(m, l) =>
    \A n \in Classes : l = Boot \/ n \in ClassFiles[l] =>
      \A i \in DOMAIN ObjectFiles[n] : ObjectFiles[n][i] = n

\* What a loader may find under a name: a class that it has a class file of is its
\* own, another is the boot loader's, an array type is its element type's.
Proper(l, y) ==
  /\ y \in Types /\ y.l \in {l, Boot} /\ y \in defined[y.l]
  /\ y.n \in Classes => (y.l = l <=> (l = Boot \/ y.n \in ClassFiles[l]))
  /\ y.n \in Arrays => \E e \in initiated[l] : e.n = Elem[y.n] /\ e.l = y.l

Trees ==
  \A l \in Loaders :
    /\ \A x, y \in initiated[l] : x.n = y.n => x = y
    /\ defined[l] \subseteq initiated[l]
    /\ \A y \in initiated[l] : Proper(l, y)
    /\ \A y \in defined[l] :
         /\ y.l = l
         /\ y.how = "array" <=> y.n \in Arrays
         /\ y.how = "interp" =>
              \A i \in DOMAIN Supers[y.n] :
                Supers[y.n][i] # y.n /\ Named(initiated[l], Supers[y.n][i]) # {}

Interprets(l) == mode = "interpret" \/ Mixes(mode, l)

\* What an activation has found out so far.
Fits(f) ==
  \/ f.fn = "boot" /\ f.l = Boot /\ f.pc \in {"start", "wait", "body", "done"}
  \/ /\ f.fn = "user" /\ f.l # Boot /\ f.pc \in {"start", "java", "exit", "record"}
     /\ f.pc \in {"java", "exit"} => f.n \in Classes
  \/ /\ f.fn = "array" /\ f.n \in Arrays /\ f.pc \in {"start", "elem", "other", "make"}
     /\ f.pc = "other" => f.l # Boot /\ \E e \in initiated[f.l] : e.n = Elem[f.n] /\ e.l = Boot
     /\ f.pc = "make" => \E e \in initiated[f.l] : e.n = Elem[f.n] /\ e.l = f.l
  \/ /\ f.fn = "derive" /\ f.n \in Classes /\ (f.l = Boot \/ f.n \in ClassFiles[f.l])
     /\ f.pc \in {"start", "enter", "supers", "super", "object", "interp", "leave", "unref"}
     /\ f.pc \in {"start", "enter"} => f.i = 1 /\ f.got = None
     /\ mode = "objects" => f.l # Boot
     /\ f.pc = "object" => mode # "interpret"
     /\ f.pc = "interp" => Interprets(f.l)
     /\ f.pc \in {"object", "interp"} /\ Interprets(f.l) => f.i \notin DOMAIN Supers[f.n]
     /\ f.pc \in {"supers", "super", "interp"} \/ (f.pc = "object" /\ Interprets(f.l)) =>
          /\ f.i > 0
          /\ \A j \in DOMAIN Supers[f.n] : j < f.i => Named(initiated[f.l], Supers[f.n][j]) # {}
     /\ f.pc = "super" => f.i \in DOMAIN Supers[f.n]
     /\ f.got # None => f.got.n = f.n /\ f.got \in defined[f.l]
  \/ /\ f.fn = "object" /\ f.n \in Classes /\ (f.l = Boot \/ f.n \in ClassFiles[f.l])
     /\ f.pc \in {"start", "derive"} /\ mode # "interpret"

\* Who calls whom.
Called(f, g) ==
  \/ /\ f.fn = "boot" /\ f.pc = "done"
     /\ g.fn \in {"array", "derive", "object"} /\ g.l = Boot /\ g.n = f.n
  \/ f.fn = "user" /\ f.pc = "record" /\ g.fn = "array" /\ g.l = f.l /\ g.n = f.n
  \/ f.fn = "user" /\ f.pc = "exit" /\ g.fn = "derive" /\ g.l = f.l /\ g.n = f.n
  \/ /\ f.fn = "user" /\ f.pc = "exit" /\ f.n \notin ClassFiles[f.l]
     /\ g.fn = "boot" /\ g.n = f.n
  \/ /\ f.fn = "array" /\ f.pc = "elem"
     /\ g.fn \in {"boot", "user"} /\ g.l = f.l /\ g.n = Elem[f.n]
  \/ f.fn = "array" /\ f.pc = "other" /\ g.fn = "boot" /\ g.n = f.n
  \/ /\ f.fn = "derive" /\ f.pc = "super"
     /\ g.fn \in {"boot", "user"} /\ g.l = f.l /\ g.n = Supers[f.n][f.i]
  \/ f.fn = "derive" /\ f.pc = "object" /\ g.fn = "object" /\ g.l = f.l /\ g.n = f.n

\* What an activation is answered.
Answer(f, y) ==
  /\ f.fn = "boot" /\ f.pc = "done" => y \in NoType \/ (Proper(Boot, y) /\ y.n = f.n)
  /\ f.fn = "user" /\ f.pc \in {"exit", "record"} => y = None \/ (Proper(f.l, y) /\ y.n = f.n)
  /\ f.fn = "array" /\ f.pc = "elem" => y = None \/ (y \in initiated[f.l] /\ y.n = Elem[f.n])
  /\ f.fn = "array" /\ f.pc = "other" => y = None \/ (Proper(f.l, y) /\ y.n = f.n)
  /\ f.fn = "derive" /\ f.pc = "super" =>
       y = None \/ (y \in initiated[f.l] /\ y.n = Supers[f.n][f.i])

Frames(st) == \A t \in Threads : \A i \in DOMAIN st[t] : Fits(st[t][i])
Linked(st) ==
  \A t \in Threads : \A i \in DOMAIN st[t] : i + 1 \in DOMAIN st[t] => Called(st[t][i], st[t][i + 1])
Answers(st, rt) == \A t \in Threads : st[t] # <<>> => Answer(st[t][Len(st[t])], rt[t])

\* An object is looked for in a derivation, or in place of one.
Asked(st) ==
  \A t \in Threads : \A i \in DOMAIN st[t] : st[t][i].fn = "object" =>
    (mode = "objects" /\ st[t][i].l = Boot) \/ (i > 1 /\ st[t][i - 1].fn = "derive")

\* One activation at a time derives a class.
Busy(f) == f.fn = "derive" /\ f.pc \in {"supers", "super", "object", "interp", "leave"}
Derivers(st) ==
  /\ \A t \in Threads : \A i \in DOMAIN st[t] : Busy(st[t][i]) =>
       /\ <<st[t][i].n, t>> \in deriving[st[t][i].l]
       /\ \A j \in DOMAIN st[t] : Busy(st[t][j]) /\ st[t][i].n = st[t][j].n /\ st[t][i].l = st[t][j].l => i = j
  /\ \A l \in Loaders : \A p, q \in deriving[l] : p[1] = q[1] => p = q

\* A class that may yet be interpreted is not there: while its supertypes are loaded,
\* and an object is looked for, unless that has just been found.
Opens(f, y) ==
  /\ f.fn = "derive" /\ Interprets(f.l)
  /\ f.pc \in {"supers", "super", "interp"} \/ (f.pc = "object" /\ y = None)
Open(t, i) == Opens(stack[t][i], IF i = Len(stack[t]) THEN ret[t] ELSE None)
Absent ==
  \A t \in Threads : \A i \in DOMAIN stack[t] : Open(t, i) =>
    Named(initiated[stack[t][i].l], stack[t][i].n) = {}

\* Who waits will be woken.
Waiting(st) ==
  \A t \in Threads : \A i \in DOMAIN st[t] : st[t][i].pc = "wait" =>
    waiters /\ \E p \in loading : p[1] = st[t][i].n /\ p[2] # t

FrameType ==
  [fn : {"boot", "user", "array", "derive", "object"}, l : Loaders, n : Names,
   pc : {"start", "wait", "body", "done", "java", "exit", "record", "elem", "other", "make",
         "enter", "supers", "super", "object", "interp", "leave", "unref", "derive"},
   i : Nat, own : BOOLEAN, got : Types \cup {None}]

TypeOK ==
  /\ mode \in Modes
  /\ initiated \in [Loaders -> SUBSET Types] /\ defined \in [Loaders -> SUBSET Types]
  /\ deriving \in [Loaders -> SUBSET (Names \X Threads)]
  /\ loading \in SUBSET (Names \X Threads) /\ waiters \in BOOLEAN
  /\ stack \in [Threads -> Seq(FrameType)]
  /\ ret \in [Threads -> Types \cup NoType]

IInv ==
  /\ ObjectsApart /\ ObjectsAlone
  /\ TypeOK /\ Trees /\ Frames(stack) /\ Linked(stack) /\ Answers(stack, ret)
  /\ Asked(stack) /\ Derivers(stack) /\ Absent /\ Waiting(stack)

\* The nodes of the class files, counted in sets that are finite.
Counted ==
  /\ files \in [Classes -> [hash : Nat, refs : Nat]]
  /\ \A n \in Classes :
       /\ IsFiniteSet(OwnIn(AllTypes(defined), n))
       /\ IsFiniteSet(DependentIn(AllTypes(defined), n))
       /\ IsFiniteSet(Derivations(stack, n))
  /\ FilesCounted

=============================================================================
