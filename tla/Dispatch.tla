------------------------------ MODULE Dispatch ------------------------------
(* Which method a call runs, and which types a type can be assigned to: the *)
(* tables that derive2.c, resolve.c and resolve2.c build for interpreted    *)
(* types (vtable and mtable, interface methods, instanceof), and the code   *)
(* of interp.c, c_support.c, jc_defs.h, reflect.c, invoke.c and instance.c  *)
(* that looks into them.  The vtable holds the functions of the methods in  *)
(* the mtable, so one table stands for both.                                *)
EXTENDS Integers, Sequences, SequencesExt

CONSTANTS
  Types,          \* classes and interfaces
  Interfaces,     \* \subseteq Types
  Chain,          \* Chain[t]: t, its superclass, and so on to java.lang.Object
  Abstract,       \* the abstract classes
  Final,          \* the final classes
  ArraySupers,    \* the types, but arrays, that an array can be assigned to
  Sigs,           \* the names of methods with their signatures, in order
  Bucket,         \* Bucket[s]: the low bits of the hash of s
  Package,        \* Package[t]
  Declarable,     \* Declarable[t]: the functions from signatures to access that t may have
  Implementable,  \* Implementable[t]: the sequences of interfaces that t may declare
  JniInterfaces,  \* whether JNI functions are given methods of interfaces
  LowerArrays,    \* whether arrays are compared with arrays of more dimensions
  NoMethod

\* The superclasses of a superclass are those of t.  An interface has java.lang.Object
\* for its superclass, and declares interfaces.
ChainAssumption ==
  /\ Interfaces \subseteq Types
  /\ \A t \in Types :
       /\ Chain[t] \in Seq(Types) /\ Chain[t] # <<>> /\ Chain[t][1] = t
       /\ \A i \in DOMAIN Chain[t] : Chain[Chain[t][i]] = SubSeq(Chain[t], i, Len(Chain[t]))
       /\ \A i \in Interfaces : ToSet(Chain[i]) \subseteq {i} \cup ToSet(Chain[t])
       /\ Implementable[t] \subseteq Seq(Interfaces)

VARIABLES
  status,       \* "unknown", "loaded" or "resolved"
  access,       \* access[t][s]: "none", or the access of the method s that t declares
  interfaces,   \* interfaces[t]: the interfaces that t declares
  mtable,       \* mtable[t]: the virtual methods
  imethods,     \* imethods[t][b]: the list of bucket b of imethod_hash_table
  quick,        \* quick[t][b]: the entry of imethod_quick_table, or NoMethod
  instanceof    \* instanceof[t]: the types in instanceof_hash_table

dispatchvars == <<status, access, interfaces, mtable, imethods, quick, instanceof>>

Buckets == {Bucket[s] : s \in ToSet(Sigs)}
Supers(t) == Tail(Chain[t])
Method(t, s) == [class |-> t, sig |-> s]
Declares(t, s) == access[t][s] # "none"
IsPublic(m) == access[m.class][m.sig] = "public"

Declared(t, declared) == LET own == SelectSeq(Sigs, LAMBDA s : declared[s] # "none")
                         IN  [i \in DOMAIN own |-> Method(t, own[i])]
MethodsOf(t) == Declared(t, access[t])

AnyMethod == {m \in [class : Types, sig : ToSet(Sigs)] : Declares(m.class, m.sig)}
Public == {m \in AnyMethod : IsPublic(m)}

\* The first of the wanted methods s that the classes of a sequence declare.
FirstMethod(classes, s, wanted) ==
  LET i == SelectInSeq(classes, LAMBDA c : Method(c, s) \in wanted)
  IN  IF i = 0 THEN NoMethod ELSE Method(classes[i], s)

-----------------------------------------------------------------------------
(* Loading: derive2.c *)

\* A class has a new place for every method it declares, whether the method overrides
\* another or not; the places of its superclasses are filled in when it is resolved.
Derive(t) ==
  /\ status[t] = "unknown"
  /\ \A c \in ToSet(Supers(t)) : status[c] # "unknown"
  /\ \E declared \in Declarable[t], implemented \in Implementable[t] :
       /\ \A i \in ToSet(implemented) : status[i] # "unknown"
       /\ access' = [access EXCEPT ![t] = declared]
       /\ interfaces' = [interfaces EXCEPT ![t] = implemented]
       /\ mtable' = [mtable EXCEPT ![t] =
            IF t \in Interfaces THEN <<>>
            ELSE [i \in 1 .. (IF Supers(t) = <<>> THEN 0 ELSE Len(mtable[Supers(t)[1]])) |-> NoMethod]
                   \o Declared(t, declared)]
  /\ status' = [status EXCEPT ![t] = "loaded"]
  /\ UNCHANGED <<imethods, quick, instanceof>>

\* The methods of interfaces have no place, and their field is zero.
vtable_index(m) ==
  IF m.class \in Interfaces THEN 1
  ELSE Len(mtable[m.class]) - Len(MethodsOf(m.class)) + SelectInSeq(MethodsOf(m.class), LAMBDA n : n = m)

-----------------------------------------------------------------------------
(* Resolution: resolve.c and resolve2.c *)

\* A method takes the places of all methods of superclasses with its signature.
_jc_resolve_vtable(t) ==
  LET inherited == IF Supers(t) = <<>> THEN <<>> ELSE mtable[Supers(t)[1]]
      Places(s) == {vtable_index(Method(c, s)) : c \in {c \in ToSet(Supers(t)) : Declares(c, s)}}
  IN  [i \in DOMAIN mtable[t] |->
         LET overriding == SelectSeq(Sigs, LAMBDA s : Declares(t, s) /\ i \in Places(s))
         IN  IF overriding # <<>> THEN Method(t, overriding[1])
             ELSE IF i \in DOMAIN inherited THEN inherited[i] ELSE mtable[t][i]]

\* The methods of the interfaces of t, of their superinterfaces and of the superclass;
\* those of a superclass of a superclass are found more than once.
_jc_add_iface_methods[t \in Types] ==
  FlattenSeq([i \in DOMAIN interfaces[t] |-> MethodsOf(interfaces[t][i]) \o _jc_add_iface_methods[interfaces[t][i]]])
    \o (IF Supers(t) = <<>> THEN <<>> ELSE _jc_add_iface_methods[Supers(t)[1]])

\* Mutant: a method that is not public may implement.
ImplementationAny(t, m) == FirstMethod(Chain[t], m.sig, AnyMethod)

\* A method of interface type is resolved to the first public method of a superclass.
Implementation(t, m) == FirstMethod(Chain[t], m.sig, Public)

\* Equal neighbours are removed; after one is removed, the next pair is not compared.
RemoveDuplicates(s) ==
  LET Compare(rest, i) == IF i < Len(rest) /\ rest[i] = rest[i + 1] THEN RemoveAt(rest, i) ELSE rest
  IN  FoldLeft(Compare, s, [i \in DOMAIN s |-> i])

\* The methods in the tables: NoMethod among them is a NoSuchMethodError.
InterfaceMethods(t) ==
  LET all == FlattenSeq([i \in DOMAIN Chain[t] |-> _jc_add_iface_methods[Chain[t][i]]])
  IN  [i \in DOMAIN all |-> Implementation(t, all[i])]

_jc_derive_imethod_tables(t) ==
  LET methods == RemoveDuplicates(FlattenSeq([i \in DOMAIN Sigs |->
                   SelectSeq(InterfaceMethods(t), LAMBDA m : m.sig = Sigs[i])]))
  IN  [b \in Buckets |-> Reverse(SelectSeq(methods, LAMBDA m : Bucket[m.sig] = b))]

\* Mutant: the superclasses' interfaces are left out.
_jc_derive_instanceof_own(t) ==
  ToSet(Chain[t]) \cup UNION {instanceof[j] : j \in ToSet(interfaces[t])}

\* The list of a type: its own interfaces' tables, its superclasses and their interfaces' tables.
_jc_derive_instanceof_table(t) ==
  ToSet(Chain[t]) \cup UNION {UNION {instanceof[i] : i \in ToSet(interfaces[c])} : c \in ToSet(Chain[t])}

\* _jc_resolve_type, once the superclass and the interfaces are resolved.  A type that
\* lacks a method of an interface is not resolved, but its mtable has been filled in.
Resolve(t) ==
  /\ status[t] = "loaded"
  /\ \A s \in ToSet(Supers(t)) \cup ToSet(interfaces[t]) : status[s] = "resolved"
  /\ mtable' = [mtable EXCEPT ![t] = _jc_resolve_vtable(t)]
  /\ LET isClass == t \notin Interfaces \cup Abstract
         table == IF isClass THEN _jc_derive_imethod_tables(t) ELSE [b \in Buckets |-> <<>>]
     IN  IF isClass /\ NoMethod \in ToSet(InterfaceMethods(t))
         THEN UNCHANGED <<imethods, quick, instanceof, status>>
         ELSE /\ imethods' = [imethods EXCEPT ![t] = table]
              /\ quick' = [quick EXCEPT ![t] =
                             [b \in Buckets |-> IF Len(table[b]) = 1 THEN table[b][1] ELSE NoMethod]]
              /\ instanceof' = [instanceof EXCEPT ![t] = _jc_derive_instanceof_table(t)]
              /\ status' = [status EXCEPT ![t] = "resolved"]
  /\ UNCHANGED <<access, interfaces>>

DispatchInit ==
  /\ status = [t \in Types |-> "unknown"]
  /\ access = [t \in Types |-> [s \in ToSet(Sigs) |-> "none"]]
  /\ interfaces = [t \in Types |-> <<>>]
  /\ mtable = [t \in Types |-> <<>>]
  /\ imethods = [t \in Types |-> [b \in Buckets |-> <<>>]]
  /\ quick = [t \in Types |-> [b \in Buckets |-> NoMethod]]
  /\ instanceof = [t \in Types |-> {}]

DispatchNext == \E t \in Types : Derive(t) \/ Resolve(t)

DispatchSpec == DispatchInit /\ [][DispatchNext]_dispatchvars

-----------------------------------------------------------------------------
(* Calls *)

\* The methods that _jc_resolve_method looks at: superclasses first, then interfaces.
_jc_resolve_method[t \in Types] ==
  [s \in ToSet(Sigs) |->
     LET inClass == FirstMethod(Chain[t], s, AnyMethod)
         all == FlattenSeq([i \in DOMAIN Chain[t] |-> interfaces[Chain[t][i]]])
         i == SelectInSeq(all, LAMBDA c : _jc_resolve_method[c][s] # NoMethod)
     IN  IF inClass # NoMethod THEN inClass ELSE IF i = 0 THEN NoMethod ELSE _jc_resolve_method[all[i]][s]]

\* _jc_resolve_bytecode: an instruction of a method of class "from" that names method s of
\* type t becomes an opcode and a method; NoMethod is an error.
Linked(opcode, from, t, s) ==
  LET m == _jc_resolve_method[t][s]
      virtual == IF opcode = "invokeinterface" THEN "invokevirtual" ELSE opcode
  IN  IF m = NoMethod \/ (opcode = "invokeinterface" /\ t \notin Interfaces) \/ (opcode # "invokeinterface" /\ t \in Interfaces)
      THEN NoMethod
      ELSE IF m.class \in Interfaces THEN [opcode |-> "invokeinterface", method |-> m]
      ELSE IF virtual = "invokespecial" /\ m.class \in ToSet(Supers(from))
           THEN [opcode |-> virtual, method |-> FirstMethod(Supers(from), s, AnyMethod)]
      ELSE [opcode |-> IF m.class \in Final THEN "invokespecial" ELSE virtual, method |-> m]

\* The first method of a bucket with the signature.
InTable(t, s) ==
  LET list == imethods[t][Bucket[s]]
      i == SelectInSeq(list, LAMBDA m : m.sig = s)
  IN  IF i = 0 THEN NoMethod ELSE list[i]

_jc_invoke_virtual(t, m) == mtable[t][vtable_index(m)]

\* The interpreter wants a public method for that of an interface.
InterpInterface(t, m) ==
  LET found == InTable(t, m.sig)
  IN  IF m.class \in instanceof[t] /\ found # NoMethod /\ IsPublic(found) THEN found ELSE NoMethod

\* Generated code only looks for one.
_JC_INVOKE_INTERFACE(t, m) ==
  LET entry == quick[t][Bucket[m.sig]] IN IF entry # NoMethod THEN entry ELSE InTable(t, m.sig)

\* Reflection calls the one it finds as a virtual method.
_jc_reflect_invoke(t, m) ==
  LET found == InTable(t, m.sig)
  IN  IF m.class \in instanceof[t] /\ found # NoMethod THEN _jc_invoke_virtual(t, found) ELSE NoMethod

\* The method that runs for an object of type t, where NoMethod is an error.  The JNI
\* functions know of virtual methods only.
Dispatched(caller, opcode, m, t) ==
  CASE opcode = "invokespecial" -> m
    [] opcode = "invokeinterface" /\ caller = "interp" -> InterpInterface(t, m)
    [] opcode = "invokeinterface" /\ caller = "compiled" -> _JC_INVOKE_INTERFACE(t, m)
    [] opcode = "invokeinterface" /\ caller = "reflect" -> _jc_reflect_invoke(t, m)
    [] OTHER -> _jc_invoke_virtual(t, m)

\* _jc_assignable_from: a type is a record of a base type and of dimensions.
_jc_assignable_from(from, to) ==
  \/ from = to
  \/ from.dims > 0 /\ to.dims > 0 /\ from.dims > to.dims /\ to.base \in ArraySupers
  \/ from.dims > 0 /\ to.dims = 0 /\ to.base \in ArraySupers
  \/ /\ IF from.dims > 0 THEN to.dims >= from.dims ELSE to.dims = 0
     /\ to.base \in instanceof[from.base]

-----------------------------------------------------------------------------
(* Properties *)

Resolved == {t \in Types : status[t] = "resolved"}
Instantiable == Resolved \ (Interfaces \cup Abstract)

\* The superinterfaces of a type, by the declarations.
SuperInterfaces[t \in Types] ==
  UNION {UNION {{i} \cup SuperInterfaces[i] : i \in ToSet(interfaces[c])} : c \in ToSet(Chain[t])}

\* Whether the method m of a class replaces the method n of a superclass: a private method
\* is never replaced, and one with package access is in its package only.
Overrides(m, n) ==
  \/ access[n.class][n.sig] = "public"
  \/ access[n.class][n.sig] = "package" /\ Package[m.class] = Package[n.class]

\* What Java runs.  For a method of a class: from the object's class up, the first method
\* that is the one that the call names or overrides it.  For a method of an interface:
\* the first method with the signature, whatever its access, and an error unless it is
\* public.
Selected(t, m) ==
  IF m.class \in Interfaces
  THEN LET first == FirstMethod(Chain[t], m.sig, AnyMethod)
       IN  IF first \in Public THEN first ELSE NoMethod
  ELSE FirstMethod(Chain[t], m.sig, {n \in AnyMethod : n = m \/ (m.class \in ToSet(Supers(n.class)) /\ Overrides(n, m))})

\* Where the code is not Java.  Its tables have one method for a signature, so that the
\* method of a subclass replaces a private method, and one with package access in another
\* package; and they have the public method of a superclass for an interface's although
\* the subclass has a method that is not public, which no compiler lets pass.
Hidden(t, m) ==
  LET first == FirstMethod(Chain[t], m.sig, AnyMethod)
  IN  IF m.class \in Interfaces
      THEN first \notin Public /\ FirstMethod(Chain[t], m.sig, Public) # NoMethod
      ELSE first # m /\ ~Overrides(first, m)

\* Every way to call a method of an object, in the interpreter (which resolves calls to
\* opcodes of its own), in generated code, by reflection and from native code, runs the
\* method that Java selects, or none where Java selects none: the copies of superclasses'
\* tables, the extra places of overriding methods, the lists that duplicates are left in,
\* the entries of the quick table, the second lookup of reflection and the calls that
\* change from class to interface agree.
CallsSelect ==
  \A t \in Instantiable, s \in ToSet(Sigs) :
    /\ \A named \in ToSet(Chain[t]) \cup SuperInterfaces[t] :
         LET opcode == IF named \in Interfaces THEN "invokeinterface" ELSE "invokevirtual"
             linked == Linked(opcode, named, named, s)
         IN  linked # NoMethod /\ ~Hidden(t, linked.method) =>
               /\ Dispatched("interp", linked.opcode, linked.method, t) = Selected(t, linked.method)
               /\ named = linked.method.class =>
                    \A caller \in {"compiled", "reflect", "jni"} :
                      (caller = "jni" /\ named \in Interfaces => JniInterfaces) =>
                        Dispatched(caller, opcode, linked.method, t) = Selected(t, linked.method)
    /\ \A named \in ToSet(Supers(t)) :
         LET linked == Linked("invokespecial", t, named, s)
         IN  linked # NoMethod /\ linked.opcode = "invokespecial" =>
               linked.method = FirstMethod(Supers(t), s, AnyMethod)

\* A type without arrays is assignable to its superclasses and superinterfaces, an array
\* to what its elements are assignable to.
Subtype(from, to) ==
  \/ from.dims = to.dims /\ (from.base = to.base \/ to.base \in ToSet(Chain[from.base]) \cup SuperInterfaces[from.base])
  \/ from.dims > to.dims /\ to.base \in ArraySupers

\* The instanceof table of a type, built from the tables of its interfaces only, and the
\* shortcuts for arrays say what the declarations say.  The comparison of an array with
\* an array of more dimensions looks at the base types only: LowerArrays excludes it.
AssignableIsSubtype ==
  \A f, t \in Resolved, i, j \in 0 .. 2 :
    (i > 0 /\ i < j => LowerArrays) =>
      LET from == [base |-> f, dims |-> i]
          to == [base |-> t, dims |-> j]
      IN  _jc_assignable_from(from, to) <=> Subtype(from, to)
=============================================================================
