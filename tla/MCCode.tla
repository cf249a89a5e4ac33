------------------------------- MODULE MCCode -------------------------------
(* Small instances of the modules about code that runs, checked in one run: *)
(* "part" chooses the module whose steps a behaviour takes, and the other   *)
(* modules' variables keep their first values.  It extends Jni, Execution   *)
(* and Dispatch, whose properties are checked as they are, and instantiates *)
(* the others.                                                              *)
EXTENDS Jni, Execution, Dispatch, Integers, FiniteSets

CONSTANTS
  \* Execution
  i1, e1, e2, j1, k1, cons,
  \* Arguments
  MaxParams,
  \* Operands
  LocalVariables, Signatures, MaxWords,
  \* Dispatch
  Obj, Cl, Ci, Ki, Ca, Cb,
  \* ClassFile
  Files

VARIABLES
  part,
  sig, at, data,
  words, vars,
  file, phase, i, pos, constants, insns, offset_map, traps, linemaps

Ar == INSTANCE Arguments
Op == INSTANCE Operands
Cf == INSTANCE ClassFile

\* What the modules assume of their constants.
ASSUME JniAssumption
ASSUME ChainAssumption

-----------------------------------------------------------------------------
(* Execution: two compiled methods of which one catches, an interpreted one *)
(* that catches where it is not at its first instruction, an interpreted    *)
(* constructor, and native methods of both kinds.                           *)

MCKind ==
  [m \in Methods |-> CASE m \in {i1, cons} -> "interp" [] m \in {e1, e2} -> "elf" [] m = j1 -> "jni" [] m = k1 -> "jcni"]
Trap(start, end, type, target) == [start |-> start, end |-> end, type |-> type, target |-> target]
MCTraps ==
  [m \in Methods |->
     CASE m = i1 -> <<Trap(1, 2, NullPointer, 0)>>
       [] m = e1 -> <<Trap(1, 2, StackOverflow, 1), Trap(1, 2, AnyType, 0)>>
       [] OTHER -> <<>>]

-----------------------------------------------------------------------------
(* Operands: calls with no parameter, and with one word and two.            *)

MCSignatures == {<<>>, <<"F", "J">>}

-----------------------------------------------------------------------------
(* Dispatch: Object declares method h, its subclass Ca is abstract, and Cb  *)
(* is a final subclass of Ca in another package; of the interfaces, Ci      *)
(* extends Cl and Ki may extend Ci.  Both methods have the same bucket.     *)

MCChain == [t \in Types |-> CASE t = Obj -> <<Obj>> [] t = Cb -> <<Cb, Ca, Obj>> [] OTHER -> <<t, Obj>>]
MCSigs == <<"h", "m">>
MCBucket == [s \in {"h", "m"} |-> 0]
MCPackage == [t \in Types |-> IF t = Cb THEN "q" ELSE "p"]
Either(h, m) == {[s \in {"h", "m"} |-> IF s = "h" THEN a[1] ELSE a[2]] : a \in h \X m}
MCDeclarable ==
  [t \in Types |-> CASE t = Obj -> Either({"public"}, {"none", "package"})
                     [] t = Cl -> Either({"none"}, {"none"})
                     [] t = Ci -> Either({"none", "public"}, {"public"})
                     [] t = Ki -> Either({"none"}, {"none", "public"})
                     [] OTHER -> Either({"none", "public"}, {"none", "public", "package", "private"})]
MCImplementable ==
  [t \in Types |-> CASE t \in {Obj, Cl} -> {<<>>}
                     [] t = Ci -> {<<Cl>>}
                     [] t = Ki -> {<<>>, <<Ci>>}
                     [] t = Ca -> {<<>>, <<Ci>>}
                     [] OTHER -> {<<>>, <<Ci>>, <<Ki, Ci>>}]

-----------------------------------------------------------------------------
(* ClassFile: files that are well formed, and files that are not.           *)

ClassFileOf(pool, n, instructions, trap, line) ==
  [pool |-> pool, num_constants |-> n, code |-> instructions, traps |-> trap, lines |-> line]

\* Five constants in any order, some of which refer to places of any type.
Orders == {p \in [1 .. 5 -> {"Methodref", "NameAndType", "Class", "Utf8", "Long"}] : IsInjective(p)}
Place(p, type) == LET k == CHOOSE k \in 1 .. 5 : p[k] = type
                  IN  k + Cardinality({j \in 1 .. k - 1 : p[j] = "Long"})
Constant(p, k, nameAndType, utf8) ==
  [type |-> p[k],
   refs |-> CASE p[k] = "Methodref" -> <<Place(p, "Class"), nameAndType>>
              [] p[k] = "NameAndType" -> <<utf8, Place(p, "Utf8")>>
              [] p[k] = "Class" -> <<Place(p, "Utf8")>>
              [] OTHER -> <<>>]
PoolFiles ==
  {ClassFileOf([k \in 1 .. 5 |-> Constant(p, k, r, u)], n, <<>>, <<>>, <<>>) :
     p \in Orders, r \in 1 .. 6, u \in {1, 4}, n \in {6, 7}}

\* A branch to any byte and a switch, after an instruction of any length.
Instruction(kind, targets, wrong) == [kind |-> kind, targets |-> targets, wrong |-> wrong]
BranchFiles ==
  {ClassFileOf(<<>>, 1, <<Instruction(first, <<>>, FALSE), Instruction(branch, <<s>>, FALSE),
                          Instruction(switch, <<t, 0>>, wrong)>>, <<>>, <<>>) :
     first \in {"plain", "byte", "word", "wide", "multianewarray", "wide iinc"}, branch \in {"branch", "branch_w"},
     s \in 0 .. 12, switch \in {"lookupswitch", "tableswitch"}, t \in {0, 4, 5}, wrong \in BOOLEAN}

\* A trap from any byte to any byte, and a line.
TrapFiles ==
  {ClassFileOf(<<>>, 1, <<Instruction(first, <<>>, FALSE), Instruction("iinc", <<>>, FALSE), Instruction(last, <<>>, FALSE)>>,
               <<[start |-> s, end |-> e, target |-> t]>>, <<line>>) :
     first \in {"plain", "ldc"}, last \in {"plain", "invokeinterface"}, s \in 0 .. 8, e \in 0 .. 10, t \in 0 .. 3,
     line \in {0, 4, 5}}

MCFiles == PoolFiles \cup BranchFiles \cup TrapFiles

-----------------------------------------------------------------------------

execution == <<calls, st, java_stack, catch_list, native_locals, stack_limit, pending, in_vmex, jni_method, native, held>>
arguments == <<sig, at, data>>
operands == <<words, vars>>
classfile == <<file, phase, i, pos, constants, insns, offset_map, traps, linemaps>>

MCInit ==
  /\ part \in {"execution", "arguments", "operands", "jni", "dispatch", "classfile"}
  /\ ExecutionInit /\ Op!Init /\ Init /\ DispatchInit
  /\ IF part = "arguments" THEN Ar!Init ELSE sig = <<>> /\ at = "none" /\ data = <<>>
  /\ IF part = "classfile" THEN Cf!Init
     ELSE /\ file = <<>> /\ phase = "none" /\ i = 0 /\ pos = 0 /\ constants = <<>> /\ insns = <<>>
          /\ offset_map = <<>> /\ traps = <<>> /\ linemaps = <<>>

MCNext ==
  /\ UNCHANGED part
  /\ \/ part = "execution" /\ ExecutionNext /\ UNCHANGED <<arguments, operands, jnivars, dispatchvars, classfile>>
     \/ part = "arguments" /\ Ar!Next /\ UNCHANGED <<execution, operands, jnivars, dispatchvars, classfile>>
     \/ part = "operands" /\ Op!Next /\ UNCHANGED <<execution, arguments, jnivars, dispatchvars, classfile>>
     \/ part = "jni" /\ Next /\ UNCHANGED <<execution, arguments, operands, dispatchvars, classfile>>
     \/ part = "dispatch" /\ DispatchNext /\ UNCHANGED <<execution, arguments, operands, jnivars, classfile>>
     \/ part = "classfile" /\ Cf!Next /\ UNCHANGED <<execution, arguments, operands, jnivars, dispatchvars>>

MCSpec == MCInit /\ [][MCNext]_<<part, execution, arguments, operands, jnivars, dispatchvars, classfile>>

-----------------------------------------------------------------------------
(* The properties of the instantiated modules, whose comments are there *)

\* Arguments: a method has the parameters that its caller gave, in every form.
ArgumentsArrive == part = "arguments" => Ar!ArgumentsArrive

\* Operands: the interpreter's words are the values of the abstract machine.
RunsBytecode == Op!RunsBytecode

\* ClassFile: what the parser makes of a file is what its bytes mean.
ParsedAsWritten == part = "classfile" => Cf!ParsedAsWritten
=============================================================================
