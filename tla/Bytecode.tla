------------------------------ MODULE Bytecode ------------------------------
(* What the Java virtual machine's instructions do to the operand stack of  *)
(* verified code, as types of values: I (also boolean, byte, char, short),  *)
(* F, L (a reference), R (a return address), J and D.  This is what the     *)
(* interpreter promises, and what the generated code does by its C types.   *)
EXTENDS Integers, Sequences, SequencesExt

CONSTANTS
  LocalVariables, \* the local variables
  Signatures      \* the types of the parameters of the methods that are called

VARIABLES stack, locals

\* A value of type J or D is two words, another is one.
Fields == {"I", "F", "L", "J", "D"}
Words(t) ==
  CASE t = "J" -> <<"J1", "J2">>
    [] t = "D" -> <<"D1", "D2">>
    [] OTHER -> <<t>>
Flat(ts) == FlattenSeq([i \in DOMAIN ts |-> Words(ts[i])])

-----------------------------------------------------------------------------
(* What an instruction takes from the stack and gives to it *)

Each(ops, takes, gives) == [ops |-> ops, takes |-> takes, gives |-> gives]

Effects ==
  {Each({"nop", "goto"}, <<>>, <<>>),
   Each({"iadd", "isub", "imul", "idiv", "irem", "iand", "ior", "ixor", "ishl", "ishr", "iushr"}, <<"I", "I">>, <<"I">>),
   Each({"ladd", "lsub", "lmul", "ldiv", "lrem", "land", "lor", "lxor"}, <<"J", "J">>, <<"J">>),
   Each({"lshl", "lshr", "lushr"}, <<"J", "I">>, <<"J">>),
   Each({"fadd", "fsub", "fmul", "fdiv", "frem"}, <<"F", "F">>, <<"F">>),
   Each({"dadd", "dsub", "dmul", "ddiv", "drem"}, <<"D", "D">>, <<"D">>),
   Each({"ineg", "i2b", "i2c", "i2s"}, <<"I">>, <<"I">>),
   Each({"lneg"}, <<"J">>, <<"J">>), Each({"fneg"}, <<"F">>, <<"F">>), Each({"dneg"}, <<"D">>, <<"D">>),
   Each({"i2l"}, <<"I">>, <<"J">>), Each({"i2f"}, <<"I">>, <<"F">>), Each({"i2d"}, <<"I">>, <<"D">>),
   Each({"l2i"}, <<"J">>, <<"I">>), Each({"l2f"}, <<"J">>, <<"F">>), Each({"l2d"}, <<"J">>, <<"D">>),
   Each({"f2i"}, <<"F">>, <<"I">>), Each({"f2l"}, <<"F">>, <<"J">>), Each({"f2d"}, <<"F">>, <<"D">>),
   Each({"d2i"}, <<"D">>, <<"I">>), Each({"d2l"}, <<"D">>, <<"J">>), Each({"d2f"}, <<"D">>, <<"F">>),
   Each({"lcmp"}, <<"J", "J">>, <<"I">>), Each({"fcmpl", "fcmpg"}, <<"F", "F">>, <<"I">>),
   Each({"dcmpl", "dcmpg"}, <<"D", "D">>, <<"I">>),
   Each({"ifeq", "ifne", "iflt", "ifge", "ifgt", "ifle", "tableswitch", "lookupswitch"}, <<"I">>, <<>>),
   Each({"if_icmpeq", "if_icmpne", "if_icmplt", "if_icmpge", "if_icmpgt", "if_icmple"}, <<"I", "I">>, <<>>),
   Each({"if_acmpeq", "if_acmpne"}, <<"L", "L">>, <<>>),
   Each({"ifnull", "ifnonnull", "monitorenter", "monitorexit", "athrow"}, <<"L">>, <<>>),
   Each({"return"}, <<>>, <<>>), Each({"ireturn"}, <<"I">>, <<>>), Each({"areturn"}, <<"L">>, <<>>),
   Each({"lreturn"}, <<"J">>, <<>>), Each({"freturn"}, <<"F">>, <<>>), Each({"dreturn"}, <<"D">>, <<>>),
   Each({"aaload"}, <<"L", "I">>, <<"L">>), Each({"baload", "caload", "saload", "iaload"}, <<"L", "I">>, <<"I">>),
   Each({"laload"}, <<"L", "I">>, <<"J">>), Each({"faload"}, <<"L", "I">>, <<"F">>),
   Each({"daload"}, <<"L", "I">>, <<"D">>),
   Each({"aastore"}, <<"L", "I", "L">>, <<>>),
   Each({"bastore", "castore", "sastore", "iastore"}, <<"L", "I", "I">>, <<>>),
   Each({"lastore"}, <<"L", "I", "J">>, <<>>), Each({"fastore"}, <<"L", "I", "F">>, <<>>),
   Each({"dastore"}, <<"L", "I", "D">>, <<>>),
   Each({"arraylength", "instanceof"}, <<"L">>, <<"I">>), Each({"checkcast"}, <<"L">>, <<"L">>),
   Each({"new"}, <<>>, <<"L">>), Each({"newarray", "anewarray"}, <<"I">>, <<"L">>),
   Each({"jsr"}, <<>>, <<"R">>)}

Effect(op) == CHOOSE e \in Effects : op \in e.ops
Returns == {"return", "ireturn", "areturn", "lreturn", "freturn", "dreturn"}

\* An instruction that moves words: how many, and where it puts them, counted from
\* the lowest.
Moves ==
  [pop |-> [takes |-> 1, gives |-> <<>>],
   pop2 |-> [takes |-> 2, gives |-> <<>>],
   dup |-> [takes |-> 1, gives |-> <<1, 1>>],
   dup_x1 |-> [takes |-> 2, gives |-> <<2, 1, 2>>],
   dup_x2 |-> [takes |-> 3, gives |-> <<3, 1, 2, 3>>],
   dup2 |-> [takes |-> 2, gives |-> <<1, 2, 1, 2>>],
   dup2_x1 |-> [takes |-> 3, gives |-> <<2, 3, 1, 2, 3>>],
   dup2_x2 |-> [takes |-> 4, gives |-> <<3, 4, 1, 2, 3, 4>>],
   swap |-> [takes |-> 2, gives |-> <<2, 1>>]]

Loads == [iload |-> "I", fload |-> "F", aload |-> "L", lload |-> "J", dload |-> "D"]
Stores == [istore |-> {"I"}, fstore |-> {"F"}, astore |-> {"L", "R"}, lstore |-> {"J"}, dstore |-> {"D"}]

-----------------------------------------------------------------------------
(* The machine *)

Below(n) == SubSeq(stack, 1, Len(stack) - n)
Above(n) == SubSeq(stack, Len(stack) - n + 1, Len(stack))
Has(ts) == Len(stack) >= Len(Flat(ts)) /\ Above(Len(Flat(ts))) = Flat(ts)
Becomes(ts, gs) == Has(ts) /\ stack' = Below(Len(Flat(ts))) \o Flat(gs) /\ UNCHANGED locals

\* A method returns to one that has nothing but the value then.
Return(op) ==
  /\ Has(Effect(op).takes) /\ stack' = Flat(Effect(op).takes)
  /\ locals' = [v \in LocalVariables |-> "none"]

\* No instruction takes a long or double apart, but pop2, dup2 and dup_x2 take it whole.
Splits(n) == Len(stack) > n /\ <<stack[Len(stack) - n], stack[Len(stack) - n + 1]>> \in {Words("J"), Words("D")}
CanMove(op) ==
  LET n == Moves[op].takes IN
  /\ Len(stack) >= n /\ ~Splits(n)
  /\ op \in {"pop", "dup", "dup_x1", "dup_x2", "swap"} => ~Splits(1)
  /\ op \in {"dup2", "dup2_x1", "dup2_x2"} => ~Splits(2)
Move(op) ==
  /\ CanMove(op)
  /\ stack' = Below(Moves[op].takes) \o [i \in DOMAIN Moves[op].gives |-> Above(Moves[op].takes)[Moves[op].gives[i]]]
  /\ UNCHANGED locals

CanLoad(op, v) == LET w == Words(Loads[op]) IN \A i \in DOMAIN w : v + i - 1 \in LocalVariables /\ locals[v + i - 1] = w[i]
Load(op, v) == CanLoad(op, v) /\ Becomes(<<>>, <<Loads[op]>>)

CanStore(op, v) == \E t \in Stores[op] : Has(<<t>>) /\ v + Len(Words(t)) - 1 \in LocalVariables
Store(op, v) ==
  \E t \in Stores[op] :
    /\ Has(<<t>>) /\ v + Len(Words(t)) - 1 \in LocalVariables
    /\ locals' = [w \in LocalVariables |-> IF w - v + 1 \in DOMAIN Words(t) THEN Words(t)[w - v + 1] ELSE locals[w]]
    /\ stack' = Below(Len(Words(t)))

\* A return address is stored, and used by ret only, which is not a load.
CanReturnTo(v) == locals[v] = "R"

\* An increment keeps the types, and a subroutine those of its caller.
KeepTypes(v) == (CanLoad("iload", v) \/ CanReturnTo(v)) /\ UNCHANGED <<stack, locals>>

\* Constants, fields, and methods of given types.
Constant(t) == Becomes(<<>>, <<t>>)
GetField(t) == Becomes(<<"L">>, <<t>>)
PutField(t) == Becomes(<<"L", t>>, <<>>)
PutStatic(t) == Becomes(<<t>>, <<>>)
Invoke(this, params, ret) == Becomes((IF this THEN <<"L">> ELSE <<>>) \o params, ret)
NewMultiArray(dims) == Becomes([i \in 1 .. dims |-> "I"], <<"L">>)

\* An exception leaves itself only on the stack.
Catch == stack' = <<"L">> /\ UNCHANGED locals

Init == stack = <<>> /\ locals = [v \in LocalVariables |-> "none"]

Next ==
  \/ \E e \in Effects : ~(e.ops \subseteq Returns) /\ Becomes(e.takes, e.gives)
  \/ \E op \in DOMAIN Moves : Move(op)
  \/ \E v \in LocalVariables, op \in DOMAIN Loads : Load(op, v)
  \/ \E v \in LocalVariables, op \in DOMAIN Stores : Store(op, v)
  \/ \E v \in LocalVariables : KeepTypes(v)
  \/ \E t \in Fields : Constant(t) \/ GetField(t) \/ PutField(t) \/ PutStatic(t)
  \/ \E params \in Signatures, this \in BOOLEAN, ret \in {<<>>} \cup {<<t>> : t \in Fields} : Invoke(this, params, ret)
  \/ \E dims \in 1 .. 2 : NewMultiArray(dims)
  \/ \E op \in Returns : Return(op)
  \/ Catch

Spec == Init /\ [][Next]_<<stack, locals>>
=============================================================================
