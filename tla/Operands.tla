------------------------------ MODULE Operands ------------------------------
(* The operand stack and the local variables of _jc_interp() (interp.c): an *)
(* array of words, first the locals and then the stack, that instructions   *)
(* read and write by offsets from the stack pointer, as the type they       *)
(* believe a word has: STACKI(i), STACKJ(i), LOCALL(i), PUSHF(v) and so on. *)
(* The interpreter checks no types: it runs code that a verifier passed.    *)
EXTENDS Integers, Sequences, SequencesExt, FiniteSetsExt, Folds

CONSTANTS
  LocalVariables, \* the indexes of the local variables
  Signatures,    \* the types of the parameters of the methods that are called
  MaxWords       \* bound: an instruction finds at most so many words in use

VARIABLES
  words,         \* the operand stack, up to the stack pointer
  vars           \* the local variables

opvars == <<words, vars>>

\* A word is the whole of an int, float, reference or return address, or half of a
\* long or double; what was read as another type than it was written is "?".
WordsOf(t) == CASE t = "J" -> <<"J1", "J2">> [] t = "D" -> <<"D1", "D2">> [] OTHER -> <<t>>
Garbage(t) == [i \in DOMAIN WordsOf(t) |-> "?"]
Flat(ts) == FlattenSeq([i \in DOMAIN ts |-> WordsOf(ts[i])])

B == INSTANCE Bytecode WITH stack <- words, locals <- vars

\* Code that passed the verifier.
Verified(takes) == Len(words) + Cardinality({v \in LocalVariables : vars[v] # "none"}) <= MaxWords /\ B!Has(takes)

-----------------------------------------------------------------------------
(* An instruction pops words, reads some above the new stack pointer, and pushes. *)

I(i) == [at |-> i, type |-> "I"]
F(i) == [at |-> i, type |-> "F"]
L(i) == [at |-> i, type |-> "L"]
J(i) == [at |-> i, type |-> "J"]
D(i) == [at |-> i, type |-> "D"]
Row(ops, pop, reads, push) == [ops |-> ops, pop |-> pop, reads |-> reads, push |-> push]

ReadOK(base, r) ==
  LET w == WordsOf(r.type) IN base + r.at + Len(w) <= Len(words) /\ SubSeq(words, base + r.at + 1, base + r.at + Len(w)) = w

Popped(pop) == SubSeq(words, 1, Len(words) - pop)
Results(row) ==
  LET base == Len(words) - row.pop
      right == \A r \in row.reads : ReadOK(base, r)
  IN  FlattenSeq([i \in DOMAIN row.push |-> IF right THEN WordsOf(row.push[i]) ELSE Garbage(row.push[i])])

\* What is stored, or passed on, is read too.
Consumed(row) == \A r \in row.reads : ReadOK(Len(words) - row.pop, r)

CodeA ==
  {Row({"aaload"}, 2, {L(0), I(1)}, <<"L">>),
   Row({"aastore"}, 3, {L(0), I(1), L(2)}, <<>>),
   Row({"anewarray"}, 1, {I(0)}, <<"L">>),
   Row({"arraylength"}, 1, {L(0)}, <<"I">>),
   Row({"baload", "caload"}, 2, {L(0), I(1)}, <<"I">>),
   Row({"bastore", "castore"}, 3, {L(0), I(1), I(2)}, <<>>),
   Row({"checkcast"}, 0, {L(-1)}, <<>>)}

CodeD ==
  {Row({"d2f"}, 2, {D(0)}, <<"F">>),
   Row({"d2i"}, 2, {D(0)}, <<"I">>),
   Row({"d2l"}, 2, {D(0)}, <<"J">>),
   Row({"dadd", "ddiv", "dmul", "drem", "dsub"}, 4, {D(0), D(2)}, <<"D">>),
   Row({"daload"}, 2, {L(0), I(1)}, <<"D">>),
   Row({"dastore"}, 4, {L(0), I(1), D(2)}, <<>>),
   Row({"dcmpg", "dcmpl"}, 4, {D(0), D(2)}, <<"I">>),
   Row({"dneg"}, 2, {D(0)}, <<"D">>)}

CodeF ==
  {Row({"f2d"}, 1, {F(0)}, <<"D">>),
   Row({"f2i"}, 1, {F(0)}, <<"I">>),
   Row({"f2l"}, 1, {F(0)}, <<"J">>),
   Row({"fadd", "fdiv", "fmul", "frem", "fsub"}, 2, {F(0), F(1)}, <<"F">>),
   Row({"faload"}, 2, {L(0), I(1)}, <<"F">>),
   Row({"fastore"}, 3, {L(0), I(1), F(2)}, <<>>),
   Row({"fcmpg", "fcmpl"}, 2, {F(0), F(1)}, <<"I">>),
   Row({"fneg"}, 1, {F(0)}, <<"F">>)}

CodeI ==
  {Row({"goto"}, 0, {}, <<>>),
   Row({"i2b", "i2c", "i2s"}, 1, {I(0)}, <<"I">>),
   Row({"i2d"}, 1, {I(0)}, <<"D">>),
   Row({"i2f"}, 1, {I(0)}, <<"F">>),
   Row({"i2l"}, 1, {I(0)}, <<"J">>),
   Row({"iadd", "iand", "idiv"}, 2, {I(0), I(1)}, <<"I">>),
   Row({"iaload"}, 2, {L(0), I(1)}, <<"I">>),
   Row({"iastore"}, 3, {L(0), I(1), I(2)}, <<>>)}

CodeIf ==
  {Row({"if_acmpeq", "if_acmpne"}, 2, {L(0), L(1)}, <<>>),
   Row({"if_icmpeq", "if_icmpne", "if_icmplt", "if_icmpge", "if_icmpgt", "if_icmple"}, 2, {I(0), I(1)}, <<>>),
   Row({"ifeq", "ifne", "iflt", "ifge", "ifgt", "ifle"}, 1, {I(0)}, <<>>),
   Row({"ifnonnull", "ifnull"}, 1, {L(0)}, <<>>),
   Row({"imul"}, 2, {I(0), I(1)}, <<"I">>),
   Row({"ineg"}, 1, {I(0)}, <<"I">>),
   Row({"instanceof"}, 1, {L(0)}, <<"I">>)}

CodeIor ==
  {Row({"ior", "irem", "ishl", "ishr", "isub", "iushr", "ixor"}, 2, {I(0), I(1)}, <<"I">>),
   Row({"jsr"}, 0, {}, <<"R">>)}

CodeL ==
  {Row({"l2d"}, 2, {J(0)}, <<"D">>),
   Row({"l2f"}, 2, {J(0)}, <<"F">>),
   Row({"l2i"}, 2, {J(0)}, <<"I">>),
   Row({"ladd", "land", "ldiv", "lmul", "lor", "lrem", "lsub", "lxor"}, 4, {J(0), J(2)}, <<"J">>),
   Row({"laload"}, 2, {L(0), I(1)}, <<"J">>),
   Row({"lastore"}, 4, {L(0), I(1), J(2)}, <<>>),
   Row({"lcmp"}, 4, {J(0), J(2)}, <<"I">>),
   Row({"lneg"}, 2, {J(0)}, <<"J">>),
   Row({"lookupswitch"}, 1, {I(0)}, <<>>),
   Row({"lshl", "lshr", "lushr"}, 3, {J(0), I(2)}, <<"J">>)}

CodeM ==
  {Row({"monitorenter", "monitorexit"}, 1, {L(0)}, <<>>),
   Row({"new"}, 0, {}, <<"L">>),
   Row({"newarray"}, 1, {I(0)}, <<"L">>),
   Row({"nop"}, 0, {}, <<>>)}

CodeS ==
  {Row({"saload"}, 2, {L(0), I(1)}, <<"I">>),
   Row({"sastore"}, 3, {L(0), I(1), I(2)}, <<>>),
   Row({"tableswitch"}, 1, {I(0)}, <<>>)}

Code == UNION {CodeA, CodeD, CodeF, CodeI, CodeIf, CodeIor, CodeL, CodeM, CodeS}

Operate(row) ==
  /\ words' = IF Consumed(row) THEN Popped(row.pop) \o Results(row) ELSE <<"?">>
  /\ UNCHANGED vars
Execute(row) == (\E op \in row.ops : Verified(B!Effect(op).takes)) /\ Operate(row)

-----------------------------------------------------------------------------
(* dup, pop and their kin copy words from one place to another, in order.   *)
(* An assignment <<i, j>> is STACKI(i) = STACKI(j); i and j may be above.   *)

Shuffles ==
  [dup |-> [pop |-> -1, copies |-> <<<<0, -1>>>>],
   dup_x1 |-> [pop |-> -1, copies |-> <<<<0, -1>>, <<-1, -2>>, <<-2, 0>>>>],
   dup_x2 |-> [pop |-> -1, copies |-> <<<<0, -1>>, <<-1, -2>>, <<-2, -3>>, <<-3, 0>>>>],
   dup2 |-> [pop |-> -2, copies |-> <<<<1, -1>>, <<0, -2>>>>],
   dup2_x1 |-> [pop |-> -2, copies |-> <<<<1, -1>>, <<0, -2>>, <<-1, -3>>, <<-2, 1>>, <<-3, 0>>>>],
   dup2_x2 |-> [pop |-> -2,
                copies |-> <<<<1, -1>>, <<0, -2>>, <<-1, -3>>, <<-2, -4>>, <<-3, 1>>, <<-4, 0>>>>],
   pop |-> [pop |-> 1, copies |-> <<>>],
   pop2 |-> [pop |-> 2, copies |-> <<>>],
   \* "temp" is what swap calls its local copy of STACKI(-2).
   swap |-> [pop |-> 0, copies |-> <<<<1, -2>>, <<-2, -1>>, <<-1, 1>>>>]]

Shuffle(op) ==
  LET sp == Len(words)
      Copy(ws, c) == [ws EXCEPT ![sp + c[1] + 1] = ws[sp + c[2] + 1]]
      room == words \o <<"?", "?">>
  IN  /\ B!CanMove(op) /\ Verified(<<>>)
      /\ words' = SubSeq(FoldLeft(Copy, room, Shuffles[op].copies), 1, sp - Shuffles[op].pop)
      /\ UNCHANGED vars

-----------------------------------------------------------------------------
(* Local variables *)

LoadRows == [iload |-> "I", fload |-> "F", aload |-> "L", lload |-> "J", dload |-> "D"]
Load(op, v) ==
  LET t == LoadRows[op]
      w == WordsOf(t)
  IN  /\ B!CanLoad(op, v) /\ Verified(<<>>)
      /\ words' = words \o [i \in DOMAIN w |-> vars[v + i - 1]]
      /\ UNCHANGED vars

\* How many words are popped and stored.
StoreRows == [istore |-> 1, fstore |-> 1, astore |-> 1, lstore |-> 2, dstore |-> 2]
Store(op, v) ==
  LET n == StoreRows[op]
      read == SubSeq(words, Len(words) - n + 1, Len(words))
  IN  /\ B!CanStore(op, v) /\ Verified(<<>>)
      /\ vars' = [w \in LocalVariables |-> IF w \in v .. v + n - 1 THEN read[w - v + 1] ELSE vars[w]]
      /\ words' = Popped(n)

\* iinc adds to a local variable, and ret goes where one says.
Iinc(v) ==
  /\ B!CanLoad("iload", v) /\ Verified(<<>>)
  /\ vars' = [vars EXCEPT ![v] = IF @ = "I" THEN "I" ELSE "?"]
  /\ UNCHANGED words

Ret(v) ==
  /\ B!CanReturnTo(v) /\ Verified(<<>>)
  /\ words' = IF vars[v] = "R" THEN words ELSE <<"?">>
  /\ UNCHANGED vars

-----------------------------------------------------------------------------
(* Fields, constants, arrays and methods *)

\* ldc copies a word, ldc2_w two; ldc_string makes the string and becomes ldc.
Constant(t) ==
  /\ Verified(<<>>)
  /\ words' = words \o WordsOf(t)
  /\ UNCHANGED vars

GetField(t) == Verified(<<"L">>) /\ Operate([pop |-> 1, reads |-> {L(0)}, push |-> <<t>>])
GetStatic(t) == Verified(<<>>) /\ Operate([pop |-> 0, reads |-> {}, push |-> <<t>>])

Dword(t) == t \in {"J", "D"}
PutField(t) ==
  /\ Verified(<<"L", t>>)
  /\ Operate([pop |-> (IF Dword(t) THEN 2 ELSE 1) + 1, reads |-> {L(0), [at |-> 1, type |-> t]}, push |-> <<>>])
PutStatic(t) ==
  /\ Verified(<<t>>)
  /\ Operate([pop |-> IF Dword(t) THEN 2 ELSE 1, reads |-> {[at |-> 0, type |-> t]}, push |-> <<>>])

\* Mutant: long and double parameters count as one word.
InvokePopNarrow(this, params) == Len(params) + (IF this THEN 1 ELSE 0)

\* The linker counts the words to pop.
InvokePop(this, params) ==
  Len(params) + (IF this THEN 1 ELSE 0) + Cardinality({j \in DOMAIN params : Dword(params[j])})
Invoke(this, params, ret) ==
  LET first == IF this THEN 1 ELSE 0
      passed == [j \in DOMAIN params |-> [at |-> first + Len(Flat(SubSeq(params, 1, j - 1))), type |-> params[j]]]
  IN  /\ Verified((IF this THEN <<"L">> ELSE <<>>) \o params)
      /\ Operate([pop |-> InvokePop(this, params), reads |-> {passed[j] : j \in DOMAIN params} \cup (IF this THEN {L(0)} ELSE {}),
                  push |-> ret])

NewMultiArray(dims) ==
  /\ Verified([i \in 1 .. dims |-> "I"])
  /\ Operate([pop |-> dims, reads |-> {I(i) : i \in 0 .. dims - 1}, push |-> <<"L">>])

-----------------------------------------------------------------------------
(* The end of a method, and exceptions *)

ReturnRows ==
  {Row({"areturn"}, 1, {L(0)}, <<"L">>), Row({"ireturn"}, 1, {I(0)}, <<"I">>),
   Row({"freturn"}, 1, {F(0)}, <<"F">>), Row({"dreturn"}, 2, {D(0)}, <<"D">>),
   Row({"lreturn"}, 2, {J(0)}, <<"J">>), Row({"return"}, 0, {}, <<>>)}

\* The value goes through env->retval to the stack of the method that called.
Return(row) ==
  /\ \E op \in row.ops : Verified(B!Effect(op).takes)
  /\ words' = Results(row)
  /\ vars' = [v \in LocalVariables |-> "none"]

\* athrow, and what any instruction may find wrong after it popped its operands.
Exception ==
  /\ Verified(<<>>)
  /\ words' = WordsOf("L")
  /\ UNCHANGED vars

-----------------------------------------------------------------------------
Init == words = <<>> /\ vars = [v \in LocalVariables |-> "none"]

Next ==
  \/ \E row \in Code : Execute(row)
  \/ \E op \in DOMAIN Shuffles : Shuffle(op)
  \/ \E v \in LocalVariables :
       (\E op \in DOMAIN LoadRows : Load(op, v)) \/ (\E op \in DOMAIN StoreRows : Store(op, v)) \/ Iinc(v) \/ Ret(v)
  \/ \E t \in B!Fields : Constant(t) \/ GetField(t) \/ GetStatic(t) \/ PutField(t) \/ PutStatic(t)
  \/ \E params \in Signatures, this \in BOOLEAN, ret \in {<<>>} \cup {<<t>> : t \in B!Fields} :
       Invoke(this, params, ret)
  \/ \E dims \in 1 .. 2 : NewMultiArray(dims)
  \/ (\E row \in ReturnRows : Return(row)) \/ Exception

Spec == Init /\ [][Next]_opvars

-----------------------------------------------------------------------------
(* Properties *)

\* By its stack pointer, its offsets and its untyped words the interpreter does to
\* the stack and the local variables what the bytecode says, also after a long
\* was half overwritten, and with longs and doubles among what dup_x2 moves.
RunsBytecode == B!Spec
=============================================================================
