----------------------------- MODULE Arguments -----------------------------
(* How the parameters of a method get from the code that calls it to the    *)
(* method: the conversions of invoke.c, interp.c and arch_functions.c (the  *)
(* i386 with _JC_I386_REGPARM).  Every kind of caller has them in a form of *)
(* its own, and so has every kind of method:                                *)
(*   "values" an array of jvalues,     "words" an array of _jc_words,       *)
(*   "va"     C's variable arguments,  "regs"  registers and the C stack,   *)
(*   "jni"    the C stack of a JNI function, "locals" local variables.      *)
EXTENDS Integers, Sequences, SequencesExt, Folds

CONSTANTS MaxParams     \* bound: the parameters of a method

VARIABLES
  sig,      \* the method: whether it is static, and the types of its parameters
  at,       \* the form that the parameters have
  data      \* the parameters in that form

argvars == <<sig, at, data>>

\* "I" stands for the integers of one word, "L" for references.
ParamTypes == {"I", "L", "F", "J", "D"}
_jc_dword_type == {"J", "D"}

\* A word of memory: a part of parameter k.
Word(k, part) == <<k, part>>
Parts(k, t) == IF t \in _jc_dword_type THEN <<Word(k, "low"), Word(k, "high")>> ELSE <<Word(k, "all")>>
\* C passes a float to a function with variable arguments as a double.
Promoted(w) == <<<<w[1], "double, low">>, <<w[1], "double, high">>>>
Reference(w) == <<w[1], "reference">>
Env == Word(0, "env")
This == Word(0, "this")
Garbage == Word(0, "garbage")

Nth(s, i) == IF i \in DOMAIN s THEN s[i] ELSE Garbage
Take(s, n) == [i \in 1 .. n |-> Nth(s, i)]
Drop(s, n) == SubSeq(s, n + 1, Len(s))
WordsOf(types) == FlattenSeq([k \in DOMAIN types |-> Parts(k, types[k])])
ThisWord == IF sig.static THEN <<>> ELSE <<This>>

-----------------------------------------------------------------------------
(* The conventions of the C compiler, which the code has to follow *)

\* Variable arguments are all on the stack.
VarArgs(types) ==
  FlattenSeq([k \in DOMAIN types |-> IF types[k] = "F" THEN Promoted(Word(k, "all")) ELSE Parts(k, types[k])])

\* With regparm(3), what is in the first three words is in registers, but a float,
\* a double, or a long that the third word would split is on the stack.
Regparm(first, types) ==
  LET Pass(acc, k) ==
        LET parts == Parts(k, types[k])
            inRegs == types[k] \in {"I", "L", "J"} /\ acc.n + Len(parts) <= 3
        IN  [n |-> acc.n + Len(parts),
             regs |-> IF inRegs THEN acc.regs \o parts
                      ELSE acc.regs \o [i \in DOMAIN parts |-> Garbage],
             stack |-> IF inRegs THEN acc.stack ELSE acc.stack \o parts]
      all == FoldLeft(Pass, [n |-> Len(first), regs |-> first, stack |-> <<>>], [k \in DOMAIN types |-> k])
  IN  [regs |-> Take(all.regs, 3), stack |-> all.stack]

-----------------------------------------------------------------------------
(* From one form to another *)

\* va_arg(args, type) for each parameter, and the word array that gets them.
TakeVarArgs(types, words) ==
  LET Arg(acc, t) ==
        LET n == IF t \in {"F", "J", "D"} THEN 2 ELSE 1
            read == Take(acc.words, n)
            float == IF read = Promoted(read[1]) THEN Word(read[1][1], "all") ELSE Garbage
        IN  [words |-> Drop(acc.words, n), params |-> acc.params \o IF t = "F" THEN <<float>> ELSE read]

  IN  FoldLeft(Arg, [words |-> words, params |-> <<>>], types).params

invoke_v ==
  /\ at = "va" /\ at' = "words" /\ data' = TakeVarArgs(sig.types, data)
  /\ UNCHANGED sig

invoke_unwrap_a ==
  /\ at = "values" /\ at' = "words"
  /\ data' = FlattenSeq([k \in DOMAIN sig.types |-> Parts(data[k], sig.types[k])])
  /\ UNCHANGED sig

\* Mutant: a long may be split between a register and the stack.
PushFlagsSplit(ptypes) ==
  LET Flag(push, t) ==
        IF Len(push) >= 3 THEN push
        ELSE CASE t = "F" -> push \o <<1>>
               [] t = "D" -> push \o <<1, 1>>
               [] t = "J" -> push \o <<0, 0>>
               [] OTHER -> push \o <<0>>
  IN  FoldLeft(Flag, <<>>, ptypes)

\* Which of the first three words _jc_dynamic_invoke() pushes on the stack.
PushFlags(ptypes) ==
  LET Flag(push, t) ==
        IF Len(push) >= 3 THEN push
        ELSE CASE t = "F" -> push \o <<1>>
               [] t = "D" -> push \o <<1, 1>>
               [] t = "J" -> push \o (IF Len(push) = 2 THEN <<1, 1>> ELSE <<0, 0>>)
               [] OTHER -> push \o <<0>>
  IN  FoldLeft(Flag, <<>>, ptypes)

DynamicInvoke(ptypes, words) ==
  LET push == PushFlags(ptypes)
      stacked == SelectSeq([i \in DOMAIN words |-> i], LAMBDA i : i > 3 \/ push[i] = 1)
  IN  [regs |-> Take(words, 3), stack |-> [i \in DOMAIN stacked |-> words[stacked[i]]]]

invoke_jcni_a ==
  /\ at = "words" /\ at' = "regs"
  /\ data' = DynamicInvoke([i \in 1 .. 1 + Len(ThisWord) |-> "L"] \o sig.types, <<Env>> \o ThisWord \o data)
  /\ UNCHANGED sig

\* References are wrapped, and static methods get their class.
invoke_jni_a ==
  LET Wrap(acc, t) ==
        LET n == IF t \in _jc_dword_type THEN 2 ELSE 1
            read == Take(acc.params, n)
        IN  [params |-> Drop(acc.params, n),
             params2 |-> acc.params2 \o IF t = "L" THEN <<Reference(read[1])>> ELSE read]
  IN  /\ at = "words" /\ at' = "jni"
      /\ data' = FoldLeft(Wrap, [params |-> data, params2 |-> <<Env, Reference(This)>>], sig.types).params2
      /\ UNCHANGED sig

-----------------------------------------------------------------------------
(* The code that _jc_build_trampoline() makes *)

ptypes == (IF sig.static THEN <<>> ELSE <<"L">>) \o sig.types
Type(i) == Nth(ptypes, i)

\* Which of the second and third words the caller left on the stack.
Stacked1 == Type(1) \in {"D", "F"}
Stacked2 == Type(1) = "D" \/ (Type(1) \in {"F", "I", "L"} /\ Type(2) \in {"D", "J", "F"})
offset2 == IF Stacked1 THEN 2 ELSE 1
offset3 == offset2 + IF Stacked2 THEN 1 ELSE 0
IsFloat1 == Type(1) = "F"
IsFloat2 == Type(1) \notin {"D", "J"} /\ Type(2) = "F"

Push(float, w) == IF float THEN Promoted(w) ELSE <<w>>

\* The fourth and later words, last first; pnum is negative at the second word
\* of a long or double.
PushLater(words, nparams2) ==
  LET ptype(pnum) == sig.types[pnum + 1]
      Second(pnum) == IF pnum >= 0 /\ ptype(pnum) \in _jc_dword_type THEN -pnum ELSE pnum
      Step(acc, pword) ==
        LET float == acc.pnum >= 0 /\ acc.pnum < Len(sig.types) /\ ptype(acc.pnum) = "F"
        IN  [pnum |-> IF acc.pnum < 0 THEN -acc.pnum ELSE Second(acc.pnum - 1),
             out |-> Push(float, Nth(words, offset3 + pword - 3)) \o acc.out]
  IN  FoldLeft(Step, [pnum |-> Second(Len(sig.types) - 1), out |-> <<>>],
               [i \in 1 .. nparams2 - 3 |-> nparams2 - i]).out

trampoline ==
  LET nparams2 == 1 + Len(ThisWord) + Len(WordsOf(sig.types))
      word1 == IF Stacked1 THEN Nth(data.stack, 1) ELSE data.regs[2]
      word2 == IF Stacked2 THEN Nth(data.stack, offset2) ELSE data.regs[3]
      pushed == (IF nparams2 >= 2 THEN Push(IsFloat1, word1) ELSE <<>>)
                \o (IF nparams2 >= 3 THEN Push(IsFloat2, word2) ELSE <<>>)
                \o (IF nparams2 >= 4 THEN PushLater(data.stack, nparams2) ELSE <<>>)
  IN  /\ at = "regs" /\ at' = "va"
      /\ data' = Drop(pushed, Len(ThisWord))
      /\ UNCHANGED sig

-----------------------------------------------------------------------------
(* The interpreter *)

vinterp ==
  /\ at = "va" /\ at' = "locals"
  /\ data' = ThisWord \o TakeVarArgs(sig.types, data)
  /\ UNCHANGED sig

interp ==
  /\ at = "words" /\ at' = "locals"
  /\ data' = ThisWord \o data
  /\ UNCHANGED sig

Arrived == at \in {"locals", "jni"} /\ UNCHANGED argvars

\* C code of the VM, native code, the interpreter, and compiled code call.
Init ==
  /\ sig \in [static : BOOLEAN, types : SeqOf(ParamTypes, MaxParams)]
  /\ \/ at = "va" /\ data = VarArgs(sig.types)
     \/ at = "values" /\ data = [k \in DOMAIN sig.types |-> k]
     \/ at = "words" /\ data = WordsOf(sig.types)
     \/ at = "regs" /\ data = Regparm(<<Env>> \o ThisWord, sig.types)

Next ==
  \/ invoke_v \/ invoke_unwrap_a \/ invoke_jcni_a \/ invoke_jni_a
  \/ trampoline \/ vinterp \/ interp \/ Arrived

Spec == Init /\ [][Next]_argvars

-----------------------------------------------------------------------------
(* Properties *)

\* Through whatever gateways and trampolines a method is called, it finds each word
\* of its parameters where the C compiler's convention, or the bytecode, looks for
\* it, however floats, doubles and longs fall on the three registers.
ArgumentsArrive ==
  /\ at = "locals" => data = ThisWord \o WordsOf(sig.types)
  /\ at = "jni" =>
       LET Arg(k) == IF sig.types[k] = "L" THEN <<Reference(Word(k, "all"))>> ELSE Parts(k, sig.types[k])
       IN  data = <<Env, Reference(This)>> \o FlattenSeq([k \in DOMAIN sig.types |-> Arg(k)])
  /\ at = "regs" =>
       LET must == Regparm(<<Env>> \o ThisWord, sig.types)
       IN  /\ data.stack = must.stack
           /\ \A r \in 1 .. 3 : must.regs[r] # Garbage => data.regs[r] = must.regs[r]
=============================================================================
