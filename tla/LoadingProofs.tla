--------------------------- MODULE LoadingProofs ---------------------------
(***************************************************************************)
(* Proofs that a class loader has one type for a name, that a type's       *)
(* supertypes are known before it, and that a class file is counted for    *)
(* whoever uses it, for every number of threads, loaders, classes and      *)
(* nested loads.                                                           *)
(***************************************************************************)
EXTENDS Loading, FiniteSetTheorems, NaturalsInduction, SequenceTheorems, TLAPS,
        WellFoundedInduction

-----------------------------------------------------------------------------
(* What the threads' stacks become *)

LEMMA FunctionIsSeq ==
  ASSUME NEW S, NEW n \in Nat, NEW q \in [1 .. n -> S]
  PROVE  q \in Seq(S)
  OBVIOUS

\* The activation on top is replaced.
LEMMA OnGoto ==
  ASSUME stack \in [Threads -> Seq(FrameType)], NEW t \in Threads, stack[t] # <<>>,
         NEW f \in FrameType
  PROVE  /\ Goto(t, f) \in [Threads -> Seq(FrameType)]
         /\ Len(stack[t]) \in Nat /\ Len(stack[t]) > 0
         /\ Top(t) \in FrameType
         /\ Len(Goto(t, f)[t]) = Len(stack[t]) /\ Goto(t, f)[t] # <<>>
         /\ \A u \in Threads \ {t} : Goto(t, f)[u] = stack[u]
         /\ \A i \in 1 .. Len(stack[t]) :
              Goto(t, f)[t][i] = IF i = Len(stack[t]) THEN f ELSE stack[t][i]
<1> DEFINE s == stack[t]
<1>1. s \in Seq(FrameType) /\ s # <<>> /\ Len(s) \in Nat /\ Len(s) > 0
  BY EmptySeq, LenProperties
<1>2. Len(s) \in 1 .. Len(s)
  BY <1>1
<1>3. /\ [s EXCEPT ![Len(s)] = f] \in Seq(FrameType)
      /\ Len([s EXCEPT ![Len(s)] = f]) = Len(s)
      /\ \A i \in 1 .. Len(s) : [s EXCEPT ![Len(s)] = f][i] = IF i = Len(s) THEN f ELSE s[i]
  BY <1>1, <1>2, ExceptSeq
<1>4. Goto(t, f)[t] = [s EXCEPT ![Len(s)] = f]
  BY DEF Goto
<1>5. Goto(t, f) \in [Threads -> Seq(FrameType)]
  BY <1>3, Zenon DEF Goto
<1>6. Top(t) \in FrameType
  BY <1>1, <1>2, ElementOfSeq DEF Top
<1>7. \A u \in Threads \ {t} : Goto(t, f)[u] = stack[u]
  BY DEF Goto
<1>8. Goto(t, f)[t] # <<>>
  BY <1>1, <1>3, <1>4, EmptySeq
<1> QED
  BY <1>1, <1>3, <1>4, <1>5, <1>6, <1>7, <1>8

LEMMA OnCall ==
  ASSUME stack \in [Threads -> Seq(FrameType)], NEW t \in Threads, stack[t] # <<>>,
         NEW f \in FrameType, NEW g \in FrameType, Call(t, f, g)
  PROVE  /\ stack' \in [Threads -> Seq(FrameType)] /\ ret' = ret
         /\ Len(stack[t]) \in Nat /\ Len(stack[t]) > 0
         /\ Len(stack'[t]) = Len(stack[t]) + 1
         /\ \A u \in Threads \ {t} : stack'[u] = stack[u]
         /\ \A i \in 1 .. Len(stack'[t]) :
              stack'[t][i] = IF i = Len(stack[t]) + 1 THEN g
                             ELSE IF i = Len(stack[t]) THEN f ELSE stack[t][i]
<1> DEFINE r == Goto(t, f)
<1>1. stack' = [r EXCEPT ![t] = Append(@, g)] /\ ret' = ret
  BY DEF Call
<1>2. /\ r \in [Threads -> Seq(FrameType)] /\ Len(r[t]) = Len(stack[t])
      /\ Len(stack[t]) \in Nat /\ Len(stack[t]) > 0
      /\ \A u \in Threads \ {t} : r[u] = stack[u]
      /\ \A i \in 1 .. Len(stack[t]) :
           r[t][i] = IF i = Len(stack[t]) THEN f ELSE stack[t][i]
  BY OnGoto
<1> HIDE DEF r
<1>3. /\ Append(r[t], g) \in Seq(FrameType) /\ Len(Append(r[t], g)) = Len(r[t]) + 1
      /\ \A i \in 1 .. Len(r[t]) : Append(r[t], g)[i] = r[t][i]
      /\ Append(r[t], g)[Len(r[t]) + 1] = g
  BY <1>2, AppendProperties
<1>4. stack'[t] = Append(r[t], g) /\ \A u \in Threads \ {t} : stack'[u] = stack[u]
  BY <1>1, <1>2
<1>5. stack' \in [Threads -> Seq(FrameType)]
  BY <1>1, <1>2, <1>3, Zenon
<1> QED
  BY <1>1, <1>2, <1>3, <1>4, <1>5

LEMMA OnReturned ==
  ASSUME stack \in [Threads -> Seq(FrameType)], NEW t \in Threads, stack[t] # <<>>
  PROVE  /\ Returned(t) \in [Threads -> Seq(FrameType)]
         /\ Len(stack[t]) \in Nat /\ Len(stack[t]) > 0
         /\ Len(Returned(t)[t]) = Len(stack[t]) - 1
         /\ \A u \in Threads \ {t} : Returned(t)[u] = stack[u]
         /\ \A i \in 1 .. Len(stack[t]) - 1 : Returned(t)[t][i] = stack[t][i]
<1> DEFINE s == stack[t]
<1>1. s \in Seq(FrameType) /\ s # <<>> /\ Len(s) \in Nat /\ Len(s) > 0
  BY EmptySeq, LenProperties
<1>2. /\ SubSeq(s, 1, Len(s) - 1) \in Seq(FrameType)
      /\ Len(SubSeq(s, 1, Len(s) - 1)) = Len(s) - 1
      /\ \A i \in 1 .. Len(s) - 1 : SubSeq(s, 1, Len(s) - 1)[i] = s[i]
  <2>1. \A i \in 1 .. Len(s) - 1 : s[i] \in FrameType
    BY <1>1, ElementOfSeq
  <2>2. Len(s) - 1 \in Int /\ 1 \in Int
    BY <1>1
  <2> HIDE DEF s
  <2>3. /\ SubSeq(s, 1, Len(s) - 1) \in Seq(FrameType)
        /\ Len(SubSeq(s, 1, Len(s) - 1)) = IF 1 <= Len(s) - 1 THEN Len(s) - 1 - 1 + 1 ELSE 0
        /\ \A i \in 1 .. Len(s) - 1 - 1 + 1 : SubSeq(s, 1, Len(s) - 1)[i] = s[1 + i - 1]
    BY <2>1, <2>2, SubSeqProperties
  <2>4. Len(SubSeq(s, 1, Len(s) - 1)) = Len(s) - 1
    <3> DEFINE a == Len(SubSeq(s, 1, Len(s) - 1))
               n == Len(s)
    <3>1. n \in Nat /\ n > 0 /\ a = IF 1 <= n - 1 THEN n - 1 - 1 + 1 ELSE 0
      BY <1>1, <2>3
    <3> HIDE DEF a, n
    <3>2. a = n - 1
      BY <3>1
    <3> QED
      BY <3>2 DEF a, n
  <2>5. ASSUME NEW i \in 1 .. Len(s) - 1
        PROVE  SubSeq(s, 1, Len(s) - 1)[i] = s[i]
    <3>1. i \in 1 .. Len(s) - 1 - 1 + 1 /\ 1 + i - 1 = i
      BY <1>1
    <3>2. SubSeq(s, 1, Len(s) - 1)[i] = s[1 + i - 1]
      BY <2>3, <3>1
    <3> QED
      BY <3>1, <3>2, Zenon
  <2> QED
    BY <2>3, <2>4, <2>5
<1>3. Returned(t)[t] = SubSeq(s, 1, Len(s) - 1)
  BY DEF Returned
<1>4. Returned(t) \in [Threads -> Seq(FrameType)]
  BY <1>2, Zenon DEF Returned
<1>5. \A u \in Threads \ {t} : Returned(t)[u] = stack[u]
  BY DEF Returned
<1> QED
  BY <1>1, <1>2, <1>3, <1>4, <1>5

-----------------------------------------------------------------------------
(* What steps of one thread leave true of all stacks *)

\* The loaders only get more types.
Grow ==
  /\ mode' = mode
  /\ \A l \in Loaders : initiated[l] \subseteq initiated'[l] /\ defined[l] \subseteq defined'[l]

Seeking(f) == f.fn = "derive" /\ f.pc \in {"supers", "super", "interp"}

\* An activation goes on, or returns; a new one is at its start.
Kin(f, g) ==
  /\ f.fn = g.fn /\ f.l = g.l /\ f.n = g.n
  /\ Busy(f) => Busy(g)
  /\ f.pc = "wait" => g.pc = "wait"
Quiet ==
  \A t \in Threads : \A i \in DOMAIN stack'[t] :
    IF i \in DOMAIN stack[t] THEN Kin(stack'[t][i], stack[t][i])
    ELSE /\ stack'[t][i].pc = "start"
         /\ \/ stack'[t][i].fn # "object" \/ (mode = "objects" /\ stack'[t][i].l = Boot)
            \/ i > 1 /\ i - 1 \in DOMAIN stack[t] /\ stack[t][i - 1].fn = "derive"

\* What may yet interpret its class could do so before.
Calm ==
  \A t \in Threads : \A i \in DOMAIN stack'[t] : Open(t, i)' =>
    /\ i \in DOMAIN stack[t] /\ Open(t, i)
    /\ stack'[t][i].n = stack[t][i].n /\ stack'[t][i].l = stack[t][i].l

\* Of one activation that goes on, whatever it is answered.
Like(f, g) ==
  /\ Kin(f, g)
  /\ Seeking(f) => Seeking(g)
  /\ f.fn = "derive" /\ f.pc = "object" => Seeking(g) \/ ~Interprets(g.l)

LEMMA LikeOpens ==
  ASSUME NEW f, NEW g, Like(f, g), NEW y, NEW z, Opens(f, y)
  PROVE  Opens(g, z)
<1>1. f.fn = g.fn /\ f.l = g.l
  BY DEF Like, Kin
<1>2. Seeking(g)
  BY <1>1 DEF Like, Opens, Seeking
<1> QED
  BY <1>1, <1>2 DEF Opens, Seeking

\* What is open after a step, said of the state before it.
LEMMA OpenThen ==
  ASSUME mode' = mode, NEW u, NEW i
  PROVE  Open(u, i)' <=> Opens(stack'[u][i], IF i = Len(stack'[u]) THEN ret'[u] ELSE None)
  BY DEF Open, Opens, Interprets, Mixes

\* What an activation returns.
Gives(g, y) ==
  /\ g.fn \in {"boot", "user"} => y = None \/ (y \in initiated[g.l] /\ Proper(g.l, y) /\ y.n = g.n)
  /\ g.fn \in {"array", "derive"} => y = None \/ (Proper(g.l, y) /\ y.n = g.n)
  /\ g.fn = "object" => y \in NoType

LEMMA ProperGrows ==
  ASSUME TypeOK, Grow, NEW l \in Loaders, NEW y, Proper(l, y)
  PROVE  Proper(l, y)'
<1>1. y \in Types /\ y.l \in Loaders
  BY DEF Proper, Types
<1>2. y \in defined'[y.l]
  BY <1>1 DEF Proper, Grow
<1>3. initiated[l] \subseteq initiated'[l]
  BY DEF Grow
<1> QED
  BY <1>1, <1>2, <1>3 DEF Proper

LEMMA FitsGrows ==
  ASSUME TypeOK, Grow, NEW f \in FrameType, Fits(f)
  PROVE  Fits(f)'
<1>1. /\ mode' = mode /\ initiated[f.l] \subseteq initiated'[f.l]
      /\ defined[f.l] \subseteq defined'[f.l] /\ f.l \in Loaders
  BY DEF Grow, FrameType
<1>2. \A n : Named(initiated[f.l], n) # {} => Named(initiated'[f.l], n) # {}
  BY <1>1 DEF Named
<1>3. CASE f.fn = "boot"
  BY <1>3 DEF Fits
<1>4. CASE f.fn = "user"
  BY <1>4 DEF Fits
<1>5. CASE f.fn = "array"
  BY <1>1, <1>5 DEF Fits
<1>6. CASE f.fn = "derive"
  BY <1>1, <1>2, <1>6 DEF Fits, Interprets, Mixes
<1>7. CASE f.fn = "object"
  BY <1>1, <1>7 DEF Fits
<1> QED
  BY <1>3, <1>4, <1>5, <1>6, <1>7 DEF FrameType

LEMMA AnswerGrows ==
  ASSUME LoadingAssumption, TypeOK, Grow, NEW f \in FrameType, NEW y, Answer(f, y)
  PROVE  Answer(f, y)'
<1>1. f.l \in Loaders /\ Boot \in Loaders /\ initiated[f.l] \subseteq initiated'[f.l]
  BY DEF Grow, FrameType, LoadingAssumption
<1>2. Proper(Boot, y) => Proper(Boot, y)'
  BY <1>1, ProperGrows
<1>3. Proper(f.l, y) => Proper(f.l, y)'
  BY <1>1, ProperGrows
<1> HIDE DEF Proper
<1> QED
  BY <1>1, <1>2, <1>3 DEF Answer

LEMMA CalledAs ==
  ASSUME NEW f, NEW g, NEW h, Called(f, g), h.fn = g.fn, h.l = g.l, h.n = g.n
  PROVE  Called(f, h)
  BY DEF Called

\* What is returned is what the caller expects.
LEMMA GivesAnswer ==
  ASSUME LoadingAssumption, TypeOK', Trees', NEW f \in FrameType, NEW g \in FrameType,
         Fits(f)', Fits(g)', Called(f, g), NEW y, Gives(g, y)'
  PROVE  Answer(f, y)'
<1>1. CASE f.fn = "boot"
  <2>1. g.l = Boot /\ g.n = f.n /\ g.fn \in {"array", "derive", "object"}
    BY <1>1 DEF Called
  <2> HIDE DEF Proper
  <2> QED
    BY <1>1, <2>1 DEF Answer, Gives, NoType
<1>2. CASE f.fn = "user" /\ g.fn \in {"array", "derive"}
  <2>1. g.l = f.l /\ g.n = f.n
    BY <1>2 DEF Called
  <2> HIDE DEF Proper
  <2> QED
    BY <1>2, <2>1 DEF Answer, Gives
<1>3. CASE f.fn = "user" /\ g.fn = "boot"
  <2>1. /\ f.pc = "exit" /\ f.n \in Classes /\ f.n \notin ClassFiles[f.l]
        /\ g.n = f.n /\ g.l = Boot /\ f.l # Boot
    BY <1>3 DEF Called, Fits
  <2>2. y = None \/ (Proper(Boot, y)' /\ y.n = f.n)
    BY <1>3, <2>1 DEF Gives
  <2>3. Classes \cap Arrays = {}
    BY DEF Classes
  <2>4. ASSUME Proper(Boot, y)', y.n = f.n
        PROVE  Proper(f.l, y)'
    BY <2>1, <2>3, <2>4 DEF Proper
  <2> HIDE DEF Proper
  <2> QED
    BY <1>3, <2>1, <2>2, <2>4 DEF Answer
<1>4. CASE f.fn = "array" /\ f.pc = "elem"
  <2>1. g.fn \in {"boot", "user"} /\ g.l = f.l /\ g.n = Elem[f.n]
    BY <1>4 DEF Called
  <2> HIDE DEF Proper
  <2> QED
    BY <1>4, <2>1 DEF Answer, Gives
<1>5. CASE f.fn = "array" /\ f.pc = "other"
  <2>1. /\ g.fn = "boot" /\ g.l = Boot /\ g.n = f.n /\ f.n \in Arrays
        /\ \E e \in initiated'[f.l] : e.n = Elem[f.n] /\ e.l = Boot
    BY <1>5 DEF Called, Fits
  <2>2. y = None \/ (Proper(Boot, y)' /\ y.n = f.n)
    BY <2>1 DEF Gives
  <2>3. Classes \cap Arrays = {}
    BY DEF Classes
  <2>4. ASSUME Proper(Boot, y)', y.n = f.n
        PROVE  Proper(f.l, y)'
    BY <2>1, <2>3, <2>4 DEF Proper
  <2> HIDE DEF Proper
  <2> QED
    BY <1>5, <2>2, <2>4 DEF Answer
<1>6. CASE f.fn = "derive"
  <2> HIDE DEF Proper
  <2> QED
    BY <1>6 DEF Called, Answer, Gives
<1>7. f.fn = "user" => g.fn \in {"array", "derive", "boot"}
  BY DEF Called
<1>8. f.fn = "array" => f.pc \in {"elem", "other"}
  BY DEF Called
<1>9. f.fn = "object" => Answer(f, y)'
  BY DEF Answer
<1> QED
  BY <1>1, <1>2, <1>3, <1>4, <1>5, <1>6, <1>7, <1>8, <1>9 DEF FrameType

\* The same of an activation and an answer that the state holds.
LEMMA FitsAs ==
  ASSUME NEW f, Fits(f)', NEW u, NEW i, stack'[u][i] = f
  PROVE  Fits(stack[u][i])'
  BY DEF Fits, Interprets, Mixes

LEMMA FitsOf ==
  ASSUME TypeOK, Grow, NEW f \in FrameType, Fits(f), NEW u, NEW i, stack'[u][i] = f
  PROVE  Fits(stack[u][i])'
<1>1. Fits(f)'
  BY FitsGrows
<1> QED
  BY <1>1, FitsAs

LEMMA AnswerAs ==
  ASSUME NEW f, NEW y, Answer(f, y)', NEW u, stack'[u][Len(stack'[u])] = f, ret'[u] = y
  PROVE  Answer(stack[u][Len(stack[u])], ret[u])'
  BY DEF Answer, Proper

LEMMA AnswerOf ==
  ASSUME LoadingAssumption, TypeOK, Grow, NEW f \in FrameType, NEW y, Answer(f, y),
         NEW u, stack'[u][Len(stack'[u])] = f, ret'[u] = y
  PROVE  Answer(stack[u][Len(stack[u])], ret[u])'
<1>1. Answer(f, y)'
  BY AnswerGrows
<1> QED
  BY <1>1, AnswerAs

LEMMA CallKeeps ==
  ASSUME LoadingAssumption, IInv, Grow, NEW t \in Threads, stack[t] # <<>>,
         NEW f \in FrameType, NEW g \in FrameType, Call(t, f, g),
         Like(f, Top(t)), Fits(f)', Fits(g)', Called(f, g), g.pc = "start",
         g.fn = "object" => f.fn = "derive" \/ (mode = "objects" /\ g.l = Boot)
  PROVE  /\ stack' \in [Threads -> Seq(FrameType)] /\ ret' = ret
         /\ Frames(stack)' /\ Linked(stack)' /\ Answers(stack, ret)' /\ Quiet /\ Calm
<1> DEFINE n == Len(stack[t])
<1>1. /\ stack' \in [Threads -> Seq(FrameType)] /\ ret' = ret
      /\ n \in Nat /\ n > 0 /\ Len(stack'[t]) = n + 1
      /\ \A u \in Threads \ {t} : stack'[u] = stack[u]
      /\ \A i \in 1 .. Len(stack'[t]) :
           stack'[t][i] = IF i = n + 1 THEN g ELSE IF i = n THEN f ELSE stack[t][i]
  BY OnCall DEF IInv, TypeOK
<1>2. \A u \in Threads : /\ stack[u] \in Seq(FrameType) /\ stack'[u] \in Seq(FrameType)
                         /\ DOMAIN stack[u] = 1 .. Len(stack[u])
                         /\ DOMAIN stack'[u] = 1 .. Len(stack'[u])
                         /\ Len(stack[u]) \in Nat /\ Len(stack'[u]) \in Nat
  <2>1. stack \in [Threads -> Seq(FrameType)] /\ stack' \in [Threads -> Seq(FrameType)]
    BY <1>1 DEF IInv, TypeOK
  <2> QED
    BY <2>1, LenProperties
<1>3. \A u \in Threads : /\ \A i \in DOMAIN stack[u] : stack[u][i] \in FrameType
                         /\ \A i \in DOMAIN stack'[u] : stack'[u][i] \in FrameType
  BY <1>2, ElementOfSeq
<1>4. TypeOK
  BY DEF IInv
<1>5. Top(t) = stack[t][n] /\ DOMAIN stack[t] = 1 .. n /\ DOMAIN stack'[t] = 1 .. n + 1
  BY <1>1, <1>2 DEF Top
<1> HIDE DEF n
<1>6. Frames(stack)'
  <2> SUFFICES ASSUME NEW u \in Threads, NEW i \in DOMAIN stack'[u]
               PROVE  Fits(stack[u][i])'
    BY DEF Frames
  <2>1. ASSUME i \in DOMAIN stack[u], stack'[u][i] = stack[u][i]
        PROVE  Fits(stack[u][i])'
    <3> DEFINE h == stack[u][i]
    <3>1. h \in FrameType /\ Fits(h)
      BY <1>3, <2>1 DEF IInv, Frames
    <3> QED
      BY <1>3, <1>4, <2>1, <3>1, FitsOf
  <2>2. CASE u # t
    BY <1>1, <2>1, <2>2
  <2>3. CASE u = t /\ i = n + 1
    <3>1. stack'[u][i] = g
      BY <1>1, <1>5, <2>3
    <3> QED
      BY <3>1, FitsAs
  <2>4. CASE u = t /\ i = n
    <3>1. n \in 1 .. Len(stack'[t]) /\ n # n + 1
      BY <1>1
    <3>2. stack'[u][i] = f
      BY <1>1, <2>4, <3>1
    <3> QED
      BY <3>2, FitsAs
  <2>5. CASE u = t /\ i # n /\ i # n + 1
    BY <1>1, <1>5, <2>1, <2>5
  <2> QED
    BY <2>2, <2>3, <2>4, <2>5
<1>7. Linked(stack)'
  <2> SUFFICES ASSUME NEW u \in Threads, NEW i \in DOMAIN stack'[u], i + 1 \in DOMAIN stack'[u]
               PROVE  Called(stack'[u][i], stack'[u][i + 1])
    BY DEF Linked
  <2>1. CASE u # t
    BY <1>1, <2>1 DEF IInv, Linked
  <2>2. CASE u = t /\ i = n
    <3>1. n \in 1 .. Len(stack'[t]) /\ n + 1 \in 1 .. Len(stack'[t]) /\ n # n + 1
      BY <1>1
    <3>2. stack'[t][n] = f /\ stack'[t][n + 1] = g
      BY <1>1, <3>1
    <3> QED
      BY <2>2, <3>2
  <2>3. CASE u = t /\ i + 1 = n
    <3>1. stack'[t][i] = stack[t][i] /\ stack'[t][i + 1] = f /\ i \in DOMAIN stack[t] /\ i + 1 \in DOMAIN stack[t]
      BY <1>1, <1>5, <2>3
    <3>2. Called(stack[t][i], Top(t))
      <4>1. Called(stack[t][i], stack[t][i + 1])
        BY <3>1 DEF IInv, Linked
      <4>2. i + 1 = n
        BY <2>3
      <4> QED
        BY <1>5, <4>1, <4>2
    <3>3. Called(stack[t][i], f)
      BY <3>2, CalledAs DEF Like, Kin
    <3> QED
      BY <2>3, <3>1, <3>3
  <2>4. CASE u = t /\ i + 1 < n
    <3>1. /\ stack'[t][i] = stack[t][i] /\ stack'[t][i + 1] = stack[t][i + 1]
          /\ i \in DOMAIN stack[t] /\ i + 1 \in DOMAIN stack[t]
      BY <1>1, <1>5, <2>4
    <3> QED
      BY <2>4, <3>1 DEF IInv, Linked
  <2> QED
    BY <1>1, <1>5, <2>1, <2>2, <2>3, <2>4
<1>8. Answers(stack, ret)'
  <2> SUFFICES ASSUME NEW u \in Threads, stack'[u] # <<>>
               PROVE  Answer(stack[u][Len(stack[u])], ret[u])'
    BY DEF Answers
  <2>1. CASE u = t
    <3>1. stack'[u][Len(stack'[u])] = g
      BY <1>1, <1>2, <2>1
    <3> QED
      BY <3>1 DEF Answer
  <2>2. CASE u # t
    <3>1. stack[u] # <<>> /\ stack'[u] = stack[u] /\ ret'[u] = ret[u]
      BY <1>1, <2>2
    <3>2. Len(stack[u]) \in DOMAIN stack[u]
      BY <1>2, <3>1, EmptySeq
    <3> QED
      BY <1>3, <1>4, <3>1, <3>2, AnswerOf DEF IInv, Answers
  <2> QED
    BY <2>1, <2>2
<1>9. Quiet
  <2> SUFFICES ASSUME NEW u \in Threads, NEW i \in DOMAIN stack'[u]
               PROVE  IF i \in DOMAIN stack[u] THEN Kin(stack'[u][i], stack[u][i])
                      ELSE /\ stack'[u][i].pc = "start"
                           /\ \/ \/ stack'[u][i].fn # "object"
                                 \/ mode = "objects" /\ stack'[u][i].l = Boot
                              \/ i > 1 /\ i - 1 \in DOMAIN stack[u] /\ stack[u][i - 1].fn = "derive"
    BY DEF Quiet
  <2>1. CASE u # t
    BY <1>1, <2>1 DEF Kin
  <2>2. CASE u = t /\ i = n + 1
    <3>1. stack'[u][i] = g /\ i - 1 = n /\ i > 1 /\ n \in DOMAIN stack[u] /\ stack[u][n] = Top(t)
      BY <1>1, <1>5, <2>2
    <3>2. f.fn = Top(t).fn /\ i \notin DOMAIN stack[u]
      BY <1>1, <1>5, <2>2 DEF Like, Kin
    <3> QED
      BY <3>1, <3>2
  <2>3. CASE u = t /\ i # n + 1
    BY <1>1, <1>5, <2>3 DEF Like, Kin
  <2> QED
    BY <2>1, <2>2, <2>3
<1>10. Calm
  <2> SUFFICES ASSUME NEW u \in Threads, NEW i \in DOMAIN stack'[u], Open(u, i)'
               PROVE  /\ i \in DOMAIN stack[u] /\ Open(u, i)
                      /\ stack'[u][i].n = stack[u][i].n /\ stack'[u][i].l = stack[u][i].l
    BY DEF Calm
  <2>1. Opens(stack'[u][i], IF i = Len(stack'[u]) THEN ret'[u] ELSE None)
    BY OpenThen DEF Grow
  <2>2. CASE u # t
    BY <1>1, <2>1, <2>2 DEF Open
  <2>3. CASE u = t /\ i = n + 1
    BY <1>1, <2>1, <2>3 DEF Opens
  <2>4. CASE u = t /\ i = n
    <3>1. stack'[u][i] = f /\ i \in DOMAIN stack[u] /\ stack[u][i] = Top(t)
      BY <1>1, <1>5, <2>4
    <3>2. Len(stack[u]) = i
      BY <2>4 DEF n
    <3>3. Opens(Top(t), ret[t])
      BY <2>1, <3>1, LikeOpens
    <3> QED
      BY <2>4, <3>1, <3>2, <3>3 DEF Open, Like, Kin
  <2>5. CASE u = t /\ i \notin {n, n + 1}
    <3>1. /\ stack'[u][i] = stack[u][i] /\ i \in DOMAIN stack[u]
          /\ i # Len(stack[u]) /\ i # Len(stack'[u])
      BY <1>1, <1>5, <2>5 DEF n
    <3> QED
      BY <2>1, <3>1 DEF Open
  <2> QED
    BY <2>2, <2>3, <2>4, <2>5
<1> QED
  BY <1>1, <1>6, <1>7, <1>8, <1>9, <1>10

LEMMA GoesOnKeeps ==
  ASSUME LoadingAssumption, IInv, Grow, NEW t \in Threads, stack[t] # <<>>,
         NEW f \in FrameType, NEW y, stack' = Goto(t, f), ret' = [ret EXCEPT ![t] = y],
         f.fn = Top(t).fn, f.l = Top(t).l, f.n = Top(t).n, Fits(f)', Answer(f, y)'
  PROVE  /\ stack' \in [Threads -> Seq(FrameType)]
         /\ Frames(stack)' /\ Linked(stack)' /\ Answers(stack, ret)'
         /\ Kin(f, Top(t)) => Quiet
         /\ (Opens(f, y) => Opens(Top(t), ret[t])) => Calm
<1> DEFINE n == Len(stack[t])
<1>1. /\ stack' \in [Threads -> Seq(FrameType)] /\ ret' = [ret EXCEPT ![t] = y]
      /\ n \in Nat /\ n > 0 /\ Len(stack'[t]) = n
      /\ \A u \in Threads \ {t} : stack'[u] = stack[u]
      /\ \A i \in 1 .. Len(stack'[t]) :
           stack'[t][i] = IF i = n THEN f ELSE stack[t][i]
  BY OnGoto DEF IInv, TypeOK
<1>2. \A u \in Threads : /\ stack[u] \in Seq(FrameType) /\ stack'[u] \in Seq(FrameType)
                         /\ DOMAIN stack[u] = 1 .. Len(stack[u])
                         /\ DOMAIN stack'[u] = 1 .. Len(stack'[u])
                         /\ Len(stack[u]) \in Nat /\ Len(stack'[u]) \in Nat
  <2>1. stack \in [Threads -> Seq(FrameType)] /\ stack' \in [Threads -> Seq(FrameType)]
    BY <1>1 DEF IInv, TypeOK
  <2> QED
    BY <2>1, LenProperties
<1>3. \A u \in Threads : /\ \A i \in DOMAIN stack[u] : stack[u][i] \in FrameType
                         /\ \A i \in DOMAIN stack'[u] : stack'[u][i] \in FrameType
  BY <1>2, ElementOfSeq
<1>4. TypeOK
  BY DEF IInv
<1>5. Top(t) = stack[t][n] /\ DOMAIN stack[t] = 1 .. n /\ DOMAIN stack'[t] = 1 .. n
  BY <1>1, <1>2 DEF Top
<1> HIDE DEF n
<1>6. Frames(stack)'
  <2> SUFFICES ASSUME NEW u \in Threads, NEW i \in DOMAIN stack'[u]
               PROVE  Fits(stack[u][i])'
    BY DEF Frames
  <2>1. ASSUME i \in DOMAIN stack[u], stack'[u][i] = stack[u][i]
        PROVE  Fits(stack[u][i])'
    <3> DEFINE h == stack[u][i]
    <3>1. h \in FrameType /\ Fits(h)
      BY <1>3, <2>1 DEF IInv, Frames
    <3> QED
      BY <1>3, <1>4, <2>1, <3>1, FitsOf
  <2>2. CASE u # t
    BY <1>1, <2>1, <2>2
  <2>3. CASE u = t /\ i = n
    <3>1. stack'[u][i] = f
      BY <1>1, <1>5, <2>3
    <3> QED
      BY <3>1, FitsAs
  <2>4. CASE u = t /\ i # n
    BY <1>1, <1>5, <2>1, <2>4
  <2> QED
    BY <2>2, <2>3, <2>4
<1>7. Linked(stack)'
  <2> SUFFICES ASSUME NEW u \in Threads, NEW i \in DOMAIN stack'[u], i + 1 \in DOMAIN stack'[u]
               PROVE  Called(stack'[u][i], stack'[u][i + 1])
    BY DEF Linked
  <2>1. CASE u # t
    BY <1>1, <2>1 DEF IInv, Linked
  <2>2. CASE u = t /\ i + 1 = n
    <3>1. stack'[t][i] = stack[t][i] /\ stack'[t][i + 1] = f /\ i \in DOMAIN stack[t] /\ i + 1 \in DOMAIN stack[t]
      BY <1>1, <1>5, <2>2
    <3>2. Called(stack[t][i], Top(t))
      <4>1. Called(stack[t][i], stack[t][i + 1])
        BY <3>1 DEF IInv, Linked
      <4>2. i + 1 = n
        BY <2>2
      <4> QED
        BY <1>5, <4>1, <4>2
    <3>3. Called(stack[t][i], f)
      BY <3>2, CalledAs
    <3> QED
      BY <2>2, <3>1, <3>3
  <2>3. CASE u = t /\ i + 1 < n
    <3>1. /\ stack'[t][i] = stack[t][i] /\ stack'[t][i + 1] = stack[t][i + 1]
          /\ i \in DOMAIN stack[t] /\ i + 1 \in DOMAIN stack[t]
      BY <1>1, <1>5, <2>3
    <3> QED
      BY <2>3, <3>1 DEF IInv, Linked
  <2> QED
    BY <1>1, <1>5, <2>1, <2>2, <2>3
<1>8. Answers(stack, ret)'
  <2> SUFFICES ASSUME NEW u \in Threads, stack'[u] # <<>>
               PROVE  Answer(stack[u][Len(stack[u])], ret[u])'
    BY DEF Answers
  <2>1. CASE u = t
    <3>1. stack'[u][Len(stack'[u])] = f
      BY <1>1, <1>5, <2>1
    <3> QED
      BY <1>1, <2>1, <3>1, AnswerAs DEF IInv, TypeOK
  <2>2. CASE u # t
    <3>1. stack[u] # <<>> /\ stack'[u] = stack[u] /\ ret'[u] = ret[u]
      BY <1>1, <2>2
    <3>2. Len(stack[u]) \in DOMAIN stack[u]
      BY <1>2, <3>1, EmptySeq
    <3> QED
      BY <1>3, <1>4, <3>1, <3>2, AnswerOf DEF IInv, Answers
  <2> QED
    BY <2>1, <2>2
<1>9. Kin(f, Top(t)) => Quiet
  <2> SUFFICES ASSUME Kin(f, Top(t)), NEW u \in Threads, NEW i \in DOMAIN stack'[u]
               PROVE  i \in DOMAIN stack[u] /\ Kin(stack'[u][i], stack[u][i])
    BY DEF Quiet
  <2>1. CASE u # t
    BY <1>1, <2>1 DEF Kin
  <2>2. CASE u = t /\ i = n
    BY <1>1, <1>5, <2>2
  <2>3. CASE u = t /\ i # n
    BY <1>1, <1>5, <2>3 DEF Kin
  <2> QED
    BY <2>1, <2>2, <2>3
<1>10. (Opens(f, y) => Opens(Top(t), ret[t])) => Calm
  <2> SUFFICES ASSUME Opens(f, y) => Opens(Top(t), ret[t]),
                      NEW u \in Threads, NEW i \in DOMAIN stack'[u], Open(u, i)'
               PROVE  /\ i \in DOMAIN stack[u] /\ Open(u, i)
                      /\ stack'[u][i].n = stack[u][i].n /\ stack'[u][i].l = stack[u][i].l
    BY DEF Calm
  <2>1. Opens(stack'[u][i], IF i = Len(stack'[u]) THEN ret'[u] ELSE None)
    BY OpenThen DEF Grow
  <2>2. CASE u # t
    BY <1>1, <2>1, <2>2 DEF Open
  <2>3. CASE u = t /\ i = n
    <3>1. /\ stack'[u][i] = f /\ i \in DOMAIN stack[u] /\ stack[u][i] = Top(t)
          /\ Len(stack[u]) = i /\ Len(stack'[u]) = i
      BY <1>1, <1>5, <2>3 DEF n
    <3>2. ret'[u] = y
      BY <2>3 DEF IInv, TypeOK
    <3>3. Opens(Top(t), ret[t])
      BY <2>1, <3>1, <3>2
    <3> QED
      BY <2>3, <3>1, <3>3 DEF Open
  <2>4. CASE u = t /\ i # n
    <3>1. /\ stack'[u][i] = stack[u][i] /\ i \in DOMAIN stack[u]
          /\ i # Len(stack[u]) /\ i # Len(stack'[u])
      BY <1>1, <1>5, <2>4 DEF n
    <3> QED
      BY <2>1, <3>1 DEF Open
  <2> QED
    BY <2>2, <2>3, <2>4
<1> QED
  BY <1>1, <1>6, <1>7, <1>8, <1>9, <1>10

\* An activation stays as it is, or is woken up.
Alike(f, g) == f = g \/ (g.pc = "wait" /\ f = [g EXCEPT !.pc = "start"])

\* One activation is gone, and others may be woken.
LEMMA BackKeeps ==
  ASSUME LoadingAssumption, IInv, Grow, NEW t \in Threads, stack[t] # <<>>,
         stack' \in [Threads -> Seq(FrameType)], Len(stack'[t]) = Len(stack[t]) - 1,
         \A u \in Threads \ {t} : Len(stack'[u]) = Len(stack[u]),
         \A u \in Threads : \A i \in 1 .. Len(stack'[u]) : Alike(stack'[u][i], stack[u][i]),
         NEW y, ret' = [ret EXCEPT ![t] = y], TypeOK', Trees',
         NEW g \in FrameType, g = Top(t), Gives(g, y)'
  PROVE  Frames(stack)' /\ Linked(stack)' /\ Answers(stack, ret)' /\ Quiet /\ Calm
<1> DEFINE n == Len(stack[t])
<1>1. stack \in [Threads -> Seq(FrameType)] /\ stack' \in [Threads -> Seq(FrameType)]
  BY DEF IInv, TypeOK
<1>2. \A u \in Threads : /\ stack[u] \in Seq(FrameType) /\ stack'[u] \in Seq(FrameType)
                         /\ DOMAIN stack[u] = 1 .. Len(stack[u])
                         /\ DOMAIN stack'[u] = 1 .. Len(stack'[u])
                         /\ Len(stack[u]) \in Nat /\ Len(stack'[u]) \in Nat
  BY <1>1, LenProperties
<1>3. \A u \in Threads : /\ \A i \in DOMAIN stack[u] : stack[u][i] \in FrameType
                         /\ \A i \in DOMAIN stack'[u] : stack'[u][i] \in FrameType
  BY <1>2, ElementOfSeq
<1>4. TypeOK
  BY DEF IInv
<1>5. /\ Top(t) = stack[t][n] /\ DOMAIN stack[t] = 1 .. n /\ DOMAIN stack'[t] = 1 .. n - 1
      /\ n \in Nat /\ Len(stack'[t]) = n - 1
  BY <1>2 DEF Top
<1> HIDE DEF n
<1>6. ASSUME NEW u \in Threads, NEW i \in DOMAIN stack'[u]
      PROVE  i \in DOMAIN stack[u] /\ Alike(stack'[u][i], stack[u][i])
  <2>1. CASE u = t
    <3>1. i \in 1 .. n - 1 /\ DOMAIN stack[u] = 1 .. n
      BY <1>5, <2>1
    <3>2. i \in 1 .. n
      BY <1>5, <3>1
    <3>3. i \in 1 .. Len(stack'[u])
      BY <1>2
    <3> QED
      BY <3>1, <3>2, <3>3
  <2>2. CASE u # t
    BY <1>2, <2>2
  <2> QED
    BY <2>1, <2>2
<1>7. ASSUME NEW f, NEW h, Called(f, h)
      PROVE  f.pc # "wait"
  BY <1>7 DEF Called
<1>8. Frames(stack)'
  <2> SUFFICES ASSUME NEW u \in Threads, NEW i \in DOMAIN stack'[u]
               PROVE  Fits(stack[u][i])'
    BY DEF Frames
  <2>1. PICK h \in FrameType : h = stack[u][i] /\ Fits(h) /\ Alike(stack'[u][i], h)
    BY <1>3, <1>6 DEF IInv, Frames
  <2>2. CASE stack'[u][i] = h
    BY <1>4, <2>1, <2>2, FitsOf
  <2>3. CASE h.pc = "wait" /\ stack'[u][i] = [h EXCEPT !.pc = "start"]
    <3> DEFINE f == [h EXCEPT !.pc = "start"]
    <3>1. f \in FrameType /\ Fits(f)
      BY <2>1, <2>3 DEF Fits, FrameType
    <3> HIDE DEF f
    <3> QED
      BY <1>4, <2>3, <3>1, FitsOf DEF f
  <2> QED
    BY <2>1, <2>2, <2>3 DEF Alike
<1>9. Linked(stack)'
  <2> SUFFICES ASSUME NEW u \in Threads, NEW i \in DOMAIN stack'[u], i + 1 \in DOMAIN stack'[u]
               PROVE  Called(stack'[u][i], stack'[u][i + 1])
    BY DEF Linked
  <2>1. /\ i \in DOMAIN stack[u] /\ i + 1 \in DOMAIN stack[u]
        /\ Alike(stack'[u][i], stack[u][i]) /\ Alike(stack'[u][i + 1], stack[u][i + 1])
    BY <1>6
  <2>2. Called(stack[u][i], stack[u][i + 1])
    BY <2>1 DEF IInv, Linked
  <2>3. stack'[u][i] = stack[u][i]
    BY <1>7, <2>1, <2>2 DEF Alike
  <2>4. PICK h \in FrameType : h = stack[u][i + 1]
    BY <1>3, <2>1
  <2>5. PICK k \in FrameType : k = stack'[u][i + 1]
    BY <1>3
  <2>6. k.fn = h.fn /\ k.l = h.l /\ k.n = h.n
    BY <2>1, <2>4, <2>5 DEF Alike, FrameType
  <2> QED
    BY <2>2, <2>3, <2>4, <2>5, <2>6, CalledAs
<1>10. Answers(stack, ret)'
  <2> SUFFICES ASSUME NEW u \in Threads, stack'[u] # <<>>
               PROVE  Answer(stack[u][Len(stack[u])], ret[u])'
    BY DEF Answers
  <2>1. CASE u = t
    <3>1. n - 1 \in DOMAIN stack'[t] /\ n - 1 + 1 \in DOMAIN stack[t] /\ n \in DOMAIN stack[t]
      BY <1>2, <1>5, <2>1, EmptySeq
    <3>2. n - 1 \in DOMAIN stack[t] /\ Alike(stack'[t][n - 1], stack[t][n - 1])
      BY <1>6, <3>1
    <3>3. PICK f \in FrameType : f = stack[t][n - 1]
      BY <1>3, <3>2
    <3>4. Fits(f) /\ Fits(g)
      BY <1>5, <3>1, <3>2, <3>3 DEF IInv, Frames
    <3>5. Called(f, g)
      <4>1. Called(stack[t][n - 1], stack[t][n - 1 + 1])
        BY <3>1, <3>2 DEF IInv, Linked
      <4>2. n - 1 + 1 = n
        BY <1>5
      <4> QED
        BY <1>5, <3>3, <4>1, <4>2
    <3>6. Fits(f)' /\ Fits(g)'
      BY <1>4, <3>4, FitsGrows
    <3>7. stack'[t][n - 1] = f
      BY <1>7, <3>2, <3>3, <3>5 DEF Alike
    <3>8. stack'[u][Len(stack'[u])] = f /\ ret'[u] = y
      BY <1>5, <2>1, <3>7 DEF IInv, TypeOK
    <3>9. Answer(f, y)'
      BY <3>5, <3>6, GivesAnswer
    <3> QED
      BY <3>8, <3>9, AnswerAs
  <2>2. CASE u # t
    <3>1. /\ Len(stack'[u]) = Len(stack[u]) /\ ret'[u] = ret[u]
          /\ Len(stack'[u]) \in DOMAIN stack'[u]
      BY <1>2, <2>2, EmptySeq DEF IInv, TypeOK
    <3>2. PICK h \in FrameType : /\ h = stack[u][Len(stack[u])]
                                 /\ Alike(stack'[u][Len(stack'[u])], h)
      BY <1>3, <1>6, <3>1
    <3>3. CASE stack'[u][Len(stack'[u])] = h
      <4>1. stack[u] # <<>>
        BY <1>2, <1>6, <3>1, EmptySeq
      <4>2. Answer(h, ret[u])
        BY <3>2, <4>1 DEF IInv, Answers
      <4> QED
        BY <1>4, <3>1, <3>3, <4>2, AnswerOf
    <3>4. CASE h.pc = "wait" /\ stack'[u][Len(stack'[u])] = [h EXCEPT !.pc = "start"]
      <4> DEFINE f == [h EXCEPT !.pc = "start"]
      <4>1. f \in FrameType /\ f.pc = "start"
        BY DEF FrameType
      <4> HIDE DEF f
      <4>2. Answer(f, ret[u])
        BY <4>1 DEF Answer
      <4> QED
        BY <1>4, <3>1, <3>4, <4>1, <4>2, AnswerOf DEF f
    <3> QED
      BY <3>2, <3>3, <3>4 DEF Alike
  <2> QED
    BY <2>1, <2>2
<1>11. Quiet
  <2> SUFFICES ASSUME NEW u \in Threads, NEW i \in DOMAIN stack'[u]
               PROVE  i \in DOMAIN stack[u] /\ Kin(stack'[u][i], stack[u][i])
    BY DEF Quiet
  <2>1. PICK h \in FrameType : h = stack[u][i] /\ Alike(stack'[u][i], h)
    BY <1>3, <1>6
  <2>2. Kin(stack'[u][i], h)
    BY <2>1 DEF Alike, Kin, Busy, FrameType
  <2> QED
    BY <1>6, <2>1, <2>2
<1>12. Calm
  <2> SUFFICES ASSUME NEW u \in Threads, NEW i \in DOMAIN stack'[u], Open(u, i)'
               PROVE  /\ i \in DOMAIN stack[u] /\ Open(u, i)
                      /\ stack'[u][i].n = stack[u][i].n /\ stack'[u][i].l = stack[u][i].l
    BY DEF Calm
  <2>1. Opens(stack'[u][i], IF i = Len(stack'[u]) THEN ret'[u] ELSE None)
    BY OpenThen DEF Grow
  <2>2. PICK h \in FrameType : h = stack[u][i] /\ Alike(stack'[u][i], h)
    BY <1>3, <1>6
  <2>3. stack'[u][i] = h
    BY <2>1, <2>2 DEF Alike, Opens, FrameType
  <2>4. CASE u = t
    <3>1. i # Len(stack[u])
      BY <1>2, <1>5, <2>4
    <3> QED
      BY <1>6, <2>1, <2>2, <2>3, <3>1 DEF Open, Opens
  <2>5. CASE u # t
    BY <1>6, <2>1, <2>2, <2>3, <2>5 DEF Open, IInv, TypeOK
  <2> QED
    BY <2>4, <2>5
<1> QED
  BY <1>8, <1>9, <1>10, <1>11, <1>12

LEMMA ReturnKeeps ==
  ASSUME LoadingAssumption, IInv, Grow, NEW t \in Threads, stack[t] # <<>>,
         NEW y, Return(t, y), TypeOK', Trees',
         NEW g \in FrameType, g = Top(t), Gives(g, y)'
  PROVE  /\ stack' \in [Threads -> Seq(FrameType)] /\ ret' = [ret EXCEPT ![t] = y]
         /\ Frames(stack)' /\ Linked(stack)' /\ Answers(stack, ret)' /\ Quiet /\ Calm
<1>1. /\ stack' \in [Threads -> Seq(FrameType)] /\ ret' = [ret EXCEPT ![t] = y]
      /\ Len(stack'[t]) = Len(stack[t]) - 1
      /\ \A u \in Threads \ {t} : stack'[u] = stack[u]
      /\ \A i \in 1 .. Len(stack[t]) - 1 : stack'[t][i] = stack[t][i]
  BY OnReturned DEF IInv, TypeOK, Return
<1>2. \A u \in Threads : \A i \in 1 .. Len(stack'[u]) : Alike(stack'[u][i], stack[u][i])
  BY <1>1 DEF Alike
<1>3. \A u \in Threads \ {t} : Len(stack'[u]) = Len(stack[u])
  BY <1>1
<1> QED
  BY <1>1, <1>2, <1>3, BackKeeps

\* Who derives a class afterwards did before.
LEMMA DeriversFrom ==
  ASSUME IInv, deriving' = deriving,
         \A t \in Threads : \A i \in DOMAIN stack'[t] : Busy(stack'[t][i]) =>
           /\ i \in DOMAIN stack[t] /\ Busy(stack[t][i])
           /\ stack'[t][i].n = stack[t][i].n /\ stack'[t][i].l = stack[t][i].l
  PROVE  Derivers(stack)'
  BY DEF IInv, Derivers, Busy

LEMMA AbsentFrom ==
  ASSUME \A t \in Threads : \A i \in DOMAIN stack'[t] : Open(t, i)' =>
           Named(initiated'[stack'[t][i].l], stack'[t][i].n) = {}
  PROVE  Absent'
  BY DEF Absent, Named

LEMMA QuietDerivers ==
  ASSUME IInv, Quiet, deriving' = deriving
  PROVE  Derivers(stack)'
<1>1. ASSUME NEW t \in Threads, NEW i \in DOMAIN stack'[t], Busy(stack'[t][i])
      PROVE  /\ i \in DOMAIN stack[t] /\ Busy(stack[t][i])
             /\ stack'[t][i].n = stack[t][i].n /\ stack'[t][i].l = stack[t][i].l
  BY <1>1 DEF Quiet, Kin, Busy
<1> QED
  BY <1>1, DeriversFrom

LEMMA AskedFrom ==
  ASSUME IInv, mode' = mode,
         \A t \in Threads : \A i \in DOMAIN stack'[t] :
           /\ i \in DOMAIN stack[t]
           /\ stack'[t][i].fn = stack[t][i].fn /\ stack'[t][i].l = stack[t][i].l,
         stack' \in [Threads -> Seq(FrameType)]
  PROVE  Asked(stack)'
<1> SUFFICES ASSUME NEW t \in Threads, NEW i \in DOMAIN stack'[t], stack'[t][i].fn = "object",
                    ~(mode = "objects" /\ stack'[t][i].l = Boot)
             PROVE  i > 1 /\ stack'[t][i - 1].fn = "derive"
  BY DEF Asked
<1>1. i > 1 /\ stack[t][i - 1].fn = "derive"
  BY DEF IInv, Asked
<1>2. i - 1 \in DOMAIN stack'[t]
  <2>1. DOMAIN stack'[t] = 1 .. Len(stack'[t])
    BY LenProperties
  <2> QED
    BY <1>1, <2>1
<1> QED
  BY <1>1, <1>2

LEMMA QuietAsked ==
  ASSUME IInv, Quiet, mode' = mode, stack' \in [Threads -> Seq(FrameType)]
  PROVE  Asked(stack)'
<1> SUFFICES ASSUME NEW t \in Threads, NEW i \in DOMAIN stack'[t], stack'[t][i].fn = "object",
                    ~(mode = "objects" /\ stack'[t][i].l = Boot)
             PROVE  i > 1 /\ stack'[t][i - 1].fn = "derive"
  BY DEF Asked
<1>1. i > 1 /\ i - 1 \in DOMAIN stack[t] /\ stack[t][i - 1].fn = "derive"
  <2>1. CASE i \in DOMAIN stack[t]
    <3>1. stack[t][i].fn = "object" /\ stack[t][i].l = stack'[t][i].l
      BY <2>1 DEF Quiet, Kin
    <3>2. i > 1 /\ stack[t][i - 1].fn = "derive"
      BY <2>1, <3>1 DEF IInv, Asked
    <3>3. DOMAIN stack[t] = 1 .. Len(stack[t])
      BY LenProperties DEF IInv, TypeOK
    <3> QED
      BY <2>1, <3>2, <3>3
  <2>2. CASE i \notin DOMAIN stack[t]
    BY <2>2 DEF Quiet
  <2> QED
    BY <2>1, <2>2
<1>2. i - 1 \in DOMAIN stack'[t]
  <2>1. DOMAIN stack'[t] = 1 .. Len(stack'[t])
    BY LenProperties
  <2> QED
    BY <1>1, <2>1
<1> QED
  BY <1>1, <1>2 DEF Quiet, Kin

LEMMA CalmAbsent ==
  ASSUME IInv, Calm,
         \A t \in Threads : \A i \in DOMAIN stack[t] : Open(t, i) =>
           Named(initiated'[stack[t][i].l], stack[t][i].n) = {}
  PROVE  Absent'
<1>1. ASSUME NEW t \in Threads, NEW i \in DOMAIN stack'[t], Open(t, i)'
      PROVE  Named(initiated'[stack'[t][i].l], stack'[t][i].n) = {}
  BY <1>1 DEF Calm
<1> QED
  BY <1>1, AbsentFrom

LEMMA QuietWaiting ==
  ASSUME IInv, Quiet, waiters' = waiters, loading \subseteq loading'
  PROVE  Waiting(stack)'
<1>1. ASSUME NEW t \in Threads, NEW i \in DOMAIN stack'[t], stack'[t][i].pc = "wait"
      PROVE  i \in DOMAIN stack[t] /\ stack[t][i].pc = "wait" /\ stack'[t][i].n = stack[t][i].n
  BY <1>1 DEF Quiet, Kin
<1> QED
  BY <1>1 DEF IInv, Waiting

LEMMA TreesSame ==
  ASSUME Trees, initiated' = initiated, defined' = defined
  PROVE  Trees'
<1>1. \A l, y : Proper(l, y)' <=> Proper(l, y)
  BY DEF Proper
<1>2. \A l, n : Named(initiated[l], n)' = Named(initiated[l], n)
  BY DEF Named
<1> HIDE DEF Proper, Named
<1> QED
  BY <1>1, <1>2 DEF Trees

-----------------------------------------------------------------------------
(* The steps that change only the threads' stacks *)

Still == UNCHANGED <<mode, trees, loading, waiters>>

LEMMA StillGrows ==
  ASSUME Still
  PROVE  /\ Grow /\ \A f : Fits(f) => Fits(f)'
         /\ \A f, y : Answer(f, y) => Answer(f, y)'
         /\ \A g, y : Gives(g, y) => Gives(g, y)'
<1>1. mode' = mode /\ initiated' = initiated /\ defined' = defined
  BY DEF Still, trees
<1> QED
  BY <1>1 DEF Grow, Fits, Answer, Gives, Proper, Named, Interprets, Mixes

LEMMA StillKeeps ==
  ASSUME IInv, Still, Quiet, Calm, stack' \in [Threads -> Seq(FrameType)],
         ret' \in [Threads -> Types \cup NoType],
         Frames(stack)', Linked(stack)', Answers(stack, ret)'
  PROVE  IInv'
<1>1. /\ mode' = mode /\ initiated' = initiated /\ defined' = defined /\ deriving' = deriving
      /\ loading' = loading /\ waiters' = waiters
  BY DEF Still, trees
<1>2. TypeOK'
  BY <1>1 DEF IInv, TypeOK
<1>3. Trees'
  BY <1>1, TreesSame DEF IInv, trees
<1>4. Derivers(stack)' /\ Waiting(stack)' /\ Asked(stack)'
  BY <1>1, QuietDerivers, QuietWaiting, QuietAsked
<1>5. Absent'
  <2>1. \A t \in Threads : \A i \in DOMAIN stack[t] : Open(t, i) =>
          Named(initiated'[stack[t][i].l], stack[t][i].n) = {}
    BY <1>1 DEF IInv, Absent
  <2> QED
    BY <2>1, CalmAbsent
<1> QED
  BY <1>1, <1>2, <1>3, <1>4, <1>5 DEF IInv

LEMMA ByCall ==
  ASSUME LoadingAssumption, IInv, Still, NEW t \in Threads, stack[t] # <<>>,
         NEW f \in FrameType, NEW g \in FrameType, Call(t, f, g),
         Like(f, Top(t)), Fits(f), Fits(g), Called(f, g), g.pc = "start",
         g.fn = "object" => f.fn = "derive" \/ (mode = "objects" /\ g.l = Boot)
  PROVE  IInv'
<1>1. Grow /\ Fits(f)' /\ Fits(g)'
  BY StillGrows
<1>2. /\ stack' \in [Threads -> Seq(FrameType)] /\ ret' = ret
      /\ Frames(stack)' /\ Linked(stack)' /\ Answers(stack, ret)' /\ Quiet /\ Calm
  BY <1>1, CallKeeps
<1> QED
  BY <1>2, StillKeeps DEF IInv, TypeOK

LEMMA ByGive ==
  ASSUME LoadingAssumption, IInv, Still, NEW t \in Threads, stack[t] # <<>>,
         NEW f \in FrameType, NEW y \in Types \cup NoType,
         stack' = Goto(t, f), ret' = [ret EXCEPT ![t] = y],
         Like(f, Top(t)), Fits(f), Answer(f, y)
  PROVE  IInv'
<1>1. Grow /\ Fits(f)' /\ Answer(f, y)'
  BY StillGrows
<1>2. /\ stack' \in [Threads -> Seq(FrameType)]
      /\ Frames(stack)' /\ Linked(stack)' /\ Answers(stack, ret)' /\ Quiet /\ Calm
  <2>1. Opens(f, y) => Opens(Top(t), ret[t])
    BY LikeOpens
  <2>2. Kin(f, Top(t)) /\ f.fn = Top(t).fn /\ f.l = Top(t).l /\ f.n = Top(t).n
    BY DEF Like, Kin
  <2> QED
    BY <1>1, <2>1, <2>2, GoesOnKeeps
<1>3. ret' \in [Threads -> Types \cup NoType]
  BY DEF IInv, TypeOK
<1> QED
  BY <1>2, <1>3, StillKeeps

LEMMA ByContinue ==
  ASSUME LoadingAssumption, IInv, Still, NEW t \in Threads, stack[t] # <<>>,
         NEW f \in FrameType, Continue(t, f), Like(f, Top(t)), Fits(f), Answer(f, ret[t])
  PROVE  IInv'
<1>1. ret[t] \in Types \cup NoType /\ ret' = [ret EXCEPT ![t] = ret[t]]
  BY DEF Continue, IInv, TypeOK
<1>2. PICK y \in Types \cup NoType : y = ret[t]
  BY <1>1
<1>3. stack' = Goto(t, f) /\ ret' = [ret EXCEPT ![t] = y] /\ Answer(f, y)
  BY <1>1, <1>2 DEF Continue
<1> QED
  BY <1>3, ByGive

LEMMA ByReturn ==
  ASSUME LoadingAssumption, IInv, Still, NEW t \in Threads, stack[t] # <<>>,
         NEW y \in Types \cup NoType, Return(t, y), Gives(Top(t), y)
  PROVE  IInv'
<1>1. Top(t) \in FrameType
  BY OnGoto DEF IInv, TypeOK
<1>2. PICK g \in FrameType : g = Top(t)
  BY <1>1
<1>3. Gives(g, y)
  BY <1>2
<1>4. Grow /\ Gives(g, y)'
  BY <1>3, StillGrows
<1>5. TypeOK' /\ Trees'
  <2>1. ret' \in [Threads -> Types \cup NoType] /\ stack' \in [Threads -> Seq(FrameType)]
    BY OnReturned DEF Return, IInv, TypeOK
  <2> QED
    BY <2>1, TreesSame DEF IInv, TypeOK, Still, trees
<1>6. /\ stack' \in [Threads -> Seq(FrameType)] /\ ret' = [ret EXCEPT ![t] = y]
      /\ Frames(stack)' /\ Linked(stack)' /\ Answers(stack, ret)' /\ Quiet /\ Calm
  BY <1>2, <1>4, <1>5, ReturnKeeps
<1> QED
  BY <1>5, <1>6, StillKeeps DEF TypeOK

-----------------------------------------------------------------------------
(* One lemma for each action that changes only the stacks *)

LEMMA TopIs ==
  ASSUME IInv, NEW t \in Threads, stack[t] # <<>>
  PROVE  /\ Top(t) \in FrameType /\ Fits(Top(t)) /\ Answer(Top(t), ret[t])
         /\ ret[t] \in Types \cup NoType
<1>1. stack[t] \in Seq(FrameType) /\ Len(stack[t]) \in DOMAIN stack[t]
  BY EmptySeq, LenProperties DEF IInv, TypeOK
<1>2. Top(t) \in FrameType
  BY <1>1, ElementOfSeq DEF Top
<1>3. Fits(Top(t)) /\ Answer(Top(t), ret[t])
  BY <1>1 DEF IInv, Frames, Answers, Top
<1> QED
  BY <1>2, <1>3 DEF IInv, TypeOK

LEMMA BootBodyKeeps ==
  ASSUME LoadingAssumption, IInv, NEW t \in Threads, BootBody(t)
  PROVE  IInv'
<1>1. PICK h \in FrameType : /\ h = Top(t) /\ Fits(h) /\ stack[t] # <<>>
                             /\ h.fn = "boot" /\ h.pc = "body"
  BY TopIs DEF BootBody, At
<1> DEFINE f == [h EXCEPT !.pc = "done"]
<1>2. /\ f \in FrameType /\ Like(f, Top(t)) /\ Fits(f)
      /\ f.fn = "boot" /\ f.pc = "done" /\ f.l = Boot /\ f.n = h.n /\ h.n \in Names
  BY <1>1 DEF FrameType, Fits, Like, Kin, Busy, Seeking
<1>3. Still
  BY DEF BootBody, Still
<1>4. \/ f.n \in Arrays /\ Call(t, f, Frame("array", Boot, f.n))
      \/ f.n \in Classes /\ mode = "objects" /\ Call(t, f, Frame("object", Boot, f.n))
      \/ /\ f.n \in ClassFiles[Boot] /\ mode # "objects"
         /\ Call(t, f, Frame("derive", Boot, f.n))
      \/ stack' = Goto(t, f) /\ ret' = [ret EXCEPT ![t] = None]
  BY <1>1 DEF BootBody
<1> HIDE DEF f
<1>5. ASSUME NEW fn \in {"array", "object", "derive"}, Call(t, f, Frame(fn, Boot, f.n)),
             Fits(Frame(fn, Boot, f.n)), fn = "object" => mode = "objects"
      PROVE  IInv'
  <2> DEFINE g == Frame(fn, Boot, f.n)
  <2>1. g \in FrameType /\ g.fn = fn /\ g.l = Boot /\ g.n = f.n /\ g.pc = "start"
    BY <1>2 DEF LoadingAssumption, Frame, FrameType
  <2> HIDE DEF g
  <2>2. Called(f, g)
    BY <1>2, <2>1 DEF Called
  <2> QED
    BY <1>1, <1>2, <1>3, <1>5, <2>1, <2>2, ByCall DEF g
<1>6. CASE f.n \in Arrays /\ Call(t, f, Frame("array", Boot, f.n))
  BY <1>5, <1>6 DEF Fits, Frame
<1>7. CASE f.n \in Classes /\ mode = "objects" /\ Call(t, f, Frame("object", Boot, f.n))
  BY <1>5, <1>7 DEF Fits, Frame
<1>8. CASE /\ f.n \in ClassFiles[Boot] /\ mode # "objects"
           /\ Call(t, f, Frame("derive", Boot, f.n))
  BY <1>2, <1>5, <1>8 DEF Fits, Frame, LoadingAssumption
<1>9. CASE stack' = Goto(t, f) /\ ret' = [ret EXCEPT ![t] = None]
  <2>1. None \in Types \cup NoType /\ Answer(f, None)
    BY <1>2 DEF NoType, Answer
  <2> QED
    BY <1>1, <1>2, <1>3, <1>9, <2>1, ByGive
<1> QED
  BY <1>4, <1>6, <1>7, <1>8, <1>9

LEMMA UserFindKeeps ==
  ASSUME LoadingAssumption, IInv, NEW t \in Threads, UserFind(t)
  PROVE  IInv'
<1>1. PICK h \in FrameType : /\ h = Top(t) /\ Fits(h) /\ stack[t] # <<>>
                             /\ h.fn = "user" /\ h.pc = "start"
  BY TopIs DEF UserFind, At
<1>2. Still
  BY DEF UserFind, Still
<1>3. h.l \in Loaders /\ h.n \in Names /\ h.l # Boot
  BY <1>1 DEF FrameType, Fits
<1>4. ASSUME NEW y \in Named(initiated[h.l], h.n), Return(t, y)
      PROVE  IInv'
  <2>1. y \in initiated[h.l] /\ y.n = h.n /\ Proper(h.l, y) /\ y \in Types
    BY <1>3, <1>4 DEF Named, IInv, Trees, TypeOK
  <2>2. Gives(h, y)
    BY <1>1, <2>1 DEF Gives
  <2> QED
    BY <1>1, <1>2, <1>4, <2>1, <2>2, ByReturn
<1>5. CASE h.n \in Arrays /\ Call(t, [h EXCEPT !.pc = "record"], Frame("array", h.l, h.n))
  <2> DEFINE f == [h EXCEPT !.pc = "record"]
             g == Frame("array", h.l, h.n)
  <2>1. /\ f \in FrameType /\ Like(f, Top(t)) /\ Fits(f)
        /\ f.fn = "user" /\ f.pc = "record" /\ f.l = h.l /\ f.n = h.n
    BY <1>1 DEF FrameType, Fits, Like, Kin, Busy, Seeking
  <2>2. g \in FrameType /\ g.fn = "array" /\ g.l = h.l /\ g.n = h.n /\ g.pc = "start"
    BY <1>3 DEF Frame, FrameType
  <2> HIDE DEF f, g
  <2>3. Called(f, g) /\ Fits(g)
    BY <1>5, <2>1, <2>2 DEF Called, Fits
  <2> QED
    BY <1>1, <1>2, <1>5, <2>1, <2>2, <2>3, ByCall DEF f, g
<1>6. CASE h.n \notin Arrays /\ Continue(t, [h EXCEPT !.pc = "java"])
  <2> DEFINE f == [h EXCEPT !.pc = "java"]
  <2>1. /\ f \in FrameType /\ Like(f, Top(t)) /\ Fits(f) /\ Answer(f, ret[t])
    BY <1>1, <1>3, <1>6 DEF FrameType, Fits, Like, Kin, Busy, Seeking, Classes, Answer
  <2> HIDE DEF f
  <2> QED
    BY <1>1, <1>2, <1>6, <2>1, ByContinue DEF f
<1>7. CASE Return(t, None)
  <2>1. Gives(h, None) /\ None \in Types \cup NoType
    BY <1>1 DEF Gives, NoType
  <2> QED
    BY <1>1, <1>2, <1>7, <2>1, ByReturn
<1> QED
  BY <1>1, <1>4, <1>5, <1>6, <1>7 DEF UserFind

LEMMA UserJavaKeeps ==
  ASSUME LoadingAssumption, IInv, NEW t \in Threads, UserJava(t)
  PROVE  IInv'
<1>1. PICK h \in FrameType : /\ h = Top(t) /\ Fits(h) /\ stack[t] # <<>>
                             /\ h.fn = "user" /\ h.pc = "java"
  BY TopIs DEF UserJava, At
<1> DEFINE f == [h EXCEPT !.pc = "exit", !.own = monitor[h.l] # t]
<1>2. /\ f \in FrameType /\ Like(f, Top(t)) /\ Fits(f)
      /\ f.fn = "user" /\ f.pc = "exit" /\ f.l = h.l /\ f.n = h.n
      /\ h.l \in Loaders /\ h.l # Boot /\ h.n \in Names /\ h.n \in Classes
  BY <1>1 DEF FrameType, Fits, Like, Kin, Busy, Seeking
<1>3. Still
  BY DEF UserJava, Still
<1>4. \/ \E y \in Named(initiated[f.l], f.n) :
           stack' = Goto(t, f) /\ ret' = [ret EXCEPT ![t] = y]
      \/ Call(t, f, IF f.n \in ClassFiles[f.l] THEN Frame("derive", f.l, f.n)
                                               ELSE LoadFrame(Boot, f.n))
  BY <1>1 DEF UserJava
<1> HIDE DEF f
<1>5. ASSUME NEW y \in Named(initiated[f.l], f.n),
             stack' = Goto(t, f), ret' = [ret EXCEPT ![t] = y]
      PROVE  IInv'
  <2>1. y \in initiated[f.l] /\ y.n = f.n /\ Proper(f.l, y) /\ y \in Types
    BY <1>2, <1>5 DEF Named, IInv, Trees, TypeOK
  <2>2. Answer(f, y)
    BY <1>2, <2>1 DEF Answer
  <2> QED
    BY <1>1, <1>2, <1>3, <1>5, <2>1, <2>2, ByGive
<1>6. CASE f.n \in ClassFiles[f.l] /\ Call(t, f, Frame("derive", f.l, f.n))
  <2> DEFINE g == Frame("derive", f.l, f.n)
  <2>1. /\ g \in FrameType /\ g.fn = "derive" /\ g.l = f.l /\ g.n = f.n
        /\ g.pc = "start" /\ g.got = None /\ g.i = 1
    BY <1>2 DEF Frame, FrameType
  <2> HIDE DEF g
  <2>2. Called(f, g) /\ Fits(g)
    BY <1>2, <1>6, <2>1 DEF Called, Fits
  <2> QED
    BY <1>1, <1>2, <1>3, <1>6, <2>1, <2>2, ByCall DEF g
<1>7. CASE f.n \notin ClassFiles[f.l] /\ Call(t, f, LoadFrame(Boot, f.n))
  <2> DEFINE g == LoadFrame(Boot, f.n)
  <2>1. g \in FrameType /\ g.fn = "boot" /\ g.l = Boot /\ g.n = f.n /\ g.pc = "start"
    BY <1>2 DEF LoadFrame, Frame, FrameType, LoadingAssumption
  <2> HIDE DEF g
  <2>2. Called(f, g) /\ Fits(g)
    BY <1>2, <1>7, <2>1 DEF Called, Fits
  <2> QED
    BY <1>1, <1>2, <1>3, <1>7, <2>1, <2>2, ByCall DEF g
<1> QED
  BY <1>4, <1>5, <1>6, <1>7

LEMMA UserExitKeeps ==
  ASSUME LoadingAssumption, IInv, NEW t \in Threads, UserExit(t)
  PROVE  IInv'
<1>1. PICK h \in FrameType : /\ h = Top(t) /\ Fits(h) /\ stack[t] # <<>>
                             /\ h.fn = "user" /\ h.pc = "exit" /\ Answer(h, ret[t])
  BY TopIs DEF UserExit, At
<1> DEFINE f == [h EXCEPT !.pc = "record"]
<1>2. /\ f \in FrameType /\ Like(f, Top(t)) /\ Fits(f)
      /\ f.fn = "user" /\ f.pc = "record" /\ f.l = h.l /\ f.n = h.n
  BY <1>1 DEF FrameType, Fits, Like, Kin, Busy, Seeking
<1>3. Still /\ Continue(t, f)
  BY <1>1 DEF UserExit, Still
<1> HIDE DEF f
<1>4. Answer(f, ret[t])
  <2> HIDE DEF Proper
  <2> QED
    BY <1>1, <1>2 DEF Answer
<1> QED
  BY <1>1, <1>2, <1>3, <1>4, ByContinue

LEMMA ArrayStartKeeps ==
  ASSUME LoadingAssumption, IInv, NEW t \in Threads, ArrayStart(t)
  PROVE  IInv'
<1>1. PICK h \in FrameType : /\ h = Top(t) /\ Fits(h) /\ stack[t] # <<>>
                             /\ h.fn = "array" /\ h.pc = "start"
  BY TopIs DEF ArrayStart, At
<1> DEFINE f == [h EXCEPT !.pc = "elem"]
           g == LoadFrame(h.l, Elem[h.n])
<1>2. h.l \in Loaders /\ h.n \in Arrays /\ Elem[h.n] \in Names
  BY <1>1 DEF FrameType, Fits, LoadingAssumption
<1>3. /\ f \in FrameType /\ Like(f, Top(t)) /\ Fits(f)
      /\ f.fn = "array" /\ f.pc = "elem" /\ f.l = h.l /\ f.n = h.n
  BY <1>1 DEF FrameType, Fits, Like, Kin, Busy, Seeking
<1>4. /\ g \in FrameType /\ g.fn \in {"boot", "user"} /\ g.l = h.l /\ g.n = Elem[h.n]
      /\ g.pc = "start" /\ Fits(g)
  BY <1>2 DEF LoadFrame, Frame, FrameType, Fits
<1>5. Still /\ Call(t, f, g)
  BY <1>1 DEF ArrayStart, Still
<1> HIDE DEF f, g
<1>6. Called(f, g)
  BY <1>3, <1>4 DEF Called
<1> QED
  BY <1>1, <1>3, <1>4, <1>5, <1>6, ByCall

LEMMA ArrayElemKeeps ==
  ASSUME LoadingAssumption, IInv, NEW t \in Threads, ArrayElem(t)
  PROVE  IInv'
<1>1. PICK h \in FrameType : /\ h = Top(t) /\ Fits(h) /\ stack[t] # <<>>
                             /\ h.fn = "array" /\ h.pc = "elem" /\ Answer(h, ret[t])
  BY TopIs DEF ArrayElem, At
<1>2. /\ h.l \in Loaders /\ h.n \in Arrays /\ h.n \in Names /\ ret[t] \in Types \cup NoType
      /\ ret[t] = None \/ (ret[t] \in initiated[h.l] /\ ret[t].n = Elem[h.n])
  BY <1>1, TopIs DEF FrameType, Fits, Answer
<1>3. Still
  BY DEF ArrayElem, Still
<1>4. CASE ret[t] = None /\ Return(t, None)
  <2>1. Gives(h, None) /\ None \in Types \cup NoType
    BY <1>1 DEF Gives, NoType
  <2> QED
    BY <1>1, <1>3, <1>4, <2>1, ByReturn
<1>5. CASE /\ ret[t] # None /\ ret[t].l # h.l
           /\ Call(t, [h EXCEPT !.pc = "other"], LoadFrame(ret[t].l, h.n))
  <2> DEFINE f == [h EXCEPT !.pc = "other"]
             g == LoadFrame(ret[t].l, h.n)
  <2>1. ret[t] \in initiated[h.l] /\ ret[t].n = Elem[h.n] /\ ret[t].l = Boot /\ h.l # Boot
    BY <1>2, <1>5 DEF IInv, Trees, Proper
  <2>2. /\ f \in FrameType /\ Like(f, Top(t))
        /\ f.fn = "array" /\ f.pc = "other" /\ f.l = h.l /\ f.n = h.n
    BY <1>1 DEF FrameType, Like, Kin, Busy, Seeking
  <2>3. g \in FrameType /\ g.fn = "boot" /\ g.l = Boot /\ g.n = h.n /\ g.pc = "start"
    BY <1>2, <2>1 DEF LoadFrame, Frame, FrameType, LoadingAssumption
  <2> HIDE DEF f, g
  <2>4. Called(f, g) /\ Fits(f) /\ Fits(g)
    BY <1>2, <2>1, <2>2, <2>3 DEF Called, Fits
  <2> QED
    BY <1>1, <1>3, <1>5, <2>2, <2>3, <2>4, ByCall DEF f, g
<1>6. CASE /\ ret[t] # None /\ ret[t].l = h.l
           /\ Continue(t, [h EXCEPT !.pc = "make"])
  <2> DEFINE f == [h EXCEPT !.pc = "make"]
  <2>1. /\ f \in FrameType /\ Like(f, Top(t))
        /\ f.fn = "array" /\ f.pc = "make" /\ f.l = h.l /\ f.n = h.n
    BY <1>1 DEF FrameType, Like, Kin, Busy, Seeking
  <2> HIDE DEF f
  <2>2. Fits(f) /\ Answer(f, ret[t])
    BY <1>2, <1>6, <2>1 DEF Fits, Answer
  <2> QED
    BY <1>1, <1>3, <1>6, <2>1, <2>2, ByContinue DEF f
<1> QED
  BY <1>1, <1>4, <1>5, <1>6 DEF ArrayElem

LEMMA ArrayOtherKeeps ==
  ASSUME LoadingAssumption, IInv, NEW t \in Threads, ArrayOther(t)
  PROVE  IInv'
<1>1. PICK h \in FrameType : /\ h = Top(t) /\ stack[t] # <<>>
                             /\ h.fn = "array" /\ h.pc = "other" /\ Answer(h, ret[t])
  BY TopIs DEF ArrayOther, At
<1>2. ret[t] \in Types \cup NoType
  BY <1>1, TopIs
<1>3. Gives(h, ret[t])
  <2> HIDE DEF Proper
  <2> QED
    BY <1>1 DEF Gives, Answer
<1>4. Still /\ Return(t, ret[t])
  BY DEF ArrayOther, Still
<1>5. PICK y \in Types \cup NoType : y = ret[t]
  BY <1>2
<1> QED
  BY <1>1, <1>3, <1>4, <1>5, ByReturn

LEMMA SupersAre ==
  ASSUME LoadingAssumption, NEW n \in Classes, NEW i \in DOMAIN Supers[n]
  PROVE  Supers[n][i] \in Classes /\ Supers[n][i] \in Names /\ DOMAIN Supers[n] = 1 .. Len(Supers[n])
         /\ Len(Supers[n]) \in Nat
<1>1. Supers[n] \in Seq(Classes)
  BY DEF LoadingAssumption
<1> QED
  BY <1>1, ElementOfSeq, LenProperties DEF Classes

LEMMA DeriveStartKeeps ==
  ASSUME LoadingAssumption, IInv, NEW t \in Threads, DeriveStart(t)
  PROVE  IInv'
<1>1. PICK h \in FrameType : /\ h = Top(t) /\ Fits(h) /\ stack[t] # <<>>
                             /\ h.fn = "derive" /\ h.pc = "start"
  BY TopIs DEF DeriveStart, At
<1>2. Still
  BY DEF DeriveStart, Still
<1>3. CASE Return(t, None)
  <2>1. Gives(h, None) /\ None \in Types \cup NoType
    BY <1>1 DEF Gives, NoType
  <2> QED
    BY <1>1, <1>2, <1>3, <2>1, ByReturn
<1>4. CASE Continue(t, [h EXCEPT !.pc = "enter"])
  <2> DEFINE f == [h EXCEPT !.pc = "enter"]
  <2>1. /\ f \in FrameType /\ Like(f, Top(t)) /\ Fits(f)
        /\ f.fn = "derive" /\ f.pc = "enter"
    BY <1>1 DEF FrameType, Like, Kin, Busy, Seeking, Fits
  <2> HIDE DEF f
  <2>2. Answer(f, ret[t])
    BY <2>1 DEF Answer
  <2> QED
    BY <1>1, <1>2, <1>4, <2>1, <2>2, ByContinue DEF f
<1> QED
  BY <1>1, <1>3, <1>4 DEF DeriveStart

LEMMA DeriveSuperKeeps ==
  ASSUME LoadingAssumption, IInv, NEW t \in Threads, DeriveSuper(t)
  PROVE  IInv'
<1>1. PICK h \in FrameType : /\ h = Top(t) /\ Fits(h) /\ stack[t] # <<>>
                             /\ h.fn = "derive" /\ h.pc = "supers" /\ h.i \in DOMAIN Supers[h.n]
  BY TopIs DEF DeriveSuper, At
<1> DEFINE f == [h EXCEPT !.pc = "super"]
           g == LoadFrame(h.l, Supers[h.n][h.i])
<1>2. h.l \in Loaders /\ h.n \in Classes
  BY <1>1 DEF FrameType, Fits
<1>3. Supers[h.n][h.i] \in Names
  BY <1>1, <1>2, SupersAre
<1>4. /\ f \in FrameType /\ Like(f, Top(t)) /\ Fits(f)
      /\ f.fn = "derive" /\ f.pc = "super" /\ f.l = h.l /\ f.n = h.n /\ f.i = h.i
  BY <1>1 DEF FrameType, Fits, Like, Kin, Busy, Seeking
<1>5. /\ g \in FrameType /\ g.fn \in {"boot", "user"} /\ g.l = h.l /\ g.n = Supers[h.n][h.i]
      /\ g.pc = "start" /\ Fits(g)
  BY <1>2, <1>3 DEF LoadFrame, Frame, FrameType, Fits
<1>6. Still /\ Call(t, f, g)
  BY <1>1 DEF DeriveSuper, Still
<1> HIDE DEF f, g
<1>7. Called(f, g)
  BY <1>4, <1>5 DEF Called
<1> QED
  BY <1>1, <1>4, <1>5, <1>6, <1>7, ByCall

LEMMA CheckSuperKeeps ==
  ASSUME LoadingAssumption, IInv, NEW t \in Threads, CheckSuper(t)
  PROVE  IInv'
<1>1. PICK h \in FrameType : /\ h = Top(t) /\ Fits(h) /\ stack[t] # <<>>
                             /\ h.fn = "derive" /\ h.pc = "super" /\ Answer(h, ret[t])
  BY TopIs DEF CheckSuper, At
<1>2. Still
  BY DEF CheckSuper, Still
<1>3. CASE ret[t] # None /\ Continue(t, [h EXCEPT !.pc = "supers", !.i = @ + 1])
  <2> DEFINE f == [h EXCEPT !.pc = "supers", !.i = @ + 1]
  <2>1. /\ f \in FrameType /\ Like(f, Top(t))
        /\ f.fn = "derive" /\ f.pc = "supers" /\ f.l = h.l /\ f.n = h.n /\ f.i = h.i + 1
        /\ f.got = h.got /\ h.i \in Nat
    <3>1. h.i \in Nat /\ h.i + 1 \in Nat
      BY DEF FrameType
    <3> DEFINE k == h.i + 1
    <3>2. f = [h EXCEPT !.pc = "supers", !.i = k]
      BY DEF FrameType
    <3>3. k \in Nat
      BY <3>1
    <3> HIDE DEF f, k
    <3>4. f \in FrameType /\ f.fn = h.fn /\ f.pc = "supers" /\ f.l = h.l /\ f.n = h.n
          /\ f.i = k /\ f.got = h.got
      BY <3>2, <3>3 DEF FrameType
    <3> QED
      BY <1>1, <3>1, <3>4 DEF Like, Kin, Busy, Seeking, k
  <2>2. ret[t] \in initiated[h.l] /\ ret[t].n = Supers[h.n][h.i]
    BY <1>1, <1>3 DEF Answer
  <2>3. Named(initiated[h.l], Supers[h.n][h.i]) # {}
    BY <2>2 DEF Named
  <2> HIDE DEF f
  <2>4. /\ h.i > 0 /\ h.n \in Classes
        /\ \A j \in DOMAIN Supers[h.n] : j < h.i => Named(initiated[h.l], Supers[h.n][j]) # {}
    BY <1>1 DEF Fits
  <2>5. \A j \in DOMAIN Supers[h.n] : j < h.i + 1 => Named(initiated[h.l], Supers[h.n][j]) # {}
    <3> SUFFICES ASSUME NEW j \in DOMAIN Supers[h.n], j < h.i + 1
                 PROVE  Named(initiated[h.l], Supers[h.n][j]) # {}
      OBVIOUS
    <3>1. j \in Nat
      BY <2>4, SupersAre
    <3>2. j < h.i \/ j = h.i
      BY <2>1, <3>1
    <3> QED
      BY <2>3, <2>4, <3>2
  <2>6. Fits(f) /\ Answer(f, ret[t])
    BY <1>1, <2>1, <2>4, <2>5 DEF Fits, Answer
  <2> QED
    BY <1>1, <1>2, <1>3, <2>1, <2>6, ByContinue DEF f
<1>4. CASE Continue(t, [h EXCEPT !.pc = "leave"])
  <2> DEFINE f == [h EXCEPT !.pc = "leave"]
  <2>1. /\ f \in FrameType /\ Like(f, Top(t)) /\ Fits(f)
        /\ f.fn = "derive" /\ f.pc = "leave"
    BY <1>1 DEF FrameType, Like, Kin, Busy, Seeking, Fits
  <2> HIDE DEF f
  <2>2. Answer(f, ret[t])
    BY <2>1 DEF Answer
  <2> QED
    BY <1>1, <1>2, <1>4, <2>1, <2>2, ByContinue DEF f
<1> QED
  BY <1>1, <1>3, <1>4 DEF CheckSuper

LEMMA DeriveCheckKeeps ==
  ASSUME LoadingAssumption, IInv, NEW t \in Threads, DeriveCheck(t)
  PROVE  IInv'
<1>1. PICK h \in FrameType : /\ h = Top(t) /\ Fits(h) /\ stack[t] # <<>>
                             /\ h.fn = "derive" /\ h.pc = "supers" /\ h.i \notin DOMAIN Supers[h.n]
  BY TopIs DEF DeriveCheck, At
<1>2. Still
  BY DEF DeriveCheck, Still
<1>3. /\ h.l \in Loaders /\ h.n \in Classes /\ h.n \in Names /\ (h.l = Boot \/ h.n \in ClassFiles[h.l])
      /\ mode = "objects" => h.l # Boot
  BY <1>1 DEF FrameType, Fits
<1>4. ASSUME NEW y \in Named(defined[h.l], h.n), Continue(t, [h EXCEPT !.pc = "leave", !.got = y])
      PROVE  IInv'
  <2>1. y \in defined[h.l] /\ y.n = h.n /\ y \in Types
    BY <1>3, <1>4 DEF Named, IInv, TypeOK
  <2> DEFINE f == [h EXCEPT !.pc = "leave", !.got = y]
  <2>2. /\ f \in FrameType /\ Like(f, Top(t))
        /\ f.fn = "derive" /\ f.pc = "leave" /\ f.got = y /\ f.l = h.l /\ f.n = h.n
    BY <1>1, <2>1 DEF FrameType, Like, Kin, Busy, Seeking
  <2> HIDE DEF f
  <2>3. Fits(f) /\ Answer(f, ret[t])
    BY <1>3, <2>1, <2>2 DEF Fits, Answer
  <2> QED
    BY <1>1, <1>2, <1>4, <2>2, <2>3, ByContinue DEF f
<1>5. CASE mode = "interpret" /\ Continue(t, [h EXCEPT !.pc = "interp"])
  <2> DEFINE f == [h EXCEPT !.pc = "interp"]
  <2>1. /\ f \in FrameType /\ Like(f, Top(t)) /\ Fits(f) /\ f.fn = "derive" /\ f.pc = "interp"
    BY <1>1, <1>5 DEF FrameType, Like, Kin, Busy, Seeking, Fits, Interprets
  <2> HIDE DEF f
  <2>2. Answer(f, ret[t])
    BY <2>1 DEF Answer
  <2> QED
    BY <1>1, <1>2, <1>5, <2>1, <2>2, ByContinue DEF f
<1>6. CASE /\ mode # "interpret"
           /\ Call(t, [h EXCEPT !.pc = "object"], Frame("object", h.l, h.n))
  <2> DEFINE f == [h EXCEPT !.pc = "object"]
             g == Frame("object", h.l, h.n)
  <2>1. f \in FrameType /\ Like(f, Top(t)) /\ Fits(f)
    BY <1>1, <1>6 DEF FrameType, Like, Kin, Busy, Seeking, Fits
  <2>2. f.fn = "derive" /\ f.pc = "object" /\ f.l = h.l /\ f.n = h.n
    BY <1>1 DEF FrameType
  <2>3. g \in FrameType /\ g.fn = "object" /\ g.l = h.l /\ g.n = h.n /\ g.pc = "start"
    BY <1>3 DEF Frame, FrameType
  <2> HIDE DEF f, g
  <2>4. Called(f, g)
    BY <2>2, <2>3 DEF Called
  <2>5. Fits(g)
    BY <1>3, <1>6, <2>3 DEF Fits
  <2> QED
    BY <1>1, <1>2, <1>6, <2>1, <2>2, <2>3, <2>4, <2>5, ByCall DEF f, g
<1> QED
  BY <1>1, <1>4, <1>5, <1>6 DEF DeriveCheck

LEMMA DeriveObjectKeeps ==
  ASSUME LoadingAssumption, IInv, NEW t \in Threads, DeriveObject(t)
  PROVE  IInv'
<1>1. PICK h \in FrameType : /\ h = Top(t) /\ Fits(h) /\ stack[t] # <<>>
                             /\ h.fn = "derive" /\ h.pc = "object"
  BY TopIs DEF DeriveObject, At
<1>2. Still
  BY DEF DeriveObject, Still
<1>3. /\ h.l \in Loaders /\ h.n \in Classes /\ h.n \in Names /\ (h.l = Boot \/ h.n \in ClassFiles[h.l])
      /\ mode # "interpret" /\ (mode = "objects" => h.l # Boot)
  BY <1>1 DEF FrameType, Fits, IInv
<1>4. ASSUME NEW y \in Named(defined[h.l], h.n), Continue(t, [h EXCEPT !.pc = "leave", !.got = y])
      PROVE  IInv'
  <2>1. y \in defined[h.l] /\ y.n = h.n /\ y \in Types
    BY <1>3, <1>4 DEF Named, IInv, TypeOK
  <2> DEFINE f == [h EXCEPT !.pc = "leave", !.got = y]
  <2>2. /\ f \in FrameType /\ Like(f, Top(t))
        /\ f.fn = "derive" /\ f.pc = "leave" /\ f.got = y /\ f.l = h.l /\ f.n = h.n
    BY <1>1, <2>1 DEF FrameType, Like, Kin, Busy, Seeking
  <2> HIDE DEF f
  <2>3. Fits(f) /\ Answer(f, ret[t])
    BY <1>3, <2>1, <2>2 DEF Fits, Answer
  <2> QED
    BY <1>1, <1>2, <1>4, <2>2, <2>3, ByContinue DEF f
<1>5. CASE Continue(t, [h EXCEPT !.pc = "leave"])
  <2> DEFINE f == [h EXCEPT !.pc = "leave"]
  <2>1. /\ f \in FrameType /\ Like(f, Top(t)) /\ Fits(f) /\ f.fn = "derive" /\ f.pc = "leave"
    BY <1>1 DEF FrameType, Like, Kin, Busy, Seeking, Fits
  <2> HIDE DEF f
  <2>2. Answer(f, ret[t])
    BY <2>1 DEF Answer
  <2> QED
    BY <1>1, <1>2, <1>5, <2>1, <2>2, ByContinue DEF f
<1>6. CASE /\ mode = "generate"
           /\ Call(t, [h EXCEPT !.i = 0], [Frame("object", h.l, h.n) EXCEPT !.own = TRUE])
  <2>0. ~Interprets(h.l)
    BY <1>6 DEF Interprets, Mixes
  <2> DEFINE f == [h EXCEPT !.i = 0]
             g == [Frame("object", h.l, h.n) EXCEPT !.own = TRUE]
  <2>1. /\ f \in FrameType /\ Like(f, Top(t)) /\ Fits(f) /\ f.fn = "derive" /\ f.pc = "object"
        /\ f.l = h.l /\ f.n = h.n
    BY <1>1, <2>0 DEF FrameType, Like, Kin, Busy, Seeking, Fits
  <2>2. g \in FrameType /\ g.fn = "object" /\ g.l = h.l /\ g.n = h.n /\ g.pc = "start"
    BY <1>3 DEF Frame, FrameType
  <2> HIDE DEF f, g
  <2>3. Called(f, g) /\ Fits(g)
    BY <1>3, <2>1, <2>2 DEF Called, Fits
  <2> QED
    BY <1>1, <1>2, <1>6, <2>1, <2>2, <2>3, ByCall DEF f, g
<1>7. CASE /\ ret[t] = None /\ mode # "generate"
           /\ Continue(t, [h EXCEPT !.pc = "interp"])
  <2> DEFINE f == [h EXCEPT !.pc = "interp"]
  <2>1. Interprets(h.l)
    <3>1. mode \in {"mixed", "objects"}
      BY <1>3, <1>7 DEF IInv, TypeOK, LoadingAssumption
    <3>2. mode = "objects" => h.l # Boot
      BY <1>1 DEF Fits
    <3> QED
      BY <3>1, <3>2 DEF Interprets, Mixes
  <2>2. /\ f \in FrameType /\ Kin(f, h) /\ f.fn = "derive" /\ f.pc = "interp"
        /\ f.l = h.l /\ f.n = h.n /\ f.i = h.i /\ f.got = h.got
    BY <1>1 DEF FrameType, Kin, Busy
  <2>3. stack' = Goto(t, f) /\ ret' = ret
    BY <1>7 DEF Continue
  <2> HIDE DEF f
  <2>4. Fits(f)
    BY <1>1, <2>1, <2>2 DEF Fits
  <2>5. Opens(Top(t), ret[t])
    BY <1>1, <1>7, <2>1 DEF Opens
  <2>6. PICK y \in Types \cup NoType : y = ret[t]
    BY <1>7 DEF NoType
  <2>7. ret' = [ret EXCEPT ![t] = y] /\ ret' \in [Threads -> Types \cup NoType]
    BY <2>3, <2>6 DEF IInv, TypeOK
  <2>8. Grow /\ Fits(f)' /\ Answer(f, y)'
    <3>1. Answer(f, y)
      BY <2>2 DEF Answer
    <3> QED
      BY <1>2, <2>4, <3>1, StillGrows
  <2>9. /\ stack' \in [Threads -> Seq(FrameType)]
        /\ Frames(stack)' /\ Linked(stack)' /\ Answers(stack, ret)' /\ Quiet /\ Calm
    <3>1. f.fn = Top(t).fn /\ f.l = Top(t).l /\ f.n = Top(t).n /\ Kin(f, Top(t))
      BY <1>1, <2>2
    <3> QED
      BY <1>1, <2>2, <2>3, <2>5, <2>7, <2>8, <3>1, GoesOnKeeps
  <2> QED
    BY <1>2, <2>7, <2>9, StillKeeps
<1> QED
  BY <1>1, <1>4, <1>5, <1>6, <1>7 DEF DeriveObject

LEMMA DeriveUnrefKeeps ==
  ASSUME LoadingAssumption, IInv, NEW t \in Threads, DeriveUnref(t)
  PROVE  IInv'
<1>1. PICK h \in FrameType : /\ h = Top(t) /\ Fits(h) /\ stack[t] # <<>>
                             /\ h.fn = "derive" /\ h.pc = "unref"
  BY TopIs DEF DeriveUnref, At
<1>2. Still /\ Return(t, h.got)
  BY <1>1 DEF DeriveUnref, Still
<1>3. h.got \in Types \cup NoType /\ h.l \in Loaders
  BY DEF FrameType, NoType
<1>4. Gives(h, h.got)
  <2>1. h.got # None => h.got.n = h.n /\ h.got \in defined[h.l]
    BY <1>1 DEF Fits
  <2>2. h.got # None => Proper(h.l, h.got)
    BY <1>3, <2>1 DEF IInv, Trees
  <2> HIDE DEF Proper
  <2> QED
    BY <1>1, <2>1, <2>2 DEF Gives
<1>5. PICK y \in Types \cup NoType : y = h.got
  BY <1>3
<1> QED
  BY <1>1, <1>2, <1>4, <1>5, ByReturn

LEMMA ObjectFindKeeps ==
  ASSUME LoadingAssumption, IInv, NEW t \in Threads, ObjectFind(t)
  PROVE  IInv'
<1>1. PICK h \in FrameType : /\ h = Top(t) /\ Fits(h) /\ stack[t] # <<>>
                             /\ h.fn = "object" /\ h.pc = "start"
  BY TopIs DEF ObjectFind, At
<1>2. Still
  BY DEF ObjectFind, Still
<1>3. ASSUME NEW y \in {None, OutOfMemory}, Return(t, y)
      PROVE  IInv'
  <2>1. Gives(h, y) /\ y \in Types \cup NoType
    BY <1>1, <1>3 DEF Gives, NoType
  <2> QED
    BY <1>1, <1>2, <1>3, <2>1, ByReturn
<1>4. CASE Continue(t, [h EXCEPT !.pc = "derive"])
  <2> DEFINE f == [h EXCEPT !.pc = "derive"]
  <2>1. /\ f \in FrameType /\ Like(f, Top(t)) /\ Fits(f) /\ f.fn = "object"
    BY <1>1 DEF FrameType, Like, Kin, Busy, Seeking, Fits
  <2> HIDE DEF f
  <2>2. Answer(f, ret[t])
    BY <2>1 DEF Answer
  <2> QED
    BY <1>1, <1>2, <1>4, <2>1, <2>2, ByContinue DEF f
<1> QED
  BY <1>1, <1>3, <1>4 DEF ObjectFind

-----------------------------------------------------------------------------
(* The actions that begin and end loads, and derivations *)

LEMMA BeginKeeps ==
  ASSUME LoadingAssumption, IInv, NEW t \in Threads, Begin(t)
  PROVE  IInv'
<1>1. PICK l \in Loaders, n \in Names : stack' = [stack EXCEPT ![t] = <<LoadFrame(l, n)>>]
  BY DEF Begin
<1> DEFINE g == LoadFrame(l, n)
<1>2. g \in FrameType /\ g.pc = "start" /\ Fits(g)
  BY DEF LoadFrame, Frame, FrameType, Fits
<1> HIDE DEF g
<1>3. stack[t] = <<>> /\ Still /\ ret' = [ret EXCEPT ![t] = None]
  BY DEF Begin, Still
<1>4. stack \in [Threads -> Seq(FrameType)] /\ <<g>> \in Seq(FrameType)
  BY <1>2 DEF IInv, TypeOK
<1>5. /\ stack' \in [Threads -> Seq(FrameType)] /\ stack'[t] = <<g>>
      /\ \A u \in Threads \ {t} : stack'[u] = stack[u]
  BY <1>1, <1>4, Zenon DEF g
<1>6. ret' \in [Threads -> Types \cup NoType] /\ \A u \in Threads \ {t} : ret'[u] = ret[u]
  BY <1>3 DEF IInv, TypeOK, NoType
<1>7. Grow /\ Fits(g)'
  BY <1>2, <1>3, StillGrows
<1>8. TypeOK
  BY DEF IInv
<1>9. DOMAIN stack'[t] = {1} /\ stack'[t][1] = g /\ Len(stack'[t]) = 1 /\ DOMAIN stack[t] = {}
  BY <1>3, <1>5
<1>10. \A u \in Threads : \A i \in DOMAIN stack[u] : stack[u][i] \in FrameType
  BY <1>4, ElementOfSeq, LenProperties
<1>11. Frames(stack)'
  <2> SUFFICES ASSUME NEW u \in Threads, NEW i \in DOMAIN stack'[u]
               PROVE  Fits(stack[u][i])'
    BY DEF Frames
  <2>1. CASE u = t
    <3>1. stack'[u][i] = g
      BY <1>9, <2>1
    <3> QED
      BY <1>7, <3>1, FitsAs
  <2>2. CASE u # t
    <3>1. PICK h \in FrameType : h = stack[u][i] /\ Fits(h) /\ stack'[u][i] = h
      BY <1>5, <1>10, <2>2 DEF IInv, Frames
    <3> QED
      BY <1>7, <1>8, <3>1, FitsOf
  <2> QED
    BY <2>1, <2>2
<1>12. Linked(stack)'
  <2> SUFFICES ASSUME NEW u \in Threads, NEW i \in DOMAIN stack'[u], i + 1 \in DOMAIN stack'[u]
               PROVE  Called(stack'[u][i], stack'[u][i + 1])
    BY DEF Linked
  <2>1. CASE u = t
    BY <1>9, <2>1
  <2>2. CASE u # t
    BY <1>5, <2>2 DEF IInv, Linked
  <2> QED
    BY <2>1, <2>2
<1>13. Answers(stack, ret)'
  <2> SUFFICES ASSUME NEW u \in Threads, stack'[u] # <<>>
               PROVE  Answer(stack[u][Len(stack[u])], ret[u])'
    BY DEF Answers
  <2>1. CASE u = t
    <3>1. stack'[u][Len(stack'[u])] = g
      BY <1>9, <2>1
    <3> QED
      BY <1>2, <3>1 DEF Answer
  <2>2. CASE u # t
    <3>1. stack[u] # <<>> /\ stack'[u] = stack[u] /\ ret'[u] = ret[u]
      BY <1>5, <1>6, <2>2
    <3>2. Len(stack[u]) \in DOMAIN stack[u]
      BY <1>4, <3>1, EmptySeq, LenProperties
    <3>3. PICK h \in FrameType : h = stack[u][Len(stack[u])] /\ Answer(h, ret[u])
      BY <1>10, <3>1, <3>2 DEF IInv, Answers
    <3> QED
      BY <1>7, <1>8, <3>1, <3>3, AnswerOf
  <2> QED
    BY <2>1, <2>2
<1>14. Quiet
  <2>1. g.fn # "object"
    BY DEF g, LoadFrame, Frame
  <2> QED
    BY <1>2, <1>5, <1>9, <2>1 DEF Quiet, Kin
<1>15. Calm
  <2> SUFFICES ASSUME NEW u \in Threads, NEW i \in DOMAIN stack'[u], Open(u, i)'
               PROVE  /\ i \in DOMAIN stack[u] /\ Open(u, i)
                      /\ stack'[u][i].n = stack[u][i].n /\ stack'[u][i].l = stack[u][i].l
    BY DEF Calm
  <2>1. Opens(stack'[u][i], IF i = Len(stack'[u]) THEN ret'[u] ELSE None)
    BY <1>7, OpenThen DEF Grow
  <2>2. u # t
    BY <1>2, <1>9, <2>1 DEF Opens
  <2> QED
    BY <1>5, <1>6, <2>1, <2>2 DEF Open
<1> QED
  BY <1>3, <1>5, <1>6, <1>11, <1>12, <1>13, <1>14, <1>15, StillKeeps

LEMMA BootFindKeeps ==
  ASSUME LoadingAssumption, IInv, NEW t \in Threads, BootFind(t)
  PROVE  IInv'
<1>1. PICK h \in FrameType : /\ h = Top(t) /\ Fits(h) /\ stack[t] # <<>>
                             /\ h.fn = "boot" /\ h.pc = "start"
  BY TopIs DEF BootFind, At
<1>2. UNCHANGED <<mode, trees>> /\ h.l = Boot /\ h.l \in Loaders /\ h.n \in Names
  BY <1>1 DEF BootFind, Fits, FrameType
<1>3. Grow /\ mode' = mode /\ initiated' = initiated /\ defined' = defined /\ deriving' = deriving
  BY <1>2 DEF Grow, trees
<1>4. ASSUME NEW y \in Named(initiated[Boot], h.n), Return(t, y), UNCHANGED <<loading, waiters>>
      PROVE  IInv'
  <2>1. y \in initiated[h.l] /\ y.n = h.n /\ Proper(h.l, y) /\ y \in Types
    BY <1>2, <1>4 DEF Named, IInv, Trees, TypeOK
  <2>2. Gives(h, y)
    BY <1>1, <2>1 DEF Gives
  <2>3. Still
    BY <1>2, <1>4 DEF Still
  <2> QED
    BY <1>1, <1>4, <2>1, <2>2, <2>3, ByReturn
<1>5. ASSUME NEW f \in FrameType, Continue(t, f), f.fn = "boot", f.l = h.l, f.n = h.n,
             f.pc \in {"wait", "body"}
      PROVE  /\ stack' \in [Threads -> Seq(FrameType)] /\ ret' = ret
             /\ Frames(stack)' /\ Linked(stack)' /\ Answers(stack, ret)'
             /\ Kin(f, Top(t)) => Quiet
             /\ Calm /\ Trees'
  <2>1. PICK y : y = ret[t]
    OBVIOUS
  <2>2. stack' = Goto(t, f) /\ ret' = ret /\ ret' = [ret EXCEPT ![t] = y]
    BY <1>5, <2>1 DEF Continue, IInv, TypeOK
  <2>3. Fits(f)' /\ Answer(f, y)'
    BY <1>2, <1>5 DEF Fits, Answer
  <2>4. f.fn = Top(t).fn /\ f.l = Top(t).l /\ f.n = Top(t).n
    BY <1>1, <1>5
  <2>5. ~Opens(f, y)
    BY <1>5 DEF Opens
  <2> QED
    BY <1>1, <1>2, <1>3, <2>2, <2>3, <2>4, <2>5, GoesOnKeeps, TreesSame DEF IInv
<1>6. ASSUME Continue(t, [h EXCEPT !.pc = "wait"]), waiters' = TRUE, loading' = loading,
             {p \in loading : p[1] = h.n} \ {<<h.n, t>>} # {}
      PROVE  IInv'
  <2> DEFINE f == [h EXCEPT !.pc = "wait"]
  <2>1. f \in FrameType /\ f.fn = "boot" /\ f.l = h.l /\ f.n = h.n /\ f.pc = "wait"
    BY <1>1 DEF FrameType
  <2> HIDE DEF f
  <2>2. /\ stack' \in [Threads -> Seq(FrameType)] /\ ret' = ret
        /\ Frames(stack)' /\ Linked(stack)' /\ Answers(stack, ret)' /\ Calm /\ Trees'
    BY <1>5, <1>6, <2>1 DEF f
  <2>3. /\ DOMAIN stack[t] = 1 .. Len(stack[t])
        /\ \A u \in Threads \ {t} : stack'[u] = stack[u]
        /\ \A i \in DOMAIN stack'[t] :
             /\ i \in DOMAIN stack[t]
             /\ stack'[t][i] = IF i = Len(stack[t]) THEN f ELSE stack[t][i]
    <3>1. stack' = Goto(t, f) /\ stack \in [Threads -> Seq(FrameType)]
      BY <1>6 DEF Continue, IInv, TypeOK, f
    <3>2. stack[t] \in Seq(FrameType) /\ stack'[t] \in Seq(FrameType)
      BY <2>2, <3>1
    <3>3. DOMAIN stack[t] = 1 .. Len(stack[t]) /\ DOMAIN stack'[t] = 1 .. Len(stack'[t])
      BY <3>2, LenProperties
    <3> QED
      BY <1>1, <2>1, <3>1, <3>3, OnGoto
  <2>4. Waiting(stack)'
    <3> SUFFICES ASSUME NEW u \in Threads, NEW i \in DOMAIN stack'[u], stack'[u][i].pc = "wait"
                 PROVE  \E p \in loading : p[1] = stack'[u][i].n /\ p[2] # u
      BY <1>6 DEF Waiting
    <3>1. CASE u = t /\ i = Len(stack[t])
      <4>1. stack'[u][i] = f
        BY <2>3, <3>1
      <4>2. PICK p \in loading : p[1] = h.n /\ p # <<h.n, t>>
        BY <1>6
      <4>3. p \in Names \X Threads
        BY DEF IInv, TypeOK
      <4>4. p[2] # t
        BY <4>2, <4>3
      <4> QED
        BY <2>1, <3>1, <4>1, <4>2, <4>4
    <3>2. CASE ~(u = t /\ i = Len(stack[t]))
      <4>1. i \in DOMAIN stack[u] /\ stack'[u][i] = stack[u][i]
        BY <2>3, <3>2
      <4> QED
        BY <4>1 DEF IInv, Waiting
    <3> QED
      BY <3>1, <3>2
  <2>5. \A u \in Threads : \A i \in DOMAIN stack'[u] :
          stack'[u][i].fn = "derive" => i \in DOMAIN stack[u] /\ stack'[u][i] = stack[u][i]
    BY <2>1, <2>3
  <2>6. Derivers(stack)' /\ Absent'
    <3>1. ASSUME NEW u \in Threads, NEW i \in DOMAIN stack'[u], Busy(stack'[u][i])
          PROVE  /\ i \in DOMAIN stack[u] /\ Busy(stack[u][i])
                 /\ stack'[u][i].n = stack[u][i].n /\ stack'[u][i].l = stack[u][i].l
      BY <2>5, <3>1 DEF Busy
    <3>2. Derivers(stack)'
      BY <1>3, <3>1, DeriversFrom
    <3>3. \A u \in Threads : \A i \in DOMAIN stack[u] : Open(u, i) =>
            Named(initiated'[stack[u][i].l], stack[u][i].n) = {}
      BY <1>3 DEF IInv, Absent
    <3>4. Absent'
      BY <2>2, <3>3, CalmAbsent
    <3> QED
      BY <3>2, <3>4
  <2>7. TypeOK'
    BY <1>3, <1>6, <2>2 DEF IInv, TypeOK
  <2>8. Asked(stack)'
    BY <1>1, <1>3, <2>1, <2>2, <2>3, AskedFrom DEF Top
  <2> QED
    BY <1>3, <2>2, <2>4, <2>6, <2>7, <2>8 DEF IInv
<1>7. ASSUME Continue(t, [h EXCEPT !.pc = "body"]), UNCHANGED <<loading, waiters>>
      PROVE  IInv'
  <2> DEFINE f == [h EXCEPT !.pc = "body"]
  <2>1. f \in FrameType /\ f.fn = "boot" /\ f.l = h.l /\ f.n = h.n /\ f.pc = "body" /\ Like(f, Top(t))
    BY <1>1 DEF FrameType, Like, Kin, Busy, Seeking
  <2> HIDE DEF f
  <2>2. /\ stack' \in [Threads -> Seq(FrameType)] /\ ret' = ret
        /\ Frames(stack)' /\ Linked(stack)' /\ Answers(stack, ret)' /\ Quiet /\ Calm
    BY <1>5, <1>7, <2>1 DEF f, Like
  <2>3. Still
    BY <1>2, <1>7 DEF Still
  <2> QED
    BY <2>2, <2>3, StillKeeps DEF IInv, TypeOK
<1>8. ASSUME Continue(t, [h EXCEPT !.pc = "body", !.own = TRUE]),
             loading' = loading \cup {<<h.n, t>>}, waiters' = waiters
      PROVE  IInv'
  <2> DEFINE f == [h EXCEPT !.pc = "body", !.own = TRUE]
  <2>1. f \in FrameType /\ f.fn = "boot" /\ f.l = h.l /\ f.n = h.n /\ f.pc = "body" /\ Like(f, Top(t))
    BY <1>1 DEF FrameType, Like, Kin, Busy, Seeking
  <2> HIDE DEF f
  <2>2. /\ stack' \in [Threads -> Seq(FrameType)] /\ ret' = ret /\ Trees'
        /\ Frames(stack)' /\ Linked(stack)' /\ Answers(stack, ret)' /\ Quiet /\ Calm
    BY <1>5, <1>8, <2>1 DEF f, Like
  <2>3. Derivers(stack)' /\ Waiting(stack)' /\ Asked(stack)'
    BY <1>3, <1>8, <2>2, QuietDerivers, QuietWaiting, QuietAsked
  <2>4. Absent'
    <3>1. \A u \in Threads : \A i \in DOMAIN stack[u] : Open(u, i) =>
            Named(initiated'[stack[u][i].l], stack[u][i].n) = {}
      BY <1>3 DEF IInv, Absent
    <3> QED
      BY <2>2, <3>1, CalmAbsent
  <2>5. TypeOK'
    BY <1>2, <1>3, <1>8, <2>2 DEF IInv, TypeOK
  <2> QED
    BY <1>3, <2>2, <2>3, <2>4, <2>5 DEF IInv
<1> QED
  BY <1>1, <1>4, <1>6, <1>7, <1>8 DEF BootFind

LEMMA BootDoneKeeps ==
  ASSUME LoadingAssumption, IInv, NEW t \in Threads, BootDone(t)
  PROVE  IInv'
<1>1. PICK h \in FrameType : /\ h = Top(t) /\ Fits(h) /\ stack[t] # <<>>
                             /\ h.fn = "boot" /\ h.pc = "done" /\ Answer(h, ret[t])
  BY TopIs DEF BootDone, At
<1>2. /\ h.l = Boot /\ Boot \in Loaders /\ ret[t] \in Types \cup NoType
  BY <1>1, TopIs DEF LoadingAssumption, Fits
<1>3. PICK y : /\ y \in IF ret[t] = Ok THEN Named(defined[Boot], h.n)
                        ELSE IF ret[t] = OutOfMemory THEN {None} ELSE {ret[t]}
               /\ ret' = [ret EXCEPT ![t] = y]
  BY <1>1 DEF BootDone
<1>4. y \in Types \cup NoType /\ Gives(h, y)
  <2>1. CASE ret[t] = Ok
    <3>1. y \in defined[Boot] /\ y.n = h.n
      BY <1>3, <2>1 DEF Named
    <3>2. y \in initiated[Boot] /\ Proper(Boot, y) /\ y \in Types
      BY <1>2, <3>1 DEF IInv, Trees, TypeOK
    <3> QED
      BY <1>1, <1>2, <3>1, <3>2 DEF Gives
  <2>2. CASE y = None
    BY <1>1, <2>2 DEF Gives, NoType
  <2>3. CASE ret[t] # Ok /\ y # None
    <3>1. y = ret[t] /\ y # OutOfMemory /\ y # Ok
      BY <1>3, <2>3
    <3>2. Proper(Boot, y) /\ y.n = h.n
      BY <1>1, <2>3, <3>1 DEF Answer, NoType
    <3>3. y \in defined[Boot] /\ y \in Types
      BY <3>2 DEF Proper
    <3>4. y \in initiated[Boot]
      BY <1>2, <3>3 DEF IInv, Trees
    <3> QED
      BY <1>1, <1>2, <3>2, <3>3, <3>4 DEF Gives
  <2> QED
    BY <2>1, <2>2, <2>3
<1>5. /\ UNCHANGED <<mode, trees>>
      /\ Grow /\ mode' = mode /\ initiated' = initiated /\ defined' = defined /\ deriving' = deriving
  BY DEF BootDone, Grow, trees
<1>6. CASE stack' = Returned(t) /\ UNCHANGED <<loading, waiters>>
  <2>1. Still /\ Return(t, y)
    BY <1>3, <1>5, <1>6 DEF Still, Return
  <2> QED
    BY <1>1, <1>4, <2>1, ByReturn
<1>7. CASE /\ loading' = loading \ {<<h.n, t>>} /\ waiters' = FALSE
           /\ stack' = IF waiters THEN Woken(Returned(t)) ELSE Returned(t)
  <2> DEFINE r == Returned(t)
  <2>1. /\ r \in [Threads -> Seq(FrameType)]
        /\ Len(r[t]) = Len(stack[t]) - 1 /\ Len(stack[t]) \in Nat
        /\ \A u \in Threads \ {t} : r[u] = stack[u]
        /\ \A i \in 1 .. Len(stack[t]) - 1 : r[t][i] = stack[t][i]
    BY <1>1, OnReturned DEF IInv, TypeOK
  <2> HIDE DEF r
  <2>2. \A u \in Threads : \A i \in DOMAIN r[u] : r[u][i] \in FrameType
    BY <2>1, ElementOfSeq, LenProperties
  <2>3. \A u \in Threads : DOMAIN r[u] = 1 .. Len(r[u]) /\ Len(r[u]) \in Nat
    BY <2>1, LenProperties
  <2>4. ASSUME NEW f \in FrameType
        PROVE  [f EXCEPT !.pc = "start"] \in FrameType
    BY DEF FrameType
  <2>5. /\ stack' \in [Threads -> Seq(FrameType)]
        /\ \A u \in Threads : Len(stack'[u]) = Len(r[u])
        /\ \A u \in Threads : \A i \in 1 .. Len(r[u]) :
             /\ Alike(stack'[u][i], r[u][i])
             /\ waiters => stack'[u][i].pc # "wait"
    <3>1. CASE ~waiters
      BY <1>7, <2>1, <3>1 DEF Alike, r
    <3>2. CASE waiters
      <4> DEFINE s(u) == [i \in DOMAIN r[u] |-> IF r[u][i].pc = "wait" THEN [r[u][i] EXCEPT !.pc = "start"]
                                                                    ELSE r[u][i]]
      <4>1. stack' = [u \in Threads |-> s(u)]
        BY <1>7, <3>2 DEF Woken, r
      <4>2. ASSUME NEW u \in Threads
            PROVE  /\ s(u) \in Seq(FrameType) /\ Len(s(u)) = Len(r[u])
                   /\ \A i \in 1 .. Len(r[u]) : Alike(s(u)[i], r[u][i]) /\ s(u)[i].pc # "wait"
        <5>1. \A i \in 1 .. Len(r[u]) : s(u)[i] \in FrameType
          BY <2>2, <2>3, <2>4
        <5>2. s(u) \in [1 .. Len(r[u]) -> FrameType]
          BY <2>3, <5>1
        <5>3. s(u) \in Seq(FrameType) /\ Len(s(u)) = Len(r[u])
          <6>1. s(u) \in Seq(FrameType)
            BY <2>3, <5>2, FunctionIsSeq
          <6>2. DOMAIN s(u) = 1 .. Len(s(u)) /\ Len(s(u)) \in Nat
            BY <6>1, LenProperties
          <6>3. DOMAIN s(u) = 1 .. Len(r[u])
            BY <5>2
          <6> HIDE DEF s
          <6>4. 1 .. Len(s(u)) = 1 .. Len(r[u])
            BY <6>2, <6>3
          <6> QED
            BY <2>3, <6>1, <6>2, <6>4
        <5>4. ASSUME NEW i \in 1 .. Len(r[u])
              PROVE  Alike(s(u)[i], r[u][i]) /\ s(u)[i].pc # "wait"
          <6>1. s(u)[i] = IF r[u][i].pc = "wait" THEN [r[u][i] EXCEPT !.pc = "start"] ELSE r[u][i]
            BY <2>3
          <6>2. r[u][i] \in FrameType
            BY <2>2, <2>3
          <6> QED
            BY <6>1, <6>2 DEF Alike, FrameType
        <5> QED
          BY <5>3, <5>4
      <4> HIDE DEF s
      <4> QED
        BY <4>1, <4>2
    <3> QED
      BY <3>1, <3>2
  <2>6. /\ Len(stack'[t]) = Len(stack[t]) - 1
        /\ \A u \in Threads \ {t} : Len(stack'[u]) = Len(stack[u])
        /\ \A u \in Threads : \A i \in 1 .. Len(stack'[u]) : Alike(stack'[u][i], stack[u][i])
    BY <2>1, <2>5
  <2>7. TypeOK' /\ Trees'
    BY <1>3, <1>4, <1>5, <1>7, <2>5, TreesSame DEF IInv, TypeOK
  <2>8. Gives(h, y)'
    BY <1>4, <1>5 DEF Gives, Proper
  <2>9. Frames(stack)' /\ Linked(stack)' /\ Answers(stack, ret)' /\ Quiet /\ Calm
    BY <1>1, <1>3, <1>5, <2>5, <2>6, <2>7, <2>8, BackKeeps
  <2>10. Derivers(stack)' /\ Asked(stack)'
    BY <1>5, <2>5, <2>9, QuietDerivers, QuietAsked
  <2>11. Absent'
    <3>1. \A u \in Threads : \A i \in DOMAIN stack[u] : Open(u, i) =>
            Named(initiated'[stack[u][i].l], stack[u][i].n) = {}
      BY <1>5 DEF IInv, Absent
    <3> QED
      BY <2>9, <3>1, CalmAbsent
  <2>12. Waiting(stack)'
    <3> SUFFICES ASSUME NEW u \in Threads, NEW i \in DOMAIN stack'[u], stack'[u][i].pc = "wait"
                 PROVE  FALSE
      BY DEF Waiting
    <3>1. i \in 1 .. Len(r[u])
      BY <2>5, LenProperties
    <3>2. ~waiters
      BY <2>5, <3>1
    <3>3. i \in DOMAIN stack[u] /\ stack[u][i].pc = "wait"
      BY <2>9 DEF Quiet, Kin
    <3> QED
      BY <3>2, <3>3 DEF IInv, Waiting
  <2> QED
    BY <1>5, <2>7, <2>9, <2>10, <2>11, <2>12 DEF IInv
<1> QED
  BY <1>1, <1>6, <1>7 DEF BootDone

\* Who derives what.
LEMMA DeriverIs ==
  ASSUME IInv, NEW t \in Threads, NEW i \in DOMAIN stack[t], Busy(stack[t][i])
  PROVE  <<stack[t][i].n, t>> \in deriving[stack[t][i].l]
  BY DEF IInv, Derivers

LEMMA DeriverOnce ==
  ASSUME IInv, NEW t \in Threads, NEW i \in DOMAIN stack[t], NEW j \in DOMAIN stack[t],
         Busy(stack[t][i]), Busy(stack[t][j]),
         stack[t][i].n = stack[t][j].n, stack[t][i].l = stack[t][j].l
  PROVE  i = j
  BY DEF IInv, Derivers

LEMMA DerivingOnce ==
  ASSUME IInv, NEW l \in Loaders, NEW p \in deriving[l], NEW q \in deriving[l], p[1] = q[1]
  PROVE  p = q
  BY DEF IInv, Derivers

LEMMA FramesTyped ==
  ASSUME IInv, NEW t \in Threads, NEW i \in DOMAIN stack[t]
  PROVE  stack[t][i] \in FrameType
<1>1. stack \in [Threads -> Seq(FrameType)]
  BY DEF IInv, TypeOK
<1> QED
  BY <1>1, ElementOfSeq, LenProperties

\* The activation on top is the one that changes.
LEMMA OnTop ==
  ASSUME IInv, NEW t \in Threads, stack[t] # <<>>, NEW f \in FrameType, stack' = Goto(t, f)
  PROVE  /\ Len(stack[t]) \in DOMAIN stack[t] /\ Top(t) = stack[t][Len(stack[t])]
         /\ \A u \in Threads : DOMAIN stack'[u] = DOMAIN stack[u]
         /\ \A u \in Threads : \A i \in DOMAIN stack[u] :
              stack'[u][i] = IF u = t /\ i = Len(stack[t]) THEN f ELSE stack[u][i]
<1>1. stack \in [Threads -> Seq(FrameType)]
  BY DEF IInv, TypeOK
<1>2. /\ stack' \in [Threads -> Seq(FrameType)]
      /\ Len(stack[t]) \in Nat /\ Len(stack[t]) > 0 /\ Len(stack'[t]) = Len(stack[t])
      /\ \A u \in Threads \ {t} : stack'[u] = stack[u]
      /\ \A i \in 1 .. Len(stack[t]) :
           stack'[t][i] = IF i = Len(stack[t]) THEN f ELSE stack[t][i]
  BY <1>1, OnGoto
<1>3. DOMAIN stack[t] = 1 .. Len(stack[t]) /\ DOMAIN stack'[t] = 1 .. Len(stack'[t])
  BY <1>1, <1>2, LenProperties
<1>4. Len(stack[t]) \in DOMAIN stack[t] /\ Top(t) = stack[t][Len(stack[t])]
  BY <1>2, <1>3 DEF Top
<1>5. DOMAIN stack'[t] = DOMAIN stack[t] /\ \A i \in DOMAIN stack[t] :
           stack'[t][i] = IF i = Len(stack[t]) THEN f ELSE stack[t][i]
  BY <1>2, <1>3
<1> QED
  BY <1>2, <1>4, <1>5

\* The activations under it stay as open as they are.
LEMMA OpenStays ==
  ASSUME IInv, mode' = mode, NEW t \in Threads, stack[t] # <<>>,
         NEW f \in FrameType, stack' = Goto(t, f), \A u \in Threads \ {t} : ret'[u] = ret[u],
         NEW u \in Threads, NEW i \in DOMAIN stack'[u], ~(u = t /\ i = Len(stack[t])), Open(u, i)'
  PROVE  i \in DOMAIN stack[u] /\ stack'[u][i] = stack[u][i] /\ Open(u, i)
<1>1. Opens(stack'[u][i], IF i = Len(stack'[u]) THEN ret'[u] ELSE None)
  BY OpenThen
<1>2. i \in DOMAIN stack[u] /\ stack'[u][i] = stack[u][i]
  BY OnTop
<1>3. stack \in [Threads -> Seq(FrameType)]
  BY DEF IInv, TypeOK
<1>4. /\ \A v \in Threads \ {t} : stack'[v] = stack[v]
      /\ Len(stack'[t]) = Len(stack[t])
  BY <1>3, OnGoto
<1> QED
  BY <1>1, <1>2, <1>4 DEF Open

LEMMA DeriveEnterKeeps ==
  ASSUME LoadingAssumption, IInv, NEW t \in Threads, DeriveEnter(t)
  PROVE  IInv'
<1>1. PICK h \in FrameType : /\ h = Top(t) /\ Fits(h) /\ stack[t] # <<>>
                             /\ h.fn = "derive" /\ h.pc = "enter"
  BY TopIs DEF DeriveEnter, At
<1>2. h.l \in Loaders /\ h.n \in Names /\ h.n \in Classes /\ h.i = 1 /\ h.got = None
  BY <1>1 DEF FrameType, Fits
<1>3. CASE UNCHANGED deriving /\ Continue(t, [h EXCEPT !.pc = "unref"])
  <2> DEFINE f == [h EXCEPT !.pc = "unref"]
  <2>1. /\ f \in FrameType /\ Like(f, Top(t)) /\ Fits(f) /\ f.fn = "derive" /\ f.pc = "unref"
    BY <1>1 DEF FrameType, Like, Kin, Busy, Seeking, Fits
  <2>2. Still
    BY <1>3 DEF DeriveEnter, Still, trees
  <2> HIDE DEF f
  <2>3. Answer(f, ret[t])
    BY <2>1 DEF Answer
  <2> QED
    BY <1>1, <1>3, <2>1, <2>2, <2>3, ByContinue DEF f
<1>4. CASE /\ Named(initiated[h.l], h.n) = {} /\ \A p \in deriving[h.l] : p[1] # h.n
           /\ deriving' = [deriving EXCEPT ![h.l] = @ \cup {<<h.n, t>>}]
           /\ \E pc \in {"supers", "leave"} : Continue(t, [h EXCEPT !.pc = pc, !.own = TRUE])
  <2>0. PICK pc \in {"supers", "leave"} : Continue(t, [h EXCEPT !.pc = pc, !.own = TRUE])
    BY <1>4
  <2> DEFINE f == [h EXCEPT !.pc = pc, !.own = TRUE]
             n == Len(stack[t])
  <2>1. /\ f \in FrameType /\ f.fn = "derive" /\ f.pc = pc
        /\ f.l = h.l /\ f.n = h.n /\ f.i = h.i /\ f.got = h.got
    BY <1>1 DEF FrameType
  <2>2. /\ UNCHANGED <<mode, initiated, defined, loading, waiters>>
        /\ stack' = Goto(t, f) /\ ret' = ret
    BY <2>0 DEF DeriveEnter, Continue
  <2> HIDE DEF f, n
  <2>3. Grow
    BY <2>2 DEF Grow
  <2>4. \A j \in DOMAIN Supers[h.n] : ~(j < 1)
    BY <1>2, SupersAre
  <2>5. Fits(f)'
    <3>1. mode = "objects" => h.l # Boot
      BY <1>1 DEF Fits
    <3>2. h.l = Boot \/ h.n \in ClassFiles[h.l]
      BY <1>1 DEF Fits
    <3>3. CASE f.pc = "supers"
      BY <1>2, <2>1, <2>2, <2>4, <3>1, <3>2, <3>3 DEF Fits
    <3>4. CASE f.pc = "leave"
      BY <1>2, <2>1, <2>2, <3>1, <3>2, <3>4 DEF Fits
    <3> QED
      BY <2>1, <3>3, <3>4
  <2>6. PICK y : y = ret[t]
    OBVIOUS
  <2>7. ret' = [ret EXCEPT ![t] = y] /\ Answer(f, y)'
    BY <2>1, <2>2, <2>6 DEF Answer, IInv, TypeOK
  <2>8. /\ stack' \in [Threads -> Seq(FrameType)]
        /\ Frames(stack)' /\ Linked(stack)' /\ Answers(stack, ret)'
    BY <1>1, <2>1, <2>2, <2>3, <2>5, <2>7, GoesOnKeeps
  <2>9. /\ n \in DOMAIN stack[t] /\ h = stack[t][n]
        /\ \A u \in Threads : DOMAIN stack'[u] = DOMAIN stack[u]
        /\ \A u \in Threads : \A i \in DOMAIN stack[u] :
             stack'[u][i] = IF u = t /\ i = n THEN f ELSE stack[u][i]
    BY <1>1, <2>1, <2>2, OnTop DEF n
  <2>10. TypeOK'
    <3>1. deriving' \in [Loaders -> SUBSET (Names \X Threads)]
      BY <1>2, <1>4 DEF IInv, TypeOK
    <3> QED
      BY <2>2, <2>8, <3>1 DEF IInv, TypeOK
  <2>11. Trees'
    BY <2>2, TreesSame DEF IInv
  <2>12. \A l \in Loaders : \A p : p \in deriving'[l] <=> p \in deriving[l] \/ (l = h.l /\ p = <<h.n, t>>)
    BY <1>2, <1>4 DEF IInv, TypeOK
  <2>13. \A u \in Threads : \A i \in DOMAIN stack[u] : stack[u][i].l \in Loaders
    BY FramesTyped DEF FrameType
  <2>14. ASSUME NEW u \in Threads, NEW i \in DOMAIN stack[u], Busy(stack[u][i]), ~(u = t /\ i = n)
         PROVE  ~(stack[u][i].n = h.n /\ stack[u][i].l = h.l)
    <3>1. <<stack[u][i].n, u>> \in deriving[stack[u][i].l]
      BY <2>14, DeriverIs
    <3> QED
      BY <1>4, <3>1
  <2>15. Derivers(stack)'
    <3>1. ASSUME NEW u \in Threads, NEW i \in DOMAIN stack'[u], Busy(stack'[u][i])
          PROVE  <<stack'[u][i].n, u>> \in deriving'[stack'[u][i].l]
      <4>1. CASE u = t /\ i = n
        BY <1>2, <2>1, <2>9, <2>12, <4>1
      <4>2. CASE ~(u = t /\ i = n)
        <5>1. i \in DOMAIN stack[u] /\ stack'[u][i] = stack[u][i]
          BY <2>9, <4>2
        <5> QED
          BY <2>12, <2>13, <3>1, <5>1, DeriverIs
      <4> QED
        BY <4>1, <4>2
    <3>2. ASSUME NEW u \in Threads, NEW i \in DOMAIN stack'[u], NEW j \in DOMAIN stack'[u],
                 Busy(stack'[u][i]), Busy(stack'[u][j]),
                 stack'[u][i].n = stack'[u][j].n, stack'[u][i].l = stack'[u][j].l
          PROVE  i = j
      <4>1. i \in DOMAIN stack[u] /\ j \in DOMAIN stack[u]
        BY <2>9
      <4>2. CASE u = t /\ i = n /\ j # n
        <5>1. stack'[u][j] = stack[u][j] /\ stack'[u][i] = f
          BY <2>9, <4>1, <4>2
        <5> QED
          BY <2>1, <2>14, <3>2, <4>1, <4>2, <5>1
      <4>3. CASE u = t /\ j = n /\ i # n
        <5>1. stack'[u][i] = stack[u][i] /\ stack'[u][j] = f
          BY <2>9, <4>1, <4>3
        <5> QED
          BY <2>1, <2>14, <3>2, <4>1, <4>3, <5>1
      <4>4. CASE ~(u = t /\ i = n) /\ ~(u = t /\ j = n)
        <5>1. stack'[u][i] = stack[u][i] /\ stack'[u][j] = stack[u][j]
          BY <2>9, <4>1, <4>4
        <5> QED
          BY <3>2, <4>1, <5>1, DeriverOnce
      <4> QED
        BY <4>2, <4>3, <4>4
    <3>3. \A l \in Loaders : \A p, q \in deriving'[l] : p[1] = q[1] => p = q
      <4> SUFFICES ASSUME NEW l \in Loaders, NEW p \in deriving'[l], NEW q \in deriving'[l], p[1] = q[1]
                   PROVE  p = q
        OBVIOUS
      <4>1. CASE p \in deriving[l] /\ q \in deriving[l]
        BY <4>1, DerivingOnce
      <4>2. CASE l = h.l /\ p = <<h.n, t>>
        BY <1>4, <2>12, <4>2
      <4>3. CASE l = h.l /\ q = <<h.n, t>>
        BY <1>4, <2>12, <4>3
      <4> QED
        BY <2>12, <4>1, <4>2, <4>3
    <3> QED
      BY <3>1, <3>2, <3>3 DEF Derivers, Busy
  <2>16. Absent'
    <3>1. ASSUME NEW u \in Threads, NEW i \in DOMAIN stack'[u], Open(u, i)'
          PROVE  Named(initiated'[stack'[u][i].l], stack'[u][i].n) = {}
      <4>1. CASE u = t /\ i = n
        BY <1>4, <2>1, <2>2, <2>9, <4>1
      <4>2. CASE ~(u = t /\ i = n)
        <5>1. i \in DOMAIN stack[u] /\ stack'[u][i] = stack[u][i] /\ Open(u, i)
          BY <1>1, <2>1, <2>2, <3>1, <4>2, OpenStays DEF n
        <5> QED
          BY <2>2, <5>1 DEF IInv, Absent
      <4> QED
        BY <4>1, <4>2
    <3> QED
      BY <3>1, AbsentFrom
  <2>17. Waiting(stack)'
    <3>1. ASSUME NEW u \in Threads, NEW i \in DOMAIN stack'[u], stack'[u][i].pc = "wait"
          PROVE  i \in DOMAIN stack[u] /\ stack'[u][i] = stack[u][i]
      BY <2>1, <2>9, <3>1
    <3>2. ASSUME NEW u \in Threads, NEW i \in DOMAIN stack'[u], stack'[u][i].pc = "wait"
          PROVE  waiters /\ \E p \in loading : p[1] = stack'[u][i].n /\ p[2] # u
      <4>1. i \in DOMAIN stack[u] /\ stack'[u][i] = stack[u][i] /\ stack[u][i].pc = "wait"
        BY <3>1, <3>2
      <4>2. waiters /\ \E p \in loading : p[1] = stack[u][i].n /\ p[2] # u
        BY <4>1 DEF IInv, Waiting
      <4> QED
        BY <4>1, <4>2
    <3> QED
      BY <2>2, <3>2 DEF Waiting
  <2>18. Asked(stack)'
    BY <1>1, <2>1, <2>2, <2>8, <2>9, AskedFrom
  <2> QED
    BY <2>2, <2>8, <2>10, <2>11, <2>15, <2>16, <2>17, <2>18 DEF IInv
<1> QED
  BY <1>1, <1>3, <1>4 DEF DeriveEnter

LEMMA DeriveLeaveKeeps ==
  ASSUME LoadingAssumption, IInv, NEW t \in Threads, DeriveLeave(t)
  PROVE  IInv'
<1>1. PICK h \in FrameType : /\ h = Top(t) /\ Fits(h) /\ stack[t] # <<>>
                             /\ h.fn = "derive" /\ h.pc = "leave"
  BY TopIs DEF DeriveLeave, At
<1> DEFINE f == [h EXCEPT !.pc = "unref"]
           n == Len(stack[t])
<1>2. /\ f \in FrameType /\ f.fn = "derive" /\ f.pc = "unref" /\ f.l = h.l /\ f.n = h.n
      /\ Like(f, Top(t)) /\ Fits(f) /\ h.l \in Loaders /\ h.n \in Names
  BY <1>1 DEF FrameType, Like, Kin, Busy, Seeking, Fits
<1>3. /\ UNCHANGED <<mode, initiated, defined, loading, waiters>>
      /\ stack' = Goto(t, f) /\ ret' = ret
      /\ deriving' = [deriving EXCEPT ![h.l] = @ \ {<<h.n, t>>}]
  BY <1>1 DEF DeriveLeave, Continue
<1> HIDE DEF f, n
<1>4. Grow
  BY <1>3 DEF Grow
<1>5. Fits(f)'
  BY <1>2, <1>4, FitsGrows DEF IInv
<1>6. PICK y : y = ret[t]
  OBVIOUS
<1>7. ret' = [ret EXCEPT ![t] = y] /\ Answer(f, y)'
  BY <1>2, <1>3, <1>6 DEF Answer, IInv, TypeOK
<1>8. /\ stack' \in [Threads -> Seq(FrameType)]
      /\ Frames(stack)' /\ Linked(stack)' /\ Answers(stack, ret)' /\ Quiet /\ Calm
  <2>1. f.fn = Top(t).fn /\ f.l = Top(t).l /\ f.n = Top(t).n /\ Kin(f, Top(t))
    BY <1>2 DEF Like, Kin
  <2>2. ~Opens(f, y)
    BY <1>2 DEF Opens
  <2> QED
    BY <1>1, <1>2, <1>3, <1>4, <1>5, <1>7, <2>1, <2>2, GoesOnKeeps
<1>9. /\ n \in DOMAIN stack[t] /\ h = stack[t][n]
      /\ \A u \in Threads : DOMAIN stack'[u] = DOMAIN stack[u]
      /\ \A u \in Threads : \A i \in DOMAIN stack[u] :
           stack'[u][i] = IF u = t /\ i = n THEN f ELSE stack[u][i]
  BY <1>1, <1>2, <1>3, OnTop DEF n
<1>10. TypeOK'
  <2>1. deriving' \in [Loaders -> SUBSET (Names \X Threads)]
    BY <1>2, <1>3 DEF IInv, TypeOK
  <2> QED
    BY <1>3, <1>8, <2>1 DEF IInv, TypeOK
<1>11. Trees'
  BY <1>3, TreesSame DEF IInv
<1>12. \A l \in Loaders : \A p : p \in deriving'[l] <=> p \in deriving[l] /\ ~(l = h.l /\ p = <<h.n, t>>)
  BY <1>2, <1>3 DEF IInv, TypeOK
<1>13. \A u \in Threads : \A i \in DOMAIN stack[u] : stack[u][i].l \in Loaders
  BY FramesTyped DEF FrameType
<1>14. ASSUME NEW u \in Threads, NEW i \in DOMAIN stack'[u], Busy(stack'[u][i])
       PROVE  i \in DOMAIN stack[u] /\ stack'[u][i] = stack[u][i] /\ ~(u = t /\ i = n)
  BY <1>2, <1>9, <1>14 DEF Busy
<1>15. Derivers(stack)'
  <2>1. ASSUME NEW u \in Threads, NEW i \in DOMAIN stack'[u], Busy(stack'[u][i])
        PROVE  <<stack'[u][i].n, u>> \in deriving'[stack'[u][i].l]
    <3>1. <<stack[u][i].n, u>> \in deriving[stack[u][i].l]
      BY <1>14, <2>1, DeriverIs
    <3>2. Busy(stack[t][n])
      BY <1>1, <1>9 DEF Busy
    <3>3. ~(stack[u][i].l = h.l /\ <<stack[u][i].n, u>> = <<h.n, t>>)
      <4>1. SUFFICES ASSUME u = t, stack[u][i].l = h.l, stack[u][i].n = h.n
                     PROVE  FALSE
        OBVIOUS
      <4>2. i = n
        BY <1>9, <1>14, <2>1, <3>2, <4>1, DeriverOnce
      <4> QED
        BY <1>14, <2>1, <4>1, <4>2
    <3>4. i \in DOMAIN stack[u] /\ stack'[u][i] = stack[u][i] /\ stack[u][i].l \in Loaders
      BY <1>13, <1>14, <2>1
    <3>5. <<stack[u][i].n, u>> \in deriving'[stack[u][i].l]
      BY <1>12, <3>1, <3>3, <3>4
    <3> QED
      BY <3>4, <3>5
  <2>2. ASSUME NEW u \in Threads, NEW i \in DOMAIN stack'[u], NEW j \in DOMAIN stack'[u],
               Busy(stack'[u][i]), Busy(stack'[u][j]),
               stack'[u][i].n = stack'[u][j].n, stack'[u][i].l = stack'[u][j].l
        PROVE  i = j
    <3>1. /\ i \in DOMAIN stack[u] /\ stack'[u][i] = stack[u][i]
          /\ j \in DOMAIN stack[u] /\ stack'[u][j] = stack[u][j]
      BY <1>14, <2>2
    <3> QED
      BY <2>2, <3>1, DeriverOnce
  <2>3. \A l \in Loaders : \A p, q \in deriving'[l] : p[1] = q[1] => p = q
    BY <1>12, DerivingOnce
  <2> QED
    BY <2>1, <2>2, <2>3 DEF Derivers, Busy
<1>16. Absent'
  <2>1. \A u \in Threads : \A i \in DOMAIN stack[u] : Open(u, i) =>
          Named(initiated'[stack[u][i].l], stack[u][i].n) = {}
    BY <1>3 DEF IInv, Absent
  <2> QED
    BY <1>8, <2>1, CalmAbsent
<1>17. Waiting(stack)' /\ Asked(stack)'
  BY <1>3, <1>8, QuietWaiting, QuietAsked
<1> QED
  BY <1>3, <1>8, <1>10, <1>11, <1>15, <1>16, <1>17 DEF IInv

-----------------------------------------------------------------------------
(* The actions that add types *)

\* Types of new names are added.
LEMMA TreesGrow ==
  ASSUME LoadingAssumption, IInv, Grow, TypeOK',
         \A l \in Loaders : \A x \in initiated'[l] \ initiated[l] :
           /\ Named(initiated[l], x.n) = {}
           /\ \A y \in initiated'[l] \ initiated[l] : x.n = y.n => x = y
           /\ Proper(l, x)',
         \A l \in Loaders : \A y \in defined'[l] \ defined[l] :
           /\ y \in initiated'[l] /\ y.l = l /\ (y.how = "array" <=> y.n \in Arrays)
           /\ y.how = "interp" =>
                \A i \in DOMAIN Supers[y.n] :
                  Supers[y.n][i] # y.n /\ Named(initiated'[l], Supers[y.n][i]) # {}
  PROVE  Trees'
<1> SUFFICES ASSUME NEW l \in Loaders
             PROVE  /\ \A x, y \in initiated'[l] : x.n = y.n => x = y
                    /\ defined'[l] \subseteq initiated'[l]
                    /\ \A y \in initiated'[l] : Proper(l, y)'
                    /\ \A y \in defined'[l] :
                         /\ y.l = l
                         /\ y.how = "array" <=> y.n \in Arrays
                         /\ y.how = "interp" =>
                              \A i \in DOMAIN Supers[y.n] :
                                Supers[y.n][i] # y.n /\ Named(initiated'[l], Supers[y.n][i]) # {}
  BY DEF Trees, Named
<1>1. initiated[l] \subseteq initiated'[l] /\ defined[l] \subseteq defined'[l]
  BY DEF Grow
<1>2. Trees /\ TypeOK
  BY DEF IInv
<1>3. \A x, y \in initiated'[l] : x.n = y.n => x = y
  <2>1. \A x, y \in initiated[l] : x.n = y.n => x = y
    BY <1>2 DEF Trees
  <2>2. ASSUME NEW x \in initiated'[l] \ initiated[l], NEW y \in initiated[l]
        PROVE  x.n # y.n
    BY <2>2 DEF Named
  <2>3. ASSUME NEW x \in initiated'[l] \ initiated[l], NEW y \in initiated'[l] \ initiated[l], x.n = y.n
        PROVE  x = y
    BY <2>3
  <2>4. ASSUME NEW x \in initiated'[l], NEW y \in initiated'[l], x.n = y.n
        PROVE  x = y
    <3>1. CASE x \in initiated[l] /\ y \in initiated[l]
      BY <2>1, <2>4, <3>1
    <3>2. CASE x \notin initiated[l] /\ y \in initiated[l]
      BY <2>2, <2>4, <3>2
    <3>3. CASE x \in initiated[l] /\ y \notin initiated[l]
      BY <2>2, <2>4, <3>3
    <3>4. CASE x \notin initiated[l] /\ y \notin initiated[l]
      BY <2>3, <2>4, <3>4
    <3> QED
      BY <3>1, <3>2, <3>3, <3>4
  <2> QED
    BY <2>4
<1>4. defined'[l] \subseteq initiated'[l]
  BY <1>1, <1>2 DEF Trees
<1>5. ASSUME NEW y \in initiated'[l]
      PROVE  Proper(l, y)'
  <2>1. CASE y \in initiated[l]
    <3>1. Proper(l, y)
      BY <1>2, <2>1 DEF Trees
    <3> QED
      BY <1>2, <3>1, ProperGrows
  <2> QED
    BY <2>1
<1>6. \A n : Named(initiated[l], n) # {} => Named(initiated'[l], n) # {}
  BY <1>1 DEF Named
<1>7. ASSUME NEW y \in defined'[l]
      PROVE  /\ y.l = l
             /\ y.how = "array" <=> y.n \in Arrays
             /\ y.how = "interp" =>
                  \A i \in DOMAIN Supers[y.n] :
                    Supers[y.n][i] # y.n /\ Named(initiated'[l], Supers[y.n][i]) # {}
  <2>1. CASE y \in defined[l]
    <3>1. /\ y.l = l
          /\ y.how = "array" <=> y.n \in Arrays
          /\ y.how = "interp" =>
               \A i \in DOMAIN Supers[y.n] :
                 Supers[y.n][i] # y.n /\ Named(initiated[l], Supers[y.n][i]) # {}
      BY <1>2, <2>1 DEF Trees
    <3> QED
      BY <1>6, <3>1
  <2>2. CASE y \notin defined[l]
    <3>1. y \in defined'[l] \ defined[l]
      BY <2>2
    <3> QED
      BY <3>1
  <2> QED
    BY <2>1, <2>2
<1> QED
  BY <1>3, <1>4, <1>5, <1>7

\* A type that has been looked up by a loader stands for all types of its name there.
LEMMA ProperIsKnown ==
  ASSUME LoadingAssumption, IInv, NEW l \in Loaders, NEW y, Proper(l, y),
         NEW x \in initiated[l], x.n = y.n
  PROVE  x = y
<1>1. Proper(l, x) /\ Trees /\ TypeOK /\ Boot \in Loaders
  BY DEF IInv, Trees, LoadingAssumption
<1>2. /\ x \in Types /\ y \in Types /\ x.l \in Loaders /\ y.l \in Loaders
      /\ x \in defined[x.l] /\ y \in defined[y.l]
  BY <1>1 DEF Proper, Types
<1>3. ASSUME x.l = y.l
      PROVE  x = y
  BY <1>1, <1>2, <1>3 DEF Trees
<1>4. CASE x.n \in Classes
  BY <1>1, <1>3, <1>4 DEF Proper
<1>5. CASE x.n \in Arrays
  <2>1. PICK d \in initiated[l] : d.n = Elem[x.n] /\ d.l = x.l
    BY <1>1, <1>5 DEF Proper
  <2>2. PICK e \in initiated[l] : e.n = Elem[y.n] /\ e.l = y.l
    BY <1>5 DEF Proper
  <2>3. d = e
    BY <1>1, <2>1, <2>2 DEF Trees
  <2> QED
    BY <1>3, <2>1, <2>2, <2>3
<1> QED
  BY <1>2, <1>4, <1>5 DEF Types, Classes

LEMMA GrowKeeps ==
  ASSUME IInv, Grow, Quiet, TypeOK', Trees', UNCHANGED <<deriving, loading, waiters>>,
         Frames(stack)', Linked(stack)', Answers(stack, ret)', Absent'
  PROVE  IInv'
<1>1. Derivers(stack)' /\ Waiting(stack)' /\ Asked(stack)'
  BY QuietDerivers, QuietWaiting, QuietAsked DEF TypeOK, Grow
<1> QED
  BY <1>1 DEF IInv, Grow

\* A class that may yet be interpreted is not there.
LEMMA OpensAre ==
  ASSUME IInv, NEW t \in Threads, NEW i \in DOMAIN stack[t], Open(t, i)
  PROVE  /\ stack[t][i].l \in Loaders /\ stack[t][i].n \in Classes
         /\ stack[t][i].l = Boot \/ stack[t][i].n \in ClassFiles[stack[t][i].l]
         /\ Named(initiated[stack[t][i].l], stack[t][i].n) = {}
         /\ Busy(stack[t][i]) /\ Interprets(stack[t][i].l)
<1>1. PICK h \in FrameType : h = stack[t][i] /\ Fits(h)
  BY FramesTyped DEF IInv, Frames
<1>2. h.fn = "derive" /\ h.pc \in {"supers", "super", "interp", "object"} /\ Interprets(h.l)
  BY <1>1 DEF Open, Opens
<1>3. h.l \in Loaders /\ h.n \in Classes /\ (h.l = Boot \/ h.n \in ClassFiles[h.l])
  BY <1>1, <1>2 DEF FrameType, Fits
<1>4. Named(initiated[h.l], h.n) = {}
  BY <1>1 DEF IInv, Absent
<1> QED
  BY <1>1, <1>2, <1>3, <1>4 DEF Busy

LEMMA UserRecordKeeps ==
  ASSUME LoadingAssumption, IInv, NEW t \in Threads, UserRecord(t)
  PROVE  IInv'
<1>1. PICK h \in FrameType : /\ h = Top(t) /\ Fits(h) /\ stack[t] # <<>>
                             /\ h.fn = "user" /\ h.pc = "record" /\ Answer(h, ret[t])
  BY TopIs DEF UserRecord, At
<1>2. PICK y \in Types \cup NoType : y = ret[t]
  BY <1>1, TopIs
<1>3. /\ h.l \in Loaders /\ h.l # Boot
      /\ y = None \/ (Proper(h.l, y) /\ y.n = h.n)
  BY <1>1, <1>2 DEF FrameType, Fits, Answer
<1>4. /\ initiated' = [initiated EXCEPT ![h.l] =
           IF y = None \/ Named(@, h.n) # {} THEN @ ELSE @ \cup {y}]
      /\ Return(t, y)
      /\ UNCHANGED <<mode, deriving, defined, loading, waiters>>
  BY <1>1, <1>2 DEF UserRecord
<1>5. CASE y = None \/ Named(initiated[h.l], h.n) # {}
  <2>1. initiated' = initiated
    BY <1>3, <1>4, <1>5 DEF IInv, TypeOK
  <2>2. Still
    BY <1>4, <2>1 DEF Still, trees
  <2>3. y # None => y \in initiated[h.l]
    <3>1. SUFFICES ASSUME y # None
                   PROVE  y \in initiated[h.l]
      OBVIOUS
    <3>2. PICK x \in initiated[h.l] : x.n = h.n
      BY <1>5, <3>1 DEF Named
    <3>3. x = y
      BY <1>3, <3>1, <3>2, ProperIsKnown
    <3> QED
      BY <3>2, <3>3
  <2>4. Gives(h, y)
    BY <1>1, <1>3, <2>3 DEF Gives
  <2> QED
    BY <1>1, <1>4, <2>2, <2>4, ByReturn
<1>6. CASE y # None /\ Named(initiated[h.l], h.n) = {}
  <2>1. /\ initiated' = [initiated EXCEPT ![h.l] = @ \cup {y}]
        /\ \A l \in Loaders : initiated'[l] = IF l = h.l THEN initiated[l] \cup {y} ELSE initiated[l]
    BY <1>3, <1>4, <1>6 DEF IInv, TypeOK
  <2>2. Proper(h.l, y) /\ y.n = h.n /\ y \in Types
    BY <1>3, <1>6 DEF Proper
  <2>3. Grow
    BY <1>4, <2>1 DEF Grow
  <2>4. TypeOK'
    <3>1. initiated' \in [Loaders -> SUBSET Types]
      BY <1>3, <2>1, <2>2 DEF IInv, TypeOK
    <3>2. ret' \in [Threads -> Types \cup NoType] /\ stack' \in [Threads -> Seq(FrameType)]
      BY <1>1, <1>4, OnReturned DEF Return, IInv, TypeOK
    <3> QED
      BY <1>4, <3>1, <3>2 DEF IInv, TypeOK
  <2>5. Proper(h.l, y)'
    BY <1>3, <2>2, <2>3, ProperGrows DEF IInv
  <2>6. Trees'
    <3>1. \A l \in Loaders : \A x \in initiated'[l] \ initiated[l] : l = h.l /\ x = y
      BY <2>1
    <3>2. \A l \in Loaders : defined'[l] \ defined[l] = {}
      BY <1>4
    <3>3. \A l \in Loaders : \A x \in initiated'[l] \ initiated[l] :
           /\ Named(initiated[l], x.n) = {}
           /\ \A z \in initiated'[l] \ initiated[l] : x.n = z.n => x = z
           /\ Proper(l, x)'
      <4> SUFFICES ASSUME NEW l \in Loaders, NEW x \in initiated'[l] \ initiated[l]
                   PROVE  /\ Named(initiated[l], x.n) = {}
                          /\ \A z \in initiated'[l] \ initiated[l] : x.n = z.n => x = z
                          /\ Proper(l, x)'
        OBVIOUS
      <4>1. l = h.l /\ x = y
        BY <3>1
      <4>2. Proper(l, x)'
        BY <2>5, <4>1 DEF Proper
      <4> QED
        BY <1>6, <2>2, <3>1, <4>1, <4>2
    <3> QED
      BY <2>3, <2>4, <3>2, <3>3, TreesGrow
  <2>7. Gives(h, y)'
    <3>1. y \in initiated'[h.l]
      <4>1. initiated'[h.l] = initiated[h.l] \cup {y}
        BY <1>3, <2>1
      <4> QED
        BY <4>1
    <3> QED
      BY <1>1, <2>2, <2>5, <3>1 DEF Gives
  <2>8. Frames(stack)' /\ Linked(stack)' /\ Answers(stack, ret)' /\ Quiet /\ Calm
    BY <1>1, <1>4, <2>3, <2>4, <2>6, <2>7, ReturnKeeps
  <2>9. Absent'
    <3>1. ASSUME NEW u \in Threads, NEW i \in DOMAIN stack[u], Open(u, i)
          PROVE  Named(initiated'[stack[u][i].l], stack[u][i].n) = {}
      <4>1. PICK l \in Loaders, n \in Classes :
              /\ l = stack[u][i].l /\ n = stack[u][i].n /\ (l = Boot \/ n \in ClassFiles[l])
              /\ Named(initiated[l], n) = {}
        BY <3>1, OpensAre
      <4>2. CASE l # h.l \/ n # h.n
        BY <2>1, <2>2, <4>1, <4>2 DEF Named
      <4>3. CASE l = h.l /\ n = h.n
        <5>1. y.l = h.l /\ y \in defined[h.l]
          BY <1>3, <2>2, <4>1, <4>3 DEF Proper
        <5>2. y \in initiated[h.l]
          BY <1>3, <5>1 DEF IInv, Trees
        <5> QED
          BY <1>6, <2>2, <5>2 DEF Named
      <4> QED
        BY <4>2, <4>3
    <3> QED
      BY <2>8, <3>1, CalmAbsent
  <2> QED
    BY <1>4, <2>3, <2>4, <2>6, <2>8, <2>9, GrowKeeps
<1> QED
  BY <1>5, <1>6

\* A type that a loader may define, of a name that it has no type of.
Fresh(l, y) ==
  /\ y.l = l /\ Named(initiated[l], y.n) = {}
  /\ y.how = "array" <=> y.n \in Arrays
  /\ y.n \in Classes => l = Boot \/ y.n \in ClassFiles[l]
  /\ y.n \in Arrays => \E e \in initiated[l] : e.n = Elem[y.n] /\ e.l = l
  /\ y.how = "interp" =>
       \A i \in DOMAIN Supers[y.n] :
         Supers[y.n][i] # y.n /\ Named(initiated[l], Supers[y.n][i]) # {}

\* The trees grow by S, types of l, and what that makes of them.
Adds(l, S) ==
  \A m \in Loaders :
    /\ initiated'[m] = IF m = l THEN initiated[m] \cup S ELSE initiated[m]
    /\ defined'[m] = IF m = l THEN defined[m] \cup S ELSE defined[m]

Added(l, S) ==
  /\ Grow /\ Trees' /\ S \subseteq initiated'[l] /\ S \subseteq defined'[l]
  /\ \A y \in S : Proper(l, y)'
  /\ \A m \in Loaders : \A n : Named(initiated'[m], n) # Named(initiated[m], n) =>
       m = l /\ \E y \in S : y.n = n

LEMMA AddsTypes ==
  ASSUME LoadingAssumption, IInv, NEW l \in Loaders, NEW S \in SUBSET Types, TypeOK', mode' = mode,
         Adds(l, S), \A x, y \in S : x.n = y.n => x = y, \A y \in S : Fresh(l, y)
  PROVE  Added(l, S)
<1>1. /\ \A m \in Loaders : initiated'[m] = IF m = l THEN initiated[m] \cup S ELSE initiated[m]
      /\ \A m \in Loaders : defined'[m] = IF m = l THEN defined[m] \cup S ELSE defined[m]
  BY DEF Adds
<1>2. Grow
  BY <1>1 DEF Grow
<1>3. S \subseteq initiated'[l] /\ S \subseteq defined'[l] /\ initiated[l] \subseteq initiated'[l]
  <2>1. initiated'[l] = initiated[l] \cup S /\ defined'[l] = defined[l] \cup S
    BY <1>1
  <2> QED
    BY <2>1
<1>4. ASSUME NEW y \in S
      PROVE  Proper(l, y)'
  <2>1. y \in Types /\ y.l = l /\ y \in defined'[y.l]
    BY <1>3 DEF Fresh
  <2>2. y.n \in Classes => (y.l = l <=> (l = Boot \/ y.n \in ClassFiles[l]))
    BY <2>1 DEF Fresh
  <2>3. y.n \in Arrays => \E e \in initiated'[l] : e.n = Elem[y.n] /\ e.l = y.l
    BY <1>3, <2>1 DEF Fresh
  <2> QED
    BY <2>1, <2>2, <2>3 DEF Proper
<1>5. \A m \in Loaders : \A n : Named(initiated[m], n) \subseteq Named(initiated'[m], n)
  BY <1>1 DEF Named
<1>6. Trees'
  <2>1. ASSUME NEW m \in Loaders, NEW x \in initiated'[m] \ initiated[m]
        PROVE  m = l /\ x \in S
    BY <1>1, <2>1
  <2>2. ASSUME NEW m \in Loaders, NEW x \in initiated'[m] \ initiated[m]
        PROVE  /\ Named(initiated[m], x.n) = {}
               /\ \A y \in initiated'[m] \ initiated[m] : x.n = y.n => x = y
               /\ Proper(m, x)'
    <3>1. m = l /\ x \in S
      BY <2>1
    <3>2. Proper(m, x)'
      BY <1>4, <3>1 DEF Proper
    <3> QED
      <4>1. \A y \in initiated'[m] \ initiated[m] : y \in S
        BY <2>1
      <4>2. \A y \in initiated'[m] \ initiated[m] : x.n = y.n => x = y
        BY <3>1, <4>1
      <4>3. Named(initiated[m], x.n) = {}
        BY <3>1 DEF Fresh
      <4> QED
        BY <3>2, <4>2, <4>3
  <2>3. ASSUME NEW m \in Loaders, NEW y \in defined'[m] \ defined[m]
        PROVE  /\ y \in initiated'[m] /\ y.l = m /\ (y.how = "array" <=> y.n \in Arrays)
               /\ y.how = "interp" =>
                    \A i \in DOMAIN Supers[y.n] :
                      Supers[y.n][i] # y.n /\ Named(initiated'[m], Supers[y.n][i]) # {}
    <3>1. m = l /\ y \in S
      BY <1>1
    <3>2. \A i \in DOMAIN Supers[y.n] :
            Named(initiated[l], Supers[y.n][i]) # {} => Named(initiated'[l], Supers[y.n][i]) # {}
      BY <1>5
    <3> QED
      BY <1>3, <3>1, <3>2 DEF Fresh
  <2> QED
    BY <1>2, <2>2, <2>3, TreesGrow
<1>7. ASSUME NEW m \in Loaders, NEW n, Named(initiated'[m], n) # Named(initiated[m], n)
      PROVE  m = l /\ \E y \in S : y.n = n
  BY <1>1, <1>7 DEF Named
<1> QED
  BY <1>2, <1>3, <1>4, <1>6, <1>7 DEF Added

LEMMA ArrayMakeKeeps ==
  ASSUME LoadingAssumption, IInv, NEW t \in Threads, ArrayMake(t)
  PROVE  IInv'
<1>1. PICK h \in FrameType : /\ h = Top(t) /\ Fits(h) /\ stack[t] # <<>>
                             /\ h.fn = "array" /\ h.pc = "make"
  BY TopIs DEF ArrayMake, At
<1>2. h.l \in Loaders /\ h.n \in Names /\ h.n \in Arrays /\ h.n \notin Classes
  BY <1>1 DEF FrameType, Fits, Classes
<1>3. PICK e \in initiated[h.l] : e.n = Elem[h.n] /\ e.l = h.l
  BY <1>1 DEF Fits
<1> DEFINE new == [l |-> h.l, n |-> h.n, how |-> "array", by |-> t]
<1>4. /\ UNCHANGED <<mode, deriving, loading, waiters>>
      /\ \/ /\ \E y \in Named(defined[h.l], h.n) : Return(t, y)
            /\ UNCHANGED <<initiated, defined>>
         \/ /\ Named(defined[h.l], h.n) = {}
            /\ Return(t, new)
            /\ initiated' = [initiated EXCEPT ![h.l] = @ \cup {new}]
            /\ defined' = [defined EXCEPT ![h.l] = @ \cup {new}]
         \/ Return(t, None) /\ UNCHANGED <<initiated, defined>>
  BY <1>1 DEF ArrayMake
<1>5. new \in Types /\ new.l = h.l /\ new.n = h.n /\ new.how = "array"
  BY <1>2 DEF Types
<1> HIDE DEF new
<1>6. ASSUME NEW y \in Named(defined[h.l], h.n), Return(t, y), UNCHANGED <<initiated, defined>>
      PROVE  IInv'
  <2>1. y \in initiated[h.l] /\ y.n = h.n
    BY <1>2 DEF Named, IInv, Trees
  <2>2. Proper(h.l, y) /\ y \in Types
    BY <1>2, <2>1 DEF IInv, Trees, TypeOK
  <2>3. Gives(h, y) /\ Still
    BY <1>1, <1>4, <1>6, <2>1, <2>2 DEF Gives, Still, trees
  <2> QED
    BY <1>1, <1>6, <2>2, <2>3, ByReturn
<1>7. ASSUME Return(t, None), UNCHANGED <<initiated, defined>>
      PROVE  IInv'
  <2>1. Gives(h, None) /\ Still
    BY <1>1, <1>4, <1>7 DEF Gives, Still, trees
  <2> QED
    BY <1>1, <1>7, <2>1, ByReturn DEF NoType
<1>8. ASSUME Named(defined[h.l], h.n) = {}, Return(t, new),
             initiated' = [initiated EXCEPT ![h.l] = @ \cup {new}],
             defined' = [defined EXCEPT ![h.l] = @ \cup {new}]
      PROVE  IInv'
  <2>1. Named(initiated[h.l], h.n) = {}
    <3>1. SUFFICES ASSUME NEW x \in initiated[h.l], x.n = h.n
                   PROVE  FALSE
      BY DEF Named
    <3>2. PICK d \in initiated[h.l] : d.n = Elem[x.n] /\ d.l = x.l
      BY <1>2, <3>1 DEF IInv, Trees, Proper
    <3>3. d = e
      BY <1>2, <1>3, <3>1, <3>2 DEF IInv, Trees
    <3>4. x \in defined[h.l]
      BY <1>2, <1>3, <3>2, <3>3 DEF IInv, Trees, Proper
    <3> QED
      BY <1>8, <3>1, <3>4 DEF Named
  <2>2. TypeOK'
    <3>1. ret' \in [Threads -> Types \cup NoType] /\ stack' \in [Threads -> Seq(FrameType)]
      BY <1>1, <1>5, <1>8, OnReturned DEF Return, IInv, TypeOK
    <3>2. initiated' \in [Loaders -> SUBSET Types] /\ defined' \in [Loaders -> SUBSET Types]
      BY <1>2, <1>5, <1>8 DEF IInv, TypeOK
    <3> QED
      BY <1>4, <3>1, <3>2 DEF IInv, TypeOK
  <2>3. /\ Grow /\ Trees' /\ Proper(h.l, new)'
        /\ \A m \in Loaders : \A n : Named(initiated'[m], n) # Named(initiated[m], n) => m = h.l /\ n = h.n
    <3>1. PICK S \in SUBSET Types : S = {new}
      BY <1>5
    <3>2. /\ \A x, y \in S : x.n = y.n => x = y
          /\ \A y \in S : y = new
      BY <3>1
    <3>3. ASSUME NEW y \in S
          PROVE  Fresh(h.l, y)
      BY <1>2, <1>3, <1>5, <2>1, <3>2 DEF Fresh
    <3>4. mode' = mode
      BY <1>4
    <3>5. Adds(h.l, S)
      BY <1>8, <3>1 DEF IInv, TypeOK, Adds
    <3>6. new \in S
      BY <3>1
    <3>7. Added(h.l, S)
      BY <1>2, <2>2, <3>2, <3>3, <3>4, <3>5, AddsTypes
    <3> QED
      BY <1>5, <3>2, <3>6, <3>7 DEF Added
  <2>4. Gives(h, new)'
    BY <1>1, <1>5, <2>3 DEF Gives
  <2>5. Frames(stack)' /\ Linked(stack)' /\ Answers(stack, ret)' /\ Quiet /\ Calm
    BY <1>1, <1>8, <2>2, <2>3, <2>4, ReturnKeeps
  <2>6. Absent'
    <3>1. ASSUME NEW u \in Threads, NEW i \in DOMAIN stack[u], Open(u, i)
          PROVE  Named(initiated'[stack[u][i].l], stack[u][i].n) = {}
      <4>1. /\ stack[u][i].l \in Loaders /\ stack[u][i].n \in Classes
            /\ Named(initiated[stack[u][i].l], stack[u][i].n) = {}
        BY <3>1, OpensAre
      <4> QED
        BY <1>2, <2>3, <4>1
    <3> QED
      BY <2>5, <3>1, CalmAbsent
  <2> QED
    BY <1>4, <2>2, <2>3, <2>5, <2>6, GrowKeeps
<1> QED
  BY <1>4, <1>6, <1>7, <1>8

LEMMA DeriveInterpKeeps ==
  ASSUME LoadingAssumption, IInv, NEW t \in Threads, DeriveInterp(t)
  PROVE  IInv'
<1>1. PICK h \in FrameType : /\ h = Top(t) /\ Fits(h) /\ stack[t] # <<>>
                             /\ h.fn = "derive" /\ h.pc = "interp"
  BY TopIs DEF DeriveInterp, At
<1>2. /\ h.l \in Loaders /\ h.n \in Names /\ h.n \in Classes /\ h.n \notin Arrays
      /\ h.l = Boot \/ h.n \in ClassFiles[h.l]
      /\ Interprets(h.l) /\ h.i \in Nat /\ h.i > 0 /\ h.i \notin DOMAIN Supers[h.n]
      /\ \A j \in DOMAIN Supers[h.n] : j < h.i => Named(initiated[h.l], Supers[h.n][j]) # {}
  BY <1>1 DEF FrameType, Fits, Classes
<1> DEFINE new == [l |-> h.l, n |-> h.n, how |-> "interp", by |-> t]
           f == [h EXCEPT !.pc = "leave", !.got = new]
           k == Len(stack[t])
<1>3. /\ UNCHANGED <<mode, deriving, loading, waiters>>
      /\ \/ /\ initiated' = [initiated EXCEPT ![h.l] = @ \cup {new}]
            /\ defined' = [defined EXCEPT ![h.l] = @ \cup {new}]
            /\ Continue(t, f)
         \/ Continue(t, [h EXCEPT !.pc = "leave"]) /\ UNCHANGED <<initiated, defined>>
  BY <1>1 DEF DeriveInterp
<1>4. new \in Types /\ new.l = h.l /\ new.n = h.n /\ new.how = "interp"
  BY <1>2 DEF Types
<1> HIDE DEF new
<1>5. ASSUME Continue(t, [h EXCEPT !.pc = "leave"]), UNCHANGED <<initiated, defined>>
      PROVE  IInv'
  <2> DEFINE g == [h EXCEPT !.pc = "leave"]
  <2>1. /\ g \in FrameType /\ Like(g, Top(t)) /\ g.fn = "derive" /\ g.pc = "leave"
        /\ g.n = h.n /\ g.l = h.l /\ g.got = h.got
    BY <1>1 DEF FrameType, Like, Kin, Busy, Seeking
  <2> HIDE DEF g
  <2>2. Fits(g) /\ Answer(g, ret[t])
    BY <1>1, <2>1 DEF Fits, Answer
  <2>3. Still
    BY <1>3, <1>5 DEF Still, trees
  <2> QED
    BY <1>1, <1>5, <2>1, <2>2, <2>3, ByContinue DEF g
<1>6. /\ f \in FrameType /\ f.fn = "derive" /\ f.pc = "leave" /\ f.got = new
      /\ f.l = h.l /\ f.n = h.n /\ Like(f, Top(t)) /\ ~Seeking(f)
  BY <1>1, <1>4 DEF FrameType, Like, Kin, Busy, Seeking
<1> HIDE DEF f, k
<1>7. ASSUME initiated' = [initiated EXCEPT ![h.l] = @ \cup {new}],
             defined' = [defined EXCEPT ![h.l] = @ \cup {new}],
             Continue(t, f)
      PROVE  IInv'
  <2>1. k \in DOMAIN stack[t] /\ h = stack[t][k]
    BY <1>1, <1>6, <1>7, OnTop DEF Continue, k
  <2>2. Named(initiated[h.l], h.n) = {}
    <3>1. Open(t, k)
      BY <1>1, <1>2, <2>1 DEF Open, Opens
    <3> QED
      BY <2>1, <3>1, OpensAre
  <2>3. ASSUME NEW j \in DOMAIN Supers[h.n]
        PROVE  Supers[h.n][j] # h.n /\ Named(initiated[h.l], Supers[h.n][j]) # {}
    <3>1. DOMAIN Supers[h.n] = 1 .. Len(Supers[h.n]) /\ Len(Supers[h.n]) \in Nat
      BY <1>2, LenProperties DEF LoadingAssumption
    <3>2. j < h.i
      <4>1. PICK c \in Nat, i \in Nat : c = Len(Supers[h.n]) /\ i = h.i
        BY <1>2, <3>1
      <4>2. j \in 1 .. c /\ i \notin 1 .. c /\ i > 0
        BY <1>2, <3>1, <4>1
      <4>3. j < i
        BY <4>2
      <4> QED
        BY <4>1, <4>3
    <3>3. Named(initiated[h.l], Supers[h.n][j]) # {}
      BY <1>2, <3>2
    <3> QED
      BY <2>2, <3>3
  <2>4. /\ stack' = Goto(t, f) /\ ret' = ret
        /\ \A u \in Threads : DOMAIN stack'[u] = DOMAIN stack[u]
        /\ \A u \in Threads : \A i \in DOMAIN stack[u] :
             stack'[u][i] = IF u = t /\ i = k THEN f ELSE stack[u][i]
    BY <1>1, <1>6, <1>7, OnTop DEF Continue, k
  <2>5. TypeOK'
    <3>1. stack' \in [Threads -> Seq(FrameType)]
      BY <1>1, <1>6, <2>4, OnGoto DEF IInv, TypeOK
    <3>2. initiated' \in [Loaders -> SUBSET Types] /\ defined' \in [Loaders -> SUBSET Types]
      BY <1>2, <1>4, <1>7 DEF IInv, TypeOK
    <3> QED
      BY <1>3, <2>4, <3>1, <3>2 DEF IInv, TypeOK
  <2>6. /\ Grow /\ Trees' /\ new \in defined'[h.l]
        /\ \A m \in Loaders : \A n : Named(initiated'[m], n) # Named(initiated[m], n) => m = h.l /\ n = h.n
    <3>1. PICK S \in SUBSET Types : S = {new}
      BY <1>4
    <3>2. /\ \A x, y \in S : x.n = y.n => x = y
          /\ \A y \in S : y = new
          /\ new \in S
      BY <3>1
    <3>3. ASSUME NEW y \in S
          PROVE  Fresh(h.l, y)
      BY <1>2, <1>4, <2>2, <2>3, <3>2 DEF Fresh
    <3>4. mode' = mode /\ h.l \in Loaders
      BY <1>2, <1>3
    <3>5. Adds(h.l, S)
      BY <1>7, <3>1 DEF IInv, TypeOK, Adds
    <3>6. Added(h.l, S)
      BY <2>5, <3>2, <3>3, <3>4, <3>5, AddsTypes
    <3> QED
      BY <1>4, <3>2, <3>6 DEF Added
  <2>7. Fits(f)'
    <3>1. mode = "objects" => h.l # Boot
      BY <1>1 DEF Fits
    <3> QED
      BY <1>2, <1>3, <1>4, <1>6, <2>6, <3>1 DEF Fits
  <2>8. PICK y : y = ret[t]
    OBVIOUS
  <2>9. ret' = [ret EXCEPT ![t] = y] /\ Answer(f, y)'
    BY <1>6, <2>4, <2>8 DEF Answer, IInv, TypeOK
  <2>10. Frames(stack)' /\ Linked(stack)' /\ Answers(stack, ret)' /\ Quiet /\ Calm
    <3>1. f.fn = Top(t).fn /\ f.l = Top(t).l /\ f.n = Top(t).n /\ Kin(f, Top(t))
      BY <1>6 DEF Like, Kin
    <3>2. ~Opens(f, y)
      BY <1>6 DEF Opens
    <3> QED
      BY <1>1, <1>6, <2>4, <2>6, <2>7, <2>9, <3>1, <3>2, GoesOnKeeps
  <2>11. Absent'
    <3>1. ASSUME NEW u \in Threads, NEW i \in DOMAIN stack'[u], Open(u, i)'
          PROVE  Named(initiated'[stack'[u][i].l], stack'[u][i].n) = {}
      <4>0. Opens(stack'[u][i], IF i = Len(stack'[u]) THEN ret'[u] ELSE None)
        BY <1>3, <3>1, OpenThen
      <4>1. /\ ~(u = t /\ i = k) /\ i \in DOMAIN stack[u] /\ stack'[u][i] = stack[u][i]
            /\ Open(u, i)
        BY <1>6, <2>1, <2>4, <2>10, <3>1, <4>0 DEF Opens, Calm
      <4>2. stack[u][i].l \in Loaders /\ Named(initiated[stack[u][i].l], stack[u][i].n) = {}
        BY <4>1, OpensAre
      <4>3. CASE stack[u][i].l = h.l /\ stack[u][i].n = h.n
        <5>1. Busy(stack[u][i]) /\ Busy(stack[t][k])
          BY <1>1, <2>1, <4>1, OpensAre DEF Busy
        <5>2. <<h.n, u>> \in deriving[h.l] /\ <<h.n, t>> \in deriving[h.l]
          BY <2>1, <4>1, <4>3, <5>1, DeriverIs
        <5>3. <<h.n, u>> = <<h.n, t>>
          BY <1>2, <5>2, DerivingOnce
        <5>4. u = t
          BY <5>3
        <5>5. i = k
          BY <2>1, <4>1, <4>3, <5>1, <5>4, DeriverOnce
        <5> QED
          BY <4>1, <5>4, <5>5
      <4>4. CASE ~(stack[u][i].l = h.l /\ stack[u][i].n = h.n)
        BY <2>6, <4>1, <4>2, <4>4
      <4> QED
        BY <4>3, <4>4
    <3> QED
      BY <3>1, AbsentFrom
  <2> QED
    BY <1>3, <2>5, <2>6, <2>10, <2>11, GrowKeeps
<1> QED
  BY <1>3, <1>5, <1>7

\* An object of a loader that interprets holds one type.
LEMMA ObjectIsAlone ==
  ASSUME LoadingAssumption, ObjectsAlone, NEW h \in FrameType, h.n \in Classes,
         h.l = Boot \/ h.n \in ClassFiles[h.l], NEW m \in Modes, Mixes(m, h.l)
  PROVE  /\ \A j \in DOMAIN TypesIn(h) : TypesIn(h)[j] = h.n
         /\ Len(TypesIn(h)) <= 1
<1>1. CASE h.own
  <2>1. TypesIn(h) = <<h.n>>
    BY <1>1 DEF TypesIn
  <2> QED
    BY <2>1
<1>2. CASE ~h.own
  <2>1. TypesIn(h) = ObjectFiles[h.n] /\ ObjectFiles[h.n] \in Seq(Classes)
    BY <1>2 DEF TypesIn, LoadingAssumption
  <2>2. \A j \in DOMAIN ObjectFiles[h.n] : ObjectFiles[h.n][j] = h.n
    BY DEF ObjectsAlone, FrameType
  <2>3. DOMAIN ObjectFiles[h.n] = 1 .. Len(ObjectFiles[h.n]) /\ Len(ObjectFiles[h.n]) \in Nat
    BY <2>1, LenProperties
  <2>4. ASSUME Len(ObjectFiles[h.n]) > 1
        PROVE  FALSE
    <3>1. 1 \in DOMAIN ObjectFiles[h.n] /\ 2 \in DOMAIN ObjectFiles[h.n]
      BY <2>3, <2>4
    <3>2. ObjectFiles[h.n][1] = ObjectFiles[h.n][2]
      BY <2>2, <3>1
    <3>3. 1 = 2
      BY <3>1, <3>2 DEF LoadingAssumption
    <3> QED
      BY <3>3
  <2> QED
    BY <2>1, <2>2, <2>3, <2>4
<1> QED
  BY <1>1, <1>2

\* A call of an ELF object's derivation, and a frame deriving what the call is for.
DerivesFor(t, u, i) ==
  /\ stack[t] # <<>> /\ Top(t) \in FrameType /\ Top(t).fn = "object"
  /\ Top(t).l \in Loaders /\ Mixes(mode, Top(t).l)
  /\ i \in DOMAIN stack[u] /\ Busy(stack[u][i])
  /\ stack[u][i].l = Top(t).l /\ stack[u][i].n = Top(t).n

\* Who looks for an object for a loader that interprets is called by the one
\* activation that derives the class.
LEMMA CallerIs ==
  ASSUME IInv, NEW t \in Threads, NEW u \in Threads, NEW i, DerivesFor(t, u, i)
  PROVE  u = t /\ i = Len(stack[t]) - 1 /\ stack[t][i].pc = "object"
<1> USE DEF DerivesFor
<1> DEFINE h == Top(t)
<1> DEFINE k == Len(stack[t])
<1>1. DOMAIN stack[t] = 1 .. k /\ k \in Nat /\ k \in DOMAIN stack[t] /\ h = stack[t][k]
  BY EmptySeq, LenProperties DEF IInv, TypeOK, Top
<1> HIDE DEF k
<1>2. k > 1 /\ stack[t][k - 1].fn = "derive"
  BY <1>1 DEF IInv, Asked, Mixes
<1>3. k - 1 \in DOMAIN stack[t] /\ k - 1 + 1 = k
  BY <1>1, <1>2
<1>4. Called(stack[t][k - 1], h)
  <2>1. Called(stack[t][k - 1], stack[t][k - 1 + 1])
    BY <1>1, <1>3 DEF IInv, Linked
  <2> QED
    BY <1>1, <1>3, <2>1
<1>5. stack[t][k - 1].pc = "object" /\ stack[t][k - 1].l = h.l /\ stack[t][k - 1].n = h.n
  BY <1>2, <1>4 DEF Called
<1>6. Busy(stack[t][k - 1])
  BY <1>2, <1>5 DEF Busy
<1>7. <<h.n, u>> \in deriving[h.l] /\ <<h.n, t>> \in deriving[h.l]
  BY <1>3, <1>5, <1>6, DeriverIs
<1>8. <<h.n, u>> = <<h.n, t>>
  BY <1>7, DerivingOnce
<1>9. u = t
  BY <1>8
<1>10. i = k - 1
  BY <1>3, <1>5, <1>6, <1>9, DeriverOnce
<1> QED
  BY <1>5, <1>9, <1>10 DEF k

LEMMA ObjectDeriveKeeps ==
  ASSUME LoadingAssumption, IInv, NEW t \in Threads, ObjectDerive(t)
  PROVE  IInv'
<1>1. PICK h \in FrameType : /\ h = Top(t) /\ Fits(h) /\ stack[t] # <<>>
                             /\ h.fn = "object" /\ h.pc = "derive"
  BY TopIs DEF ObjectDerive, At
<1>2. /\ h.l \in Loaders /\ h.n \in Classes /\ mode # "interpret"
      /\ h.l = Boot \/ h.n \in ClassFiles[h.l]
  BY <1>1 DEF FrameType, Fits
<1>3. PICK ns \in Seq(Classes) : ns = TypesIn(h)
  <2>1. TypesIn(h) \in Seq(Classes)
    <3>1. CASE h.own
      BY <1>2, <3>1 DEF TypesIn
    <3>2. CASE ~h.own
      BY <1>2, <3>2 DEF TypesIn, LoadingAssumption
    <3> QED
      BY <3>1, <3>2
  <2> QED
    BY <2>1
<1> DEFINE Elf(k) == {[l |-> Top(t).l, n |-> TypesIn(Top(t))[i], how |-> "elf", by |-> t] : i \in 1 .. k}
<1>4. ns \in Seq(Classes) /\ DOMAIN ns = 1 .. Len(ns) /\ Len(ns) \in Nat
  BY LenProperties
<1>5. ASSUME NEW i \in DOMAIN ns
      PROVE  ns[i] \in Classes /\ (h.l = Boot \/ ns[i] \in ClassFiles[h.l])
  <2>1. ns[i] \in Classes
    BY <1>4, ElementOfSeq
  <2>2. CASE h.own
    <3>1. ns = <<h.n>> /\ DOMAIN <<h.n>> = {1}
      BY <1>3, <2>2 DEF TypesIn
    <3> QED
      BY <1>2, <2>1, <3>1
  <2>3. CASE ~h.own
    <3>1. ns = ObjectFiles[h.n]
      BY <1>3, <2>3 DEF TypesIn
    <3> QED
      BY <1>2, <2>1, <3>1 DEF IInv, ObjectsApart
  <2> QED
    BY <2>2, <2>3
<1>6. /\ UNCHANGED <<mode, deriving, loading, waiters>>
      /\ \/ Return(t, None) /\ UNCHANGED <<initiated, defined>>
         \/ /\ \A i \in DOMAIN ns : Named(defined[h.l], ns[i]) = {}
            /\ \E k \in 0 .. Len(ns), y \in {Ok, OutOfMemory, None} :
                 /\ initiated' = [initiated EXCEPT ![h.l] = @ \cup Elf(k)]
                 /\ defined' = [defined EXCEPT ![h.l] = @ \cup Elf(k)]
                 /\ Return(t, y) /\ (y = Ok \/ k = 0 \/ Len(ns) > 1)
  <2> DEFINE put(k) == /\ initiated' = [initiated EXCEPT ![Top(t).l] = @ \cup Elf(k)]
                       /\ defined' = [defined EXCEPT ![Top(t).l] = @ \cup Elf(k)]
  <2>1. /\ UNCHANGED <<mode, deriving, loading, waiters>>
        /\ \/ Return(t, None) /\ UNCHANGED <<initiated, defined>>
           \/ /\ \A i \in DOMAIN TypesIn(Top(t)) : Named(defined[Top(t).l], TypesIn(Top(t))[i]) = {}
              /\ \/ Return(t, Ok) /\ put(Len(TypesIn(Top(t))))
                 \/ \E k \in DOMAIN TypesIn(Top(t)) :
                      /\ Return(t, OutOfMemory) \/ Return(t, None)
                      /\ put(IF k > 1 THEN 1 ELSE 0)
    BY Zenon DEF ObjectDerive
  <2> HIDE DEF Elf, put
  <2>2. /\ Len(ns) \in 0 .. Len(ns)
        /\ \A k \in DOMAIN ns : /\ (IF k > 1 THEN 1 ELSE 0) \in 0 .. Len(ns)
                               /\ ((IF k > 1 THEN 1 ELSE 0) = 0 \/ Len(ns) > 1)
    BY <1>4
  <2>3. \/ Return(t, None) /\ UNCHANGED <<initiated, defined>>
        \/ /\ \A i \in DOMAIN ns : Named(defined[h.l], ns[i]) = {}
           /\ \E k \in 0 .. Len(ns), y \in {Ok, OutOfMemory, None} :
                put(k) /\ Return(t, y) /\ (y = Ok \/ k = 0 \/ Len(ns) > 1)
    BY <1>1, <1>3, <2>1, <2>2
  <2> QED
    BY <1>1, <2>1, <2>3 DEF put
<1> HIDE DEF Elf
<1>7. ASSUME Return(t, None), UNCHANGED <<initiated, defined>>
      PROVE  IInv'
  <2>1. Gives(h, None) /\ Still
    BY <1>1, <1>6, <1>7 DEF Gives, Still, trees, NoType
  <2> QED
    BY <1>1, <1>7, <2>1, ByReturn DEF NoType
<1>8. ASSUME \A i \in DOMAIN ns : Named(defined[h.l], ns[i]) = {},
             NEW k \in 0 .. Len(ns),
             initiated' = [initiated EXCEPT ![h.l] = @ \cup Elf(k)],
             defined' = [defined EXCEPT ![h.l] = @ \cup Elf(k)],
             NEW y \in {Ok, OutOfMemory, None}, Return(t, y), y = Ok \/ k = 0 \/ Len(ns) > 1
      PROVE  IInv'
  <2>1. \A i \in 1 .. k : i \in DOMAIN ns
    BY <1>4
  <2>2. PICK S \in SUBSET Types : S = Elf(k)
    <3>1. Elf(k) = {[l |-> h.l, n |-> ns[i], how |-> "elf", by |-> t] : i \in 1 .. k}
      BY <1>1, <1>3 DEF Elf
    <3>2. ASSUME NEW i \in 1 .. k
          PROVE  [l |-> h.l, n |-> ns[i], how |-> "elf", by |-> t] \in Types
      BY <1>2, <1>5, <2>1 DEF Types, Classes
    <3> QED
      BY <3>1, <3>2
  <2>3. ASSUME NEW x \in S
        PROVE  \E i \in DOMAIN ns : x = [l |-> h.l, n |-> ns[i], how |-> "elf", by |-> t]
    BY <1>1, <1>3, <2>1, <2>2 DEF Elf
  <2>4. \A x, z \in S : x.n = z.n => x = z
    <3> SUFFICES ASSUME NEW x \in S, NEW z \in S, x.n = z.n
                 PROVE  x = z
      OBVIOUS
    <3>1. PICK i \in DOMAIN ns : x = [l |-> h.l, n |-> ns[i], how |-> "elf", by |-> t]
      BY <2>3
    <3>2. PICK j \in DOMAIN ns : z = [l |-> h.l, n |-> ns[j], how |-> "elf", by |-> t]
      BY <2>3
    <3>3. ns[i] = ns[j]
      BY <3>1, <3>2
    <3> QED
      BY <3>1, <3>2, <3>3
  <2>5. ASSUME NEW i \in DOMAIN ns
        PROVE  Named(initiated[h.l], ns[i]) = {}
    <3>1. SUFFICES ASSUME NEW x \in initiated[h.l], x.n = ns[i]
                   PROVE  FALSE
      BY DEF Named
    <3>2. Proper(h.l, x)
      BY <1>2, <3>1 DEF IInv, Trees
    <3>3. x.n \in Classes /\ (h.l = Boot \/ x.n \in ClassFiles[h.l])
      BY <1>5, <3>1
    <3>4. x \in defined[h.l]
      BY <3>2, <3>3 DEF Proper
    <3> QED
      BY <1>8, <3>1, <3>4 DEF Named
  <2>6. ASSUME NEW x \in S
        PROVE  Fresh(h.l, x)
    <3>1. PICK i \in DOMAIN ns : x = [l |-> h.l, n |-> ns[i], how |-> "elf", by |-> t]
      BY <2>3
    <3>2. x.l = h.l /\ x.n = ns[i] /\ x.how = "elf"
      BY <3>1
    <3>3. x.n \in Classes /\ x.n \notin Arrays /\ (h.l = Boot \/ x.n \in ClassFiles[h.l])
      BY <1>5, <3>2 DEF Classes
    <3> QED
      BY <2>5, <3>2, <3>3 DEF Fresh
  <2>7. Adds(h.l, S)
    BY <1>8, <2>2 DEF IInv, TypeOK, Adds
  <2>8. TypeOK'
    <3>1. ret' \in [Threads -> Types \cup NoType] /\ stack' \in [Threads -> Seq(FrameType)]
      BY <1>1, <1>8, OnReturned DEF Return, IInv, TypeOK, NoType
    <3>2. initiated' \in [Loaders -> SUBSET Types] /\ defined' \in [Loaders -> SUBSET Types]
      BY <1>2, <1>8, <2>2 DEF IInv, TypeOK
    <3> QED
      BY <1>6, <3>1, <3>2 DEF IInv, TypeOK
  <2>9. mode' = mode /\ h.l \in Loaders
    BY <1>2, <1>6
  <2>10. /\ Grow /\ Trees'
         /\ \A m \in Loaders : \A n : Named(initiated'[m], n) # Named(initiated[m], n) =>
              m = h.l /\ \E x \in S : x.n = n
    <3>1. Added(h.l, S)
      BY <2>4, <2>6, <2>7, <2>8, <2>9, AddsTypes
    <3> QED
      BY <3>1 DEF Added
  <2>11. Gives(h, y)'
    BY <1>1, <1>8 DEF Gives, NoType
  <2>12. /\ Frames(stack)' /\ Linked(stack)' /\ Answers(stack, ret)' /\ Quiet /\ Calm
         /\ ret' = [ret EXCEPT ![t] = y]
    BY <1>1, <1>8, <2>8, <2>10, <2>11, ReturnKeeps
  <2>13. Absent'
    <3>1. ASSUME NEW u \in Threads, NEW i \in DOMAIN stack'[u], Open(u, i)'
          PROVE  Named(initiated'[stack'[u][i].l], stack'[u][i].n) = {}
      <4>1. /\ i \in DOMAIN stack[u] /\ Open(u, i)
            /\ stack'[u][i].n = stack[u][i].n /\ stack'[u][i].l = stack[u][i].l
        BY <2>12, <3>1 DEF Calm
      <4>2. /\ stack[u][i].l \in Loaders /\ Busy(stack[u][i]) /\ Interprets(stack[u][i].l)
            /\ Named(initiated[stack[u][i].l], stack[u][i].n) = {}
        BY <4>1, OpensAre
      <4>3. ASSUME NEW x \in S, stack[u][i].l = h.l, x.n = stack[u][i].n
            PROVE  FALSE
        <5>1. Mixes(mode, h.l) /\ mode \in Modes
          BY <1>2, <4>2, <4>3 DEF Interprets, IInv, TypeOK
        <5>2. \A j \in DOMAIN ns : ns[j] = h.n
          BY <1>2, <1>3, <5>1, ObjectIsAlone DEF IInv
        <5>3. Len(ns) <= 1
          BY <1>2, <1>3, <5>1, ObjectIsAlone DEF IInv
        <5>4. stack[u][i].n = h.n
          <6>1. PICK j \in DOMAIN ns : x = [l |-> h.l, n |-> ns[j], how |-> "elf", by |-> t]
            BY <2>3
          <6> QED
            BY <4>3, <5>2, <6>1
        <5>5. k # 0
          BY <2>2 DEF Elf
        <5>6. y = Ok
          BY <1>4, <1>8, <5>3, <5>5
        <5>7. /\ u = t /\ i = Len(stack[t]) - 1 /\ stack[t][i].pc = "object"
          <6>1. DerivesFor(t, u, i)
            BY <1>1, <1>2, <4>1, <4>2, <4>3, <5>1, <5>4 DEF DerivesFor
          <6> QED
            BY <6>1, CallerIs
        <5>8. Len(stack'[t]) = Len(stack[t]) - 1 /\ ret'[t] = Ok /\ stack'[t][i] = stack[t][i]
          <6>1. stack \in [Threads -> Seq(FrameType)] /\ ret \in [Threads -> Types \cup NoType]
            BY DEF IInv, TypeOK
          <6>2. i \in 1 .. Len(stack[t]) - 1
            <7>1. DOMAIN stack[t] = 1 .. Len(stack[t]) /\ Len(stack[t]) \in Nat
              BY <6>1, LenProperties
            <7> QED
              BY <4>1, <5>7, <7>1
          <6> QED
            BY <1>1, <1>8, <2>12, <5>6, <6>1, <6>2, OnReturned DEF Return
        <5>9. Opens(stack'[u][i], ret'[u])
          BY <2>9, <3>1, <5>7, <5>8, OpenThen
        <5> QED
          BY <5>7, <5>8, <5>9 DEF Opens, LoadingAssumption
      <4>4. ~(stack[u][i].l = h.l /\ \E x \in S : x.n = stack[u][i].n)
        BY <4>3
      <4>5. Named(initiated'[stack[u][i].l], stack[u][i].n) = Named(initiated[stack[u][i].l], stack[u][i].n)
        BY <2>10, <4>2, <4>4
      <4> QED
        BY <4>1, <4>2, <4>5
    <3> QED
      BY <3>1, AbsentFrom
  <2> QED
    BY <1>6, <2>8, <2>10, <2>12, <2>13, GrowKeeps
<1> QED
  BY <1>6, <1>7, <1>8

-----------------------------------------------------------------------------
(* Unloading *)

\* What is of another loader stays.
LEMMA UnloadKeeps ==
  ASSUME LoadingAssumption, IInv, NEW l \in Loaders, Unload(l)
  PROVE  IInv'
<1>1. /\ UNCHANGED <<mode, deriving, loading, waiters, stack, ret>> /\ l # Boot
      /\ \A t \in Threads :
           /\ ret[t] \notin NoType => ret[t].l # l
           /\ \A i \in DOMAIN stack[t] : stack[t][i].l # l
      /\ \A m \in Loaders \ {l} : \A y \in initiated[m] : y.l # l
  BY DEF Unload
<1>2. /\ \A m \in Loaders \ {l} : initiated'[m] = initiated[m] /\ defined'[m] = defined[m]
      /\ initiated'[l] = {} /\ defined'[l] = {}
      /\ initiated' \in [Loaders -> SUBSET Types] /\ defined' \in [Loaders -> SUBSET Types]
  BY DEF Unload, IInv, TypeOK
<1>3. TypeOK'
  BY <1>1, <1>2 DEF IInv, TypeOK
<1>4. ASSUME NEW m \in Loaders \ {l}, NEW y, Proper(m, y), y.l # l
      PROVE  Proper(m, y)'
  <2>1. y.l \in Loaders /\ y.l # l
    BY <1>4 DEF Proper, Types
  <2> QED
    BY <1>2, <1>4, <2>1 DEF Proper
<1>5. Trees'
  <2>1. ASSUME NEW m \in Loaders \ {l}
        PROVE  /\ \A x, y \in initiated'[m] : x.n = y.n => x = y
               /\ defined'[m] \subseteq initiated'[m]
               /\ \A y \in initiated'[m] : Proper(m, y)'
               /\ \A y \in defined'[m] :
                    /\ y.l = m
                    /\ y.how = "array" <=> y.n \in Arrays
                    /\ y.how = "interp" =>
                         \A i \in DOMAIN Supers[y.n] :
                           Supers[y.n][i] # y.n /\ Named(initiated'[m], Supers[y.n][i]) # {}
    <3>1. \A y \in initiated[m] : Proper(m, y) /\ y.l # l
      BY <1>1 DEF IInv, Trees
    <3>2. \A y \in initiated'[m] : Proper(m, y)'
      <4> SUFFICES ASSUME NEW y \in initiated'[m]
                   PROVE  Proper(m, y)'
        OBVIOUS
      <4>1. Proper(m, y) /\ y.l # l
        BY <1>2, <3>1
      <4> QED
        BY <1>4, <4>1
    <3>3. initiated'[m] = initiated[m] /\ defined'[m] = defined[m]
      BY <1>2
    <3> QED
      BY <3>2, <3>3 DEF IInv, Trees
  <2> QED
    BY <1>2, <2>1 DEF Trees, Named
<1>6. ASSUME NEW t \in Threads, NEW i \in DOMAIN stack[t]
      PROVE  Fits(stack[t][i])'
  <2>1. PICK f \in FrameType : f = stack[t][i] /\ Fits(f) /\ f.l # l /\ f.l \in Loaders
    BY <1>1, FramesTyped DEF IInv, Frames, FrameType
  <2>2. initiated'[f.l] = initiated[f.l] /\ defined'[f.l] = defined[f.l] /\ mode' = mode
    BY <1>1, <1>2, <2>1
  <2>3. Fits(f)'
    BY <2>1, <2>2 DEF Fits, Named, Interprets, Mixes
  <2>4. stack'[t][i] = f
    BY <1>1, <2>1
  <2> QED
    BY <2>3, <2>4, FitsAs
<1>7. ASSUME NEW t \in Threads, stack[t] # <<>>
      PROVE  Answer(stack[t][Len(stack[t])], ret[t])'
  <2>1. Len(stack[t]) \in DOMAIN stack[t]
    BY <1>7, EmptySeq, LenProperties DEF IInv, TypeOK
  <2>2. PICK f \in FrameType : f = stack[t][Len(stack[t])] /\ f.l # l /\ f.l \in Loaders
    BY <1>1, <2>1, FramesTyped DEF FrameType
  <2>3. PICK y : y = ret[t]
    OBVIOUS
  <2>4. Answer(f, y) /\ (y \notin NoType => y.l # l) /\ y \in Types \cup NoType
    BY <1>1, <1>7, <2>2, <2>3 DEF IInv, Answers, TypeOK
  <2>5. \A m \in Loaders \ {l} : Proper(m, y) => Proper(m, y)'
    <3>1. \A m \in Loaders : Proper(m, y) => y.l # l
      BY <2>4, NoTypeAssumption DEF Proper
    <3> QED
      BY <1>4, <3>1
  <2>6. Boot \in Loaders \ {l} /\ f.l \in Loaders \ {l} /\ initiated'[f.l] = initiated[f.l]
    BY <1>1, <1>2, <2>2 DEF LoadingAssumption
  <2>7. Answer(f, y)'
    <3>1. Proper(Boot, y) => Proper(Boot, y)'
      BY <2>5, <2>6
    <3>2. Proper(f.l, y) => Proper(f.l, y)'
      BY <2>5, <2>6
    <3> HIDE DEF Proper
    <3> QED
      BY <2>4, <2>6, <3>1, <3>2 DEF Answer
  <2>8. stack'[t][Len(stack'[t])] = f /\ ret'[t] = y
    BY <1>1, <2>2, <2>3
  <2> QED
    BY <2>7, <2>8, AnswerAs
<1>8. Frames(stack)' /\ Linked(stack)' /\ Answers(stack, ret)'
  <2>1. Frames(stack)'
    BY <1>1, <1>6 DEF Frames
  <2>2. Answers(stack, ret)'
    BY <1>1, <1>7 DEF Answers
  <2>3. Linked(stack)'
    BY <1>1 DEF IInv, Linked
  <2> QED
    BY <2>1, <2>2, <2>3
<1>9. Derivers(stack)' /\ Waiting(stack)' /\ Asked(stack)'
  <2>1. Derivers(stack)'
    BY <1>1, DeriversFrom
  <2>2. Waiting(stack)'
    BY <1>1 DEF IInv, Waiting
  <2>3. Asked(stack)'
    BY <1>1, AskedFrom DEF IInv, TypeOK
  <2> QED
    BY <2>1, <2>2, <2>3
<1>10. Absent'
  <2>1. ASSUME NEW t \in Threads, NEW i \in DOMAIN stack'[t], Open(t, i)'
        PROVE  Named(initiated'[stack'[t][i].l], stack'[t][i].n) = {}
    <3>1. Opens(stack'[t][i], IF i = Len(stack'[t]) THEN ret'[t] ELSE None)
      BY <1>1, <2>1, OpenThen
    <3>2. i \in DOMAIN stack[t] /\ stack'[t][i] = stack[t][i] /\ Open(t, i) /\ stack[t][i].l # l
      BY <1>1, <3>1 DEF Open
    <3>3. stack[t][i].l \in Loaders /\ Named(initiated[stack[t][i].l], stack[t][i].n) = {}
      BY <3>2, OpensAre
    <3> QED
      BY <1>2, <3>2, <3>3
  <2> QED
    BY <2>1, AbsentFrom
<1> QED
  BY <1>1, <1>3, <1>5, <1>8, <1>9, <1>10 DEF IInv

-----------------------------------------------------------------------------
(* The theorems *)

LEMMA InitIInv ==
  ASSUME LoadingAssumption, ObjectsApart, ObjectsAlone, Init
  PROVE  IInv
<1>1. \A t \in Threads : stack[t] = <<>> /\ DOMAIN stack[t] = {}
  BY DEF Init
<1>2. \A l \in Loaders : initiated[l] = {} /\ defined[l] = {} /\ deriving[l] = {}
  BY DEF Init
<1>3. TypeOK
  <2>1. stack \in [Threads -> Seq(FrameType)]
    <3>1. <<>> \in Seq(FrameType)
      OBVIOUS
    <3> QED
      BY <3>1, Zenon DEF Init
  <2> QED
    BY <2>1 DEF Init, TypeOK, NoType
<1>4. Trees
  BY <1>2 DEF Trees
<1>5. Frames(stack) /\ Linked(stack) /\ Answers(stack, ret)
  BY <1>1 DEF Frames, Linked, Answers
<1>6. Derivers(stack) /\ Absent /\ Waiting(stack) /\ Asked(stack)
  BY <1>1, <1>2 DEF Derivers, Absent, Waiting, Asked
<1> QED
  BY <1>3, <1>4, <1>5, <1>6 DEF IInv

LEMMA StutterKeeps ==
  ASSUME IInv, UNCHANGED vars
  PROVE  IInv'
<1>1. /\ mode' = mode /\ initiated' = initiated /\ defined' = defined /\ deriving' = deriving
      /\ loading' = loading /\ waiters' = waiters /\ stack' = stack /\ ret' = ret
  BY DEF vars, trees
<1>2. Still /\ stack' \in [Threads -> Seq(FrameType)] /\ ret' \in [Threads -> Types \cup NoType]
  BY <1>1 DEF Still, trees, IInv, TypeOK
<1>3. Quiet /\ Calm
  <2>1. Quiet
    BY <1>1 DEF Quiet, Kin
  <2>2. ASSUME NEW t \in Threads, NEW i \in DOMAIN stack'[t], Open(t, i)'
        PROVE  Open(t, i)
    BY <1>1, <2>2, OpenThen DEF Open
  <2> QED
    BY <1>1, <2>1, <2>2 DEF Calm
<1>4. Frames(stack)'
  <2> SUFFICES ASSUME NEW t \in Threads, NEW i \in DOMAIN stack[t]
               PROVE  Fits(stack[t][i])'
    BY <1>1 DEF Frames
  <2>1. PICK f : f = stack[t][i] /\ Fits(f)
    BY DEF IInv, Frames
  <2>2. Fits(f)' /\ stack'[t][i] = f
    BY <1>1, <1>2, <2>1, StillGrows
  <2> QED
    BY <2>2, FitsAs
<1>5. Answers(stack, ret)'
  <2> SUFFICES ASSUME NEW t \in Threads, stack[t] # <<>>
               PROVE  Answer(stack[t][Len(stack[t])], ret[t])'
    BY <1>1 DEF Answers
  <2>1. PICK f, y : f = stack[t][Len(stack[t])] /\ y = ret[t] /\ Answer(f, y)
    BY DEF IInv, Answers
  <2>2. Answer(f, y)' /\ stack'[t][Len(stack'[t])] = f /\ ret'[t] = y
    BY <1>1, <1>2, <2>1, StillGrows
  <2> QED
    BY <2>2, AnswerAs
<1>6. Linked(stack)'
  BY <1>1 DEF IInv, Linked
<1> QED
  BY <1>2, <1>3, <1>4, <1>5, <1>6, StillKeeps

LEMMA StepKeeps ==
  ASSUME LoadingAssumption, IInv, NEW t \in Threads, Step(t)
  PROVE  IInv'
  BY BootFindKeeps, BootBodyKeeps, BootDoneKeeps,
     UserFindKeeps, UserJavaKeeps, UserExitKeeps, UserRecordKeeps,
     ArrayStartKeeps, ArrayElemKeeps, ArrayOtherKeeps, ArrayMakeKeeps,
     DeriveStartKeeps, DeriveEnterKeeps, DeriveSuperKeeps, CheckSuperKeeps, DeriveCheckKeeps,
     DeriveObjectKeeps, DeriveInterpKeeps, DeriveLeaveKeeps, DeriveUnrefKeeps,
     ObjectFindKeeps, ObjectDeriveKeeps, Zenon
  DEF Step

LEMMA NextKeeps ==
  ASSUME LoadingAssumption, IInv, [Next]_vars
  PROVE  IInv'
<1>1. CASE \E t \in Threads : Begin(t)
  BY <1>1, BeginKeeps
<1>2. CASE \E t \in Threads : Step(t)
  BY <1>2, StepKeeps
<1>3. CASE \E l \in Loaders : Unload(l)
  BY <1>3, UnloadKeeps
<1>4. CASE UNCHANGED vars
  BY <1>4, StutterKeeps
<1> QED
  BY <1>1, <1>2, <1>3, <1>4 DEF Next

-----------------------------------------------------------------------------
(* What has been returned *)

\* A type that was returned to a thread stays until its loader is unloaded.
Kept == \A t \in Threads : ret[t] \notin NoType => ret[t] \in defined[ret[t].l]

LEMMA StepGrows ==
  ASSUME IInv, NEW t \in Threads, Begin(t) \/ Step(t)
  PROVE  \A l \in Loaders : defined[l] \subseteq defined'[l]
<1>1. CASE UNCHANGED defined
  BY <1>1
<1>2. CASE ArrayMake(t)
  BY <1>2 DEF ArrayMake, IInv, TypeOK
<1>3. CASE DeriveInterp(t)
  BY <1>3 DEF DeriveInterp, IInv, TypeOK
<1>4. CASE ObjectDerive(t)
  <2>1. UNCHANGED defined \/ \E S : defined' = [defined EXCEPT ![Top(t).l] = @ \cup S]
    BY <1>4 DEF ObjectDerive
  <2> QED
    BY <2>1 DEF IInv, TypeOK
<1>5. Begin(t) \/ Step(t) => ArrayMake(t) \/ DeriveInterp(t) \/ ObjectDerive(t) \/ UNCHANGED defined
  BY DEF Begin, Step, trees, BootFind, BootBody, BootDone, UserFind, UserJava, UserExit, UserRecord,
     ArrayStart, ArrayElem, ArrayOther, DeriveStart, DeriveEnter, DeriveSuper, CheckSuper,
     DeriveCheck, DeriveObject, DeriveLeave, DeriveUnref, ObjectFind
<1> QED
  BY <1>1, <1>2, <1>3, <1>4, <1>5

\* What a step may return.
Known(t, y) == y \in NoType \/ y = ret[t] \/ \E l \in Loaders : y \in initiated'[l]
Returns(t) == ret' = ret \/ \E y : ret' = [ret EXCEPT ![t] = y] /\ Known(t, y)

LEMMA StepReturns ==
  ASSUME LoadingAssumption, IInv, IInv', NEW t \in Threads, Begin(t) \/ Step(t)
  PROVE  Returns(t)
<1>1. stack[t] # <<>> => Top(t) \in FrameType /\ Fits(Top(t)) /\ Top(t).l \in Loaders /\ Boot \in Loaders
  BY TopIs DEF FrameType, LoadingAssumption
<1>2. \A l \in Loaders : defined[l] \subseteq defined'[l] /\ defined'[l] \subseteq initiated'[l]
  <2>1. Trees'
    BY DEF IInv
  <2> QED
    BY <2>1, StepGrows DEF Trees
<1>3. CASE Begin(t) \/ BootBody(t) \/ ArrayElem(t) \/ DeriveStart(t) \/ ObjectFind(t)
  BY <1>3 DEF Begin, BootBody, ArrayElem, DeriveStart, ObjectFind, Call, Continue, Return,
     Returns, Known, NoType
<1>4. CASE ArrayOther(t) \/ UserRecord(t)
  BY <1>4 DEF ArrayOther, UserRecord, Return, Returns, Known
<1>5. CASE ObjectDerive(t)
  BY <1>5 DEF ObjectDerive, Return, Returns, Known, NoType
<1>6. CASE BootFind(t) \/ UserFind(t) \/ UserJava(t)
  <2>1. initiated' = initiated
    BY <1>6 DEF BootFind, UserFind, UserJava, trees
  <2>2. stack[t] # <<>>
    BY <1>6 DEF BootFind, UserFind, UserJava, At
  <2>3. \/ ret' = ret \/ ret' = [ret EXCEPT ![t] = None]
        \/ \E y, l : ret' = [ret EXCEPT ![t] = y] /\ l \in {Boot, Top(t).l} /\ y \in initiated[l]
    <3>1. CASE BootFind(t)
      BY <3>1 DEF BootFind, Continue, Return, Named
    <3>2. CASE UserFind(t)
      BY <3>2 DEF UserFind, Call, Continue, Return, Named
    <3>3. CASE UserJava(t)
      <4>1. [Top(t) EXCEPT !.pc = "exit", !.own = monitor[Top(t).l] # t].l = Top(t).l
        BY <1>1, <2>2 DEF FrameType
      <4> QED
        BY <3>3, <4>1 DEF UserJava, Call, Named
    <3> QED
      BY <1>6, <3>1, <3>2, <3>3
  <2> QED
    BY <1>1, <2>1, <2>2, <2>3 DEF Returns, Known, NoType
<1>7. CASE BootDone(t)
  <2>1. stack[t] # <<>>
    BY <1>7 DEF BootDone, At
  <2>2. PICK y : /\ ret' = [ret EXCEPT ![t] = y]
                 /\ y \in Named(defined[Boot], Top(t).n) \/ y = None \/ y = ret[t]
    BY <1>7 DEF BootDone
  <2>3. y \in defined[Boot] => y \in initiated'[Boot]
    BY <1>1, <1>2, <2>1
  <2> QED
    BY <1>1, <2>1, <2>2, <2>3 DEF Returns, Known, Named, NoType
<1>8. CASE DeriveUnref(t)
  <2>1. stack[t] # <<>> /\ Top(t).fn = "derive" /\ ret' = [ret EXCEPT ![t] = Top(t).got]
    BY <1>8 DEF DeriveUnref, At, Return
  <2>2. Top(t).got = None \/ Top(t).got \in defined[Top(t).l]
    BY <1>1, <2>1 DEF Fits
  <2> QED
    BY <1>1, <1>2, <2>1, <2>2 DEF Returns, Known, NoType
<1>9. CASE ArrayMake(t)
  <2>1. stack[t] # <<>>
    BY <1>9 DEF ArrayMake, At
  <2>2. PICK y : /\ ret' = [ret EXCEPT ![t] = y]
                 /\ y = None \/ y \in defined[Top(t).l] \/ y \in defined'[Top(t).l]
    <3>1. Top(t).l \in DOMAIN defined
      BY <1>1, <2>1 DEF IInv, TypeOK
    <3> QED
      BY <1>9, <3>1 DEF ArrayMake, Return, Named
  <2> QED
    BY <1>1, <1>2, <2>1, <2>2 DEF Returns, Known, NoType
<1>10. CASE UNCHANGED ret
  BY <1>10 DEF Returns
<1>11. UserExit(t) \/ ArrayStart(t) \/ DeriveEnter(t) \/ DeriveSuper(t) \/ CheckSuper(t)
         \/ DeriveCheck(t) \/ DeriveObject(t) \/ DeriveInterp(t) \/ DeriveLeave(t) => UNCHANGED ret
  BY DEF UserExit, ArrayStart, DeriveEnter, DeriveSuper, CheckSuper, DeriveCheck, DeriveObject,
     DeriveInterp, DeriveLeave, Call, Continue
<1> QED
  BY <1>3, <1>4, <1>5, <1>6, <1>7, <1>8, <1>9, <1>10, <1>11 DEF Step

LEMMA KeptKeeps ==
  ASSUME LoadingAssumption, IInv, IInv', Kept, [Next]_vars
  PROVE  Kept'
<1>1. ASSUME NEW t \in Threads, Begin(t) \/ Step(t)
      PROVE  Kept'
  <2> SUFFICES ASSUME NEW u \in Threads, ret'[u] \notin NoType
               PROVE  ret'[u] \in defined'[ret'[u].l]
    BY DEF Kept
  <2>1. CASE ret'[u] = ret[u]
    <3>1. ret[u] \in Types /\ ret[u].l \in Loaders
      BY <2>1 DEF IInv, TypeOK, Types
    <3>2. defined[ret[u].l] \subseteq defined'[ret[u].l]
      BY <1>1, <3>1, StepGrows
    <3> QED
      BY <2>1, <3>2 DEF Kept
  <2>2. CASE \E l \in Loaders : ret'[u] \in initiated'[l]
    BY <2>2 DEF IInv, Trees, Proper
  <2>3. ret'[u] = ret[u] \/ \E l \in Loaders : ret'[u] \in initiated'[l]
    <3>1. CASE ret' = ret
      BY <3>1
    <3>2. CASE \E y : ret' = [ret EXCEPT ![t] = y] /\ Known(t, y)
      <4>1. PICK y : ret' = [ret EXCEPT ![t] = y] /\ Known(t, y)
        BY <3>2
      <4>2. ret'[u] = IF u = t THEN y ELSE ret[u]
        BY <4>1 DEF IInv, TypeOK
      <4>3. CASE u = t
        BY <4>1, <4>2, <4>3 DEF Known
      <4> QED
        BY <4>2, <4>3
    <3> QED
      BY <1>1, <3>1, <3>2, StepReturns DEF Returns
  <2> QED
    BY <2>1, <2>2, <2>3
<1>2. ASSUME NEW l \in Loaders, Unload(l)
      PROVE  Kept'
  <2>1. /\ ret' = ret
        /\ \A t \in Threads : ret[t] \notin NoType => ret[t].l # l
        /\ \A m \in Loaders \ {l} : defined'[m] = defined[m]
    BY <1>2 DEF Unload, IInv, TypeOK
  <2>2. \A t \in Threads : ret[t] \notin NoType => ret[t].l \in Loaders
    BY DEF IInv, TypeOK, Types
  <2> QED
    BY <2>1, <2>2 DEF Kept
<1>3. CASE UNCHANGED vars
  BY <1>3 DEF Kept, vars, trees
<1> QED
  BY <1>1, <1>2, <1>3 DEF Next

-----------------------------------------------------------------------------
(* The theorems *)

LEMMA OneTypeFollows ==
  ASSUME IInv, Kept
  PROVE  OneType
<1>1. ASSUME NEW l \in Loaders
      PROVE  /\ \A x, y \in initiated[l] : x.n = y.n => x = y
             /\ defined[l] \subseteq initiated[l]
             /\ \A y \in initiated[l] : y.l \in Loaders /\ y \in defined[y.l]
             /\ \A y \in defined[l] : y.l = l
  BY DEF IInv, Trees, Proper, Types
<1> QED
  BY <1>1 DEF OneType, Kept

LEMMA SupersKnownFollows ==
  ASSUME IInv
  PROVE  SupersKnown
<1>1. ASSUME NEW l \in Loaders, NEW y \in defined[l]
      PROVE  /\ y.how = "interp" =>
                  \A s \in {Supers[y.n][i] : i \in DOMAIN Supers[y.n]} :
                    s # y.n /\ Named(initiated[l], s) # {}
             /\ y.how = "array" => Named(defined[l], Elem[y.n]) # {}
  <2>1. /\ y \in initiated[l] /\ y.l = l
        /\ y.how = "array" => y.n \in Arrays
        /\ y.how = "interp" =>
             \A i \in DOMAIN Supers[y.n] :
               Supers[y.n][i] # y.n /\ Named(initiated[l], Supers[y.n][i]) # {}
    BY DEF IInv, Trees
  <2>2. ASSUME y.how = "array"
        PROVE  Named(defined[l], Elem[y.n]) # {}
    <3>1. PICK e \in initiated[l] : e.n = Elem[y.n] /\ e.l = l
      BY <2>1, <2>2 DEF IInv, Trees, Proper
    <3>2. e \in defined[l]
      BY <3>1 DEF IInv, Trees, Proper
    <3> QED
      BY <3>1, <3>2 DEF Named
  <2> QED
    BY <2>1, <2>2
<1>2. ASSUME NEW t \in Threads, At(t, "boot", "wait")
      PROVE  waiters /\ \E p \in loading : p[1] = Top(t).n /\ p[2] # t
  <2>1. Len(stack[t]) \in DOMAIN stack[t]
    BY <1>2, EmptySeq, LenProperties DEF At, IInv, TypeOK
  <2> QED
    BY <1>2, <2>1 DEF At, Top, IInv, Waiting
<1> QED
  BY <1>1, <1>2 DEF SupersKnown

\* Where loaders other than the boot loader have class files of what their objects hold,
\* and objects and interpreted types are not mixed, what the loading of types rests on
\* holds throughout.
THEOREM LoadingStaysConsistent == ObjectsApart /\ ObjectsAlone /\ Spec => []IInv
<1>1. ObjectsApart /\ ObjectsAlone /\ Init => IInv
  BY LoadingAssumption, InitIInv
<1>2. IInv /\ [Next]_vars => IInv'
  BY LoadingAssumption, NextKeeps
<1> QED
  BY <1>1, <1>2, PTL DEF Spec

\* And then a loader has one type for a name, whoever loads it, and a load returns a
\* type that its loader defined.
THEOREM LoadersAgree == ObjectsApart /\ ObjectsAlone /\ Spec => []OneType
<1>1. Init => Kept
  BY DEF Init, Kept, NoType
<1>2. IInv /\ IInv' /\ Kept /\ [Next]_vars => Kept'
  BY LoadingAssumption, KeptKeeps
<1>3. IInv /\ Kept => OneType
  BY OneTypeFollows
<1> QED
  BY <1>1, <1>2, <1>3, LoadingStaysConsistent, PTL DEF Spec

\* And the supertypes of a type are there before it, so that no class is among its own,
\* and who waits for a type waits for a load of it that goes on.
THEOREM SupersComeFirst == ObjectsApart /\ ObjectsAlone /\ Spec => []SupersKnown
<1>1. IInv => SupersKnown
  BY SupersKnownFollows
<1> QED
  BY <1>1, LoadingStaysConsistent, PTL

\* An activation that holds a reference to its class file.
Derives(f) == f.fn = "derive" /\ f.pc # "start"

\* The same activations hold the same references.
SameWork ==
  \A t \in Threads : \A i :
    /\ i \in DOMAIN stack'[t] /\ Derives(stack'[t][i]) <=> i \in DOMAIN stack[t] /\ Derives(stack[t][i])
    /\ i \in DOMAIN stack[t] /\ Derives(stack[t][i]) =>
         stack'[t][i].n = stack[t][i].n /\ stack'[t][i].l = stack[t][i].l

\* What they and the types want of the tree.
Holders(n) == OwnIn(AllTypes(defined), n) \cup DependentIn(AllTypes(defined), n)
Works(n) == Derivations(stack, n)
Wanted(n) == {Version[y.l][n] : y \in Holders(n)} \cup {Version[stack[p[1]][p[2]].l][n] : p \in Works(n)}

\* Which activations hold a reference to the class file of n.
LEMMA WorksAre ==
  ASSUME NEW n, NEW p
  PROVE  p \in Works(n) <=> \E t \in Threads : \E i \in DOMAIN stack[t] :
           p = <<t, i>> /\ Derives(stack[t][i]) /\ stack[t][i].n = n
BY DEF Works, Derivations, Derives

\* Which of them will.
LEMMA WorksWillBe ==
  ASSUME NEW n, NEW p
  PROVE  p \in Works(n)' <=> \E t \in Threads : \E i \in DOMAIN stack'[t] :
           p = <<t, i>> /\ Derives(stack'[t][i]) /\ stack'[t][i].n = n
BY DEF Works, Derivations, Derives

\* A member names a thread and an activation on its stack.
LEMMA WorkIs ==
  ASSUME NEW n, NEW t \in Threads, NEW i
  PROVE  <<t, i>> \in Works(n) <=> i \in DOMAIN stack[t] /\ Derives(stack[t][i]) /\ stack[t][i].n = n
<1>1. ASSUME <<t, i>> \in Works(n)
      PROVE  i \in DOMAIN stack[t] /\ Derives(stack[t][i]) /\ stack[t][i].n = n
  <2>1. PICK u \in Threads : \E j \in DOMAIN stack[u] :
           <<t, i>> = <<u, j>> /\ Derives(stack[u][j]) /\ stack[u][j].n = n
    BY <1>1, WorksAre
  <2>2. PICK j \in DOMAIN stack[u] : <<t, i>> = <<u, j>> /\ Derives(stack[u][j]) /\ stack[u][j].n = n
    BY <2>1
  <2>3. u = t /\ j = i
    BY <2>2
  <2> QED
    BY <2>2, <2>3
<1>2. ASSUME i \in DOMAIN stack[t], Derives(stack[t][i]), stack[t][i].n = n
      PROVE  <<t, i>> \in Works(n)
  BY <1>2, WorksAre
<1> QED
  BY <1>1, <1>2

\* And so after a step.
LEMMA WorkWillBe ==
  ASSUME NEW n, NEW t \in Threads, NEW i
  PROVE  <<t, i>> \in Works(n)' <=> i \in DOMAIN stack'[t] /\ Derives(stack'[t][i]) /\ stack'[t][i].n = n
<1>1. ASSUME <<t, i>> \in Works(n)'
      PROVE  i \in DOMAIN stack'[t] /\ Derives(stack'[t][i]) /\ stack'[t][i].n = n
  <2>1. PICK u \in Threads : \E j \in DOMAIN stack'[u] :
           <<t, i>> = <<u, j>> /\ Derives(stack'[u][j]) /\ stack'[u][j].n = n
    BY <1>1, WorksWillBe
  <2>2. PICK j \in DOMAIN stack'[u] : <<t, i>> = <<u, j>> /\ Derives(stack'[u][j]) /\ stack'[u][j].n = n
    BY <2>1
  <2>3. u = t /\ j = i
    BY <2>2
  <2> QED
    BY <2>2, <2>3
<1>2. ASSUME i \in DOMAIN stack'[t], Derives(stack'[t][i]), stack'[t][i].n = n
      PROVE  <<t, i>> \in Works(n)'
  BY <1>2, WorksWillBe
<1> QED
  BY <1>1, <1>2

\* Where the activations hold what they held, the sets are what they were.
LEMMA SameWorks ==
  ASSUME SameWork, NEW n
  PROVE  /\ Works(n)' = Works(n)
         /\ \A p \in Works(n) : stack'[p[1]][p[2]].l = stack[p[1]][p[2]].l
<1>1. \A p : p \in Works(n)' <=> p \in Works(n)
  <2> TAKE p
  <2>1. p \in Works(n)' <=> \E t \in Threads : \E i \in DOMAIN stack'[t] :
           p = <<t, i>> /\ Derives(stack'[t][i]) /\ stack'[t][i].n = n
    BY WorksWillBe
  <2>2. p \in Works(n) <=> \E t \in Threads : \E i \in DOMAIN stack[t] :
           p = <<t, i>> /\ Derives(stack[t][i]) /\ stack[t][i].n = n
    BY WorksAre
  <2> QED
    BY <2>1, <2>2 DEF SameWork
<1>2. \A p \in Works(n) : stack'[p[1]][p[2]].l = stack[p[1]][p[2]].l
  <2> TAKE p \in Works(n)
  <2>1. PICK t \in Threads : \E i \in DOMAIN stack[t] : p = <<t, i>> /\ Derives(stack[t][i])
    BY WorksAre
  <2> QED
    BY <2>1 DEF SameWork
<1> QED
  BY <1>1, <1>2

\* What a step does to the activations, if it takes and gives no reference.
Same(f, h) == f.fn = h.fn /\ f.n = h.n /\ f.l = h.l /\ (h.fn = "derive" => (f.pc = "start" <=> h.pc = "start"))
\* Thread t alone moves, and takes and gives no reference.
Moves(t) ==
  \/ stack[t] # <<>> /\ \E f \in FrameType : Same(f, Top(t)) /\ stack' = Goto(t, f)
  \/ stack[t] # <<>> /\ \E f, g \in FrameType : Same(f, Top(t)) /\ g.pc = "start" /\ Call(t, f, g)
  \/ stack[t] # <<>> /\ ~Derives(Top(t)) /\ stack' = Returned(t)

\* Such a move leaves the references of activations alone.
LEMMA MovesWork ==
  ASSUME IInv, NEW t \in Threads, Moves(t)
  PROVE  SameWork
<1>1. stack \in [Threads -> Seq(FrameType)]
  BY DEF IInv, TypeOK
<1>2. CASE stack[t] # <<>> /\ \E f \in FrameType : Same(f, Top(t)) /\ stack' = Goto(t, f)
  <2>1. PICK f \in FrameType : Same(f, Top(t)) /\ stack' = Goto(t, f)
    BY <1>2
  <2>2. /\ Len(stack[t]) \in DOMAIN stack[t] /\ Top(t) = stack[t][Len(stack[t])]
        /\ \A u \in Threads : DOMAIN stack'[u] = DOMAIN stack[u]
        /\ \A u \in Threads : \A i \in DOMAIN stack[u] :
              stack'[u][i] = IF u = t /\ i = Len(stack[t]) THEN f ELSE stack[u][i]
    BY <1>2, <2>1, OnTop
  <2>3. Derives(f) <=> Derives(Top(t))
    BY <2>1 DEF Derives, Same
  <2> HIDE DEF Derives
  <2> QED
    BY <2>1, <2>2, <2>3 DEF SameWork, Same
<1>3. CASE stack[t] # <<>> /\ \E f, g \in FrameType : Same(f, Top(t)) /\ g.pc = "start" /\ Call(t, f, g)
  <2>1. PICK f, g \in FrameType : Same(f, Top(t)) /\ g.pc = "start" /\ Call(t, f, g)
    BY <1>3
  <2>2. /\ stack' \in [Threads -> Seq(FrameType)]
        /\ Len(stack[t]) \in Nat /\ Len(stack[t]) > 0
        /\ Len(stack'[t]) = Len(stack[t]) + 1
        /\ \A u \in Threads \ {t} : stack'[u] = stack[u]
        /\ \A i \in 1 .. Len(stack'[t]) :
             stack'[t][i] = IF i = Len(stack[t]) + 1 THEN g
                            ELSE IF i = Len(stack[t]) THEN f ELSE stack[t][i]
    BY <1>1, <1>3, <2>1, OnCall
  <2>3. DOMAIN stack[t] = 1 .. Len(stack[t]) /\ DOMAIN stack'[t] = 1 .. Len(stack'[t])
    BY <1>1, <2>2, LenProperties
  <2>4. Derives(f) <=> Derives(Top(t))
    BY <2>1 DEF Derives, Same
  <2>5. ~Derives(g)
    BY <2>1 DEF Derives
  <2>6. Top(t) = stack[t][Len(stack[t])]
    BY DEF Top
  <2> HIDE DEF Derives
  <2>7. \A i : /\ i \in DOMAIN stack'[t] /\ Derives(stack'[t][i]) <=> i \in DOMAIN stack[t] /\ Derives(stack[t][i])
               /\ i \in DOMAIN stack[t] /\ Derives(stack[t][i]) =>
                    stack'[t][i].n = stack[t][i].n /\ stack'[t][i].l = stack[t][i].l
    <3> TAKE i
    <3>1. CASE i = Len(stack[t]) + 1
      BY <2>2, <2>3, <2>5, <3>1
    <3>2. CASE i = Len(stack[t])
      <4>1. i \in DOMAIN stack[t] /\ i \in DOMAIN stack'[t] /\ i \in 1 .. Len(stack'[t]) /\ i # Len(stack[t]) + 1
        BY <2>2, <2>3, <3>2
      <4>2. stack'[t][i] = f /\ stack[t][i] = Top(t)
        BY <2>2, <2>6, <3>2, <4>1
      <4> QED
        BY <2>1, <2>4, <4>1, <4>2 DEF Same
    <3>3. CASE i \notin {Len(stack[t]), Len(stack[t]) + 1}
      <4>1. i \in DOMAIN stack[t] <=> i \in DOMAIN stack'[t]
        BY <2>2, <2>3, <3>3
      <4>2. i \in DOMAIN stack'[t] => stack'[t][i] = stack[t][i]
        BY <2>2, <2>3, <3>3
      <4> QED
        BY <4>1, <4>2
    <3> QED
      BY <3>1, <3>2, <3>3
  <2> QED
    BY <2>2, <2>7 DEF SameWork
<1>4. CASE stack[t] # <<>> /\ ~Derives(Top(t)) /\ stack' = Returned(t)
  <2>1. /\ stack' \in [Threads -> Seq(FrameType)]
        /\ Len(stack[t]) \in Nat /\ Len(stack[t]) > 0
        /\ Len(stack'[t]) = Len(stack[t]) - 1
        /\ \A u \in Threads \ {t} : stack'[u] = stack[u]
        /\ \A i \in 1 .. Len(stack[t]) - 1 : stack'[t][i] = stack[t][i]
    BY <1>1, <1>4, OnReturned
  <2>2. DOMAIN stack[t] = 1 .. Len(stack[t]) /\ DOMAIN stack'[t] = 1 .. Len(stack'[t])
    BY <1>1, <2>1, LenProperties
  <2>3. ~Derives(stack[t][Len(stack[t])])
    BY <1>4 DEF Top
  <2> HIDE DEF Derives
  <2>4. \A i : /\ i \in DOMAIN stack'[t] /\ Derives(stack'[t][i]) <=> i \in DOMAIN stack[t] /\ Derives(stack[t][i])
               /\ i \in DOMAIN stack[t] /\ Derives(stack[t][i]) =>
                    stack'[t][i].n = stack[t][i].n /\ stack'[t][i].l = stack[t][i].l
    <3> TAKE i
    <3>1. CASE i = Len(stack[t])
      BY <2>1, <2>2, <2>3, <3>1
    <3>2. CASE i # Len(stack[t])
      <4>1. i \in DOMAIN stack[t] <=> i \in DOMAIN stack'[t]
        BY <2>1, <2>2, <3>2
      <4>2. i \in DOMAIN stack'[t] => stack'[t][i] = stack[t][i]
        BY <2>1, <2>2, <3>2
      <4> QED
        BY <4>1, <4>2
    <3> QED
      BY <3>1, <3>2
  <2> QED
    BY <2>1, <2>4 DEF SameWork
<1> QED
  BY <1>2, <1>3, <1>4 DEF Moves

\* The steps that leave the tree of class files alone, and move so.
Unmoved == UNCHANGED <<files, defined>>

\* The activation on top of a stack is one.
LEMMA TopTyped ==
  ASSUME LoadingAssumption, IInv, NEW t \in Threads, stack[t] # <<>>, NEW h, h = Top(t)
  PROVE  /\ h \in FrameType /\ Fits(h) /\ h.l \in Loaders /\ h.n \in Names
         /\ Boot \in Loaders
  BY TopIs DEF FrameType, LoadingAssumption

\* An activation starts so.
LEMMA NewFrame ==
  ASSUME NEW a \in {"boot", "user", "array", "derive", "object"}, NEW b \in Loaders, NEW c \in Names
  PROVE  Frame(a, b, c) \in FrameType /\ Frame(a, b, c).pc = "start"
  BY SMT DEF Frame, FrameType

\* One that loads a class starts so.
LEMMA NewLoadFrame ==
  ASSUME NEW b \in Loaders, NEW c \in Names
  PROVE  LoadFrame(b, c) \in FrameType /\ LoadFrame(b, c).pc = "start"
  BY NewFrame DEF LoadFrame

\* The activation on top goes on to another place.
LEMMA ByMoving ==
  ASSUME NEW t \in Threads, stack[t] # <<>>, NEW f \in FrameType, Same(f, Top(t))
  PROVE  /\ \A x : stack' = Goto(t, f) => Moves(t)
         /\ Continue(t, f) => Moves(t)
         /\ \A g \in FrameType : g.pc = "start" /\ Call(t, f, g) => Moves(t)
  BY DEF Moves, Continue

\* The activation on top returns.
LEMMA ByReturning ==
  ASSUME NEW t \in Threads, stack[t] # <<>>, ~Derives(Top(t)), NEW y, Return(t, y)
  PROVE  Moves(t)
  BY DEF Moves, Return

\* The steps of _jc_load_type() through the boot loader move so.
LEMMA BootMoves ==
  ASSUME LoadingAssumption, IInv, NEW t \in Threads, BootFind(t) \/ BootBody(t)
  PROVE  Moves(t) /\ Unmoved
<1>1. stack[t] # <<>> /\ Top(t).fn = "boot"
  BY DEF BootFind, BootBody, At
<1>2. PICK h \in FrameType : h = Top(t) /\ h.n \in Names /\ Boot \in Loaders
  BY <1>1, TopTyped
<1>3. ~Derives(Top(t))
  BY <1>1 DEF Derives
<1> DEFINE w == [h EXCEPT !.pc = "wait"]
           b == [h EXCEPT !.pc = "body"]
           o == [h EXCEPT !.pc = "body", !.own = TRUE]
           d == [h EXCEPT !.pc = "done"]
<1>4. /\ w \in FrameType /\ b \in FrameType /\ o \in FrameType /\ d \in FrameType
      /\ Same(w, Top(t)) /\ Same(b, Top(t)) /\ Same(o, Top(t)) /\ Same(d, Top(t))
      /\ d.n = h.n
  BY <1>1, <1>2 DEF FrameType, Same
<1> HIDE DEF w, b, o, d
<1>5. CASE BootFind(t)
  <2>1. (\E y : Return(t, y)) \/ Continue(t, w) \/ Continue(t, b) \/ Continue(t, o)
    BY <1>2, <1>5 DEF BootFind, w, b, o
  <2>2. Moves(t)
    BY <1>1, <1>3, <1>4, <2>1, ByMoving, ByReturning
  <2> QED
    BY <1>5, <2>2 DEF BootFind, trees, Unmoved
<1>6. CASE BootBody(t)
  <2>1. \/ \E fn \in {"array", "object", "derive"} : Call(t, d, Frame(fn, Boot, h.n))
        \/ stack' = Goto(t, d)
    BY <1>2, <1>4, <1>6 DEF BootBody, d
  <2>2. \A fn \in {"array", "object", "derive"} :
          Frame(fn, Boot, h.n) \in FrameType /\ Frame(fn, Boot, h.n).pc = "start"
    BY <1>2, NewFrame, NewLoadFrame
  <2>3. Moves(t)
    BY <1>1, <1>4, <2>1, <2>2, ByMoving
  <2> QED
    BY <1>6, <2>3 DEF BootBody, trees, Unmoved
<1> QED
  BY <1>5, <1>6

\* And those through another loader,
LEMMA UserMoves ==
  ASSUME LoadingAssumption, IInv, NEW t \in Threads,
         UserFind(t) \/ UserJava(t) \/ UserExit(t) \/ UserRecord(t)
  PROVE  Moves(t) /\ Unmoved
<1>1. stack[t] # <<>> /\ Top(t).fn = "user"
  BY DEF UserFind, UserJava, UserExit, UserRecord, At
<1>2. PICK h \in FrameType : h = Top(t) /\ h.n \in Names /\ h.l \in Loaders /\ Boot \in Loaders
  BY <1>1, TopTyped
<1>3. ~Derives(Top(t))
  BY <1>1 DEF Derives
<1> DEFINE r == [h EXCEPT !.pc = "record"]
           j == [h EXCEPT !.pc = "java"]
           e == [h EXCEPT !.pc = "exit", !.own = monitor[Top(t).l] # t]
<1>4. /\ r \in FrameType /\ j \in FrameType /\ e \in FrameType
      /\ Same(r, Top(t)) /\ Same(j, Top(t)) /\ Same(e, Top(t))
      /\ e.n = h.n /\ e.l = h.l
  BY <1>1, <1>2 DEF FrameType, Same
<1>5. /\ \A fn \in {"array", "derive"} :
           Frame(fn, h.l, h.n) \in FrameType /\ Frame(fn, h.l, h.n).pc = "start"
      /\ LoadFrame(Boot, h.n) \in FrameType /\ LoadFrame(Boot, h.n).pc = "start"
  BY <1>2, NewFrame, NewLoadFrame
<1> HIDE DEF r, j, e
<1>6. CASE UserFind(t)
  <2>1. (\E y : Return(t, y)) \/ Call(t, r, Frame("array", h.l, h.n)) \/ Continue(t, j)
    BY <1>2, <1>6 DEF UserFind, r, j
  <2>2. Moves(t)
    BY <1>1, <1>3, <1>4, <1>5, <2>1, ByMoving, ByReturning
  <2> QED
    BY <1>6, <2>2 DEF UserFind, trees, Unmoved
<1>7. CASE UserJava(t)
  <2>1. \/ stack' = Goto(t, e)
        \/ Call(t, e, Frame("derive", h.l, h.n)) \/ Call(t, e, LoadFrame(Boot, h.n))
    BY <1>2, <1>4, <1>7 DEF UserJava, e
  <2>2. Moves(t)
    BY <1>1, <1>4, <1>5, <2>1, ByMoving
  <2> QED
    BY <1>7, <2>2 DEF UserJava, trees, Unmoved
<1>8. CASE UserExit(t)
  <2>1. Continue(t, r)
    BY <1>2, <1>8 DEF UserExit, r
  <2>2. Moves(t)
    BY <1>1, <1>4, <2>1, ByMoving
  <2> QED
    BY <1>8, <2>2 DEF UserExit, trees, Unmoved
<1>9. CASE UserRecord(t)
  <2>1. Return(t, ret[t]) /\ UNCHANGED <<files, defined>>
    BY <1>9 DEF UserRecord
  <2> QED
    BY <1>1, <1>3, <2>1, ByReturning DEF Unmoved
<1> QED
  BY <1>6, <1>7, <1>8, <1>9

\* those that load an array type,
LEMMA ArrayMoves ==
  ASSUME LoadingAssumption, IInv, NEW t \in Threads,
         ArrayStart(t) \/ ArrayElem(t) \/ ArrayOther(t)
  PROVE  Moves(t) /\ Unmoved
<1>1. stack[t] # <<>> /\ Top(t).fn = "array"
  BY DEF ArrayStart, ArrayElem, ArrayOther, At
<1>2. PICK h \in FrameType : h = Top(t) /\ h.n \in Names /\ h.l \in Loaders /\ Boot \in Loaders /\ Fits(h)
  BY <1>1, TopTyped
<1>3. ~Derives(Top(t))
  BY <1>1 DEF Derives
<1> DEFINE e == [h EXCEPT !.pc = "elem"]
           o == [h EXCEPT !.pc = "other"]
           m == [h EXCEPT !.pc = "make"]
<1>4. /\ e \in FrameType /\ o \in FrameType /\ m \in FrameType
      /\ Same(e, Top(t)) /\ Same(o, Top(t)) /\ Same(m, Top(t))
      /\ e.n = h.n /\ e.l = h.l
  BY <1>1, <1>2 DEF FrameType, Same
<1> HIDE DEF e, o, m
<1>5. CASE ArrayStart(t)
  <2>1. Call(t, e, LoadFrame(h.l, Elem[h.n]))
    BY <1>2, <1>5 DEF ArrayStart, e
  <2>2. Elem[h.n] \in Names
    BY <1>1, <1>2 DEF Fits, LoadingAssumption
  <2>3. Moves(t)
    BY <1>1, <1>2, <1>4, <2>1, <2>2, ByMoving, NewLoadFrame
  <2> QED
    BY <1>5, <2>3 DEF ArrayStart, trees, Unmoved
<1>6. CASE ArrayElem(t)
  <2>1. \/ Return(t, None) \/ (ret[t] # None /\ Call(t, o, LoadFrame(ret[t].l, h.n)))
        \/ Continue(t, m)
    BY <1>2, <1>6 DEF ArrayElem, o, m
  <2>2. ASSUME ret[t] # None, Call(t, o, LoadFrame(ret[t].l, h.n))
        PROVE  Moves(t)
    <3>1. Answer(h, ret[t]) /\ h.pc = "elem"
      BY <1>1, <1>2, <1>6, TopIs DEF ArrayElem, At
    <3>2. ret[t] \in initiated[h.l]
      BY <1>1, <1>2, <2>2, <3>1 DEF Answer
    <3>3. ret[t].l \in Loaders
      BY <1>2, <3>2 DEF IInv, TypeOK, Types
    <3>4. PICK g \in FrameType : g = LoadFrame(ret[t].l, h.n) /\ g.pc = "start"
      BY <1>2, <3>3, NewLoadFrame
    <3>5. Call(t, o, g)
      BY <2>2, <3>4
    <3> QED
      BY <1>1, <1>4, <3>4, <3>5, ByMoving
  <2>3. Moves(t)
    BY <1>1, <1>3, <1>4, <2>1, <2>2, ByMoving, ByReturning
  <2> QED
    BY <1>6, <2>3 DEF ArrayElem, trees, Unmoved
<1>7. CASE ArrayOther(t)
  <2>1. Return(t, ret[t])
    BY <1>7 DEF ArrayOther
  <2> QED
    BY <1>1, <1>3, <1>7, <2>1, ByReturning DEF ArrayOther, trees, Unmoved
<1> QED
  BY <1>5, <1>6, <1>7

\* those that derive a type, but for the two that count,
LEMMA DeriveMoves ==
  ASSUME LoadingAssumption, IInv, NEW t \in Threads,
         DeriveEnter(t) \/ DeriveSuper(t) \/ CheckSuper(t) \/ DeriveCheck(t) \/ DeriveObject(t) \/ DeriveLeave(t)
  PROVE  Moves(t) /\ Unmoved
<1>1. stack[t] # <<>> /\ Top(t).fn = "derive" /\ Top(t).pc # "start"
  BY DEF DeriveEnter, DeriveSuper, CheckSuper, DeriveCheck, DeriveObject, DeriveLeave, At
<1>2. PICK h \in FrameType : h = Top(t) /\ h.n \in Classes /\ h.n \in Names /\ h.l \in Loaders /\ Fits(h)
  BY <1>1, TopTyped DEF Fits
<1>3. \A f \in FrameType : f.fn = "derive" /\ f.n = h.n /\ f.l = h.l /\ f.pc # "start" => Same(f, Top(t))
  BY <1>1, <1>2 DEF Same
<1>4. CASE DeriveEnter(t)
  <2>1. \/ Continue(t, [h EXCEPT !.pc = "supers", !.own = TRUE])
        \/ Continue(t, [h EXCEPT !.pc = "leave", !.own = TRUE]) \/ Continue(t, [h EXCEPT !.pc = "unref"])
    BY <1>2, <1>4 DEF DeriveEnter
  <2>2. /\ [h EXCEPT !.pc = "supers", !.own = TRUE] \in FrameType /\ [h EXCEPT !.pc = "unref"] \in FrameType
        /\ Same([h EXCEPT !.pc = "supers", !.own = TRUE], Top(t)) /\ Same([h EXCEPT !.pc = "unref"], Top(t))
    BY <1>1, <1>2 DEF FrameType, Same
  <2>4. [h EXCEPT !.pc = "leave", !.own = TRUE] \in FrameType /\ Same([h EXCEPT !.pc = "leave", !.own = TRUE], Top(t))
    BY <1>1, <1>2 DEF FrameType, Same
  <2>3. Moves(t)
    BY <1>1, <2>1, <2>2, <2>4, ByMoving
  <2> QED
    BY <1>4, <2>3 DEF DeriveEnter, Unmoved
<1>5. CASE DeriveSuper(t)
  <2>1. Call(t, [h EXCEPT !.pc = "super"], LoadFrame(h.l, Supers[h.n][h.i])) /\ h.i \in DOMAIN Supers[h.n]
    BY <1>2, <1>5 DEF DeriveSuper
  <2>2. [h EXCEPT !.pc = "super"] \in FrameType /\ Same([h EXCEPT !.pc = "super"], Top(t))
    BY <1>1, <1>2 DEF FrameType, Same
  <2>3. Supers[h.n][h.i] \in Names
    BY <1>2, <2>1, ElementOfSeq, LenProperties DEF LoadingAssumption, Classes
  <2>4. Moves(t)
    BY <1>1, <1>2, <2>1, <2>2, <2>3, ByMoving, NewLoadFrame
  <2> QED
    BY <1>5, <2>4 DEF DeriveSuper, trees, Unmoved
<1>6. CASE CheckSuper(t)
  <2>1. Continue(t, [h EXCEPT !.pc = "supers", !.i = @ + 1]) \/ Continue(t, [h EXCEPT !.pc = "leave"])
    BY <1>2, <1>6 DEF CheckSuper
  <2>2. h.i + 1 \in Nat
    BY <1>2 DEF FrameType
  <2>3. /\ [h EXCEPT !.pc = "supers", !.i = @ + 1] \in FrameType /\ [h EXCEPT !.pc = "leave"] \in FrameType
        /\ Same([h EXCEPT !.pc = "supers", !.i = @ + 1], Top(t)) /\ Same([h EXCEPT !.pc = "leave"], Top(t))
    BY <1>1, <1>2, <2>2 DEF FrameType, Same
  <2>4. Moves(t)
    BY <1>1, <2>1, <2>3, ByMoving
  <2> QED
    BY <1>6, <2>4 DEF CheckSuper, trees, Unmoved
<1>7. CASE DeriveCheck(t)
  <2>1. \/ \E y \in defined[h.l] : Continue(t, [h EXCEPT !.pc = "leave", !.got = y])
        \/ Continue(t, [h EXCEPT !.pc = "interp"])
        \/ Call(t, [h EXCEPT !.pc = "object"], Frame("object", h.l, h.n))
    BY <1>2, <1>7 DEF DeriveCheck, Named
  <2>2. defined[h.l] \subseteq Types
    BY <1>2 DEF IInv, TypeOK
  <2>3. /\ \A y \in Types : /\ [h EXCEPT !.pc = "leave", !.got = y] \in FrameType
                            /\ Same([h EXCEPT !.pc = "leave", !.got = y], Top(t))
        /\ [h EXCEPT !.pc = "interp"] \in FrameType /\ [h EXCEPT !.pc = "object"] \in FrameType
        /\ Same([h EXCEPT !.pc = "interp"], Top(t)) /\ Same([h EXCEPT !.pc = "object"], Top(t))
    BY <1>1, <1>2 DEF FrameType, Same
  <2>4. Frame("object", h.l, h.n) \in FrameType /\ Frame("object", h.l, h.n).pc = "start"
    BY <1>2, NewFrame, NewLoadFrame
  <2>5. Moves(t)
    BY <1>1, <2>1, <2>2, <2>3, <2>4, ByMoving
  <2> QED
    BY <1>7, <2>5 DEF DeriveCheck, trees, Unmoved
<1>8. CASE DeriveObject(t)
  <2> DEFINE g == [Frame("object", h.l, h.n) EXCEPT !.own = TRUE]
  <2>1. \/ \E y \in defined[h.l] : Continue(t, [h EXCEPT !.pc = "leave", !.got = y])
        \/ Continue(t, [h EXCEPT !.pc = "interp"]) \/ Continue(t, [h EXCEPT !.pc = "leave"])
        \/ Call(t, [h EXCEPT !.i = 0], g)
    BY <1>2, <1>8 DEF DeriveObject, Named
  <2>2. defined[h.l] \subseteq Types
    BY <1>2 DEF IInv, TypeOK
  <2>3. /\ \A y \in Types : /\ [h EXCEPT !.pc = "leave", !.got = y] \in FrameType
                            /\ Same([h EXCEPT !.pc = "leave", !.got = y], Top(t))
        /\ [h EXCEPT !.pc = "interp"] \in FrameType /\ [h EXCEPT !.pc = "leave"] \in FrameType
        /\ Same([h EXCEPT !.pc = "interp"], Top(t)) /\ Same([h EXCEPT !.pc = "leave"], Top(t))
        /\ [h EXCEPT !.i = 0] \in FrameType /\ Same([h EXCEPT !.i = 0], Top(t))
    BY <1>1, <1>2 DEF FrameType, Same
  <2>4. g \in FrameType /\ g.pc = "start"
    <3>1. PICK x \in FrameType : x = Frame("object", h.l, h.n) /\ x.pc = "start"
      BY <1>2, NewFrame
    <3> QED
      BY <3>1 DEF FrameType
  <2> HIDE DEF g
  <2>5. Moves(t)
    BY <1>1, <2>1, <2>2, <2>3, <2>4, ByMoving
  <2> QED
    BY <1>8, <2>5 DEF DeriveObject, trees, Unmoved
<1>9. CASE DeriveLeave(t)
  <2>1. Continue(t, [h EXCEPT !.pc = "unref"])
    BY <1>2, <1>9 DEF DeriveLeave
  <2>2. [h EXCEPT !.pc = "unref"] \in FrameType /\ Same([h EXCEPT !.pc = "unref"], Top(t))
    BY <1>1, <1>2 DEF FrameType, Same
  <2>3. Moves(t)
    BY <1>1, <2>1, <2>2, ByMoving
  <2> QED
    BY <1>9, <2>3 DEF DeriveLeave, Unmoved
<1> QED
  BY <1>4, <1>5, <1>6, <1>7, <1>8, <1>9

\* those that load an object,
LEMMA ObjectMoves ==
  ASSUME LoadingAssumption, IInv, NEW t \in Threads, ObjectFind(t)
  PROVE  Moves(t) /\ Unmoved
<1>1. stack[t] # <<>> /\ Top(t).fn = "object"
  BY DEF ObjectFind, At
<1>2. PICK h \in FrameType : h = Top(t)
  BY <1>1, TopTyped
<1>3. ~Derives(Top(t))
  BY <1>1 DEF Derives
<1>4. (\E y : Return(t, y)) \/ Continue(t, [h EXCEPT !.pc = "derive"])
  BY <1>2 DEF ObjectFind
<1>5. [h EXCEPT !.pc = "derive"] \in FrameType /\ Same([h EXCEPT !.pc = "derive"], Top(t))
  BY <1>1, <1>2 DEF FrameType, Same
<1>6. Moves(t)
  BY <1>1, <1>3, <1>4, <1>5, ByMoving, ByReturning
<1> QED
  BY <1>6 DEF ObjectFind, trees, Unmoved

\* A thread that begins holds no reference,
LEMMA BeginWorks ==
  ASSUME LoadingAssumption, IInv, NEW t \in Threads, Begin(t)
  PROVE  SameWork /\ Unmoved
<1>1. PICK l \in Loaders, n \in Names : stack' = [stack EXCEPT ![t] = <<LoadFrame(l, n)>>]
  BY DEF Begin
<1>2. PICK g \in FrameType : g = LoadFrame(l, n) /\ g.pc = "start"
  BY NewLoadFrame
<1>3. stack'[t] = <<g>> /\ stack[t] = <<>> /\ \A u \in Threads \ {t} : stack'[u] = stack[u]
  BY <1>1, <1>2 DEF Begin, IInv, TypeOK
<1>4. DOMAIN stack[t] = {} /\ DOMAIN stack'[t] = {1} /\ stack'[t][1] = g
  BY <1>3
<1>5. SameWork
  BY <1>2, <1>3, <1>4 DEF SameWork, Derives
<1> QED
  BY <1>5 DEF Begin, trees, Unmoved

\* and one that ends a load of the boot loader, waking those that wait for it, held none.
LEMMA BootDoneWorks ==
  ASSUME LoadingAssumption, IInv, NEW t \in Threads, BootDone(t)
  PROVE  SameWork /\ Unmoved
<1>1. stack[t] # <<>> /\ ~Derives(Top(t)) /\ stack \in [Threads -> Seq(FrameType)]
  BY DEF BootDone, At, Derives, IInv, TypeOK
<1>2. stack' = Woken(Returned(t)) \/ stack' = Returned(t)
  BY DEF BootDone
<1>3. PICK s : s = Returned(t)
  OBVIOUS
<1>4. /\ s \in [Threads -> Seq(FrameType)]
      /\ Len(stack[t]) \in Nat /\ Len(stack[t]) > 0
      /\ Len(s[t]) = Len(stack[t]) - 1
      /\ \A u \in Threads \ {t} : s[u] = stack[u]
      /\ \A i \in 1 .. Len(stack[t]) - 1 : s[t][i] = stack[t][i]
  BY <1>1, <1>3, OnReturned
<1>5. \A u \in Threads : \A i : i \in DOMAIN s[u] <=> i \in DOMAIN stack[u] /\ (u = t => i # Len(stack[t]))
  <2>1. \A u \in Threads : DOMAIN s[u] = 1 .. Len(s[u]) /\ DOMAIN stack[u] = 1 .. Len(stack[u])
    BY <1>1, <1>4, LenProperties
  <2> QED
    BY <1>4, <2>1
<1>6. \A u \in Threads : \A i \in DOMAIN s[u] : s[u][i] = stack[u][i]
  <2>1. DOMAIN s[t] = 1 .. Len(stack[t]) - 1
    BY <1>4, LenProperties
  <2> QED
    BY <1>4, <2>1
<1>7. \A u \in Threads : \A i : i \in DOMAIN stack'[u] <=> i \in DOMAIN s[u]
  BY <1>2, <1>3 DEF Woken
<1>8. ASSUME NEW u \in Threads, NEW i \in DOMAIN s[u]
      PROVE  stack'[u][i] = s[u][i] \/ (s[u][i].pc = "wait" /\ stack'[u][i] = [s[u][i] EXCEPT !.pc = "start"])
  <2>1. CASE stack' = Woken(s)
    <3>1. stack'[u] = [j \in DOMAIN s[u] |->
                         IF s[u][j].pc = "wait" THEN [s[u][j] EXCEPT !.pc = "start"] ELSE s[u][j]]
      BY <2>1 DEF Woken
    <3> QED
      BY <1>8, <3>1
  <2> QED
    BY <1>2, <1>3, <2>1
<1>9. ASSUME NEW u \in Threads, NEW i \in DOMAIN s[u]
      PROVE  /\ Derives(stack'[u][i]) <=> Derives(stack[u][i])
             /\ Derives(stack[u][i]) => stack'[u][i].n = stack[u][i].n /\ stack'[u][i].l = stack[u][i].l
  <2>1. PICK h \in FrameType : h = stack[u][i] /\ Fits(h)
    BY <1>5, <1>9, FramesTyped DEF IInv, Frames
  <2>2. h.pc = "wait" => h.fn = "boot" /\ [h EXCEPT !.pc = "start"].fn = "boot"
    BY <2>1 DEF Fits, FrameType
  <2>3. stack'[u][i] = h \/ (h.pc = "wait" /\ stack'[u][i] = [h EXCEPT !.pc = "start"])
    <3>1. s[u][i] = h
      BY <1>6, <1>9, <2>1
    <3>2. stack'[u][i] = s[u][i] \/ (s[u][i].pc = "wait" /\ stack'[u][i] = [s[u][i] EXCEPT !.pc = "start"])
      BY <1>8, <1>9
    <3> QED
      BY <3>1, <3>2
  <2> QED
    BY <2>1, <2>2, <2>3 DEF Derives
<1>10. ~Derives(stack[t][Len(stack[t])])
  BY <1>1 DEF Top
<1> HIDE DEF Derives
<1>11. SameWork
  <2> SUFFICES ASSUME NEW u \in Threads, NEW i
               PROVE  /\ i \in DOMAIN stack'[u] /\ Derives(stack'[u][i]) <=> i \in DOMAIN stack[u] /\ Derives(stack[u][i])
                      /\ i \in DOMAIN stack[u] /\ Derives(stack[u][i]) =>
                           stack'[u][i].n = stack[u][i].n /\ stack'[u][i].l = stack[u][i].l
    BY DEF SameWork
  <2>1. i \in DOMAIN stack'[u] <=> i \in DOMAIN stack[u] /\ (u = t => i # Len(stack[t]))
    BY <1>5, <1>7
  <2>2. CASE i \in DOMAIN stack'[u]
    BY <1>7, <1>9, <2>1, <2>2
  <2>3. CASE i \notin DOMAIN stack'[u]
    BY <1>10, <2>1, <2>3
  <2> QED
    BY <2>2, <2>3
<1> QED
  BY <1>11 DEF BootDone, trees, Unmoved

-----------------------------------------------------------------------------
(* Counting *)

\* Record r is right for H types and D activations, whose class files are of versions vs.
Node(r, H, D, vs) ==
  /\ r \in [hash : Nat, refs : Nat] /\ IsFiniteSet(H) /\ IsFiniteSet(D)
  /\ r.refs = Cardinality(H) + Cardinality(D)
  /\ \A v \in vs : r.hash = v
  /\ vs # {} => H # {} \/ D # {}

\* The cardinality of a set and of what joins it.
LEMMA DisjointUnion ==
  ASSUME NEW S, NEW T, IsFiniteSet(S), IsFiniteSet(T), S \cap T = {}
  PROVE  /\ IsFiniteSet(S \cup T) /\ Cardinality(S \cup T) = Cardinality(S) + Cardinality(T)
         /\ Cardinality(S) \in Nat /\ Cardinality(T) \in Nat
<1>1. Cardinality(S) \in Nat /\ Cardinality(T) \in Nat
  BY FS_CardinalityType
<1>2. Cardinality(S \cap T) = 0
  BY FS_EmptySet
<1>3. /\ IsFiniteSet(S \cup T)
      /\ Cardinality(S \cup T) = Cardinality(S) + Cardinality(T) - Cardinality(S \cap T)
  BY FS_Union
<1> QED
  BY <1>1, <1>2, <1>3

\* The cardinality of a set and of what leaves it.
LEMMA CardinalityLess ==
  ASSUME NEW S, NEW T, IsFiniteSet(S), T \subseteq S
  PROVE  /\ IsFiniteSet(T) /\ IsFiniteSet(S \ T)
         /\ Cardinality(S \ T) = Cardinality(S) - Cardinality(T)
         /\ Cardinality(S) \in Nat /\ Cardinality(T) \in Nat /\ Cardinality(S \ T) \in Nat
<1>1. IsFiniteSet(T) /\ IsFiniteSet(S \ T) /\ Cardinality(S \ T) = Cardinality(S) - Cardinality(S \cap T)
  BY FS_Subset, FS_Difference
<1>2. S \cap T = T
  OBVIOUS
<1> QED
  BY <1>1, <1>2, FS_CardinalityType

\* A references of types and B of activations more, to a class file of version v.
Gains(r, H, D, vs, A, B, v, q, ws) ==
  /\ Node(r, H, D, vs) /\ v \in Nat
  /\ IsFiniteSet(A) /\ IsFiniteSet(B) /\ A \cap H = {} /\ B \cap D = {}
  /\ LET c == Cardinality(A) + Cardinality(B)
     IN /\ c # 0 => r.refs = 0 \/ r.hash = v
        /\ q = IF c = 0 THEN r ELSE [hash |-> v, refs |-> r.refs + c]
        /\ \A w \in ws : w \in vs \/ (w = v /\ c # 0)

\* A node that gains as many references as it has users more is right.
LEMMA NodeGains ==
  ASSUME NEW r, NEW H, NEW D, NEW vs, NEW A, NEW B, NEW v, NEW q, NEW ws,
         Gains(r, H, D, vs, A, B, v, q, ws)
  PROVE  Node(q, H \cup A, D \cup B, ws)
<1> DEFINE c == Cardinality(A) + Cardinality(B)
<1>1. /\ Node(r, H, D, vs) /\ v \in Nat
      /\ IsFiniteSet(A) /\ IsFiniteSet(B) /\ A \cap H = {} /\ B \cap D = {}
      /\ c # 0 => r.refs = 0 \/ r.hash = v
      /\ q = IF c = 0 THEN r ELSE [hash |-> v, refs |-> r.refs + c]
      /\ \A w \in ws : w \in vs \/ (w = v /\ c # 0)
  BY DEF Gains
<1>2. /\ IsFiniteSet(H \cup A) /\ IsFiniteSet(D \cup B)
      /\ Cardinality(H \cup A) = Cardinality(H) + Cardinality(A)
      /\ Cardinality(D \cup B) = Cardinality(D) + Cardinality(B)
      /\ Cardinality(H) \in Nat /\ Cardinality(A) \in Nat
      /\ Cardinality(D) \in Nat /\ Cardinality(B) \in Nat
  <2>1. H \cap A = {} /\ D \cap B = {}
    BY <1>1
  <2> QED
    BY <1>1, <2>1, DisjointUnion DEF Node
<1>3. r.refs = Cardinality(H) + Cardinality(D) /\ r \in [hash : Nat, refs : Nat]
  BY <1>1 DEF Node
<1>4. q \in [hash : Nat, refs : Nat] /\ q.refs = r.refs + c
  <2>1. c \in Nat /\ r.refs \in Nat /\ r.refs + c \in Nat /\ r.refs + 0 = r.refs
    BY <1>1, <1>2, <1>3
  <2>2. CASE c = 0
    BY <1>1, <1>3, <2>1, <2>2
  <2>3. CASE c # 0
    BY <1>1, <2>1, <2>3
  <2> QED
    BY <1>1, <2>2, <2>3
<1>5. q.refs = Cardinality(H \cup A) + Cardinality(D \cup B)
  BY <1>1, <1>2, <1>3, <1>4
<1>6. r.refs = 0 => vs = {}
  <2>1. H = {} <=> Cardinality(H) = 0
    BY <1>1, FS_EmptySet DEF Node
  <2>2. D = {} <=> Cardinality(D) = 0
    BY <1>1, FS_EmptySet DEF Node
  <2> QED
    BY <1>1, <1>2, <1>3, <2>1, <2>2 DEF Node
<1>7. \A w \in ws : q.hash = w
  <2>1. CASE c = 0
    BY <1>1, <2>1 DEF Node
  <2>2. CASE c # 0
    <3>1. q.hash = v
      BY <1>1, <2>2
    <3> QED
      BY <1>1, <1>6, <2>2, <3>1 DEF Node
  <2> QED
    BY <1>1, <2>1, <2>2
<1>8. ws # {} => H \cup A # {} \/ D \cup B # {}
  <2>1. CASE c # 0
    <3>1. A # {} \/ B # {}
      BY <1>1, <1>2, <2>1, FS_EmptySet
    <3> QED
      BY <1>1, <3>1
  <2>2. CASE c = 0
    BY <1>1, <2>2 DEF Node
  <2> QED
    BY <1>1, <2>1, <2>2
<1> QED
  BY <1>1, <1>2, <1>4, <1>5, <1>7, <1>8 DEF Node

\* References of types A and of activations B less.
Loses(r, H, D, vs, A, B, q, ws) ==
  /\ Node(r, H, D, vs) /\ A \subseteq H /\ B \subseteq D
  /\ LET c == Cardinality(A) + Cardinality(B)
     IN q = IF c = 0 THEN r ELSE IF c = r.refs THEN NoFile ELSE [r EXCEPT !.refs = @ - c]
  /\ ws \subseteq vs /\ (ws # {} => H \ A # {} \/ D \ B # {})

\* A node that loses as many as it has users less is right; the last takes it away.
LEMMA NodeLoses ==
  ASSUME NEW r, NEW H, NEW D, NEW vs, NEW A, NEW B, NEW q, NEW ws,
         Loses(r, H, D, vs, A, B, q, ws)
  PROVE  Node(q, H \ A, D \ B, ws)
<1> DEFINE c == Cardinality(A) + Cardinality(B)
<1>1. /\ Node(r, H, D, vs) /\ A \subseteq H /\ B \subseteq D
      /\ q = IF c = 0 THEN r ELSE IF c = r.refs THEN NoFile ELSE [r EXCEPT !.refs = @ - c]
      /\ ws \subseteq vs /\ (ws # {} => H \ A # {} \/ D \ B # {})
  BY DEF Loses
<1>2. /\ IsFiniteSet(H \ A) /\ IsFiniteSet(D \ B)
      /\ Cardinality(H \ A) = Cardinality(H) - Cardinality(A)
      /\ Cardinality(D \ B) = Cardinality(D) - Cardinality(B)
      /\ Cardinality(H) \in Nat /\ Cardinality(A) \in Nat /\ Cardinality(H \ A) \in Nat
      /\ Cardinality(D) \in Nat /\ Cardinality(B) \in Nat /\ Cardinality(D \ B) \in Nat
  BY <1>1, CardinalityLess DEF Node
<1>3. r.refs = Cardinality(H) + Cardinality(D) /\ r \in [hash : Nat, refs : Nat] /\ r.refs \in Nat
  BY <1>1 DEF Node
<1>4. c \in Nat /\ r.refs - c = Cardinality(H \ A) + Cardinality(D \ B) /\ r.refs - c \in Nat
  BY <1>1, <1>2, <1>3
<1>5. q \in [hash : Nat, refs : Nat] /\ q.refs = r.refs - c
  <2>1. CASE c = 0
    BY <1>1, <1>3, <1>4, <2>1
  <2>2. CASE c # 0 /\ c = r.refs
    BY <1>1, <1>4, <2>2 DEF NoFile
  <2>3. CASE c # 0 /\ c # r.refs
    BY <1>1, <1>3, <1>4, <2>3
  <2> QED
    BY <1>1, <2>1, <2>2, <2>3
<1>6. \A w \in ws : q.hash = w
  <2>1. CASE ws = {}
    BY <1>1, <2>1
  <2>2. CASE ws # {}
    <3>1. Cardinality(H \ A) # 0 \/ Cardinality(D \ B) # 0
      BY <1>1, <1>2, <2>2, FS_EmptySet
    <3>2. c # r.refs
      BY <1>1, <1>2, <1>4, <3>1
    <3>3. q.hash = r.hash
      BY <1>1, <1>3, <3>2
    <3> QED
      BY <1>1, <3>3 DEF Node
  <2> QED
    BY <1>1, <2>1, <2>2
<1> QED
  BY <1>1, <1>2, <1>4, <1>5, <1>6 DEF Node

-----------------------------------------------------------------------------
(* The nodes *)

\* Every node is right.
Right ==
  /\ files \in [Classes -> [hash : Nat, refs : Nat]]
  /\ \A n \in Classes : Node(files[n], Holders(n), Works(n), Wanted(n))

\* The version of a class file is a number.
LEMMA VersionTyped ==
  ASSUME LoadingAssumption, NEW l \in Loaders, NEW n \in Classes
  PROVE  Version[l][n] \in Nat
  BY DEF LoadingAssumption

\* A type that some loader defines.
LEMMA InAllTypes ==
  ASSUME NEW y
  PROVE  /\ y \in AllTypes(defined) <=> \E l \in Loaders : y \in defined[l]
         /\ y \in AllTypes(defined') <=> \E l \in Loaders : y \in defined'[l]
  BY DEF AllTypes

\* Which types hold a reference to a class file.
Uses(y, n) == y.n = n \/ (y.how = "elf" /\ n \in Deps(y.n))

\* Those of S that do.
UsersOf(S, n) == {y \in S : Uses(y, n)}

\* The holders among the types that a loader defines.
LEMMA HoldersAre ==
  ASSUME NEW y, NEW n
  PROVE  /\ y \in Holders(n) <=> Uses(y, n) /\ \E l \in Loaders : y \in defined[l]
         /\ y \in Holders(n)' <=> Uses(y, n) /\ \E l \in Loaders : y \in defined'[l]
  BY InAllTypes DEF Holders, OwnIn, DependentIn, Uses

\* Where the types are what they were, so are the holders.
LEMMA SameHolders ==
  ASSUME NEW n, \A y : Uses(y, n) =>
           ((\E l \in Loaders : y \in defined'[l]) <=> (\E l \in Loaders : y \in defined[l]))
  PROVE  Holders(n)' = Holders(n)
<1>1. \A y : y \in Holders(n)' <=> y \in Holders(n)
  BY HoldersAre
<1> QED
  BY <1>1

\* Which versions the users of a class file want.
LEMMA WantedAre ==
  ASSUME NEW n, NEW v
  PROVE  /\ v \in Wanted(n) <=> \/ \E y \in Holders(n) : v = Version[y.l][n]
                               \/ \E p \in Works(n) : v = Version[stack[p[1]][p[2]].l][n]
         /\ v \in Wanted(n)' <=> \/ \E y \in Holders(n)' : v = Version[y.l][n]
                                \/ \E p \in Works(n)' : v = Version[stack'[p[1]][p[2]].l][n]
  BY DEF Wanted

\* The activations and the types are what they were.
LEMMA SameRight ==
  ASSUME Right, SameWork, files' = files, \A n \in Classes : Holders(n)' = Holders(n)
  PROVE  Right'
<1> SUFFICES ASSUME NEW n \in Classes
             PROVE  Node(files'[n], Holders(n)', Works(n)', Wanted(n)')
  BY DEF Right
<1>1. Holders(n)' = Holders(n) /\ Works(n)' = Works(n) /\ files'[n] = files[n]
      /\ \A p \in Works(n) : stack'[p[1]][p[2]].l = stack[p[1]][p[2]].l
  BY SameWorks
<1>2. \A v : v \in Wanted(n)' <=> v \in Wanted(n)
  BY <1>1, WantedAre
<1>3. Wanted(n)' = Wanted(n)
  BY <1>2
<1> QED
  BY <1>1, <1>3 DEF Right, Node

\* Only the activation on top changes.
OnlyTop(t) ==
  \A u \in Threads : \A i : u # t \/ i # Len(stack[t]) =>
    /\ i \in DOMAIN stack'[u] <=> i \in DOMAIN stack[u]
    /\ i \in DOMAIN stack[u] => stack'[u][i] = stack[u][i]

\* One activation has the top of its thread's stack for a reference more, or less.
LEMMA WorksAlter ==
  ASSUME IInv, NEW t \in Threads, stack[t] # <<>>, NEW n, OnlyTop(t),
         NEW p, p = <<t, Len(stack[t])>>
  PROVE  /\ \A q : q # p => (q \in Works(n)' <=> q \in Works(n))
         /\ \A q \in Works(n) : q # p => stack'[q[1]][q[2]] = stack[q[1]][q[2]]
         /\ p \in Works(n) <=> Derives(Top(t)) /\ Top(t).n = n
         /\ p \in Works(n)' <=> /\ Len(stack[t]) \in DOMAIN stack'[t]
                                /\ Derives(stack'[t][Len(stack[t])])
                                /\ stack'[t][Len(stack[t])].n = n
<1>1. Len(stack[t]) \in DOMAIN stack[t] /\ Top(t) = stack[t][Len(stack[t])]
  BY EmptySeq, LenProperties DEF IInv, TypeOK, Top
<1>2. ASSUME NEW q, q # p
      PROVE  q \in Works(n)' <=> q \in Works(n)
  <2>1. ASSUME NEW u \in Threads, NEW i, q = <<u, i>>
        PROVE  /\ i \in DOMAIN stack'[u] <=> i \in DOMAIN stack[u]
               /\ i \in DOMAIN stack[u] => stack'[u][i] = stack[u][i]
    <3>1. u # t \/ i # Len(stack[t])
      BY <1>2, <2>1
    <3> QED
      BY <3>1 DEF OnlyTop
  <2>2. q \in Works(n)' => q \in Works(n)
    <3> SUFFICES ASSUME q \in Works(n)'
                 PROVE  q \in Works(n)
      OBVIOUS
    <3>1. PICK u \in Threads : \E i \in DOMAIN stack'[u] :
           q = <<u, i>> /\ Derives(stack'[u][i]) /\ stack'[u][i].n = n
      BY WorksWillBe
    <3>2. PICK i \in DOMAIN stack'[u] : q = <<u, i>> /\ Derives(stack'[u][i]) /\ stack'[u][i].n = n
      BY <3>1
    <3>3. i \in DOMAIN stack[u] /\ stack'[u][i] = stack[u][i]
      BY <2>1, <3>2
    <3> QED
      BY <3>2, <3>3, WorksAre
  <2>3. q \in Works(n) => q \in Works(n)'
    <3> SUFFICES ASSUME q \in Works(n)
                 PROVE  q \in Works(n)'
      OBVIOUS
    <3>1. PICK u \in Threads : \E i \in DOMAIN stack[u] :
           q = <<u, i>> /\ Derives(stack[u][i]) /\ stack[u][i].n = n
      BY WorksAre
    <3>2. PICK i \in DOMAIN stack[u] : q = <<u, i>> /\ Derives(stack[u][i]) /\ stack[u][i].n = n
      BY <3>1
    <3>3. i \in DOMAIN stack'[u] /\ stack'[u][i] = stack[u][i]
      BY <2>1, <3>2
    <3> QED
      BY <3>2, <3>3, WorksWillBe
  <2> QED
    BY <2>2, <2>3
<1>3. ASSUME NEW q \in Works(n), q # p
      PROVE  stack'[q[1]][q[2]] = stack[q[1]][q[2]]
  <2>1. PICK u \in Threads : \E i \in DOMAIN stack[u] : q = <<u, i>>
    BY <1>3, WorksAre
  <2>2. PICK i \in DOMAIN stack[u] : q = <<u, i>>
    BY <2>1
  <2>3. u # t \/ i # Len(stack[t])
    BY <1>3, <2>2
  <2> QED
    BY <2>2, <2>3 DEF OnlyTop
<1>4. p \in Works(n) <=> Derives(Top(t)) /\ Top(t).n = n
  BY <1>1, WorkIs
<1>5. p \in Works(n)' <=> /\ Len(stack[t]) \in DOMAIN stack'[t]
                         /\ Derives(stack'[t][Len(stack[t])])
                         /\ stack'[t][Len(stack[t])].n = n
  BY WorkWillBe
<1> QED
  BY <1>2, <1>3, <1>4, <1>5

\* derive_type_from_classfile() takes the reference that it gives back at its end.
LEMMA DeriveStartRight ==
  ASSUME LoadingAssumption, IInv, Right, NEW t \in Threads, DeriveStart(t)
  PROVE  Right'
<1>1. PICK h \in FrameType : /\ h = Top(t) /\ stack[t] # <<>> /\ h.fn = "derive" /\ h.pc = "start"
                             /\ h.n \in Classes /\ h.l \in Loaders
  BY TopTyped DEF DeriveStart, At, Fits
<1>2. defined' = defined /\ \A n : Holders(n)' = Holders(n)
  <2>1. defined' = defined
    BY DEF DeriveStart, trees
  <2> QED
    BY <2>1, SameHolders
<1>3. CASE Return(t, None) /\ UNCHANGED files
  <2>1. Moves(t)
    BY <1>1, <1>3, ByReturning DEF Derives
  <2> QED
    BY <1>2, <1>3, <2>1, MovesWork, SameRight
<1>4. ASSUME Matches(files, h.n, Version[h.l][h.n]),
             files' = Ref(files, h.n, Version[h.l][h.n]),
             Continue(t, [h EXCEPT !.pc = "enter"])
      PROVE  Right'
  <2> DEFINE f == [h EXCEPT !.pc = "enter"]
  <2>1. f \in FrameType /\ Derives(f) /\ f.n = h.n /\ f.l = h.l
    BY <1>1 DEF FrameType, Derives
  <2>2. stack' = Goto(t, f)
    BY <1>4 DEF Continue
  <2> HIDE DEF f
  <2>3. /\ Len(stack[t]) \in DOMAIN stack[t] /\ Top(t) = stack[t][Len(stack[t])]
        /\ \A u \in Threads : DOMAIN stack'[u] = DOMAIN stack[u]
        /\ \A u \in Threads : \A i \in DOMAIN stack[u] :
              stack'[u][i] = IF u = t /\ i = Len(stack[t]) THEN f ELSE stack[u][i]
    BY <1>1, <2>1, <2>2, OnTop
  <2>4. PICK p : p = <<t, Len(stack[t])>>
    OBVIOUS
  <2>5. PICK v : v = Version[h.l][h.n]
    OBVIOUS
  <2>6. \A n : /\ \A q : q # p => (q \in Works(n)' <=> q \in Works(n))
               /\ \A q \in Works(n) : q # p => stack'[q[1]][q[2]] = stack[q[1]][q[2]]
               /\ p \notin Works(n)
               /\ p \in Works(n)' <=> n = h.n
    <3> TAKE n
    <3>1. OnlyTop(t)
      BY <2>3 DEF OnlyTop
    <3>2. stack'[t][Len(stack[t])] = f /\ Len(stack[t]) \in DOMAIN stack'[t] /\ ~Derives(Top(t))
      BY <1>1, <2>3 DEF Derives
    <3> QED
      <4>1. /\ \A q : q # p => (q \in Works(n)' <=> q \in Works(n))
            /\ \A q \in Works(n) : q # p => stack'[q[1]][q[2]] = stack[q[1]][q[2]]
            /\ p \in Works(n) <=> Derives(Top(t)) /\ Top(t).n = n
            /\ p \in Works(n)' <=> /\ Len(stack[t]) \in DOMAIN stack'[t]
                                   /\ Derives(stack'[t][Len(stack[t])])
                                   /\ stack'[t][Len(stack[t])].n = n
        BY <1>1, <2>4, <3>1, WorksAlter
      <4> QED
        BY <2>1, <3>2, <4>1
  <2>7. stack'[p[1]][p[2]].l = h.l
    BY <2>1, <2>3, <2>4
  <2>8. v \in Nat
    BY <1>1, <2>5, VersionTyped
  <2>9. ASSUME NEW n \in Classes
        PROVE  Node(files'[n], Holders(n)', Works(n)', Wanted(n)')
    <3>1. PICK B : B = IF n = h.n THEN {p} ELSE {}
      OBVIOUS
    <3>2. PICK c : c = IF n = h.n THEN 1 ELSE 0
      OBVIOUS
    <3>3. IsFiniteSet(B) /\ c = Cardinality({}) + Cardinality(B) /\ IsFiniteSet({})
      <4>1. Cardinality({}) = 0 /\ IsFiniteSet({}) /\ IsFiniteSet({p}) /\ Cardinality({p}) = 1
        BY FS_EmptySet, FS_Singleton
      <4>2. 1 = 0 + 1 /\ 0 = 0 + 0
        OBVIOUS
      <4> QED
        BY <3>1, <3>2, <4>1, <4>2
    <3>4. Works(n)' = Works(n) \cup B /\ B \cap Works(n) = {}
      BY <2>6, <3>1
    <3>5. \A w \in Wanted(n)' : w \in Wanted(n) \/ (w = v /\ c # 0)
      <4> SUFFICES ASSUME NEW w \in Wanted(n)'
                   PROVE  w \in Wanted(n) \/ (w = v /\ c # 0)
        OBVIOUS
      <4>1. CASE \E y \in Holders(n)' : w = Version[y.l][n]
        BY <1>2, <4>1, WantedAre
      <4>2. CASE \E q \in Works(n)' : w = Version[stack'[q[1]][q[2]].l][n]
        <5>1. PICK q \in Works(n)' : w = Version[stack'[q[1]][q[2]].l][n]
          BY <4>2
        <5>2. CASE q = p
          <6>1. p \in Works(n)' <=> n = h.n
            BY <2>6
          <6>2. n = h.n
            BY <5>1, <5>2, <6>1
          <6>3. w = Version[h.l][n]
            BY <2>7, <5>1, <5>2
          <6> QED
            BY <2>5, <3>2, <6>2, <6>3
        <5>3. CASE q # p
          <6>1. q \in Works(n)
            <7>1. \A r : r # p => (r \in Works(n)' <=> r \in Works(n))
              BY <2>6
            <7> QED
              BY <5>1, <5>3, <7>1
          <6>2. stack'[q[1]][q[2]] = stack[q[1]][q[2]]
            BY <2>6, <5>3, <6>1
          <6>3. w = Version[stack[q[1]][q[2]].l][n]
            BY <5>1, <6>2
          <6> QED
            BY <6>1, <6>3, WantedAre
        <5> QED
          BY <5>2, <5>3
      <4> QED
        BY <4>1, <4>2, WantedAre
    <3>6. files'[n] = IF c = 0 THEN files[n] ELSE [hash |-> v, refs |-> files[n].refs + c]
      BY <1>4, <2>5, <3>2 DEF Ref, Right, Node
    <3>7. c # 0 => files[n].refs = 0 \/ files[n].hash = v
      BY <1>4, <2>5, <3>2 DEF Matches
    <3>8. Node(files[n], Holders(n), Works(n), Wanted(n))
      BY DEF Right
    <3>9. Node(files'[n], Holders(n) \cup {}, Works(n) \cup B, Wanted(n)')
      <4>1. {} \cap Holders(n) = {}
        OBVIOUS
      <4>2. Gains(files[n], Holders(n), Works(n), Wanted(n), {}, B, v, files'[n], Wanted(n)')
        BY <2>8, <3>3, <3>4, <3>5, <3>6, <3>7, <3>8, <4>1 DEF Gains
      <4> QED
        BY <4>2, NodeGains
    <3>10. Holders(n)' = Holders(n) \cup {}
      BY <1>2
    <3> QED
      BY <3>4, <3>9, <3>10
  <2>10. files' \in [Classes -> [hash : Nat, refs : Nat]]
    BY <1>1, <1>4, <2>8, <2>5 DEF Ref, Right
  <2> QED
    BY <2>9, <2>10 DEF Right
<1> QED
  BY <1>1, <1>3, <1>4 DEF DeriveStart

\* And gives it back there, whether a type came of it or none.
LEMMA DeriveUnrefRight ==
  ASSUME LoadingAssumption, IInv, Right, NEW t \in Threads, DeriveUnref(t)
  PROVE  Right'
<1>1. PICK h \in FrameType : /\ h = Top(t) /\ stack[t] # <<>> /\ h.fn = "derive" /\ h.pc = "unref"
                             /\ h.n \in Classes /\ h.l \in Loaders
  BY TopTyped DEF DeriveUnref, At, Fits
<1>2. /\ files' = Unref(files, {h.n}) /\ stack' = Returned(t)
      /\ \A n : Holders(n)' = Holders(n)
  <2>1. defined' = defined /\ files' = Unref(files, {h.n}) /\ stack' = Returned(t)
    BY <1>1 DEF DeriveUnref, trees, Return
  <2> QED
    BY <2>1, SameHolders
<1>3. OnlyTop(t) /\ Len(stack[t]) \notin DOMAIN stack'[t]
  <2>1. stack \in [Threads -> Seq(FrameType)]
    BY DEF IInv, TypeOK
  <2>2. /\ stack' \in [Threads -> Seq(FrameType)]
        /\ Len(stack[t]) \in Nat /\ Len(stack[t]) > 0
        /\ Len(stack'[t]) = Len(stack[t]) - 1
        /\ \A u \in Threads \ {t} : stack'[u] = stack[u]
        /\ \A i \in 1 .. Len(stack[t]) - 1 : stack'[t][i] = stack[t][i]
    BY <1>1, <1>2, <2>1, OnReturned
  <2>3. DOMAIN stack[t] = 1 .. Len(stack[t]) /\ DOMAIN stack'[t] = 1 .. Len(stack'[t])
    BY <2>1, <2>2, LenProperties
  <2>4. Len(stack[t]) \notin DOMAIN stack'[t]
    BY <2>2, <2>3
  <2>5. \A i : i # Len(stack[t]) =>
           /\ i \in DOMAIN stack'[t] <=> i \in DOMAIN stack[t]
           /\ i \in DOMAIN stack[t] => stack'[t][i] = stack[t][i]
    <3>1. PICK k \in Nat : k = Len(stack[t]) /\ k > 0
      BY <2>2
    <3>2. DOMAIN stack[t] = 1 .. k /\ DOMAIN stack'[t] = 1 .. k - 1 /\ \A i \in 1 .. k - 1 : stack'[t][i] = stack[t][i]
      BY <2>2, <2>3, <3>1
    <3>3. \A i : i # k => (i \in 1 .. k - 1 <=> i \in 1 .. k)
      BY <3>1
    <3> QED
      BY <3>1, <3>2, <3>3
  <2> QED
    BY <2>2, <2>4, <2>5 DEF OnlyTop
<1>4. PICK p : p = <<t, Len(stack[t])>>
  OBVIOUS
<1>5. ASSUME NEW n
      PROVE  /\ \A q : q # p => (q \in Works(n)' <=> q \in Works(n))
             /\ \A q \in Works(n) : q # p => stack'[q[1]][q[2]] = stack[q[1]][q[2]]
             /\ p \notin Works(n)'
             /\ p \in Works(n) <=> n = h.n
  <2>1. /\ \A q : q # p => (q \in Works(n)' <=> q \in Works(n))
        /\ \A q \in Works(n) : q # p => stack'[q[1]][q[2]] = stack[q[1]][q[2]]
        /\ p \in Works(n) <=> Derives(Top(t)) /\ Top(t).n = n
        /\ p \in Works(n)' <=> /\ Len(stack[t]) \in DOMAIN stack'[t]
                               /\ Derives(stack'[t][Len(stack[t])])
                               /\ stack'[t][Len(stack[t])].n = n
    BY <1>1, <1>3, <1>4, WorksAlter
  <2>2. Derives(Top(t))
    BY <1>1 DEF Derives
  <2> QED
    BY <1>1, <1>3, <2>1, <2>2
<1>6. ASSUME NEW n \in Classes
      PROVE  Node(files'[n], Holders(n)', Works(n)', Wanted(n)')
  <2>1. PICK B : B = IF n = h.n THEN {p} ELSE {}
    OBVIOUS
  <2>2. B \subseteq Works(n) /\ Works(n)' = Works(n) \ B
    BY <1>5, <2>1
  <2>3. \A w \in Wanted(n)' : w \in Wanted(n)
    <3> SUFFICES ASSUME NEW w \in Wanted(n)'
                 PROVE  w \in Wanted(n)
      OBVIOUS
    <3>1. CASE \E y \in Holders(n)' : w = Version[y.l][n]
      BY <1>2, <3>1, WantedAre
    <3>2. CASE \E q \in Works(n)' : w = Version[stack'[q[1]][q[2]].l][n]
      <4>1. PICK q \in Works(n)' : w = Version[stack'[q[1]][q[2]].l][n]
        BY <3>2
      <4>2. q \in Works(n) /\ q # p
        BY <2>1, <2>2, <1>5, <4>1
      <4>3. stack'[q[1]][q[2]] = stack[q[1]][q[2]]
        BY <1>5, <4>2
      <4> QED
        BY <4>1, <4>2, <4>3, WantedAre
    <3> QED
      BY <3>1, <3>2, WantedAre
  <2>4. Wanted(n)' # {} => Holders(n) \ {} # {} \/ Works(n) \ B # {}
    <3>1. ASSUME Wanted(n)' # {}
          PROVE  Holders(n)' # {} \/ Works(n)' # {}
      <4>1. PICK w : w \in Wanted(n)'
        BY <3>1
      <4> QED
        BY <4>1, WantedAre
    <3> QED
      BY <1>2, <2>2, <3>1
  <2>5. Cardinality({}) + Cardinality(B) = IF n = h.n THEN 1 ELSE 0
    <3>1. Cardinality({}) = 0 /\ Cardinality({p}) = 1
      BY FS_EmptySet, FS_Singleton
    <3>2. 1 = 0 + 1 /\ 0 = 0 + 0
      OBVIOUS
    <3> QED
      BY <2>1, <3>1, <3>2
  <2>6. files'[n] = IF n = h.n THEN IF files[n].refs = 1 THEN NoFile ELSE [files[n] EXCEPT !.refs = @ - 1]
                               ELSE files[n]
    BY <1>2 DEF Unref
  <2>7. Node(files[n], Holders(n), Works(n), Wanted(n))
    BY DEF Right
  <2>8. Loses(files[n], Holders(n), Works(n), Wanted(n), {}, B, files'[n], Wanted(n)')
    <3>1. LET c == Cardinality({}) + Cardinality(B)
          IN files'[n] = IF c = 0 THEN files[n] ELSE IF c = files[n].refs THEN NoFile
                         ELSE [files[n] EXCEPT !.refs = @ - c]
      <4>1. PICK c : c = Cardinality({}) + Cardinality(B) /\ c = IF n = h.n THEN 1 ELSE 0
        BY <2>5
      <4>2. files'[n] = IF c = 0 THEN files[n] ELSE IF c = files[n].refs THEN NoFile
                        ELSE [files[n] EXCEPT !.refs = @ - c]
        <5>1. CASE n = h.n
          <6>1. c = 1 /\ c # 0
            BY <4>1, <5>1
          <6> QED
            BY <2>6, <5>1, <6>1
        <5>2. CASE n # h.n
          BY <2>6, <4>1, <5>2
        <5> QED
          BY <5>1, <5>2
      <4> QED
        BY <4>1, <4>2
    <3>2. Wanted(n)' \subseteq Wanted(n) /\ {} \subseteq Holders(n)
      BY <2>3
    <3> QED
      BY <2>2, <2>4, <2>7, <3>1, <3>2 DEF Loses
  <2>9. Node(files'[n], Holders(n) \ {}, Works(n) \ B, Wanted(n)')
    BY <2>8, NodeLoses
  <2>10. Holders(n)' = Holders(n) \ {}
    BY <1>2
  <2> QED
    BY <2>2, <2>9, <2>10
<1>7. files' \in [Classes -> [hash : Nat, refs : Nat]]
  <2>1. \A n \in Classes : files'[n] \in [hash : Nat, refs : Nat]
    BY <1>6 DEF Node
  <2> QED
    BY <1>2, <2>1 DEF Unref
<1> QED
  BY <1>6, <1>7 DEF Right

-----------------------------------------------------------------------------
(* The steps that add types *)

\* A loader that defines more types has the holders among them more.
LEMMA MoreHolders ==
  ASSUME IInv, NEW l \in Loaders, NEW S, defined' = [defined EXCEPT ![l] = @ \cup S], NEW n
  PROVE  Holders(n)' = Holders(n) \cup UsersOf(S, n)
<1>1. \A m \in Loaders : defined'[m] = IF m = l THEN defined[l] \cup S ELSE defined[m]
  BY DEF IInv, TypeOK
<1>2. \A y : y \in Holders(n)' <=> y \in Holders(n) \/ (y \in S /\ Uses(y, n))
  BY <1>1, HoldersAre
<1> QED
  BY <1>2 DEF UsersOf

\* A node gets a reference for each type that uses it, of those a loader defines.
GainsTypes(n, l, A, c) ==
  /\ IsFiniteSet(A) /\ c = Cardinality(A) /\ A \cap Holders(n) = {}
  /\ c # 0 => files[n].refs = 0 \/ files[n].hash = Version[l][n]
  /\ files'[n] = IF c = 0 THEN files[n] ELSE [hash |-> Version[l][n], refs |-> files[n].refs + c]

\* Such a node is right.
LEMMA TypesGain ==
  ASSUME LoadingAssumption, IInv, Right, SameWork, NEW l \in Loaders, NEW S,
         defined' = [defined EXCEPT ![l] = @ \cup S], \A y \in S : y.l = l, NEW n \in Classes,
         NEW c, GainsTypes(n, l, UsersOf(S, n), c)
  PROVE  Node(files'[n], Holders(n)', Works(n)', Wanted(n)')
<1> DEFINE A == UsersOf(S, n)
<1>1. /\ IsFiniteSet(A) /\ c = Cardinality(A) /\ A \cap Holders(n) = {}
      /\ c # 0 => files[n].refs = 0 \/ files[n].hash = Version[l][n]
      /\ files'[n] = IF c = 0 THEN files[n] ELSE [hash |-> Version[l][n], refs |-> files[n].refs + c]
  BY DEF GainsTypes
<1>2. A = UsersOf(S, n)
  OBVIOUS
<1> HIDE DEF A
<1>3. /\ Works(n)' = Works(n) \cup {} /\ Holders(n)' = Holders(n) \cup A
      /\ \A p \in Works(n) : stack'[p[1]][p[2]].l = stack[p[1]][p[2]].l
  BY <1>2, SameWorks, MoreHolders
<1>4. A \subseteq S
  BY <1>2 DEF UsersOf
<1>5. c = Cardinality(A) + Cardinality({}) /\ IsFiniteSet({}) /\ {} \cap Works(n) = {}
  <2>1. Cardinality(A) \in Nat /\ Cardinality({}) = 0 /\ IsFiniteSet({})
    BY <1>1, FS_CardinalityType, FS_EmptySet
  <2> QED
    BY <1>1, <2>1
<1>6. \A w \in Wanted(n)' : w \in Wanted(n) \/ (w = Version[l][n] /\ c # 0)
  <2> SUFFICES ASSUME NEW w \in Wanted(n)'
               PROVE  w \in Wanted(n) \/ (w = Version[l][n] /\ c # 0)
    OBVIOUS
  <2>1. CASE \E y \in Holders(n)' : w = Version[y.l][n]
    <3>1. PICK y \in Holders(n)' : w = Version[y.l][n]
      BY <2>1
    <3>2. CASE y \in Holders(n)
      BY <3>1, <3>2, WantedAre
    <3>3. CASE y \in A
      <4>1. A # {} /\ c # 0
        BY <1>1, <3>3, FS_EmptySet
      <4> QED
        BY <1>4, <3>1, <3>3, <4>1
    <3> QED
      BY <1>3, <3>2, <3>3
  <2>2. CASE \E p \in Works(n)' : w = Version[stack'[p[1]][p[2]].l][n]
    BY <1>3, <2>2, WantedAre
  <2> QED
    BY <2>1, <2>2, WantedAre
<1>7. Version[l][n] \in Nat
  BY VersionTyped
<1>8. Node(files[n], Holders(n), Works(n), Wanted(n))
  BY DEF Right
<1>9. Gains(files[n], Holders(n), Works(n), Wanted(n), A, {}, Version[l][n], files'[n], Wanted(n)')
  BY <1>5, <1>6, <1>7, <1>8, <1>1 DEF Gains
<1>10. Node(files'[n], Holders(n) \cup A, Works(n) \cup {}, Wanted(n)')
  BY <1>9, NodeGains
<1> QED
  BY <1>3, <1>10

\* An array type has no class file.
LEMMA ArrayMakeRight ==
  ASSUME LoadingAssumption, IInv, Right, NEW t \in Threads, ArrayMake(t)
  PROVE  Right'
<1>1. PICK h \in FrameType : /\ h = Top(t) /\ stack[t] # <<>> /\ h.fn = "array"
                             /\ h.n \in Arrays /\ h.l \in Loaders
  BY TopTyped DEF ArrayMake, At, Fits
<1>2. files' = files /\ \E y : Return(t, y)
  BY DEF ArrayMake
<1>3. SameWork
  BY <1>1, <1>2, ByReturning, MovesWork DEF Derives
<1>4. PICK new : new = [l |-> h.l, n |-> h.n, how |-> "array", by |-> t]
  OBVIOUS
<1>5. defined' = defined \/ defined' = [defined EXCEPT ![h.l] = @ \cup {new}]
  BY <1>1, <1>4 DEF ArrayMake
<1>6. ASSUME NEW n \in Classes
      PROVE  Holders(n)' = Holders(n)
  <2>1. CASE defined' = defined
    BY <2>1, SameHolders
  <2>2. CASE defined' = [defined EXCEPT ![h.l] = @ \cup {new}]
    <3>1. new.n = h.n /\ new.how = "array"
      BY <1>4
    <3>2. new.n # n
      BY <1>1, <3>1 DEF Classes
    <3>3. ~Uses(new, n)
      BY <3>1, <3>2 DEF Uses
    <3>4. Holders(n)' = Holders(n) \cup UsersOf({new}, n)
      BY <1>1, <2>2, MoreHolders
    <3> QED
      BY <3>3, <3>4 DEF UsersOf
  <2> QED
    BY <1>5, <2>1, <2>2
<1> QED
  BY <1>2, <1>3, <1>6, SameRight

\* derive_type_interp()
LEMMA DeriveInterpRight ==
  ASSUME LoadingAssumption, IInv, Right, NEW t \in Threads, DeriveInterp(t)
  PROVE  Right'
<1>1. PICK h \in FrameType : /\ h = Top(t) /\ stack[t] # <<>> /\ Fits(h) /\ h.fn = "derive" /\ h.pc = "interp"
                             /\ h.n \in Classes /\ h.l \in Loaders /\ Interprets(h.l)
  BY TopTyped DEF DeriveInterp, At, Fits
<1>2. PICK new : new = [l |-> h.l, n |-> h.n, how |-> "interp", by |-> t]
  OBVIOUS
<1>3. PICK v : v = Version[h.l][h.n]
  OBVIOUS
<1> DEFINE f == [h EXCEPT !.pc = "leave", !.got = new]
           g == [h EXCEPT !.pc = "leave"]
<1>4. /\ new \in Types /\ new.l = h.l /\ new.n = h.n /\ new.how = "interp"
      /\ \A n : Uses(new, n) <=> n = h.n
  BY <1>1, <1>2 DEF Types, Uses, Classes
<1>5. f \in FrameType /\ g \in FrameType /\ Same(f, Top(t)) /\ Same(g, Top(t))
  BY <1>1, <1>4 DEF FrameType, Same
<1>6. \/ /\ Matches(files, h.n, v) /\ files' = Ref(files, h.n, v)
         /\ defined' = [defined EXCEPT ![h.l] = @ \cup {new}] /\ Continue(t, f)
      \/ Continue(t, g) /\ UNCHANGED <<files, initiated, defined>>
  BY <1>1, <1>2, <1>3 DEF DeriveInterp
<1> HIDE DEF f, g
<1>7. SameWork
  BY <1>1, <1>5, <1>6, ByMoving, MovesWork
<1>8. CASE UNCHANGED <<files, initiated, defined>>
  <2>1. \A n : Holders(n)' = Holders(n)
    BY <1>8, SameHolders
  <2> QED
    BY <1>7, <1>8, <2>1, SameRight
<1>9. ASSUME Matches(files, h.n, v), files' = Ref(files, h.n, v),
             defined' = [defined EXCEPT ![h.l] = @ \cup {new}]
      PROVE  Right'
  <2>1. \A l \in Loaders : new \notin defined[l]
    <3>1. Named(initiated[h.l], h.n) = {}
      <4>1. Len(stack[t]) \in DOMAIN stack[t] /\ stack[t][Len(stack[t])] = h
        BY <1>1, EmptySeq, LenProperties DEF IInv, TypeOK, Top
      <4>2. Open(t, Len(stack[t]))
        BY <1>1, <4>1 DEF Open, Opens
      <4> QED
        BY <4>1, <4>2, OpensAre
    <3>2. \A l \in Loaders : new \in defined[l] => l = h.l /\ new \in initiated[l]
      BY <1>4 DEF IInv, Trees
    <3> QED
      BY <1>4, <3>1, <3>2 DEF Named
  <2>2. ASSUME NEW n \in Classes
        PROVE  Node(files'[n], Holders(n)', Works(n)', Wanted(n)')
    <3>1. PICK A : A = UsersOf({new}, n)
      OBVIOUS
    <3>2. A = IF n = h.n THEN {new} ELSE {}
      BY <1>4, <3>1 DEF UsersOf
    <3>3. PICK c : c = IF n = h.n THEN 1 ELSE 0
      OBVIOUS
    <3>4. IsFiniteSet(A) /\ c = Cardinality(A)
      BY <3>2, <3>3, FS_EmptySet, FS_Singleton
    <3>5. A \cap Holders(n) = {}
      <4>1. new \notin Holders(n)
        BY <2>1, HoldersAre
      <4> QED
        BY <3>2, <4>1
    <3>6. c # 0 => files[n].refs = 0 \/ files[n].hash = Version[h.l][n]
      BY <1>3, <1>9, <3>3 DEF Matches
    <3>7. files'[n] = IF c = 0 THEN files[n] ELSE [hash |-> Version[h.l][n], refs |-> files[n].refs + c]
      BY <1>3, <1>9, <3>3 DEF Ref, Right
    <3>8. \A y \in {new} : y.l = h.l
      BY <1>4
    <3>9. GainsTypes(n, h.l, UsersOf({new}, n), c)
      BY <3>1, <3>4, <3>5, <3>6, <3>7 DEF GainsTypes
    <3> QED
      BY <1>1, <1>7, <1>9, <3>8, <3>9, TypesGain
  <2>3. files' \in [Classes -> [hash : Nat, refs : Nat]]
    <3>1. v \in Nat
      BY <1>1, <1>3, VersionTyped
    <3> QED
      BY <1>1, <1>9, <3>1 DEF Ref, Right
  <2> QED
    BY <2>2, <2>3 DEF Right
<1> QED
  BY <1>6, <1>8, <1>9

\* The least of a set of numbers.
LEMMA LeastOf ==
  ASSUME NEW S \in SUBSET Nat, S # {} PROVE \E m \in S : \A k \in S : m <= k
<1>1. PICK m \in S : \A k \in S : ~(<<k, m>> \in OpToRel(<, Nat))
  BY WFMin, NatLessThanWellFounded
<1>2. \A k \in S : ~(k < m)
  BY <1>1 DEF OpToRel
<1> QED
  BY <1>2

\* The types of an object, and those of them that use a class file.
ElfType(l, c, t) == [l |-> l, n |-> c, how |-> "elf", by |-> t]
ElfTypes(l, ns, k, t) == {ElfType(l, ns[i], t) : i \in 1 .. k}

\* What such a type is made of.
LEMMA ElfTypeIs ==
  ASSUME NEW l, NEW c, NEW t
  PROVE  /\ ElfType(l, c, t).l = l /\ ElfType(l, c, t).n = c /\ ElfType(l, c, t).how = "elf"
         /\ \A n : Uses(ElfType(l, c, t), n) <=> n \in {c} \cup Deps(c)
  BY DEF ElfType, Uses

\* Which types those are.
LEMMA ElfTypesAre ==
  ASSUME NEW l, NEW ns, NEW k, NEW t, NEW y
  PROVE  y \in ElfTypes(l, ns, k, t) <=> \E i \in 1 .. k : y = ElfType(l, ns[i], t)
  BY DEF ElfTypes

\* The types of an object that use a class file are as many as the places in the object
\* that do, for they are distinct.
LEMMA CountsAlike ==
  ASSUME NEW l, NEW ns, NEW k \in Nat, NEW t, NEW n, \A i, j \in 1 .. k : ns[i] = ns[j] => i = j
  PROVE  /\ IsFiniteSet(Users(ns, k, n)) /\ IsFiniteSet(UsersOf(ElfTypes(l, ns, k, t), n))
         /\ Cardinality(UsersOf(ElfTypes(l, ns, k, t), n)) = Cardinality(Users(ns, k, n))
<1> DEFINE U == Users(ns, k, n)
           T == UsersOf(ElfTypes(l, ns, k, t), n)
           f == [i \in U |-> ElfType(l, ns[i], t)]
<1>1. \A i : i \in U <=> i \in 1 .. k /\ n \in {ns[i]} \cup Deps(ns[i])
  BY DEF Users
<1>2. \A y : y \in T <=> Uses(y, n) /\ \E i \in 1 .. k : y = ElfType(l, ns[i], t)
  BY ElfTypesAre DEF UsersOf
<1>3. IsFiniteSet(U)
  <2>1. IsFiniteSet(1 .. k)
    BY FS_Interval
  <2>2. U \subseteq 1 .. k
    BY <1>1
  <2> QED
    BY <2>1, <2>2, FS_Subset
<1> HIDE DEF U, T
<1>4. ASSUME NEW i \in U
      PROVE  f[i] \in T
  BY <1>1, <1>2, ElfTypeIs
<1>5. ASSUME NEW y \in T
      PROVE  \E i \in U : f[i] = y
  <2>1. PICK i \in 1 .. k : y = ElfType(l, ns[i], t)
    BY <1>2
  <2>2. n \in {ns[i]} \cup Deps(ns[i])
    BY <1>2, <2>1, ElfTypeIs
  <2> QED
    BY <1>1, <2>1, <2>2
<1>6. ASSUME NEW i \in U, NEW j \in U, f[i] = f[j]
      PROVE  i = j
  <2>1. ElfType(l, ns[i], t).n = ElfType(l, ns[j], t).n
    BY <1>6
  <2>2. ns[i] = ns[j]
    BY <2>1, ElfTypeIs
  <2> QED
    BY <1>1, <2>2
<1>7. f \in [U -> T]
  BY <1>4
<1> HIDE DEF f
<1>8. f \in Surjection(U, T) /\ f \in Injection(U, T)
  <2>1. f \in Surjection(U, T)
    BY <1>5, <1>7 DEF Surjection
  <2>2. f \in Injection(U, T)
    BY <1>6, <1>7 DEF Injection, IsInjective
  <2> QED
    BY <2>1, <2>2
<1>9. IsFiniteSet(T) /\ Cardinality(T) = Cardinality(U)
  BY <1>3, <1>8, FS_Surjection
<1> QED
  BY <1>3, <1>9 DEF U, T

\* The first k types of an object find the class files they need.
CanDeriveAll(l, ns, k) == \A j \in 1 .. k : CanDerive(l, ns, j)

\* The first type of an object that needs a class file finds the one that is there.
LEMMA DerivesAlike ==
  ASSUME NEW l, NEW ns, NEW k \in Nat, CanDeriveAll(l, ns, k),
         NEW n \in Classes, Users(ns, k, n) # {}
  PROVE  files[n].refs = 0 \/ files[n].hash = Version[l][n]
<1>1. \A m : \A i : i \in Users(ns, m, n) <=> i \in 1 .. m /\ n \in {ns[i]} \cup Deps(ns[i])
  BY DEF Users
<1>2. PICK m \in Users(ns, k, n) : \A i \in Users(ns, k, n) : m <= i
  <2>1. Users(ns, k, n) \in SUBSET Nat
    BY <1>1
  <2> QED
    BY <2>1, LeastOf
<1>3. m \in 1 .. k /\ n \in {ns[m]} \cup Deps(ns[m])
  BY <1>1, <1>2
<1>4. Users(ns, m - 1, n) = {}
  <2> SUFFICES ASSUME NEW i \in Users(ns, m - 1, n)
               PROVE  FALSE
    OBVIOUS
  <2>1. i \in 1 .. m - 1 /\ n \in {ns[i]} \cup Deps(ns[i])
    BY <1>1
  <2>2. i \in 1 .. k /\ ~(m <= i)
    BY <1>3, <2>1
  <2>3. i \in Users(ns, k, n)
    BY <1>1, <2>1, <2>2
  <2> QED
    BY <1>2, <2>2, <2>3
<1>5. Refs(l, ns, m - 1)[n] = files[n]
  BY <1>4 DEF Refs
<1>6. Matches(Refs(l, ns, m - 1), n, Version[l][n])
  BY <1>3 DEF CanDerive, CanDeriveAll
<1> QED
  BY <1>5, <1>6 DEF Matches

\* derive_types_from_object()
LEMMA ObjectDeriveRight ==
  ASSUME LoadingAssumption, IInv, Right, NEW t \in Threads, ObjectDerive(t)
  PROVE  Right'
<1>1. PICK h \in FrameType : /\ h = Top(t) /\ stack[t] # <<>> /\ h.fn = "object"
                             /\ h.n \in Classes /\ h.l \in Loaders
  BY TopTyped DEF ObjectDerive, At, Fits
<1>2. PICK ns : ns = TypesIn(h)
  OBVIOUS
<1>3. ns \in Seq(Classes) /\ \A i, j \in DOMAIN ns : ns[i] = ns[j] => i = j
  <2>1. CASE h.own
    <3>1. ns = <<h.n>> /\ DOMAIN <<h.n>> = {1}
      BY <1>2, <2>1 DEF TypesIn
    <3> QED
      BY <1>1, <3>1
  <2>2. CASE ~h.own
    <3>1. ns = ObjectFiles[h.n]
      BY <1>2, <2>2 DEF TypesIn
    <3> QED
      BY <1>1, <3>1 DEF LoadingAssumption
  <2> QED
    BY <2>1, <2>2
<1>4. DOMAIN ns = 1 .. Len(ns) /\ Len(ns) \in Nat
  BY <1>3, LenProperties
<1> DEFINE put(k) == /\ files' = Refs(h.l, ns, k)
                     /\ defined' = [defined EXCEPT ![h.l] = @ \cup ElfTypes(h.l, ns, k, t)]
<1>5. \/ UNCHANGED <<files, defined>>
      \/ /\ \A i \in DOMAIN ns : Named(defined[h.l], ns[i]) = {}
         /\ \E k \in 0 .. Len(ns) : put(k) /\ \A j \in 1 .. k : CanDerive(h.l, ns, j)
  <2> DEFINE Elf(k) == {[l |-> Top(t).l, n |-> TypesIn(Top(t))[i], how |-> "elf", by |-> t] : i \in 1 .. k}
             given(k) == /\ files' = Refs(Top(t).l, TypesIn(Top(t)), k)
                         /\ initiated' = [initiated EXCEPT ![Top(t).l] = @ \cup Elf(k)]
                         /\ defined' = [defined EXCEPT ![Top(t).l] = @ \cup Elf(k)]
  <2>1. \/ UNCHANGED <<files, initiated, defined>>
        \/ /\ \A i \in DOMAIN TypesIn(Top(t)) : Named(defined[Top(t).l], TypesIn(Top(t))[i]) = {}
           /\ \/ /\ \A k \in DOMAIN TypesIn(Top(t)) : CanDerive(Top(t).l, TypesIn(Top(t)), k)
                 /\ given(Len(TypesIn(Top(t))))
              \/ \E k \in DOMAIN TypesIn(Top(t)) :
                   /\ \A j \in 1 .. k - 1 : CanDerive(Top(t).l, TypesIn(Top(t)), j)
                   /\ given(IF k > 1 THEN 1 ELSE 0)
    BY Zenon DEF ObjectDerive
  <2>2. \A k : given(k) => put(k)
    BY <1>1, <1>2 DEF ElfTypes, ElfType
  <2> HIDE DEF Elf, given, put
  <2>3. CASE UNCHANGED <<files, initiated, defined>>
    BY <2>3
  <2>4. ASSUME \A k \in DOMAIN ns : CanDerive(h.l, ns, k), given(Len(ns))
        PROVE  \E k \in 0 .. Len(ns) : put(k) /\ \A j \in 1 .. k : CanDerive(h.l, ns, j)
    <3>1. Len(ns) \in 0 .. Len(ns)
      BY <1>4
    <3>2. PICK k \in 0 .. Len(ns) : k = Len(ns)
      BY <3>1
    <3>3. put(k)
      BY <2>2, <2>4, <3>2
    <3>4. \A j \in 1 .. k : CanDerive(h.l, ns, j)
      BY <1>4, <2>4, <3>2
    <3> QED
      BY <3>3, <3>4
  <2>5. ASSUME NEW k \in DOMAIN ns, \A j \in 1 .. k - 1 : CanDerive(h.l, ns, j),
               given(IF k > 1 THEN 1 ELSE 0)
        PROVE  \E m \in 0 .. Len(ns) : put(m) /\ \A j \in 1 .. m : CanDerive(h.l, ns, j)
    <3>1. PICK m \in 0 .. 1 : m = IF k > 1 THEN 1 ELSE 0
      OBVIOUS
    <3>2. m \in 0 .. Len(ns) /\ \A j \in 1 .. m : j \in 1 .. k - 1
      BY <1>4, <3>1
    <3> QED
      BY <2>2, <2>5, <3>1, <3>2
  <2> QED
    BY <1>1, <1>2, <2>1, <2>3, <2>4, <2>5
<1> HIDE DEF put
<1>6. SameWork
  <2>1. \E y : Return(t, y)
    BY DEF ObjectDerive
  <2> QED
    BY <1>1, <2>1, ByReturning, MovesWork DEF Derives
<1>7. CASE UNCHANGED <<files, defined>>
  <2>1. \A n : Holders(n)' = Holders(n)
    BY <1>7, SameHolders
  <2> QED
    BY <1>6, <1>7, <2>1, SameRight
<1>8. ASSUME \A i \in DOMAIN ns : Named(defined[h.l], ns[i]) = {},
             NEW k \in 0 .. Len(ns), put(k), \A j \in 1 .. k : CanDerive(h.l, ns, j)
      PROVE  Right'
  <2>1. /\ files' = Refs(h.l, ns, k) /\ k \in Nat
        /\ defined' = [defined EXCEPT ![h.l] = @ \cup ElfTypes(h.l, ns, k, t)]
        /\ \A i \in 1 .. k : i \in DOMAIN ns
    BY <1>4, <1>8 DEF put
  <2>2. ASSUME NEW y \in ElfTypes(h.l, ns, k, t)
        PROVE  y.l = h.l /\ \E i \in DOMAIN ns : y.n = ns[i]
    <3>1. PICK i \in 1 .. k : y = ElfType(h.l, ns[i], t)
      BY <2>2, ElfTypesAre
    <3>2. y.l = h.l /\ y.n = ns[i]
      BY <3>1, ElfTypeIs
    <3> QED
      BY <2>1, <3>2
  <2>3. \A l \in Loaders : \A y \in ElfTypes(h.l, ns, k, t) : y \notin defined[l]
    <3> SUFFICES ASSUME NEW l \in Loaders, NEW y \in ElfTypes(h.l, ns, k, t), y \in defined[l]
                 PROVE  FALSE
      OBVIOUS
    <3>1. l = h.l
      <4>1. y.l = l
        BY DEF IInv, Trees
      <4> QED
        BY <2>2, <4>1
    <3>2. PICK i \in DOMAIN ns : y.n = ns[i]
      BY <2>2
    <3> QED
      BY <1>8, <3>1, <3>2 DEF Named
  <2>4. ASSUME NEW n \in Classes
        PROVE  Node(files'[n], Holders(n)', Works(n)', Wanted(n)')
    <3>1. PICK A : A = UsersOf(ElfTypes(h.l, ns, k, t), n)
      OBVIOUS
    <3>2. PICK c : c = Cardinality(Users(ns, k, n))
      OBVIOUS
    <3>3. IsFiniteSet(A) /\ c = Cardinality(A) /\ IsFiniteSet(Users(ns, k, n))
      BY <1>3, <2>1, <3>1, <3>2, CountsAlike
    <3>4. A \cap Holders(n) = {}
      <4>1. \A y \in A : y \notin Holders(n)
        BY <2>3, <3>1, HoldersAre DEF UsersOf
      <4> QED
        BY <4>1
    <3>5. c = 0 <=> Users(ns, k, n) = {}
      BY <3>2, <3>3, FS_EmptySet
    <3>6. c # 0 => files[n].refs = 0 \/ files[n].hash = Version[h.l][n]
      <4>1. CanDeriveAll(h.l, ns, k)
        BY <1>8 DEF CanDeriveAll
      <4>2. \A l, q : q \in Nat /\ CanDeriveAll(l, ns, q) =>
              \A m \in Classes : Users(ns, q, m) # {} =>
                files[m].refs = 0 \/ files[m].hash = Version[l][m]
        BY DerivesAlike
      <4>3. PICK m : m = h.l
        OBVIOUS
      <4>4. CanDeriveAll(m, ns, k) /\ k \in Nat
        BY <2>1, <4>1, <4>3
      <4>5. Users(ns, k, n) # {} => files[n].refs = 0 \/ files[n].hash = Version[m][n]
        BY <4>2, <4>4
      <4> QED
        BY <3>5, <4>3, <4>5
    <3>7. files'[n] = IF c = 0 THEN files[n] ELSE [hash |-> Version[h.l][n], refs |-> files[n].refs + c]
      BY <2>1, <3>2, <3>5 DEF Refs
    <3>8. GainsTypes(n, h.l, UsersOf(ElfTypes(h.l, ns, k, t), n), c)
      BY <3>1, <3>3, <3>4, <3>6, <3>7 DEF GainsTypes
    <3> QED
      BY <1>1, <1>6, <2>1, <2>2, <3>8, TypesGain
  <2>5. files' \in [Classes -> [hash : Nat, refs : Nat]]
    <3>1. \A n \in Classes : files'[n] \in [hash : Nat, refs : Nat]
      BY <2>4 DEF Node
    <3> QED
      BY <2>1, <3>1 DEF Refs
  <2> QED
    BY <2>4, <2>5 DEF Right
<1> QED
  BY <1>5, <1>7, <1>8

-----------------------------------------------------------------------------
(* Unloading *)

\* destroy_loader() gives back the references of the types that go.
LEMMA UnloadRight ==
  ASSUME LoadingAssumption, IInv, Right, NEW l \in Loaders, Unload(l)
  PROVE  Right'
<1>1. /\ stack' = stack /\ files' = Released(l)
      /\ defined' = [defined EXCEPT ![l] = {}]
  BY DEF Unload
<1>2. \A n : /\ Works(n)' = Works(n)
             /\ \A p \in Works(n) : stack'[p[1]][p[2]].l = stack[p[1]][p[2]].l
  <2>1. SameWork
    BY <1>1 DEF SameWork
  <2> QED
    BY <2>1, SameWorks
<1>3. ASSUME NEW n \in Classes
      PROVE  Node(files'[n], Holders(n)', Works(n)', Wanted(n)')
  <2>1. PICK A : A = OwnIn(defined[l], n) \cup DependentIn(defined[l], n)
    OBVIOUS
  <2>2. \A y : y \in A <=> y \in defined[l] /\ Uses(y, n)
    BY <2>1 DEF OwnIn, DependentIn, Uses
  <2>3. \A m \in Loaders : defined'[m] = IF m = l THEN {} ELSE defined[m]
    BY <1>1 DEF IInv, TypeOK
  <2>4. \A y : y \in defined[l] => \A m \in Loaders : y \in defined[m] => m = l
    <3>1. \A m \in Loaders : \A y \in defined[m] : y.l = m
      BY DEF IInv, Trees
    <3> QED
      BY <3>1
  <2>5. A \subseteq Holders(n) /\ Holders(n)' = Holders(n) \ A
    <3>1. \A y : y \in A => y \in Holders(n)
      BY <2>2, HoldersAre
    <3>2. \A y : y \in Holders(n)' <=> y \in Holders(n) /\ y \notin A
      <4> TAKE y
      <4>1. (\E m \in Loaders : y \in defined'[m]) <=> (\E m \in Loaders : y \in defined[m]) /\ y \notin defined[l]
        BY <2>3, <2>4
      <4>2. /\ y \in Holders(n) <=> Uses(y, n) /\ \E m \in Loaders : y \in defined[m]
            /\ y \in Holders(n)' <=> Uses(y, n) /\ \E m \in Loaders : y \in defined'[m]
        BY HoldersAre
      <4> QED
        BY <2>2, <4>1, <4>2
    <3> QED
      BY <3>1, <3>2
  <2>6. \A w \in Wanted(n)' : w \in Wanted(n)
    <3> SUFFICES ASSUME NEW w \in Wanted(n)'
                 PROVE  w \in Wanted(n)
      OBVIOUS
    <3>1. CASE \E y \in Holders(n)' : w = Version[y.l][n]
      BY <2>5, <3>1, WantedAre
    <3>2. CASE \E p \in Works(n)' : w = Version[stack'[p[1]][p[2]].l][n]
      <4>1. PICK p \in Works(n)' : w = Version[stack'[p[1]][p[2]].l][n]
        BY <3>2
      <4>2. Works(n)' = Works(n)
        BY <1>2
      <4>3. p \in Works(n)
        BY <4>1, <4>2
      <4>4. stack'[p[1]][p[2]] = stack[p[1]][p[2]]
        BY <1>1
      <4>5. w = Version[stack[p[1]][p[2]].l][n]
        BY <4>1, <4>4
      <4> QED
        BY <4>3, <4>5, WantedAre
    <3> QED
      BY <3>1, <3>2, WantedAre
  <2>7. Wanted(n)' # {} => Holders(n) \ A # {} \/ Works(n) \ {} # {}
    <3>1. ASSUME Wanted(n)' # {}
          PROVE  Holders(n)' # {} \/ Works(n)' # {}
      <4>1. PICK w : w \in Wanted(n)'
        BY <3>1
      <4> QED
        BY <4>1, WantedAre
    <3> QED
      BY <1>2, <2>5, <3>1
  <2>8. Node(files[n], Holders(n), Works(n), Wanted(n))
    BY DEF Right
  <2>9. Cardinality(A) + Cardinality({}) = Cardinality(A)
    <3>1. IsFiniteSet(A)
      BY <2>5, <2>8, FS_Subset DEF Node
    <3>2. Cardinality(A) \in Nat /\ Cardinality({}) = 0
      BY <3>1, FS_CardinalityType, FS_EmptySet
    <3> QED
      BY <3>2
  <2>10. PICK c : c = Cardinality(A)
    OBVIOUS
  <2>11. files'[n] = IF c = 0 THEN files[n] ELSE IF c = files[n].refs THEN NoFile
                     ELSE [files[n] EXCEPT !.refs = @ - c]
    BY <1>1, <2>1, <2>10 DEF Released
  <2>12. Loses(files[n], Holders(n), Works(n), Wanted(n), A, {}, files'[n], Wanted(n)')
    BY <2>5, <2>6, <2>7, <2>8, <2>9, <2>10, <2>11 DEF Loses
  <2>13. Node(files'[n], Holders(n) \ A, Works(n) \ {}, Wanted(n)')
    BY <2>12, NodeLoses
  <2>14. Works(n)' = Works(n) \ {}
    BY <1>2
  <2> QED
    BY <2>5, <2>13, <2>14
<1>4. files' \in [Classes -> [hash : Nat, refs : Nat]]
  <2>1. \A n \in Classes : files'[n] \in [hash : Nat, refs : Nat]
    BY <1>3 DEF Node
  <2> QED
    BY <1>1, <2>1 DEF Released
<1> QED
  BY <1>3, <1>4 DEF Right

-----------------------------------------------------------------------------
(* The theorem *)

\* At first no class file is there.
LEMMA InitRight ==
  ASSUME LoadingAssumption, Init
  PROVE  Right
<1>1. files \in [Classes -> [hash : Nat, refs : Nat]] /\ \A n \in Classes : files[n] = NoFile
  BY DEF Init, NoFile
<1>2. ASSUME NEW n \in Classes
      PROVE  Node(files[n], Holders(n), Works(n), Wanted(n))
  <2>1. \A y : y \notin Holders(n)
    BY HoldersAre DEF Init
  <2>2. \A p : p \notin Works(n)
    BY WorksAre DEF Init
  <2>3. \A v : v \notin Wanted(n)
    BY <2>1, <2>2, WantedAre
  <2>4. Holders(n) = {} /\ Works(n) = {} /\ Wanted(n) = {}
    BY <2>1, <2>2, <2>3
  <2>5. IsFiniteSet({}) /\ Cardinality({}) = 0 /\ 0 = 0 + 0
    BY FS_EmptySet
  <2> QED
    BY <1>1, <2>4, <2>5 DEF Node, NoFile
<1> QED
  BY <1>1, <1>2 DEF Right

\* Every step keeps the nodes right.
LEMMA NextRight ==
  ASSUME LoadingAssumption, IInv, Right, [Next]_vars
  PROVE  Right'
<1>1. ASSUME SameWork, Unmoved
      PROVE  Right'
  <2>1. files' = files /\ \A n : Holders(n)' = Holders(n)
    BY <1>1, SameHolders DEF Unmoved
  <2> QED
    BY <1>1, <2>1, SameRight
<1>2. ASSUME NEW t \in Threads, Begin(t) \/ Step(t)
      PROVE  Right'
  <2>1. CASE Begin(t) \/ BootDone(t)
    BY <1>1, <2>1, BeginWorks, BootDoneWorks
  <2>2. CASE Moves(t) /\ Unmoved
    BY <1>1, <2>2, MovesWork
  <2>3. CASE DeriveStart(t) \/ DeriveUnref(t) \/ DeriveInterp(t) \/ ObjectDerive(t) \/ ArrayMake(t)
    BY <2>3, DeriveStartRight, DeriveUnrefRight, DeriveInterpRight, ObjectDeriveRight, ArrayMakeRight
  <2>4. CASE BootFind(t) \/ BootBody(t)
    BY <2>2, <2>4, BootMoves
  <2>5. CASE UserFind(t) \/ UserJava(t) \/ UserExit(t) \/ UserRecord(t)
    BY <2>2, <2>5, UserMoves
  <2>6. CASE ArrayStart(t) \/ ArrayElem(t) \/ ArrayOther(t)
    BY <2>2, <2>6, ArrayMoves
  <2>7. CASE DeriveEnter(t) \/ DeriveSuper(t) \/ CheckSuper(t) \/ DeriveCheck(t) \/ DeriveObject(t) \/ DeriveLeave(t)
    BY <2>2, <2>7, DeriveMoves
  <2>8. CASE ObjectFind(t)
    BY <2>2, <2>8, ObjectMoves
  <2> QED
    BY <1>2, <2>1, <2>3, <2>4, <2>5, <2>6, <2>7, <2>8 DEF Step
<1>3. CASE \E l \in Loaders : Unload(l)
  BY <1>3, UnloadRight
<1>4. CASE UNCHANGED vars
  <2>1. SameWork /\ Unmoved
    BY <1>4 DEF vars, trees, Unmoved, SameWork
  <2> QED
    BY <1>1, <2>1
<1> QED
  BY <1>2, <1>3, <1>4 DEF Next

\* A right node counts what the property says it does.
LEMMA FilesCountedFollows ==
  ASSUME LoadingAssumption, Right
  PROVE  Counted
<1>1. ASSUME NEW n \in Classes, NEW own, NEW dep, NEW using,
             own = OwnIn(AllTypes(defined), n), dep = DependentIn(AllTypes(defined), n),
             using = Derivations(stack, n)
      PROVE  /\ IsFiniteSet(own) /\ IsFiniteSet(dep) /\ IsFiniteSet(using)
             /\ files[n].refs = Cardinality(own) + Cardinality(dep) + Cardinality(using)
             /\ \A y \in own : files[n].hash = Version[y.l][n]
             /\ \A p \in using : files[n].hash = Version[stack[p[1]][p[2]].l][n]
  <2>1. Node(files[n], Holders(n), Works(n), Wanted(n))
    BY DEF Right
  <2>2. Holders(n) = own \cup dep /\ Works(n) = using
    BY <1>1 DEF Holders, Works
  <2>3. own \cap dep = {}
    BY <1>1 DEF OwnIn, DependentIn, Deps
  <2>4. IsFiniteSet(own) /\ IsFiniteSet(dep)
    <3>1. own \subseteq Holders(n) /\ dep \subseteq Holders(n)
      BY <2>2
    <3> QED
      BY <2>1, <3>1, FS_Subset DEF Node
  <2>5. Cardinality(Holders(n)) = Cardinality(own) + Cardinality(dep)
    BY <2>2, <2>3, <2>4, DisjointUnion
  <2>6. \A v \in Wanted(n) : files[n].hash = v
    BY <2>1 DEF Node
  <2>7. \A y \in own : Version[y.l][n] \in Wanted(n)
    BY <2>2, WantedAre
  <2>8. \A p \in using : Version[stack[p[1]][p[2]].l][n] \in Wanted(n)
    BY <2>2, WantedAre
  <2> QED
    BY <2>1, <2>2, <2>4, <2>5, <2>6, <2>7, <2>8 DEF Node
<1>2. FilesCounted
  BY <1>1 DEF FilesCounted
<1> QED
  BY <1>1, <1>2 DEF Counted, Right

\* And then the node of a class file has a reference for each type and each activation
\* that uses it, all of which have the class file that the node is of.
THEOREM ClassFilesCounted == ObjectsApart /\ ObjectsAlone /\ Spec => []FilesCounted
<1>1. Init => Right
  BY LoadingAssumption, InitRight
<1>2. IInv /\ Right /\ [Next]_vars => Right'
  BY LoadingAssumption, NextRight
<1>3. Right => FilesCounted
  BY LoadingAssumption, FilesCountedFollows DEF Counted
<1> QED
  BY <1>1, <1>2, <1>3, LoadingStaysConsistent, PTL DEF Spec
=============================================================================
