-------------------------- MODULE ExecutionProofs --------------------------
(* Proofs of what Execution states: the lists that a thread keeps are those *)
(* of the calls that it is in, monitors are held as often as their methods  *)
(* are entered, and an exception gets to its handler.                       *)
EXTENDS Execution, FiniteSets, TLAPS, NaturalsInduction, WellFoundedInduction, SequenceTheorems,
        FiniteSetTheorems

-----------------------------------------------------------------------------
(* Numbers *)

\* A set of numbers has a least.
LEMMA Least ==
  ASSUME NEW S \in SUBSET Nat, S # {} PROVE \E m \in S : \A k \in S : m <= k
<1>1. PICK m \in S : \A k \in S : ~(<<k, m>> \in OpToRel(<, Nat))
  BY WFMin, NatLessThanWellFounded
<1>2. \A k \in S : ~(k < m)
  BY <1>1 DEF OpToRel
<1> QED
  BY <1>2

\* Min and Max are what they say.
LEMMA MinIs ==
  ASSUME NEW S \in SUBSET Nat, S # {} PROVE Min(S) \in S /\ \A k \in S : Min(S) <= k
BY Least DEF Min

\* One that is bounded has a greatest.
LEMMA MaxIs ==
  ASSUME NEW n \in Nat, NEW S \in SUBSET (0 .. n), S # {} PROVE Max(S) \in S /\ \A k \in S : k <= Max(S)
<1> DEFINE T == {n - k : k \in S}
<1>1. T \in SUBSET Nat /\ T # {}
  <2>1. \A k \in S : n - k \in Nat
    OBVIOUS
  <2>2. T \in SUBSET Nat
    BY <2>1
  <2>3. T # {}
    OBVIOUS
  <2> QED
    BY <2>2, <2>3
<1>2. PICK i \in T : \A k \in T : i <= k
  <2> HIDE DEF T
  <2> QED
    BY <1>1, Least
<1>3. PICK m \in S : i = n - m
  BY <1>2
<1>4. ASSUME NEW k \in S PROVE m >= k
  <2>1. n - k \in T
    OBVIOUS
  <2>2. n - m <= n - k
    BY <1>2, <1>3, <2>1
  <2> QED
    BY <2>2
<1> QED
  BY <1>4 DEF Max

-----------------------------------------------------------------------------
(* Sequences that list sets *)

\* What it is that a list of records lists a set.
LEMMA ListsAre ==
  ASSUME NEW q, NEW S, DOMAIN q = 1 .. Len(q)
  PROVE  Lists(OwnersOf(q), S) <=>
           /\ \A k \in DOMAIN q : q[k].owner \in S
           /\ \A x \in S : \E k \in DOMAIN q : q[k].owner = x
           /\ \A j, k \in DOMAIN q : j < k => q[j].owner < q[k].owner
<1>1. DOMAIN OwnersOf(q) = DOMAIN q /\ \A k \in DOMAIN q : OwnersOf(q)[k] = q[k].owner
  BY DEF OwnersOf
<1>2. Range(OwnersOf(q)) = {q[k].owner : k \in DOMAIN q}
  BY <1>1, Zenon DEF Range
<1> HIDE DEF OwnersOf
<1>3. Range(OwnersOf(q)) = S <=>
           /\ \A k \in DOMAIN q : q[k].owner \in S
           /\ \A x \in S : \E k \in DOMAIN q : q[k].owner = x
  BY <1>2
<1> QED
  BY <1>1, <1>3 DEF Lists

\* The first elements of a sequence but for the last, and one more.
LEMMA FrontOf ==
  ASSUME NEW T, NEW q \in Seq(T), q # <<>>
  PROVE  /\ Front(q) \in Seq(T) /\ Len(Front(q)) = Len(q) - 1 /\ Len(q) \in Nat \ {0}
         /\ \A k \in 1 .. Len(q) - 1 : Front(q)[k] = q[k]
         /\ Last(q) = q[Len(q)] /\ Last(q) \in T
<1>1. Len(q) \in Nat \ {0}
  BY EmptySeq, LenProperties
<1>2. 1 \in 1 .. Len(q) + 1 /\ Len(q) - 1 \in 1 - 1 .. Len(q) /\ Len(q) - 1 - 1 + 1 = Len(q) - 1
  BY <1>1
<1>3. /\ SubSeq(q, 1, Len(q) - 1) \in Seq(T) /\ Len(SubSeq(q, 1, Len(q) - 1)) = Len(q) - 1
      /\ \A k \in 1 .. Len(q) - 1 : SubSeq(q, 1, Len(q) - 1)[k] = q[k]
  BY <1>1, <1>2, SubSeqProperties
<1>4. q[Len(q)] \in T
  BY <1>1, ElementOfSeq
<1> QED
  BY <1>1, <1>3, <1>4 DEF Front, Last

\* What Append does.
LEMMA AppendIs ==
  ASSUME NEW T, NEW q \in Seq(T), NEW r \in T
  PROVE  /\ Append(q, r) \in Seq(T) /\ Len(Append(q, r)) = Len(q) + 1 /\ Len(q) \in Nat
         /\ \A k \in 1 .. Len(q) : Append(q, r)[k] = q[k]
         /\ Append(q, r)[Len(q) + 1] = r
  BY AppendProperties, LenProperties

\* An owner is added to a list, or the last is taken away.
LEMMA ListsMore ==
  ASSUME NEW T, NEW q \in Seq(T), NEW r \in T, NEW S \in SUBSET Nat, Lists(OwnersOf(q), S),
         r.owner \in Nat, \A x \in S : x < r.owner
  PROVE  Lists(OwnersOf(Append(q, r)), S \cup {r.owner})
<1>1. PICK p : p = Append(q, r)
  OBVIOUS
<1>2. PICK v : v = r.owner /\ v \in Nat /\ \A x \in S : x < v
  OBVIOUS
<1>3. /\ p \in Seq(T) /\ Len(p) = Len(q) + 1 /\ Len(q) \in Nat /\ DOMAIN p = 1 .. Len(q) + 1 /\ DOMAIN q = 1 .. Len(q)
      /\ \A k \in 1 .. Len(q) : p[k] = q[k]
      /\ p[Len(q) + 1] = r
  BY <1>1, AppendIs, LenProperties
<1>4. /\ \A k \in DOMAIN q : q[k].owner \in S
      /\ \A x \in S : \E k \in DOMAIN q : q[k].owner = x
      /\ \A j, k \in DOMAIN q : j < k => q[j].owner < q[k].owner
  BY <1>3, ListsAre
<1>5. \A k \in DOMAIN p : p[k].owner \in S \cup {v}
  BY <1>2, <1>3, <1>4
<1>6. \A x \in S \cup {v} : \E k \in DOMAIN p : p[k].owner = x
  BY <1>2, <1>3, <1>4
<1>7. ASSUME NEW j \in DOMAIN p, NEW k \in DOMAIN p, j < k PROVE p[j].owner < p[k].owner
  <2>1. j \in 1 .. Len(q) /\ p[j] = q[j] /\ q[j].owner \in S
    BY <1>3, <1>4, <1>7
  <2>2. CASE k \in 1 .. Len(q)
    BY <1>3, <1>4, <1>7, <2>1, <2>2
  <2>3. CASE k = Len(q) + 1
    BY <1>2, <1>3, <2>1, <2>3
  <2> QED
    BY <1>3, <2>2, <2>3
<1>8. DOMAIN p = 1 .. Len(p)
  BY <1>3
<1>9. Lists(OwnersOf(p), S \cup {v})
  BY <1>5, <1>6, <1>7, <1>8, ListsAre
<1> QED
  BY <1>1, <1>2, <1>9

\* A list without its last lists a set without its greatest.
LEMMA ListsLess ==
  ASSUME NEW T, NEW q \in Seq(T), NEW S \in SUBSET Nat, Lists(OwnersOf(q), S),
         NEW v \in S, \A x \in S : x <= v
  PROVE  /\ q # <<>> /\ Last(q).owner = v
         /\ Lists(OwnersOf(Front(q)), S \ {v})
<1>1. DOMAIN q = 1 .. Len(q) /\ Len(q) \in Nat
  BY LenProperties
<1>2. /\ \A k \in DOMAIN q : q[k].owner \in S
      /\ \A x \in S : \E k \in DOMAIN q : q[k].owner = x
      /\ \A j, k \in DOMAIN q : j < k => q[j].owner < q[k].owner
  BY <1>1, ListsAre
<1>3. q # <<>>
  BY <1>1, <1>2
<1>4. PICK p : p = Front(q)
  OBVIOUS
<1>5. /\ p \in Seq(T) /\ Len(p) = Len(q) - 1 /\ Len(q) \in Nat \ {0} /\ DOMAIN p = 1 .. Len(q) - 1
      /\ \A k \in 1 .. Len(q) - 1 : p[k] = q[k]
      /\ Last(q) = q[Len(q)]
  BY <1>3, <1>4, FrontOf, LenProperties
<1>6. PICK k \in DOMAIN q : q[k].owner = v
  BY <1>2
<1>7. k = Len(q)
  <2>1. SUFFICES ASSUME k # Len(q) PROVE FALSE
    OBVIOUS
  <2>2. Len(q) \in DOMAIN q /\ k < Len(q)
    BY <1>1, <1>5, <2>1
  <2>3. v < q[Len(q)].owner /\ q[Len(q)].owner <= v /\ q[Len(q)].owner \in Nat /\ v \in Nat
    BY <1>2, <1>6, <2>2
  <2> QED
    BY <2>3
<1>8. \A j \in DOMAIN p : p[j].owner \in S \ {v}
  <2> TAKE j \in DOMAIN p
  <2>1. j \in DOMAIN q /\ j < Len(q) /\ p[j] = q[j] /\ Len(q) \in DOMAIN q
    BY <1>1, <1>5
  <2>2. q[j].owner < v /\ q[j].owner \in S /\ v \in Nat
    BY <1>2, <1>6, <1>7, <2>1
  <2> QED
    BY <2>1, <2>2
<1>9. \A x \in S \ {v} : \E j \in DOMAIN p : p[j].owner = x
  <2> TAKE x \in S \ {v}
  <2>1. PICK j \in DOMAIN q : q[j].owner = x
    BY <1>2
  <2>2. j # Len(q)
    BY <1>6, <1>7, <2>1
  <2>3. j \in DOMAIN p /\ p[j] = q[j]
    BY <1>1, <1>5, <2>1, <2>2
  <2> QED
    BY <2>1, <2>3
<1>10. \A i, j \in DOMAIN p : i < j => p[i].owner < p[j].owner
  BY <1>1, <1>2, <1>5
<1>11. DOMAIN p = 1 .. Len(p)
  BY <1>5
<1>12. Lists(OwnersOf(p), S \ {v})
  BY <1>8, <1>9, <1>10, <1>11, ListsAre
<1> QED
  BY <1>3, <1>4, <1>5, <1>6, <1>7, <1>12

\* So for a list of numbers.
LEMMA NumbersMore ==
  ASSUME NEW q \in Seq(Nat), NEW S \in SUBSET Nat, Lists(q, S), NEW v \in Nat, \A x \in S : x < v
  PROVE  Lists(Append(q, v), S \cup {v})
<1>1. PICK p : p = Append(q, v)
  OBVIOUS
<1>2. /\ p \in Seq(Nat) /\ Len(q) \in Nat /\ DOMAIN p = 1 .. Len(q) + 1 /\ DOMAIN q = 1 .. Len(q)
      /\ \A k \in 1 .. Len(q) : p[k] = q[k]
      /\ p[Len(q) + 1] = v
  BY <1>1, AppendIs, LenProperties
<1>3. /\ \A x : x \in S <=> \E k \in DOMAIN q : q[k] = x
      /\ \A j, k \in DOMAIN q : j < k => q[j] < q[k]
  BY DEF Lists, Range
<1>4. \A x : x \in S \cup {v} <=> \E k \in DOMAIN p : p[k] = x
  BY <1>2, <1>3
<1>5. ASSUME NEW j \in DOMAIN p, NEW k \in DOMAIN p, j < k PROVE p[j] < p[k]
  <2>1. j \in 1 .. Len(q) /\ p[j] = q[j] /\ q[j] \in S
    BY <1>2, <1>3, <1>5
  <2>2. CASE k \in 1 .. Len(q)
    BY <1>2, <1>3, <1>5, <2>1, <2>2
  <2>3. CASE k = Len(q) + 1
    BY <1>2, <2>1, <2>3
  <2> QED
    BY <1>2, <2>2, <2>3
<1>6. Range(p) = S \cup {v}
  BY <1>4 DEF Range
<1> QED
  BY <1>1, <1>5, <1>6 DEF Lists

\* The same for a list of numbers.
LEMMA NumbersLess ==
  ASSUME NEW q \in Seq(Nat), NEW S \in SUBSET Nat, Lists(q, S), NEW v \in S, \A x \in S : x <= v
  PROVE  Lists(Front(q), S \ {v})
<1>1. DOMAIN q = 1 .. Len(q) /\ Len(q) \in Nat
  BY LenProperties
<1>2. /\ \A x : x \in S <=> \E k \in DOMAIN q : q[k] = x
      /\ \A j, k \in DOMAIN q : j < k => q[j] < q[k]
  BY DEF Lists, Range
<1>3. PICK k \in DOMAIN q : q[k] = v
  BY <1>2
<1>4. q # <<>>
  BY <1>1, <1>3
<1>5. PICK p : p = Front(q)
  OBVIOUS
<1>6. /\ Len(q) \in Nat \ {0} /\ DOMAIN p = 1 .. Len(q) - 1
      /\ \A j \in 1 .. Len(q) - 1 : p[j] = q[j]
  BY <1>4, <1>5, FrontOf, LenProperties
<1>7. k = Len(q)
  <2>1. SUFFICES ASSUME k # Len(q) PROVE FALSE
    OBVIOUS
  <2>2. Len(q) \in DOMAIN q /\ k < Len(q)
    BY <1>1, <1>6, <2>1
  <2>3. v < q[Len(q)] /\ q[Len(q)] \in S
    BY <1>2, <1>3, <2>2
  <2> QED
    BY <2>3
<1>8. \A x : x \in S \ {v} <=> \E j \in DOMAIN p : p[j] = x
  <2> TAKE x
  <2>1. ASSUME x \in S \ {v} PROVE \E j \in DOMAIN p : p[j] = x
    <3>1. PICK j \in DOMAIN q : q[j] = x
      BY <1>2, <2>1
    <3>2. j \in DOMAIN p
      BY <1>1, <1>3, <1>6, <1>7, <2>1, <3>1
    <3> QED
      BY <1>6, <3>1, <3>2
  <2>2. ASSUME NEW j \in DOMAIN p, p[j] = x PROVE x \in S \ {v}
    <3>1. j \in DOMAIN q /\ j < Len(q) /\ q[j] = x
      BY <1>1, <1>6, <2>2
    <3>2. x \in S /\ x < v
      BY <1>2, <1>3, <1>7, <3>1
    <3> QED
      BY <3>2
  <2> QED
    BY <2>1, <2>2
<1>9. Range(p) = S \ {v}
  BY <1>8 DEF Range
<1>10. ASSUME NEW i \in DOMAIN p, NEW j \in DOMAIN p, i < j PROVE p[i] < p[j]
  <2>1. i \in DOMAIN q /\ j \in DOMAIN q /\ p[i] = q[i] /\ p[j] = q[j]
    BY <1>1, <1>6
  <2> QED
    BY <1>2, <1>10, <2>1
<1> QED
  BY <1>5, <1>9, <1>10 DEF Lists

-----------------------------------------------------------------------------
(* What the C stack becomes *)

\* A call, by a function that first gets S.
Pushes(S, a) ==
  /\ calls' \in Seq(ActivationType) /\ Depth' = Depth + 1
  /\ \A d \in 1 .. Depth - 1 : calls'[d] = calls[d]
  /\ calls'[Depth] = [Top EXCEPT !.got = @ \cup S]
  /\ calls'[Depth + 1] = a
Becomes(b) ==
  /\ calls' \in Seq(ActivationType) /\ Depth' = Depth
  /\ \A d \in 1 .. Depth - 1 : calls'[d] = calls[d]
  /\ calls'[Depth] = b
Leaves ==
  /\ calls' \in Seq(ActivationType) /\ Depth' = Depth - 1 /\ Depth > 1
  /\ \A d \in 1 .. Depth - 1 : calls'[d] = calls[d]

\* The stack is not empty.
LEMMA DepthIs ==
  ASSUME TypeOK
  PROVE  /\ Depth \in Nat \ {0} /\ Top \in ActivationType /\ DOMAIN calls = 1 .. Depth
         /\ \A d \in 1 .. Depth : calls[d] \in ActivationType
<1>1. calls \in Seq(ActivationType) /\ calls # <<>>
  BY DEF TypeOK
<1>2. Len(calls) \in Nat \ {0} /\ DOMAIN calls = 1 .. Len(calls)
  BY <1>1, EmptySeq, LenProperties
<1>3. \A d \in 1 .. Len(calls) : calls[d] \in ActivationType
  BY <1>1, ElementOfSeq
<1> QED
  BY <1>2, <1>3 DEF Depth, Top

\* The top activation, when it has got something, is one.
LEMMA TopGot ==
  ASSUME NEW a \in ActivationType, NEW S \in SUBSET Things
  PROVE  [a EXCEPT !.got = @ \cup S] \in ActivationType
  BY DEF ActivationType

\* When a call is a push, a change and a return.
LEMMA PushesIf ==
  ASSUME TypeOK, NEW S \in SUBSET Things, NEW a \in ActivationType, calls' = Append(Got(S), a)
  PROVE  Pushes(S, a)
<1>1. PICK b : b = [Top EXCEPT !.got = @ \cup S]
  OBVIOUS
<1>2. b \in ActivationType
  BY <1>1, DepthIs, TopGot
<1>3. PICK q : q = [calls EXCEPT ![Depth] = b]
  OBVIOUS
<1>4. Got(S) = q
  BY <1>1, <1>3 DEF Got, Top
<1>5. /\ calls \in Seq(ActivationType) /\ Depth \in 1 .. Len(calls) /\ Depth = Len(calls) /\ DOMAIN calls = 1 .. Depth
  BY DepthIs DEF TypeOK, Depth
<1>6. /\ q \in Seq(ActivationType) /\ Len(q) = Depth
      /\ \A d \in 1 .. Depth : q[d] = IF d = Depth THEN b ELSE calls[d]
  BY <1>2, <1>3, <1>5, ExceptSeq
<1>7. /\ calls' \in Seq(ActivationType) /\ Len(calls') = Depth + 1
      /\ \A d \in 1 .. Depth : calls'[d] = q[d]
      /\ calls'[Depth + 1] = a
  BY <1>4, <1>6, AppendIs
<1>8. Depth' = Depth + 1
  BY <1>7 DEF Depth
<1>9. calls'[Depth] = b /\ \A d \in 1 .. Depth - 1 : calls'[d] = calls[d]
  BY <1>5, <1>6, <1>7
<1> QED
  BY <1>1, <1>7, <1>8, <1>9 DEF Pushes

LEMMA PushesPlain ==
  ASSUME TypeOK, NEW a \in ActivationType, calls' = Append(calls, a)
  PROVE  Pushes({}, a)
<1>1. Got({}) = calls
  <2>1. Top = [Top EXCEPT !.got = @ \cup {}]
    BY DepthIs DEF ActivationType
  <2>2. Got({}) = [calls EXCEPT ![Depth] = Top]
    BY <2>1 DEF Got, Top
  <2>3. calls = [d \in 1 .. Depth |-> calls[d]]
    BY DepthIs DEF TypeOK, Depth
  <2> QED
    BY <2>2, <2>3 DEF Top
<1> QED
  BY <1>1, PushesIf

LEMMA BecomesIf ==
  ASSUME TypeOK, NEW b \in ActivationType, calls' = [calls EXCEPT ![Depth] = b]
  PROVE  Becomes(b)
<1>1. /\ calls \in Seq(ActivationType) /\ Depth \in 1 .. Len(calls) /\ Depth = Len(calls) /\ DOMAIN calls = 1 .. Depth
  BY DepthIs DEF TypeOK, Depth
<1>2. /\ calls' \in Seq(ActivationType) /\ Len(calls') = Depth
      /\ \A d \in 1 .. Depth : calls'[d] = IF d = Depth THEN b ELSE calls[d]
  BY <1>1, ExceptSeq
<1>3. Depth' = Depth
  BY <1>2 DEF Depth
<1>4. calls'[Depth] = b /\ \A d \in 1 .. Depth - 1 : calls'[d] = calls[d]
  BY <1>1, <1>2
<1> QED
  BY <1>2, <1>3, <1>4 DEF Becomes

LEMMA BecomesGot ==
  ASSUME TypeOK, NEW S \in SUBSET Things, calls' = Got(S)
  PROVE  Becomes([Top EXCEPT !.got = @ \cup S])
<1>1. [Top EXCEPT !.got = @ \cup S] \in ActivationType
  BY DepthIs, TopGot
<1> QED
  BY <1>1, BecomesIf DEF Got, Top

LEMMA BecomesSame ==
  ASSUME TypeOK, calls' = calls
  PROVE  Becomes(Top)
  BY DepthIs DEF Becomes, TypeOK, Depth, Top

LEMMA LeavesIf ==
  ASSUME TypeOK, calls' = Caller, Depth # 1
  PROVE  Leaves
<1>1. calls \in Seq(ActivationType) /\ Depth = Len(calls) /\ Depth \in Nat /\ Depth > 1
  <2>1. Depth \in Nat /\ Depth > 1
    BY DepthIs
  <2> QED
    BY <2>1 DEF TypeOK, Depth
<1>2. \A d \in 1 .. Depth - 1 : calls[d] \in ActivationType
  BY DepthIs
<1>3. /\ calls' \in Seq(ActivationType) /\ Len(calls') = Depth - 1
      /\ \A d \in 1 .. Depth - 1 : calls'[d] = calls[d]
  <2>1. 1 \in Int /\ Depth - 1 \in Int /\ 1 <= Depth - 1 /\ (Depth - 1) - 1 + 1 = Depth - 1
    BY <1>1
  <2>2. /\ Caller \in Seq(ActivationType)
        /\ Len(Caller) = IF 1 <= Depth - 1 THEN (Depth - 1) - 1 + 1 ELSE 0
        /\ \A i \in 1 .. (Depth - 1) - 1 + 1 : Caller[i] = calls[1 + i - 1]
    BY <1>2, <2>1, SubSeqProperties DEF Caller
  <2> QED
    BY <2>1, <2>2
<1> QED
  BY <1>1, <1>3 DEF Leaves, Depth

-----------------------------------------------------------------------------
(* What the activations have then *)

\* Which activations have got a thing, before and after a step.
LEMMA HoldersAre ==
  ASSUME NEW x, NEW d
  PROVE  /\ d \in Holders(x) <=> d \in 1 .. Depth /\ x \in calls[d].got
         /\ d \in Holders(x)' <=> d \in 1 .. Depth' /\ x \in calls'[d].got
  BY DEF Holders

\* Those that have a thing are activations that are there.
LEMMA HoldersIn ==
  ASSUME TypeOK, NEW x
  PROVE  Holders(x) \in SUBSET Nat /\ IsFiniteSet(Holders(x)) /\ \A d \in Holders(x) : d <= Depth /\ d > 0
<1>1. Holders(x) \subseteq 1 .. Depth /\ Depth \in Nat
  BY DepthIs DEF Holders
<1>2. IsFiniteSet(1 .. Depth)
  BY <1>1, FS_Interval
<1> QED
  BY <1>1, <1>2, FS_Subset

\* Who has got a thing after a call, after a change and after a return.
LEMMA HoldersPush ==
  ASSUME TypeOK, NEW S \in SUBSET Things, NEW a \in ActivationType, Pushes(S, a), NEW x
  PROVE  Holders(x)' = Holders(x) \cup (IF x \in S THEN {Depth} ELSE {})
                                  \cup (IF x \in a.got THEN {Depth + 1} ELSE {})
<1>1. Depth \in Nat \ {0} /\ Top \in ActivationType
  BY DepthIs
<1>2. /\ Depth' = Depth + 1
      /\ \A d \in 1 .. Depth - 1 : calls'[d] = calls[d]
      /\ calls'[Depth].got = Top.got \cup S /\ Top = calls[Depth]
      /\ calls'[Depth + 1] = a
  <2>1. calls'[Depth] = [Top EXCEPT !.got = @ \cup S] /\ Top = calls[Depth]
    BY DEF Pushes, Top
  <2>2. calls'[Depth].got = Top.got \cup S
    BY <1>1, <2>1 DEF ActivationType
  <2> QED
    BY <2>1, <2>2 DEF Pushes
<1>3. ASSUME NEW d
      PROVE  d \in Holders(x)' <=> \/ d \in Holders(x)
                                   \/ x \in S /\ d = Depth
                                   \/ x \in a.got /\ d = Depth + 1
  <2>1. /\ d \in Holders(x) <=> d \in 1 .. Depth /\ x \in calls[d].got
        /\ d \in Holders(x)' <=> d \in 1 .. Depth' /\ x \in calls'[d].got
    BY HoldersAre
  <2>2. CASE d \in 1 .. Depth - 1
    <3>1. d \in 1 .. Depth /\ d \in 1 .. Depth' /\ d # Depth /\ d # Depth + 1
      BY <1>1, <1>2, <2>2
    <3>2. calls'[d] = calls[d]
      BY <1>2, <2>2
    <3> QED
      BY <2>1, <3>1, <3>2
  <2>3. CASE d = Depth
    BY <1>1, <1>2, <2>1, <2>3
  <2>4. CASE d = Depth + 1
    BY <1>1, <1>2, <2>1, <2>4
  <2>5. CASE d \notin 1 .. Depth + 1
    BY <1>1, <1>2, <2>1, <2>5
  <2>6. d \in 1 .. Depth + 1 => d \in 1 .. Depth - 1 \/ d = Depth \/ d = Depth + 1
    BY <1>1
  <2> QED
    BY <2>2, <2>3, <2>4, <2>5, <2>6
<1>4. CASE x \in S
  BY <1>3, <1>4
<1>5. CASE x \notin S
  BY <1>3, <1>5
<1> QED
  BY <1>4, <1>5

LEMMA HoldersBecome ==
  ASSUME TypeOK, NEW b, Becomes(b), NEW x
  PROVE  Holders(x)' = (Holders(x) \ {Depth}) \cup (IF x \in b.got THEN {Depth} ELSE {})
<1>1. Depth \in Nat \ {0} /\ Depth' = Depth
  BY DepthIs DEF Becomes
<1>2. calls'[Depth] = b /\ \A d \in 1 .. Depth - 1 : calls'[d] = calls[d]
  BY DEF Becomes
<1>3. ASSUME NEW d
      PROVE  d \in Holders(x)' <=> (d \in Holders(x) /\ d # Depth) \/ (x \in b.got /\ d = Depth)
  <2>1. /\ d \in Holders(x) <=> d \in 1 .. Depth /\ x \in calls[d].got
        /\ d \in Holders(x)' <=> d \in 1 .. Depth' /\ x \in calls'[d].got
    BY HoldersAre
  <2>2. CASE d \in 1 .. Depth - 1
    <3>1. d \in 1 .. Depth /\ d \in 1 .. Depth' /\ d # Depth /\ d # Depth + 1
      BY <1>1, <1>2, <2>2
    <3>2. calls'[d] = calls[d]
      BY <1>2, <2>2
    <3> QED
      BY <2>1, <3>1, <3>2
  <2>3. CASE d = Depth
    BY <1>1, <1>2, <2>1, <2>3
  <2>4. CASE d \notin 1 .. Depth
    BY <1>1, <1>2, <2>1, <2>4
  <2> QED
    BY <1>1, <2>2, <2>3, <2>4
<1>4. CASE x \in b.got
  BY <1>1, <1>3, <1>4
<1>5. CASE x \notin b.got
  BY <1>3, <1>5
<1> QED
  BY <1>4, <1>5

LEMMA HoldersLeave ==
  ASSUME TypeOK, Leaves, NEW x
  PROVE  Holders(x)' = Holders(x) \ {Depth}
<1>1. Depth \in Nat \ {0} /\ Depth' = Depth - 1
  BY DepthIs DEF Leaves
<1>2. \A d \in 1 .. Depth - 1 : calls'[d] = calls[d]
  BY DEF Leaves
<1>3. ASSUME NEW d
      PROVE  d \in Holders(x)' <=> d \in Holders(x) /\ d # Depth
  <2>1. /\ d \in Holders(x) <=> d \in 1 .. Depth /\ x \in calls[d].got
        /\ d \in Holders(x)' <=> d \in 1 .. Depth' /\ x \in calls'[d].got
    BY HoldersAre
  <2>2. CASE d \in 1 .. Depth - 1
    BY <1>1, <1>2, <2>1, <2>2
  <2>3. CASE d \notin 1 .. Depth - 1
    BY <1>1, <2>1, <2>3
  <2> QED
    BY <2>2, <2>3
<1> QED
  BY <1>3

\* Activations that remain are the same functions in the same methods.
Alike ==
  /\ Depth \in Nat /\ Depth' \in Nat
  /\ \A d \in 1 .. Depth : d <= Depth' =>
       /\ calls'[d].fn = calls[d].fn /\ calls'[d].m = calls[d].m
       /\ calls[d].fn = "native" => calls'[d].kept = calls[d].kept

\* A call leaves the activations what they are, and so does a return.
LEMMA PushesAlike ==
  ASSUME TypeOK, NEW S, NEW a, Pushes(S, a)
  PROVE  Alike /\ \A d \in 1 .. Depth : calls'[d].pc = calls[d].pc
<1>1. Depth \in Nat \ {0} /\ Top \in ActivationType /\ Top = calls[Depth]
  BY DepthIs DEF Top
<1>2. calls'[Depth] = [Top EXCEPT !.got = @ \cup S] /\ Depth' = Depth + 1
      /\ \A d \in 1 .. Depth - 1 : calls'[d] = calls[d]
  BY DEF Pushes
<1>3. /\ calls'[Depth].fn = Top.fn /\ calls'[Depth].m = Top.m
      /\ calls'[Depth].pc = Top.pc /\ calls'[Depth].kept = Top.kept
  BY <1>1, <1>2 DEF ActivationType
<1>4. \A d \in 1 .. Depth : d \in 1 .. Depth - 1 \/ d = Depth
  BY <1>1
<1>5. \A d \in 1 .. Depth :
        /\ calls'[d].fn = calls[d].fn /\ calls'[d].m = calls[d].m
        /\ calls'[d].pc = calls[d].pc /\ calls'[d].kept = calls[d].kept
  BY <1>1, <1>2, <1>3, <1>4
<1> QED
  BY <1>1, <1>2, <1>5 DEF Alike

LEMMA BecomesAlike ==
  ASSUME TypeOK, NEW b, Becomes(b), b.fn = Top.fn, b.m = Top.m, Top.fn = "native" => b.kept = Top.kept
  PROVE  Alike
<1>1. Depth \in Nat \ {0} /\ Top = calls[Depth]
  BY DepthIs DEF Top
<1>2. calls'[Depth] = b /\ Depth' = Depth /\ \A d \in 1 .. Depth - 1 : calls'[d] = calls[d]
  BY DEF Becomes
<1>3. \A d \in 1 .. Depth : d \in 1 .. Depth - 1 \/ d = Depth
  BY <1>1
<1> QED
  BY <1>1, <1>2, <1>3 DEF Alike

LEMMA LeavesAlike ==
  ASSUME TypeOK, Leaves
  PROVE  Alike /\ \A d \in 1 .. Depth' : calls'[d] = calls[d]
<1>1. Depth \in Nat \ {0} /\ Depth' = Depth - 1
  BY DepthIs DEF Leaves
<1>2. \A d \in 1 .. Depth - 1 : calls'[d] = calls[d]
  BY DEF Leaves
<1> QED
  BY <1>1, <1>2 DEF Alike

-----------------------------------------------------------------------------
(* What is kept by steps that do not touch it *)

\* Everybody who has x has it still, and nobody else.
Still(x) == Holders(x)' = Holders(x)

\* Who has still got a thing is the same.
LEMMA StillThere ==
  ASSUME TypeOK, Alike, NEW x, Still(x), NEW d \in Holders(x)
  PROVE  /\ d \in 1 .. Depth /\ d \in 1 .. Depth'
         /\ calls'[d].fn = calls[d].fn /\ calls'[d].m = calls[d].m
<1>1. d \in 1 .. Depth /\ d \in 1 .. Depth'
  BY HoldersAre DEF Still
<1> QED
  BY <1>1 DEF Alike

\* A list stays right when neither it nor who is on it changes.
LEMMA ChunksKept ==
  ASSUME TypeOK, Chunks, Alike, Still("chunk"), java_stack' = java_stack
  PROVE  Chunks'
<1>1. \A k \in DOMAIN java_stack : java_stack[k].owner \in Holders("chunk")
  <2>1. DOMAIN java_stack = 1 .. Len(java_stack)
    BY LenProperties DEF TypeOK
  <2> QED
    BY <2>1, ListsAre DEF Chunks
<1>2. \A k \in DOMAIN java_stack : calls'[java_stack[k].owner].fn = calls[java_stack[k].owner].fn
  BY <1>1, StillThere
<1> QED
  BY <1>2 DEF Chunks, Still, OwnersOf

LEMMA CatchersKept ==
  ASSUME TypeOK, Catchers, Alike, Still("catch"), catch_list' = catch_list,
         \A d \in Holders("catch") : calls'[d].pc = calls[d].pc
  PROVE  Catchers'
<1>1. \A k \in DOMAIN catch_list : catch_list[k].owner \in Holders("catch")
  <2>1. DOMAIN catch_list = 1 .. Len(catch_list)
    BY LenProperties DEF TypeOK
  <2> QED
    BY <2>1, ListsAre DEF Catchers
<1>2. \A k \in DOMAIN catch_list :
        /\ calls'[catch_list[k].owner].fn = calls[catch_list[k].owner].fn
        /\ calls'[catch_list[k].owner].m = calls[catch_list[k].owner].m
        /\ calls'[catch_list[k].owner].pc = calls[catch_list[k].owner].pc
  BY <1>1, StillThere
<1>3. Lists(OwnersOf(catch_list), Holders("catch"))'
  BY DEF Catchers, Still, OwnersOf
<1> QED
  BY <1>2, <1>3 DEF Catchers

LEMMA LocalsKept ==
  ASSUME NativeLocals, Still("frame"), native_locals' = native_locals
  PROVE  NativeLocals'
  BY DEF NativeLocals, Still

LEMMA LimitsKept ==
  ASSUME Limits, Still("limit"), stack_limit' = stack_limit
  PROVE  Limits'
  BY DEF Limits, Still

LEMMA PostingKept ==
  ASSUME TypeOK, Posting, Alike, Still("vmex"), in_vmex' = in_vmex
  PROVE  Posting'
<1>1. \A d \in Holders("vmex") : calls'[d].m = calls[d].m
  BY StillThere
<1>2. {calls'[d].m : d \in Holders("vmex")'} = {calls[d].m : d \in Holders("vmex")}
  BY <1>1 DEF Still
<1> QED
  BY <1>1, <1>2 DEF Posting, Still

LEMMA BalanceKept ==
  ASSUME TypeOK, Balance, Alike, Still("lock"), held' = held
  PROVE  Balance'
<1>1. \A d \in Holders("lock") : calls'[d].m = calls[d].m
  BY StillThere
<1>2. ASSUME NEW m \in Methods
      PROVE  {d \in Holders("lock")' : calls'[d].m = m} = {d \in Holders("lock") : calls[d].m = m}
  BY <1>1 DEF Still
<1> QED
  BY <1>2 DEF Balance

\* What is below the next number.
LEMMA BelowNext ==
  \A n \in Nat : \A x \in 1 .. n : x < n + 1
OBVIOUS

\* Native methods do not come or go.
LEMMA NativesKept ==
  ASSUME TypeOK, JniMethods, Alike, jni_method' = jni_method,
         \A d \in 1 .. Depth : calls[d].fn = "native" => d <= Depth',
         \A d \in 1 .. Depth' : d > Depth => calls'[d].fn # "native"
  PROVE  JniMethods'
<1>1. Depth \in Nat /\ Depth' \in Nat
  BY DEF Alike
<1>2. \A d \in 1 .. Depth' : d \in 1 .. Depth /\ calls[d].fn = "native" <=> calls'[d].fn = "native"
  BY <1>1 DEF Alike
<1>3. \A d \in 1 .. Depth' : d \in 1 .. Depth =>
        /\ calls'[d].m = calls[d].m
        /\ calls[d].fn = "native" => calls'[d].kept = calls[d].kept
  BY <1>1 DEF Alike
<1>4. ASSUME NEW d \in 1 .. Depth', LastNative(d, Depth + 1)'
      PROVE  jni_method' = calls'[d].m
  <2>1. calls'[d].fn = "native" /\ \A x \in 1 .. Depth' : d < x => calls'[x].fn # "native"
    <3>1. \A x \in 1 .. Depth' : x < Depth' + 1
      BY <1>1, BelowNext, Zenon
    <3> QED
      BY <1>4, <3>1, Zenon DEF LastNative
  <2>2. d \in 1 .. Depth /\ calls[d].fn = "native"
    BY <1>2, <2>1
  <2>3. ASSUME NEW x \in 1 .. Depth, d < x PROVE calls[x].fn # "native"
    <3>1. calls[x].fn = "native" => x \in 1 .. Depth'
      BY <1>1
    <3> QED
      BY <1>2, <2>1, <2>3, <3>1
  <2>4. LastNative(d, Depth + 1)
    BY <2>2, <2>3 DEF LastNative
  <2> QED
    BY <1>3, <2>2, <2>4 DEF JniMethods
<1>5. ASSUME NEW d \in 1 .. Depth', NEW e \in 1 .. Depth', d < e, calls'[e].fn = "native", LastNative(d, e)'
      PROVE  calls'[e].kept = calls'[d].m
  <2>1. calls'[d].fn = "native" /\ \A x \in 1 .. Depth' : d < x /\ x < e => calls'[x].fn # "native"
    BY <1>5 DEF LastNative
  <2>2. /\ d \in 1 .. Depth /\ calls[d].fn = "native" /\ e \in 1 .. Depth /\ calls[e].fn = "native"
    BY <1>2, <1>5, <2>1
  <2>3. ASSUME NEW x \in 1 .. Depth, d < x, x < e PROVE calls[x].fn # "native"
    <3>1. x \in 1 .. Depth'
      BY <1>1, <2>3
    <3> QED
      BY <1>2, <2>1, <2>3, <3>1
  <2>4. calls[e].kept = calls[d].m
    BY <1>5, <2>2, <2>3 DEF JniMethods, LastNative
  <2> QED
    BY <1>3, <2>2, <2>4
<1> QED
  BY <1>4, <1>5 DEF JniMethods

-----------------------------------------------------------------------------
(* The Java stack, of whatever depth and owners                             *)

\* The chunks q of n activations: O own one, I are interpreted, H have clipped one, L and M
\* run only while it is clipped.
StackIs(q, n, O, I, H, L, M) ==
  /\ q \in Seq(ChunkType) /\ n \in Nat
  /\ O \subseteq 1 .. n /\ H \subseteq 1 .. n /\ L \subseteq 1 .. n /\ M \subseteq 1 .. n
  /\ Lists(OwnersOf(q), O)
  /\ \A k \in DOMAIN q : q[k].interp <=> q[k].owner \in I
  /\ ClipsIn(q, n, H) /\ ClippedIn(q, n, L, M)

\* What the chunks are.
LEMMA ChunkIs ==
  ASSUME NEW q \in Seq(ChunkType)
  PROVE  /\ DOMAIN q = 1 .. Len(q) /\ Len(q) \in Nat /\ (q = <<>> <=> Len(q) = 0)
         /\ \A k \in DOMAIN q : /\ q[k] \in ChunkType /\ q[k].owner \in Nat
                                /\ q[k].top \in Nat /\ q[k].interp \in BOOLEAN
<1>1. DOMAIN q = 1 .. Len(q) /\ Len(q) \in Nat
  BY LenProperties
<1>2. \A k \in 1 .. Len(q) : q[k] \in ChunkType
  BY ElementOfSeq
<1>3. q = <<>> <=> Len(q) = 0
  BY EmptySeq
<1> QED
  BY <1>1, <1>2, <1>3 DEF ChunkType

\* Their owners are in order, and the last is the greatest.
LEMMA OwnersAre ==
  ASSUME NEW q \in Seq(ChunkType), NEW n \in Nat, NEW O \in SUBSET (1 .. n), Lists(OwnersOf(q), O)
  PROVE  /\ \A k \in DOMAIN q : q[k].owner \in O /\ q[k].owner \in 1 .. n
         /\ \A x \in O : \E k \in DOMAIN q : q[k].owner = x
         /\ \A j, k \in DOMAIN q : j < k => q[j].owner < q[k].owner
         /\ q # <<>> => /\ Len(q) \in DOMAIN q
                        /\ \A x \in O : x <= q[Len(q)].owner
<1>1. DOMAIN q = 1 .. Len(q) /\ Len(q) \in Nat /\ (q = <<>> <=> Len(q) = 0)
  BY ChunkIs
<1>2. /\ \A k \in DOMAIN q : q[k].owner \in O
      /\ \A x \in O : \E k \in DOMAIN q : q[k].owner = x
      /\ \A j, k \in DOMAIN q : j < k => q[j].owner < q[k].owner
  BY <1>1, ListsAre
<1>3. \A k \in DOMAIN q : q[k].owner \in 1 .. n
  BY <1>2
<1>4. ASSUME q # <<>>, NEW x \in O PROVE x <= q[Len(q)].owner
  <2>1. PICK k \in DOMAIN q : q[k].owner = x
    BY <1>2
  <2>2. Len(q) \in DOMAIN q /\ (k < Len(q) \/ k = Len(q))
    BY <1>1, <1>4
  <2> QED
    BY <1>2, <1>3, <2>1, <2>2
<1> QED
  BY <1>1, <1>2, <1>3, <1>4

\* What comes after the last chunk.
LEMMA AfterLast ==
  ASSUME NEW q \in Seq(ChunkType), NEW n \in Nat, NEW O \in SUBSET (1 .. n), Lists(OwnersOf(q), O),
         \A x \in O : x < n
  PROVE  \A k \in DOMAIN q : LastBefore(q, k, n) <=> k = Len(q)
<1>1. DOMAIN q = 1 .. Len(q) /\ Len(q) \in Nat
  BY ChunkIs
<1>2. \A k \in DOMAIN q : q[k].owner < n /\ q[k].owner \in Nat
  BY OwnersAre
<1>3. ASSUME NEW k \in DOMAIN q, k # Len(q) PROVE ~LastBefore(q, k, n)
  <2>1. k < Len(q) /\ k + 1 \in DOMAIN q
    BY <1>1, <1>3
  <2>2. ~(n <= q[k + 1].owner)
    BY <1>2, <2>1
  <2> QED
    BY <2>1, <2>2 DEF LastBefore
<1>4. ASSUME NEW k \in DOMAIN q, k = Len(q) PROVE LastBefore(q, k, n)
  BY <1>1, <1>2, <1>4 DEF LastBefore
<1> QED
  BY <1>3, <1>4

\* Another activation that has nothing is on top.
LEMMA StackGrows ==
  ASSUME NEW q, NEW n, NEW O, NEW I, NEW H, NEW L, NEW M, StackIs(q, n, O, I, H, L, M)
  PROVE  StackIs(q, n + 1, O, I, H, L, M)
<1>1. /\ q \in Seq(ChunkType) /\ n \in Nat
      /\ O \subseteq 1 .. n /\ H \subseteq 1 .. n /\ L \subseteq 1 .. n /\ M \subseteq 1 .. n
  BY DEF StackIs
<1>2. \A k \in DOMAIN q : q[k].top \in Nat /\ (q[k].top # 0 => q[k].top < n)
  BY <1>1, ChunkIs DEF StackIs, ClipsIn
<1>3. \A d \in 1 .. n + 1 : d \in 1 .. n \/ d = n + 1
  BY <1>1
<1>4. n + 1 \notin H /\ n + 1 \notin L /\ n + 1 \notin M
  BY <1>1
<1>5. \A k \in DOMAIN q : q[k].top # (n + 1) - 1 \/ n = 0
  BY <1>1, <1>2
<1>6. ASSUME NEW k \in DOMAIN q, NEW d \in 1 .. n + 1, LastBefore(q, k, d)
      PROVE  d \in H <=> q[k].top = d - 1
  <2>1. CASE d \in 1 .. n
    BY <1>6, <2>1 DEF StackIs, ClipsIn
  <2>2. CASE d = n + 1
    <3>1. n # 0
      BY <1>1, OwnersAre DEF StackIs
    <3> QED
      BY <1>4, <1>5, <2>2, <3>1
  <2> QED
    BY <1>3, <2>1, <2>2
<1>7. \A k \in DOMAIN q : q[k].top # 0 => q[k].top < n + 1 /\ LastBefore(q, k, q[k].top + 1)
  BY <1>1, <1>2 DEF StackIs, ClipsIn
<1>8. ClipsIn(q, n + 1, H)
  BY <1>6, <1>7 DEF StackIs, ClipsIn
<1>9. ClippedIn(q, n + 1, L, M)
  BY <1>3, <1>4 DEF StackIs, ClippedIn
<1>10. 1 .. n \subseteq 1 .. n + 1 /\ n + 1 \in Nat
  BY <1>1
<1> QED
  BY <1>1, <1>8, <1>9, <1>10 DEF StackIs

\* One that has no chunk, and has clipped none, leaves.
LEMMA StackShrinks ==
  ASSUME NEW q, NEW n, NEW O, NEW I, NEW H, NEW L, NEW M, StackIs(q, n, O, I, H, L, M), n > 0,
         n \notin O, n \notin H
  PROVE  StackIs(q, n - 1, O, I, H, L \ {n}, M \ {n})
<1>1. /\ q \in Seq(ChunkType) /\ n \in Nat /\ n - 1 \in Nat
      /\ O \subseteq 1 .. n /\ H \subseteq 1 .. n /\ L \subseteq 1 .. n /\ M \subseteq 1 .. n
  BY DEF StackIs
<1>2. \A d \in 1 .. n : d \in 1 .. n - 1 \/ d = n
  BY <1>1
<1>3. /\ O \subseteq 1 .. n - 1 /\ H \subseteq 1 .. n - 1
      /\ L \ {n} \subseteq 1 .. n - 1 /\ M \ {n} \subseteq 1 .. n - 1
  BY <1>1, <1>2
<1>4. 1 .. n - 1 \subseteq 1 .. n
  BY <1>1
<1>5. ASSUME NEW k \in DOMAIN q, q[k].top # 0
      PROVE  q[k].top < n - 1 /\ LastBefore(q, k, q[k].top + 1)
  <2>1. q[k].top \in Nat /\ q[k].top < n /\ LastBefore(q, k, q[k].top + 1)
    BY <1>1, <1>5, ChunkIs DEF StackIs, ClipsIn
  <2>2. ASSUME q[k].top = n - 1 PROVE FALSE
    <3>1. q[k].top + 1 = n /\ n \in 1 .. n
      BY <1>1, <2>1, <2>2
    <3>2. n \in H
      BY <2>1, <2>2, <3>1 DEF StackIs, ClipsIn
    <3> QED
      BY <3>2
  <2> QED
    BY <1>1, <2>1, <2>2
<1>6. ClipsIn(q, n - 1, H)
  BY <1>4, <1>5 DEF StackIs, ClipsIn
<1>7. ClippedIn(q, n - 1, L \ {n}, M \ {n})
  BY <1>4 DEF StackIs, ClippedIn
<1> QED
  BY <1>1, <1>3, <1>6, <1>7 DEF StackIs

\* What leads on may be less, and what runs is told from what is compiled.
LEMMA StackSame ==
  ASSUME NEW q, NEW n, NEW O, NEW I, NEW H, NEW L, NEW M, StackIs(q, n, O, I, H, L, M),
         NEW J, \A x \in O : x \in I <=> x \in J,
         NEW Q \in SUBSET L, NEW N \in SUBSET M
  PROVE  StackIs(q, n, O, J, H, Q, N)
<1>1. \A k \in DOMAIN q : q[k].owner \in O
  BY OwnersAre DEF StackIs
<1>2. ClippedIn(q, n, Q, N)
  BY DEF StackIs, ClippedIn
<1> QED
  BY <1>1, <1>2 DEF StackIs

\* The top activation pushes a chunk.
LEMMA StackPush ==
  ASSUME NEW q, NEW n, NEW O, NEW I, NEW H, NEW L, NEW M, StackIs(q, n, O, I, H, L, M), n > 0,
         n \notin O, NEW b \in BOOLEAN, n \in I <=> b
  PROVE  StackIs(Append(q, [interp |-> b, owner |-> n, top |-> 0]), n, O \cup {n}, I, H, L, M)
<1>1. PICK r : r = [interp |-> b, owner |-> n, top |-> 0]
  OBVIOUS
<1>2. PICK p : p = Append(q, r)
  OBVIOUS
<1>3. /\ q \in Seq(ChunkType) /\ n \in Nat /\ O \in SUBSET (1 .. n)
      /\ \A x \in O : x < n /\ x \in Nat
  <2>1. q \in Seq(ChunkType) /\ n \in Nat /\ O \in SUBSET (1 .. n)
    BY DEF StackIs
  <2>2. ASSUME NEW x \in O PROVE x < n /\ x \in Nat
    <3>1. x \in 1 .. n /\ x # n
      BY <2>1
    <3> QED
      BY <2>1, <3>1
  <2> QED
    BY <2>1, <2>2
<1>4. r \in ChunkType /\ r.owner = n /\ r.top = 0 /\ r.interp = b
  BY <1>1, <1>3 DEF ChunkType
<1>5. /\ p \in Seq(ChunkType) /\ Len(p) = Len(q) + 1 /\ Len(q) \in Nat
      /\ DOMAIN q = 1 .. Len(q) /\ DOMAIN p = 1 .. Len(q) + 1
      /\ \A k \in 1 .. Len(q) : p[k] = q[k]
      /\ p[Len(q) + 1] = r
  BY <1>2, <1>3, <1>4, AppendIs, LenProperties
<1>6. \A k \in DOMAIN p : (k \in DOMAIN q /\ p[k] = q[k]) \/ (k = Len(q) + 1 /\ p[k] = r)
  BY <1>5
<1>7. ASSUME NEW k \in DOMAIN q, NEW d \in 1 .. n PROVE LastBefore(p, k, d) <=> LastBefore(q, k, d)
  <2>1. CASE k < Len(q)
    <3>1. k + 1 \in DOMAIN q /\ p[k + 1] = q[k + 1] /\ p[k] = q[k] /\ k < Len(p)
      BY <1>5, <2>1
    <3> QED
      BY <2>1, <3>1 DEF LastBefore
  <2>2. CASE k = Len(q)
    <3>1. p[k + 1].owner = n /\ p[k] = q[k] /\ k < Len(p) /\ ~(k < Len(q)) /\ d <= n
      BY <1>3, <1>4, <1>5, <2>2
    <3> QED
      BY <3>1 DEF LastBefore
  <2> QED
    BY <1>5, <2>1, <2>2
<1>8. \A d \in 1 .. n : ~LastBefore(p, Len(q) + 1, d)
  BY <1>3, <1>4, <1>5 DEF LastBefore
<1>9. ClipsIn(p, n, H)
  <2>1. \A k \in DOMAIN p, d \in 1 .. n : LastBefore(p, k, d) => (d \in H <=> p[k].top = d - 1)
    BY <1>6, <1>7, <1>8 DEF StackIs, ClipsIn
  <2>2. ASSUME NEW k \in DOMAIN p, p[k].top # 0
        PROVE  p[k].top < n /\ LastBefore(p, k, p[k].top + 1)
    <3>1. k \in DOMAIN q /\ p[k] = q[k]
      BY <1>4, <1>6, <2>2
    <3>2. q[k].top < n /\ LastBefore(q, k, q[k].top + 1) /\ q[k].top \in Nat
      BY <1>3, <2>2, <3>1, ChunkIs DEF StackIs, ClipsIn
    <3>3. q[k].top + 1 \in 1 .. n
      BY <1>3, <3>2
    <3> QED
      BY <1>7, <3>1, <3>2, <3>3
  <2>3. \A d \in H : \E k \in DOMAIN p : p[k].owner < d
    BY <1>5 DEF StackIs, ClipsIn
  <2> QED
    BY <2>1, <2>2, <2>3 DEF ClipsIn
<1>10. ClippedIn(p, n, L, M)
  BY <1>6, <1>7, <1>8 DEF StackIs, ClippedIn
<1>11. Lists(OwnersOf(p), O \cup {n})
  <2>1. O \in SUBSET Nat /\ Lists(OwnersOf(q), O)
    BY <1>3 DEF StackIs
  <2> QED
    BY <1>2, <1>3, <1>4, <2>1, ListsMore
<1>12. \A k \in DOMAIN p : p[k].interp <=> p[k].owner \in I
  BY <1>4, <1>6 DEF StackIs
<1>13. O \cup {n} \subseteq 1 .. n
  BY <1>3
<1> QED
  BY <1>1, <1>2, <1>5, <1>9, <1>10, <1>11, <1>12, <1>13 DEF StackIs

\* It pops its chunk.
LEMMA StackPop ==
  ASSUME NEW q, NEW n, NEW O, NEW I, NEW H, NEW L, NEW M, StackIs(q, n, O, I, H, L, M), n \in O
  PROVE  q # <<>> /\ StackIs(Front(q), n, O \ {n}, I, H, L, M)
<1>1. /\ q \in Seq(ChunkType) /\ n \in Nat /\ O \in SUBSET (1 .. n) /\ O \in SUBSET Nat
      /\ \A x \in O : x <= n
  BY DEF StackIs
<1>2. /\ q # <<>> /\ Last(q).owner = n
      /\ Lists(OwnersOf(Front(q)), O \ {n})
  BY <1>1, ListsLess DEF StackIs
<1>3. PICK p : p = Front(q)
  OBVIOUS
<1>4. /\ p \in Seq(ChunkType) /\ Len(p) = Len(q) - 1 /\ Len(q) \in Nat \ {0}
      /\ DOMAIN q = 1 .. Len(q) /\ DOMAIN p = 1 .. Len(q) - 1
      /\ \A k \in 1 .. Len(q) - 1 : p[k] = q[k]
      /\ q[Len(q)].owner = n
  BY <1>1, <1>2, <1>3, FrontOf, LenProperties
<1>5. \A k \in DOMAIN p : k \in DOMAIN q /\ p[k] = q[k]
  BY <1>4
<1>6. ASSUME NEW k \in DOMAIN p, NEW d \in 1 .. n PROVE LastBefore(p, k, d) <=> LastBefore(q, k, d)
  <2>1. CASE k < Len(p)
    <3>1. k + 1 \in DOMAIN p /\ p[k + 1] = q[k + 1] /\ p[k] = q[k] /\ k < Len(q)
      BY <1>4, <2>1
    <3> QED
      BY <2>1, <3>1 DEF LastBefore
  <2>2. CASE k = Len(p)
    <3>1. q[k + 1].owner = n /\ p[k] = q[k] /\ k < Len(q) /\ ~(k < Len(p)) /\ d <= n
      BY <1>1, <1>4, <2>2
    <3> QED
      BY <3>1 DEF LastBefore
  <2> QED
    BY <1>4, <2>1, <2>2
<1>7. ClipsIn(p, n, H)
  <2>1. \A k \in DOMAIN p, d \in 1 .. n : LastBefore(p, k, d) => (d \in H <=> p[k].top = d - 1)
    BY <1>5, <1>6 DEF StackIs, ClipsIn
  <2>2. ASSUME NEW k \in DOMAIN p, p[k].top # 0
        PROVE  p[k].top < n /\ LastBefore(p, k, p[k].top + 1)
    <3>1. k \in DOMAIN q /\ p[k] = q[k]
      BY <1>5
    <3>2. q[k].top < n /\ LastBefore(q, k, q[k].top + 1) /\ q[k].top \in Nat
      BY <1>1, <2>2, <3>1, ChunkIs DEF StackIs, ClipsIn
    <3>3. q[k].top + 1 \in 1 .. n
      BY <1>1, <3>2
    <3> QED
      BY <1>6, <3>1, <3>2, <3>3
  <2>3. ASSUME NEW d \in H PROVE \E k \in DOMAIN p : p[k].owner < d
    <3>1. PICK k \in DOMAIN q : q[k].owner < d
      BY DEF StackIs, ClipsIn
    <3>2. d \in 1 .. n
      BY DEF StackIs
    <3>3. k # Len(q)
      BY <1>1, <1>4, <3>1, <3>2
    <3>4. k \in DOMAIN p /\ p[k] = q[k]
      BY <1>4, <3>3
    <3> QED
      BY <3>1, <3>4
  <2> QED
    BY <2>1, <2>2, <2>3 DEF ClipsIn
<1>8. ClippedIn(p, n, L, M)
  BY <1>5, <1>6 DEF StackIs, ClippedIn
<1>9. \A k \in DOMAIN p : p[k].interp <=> p[k].owner \in I
  BY <1>5 DEF StackIs
<1>10. O \ {n} \subseteq 1 .. n
  BY <1>1
<1> QED
  BY <1>2, <1>3, <1>4, <1>7, <1>8, <1>9, <1>10 DEF StackIs

\* The top of the last chunk is set.
TopSet(q, t) == [q EXCEPT ![Len(q)].top = t]

\* What clipping does to the list of chunks.
LEMMA TopSetIs ==
  ASSUME NEW q \in Seq(ChunkType), q # <<>>, NEW t \in Nat
  PROVE  /\ TopSet(q, t) \in Seq(ChunkType) /\ Len(TopSet(q, t)) = Len(q) /\ DOMAIN TopSet(q, t) = DOMAIN q
         /\ \A k \in DOMAIN q : k # Len(q) => TopSet(q, t)[k] = q[k]
         /\ \A k \in DOMAIN q : /\ TopSet(q, t)[k].owner = q[k].owner
                                /\ TopSet(q, t)[k].interp = q[k].interp
         /\ TopSet(q, t)[Len(q)].top = t
<1>1. DOMAIN q = 1 .. Len(q) /\ Len(q) \in Nat /\ Len(q) \in 1 .. Len(q)
  BY ChunkIs
<1>2. PICK r : r = [q[Len(q)] EXCEPT !.top = t]
  OBVIOUS
<1>3. q[Len(q)] \in ChunkType
  BY <1>1, ChunkIs
<1>4. r \in ChunkType /\ r.owner = q[Len(q)].owner /\ r.interp = q[Len(q)].interp /\ r.top = t
  BY <1>2, <1>3 DEF ChunkType
<1>5. PICK p : p = [q EXCEPT ![Len(q)] = r]
  OBVIOUS
<1>6. TopSet(q, t) = p
  BY <1>2, <1>5 DEF TopSet
<1>7. /\ p \in Seq(ChunkType) /\ Len(p) = Len(q)
      /\ \A k \in 1 .. Len(q) : p[k] = IF k = Len(q) THEN r ELSE q[k]
  BY <1>1, <1>4, <1>5, ExceptSeq
<1>8. DOMAIN p = DOMAIN q
  BY <1>1, <1>7, LenProperties
<1> QED
  BY <1>1, <1>4, <1>6, <1>7, <1>8

\* The last chunk's top does not matter to what lists tell and to what After tells.
LEMMA TopSetLists ==
  ASSUME NEW q \in Seq(ChunkType), q # <<>>, NEW t \in Nat
  PROVE  /\ OwnersOf(TopSet(q, t)) = OwnersOf(q)
         /\ \A d : \A k \in DOMAIN q : LastBefore(TopSet(q, t), k, d) <=> LastBefore(q, k, d)
<1>1. PICK p : p = TopSet(q, t)
  OBVIOUS
<1>2. /\ Len(p) = Len(q) /\ DOMAIN p = DOMAIN q /\ DOMAIN q = 1 .. Len(q) /\ Len(q) \in Nat
      /\ \A k \in DOMAIN q : p[k].owner = q[k].owner
  BY <1>1, TopSetIs, ChunkIs
<1>3. OwnersOf(p) = OwnersOf(q)
  BY <1>2 DEF OwnersOf
<1>4. ASSUME NEW k \in DOMAIN q, NEW d PROVE LastBefore(p, k, d) <=> LastBefore(q, k, d)
  <2>1. k < Len(q) => k + 1 \in DOMAIN q
    BY <1>2
  <2> QED
    BY <1>2, <2>1 DEF LastBefore
<1> QED
  BY <1>1, <1>3, <1>4

\* The top activation clips the last chunk.
LEMMA StackClip ==
  ASSUME NEW q, NEW n, NEW O, NEW I, NEW H, NEW L, NEW M, StackIs(q, n, O, I, H, L, M), n > 0,
         n \notin O, q # <<>>, Last(q).top = 0
  PROVE  StackIs(TopSet(q, n - 1), n, O, I, H \cup {n}, L \cup {n}, M \cup {n})
<1>1. /\ q \in Seq(ChunkType) /\ n \in Nat /\ O \in SUBSET (1 .. n) /\ n - 1 \in Nat
      /\ H \subseteq 1 .. n /\ L \subseteq 1 .. n /\ M \subseteq 1 .. n /\ \A x \in O : x < n
      /\ Lists(OwnersOf(q), O)
  BY DEF StackIs
<1>2. PICK p : p = TopSet(q, n - 1)
  OBVIOUS
<1>3. /\ p \in Seq(ChunkType) /\ Len(p) = Len(q) /\ DOMAIN p = DOMAIN q
      /\ \A k \in DOMAIN q : k # Len(q) => p[k] = q[k]
      /\ \A k \in DOMAIN q : p[k].owner = q[k].owner /\ p[k].interp = q[k].interp
      /\ p[Len(q)].top = n - 1
  BY <1>1, <1>2, TopSetIs
<1>4. OwnersOf(p) = OwnersOf(q) /\ \A d : \A k \in DOMAIN q : LastBefore(p, k, d) <=> LastBefore(q, k, d)
  BY <1>1, <1>2, TopSetLists
<1>5. DOMAIN q = 1 .. Len(q) /\ Len(q) \in DOMAIN q /\ Last(q) = q[Len(q)] /\ q[Len(q)].top = 0
  <2>1. Last(q) = q[Len(q)]
    BY DEF Last
  <2> QED
    BY <1>1, <2>1, ChunkIs
<1>6. \A k \in DOMAIN q : q[k].owner \in 1 .. n /\ q[k].owner < n
  BY <1>1, OwnersAre
<1>7. \A k \in DOMAIN q : LastBefore(q, k, n) <=> k = Len(q)
  BY <1>1, AfterLast
<1>8. n - 1 # 0
  BY <1>1, <1>5, <1>6
<1>9. \A d \in 1 .. n : LastBefore(q, Len(q), d) => d # 1
  BY <1>5, <1>6 DEF LastBefore
<1>10. ASSUME NEW k \in DOMAIN q, NEW d \in 1 .. n, LastBefore(q, k, d)
       PROVE  d \in H \cup {n} <=> p[k].top = d - 1
  <2>1. d \in H <=> q[k].top = d - 1
    BY <1>10 DEF StackIs, ClipsIn
  <2>2. CASE k = Len(q)
    <3>1. d \notin H
      BY <1>5, <1>9, <1>10, <2>1, <2>2
    <3>2. n - 1 = d - 1 <=> n = d
      BY <1>1
    <3> QED
      BY <1>3, <2>2, <3>1, <3>2
  <2>3. CASE k # Len(q)
    BY <1>3, <1>7, <1>10, <2>1, <2>3
  <2> QED
    BY <2>2, <2>3
<1>11. ASSUME NEW k \in DOMAIN q, p[k].top # 0
       PROVE  p[k].top < n /\ LastBefore(q, k, p[k].top + 1)
  <2>1. CASE k = Len(q)
    <3>1. (n - 1) + 1 = n /\ n - 1 < n
      BY <1>1
    <3> QED
      BY <1>3, <1>7, <2>1, <3>1
  <2>2. CASE k # Len(q)
    BY <1>3, <1>11, <2>2 DEF StackIs, ClipsIn
  <2> QED
    BY <2>1, <2>2
<1>12. \A d \in H \cup {n} : \E k \in DOMAIN q : p[k].owner < d
  <2>1. \A d \in H : \E k \in DOMAIN q : p[k].owner < d
    BY <1>3 DEF StackIs, ClipsIn
  <2>2. p[Len(q)].owner < n
    BY <1>3, <1>5, <1>6
  <2> QED
    BY <1>5, <2>1, <2>2
<1>13. ClipsIn(p, n, H \cup {n})
  BY <1>3, <1>4, <1>10, <1>11, <1>12 DEF ClipsIn
<1>14. ASSUME NEW k \in DOMAIN q, NEW d \in 1 .. n, LastBefore(q, k, d),
              d \in L \cup {n} \/ (d \in M \cup {n} /\ ~q[k].interp)
       PROVE  p[k].top # 0 /\ p[k].top < d
  <2>1. CASE d = n
    BY <1>1, <1>3, <1>7, <1>8, <1>14, <2>1
  <2>2. CASE d # n
    <3>1. q[k].top # 0 /\ q[k].top < d
      BY <1>14, <2>2 DEF StackIs, ClippedIn
    <3> QED
      BY <1>3, <1>5, <3>1
  <2> QED
    BY <2>1, <2>2
<1>15. ClippedIn(p, n, L \cup {n}, M \cup {n})
  BY <1>3, <1>4, <1>14 DEF ClippedIn
<1>16. n \in 1 .. n
  BY <1>1
<1> QED
  BY <1>1, <1>2, <1>3, <1>4, <1>13, <1>15, <1>16 DEF StackIs

\* It finds that it is clipped, or that there is none.
LEMMA StackClipped ==
  ASSUME NEW q, NEW n, NEW O, NEW I, NEW H, NEW L, NEW M, StackIs(q, n, O, I, H, L, M), n > 0,
         n \notin O, q # <<>> => Last(q).top # 0
  PROVE  StackIs(q, n, O, I, H, L \cup {n}, M \cup {n})
<1>1. /\ q \in Seq(ChunkType) /\ n \in Nat /\ O \in SUBSET (1 .. n) /\ n \in 1 .. n
      /\ H \subseteq 1 .. n /\ L \subseteq 1 .. n /\ M \subseteq 1 .. n /\ \A x \in O : x < n
      /\ Lists(OwnersOf(q), O)
  BY DEF StackIs
<1>2. DOMAIN q = 1 .. Len(q) /\ Last(q) = q[Len(q)] /\ (q = <<>> <=> Len(q) = 0)
  BY <1>1, ChunkIs DEF Last
<1>3. \A k \in DOMAIN q : LastBefore(q, k, n) <=> k = Len(q)
  BY <1>1, AfterLast
<1>4. ASSUME NEW k \in DOMAIN q, NEW d \in 1 .. n, LastBefore(q, k, d),
             d \in L \cup {n} \/ (d \in M \cup {n} /\ ~q[k].interp)
      PROVE  q[k].top # 0 /\ q[k].top < d
  <2>1. CASE d = n
    <3>1. k = Len(q) /\ q # <<>>
      BY <1>2, <1>3, <1>4, <2>1
    <3>2. q[k].top # 0
      BY <1>2, <3>1
    <3> QED
      BY <2>1, <3>2 DEF StackIs, ClipsIn
  <2>2. CASE d # n
    BY <1>4, <2>2 DEF StackIs, ClippedIn
  <2> QED
    BY <2>1, <2>2
<1>5. ClippedIn(q, n, L \cup {n}, M \cup {n})
  BY <1>4 DEF ClippedIn
<1> QED
  BY <1>1, <1>5 DEF StackIs

\* One that calls interpreted code from the interpreter's own chunk need not clip it.
LEMMA StackInterp ==
  ASSUME NEW q, NEW n, NEW O, NEW I, NEW H, NEW L, NEW M, StackIs(q, n, O, I, H, L, M), n > 0,
         n \notin O, q # <<>>, Last(q).interp
  PROVE  StackIs(q, n, O, I, H, L, M \cup {n})
<1>1. /\ q \in Seq(ChunkType) /\ n \in Nat /\ O \in SUBSET (1 .. n) /\ n \in 1 .. n
      /\ H \subseteq 1 .. n /\ L \subseteq 1 .. n /\ M \subseteq 1 .. n /\ \A x \in O : x < n
      /\ Lists(OwnersOf(q), O)
  BY DEF StackIs
<1>2. Last(q) = q[Len(q)]
  BY DEF Last
<1>3. \A k \in DOMAIN q : LastBefore(q, k, n) <=> k = Len(q)
  BY <1>1, AfterLast
<1>4. ASSUME NEW k \in DOMAIN q, NEW d \in 1 .. n, LastBefore(q, k, d),
             d \in L \/ (d \in M \cup {n} /\ ~q[k].interp)
      PROVE  q[k].top # 0 /\ q[k].top < d
  <2>1. d # n \/ d \in L
    BY <1>2, <1>3, <1>4
  <2> QED
    BY <1>4, <2>1 DEF StackIs, ClippedIn
<1>5. ClippedIn(q, n, L, M \cup {n})
  BY <1>4 DEF ClippedIn
<1> QED
  BY <1>1, <1>5 DEF StackIs

\* What it has clipped it unclips.
LEMMA StackUnclip ==
  ASSUME NEW q, NEW n, NEW O, NEW I, NEW H, NEW L, NEW M, StackIs(q, n, O, I, H, L, M), n > 0,
         n \notin O, n \in H
  PROVE  q # <<>> /\ Last(q).top = n - 1 /\ StackIs(TopSet(q, 0), n, O, I, H \ {n}, L \ {n}, M \ {n})
<1>1. /\ q \in Seq(ChunkType) /\ n \in Nat /\ O \in SUBSET (1 .. n) /\ n - 1 \in Nat
      /\ H \subseteq 1 .. n /\ L \subseteq 1 .. n /\ M \subseteq 1 .. n /\ \A x \in O : x < n
      /\ Lists(OwnersOf(q), O)
  BY DEF StackIs
<1>2. q # <<>>
  <2>1. PICK k \in DOMAIN q : q[k].owner < n
    BY DEF StackIs, ClipsIn
  <2> QED
    BY <1>1, <2>1, ChunkIs
<1>3. PICK p : p = TopSet(q, 0)
  OBVIOUS
<1>4. /\ p \in Seq(ChunkType) /\ Len(p) = Len(q) /\ DOMAIN p = DOMAIN q
      /\ \A k \in DOMAIN q : k # Len(q) => p[k] = q[k]
      /\ \A k \in DOMAIN q : p[k].owner = q[k].owner /\ p[k].interp = q[k].interp
      /\ p[Len(q)].top = 0
  BY <1>1, <1>2, <1>3, TopSetIs
<1>5. OwnersOf(p) = OwnersOf(q) /\ \A d : \A k \in DOMAIN q : LastBefore(p, k, d) <=> LastBefore(q, k, d)
  BY <1>1, <1>2, <1>3, TopSetLists
<1>6. DOMAIN q = 1 .. Len(q) /\ Len(q) \in DOMAIN q /\ Last(q) = q[Len(q)]
  BY <1>1, <1>2, ChunkIs DEF Last
<1>7. \A k \in DOMAIN q : q[k].owner \in 1 .. n /\ q[k].owner < n
  BY <1>1, OwnersAre
<1>8. \A k \in DOMAIN q : LastBefore(q, k, n) <=> k = Len(q)
  BY <1>1, AfterLast
<1>9. q[Len(q)].top = n - 1
  <2>1. LastBefore(q, Len(q), n) /\ n \in 1 .. n
    BY <1>1, <1>6, <1>8
  <2> QED
    BY <1>6, <2>1 DEF StackIs, ClipsIn
<1>10. \A d \in 1 .. n : LastBefore(q, Len(q), d) => d # 1
  BY <1>6, <1>7 DEF LastBefore
<1>11. ASSUME NEW k \in DOMAIN q, NEW d \in 1 .. n, LastBefore(q, k, d)
       PROVE  d \in H \ {n} <=> p[k].top = d - 1
  <2>1. d \in H <=> q[k].top = d - 1
    BY <1>11 DEF StackIs, ClipsIn
  <2>2. CASE k = Len(q)
    <3>1. d \notin H \ {n}
      <4>1. n - 1 = d - 1 <=> n = d
        BY <1>1
      <4> QED
        BY <1>9, <2>1, <2>2, <4>1
    <3>2. 0 # d - 1
      BY <1>10, <1>11, <2>2
    <3> QED
      BY <1>4, <2>2, <3>1, <3>2
  <2>3. CASE k # Len(q)
    BY <1>4, <1>8, <1>11, <2>1, <2>3
  <2> QED
    BY <2>2, <2>3
<1>12. ASSUME NEW k \in DOMAIN q, p[k].top # 0
       PROVE  p[k].top < n /\ LastBefore(q, k, p[k].top + 1)
  BY <1>4, <1>12 DEF StackIs, ClipsIn
<1>13. \A d \in H \ {n} : \E k \in DOMAIN q : p[k].owner < d
  BY <1>4 DEF StackIs, ClipsIn
<1>14. ClipsIn(p, n, H \ {n})
  BY <1>4, <1>5, <1>11, <1>12, <1>13 DEF ClipsIn
<1>15. ASSUME NEW k \in DOMAIN q, NEW d \in 1 .. n, LastBefore(q, k, d),
              d \in L \ {n} \/ (d \in M \ {n} /\ ~q[k].interp)
       PROVE  p[k].top # 0 /\ p[k].top < d
  <2>1. q[k].top # 0 /\ q[k].top < d /\ d < n
    BY <1>1, <1>15 DEF StackIs, ClippedIn
  <2>2. k # Len(q)
    BY <1>1, <1>9, <2>1
  <2> QED
    BY <1>4, <2>1, <2>2
<1>16. ClippedIn(p, n, L \ {n}, M \ {n})
  BY <1>4, <1>5, <1>15 DEF ClippedIn
<1> QED
  BY <1>1, <1>2, <1>3, <1>4, <1>5, <1>6, <1>9, <1>14, <1>16 DEF StackIs

-----------------------------------------------------------------------------
(* The Java stack, as calls are made and return                             *)

\* The parameters of StackIs that the thread has.
Interps == {d \in 1 .. Depth : calls[d].fn = "interp"}
Stacks == Chunks /\ Clips /\ Clipped

\* The Java stack is one of those above, now and after a step.
LEMMA StackNow ==
  ASSUME TypeOK, Stacks
  PROVE  StackIs(java_stack, Depth, Holders("chunk"), Interps, Holders("clip"), Leading, Interpreting)
<1>1. java_stack \in Seq(ChunkType) /\ Depth \in Nat
  BY DepthIs DEF TypeOK
<1>2. /\ Holders("chunk") \in SUBSET (1 .. Depth) /\ Holders("clip") \subseteq 1 .. Depth
      /\ Leading \subseteq 1 .. Depth /\ Interpreting \subseteq 1 .. Depth
  BY DEF Holders, Leading, Interpreting
<1>3. Lists(OwnersOf(java_stack), Holders("chunk"))
  BY DEF Stacks, Chunks
<1>4. \A k \in DOMAIN java_stack : java_stack[k].owner \in 1 .. Depth
  BY <1>1, <1>2, <1>3, OwnersAre
<1>5. \A k \in DOMAIN java_stack : java_stack[k].interp <=> java_stack[k].owner \in Interps
  BY <1>4 DEF Stacks, Chunks, Interps
<1> QED
  BY <1>1, <1>2, <1>3, <1>5 DEF StackIs, Stacks, Clips, Clipped

LEMMA StackThen ==
  ASSUME StackIs(java_stack', Depth', Holders("chunk")', Interps', Holders("clip")', Leading', Interpreting')
  PROVE  Stacks'
<1>1. /\ java_stack' \in Seq(ChunkType) /\ Depth' \in Nat /\ Holders("chunk")' \in SUBSET (1 .. Depth')
      /\ Lists(OwnersOf(java_stack'), Holders("chunk")')
      /\ \A k \in DOMAIN java_stack' : java_stack'[k].interp <=> java_stack'[k].owner \in Interps'
  BY DEF StackIs
<1>2. OwnersOf(java_stack') = OwnersOf(java_stack)'
  BY DEF OwnersOf
<1>3. \A k \in DOMAIN java_stack' : java_stack'[k].owner \in 1 .. Depth'
  BY <1>1, OwnersAre
<1>4. Chunks'
  BY <1>1, <1>2, <1>3 DEF Chunks, Interps
<1>5. Clips' /\ Clipped'
  <2>1. ClipsIn(java_stack', Depth', Holders("clip")') /\ ClippedIn(java_stack', Depth', Leading', Interpreting')
    BY DEF StackIs
  <2> QED
    BY <2>1 DEF Clips, Clipped, ClipsIn, ClippedIn, LastBefore
<1> QED
  BY <1>4, <1>5 DEF Stacks

\* Who leads on when another function is called.
LEMMA PushesLeads ==
  ASSUME TypeOK, NEW S \in SUBSET Things, NEW a \in ActivationType, Pushes(S, a),
         a.fn # "gate" \/ a.got = {}
  PROVE  /\ \A d \in 1 .. Depth : d \in Interps' <=> d \in Interps
         /\ Depth + 1 \in Interps' <=> a.fn = "interp"
         /\ Leading' \subseteq Leading \cup {Depth} /\ Interpreting' \subseteq Interpreting \cup {Depth}
         /\ (Top.fn # "gate" \/ S = {}) /\ (Top.fn # "jni_a" \/ a.fn # "native") => Leading' \subseteq Leading
         /\ (Top.fn # "vinterp" \/ a.fn # "interp") => Interpreting' \subseteq Interpreting
<1>1. Depth \in Nat \ {0} /\ Top \in ActivationType /\ Top = calls[Depth]
  BY DepthIs DEF Top
<1>2. /\ Depth' = Depth + 1
      /\ \A d \in 1 .. Depth - 1 : calls'[d] = calls[d]
      /\ calls'[Depth].got = Top.got \cup S /\ calls'[Depth].fn = Top.fn
      /\ calls'[Depth + 1] = a
  BY <1>1 DEF Pushes, ActivationType
<1>3. \A d \in 1 .. Depth + 1 : d \in 1 .. Depth - 1 \/ d = Depth \/ d = Depth + 1
  BY <1>1
<1>4. \A d \in 1 .. Depth : calls'[d].fn = calls[d].fn
  BY <1>1, <1>2, <1>3
<1>5. 1 .. Depth \subseteq 1 .. Depth' /\ Depth + 1 \in 1 .. Depth'
  BY <1>1, <1>2
<1>6. \A d \in 1 .. Depth : d \in Interps' <=> d \in Interps
  BY <1>4, <1>5 DEF Interps
<1>7. (Depth + 1 \in Interps') <=> a.fn = "interp"
  BY <1>2, <1>5 DEF Interps
<1>8. ASSUME NEW d \in Leading'
      PROVE  d \in Leading \/ (d = Depth /\ ((Top.fn = "gate" /\ S # {}) \/ (Top.fn = "jni_a" /\ a.fn = "native")))
  <2>1. d \in 1 .. Depth + 1 /\ (\/ calls'[d].fn = "gate" /\ calls'[d].got # {}
                                 \/ d < Depth + 1 /\ calls'[d].fn = "jni_a" /\ calls'[d + 1].fn = "native")
    BY <1>2 DEF Leading
  <2>2. CASE d \in 1 .. Depth - 1
    <3>1. d + 1 \in 1 .. Depth /\ d < Depth /\ d \in 1 .. Depth
      BY <1>1, <2>2
    <3>2. calls'[d] = calls[d] /\ calls'[d + 1].fn = calls[d + 1].fn
      BY <1>2, <1>4, <2>2, <3>1
    <3> QED
      BY <2>1, <3>1, <3>2 DEF Leading
  <2>3. CASE d = Depth
    <3>1. CASE calls'[d].fn = "gate" /\ calls'[d].got # {}
      <4>1. S # {} \/ Top.got # {}
        BY <1>2, <2>3, <3>1
      <4>2. CASE Top.got # {}
        <5>1. d \in 1 .. Depth /\ calls[d].fn = "gate" /\ calls[d].got # {}
          BY <1>1, <1>2, <2>3, <3>1, <4>2
        <5> QED
          BY <5>1 DEF Leading
      <4> QED
        BY <1>2, <2>3, <3>1, <4>1, <4>2
    <3>2. CASE calls'[d].fn = "jni_a" /\ calls'[d + 1].fn = "native"
      BY <1>2, <2>3, <3>2
    <3> QED
      BY <2>1, <3>1, <3>2
  <2>4. CASE d = Depth + 1
    BY <1>1, <1>2, <2>1, <2>4
  <2> QED
    BY <1>3, <2>1, <2>2, <2>3, <2>4
<1>9. ASSUME NEW d \in Interpreting'
      PROVE  d \in Interpreting \/ (d = Depth /\ Top.fn = "vinterp" /\ a.fn = "interp")
  <2>1. d \in 1 .. Depth /\ calls'[d].fn = "vinterp" /\ calls'[d + 1].fn = "interp"
    <3>1. d \in 1 .. Depth' /\ d < Depth' /\ calls'[d].fn = "vinterp" /\ calls'[d + 1].fn = "interp"
      BY DEF Interpreting
    <3> QED
      BY <1>1, <1>2, <3>1
  <2>2. CASE d \in 1 .. Depth - 1
    <3>1. d + 1 \in 1 .. Depth /\ d < Depth /\ d \in 1 .. Depth
      BY <1>1, <2>2
    <3> QED
      BY <1>4, <2>1, <3>1 DEF Interpreting
  <2>3. CASE d = Depth
    BY <1>2, <2>1, <2>3
  <2> QED
    BY <1>1, <2>1, <2>2, <2>3
<1> QED
  BY <1>6, <1>7, <1>8, <1>9

\* Or when the top goes on.
LEMMA BecomesLeads ==
  ASSUME TypeOK, NEW b, Becomes(b), b.fn = Top.fn, b.fn = "gate" => b.got = Top.got
  PROVE  Interps' = Interps /\ Leading' = Leading /\ Interpreting' = Interpreting
<1>1. Depth \in Nat \ {0} /\ Top = calls[Depth]
  BY DepthIs DEF Top
<1>2. Depth' = Depth /\ calls'[Depth] = b /\ \A d \in 1 .. Depth - 1 : calls'[d] = calls[d]
  BY DEF Becomes
<1>3. \A d \in 1 .. Depth : d \in 1 .. Depth - 1 \/ d = Depth
  BY <1>1
<1>4. \A d \in 1 .. Depth : /\ calls'[d].fn = calls[d].fn
                            /\ calls[d].fn = "gate" => calls'[d].got = calls[d].got
  BY <1>1, <1>2, <1>3
<1>5. \A d \in 1 .. Depth : d < Depth => d + 1 \in 1 .. Depth
  BY <1>1
<1> QED
  BY <1>2, <1>4, <1>5 DEF Interps, Leading, Interpreting

\* Or when it returns.
LEMMA LeavesLeads ==
  ASSUME TypeOK, Leaves
  PROVE  /\ \A d \in 1 .. Depth - 1 : d \in Interps' <=> d \in Interps
         /\ Leading' \subseteq Leading \ {Depth} /\ Interpreting' \subseteq Interpreting \ {Depth}
<1>1. Depth \in Nat \ {0} /\ Depth' = Depth - 1
  BY DepthIs DEF Leaves
<1>2. \A d \in 1 .. Depth - 1 : calls'[d] = calls[d]
  BY DEF Leaves
<1>3. /\ \A d \in 1 .. Depth - 1 : d \in 1 .. Depth /\ d \in 1 .. Depth' /\ d < Depth
      /\ \A d \in 1 .. Depth - 1 : d < Depth - 1 => d + 1 \in 1 .. Depth - 1
  BY <1>1
<1>4. \A d \in 1 .. Depth - 1 : d \in Interps' <=> d \in Interps
  BY <1>2, <1>3 DEF Interps
<1>5. Leading' \subseteq Leading \ {Depth}
  BY <1>1, <1>2, <1>3 DEF Leading
<1>6. Interpreting' \subseteq Interpreting \ {Depth}
  BY <1>1, <1>2, <1>3 DEF Interpreting
<1> QED
  BY <1>4, <1>5, <1>6

\* The Java stack after a step that has left it so at the depth where it began.
LEMMA PushesStack ==
  ASSUME TypeOK, NEW S \in SUBSET Things, NEW a \in ActivationType, Pushes(S, a),
         a.fn # "gate" \/ a.got = {}, {"chunk", "clip"} \cap a.got = {},
         NEW L, NEW M, Leading' \subseteq L, Interpreting' \subseteq M,
         StackIs(java_stack', Depth, Holders("chunk") \cup (IF "chunk" \in S THEN {Depth} ELSE {}), Interps,
                 Holders("clip") \cup (IF "clip" \in S THEN {Depth} ELSE {}), L, M)
  PROVE  Stacks'
<1>1. PICK O : O = Holders("chunk") \cup (IF "chunk" \in S THEN {Depth} ELSE {})
  OBVIOUS
<1>2. PICK H : H = Holders("clip") \cup (IF "clip" \in S THEN {Depth} ELSE {})
  OBVIOUS
<1>3. StackIs(java_stack', Depth, O, Interps, H, L, M)
  BY <1>1, <1>2
<1>4. Holders("chunk")' = O /\ Holders("clip")' = H
  BY <1>1, <1>2, HoldersPush
<1>5. Depth' = Depth + 1
  BY DEF Pushes
<1>6. StackIs(java_stack', Depth', O, Interps, H, L, M)
  BY <1>3, <1>5, StackGrows
<1>7. \A x \in O : x \in 1 .. Depth
  BY <1>3 DEF StackIs
<1>8. \A x \in O : x \in Interps <=> x \in Interps'
  BY <1>7, PushesLeads
<1>9. StackIs(java_stack', Depth', O, Interps', H, Leading', Interpreting')
  BY <1>6, <1>8, StackSame
<1> QED
  BY <1>4, <1>9, StackThen

\* The Java stack after a change of the top activation, and after a return.
LEMMA BecomesStack ==
  ASSUME TypeOK, NEW b, Becomes(b), b.fn = Top.fn, b.fn = "gate" => b.got = Top.got,
         StackIs(java_stack', Depth, Holders("chunk")', Interps, Holders("clip")', Leading, Interpreting)
  PROVE  Stacks'
<1>1. Depth' = Depth
  BY DEF Becomes
<1>2. Interps' = Interps /\ Leading' = Leading /\ Interpreting' = Interpreting
  BY BecomesLeads
<1> QED
  BY <1>1, <1>2, StackThen

LEMMA LeavesStack ==
  ASSUME TypeOK, Leaves, NEW L, NEW M, Leading \ {Depth} \subseteq L, Interpreting \ {Depth} \subseteq M,
         StackIs(java_stack', Depth, Holders("chunk") \ {Depth}, Interps, Holders("clip") \ {Depth}, L, M)
  PROVE  Stacks'
<1>1. PICK O, H : O = Holders("chunk") \ {Depth} /\ H = Holders("clip") \ {Depth}
  OBVIOUS
<1>2. StackIs(java_stack', Depth, O, Interps, H, L, M)
  BY <1>1
<1>3. Holders("chunk")' = O /\ Holders("clip")' = H
  BY <1>1, HoldersLeave
<1>4. Depth > 0 /\ Depth' = Depth - 1 /\ Depth \in Nat
  BY DepthIs DEF Leaves
<1>5. Depth \notin O /\ Depth \notin H
  BY <1>1
<1>6. StackIs(java_stack', Depth', O, Interps, H, L \ {Depth}, M \ {Depth})
  BY <1>2, <1>4, <1>5, StackShrinks
<1>7. \A x \in O : x \in 1 .. Depth - 1
  BY <1>1, <1>4 DEF Holders
<1>8. \A x \in O : x \in Interps <=> x \in Interps'
  BY <1>7, LeavesLeads
<1>9. Leading' \subseteq L \ {Depth} /\ Interpreting' \subseteq M \ {Depth}
  BY LeavesLeads
<1>10. StackIs(java_stack', Depth', O, Interps', H, Leading', Interpreting')
  BY <1>6, <1>8, <1>9, StackSame
<1> QED
  BY <1>3, <1>10, StackThen

\* Steps that do not touch it.
LEMMA PushesStacks ==
  ASSUME TypeOK, Stacks, NEW S \in SUBSET Things, NEW a \in ActivationType, Pushes(S, a),
         {"chunk", "clip"} \cap (S \cup a.got) = {}, java_stack' = java_stack,
         a.fn # "gate" \/ a.got = {}, Top.fn # "gate" \/ S = {}, Top.fn # "jni_a" \/ a.fn # "native",
         Top.fn # "vinterp" \/ a.fn # "interp"
  PROVE  Stacks'
<1>1. StackIs(java_stack', Depth, Holders("chunk"), Interps, Holders("clip"), Leading, Interpreting)
  BY StackNow
<1>2. Leading' \subseteq Leading /\ Interpreting' \subseteq Interpreting
  BY PushesLeads
<1>3. {"chunk", "clip"} \cap a.got = {} /\ "chunk" \notin S /\ "clip" \notin S
  OBVIOUS
<1>4. /\ Holders("chunk") \cup (IF "chunk" \in S THEN {Depth} ELSE {}) = Holders("chunk")
      /\ Holders("clip") \cup (IF "clip" \in S THEN {Depth} ELSE {}) = Holders("clip")
  BY <1>3
<1> QED
  BY <1>1, <1>2, <1>3, <1>4, PushesStack

\* The same when the Java stack does not change.
LEMMA BecomesStacks ==
  ASSUME TypeOK, Stacks, NEW b, Becomes(b), b.fn = Top.fn, b.fn = "gate" => b.got = Top.got,
         Still("chunk"), Still("clip"), java_stack' = java_stack
  PROVE  Stacks'
<1>1. StackIs(java_stack', Depth, Holders("chunk")', Interps, Holders("clip")', Leading, Interpreting)
  BY StackNow DEF Still
<1> QED
  BY <1>1, BecomesStack

LEMMA LeavesStacks ==
  ASSUME TypeOK, Stacks, Leaves, {"chunk", "clip"} \cap Top.got = {}, java_stack' = java_stack
  PROVE  Stacks'
<1>1. Depth \notin Holders("chunk") /\ Depth \notin Holders("clip")
  BY HoldersAre DEF Top
<1>2. Holders("chunk") \ {Depth} = Holders("chunk") /\ Holders("clip") \ {Depth} = Holders("clip")
  BY <1>1
<1>3. StackIs(java_stack', Depth, Holders("chunk") \ {Depth}, Interps, Holders("clip") \ {Depth}, Leading,
              Interpreting)
  BY <1>2, StackNow
<1> QED
  BY <1>3, LeavesStack

-----------------------------------------------------------------------------
(* What calls what                                                          *)

\* What a function may have got, and which it may call.
LEMMA MayIs ==
  /\ May["native"] = {"frame"} /\ May["call"] = {"frame"} /\ May["interp"] = {"chunk", "lock"}
  /\ May["elf"] = {"catch"} /\ May["gate"] = {"clip", "catch", "frame", "limit", "chunk", "lock"}
  /\ May["vinterp"] = {"clip"} /\ May["jni_a"] = {"clip", "frame", "lock"} /\ May["post"] = {"vmex"}
  /\ May["vnative"] = {} /\ May["jcni"] = {} /\ May["throw"] = {}
BY DEF May, Functions

LEMMA CalleesAre ==
  /\ Callees["native"] = {"call"} /\ Callees["call"] = {"gate", "post"}
  /\ Callees["gate"] = {"elf", "vinterp", "vnative", "jcni", "post"}
  /\ Callees["elf"] = {"elf", "vinterp", "vnative", "post", "throw"}
  /\ Callees["vinterp"] = {"interp", "throw"} /\ Callees["vnative"] = {"gate", "jni_a", "throw"}
  /\ Callees["jcni"] = {"gate", "post", "throw"} /\ Callees["interp"] = {"interp", "gate", "jni_a", "post"}
  /\ Callees["jni_a"] = {"native", "post"} /\ Callees["post"] = {"gate", "post"} /\ Callees["throw"] = {}
BY DEF Callees, Functions, Thrower

\* The types of activations.
LEMMA ActivationIs ==
  ASSUME NEW a \in ActivationType
  PROVE  /\ a.fn \in Functions /\ a.pc \in Nat /\ a.got \in SUBSET Things
         /\ a.m \in Methods \cup Exceptions \cup {None} /\ a.kept \in Methods \cup {None} \cup Positions
  BY DEF ActivationType

\* A new activation.
LEMMA NewIs ==
  ASSUME NEW fn \in Functions, NEW m \in Methods \cup Exceptions \cup {None}
  PROVE  /\ Activation(fn, m) \in ActivationType
         /\ Activation(fn, m).fn = fn /\ Activation(fn, m).m = m /\ Activation(fn, m).pc = 0
         /\ Activation(fn, m).got = {} /\ Activation(fn, m).kept = None
  BY DEF Activation, ActivationType

\* What may be on top, and under it.
LEMMA TopFacts ==
  ASSUME TypeOK, Links
  PROVE  /\ Top \in ActivationType /\ Top.fn \in Functions /\ Top.got \in SUBSET Things /\ Shape(Top)
         /\ Depth \in Nat \ {0}
         /\ Depth = 1 => Top.fn = "native"
         /\ Depth # 1 => /\ calls[Depth - 1] \in ActivationType /\ calls[Depth - 1].fn \in Functions
                         /\ Shape(calls[Depth - 1]) /\ Waits(calls[Depth - 1], Top)
<1>1. Depth \in Nat \ {0} /\ Top \in ActivationType /\ Top = calls[Depth]
  BY DepthIs DEF Top
<1>2. Shape(Top)
  BY <1>1 DEF Links
<1>3. Depth = 1 => Top.fn = "native"
  BY <1>1 DEF Links
<1>4. ASSUME Depth # 1
      PROVE  /\ calls[Depth - 1] \in ActivationType /\ calls[Depth - 1].fn \in Functions
             /\ Shape(calls[Depth - 1]) /\ Waits(calls[Depth - 1], Top)
  <2>1. Depth - 1 \in 1 .. Depth - 1 /\ Depth - 1 \in 1 .. Depth /\ Depth - 1 + 1 = Depth
    BY <1>1, <1>4
  <2>2. calls[Depth - 1] \in ActivationType /\ Shape(calls[Depth - 1])
        /\ Waits(calls[Depth - 1], calls[Depth - 1 + 1])
    BY <2>1, DepthIs DEF Links
  <2> QED
    BY <1>1, <2>1, <2>2, ActivationIs
<1> QED
  BY <1>1, <1>2, <1>3, <1>4, ActivationIs

\* Each activation fits the one that called it: after a call, a change and a return.
LEMMA PushesLinks ==
  ASSUME TypeOK, Links, NEW S \in SUBSET Things, NEW a \in ActivationType, Pushes(S, a),
         NEW b, b = [Top EXCEPT !.got = @ \cup S], Shape(b), Waits(b, a), Shape(a),
         a.fn = "native" => a.got = {}, Top.fn = "native" => S = {}
  PROVE  Links'
<1>1. Depth \in Nat \ {0} /\ Top \in ActivationType /\ Top = calls[Depth]
  BY DepthIs DEF Top
<1>2. b.fn = Top.fn /\ b.got = Top.got \cup S
  BY <1>1 DEF ActivationType
<1>3. /\ Depth' = Depth + 1 /\ calls'[Depth] = b /\ calls'[Depth + 1] = a
      /\ \A d \in 1 .. Depth - 1 : calls'[d] = calls[d]
  BY DEF Pushes
<1>4. \A d \in 1 .. Depth + 1 : d \in 1 .. Depth - 1 \/ d = Depth \/ d = Depth + 1
  BY <1>1
<1>5. \A d \in 1 .. Depth - 1 : d \in 1 .. Depth
  BY <1>1
<1>6. \A d \in 1 .. Depth' : Shape(calls'[d])
  BY <1>3, <1>4, <1>5 DEF Links
<1>7. ASSUME NEW d \in 1 .. Depth' - 1 PROVE Waits(calls'[d], calls'[d + 1])
  <2>1. d \in 1 .. Depth
    BY <1>1, <1>3
  <2>2. CASE d = Depth
    BY <1>3, <2>2
  <2>3. CASE d # Depth
    <3>1. d \in 1 .. Depth - 1 /\ (d + 1 \in 1 .. Depth - 1 \/ d + 1 = Depth)
      BY <1>1, <2>1, <2>3
    <3>2. calls'[d] = calls[d] /\ calls'[d + 1].fn = calls[d + 1].fn
      BY <1>1, <1>2, <1>3, <3>1
    <3>3. Waits(calls[d], calls[d + 1])
      BY <3>1 DEF Links
    <3> QED
      BY <3>2, <3>3 DEF Waits
  <2> QED
    BY <2>2, <2>3
<1>8. calls'[1].fn = "native" /\ "frame" \in calls'[1].got
  <2>1. CASE Depth = 1
    BY <1>1, <1>2, <1>3, <2>1 DEF Links
  <2>2. CASE Depth # 1
    BY <1>1, <1>3, <2>2 DEF Links
  <2> QED
    BY <2>1, <2>2
<1>9. ASSUME NEW d \in 2 .. Depth', calls'[d].fn = "native" PROVE calls'[d].got = {}
  <2>1. CASE d = Depth + 1
    BY <1>3, <1>9, <2>1
  <2>2. CASE d = Depth
    <3>1. Depth \in 2 .. Depth
      BY <1>1, <1>9, <2>2
    <3>2. Top.fn = "native"
      BY <1>2, <1>3, <1>9, <2>2
    <3>3. Top.got = {} /\ S = {}
      BY <1>1, <3>1, <3>2 DEF Links
    <3> QED
      BY <1>2, <1>3, <2>2, <3>3
  <2>3. CASE d \in 1 .. Depth - 1
    <3>1. d \in 2 .. Depth
      BY <1>1, <1>9, <2>3
    <3> QED
      BY <1>3, <1>9, <2>3, <3>1 DEF Links
  <2>4. d \in 1 .. Depth + 1
    BY <1>1, <1>3
  <2> QED
    BY <1>4, <2>1, <2>2, <2>3, <2>4
<1> QED
  BY <1>6, <1>7, <1>8, <1>9 DEF Links

LEMMA BecomesLinks ==
  ASSUME TypeOK, Links, NEW b, Becomes(b), b.fn = Top.fn, Shape(b), Top.fn = "native" => b.got = Top.got
  PROVE  Links'
<1>1. Depth \in Nat \ {0} /\ Top = calls[Depth]
  BY DepthIs DEF Top
<1>2. Depth' = Depth /\ calls'[Depth] = b /\ \A d \in 1 .. Depth - 1 : calls'[d] = calls[d]
  BY DEF Becomes
<1>3. \A d \in 1 .. Depth : d \in 1 .. Depth - 1 \/ d = Depth
  BY <1>1
<1>4. \A d \in 1 .. Depth' : Shape(calls'[d])
  BY <1>2, <1>3 DEF Links
<1>5. ASSUME NEW d \in 1 .. Depth' - 1 PROVE Waits(calls'[d], calls'[d + 1])
  <2>1. d \in 1 .. Depth - 1 /\ (d + 1 \in 1 .. Depth - 1 \/ d + 1 = Depth)
    BY <1>1, <1>2
  <2>2. calls'[d] = calls[d] /\ calls'[d + 1].fn = calls[d + 1].fn
    BY <1>1, <1>2, <2>1
  <2>3. Waits(calls[d], calls[d + 1])
    BY <2>1 DEF Links
  <2> QED
    BY <2>2, <2>3 DEF Waits
<1>6. \A d \in 1 .. Depth : calls'[d].fn = calls[d].fn /\ (calls[d].fn = "native" => calls'[d].got = calls[d].got)
  BY <1>1, <1>2, <1>3
<1>7. 1 \in 1 .. Depth /\ \A d \in 2 .. Depth : d \in 1 .. Depth
  BY <1>1
<1>8. calls'[1].fn = "native" /\ "frame" \in calls'[1].got
  BY <1>6, <1>7 DEF Links
<1>9. \A d \in 2 .. Depth' : calls'[d].fn = "native" => calls'[d].got = {}
  BY <1>2, <1>6, <1>7 DEF Links
<1> QED
  BY <1>4, <1>5, <1>8, <1>9 DEF Links

LEMMA LeavesLinks ==
  ASSUME TypeOK, Links, Leaves
  PROVE  Links'
<1>1. Depth \in Nat \ {0} /\ Depth' = Depth - 1 /\ Depth > 1
  BY DepthIs DEF Leaves
<1>2. \A d \in 1 .. Depth - 1 : calls'[d] = calls[d]
  BY DEF Leaves
<1>3. /\ \A d \in 1 .. Depth - 1 : d \in 1 .. Depth
      /\ \A d \in 1 .. (Depth - 1) - 1 : d \in 1 .. Depth - 1 /\ d + 1 \in 1 .. Depth - 1
      /\ \A d \in 2 .. Depth - 1 : d \in 2 .. Depth /\ d \in 1 .. Depth - 1
      /\ 1 \in 1 .. Depth - 1
  BY <1>1
<1> QED
  BY <1>1, <1>2, <1>3 DEF Links

\* Who is on top then.
LEMMA PushesTop ==
  ASSUME TypeOK, NEW S, NEW a, Pushes(S, a), st' = "enter", a.fn \notin {"native", "throw"}, native' = FALSE,
         a.got = IF a.fn = "call" THEN {"frame"} ELSE {}, a.fn = "elf" => a.pc = 0
  PROVE  TopIs'
<1>1. Top' = a
  BY DEF Pushes, Top
<1> QED
  BY <1>1 DEF TopIs

\* The function that a call returns to is where its status says.
LEMMA LeavesTop ==
  ASSUME TypeOK, Links, Leaves, NEW c, c = calls[Depth - 1], NEW s \in {"ok", "err"}, st' = Resume(c, s),
         s = "ok" => Top.fn \notin {"post", "throw"}, native' <=> c.fn = "native"
  PROVE  TopIs'
<1>1. Depth \in Nat \ {0} /\ Depth' = Depth - 1 /\ Depth > 1
  BY DepthIs DEF Leaves
<1>2. Top' = c
  BY <1>1 DEF Leaves, Top
<1>3. c \in ActivationType /\ c.fn \in Functions /\ Waits(c, Top)
  BY <1>1, TopFacts
<1>4. c.fn # "throw"
  BY <1>3, CalleesAre DEF Waits
<1>5. CASE st' = "run"
  <2>1. c.fn = "native" \/ (c.fn \in {"interp", "elf", "jcni"} /\ s = "ok")
    BY <1>5 DEF Resume
  <2>2. Underway(c)
    BY <1>3, <2>1 DEF Underway, Waits
  <2> QED
    BY <1>2, <1>5, <2>1, <2>2 DEF TopIs
<1>6. CASE st' = s
  <2>1. c.fn # "native" /\ (s = "ok" => c.fn \notin {"interp", "elf", "jcni"})
    BY <1>6 DEF Resume
  <2>2. Started(c)
    BY <1>3 DEF Waits
  <2> QED
    BY <1>2, <1>4, <1>6, <2>1, <2>2 DEF TopIs
<1> QED
  BY <1>5, <1>6 DEF Resume

\* Native code is not where it was not before, nor gone from where it was.
LEMMA PushesNatives ==
  ASSUME TypeOK, JniMethods, NEW S, NEW a, Pushes(S, a), a.fn # "native", jni_method' = jni_method
  PROVE  JniMethods'
<1>1. Depth \in Nat /\ Depth' = Depth + 1 /\ calls'[Depth + 1] = a
  BY DepthIs DEF Pushes
<1>2. \A d \in 1 .. Depth : d <= Depth'
  BY <1>1
<1>3. \A d \in 1 .. Depth' : d > Depth => calls'[d].fn # "native"
  <2>1. \A d \in 1 .. Depth' : d > Depth => d = Depth + 1
    BY <1>1
  <2> QED
    BY <1>1, <2>1
<1> QED
  BY <1>2, <1>3, PushesAlike, NativesKept

\* jni_method after a change of the top activation, and after a return.
LEMMA BecomesNatives ==
  ASSUME TypeOK, JniMethods, NEW b, Becomes(b), Alike, jni_method' = jni_method
  PROVE  JniMethods'
<1>1. Depth \in Nat /\ Depth' = Depth
  BY DepthIs DEF Becomes
<1>2. (\A d \in 1 .. Depth : d <= Depth') /\ (\A d \in 1 .. Depth' : ~(d > Depth))
  BY <1>1
<1> QED
  BY <1>2, NativesKept

LEMMA LeavesNatives ==
  ASSUME TypeOK, JniMethods, Leaves, Top.fn # "native", jni_method' = jni_method
  PROVE  JniMethods'
<1>1. Depth \in Nat /\ Depth' = Depth - 1 /\ Top = calls[Depth]
  BY DepthIs DEF Leaves, Top
<1>2. (\A d \in 1 .. Depth : d # Depth => d <= Depth') /\ (\A d \in 1 .. Depth' : ~(d > Depth))
  BY <1>1
<1>3. \A d \in 1 .. Depth : calls[d].fn = "native" => d <= Depth'
  BY <1>1, <1>2
<1> QED
  BY <1>2, <1>3, LeavesAlike, NativesKept

\* What nobody gets or gives back, everybody has still.
LEMMA PushesStill ==
  ASSUME TypeOK, NEW S \in SUBSET Things, NEW a \in ActivationType, Pushes(S, a), NEW x, x \notin S \cup a.got
  PROVE  Still(x)
<1>1. x \notin S /\ x \notin a.got
  OBVIOUS
<1>2. Holders(x)' = Holders(x) \cup (IF x \in S THEN {Depth} ELSE {})
                                \cup (IF x \in a.got THEN {Depth + 1} ELSE {})
  BY HoldersPush
<1> QED
  BY <1>1, <1>2 DEF Still

\* Who has got a thing does not change when the top neither gets nor loses it.
LEMMA BecomesStill ==
  ASSUME TypeOK, NEW b, Becomes(b), NEW x, x \in b.got <=> x \in Top.got
  PROVE  Still(x)
<1>1. Depth \in 1 .. Depth /\ Top = calls[Depth]
  BY DepthIs DEF Top
<1>2. Depth \in Holders(x) <=> x \in b.got
  BY <1>1, HoldersAre
<1>3. Holders(x)' = (Holders(x) \ {Depth}) \cup (IF x \in b.got THEN {Depth} ELSE {})
  BY HoldersBecome
<1>4. CASE x \in b.got
  BY <1>2, <1>3, <1>4 DEF Still
<1>5. CASE x \notin b.got
  BY <1>2, <1>3, <1>5 DEF Still
<1> QED
  BY <1>4, <1>5

LEMMA LeavesStill ==
  ASSUME TypeOK, Leaves, NEW x, x \notin Top.got
  PROVE  Still(x)
<1>1. Depth \notin Holders(x)
  BY HoldersAre DEF Top
<1>2. Holders(x) \ {Depth} = Holders(x)
  BY <1>1
<1> QED
  BY <1>2, HoldersLeave DEF Still

\* What is left alone with the lists.
LEMMA Rest ==
  ASSUME TypeOK, Alike
  PROVE  /\ Catchers /\ Still("catch") /\ catch_list' = catch_list
              /\ (\A d \in Holders("catch") : calls'[d].pc = calls[d].pc) => Catchers'
         /\ NativeLocals /\ Still("frame") /\ native_locals' = native_locals => NativeLocals'
         /\ Limits /\ Still("limit") /\ stack_limit' = stack_limit => Limits'
         /\ Posting /\ Still("vmex") /\ in_vmex' = in_vmex => Posting'
         /\ Balance /\ Still("lock") /\ held' = held => Balance'
  BY CatchersKept, LocalsKept, LimitsKept, PostingKept, BalanceKept

-----------------------------------------------------------------------------
(* Steps that leave the lists alone                                         *)

\* The invariant and its parts.
LEMMA Parts ==
  ASSUME ExecutionInv
  PROVE  /\ TypeOK /\ Links /\ TopIs /\ Stacks /\ Catchers /\ NativeLocals /\ Limits
         /\ Posting /\ JniMethods /\ Balance /\ Searches
  BY DEF ExecutionInv, Stacks

LEMMA Together ==
  ASSUME TypeOK', Links', TopIs', Stacks', Catchers', NativeLocals', Limits', Posting', JniMethods', Balance',
         Searches'
  PROVE  ExecutionInv'
  BY DEF ExecutionInv, Stacks

\* Native code calls "call" only.
LEMMA CallerIs ==
  ASSUME TypeOK, Links, Top.fn \notin {"native", "call"}
  PROVE  Depth # 1 /\ calls[Depth - 1].fn # "native"
<1>1. Depth # 1
  BY TopFacts
<1>2. Top.fn \in Callees[calls[Depth - 1].fn]
  BY <1>1, TopFacts DEF Waits
<1> QED
  BY <1>1, <1>2, CalleesAre

\* No search for a handler is going on after a call or a return.
LEMMA PushesSearch ==
  ASSUME NEW S, NEW a, Pushes(S, a), a.fn # "throw"
  PROVE  Searches'
<1>1. Top' = a
  BY DEF Pushes, Top
<1> QED
  BY <1>1 DEF Searches

LEMMA LeavesSearch ==
  ASSUME TypeOK, Links, Leaves
  PROVE  Searches'
<1>1. Depth \in Nat \ {0} /\ Depth > 1 /\ Top' = calls[Depth - 1]
  BY DepthIs DEF Leaves, Top
<1>2. Top.fn \in Callees[calls[Depth - 1].fn]
  BY <1>1, TopFacts DEF Waits
<1>3. Top'.fn # "throw"
  BY <1>1, <1>2, CalleesAre
<1> QED
  BY <1>3 DEF Searches

\* What a call leaves of the lists that it does not touch.
LEMMA PushesRest ==
  ASSUME TypeOK, NEW S \in SUBSET Things, NEW a \in ActivationType, Pushes(S, a)
  PROVE  /\ Catchers /\ "catch" \notin S \cup a.got /\ catch_list' = catch_list => Catchers'
         /\ NativeLocals /\ "frame" \notin S \cup a.got /\ native_locals' = native_locals => NativeLocals'
         /\ Limits /\ "limit" \notin S \cup a.got /\ stack_limit' = stack_limit => Limits'
         /\ Posting /\ "vmex" \notin S \cup a.got /\ in_vmex' = in_vmex => Posting'
         /\ Balance /\ "lock" \notin S \cup a.got /\ held' = held => Balance'
<1>1. Alike /\ \A d \in 1 .. Depth : calls'[d].pc = calls[d].pc
  BY PushesAlike
<1>2. \A x : x \notin S \cup a.got => Still(x)
  BY PushesStill
<1>3. \A d \in Holders("catch") : calls'[d].pc = calls[d].pc
  BY <1>1 DEF Holders
<1> QED
  BY <1>1, <1>2, <1>3, Rest

\* The lists after a return, if the function had no part in them, and after a change.
LEMMA LeavesRest ==
  ASSUME TypeOK, Leaves
  PROVE  /\ Catchers /\ "catch" \notin Top.got /\ catch_list' = catch_list => Catchers'
         /\ NativeLocals /\ "frame" \notin Top.got /\ native_locals' = native_locals => NativeLocals'
         /\ Limits /\ "limit" \notin Top.got /\ stack_limit' = stack_limit => Limits'
         /\ Posting /\ "vmex" \notin Top.got /\ in_vmex' = in_vmex => Posting'
         /\ Balance /\ "lock" \notin Top.got /\ held' = held => Balance'
<1>1. Alike /\ \A d \in 1 .. Depth' : calls'[d] = calls[d]
  BY LeavesAlike
<1>2. \A x : x \notin Top.got => Still(x)
  BY LeavesStill
<1>3. ASSUME Still("catch"), NEW d \in Holders("catch") PROVE calls'[d].pc = calls[d].pc
  <2>1. d \in 1 .. Depth'
    BY <1>3, HoldersAre DEF Still
  <2> QED
    BY <1>1, <2>1
<1> QED
  BY <1>1, <1>2, <1>3, Rest

LEMMA BecomesRest ==
  ASSUME TypeOK, NEW b, Becomes(b), b.fn = Top.fn, b.m = Top.m, b.kept = Top.kept
  PROVE  /\ Alike
         /\ NativeLocals /\ ("frame" \in b.got <=> "frame" \in Top.got) /\ native_locals' = native_locals
              => NativeLocals'
         /\ Limits /\ ("limit" \in b.got <=> "limit" \in Top.got) /\ stack_limit' = stack_limit => Limits'
         /\ Posting /\ ("vmex" \in b.got <=> "vmex" \in Top.got) /\ in_vmex' = in_vmex => Posting'
         /\ Balance /\ ("lock" \in b.got <=> "lock" \in Top.got) /\ held' = held => Balance'
<1>1. Alike
  BY BecomesAlike
<1>2. \A x : (x \in b.got <=> x \in Top.got) => Still(x)
  BY BecomesStill
<1> QED
  BY <1>1, <1>2, Rest

\* A function calls another.
LEMMA PlainCall ==
  ASSUME ExecutionInv, NEW a \in ActivationType, calls' = Append(calls, a), st' = "enter",
         a.got = {}, a.fn \notin {"native", "throw", "call"}, a.fn = "elf" => a.pc = 0, Shape(a), Waits(Top, a),
         Top.fn \notin {"native", "vinterp"},
         java_stack' = java_stack, catch_list' = catch_list, native_locals' = native_locals,
         stack_limit' = stack_limit, in_vmex' = in_vmex, jni_method' = jni_method, native' = native,
         held' = held, pending' = pending
  PROVE  ExecutionInv'
<1>1. TypeOK /\ Links /\ TopIs /\ Stacks
  BY Parts
<1>2. Pushes({}, a) /\ {} \in SUBSET Things
  BY <1>1, PushesPlain
<1>3. TypeOK'
  BY <1>1, <1>2, EmptySeq DEF TypeOK, Pushes
<1>4. Links'
  <2>1. Top = [Top EXCEPT !.got = @ \cup {}] /\ Shape(Top)
    BY <1>1, TopFacts DEF ActivationType
  <2> QED
    BY <1>1, <1>2, <2>1, PushesLinks
<1>5. TopIs'
  <2>1. native' = FALSE
    BY <1>1 DEF TopIs, TypeOK
  <2> QED
    BY <1>1, <1>2, <2>1, PushesTop
<1>6. Stacks'
  BY <1>1, <1>2, PushesStacks
<1>7. Catchers' /\ NativeLocals' /\ Limits' /\ Posting' /\ Balance'
  BY <1>1, <1>2, Parts, PushesRest
<1>8. JniMethods' /\ Searches'
  BY <1>1, <1>2, Parts, PushesNatives, PushesSearch
<1> QED
  BY <1>3, <1>4, <1>5, <1>6, <1>7, <1>8, Together

\* A function that has nothing returns.
LEMMA PlainReturn ==
  ASSUME ExecutionInv, NEW s \in {"ok", "err"}, calls' = Caller, st' = Resume(calls[Depth - 1], s),
         Top.got = {}, Top.fn \notin {"native", "call"}, s = "ok" => Top.fn \notin {"post", "throw"},
         java_stack' = java_stack, catch_list' = catch_list, native_locals' = native_locals,
         stack_limit' = stack_limit, in_vmex' = in_vmex, jni_method' = jni_method, native' = native,
         held' = held, pending' \in Exceptions \cup {None}
  PROVE  ExecutionInv'
<1>1. TypeOK /\ Links /\ TopIs /\ Stacks
  BY Parts
<1>2. Depth # 1 /\ calls[Depth - 1].fn # "native"
  BY <1>1, CallerIs
<1>3. Leaves
  BY <1>1, <1>2, LeavesIf
<1>4. TypeOK'
  <2>1. calls' \in Seq(ActivationType) /\ calls' # <<>>
    BY <1>1, <1>3, DepthIs, EmptySeq DEF Leaves, Depth
  <2>2. st' \in {"enter", "run", "ok", "err"}
    BY DEF Resume
  <2> QED
    BY <1>1, <2>1, <2>2 DEF TypeOK
<1>5. Links' /\ Searches'
  BY <1>1, <1>3, LeavesLinks, LeavesSearch
<1>6. TopIs'
  <2>1. native' = FALSE
    BY <1>1 DEF TopIs, TypeOK
  <2> QED
    BY <1>1, <1>2, <1>3, <2>1, LeavesTop
<1>7. Stacks'
  BY <1>1, <1>3, LeavesStacks
<1>8. Catchers' /\ NativeLocals' /\ Limits' /\ Posting' /\ Balance'
  BY <1>1, <1>3, Parts, LeavesRest
<1>9. JniMethods'
  BY <1>1, <1>3, Parts, LeavesNatives
<1> QED
  BY <1>4, <1>5, <1>6, <1>7, <1>8, <1>9, Together

\* A function goes on.
LEMMA PlainStay ==
  ASSUME ExecutionInv, NEW b, Becomes(b), b.fn = Top.fn, b.m = Top.m, b.got = Top.got, b.kept = Top.kept,
         Shape(b), Top.fn # "throw", TypeOK', TopIs', Catchers',
         java_stack' = java_stack, native_locals' = native_locals,
         stack_limit' = stack_limit, in_vmex' = in_vmex, jni_method' = jni_method, held' = held
  PROVE  ExecutionInv'
<1>1. TypeOK /\ Links /\ TopIs /\ Stacks
  BY Parts
<1>2. Alike /\ NativeLocals' /\ Limits' /\ Posting' /\ Balance'
  BY <1>1, Parts, BecomesRest
<1>3. Links'
  BY <1>1, BecomesLinks
<1>4. Stacks'
  BY <1>1, BecomesStacks, BecomesStill
<1>5. JniMethods'
  BY <1>1, <1>2, Parts, BecomesNatives
<1>6. Searches'
  BY DEF Becomes, Searches, Top
<1> QED
  BY <1>2, <1>3, <1>4, <1>5, <1>6, Together

-----------------------------------------------------------------------------
(* New activations *)

\* The activations that calls make.
LEMMA NewShape ==
  ASSUME NEW fn \in Functions \ {"native", "post", "throw", "call", "elf"}, NEW m \in Methods
  PROVE  Activation(fn, m) \in ActivationType /\ Shape(Activation(fn, m))
<1>1. PICK a : a = Activation(fn, m)
  OBVIOUS
<1>2. a \in ActivationType /\ a.fn = fn /\ a.m = m /\ a.pc = 0 /\ a.got = {}
  BY <1>1, NewIs
<1>3. Shape(a)
  BY <1>2 DEF Shape
<1> QED
  BY <1>1, <1>2, <1>3

LEMMA PostShape ==
  ASSUME NEW e \in Exceptions
  PROVE  /\ Activation("post", e) \in ActivationType /\ Shape(Activation("post", e))
         /\ Activation("post", e).fn = "post" /\ Activation("post", e).got = {} /\ Activation("post", e).m = e
<1>1. PICK a : a = Activation("post", e)
  OBVIOUS
<1>2. "post" \in Functions
  BY DEF Functions
<1>3. a \in ActivationType /\ a.fn = "post" /\ a.m = e /\ a.pc = 0 /\ a.got = {}
  BY <1>1, <1>2, NewIs
<1>4. Shape(a)
  BY <1>3 DEF Shape
<1> QED
  BY <1>1, <1>3, <1>4

LEMMA EntryIs ==
  ASSUME NEW m \in Methods
  PROVE  /\ Entry(m) \in ActivationType /\ Shape(Entry(m)) /\ Entry(m).got = {} /\ Entry(m).m = m /\ Entry(m).pc = 0
         /\ Entry(m).fn \in {"elf", "vinterp", "vnative"}
<1>1. PICK fn \in {"elf", "vinterp", "vnative"} : Entry(m) = Activation(fn, m) /\ (fn = "elf" => KindOf[m] = "elf")
  BY DEF Entry
<1>2. fn \in Functions \ {"native", "post", "throw", "call"}
  BY DEF Functions
<1>3. Shape(Entry(m))
  BY <1>1, <1>2, NewIs DEF Shape
<1> QED
  BY <1>1, <1>2, <1>3, NewIs

LEMMA GateIs ==
  ASSUME NEW m \in Methods
  PROVE  /\ Gate(m) \in ActivationType /\ Shape(Gate(m)) /\ Gate(m).got = {} /\ Gate(m).m = m /\ Gate(m).fn = "gate"
<1>1. "gate" \in Functions \ {"native", "post", "throw", "call"}
  BY DEF Functions
<1> QED
  BY <1>1, NewIs, NewShape DEF Gate

LEMMA NativeEntryIs ==
  ASSUME NEW m \in Methods
  PROVE  /\ NativeEntry(m) \in ActivationType /\ Shape(NativeEntry(m)) /\ NativeEntry(m).got = {}
         /\ NativeEntry(m).m = m /\ NativeEntry(m).fn \in {"gate", "jni_a"}
<1>1. CASE KindOf[m] = "jni"
  <2>1. "jni_a" \in Functions \ {"native", "post", "throw", "call"}
    BY DEF Functions
  <2> QED
    BY <1>1, <2>1, NewIs, NewShape DEF NativeEntry
<1>2. CASE KindOf[m] # "jni"
  <2>1. PICK a : a = [Gate(m) EXCEPT !.pc = 1]
    OBVIOUS
  <2>2. a \in ActivationType /\ a.got = {} /\ a.m = m /\ a.fn = "gate"
    BY <2>1, GateIs DEF ActivationType
  <2>3. Shape(a)
    BY <2>2 DEF Shape
  <2> QED
    BY <1>2, <2>1, <2>2, <2>3 DEF NativeEntry
<1> QED
  BY <1>1, <1>2

-----------------------------------------------------------------------------
(* The actions, each of which keeps the invariant                           *)

\* A function posts an exception.
LEMMA PostKeeps ==
  ASSUME ExecutionInv, NEW e \in Exceptions, Post(calls, e), "post" \in Callees[Top.fn], Started(Top),
         Top.fn \notin {"native", "vinterp"},
         java_stack' = java_stack, catch_list' = catch_list, native_locals' = native_locals,
         stack_limit' = stack_limit, in_vmex' = in_vmex, jni_method' = jni_method, native' = native,
         held' = held, pending' = pending
  PROVE  ExecutionInv'
<1>1. PICK a : a = Activation("post", e)
  OBVIOUS
<1>2. a \in ActivationType /\ Shape(a) /\ a.fn = "post" /\ a.got = {}
  BY <1>1, PostShape
<1>3. calls' = Append(calls, a) /\ st' = "enter"
  BY <1>1 DEF Post, Push
<1>4. Waits(Top, a)
  BY <1>2 DEF Waits
<1> QED
  BY <1>2, <1>3, <1>4, PlainCall

LEMMA InterpOverflowKeeps ==
  ASSUME ExecutionInv, InterpOverflow
  PROVE  ExecutionInv'
<1>1. Top.fn = "interp" /\ Post(calls, StackOverflow) /\ StackOverflow \in Exceptions
  BY DEF InterpOverflow, In, Exceptions
<1>2. "post" \in Callees[Top.fn] /\ Started(Top)
  BY <1>1, CalleesAre DEF Started
<1> QED
  BY <1>1, <1>2, PostKeeps DEF InterpOverflow, lists

LEMMA InterpCallKeeps ==
  ASSUME ExecutionInv, InterpCall
  PROVE  ExecutionInv'
<1>1. Top.fn = "interp" /\ st = "run" /\ Underway(Top) /\ Started(Top)
  BY Parts DEF InterpCall, In, TopIs, Started
<1>2. PICK m \in Methods \ {Constructor} :
        Push(calls, CASE KindOf[m] = "interp" -> Activation("interp", m)
                      [] KindOf[m] = "elf" -> Gate(m)
                      [] OTHER -> NativeEntry(m))
  BY DEF InterpCall
<1>3. PICK a : Push(calls, a) /\ (a = Activation("interp", m) \/ a = Gate(m) \/ a = NativeEntry(m))
  BY <1>2
<1>4. "interp" \in Functions \ {"native", "post", "throw", "call"}
  BY DEF Functions
<1>5. a \in ActivationType /\ Shape(a) /\ a.got = {} /\ a.fn \in {"interp", "gate", "jni_a"}
  BY <1>3, <1>4, NewIs, NewShape, GateIs, NativeEntryIs
<1>6. Waits(Top, a)
  BY <1>1, <1>5, CalleesAre DEF Waits
<1>7. calls' = Append(calls, a) /\ st' = "enter"
  BY <1>3 DEF Push
<1>8. /\ java_stack' = java_stack /\ catch_list' = catch_list /\ native_locals' = native_locals
      /\ stack_limit' = stack_limit /\ in_vmex' = in_vmex /\ jni_method' = jni_method /\ native' = native
      /\ held' = held /\ pending' = pending
  BY DEF InterpCall, lists
<1> QED
  BY <1>1, <1>5, <1>6, <1>7, <1>8, PlainCall

LEMMA ElfCallKeeps ==
  ASSUME ExecutionInv, ElfCall
  PROVE  ExecutionInv'
<1>1. Top.fn = "elf" /\ st = "run" /\ Underway(Top) /\ Started(Top)
  BY Parts DEF ElfCall, In, TopIs, Started
<1>2. PICK m \in Methods \ {Constructor} : Push(calls, Entry(m))
  BY DEF ElfCall
<1>3. PICK a : a = Entry(m)
  OBVIOUS
<1>4. a \in ActivationType /\ Shape(a) /\ a.got = {} /\ a.pc = 0 /\ a.fn \in {"elf", "vinterp", "vnative"}
  BY <1>3, EntryIs
<1>5. Waits(Top, a)
  BY <1>1, <1>4, CalleesAre DEF Waits
<1>6. calls' = Append(calls, a) /\ st' = "enter"
  BY <1>2, <1>3 DEF Push
<1>7. /\ java_stack' = java_stack /\ catch_list' = catch_list /\ native_locals' = native_locals
      /\ stack_limit' = stack_limit /\ in_vmex' = in_vmex /\ jni_method' = jni_method /\ native' = native
      /\ held' = held /\ pending' = pending
  BY DEF ElfCall, lists
<1> QED
  BY <1>1, <1>4, <1>5, <1>6, <1>7, PlainCall

\* Functions that call the gateway.
LEMMA CallsGate ==
  ASSUME ExecutionInv, NEW m \in Methods, Push(calls, Gate(m)), Top.fn \in {"jcni", "call"},
         java_stack' = java_stack, catch_list' = catch_list, native_locals' = native_locals,
         stack_limit' = stack_limit, in_vmex' = in_vmex, jni_method' = jni_method, native' = native,
         held' = held, pending' = pending
  PROVE  ExecutionInv'
<1>1. PICK a : a = Gate(m)
  OBVIOUS
<1>2. a \in ActivationType /\ Shape(a) /\ a.got = {} /\ a.fn = "gate"
  BY <1>1, GateIs
<1>3. Waits(Top, a)
  BY <1>2, CalleesAre DEF Waits, Started, Underway
<1>4. calls' = Append(calls, a) /\ st' = "enter"
  BY <1>1 DEF Push
<1> QED
  BY <1>2, <1>3, <1>4, PlainCall

LEMMA JcniCallKeeps ==
  ASSUME ExecutionInv, JcniCall
  PROVE  ExecutionInv'
  BY CallsGate DEF JcniCall, In, lists

LEMMA VnativeEnterKeeps ==
  ASSUME ExecutionInv, VnativeEnter
  PROVE  ExecutionInv'
<1>1. Top.fn = "vnative" /\ Top.m \in Methods
  BY Parts, TopFacts DEF VnativeEnter, In, Shape
<1>2. PICK a : a = NativeEntry(Top.m)
  OBVIOUS
<1>3. a \in ActivationType /\ Shape(a) /\ a.got = {} /\ a.fn \in {"gate", "jni_a"}
  BY <1>1, <1>2, NativeEntryIs
<1>4. Waits(Top, a)
  BY <1>1, <1>3, CalleesAre DEF Waits, Started, Underway
<1>5. calls' = Append(calls, a) /\ st' = "enter"
  BY <1>2 DEF VnativeEnter, Push
<1>6. /\ java_stack' = java_stack /\ catch_list' = catch_list /\ native_locals' = native_locals
      /\ stack_limit' = stack_limit /\ in_vmex' = in_vmex /\ jni_method' = jni_method /\ native' = native
      /\ held' = held /\ pending' = pending
  BY DEF VnativeEnter, lists
<1> QED
  BY <1>1, <1>3, <1>4, <1>5, <1>6, PlainCall

\* Functions that have nothing to undo return.
LEMMA PostAgainKeeps ==
  ASSUME ExecutionInv, PostAgain
  PROVE  ExecutionInv'
<1>1. Top.fn = "post" /\ Top.got = {} /\ Top.m \in Exceptions
  BY Parts, TopFacts DEF PostAgain, In, TopIs, Shape
<1>2. calls' = Caller /\ st' = Resume(calls[Depth - 1], "err") /\ pending' \in Exceptions \cup {None}
  BY <1>1 DEF PostAgain, ReturnWith
<1> QED
  BY <1>1, <1>2, PlainReturn DEF PostAgain, lists

LEMMA InterpNoFrameKeeps ==
  ASSUME ExecutionInv, InterpNoFrame
  PROVE  ExecutionInv'
<1>1. Top.fn = "interp" /\ Top.got = {}
  BY Parts, TopFacts, MayIs DEF InterpNoFrame, In, Shape
<1>2. calls' = Caller /\ st' = Resume(calls[Depth - 1], "err") /\ pending' \in Exceptions \cup {None}
  BY Parts DEF InterpNoFrame, ReturnWith, TypeOK
<1> QED
  BY <1>1, <1>2, PlainReturn DEF InterpNoFrame, lists

LEMMA VnativeDoneKeeps ==
  ASSUME ExecutionInv, VnativeDone
  PROVE  ExecutionInv'
<1>1. Top.fn = "vnative" /\ Top.got = {}
  BY Parts, TopFacts, MayIs DEF VnativeDone, In, Shape
<1>2. calls' = Caller /\ st' = Resume(calls[Depth - 1], "ok") /\ pending' \in Exceptions \cup {None}
  BY Parts DEF VnativeDone, ReturnWith, TypeOK
<1> QED
  BY <1>1, <1>2, PlainReturn DEF VnativeDone, lists

LEMMA JcniReturnKeeps ==
  ASSUME ExecutionInv, JcniReturn
  PROVE  ExecutionInv'
<1>1. Top.fn = "jcni" /\ Top.got = {}
  BY Parts, TopFacts, MayIs DEF JcniReturn, In, Shape
<1>2. calls' = Caller /\ st' = Resume(calls[Depth - 1], "ok") /\ pending' \in Exceptions \cup {None}
  BY Parts DEF JcniReturn, ReturnWith, TypeOK
<1> QED
  BY <1>1, <1>2, PlainReturn DEF JcniReturn, lists

\* Functions that go on where they are.
LEMMA StayKeeps ==
  ASSUME ExecutionInv, calls' = calls, Top.fn # "throw", st' \in {"enter", "run", "ok", "err"},
         pending' \in Exceptions \cup {None},
         st' = "enter" => Top.got = IF Top.fn = "call" THEN {"frame"} ELSE {},
         st' = "enter" => Top.fn # "native" /\ (Top.fn = "elf" => Top.pc = 0),
         st' = "run" => Top.fn \in {"native", "interp", "elf", "jcni"} /\ Underway(Top),
         st' \in {"ok", "err"} => Top.fn # "native" /\ Started(Top),
         st' # "ok",
         java_stack' = java_stack, catch_list' = catch_list, native_locals' = native_locals,
         stack_limit' = stack_limit, in_vmex' = in_vmex, jni_method' = jni_method, native' = native, held' = held
  PROVE  ExecutionInv'
<1>1. TypeOK /\ Links /\ TopIs /\ Catchers
  BY Parts
<1>2. Becomes(Top) /\ Shape(Top) /\ Top' = Top
  BY <1>1, BecomesSame, TopFacts DEF Top, Depth
<1>3. TypeOK'
  BY <1>1 DEF TypeOK
<1>4. TopIs'
  BY <1>1, <1>2 DEF TopIs
<1>5. Catchers'
  BY <1>1 DEF Catchers, Holders, Depth, OwnersOf
<1> QED
  BY <1>2, <1>3, <1>4, <1>5, PlainStay

LEMMA JcniEnterKeeps ==
  ASSUME ExecutionInv, JcniEnter
  PROVE  ExecutionInv'
<1>1. Top.fn = "jcni" /\ Underway(Top) /\ st' = "run"
  BY DEF JcniEnter, In, Underway
<1>2. pending' \in Exceptions \cup {None}
  BY Parts DEF JcniEnter, TypeOK
<1> QED
  BY <1>1, <1>2, StayKeeps DEF JcniEnter, lists

LEMMA NativeThrowsKeeps ==
  ASSUME ExecutionInv, NativeThrows \/ NativeClears
  PROVE  ExecutionInv'
<1>1. Top.fn = "native" /\ Underway(Top) /\ st' = "run"
  BY DEF NativeThrows, NativeClears, In, Underway
<1>2. pending' \in Exceptions \cup {None}
  BY DEF NativeThrows, NativeClears, Exceptions
<1> QED
  BY <1>1, <1>2, StayKeeps DEF NativeThrows, NativeClears, lists

LEMMA JavaThrowsKeeps ==
  ASSUME ExecutionInv, JavaThrows
  PROVE  ExecutionInv'
<1>1. Top.fn \in {"interp", "elf", "jcni"} /\ NullPointer \in Exceptions
  BY DEF JavaThrows, Exceptions
<1>3. Started(Top) /\ "post" \in Callees[Top.fn]
  BY <1>1, CalleesAre DEF Started
<1>4. CASE Raise(NullPointer) /\ calls' = calls
  <2>1. st' = "err" /\ pending' \in Exceptions \cup {None}
    BY <1>1, <1>4 DEF Raise
  <2> QED
    BY <1>1, <1>3, <1>4, <2>1, StayKeeps DEF JavaThrows, lists
<1>5. CASE Post(calls, NullPointer) /\ pending' = pending
  BY <1>1, <1>3, <1>5, PostKeeps DEF JavaThrows, lists
<1> QED
  BY <1>4, <1>5 DEF JavaThrows

LEMMA CallEnterKeeps ==
  ASSUME ExecutionInv, CallEnter
  PROVE  ExecutionInv'
<1>1. Top.fn = "call" /\ Top.m \in Methods
  BY Parts, TopFacts DEF CallEnter, In, Shape
<1>2. Started(Top) /\ "post" \in Callees[Top.fn] /\ NullPointer \in Exceptions /\ OutOfMemory \in Exceptions
  BY <1>1, CalleesAre DEF Started, Exceptions
<1>3. CASE CallNonvirtual
  BY <1>1, <1>3, CallsGate DEF CallEnter, CallNonvirtual, lists
<1>4. CASE CallVirtual
  BY <1>1, <1>2, <1>4, PostKeeps DEF CallEnter, CallVirtual, lists
<1>5. CASE CallStatic
  <2>1. st' = "err" /\ pending' \in Exceptions \cup {None} /\ calls' = calls
    BY <1>2, <1>5 DEF CallStatic, Raise
  <2> QED
    BY <1>1, <1>2, <2>1, StayKeeps DEF CallEnter, lists
<1> QED
  BY <1>3, <1>4, <1>5 DEF CallEnter

-----------------------------------------------------------------------------
(* The other lists, as things are got and given back                        *)

\* What the invariant says of the catch list.
LEMMA CatchFacts ==
  ASSUME TypeOK, Catchers
  PROVE  /\ catch_list \in Seq(CatchType) /\ DOMAIN catch_list = 1 .. Len(catch_list) /\ Len(catch_list) \in Nat
         /\ \A c \in DOMAIN catch_list :
              /\ catch_list[c] \in CatchType /\ catch_list[c].owner \in Holders("catch")
              /\ catch_list[c].owner \in 1 .. Depth /\ "catch" \in calls[catch_list[c].owner].got
         /\ \A d \in Holders("catch") : \E c \in DOMAIN catch_list : catch_list[c].owner = d
         /\ \A b, c \in DOMAIN catch_list : b < c => catch_list[b].owner < catch_list[c].owner
<1>1. catch_list \in Seq(CatchType) /\ DOMAIN catch_list = 1 .. Len(catch_list) /\ Len(catch_list) \in Nat
  BY LenProperties DEF TypeOK
<1>2. /\ \A c \in DOMAIN catch_list : catch_list[c].owner \in Holders("catch")
      /\ \A d \in Holders("catch") : \E c \in DOMAIN catch_list : catch_list[c].owner = d
      /\ \A b, c \in DOMAIN catch_list : b < c => catch_list[b].owner < catch_list[c].owner
  BY <1>1, ListsAre DEF Catchers
<1>3. \A c \in DOMAIN catch_list :
        catch_list[c].owner \in 1 .. Depth /\ "catch" \in calls[catch_list[c].owner].got
  BY <1>2, HoldersAre
<1>4. \A c \in 1 .. Len(catch_list) : catch_list[c] \in CatchType
  BY <1>1, ElementOfSeq
<1> QED
  BY <1>1, <1>2, <1>3, <1>4

\* A catch frame is linked.
LEMMA CatchMore ==
  ASSUME TypeOK, Catchers, Alike, NEW r \in CatchType, catch_list' = Append(catch_list, r), r.owner = Depth,
         Depth <= Depth', Depth \notin Holders("catch"), Holders("catch")' = Holders("catch") \cup {Depth},
         \A d \in 1 .. Depth : calls'[d].pc = calls[d].pc,
         Top.fn = "gate" => r.method = "invoke_method",
         Top.fn = "elf" => r.method = Top.m /\ r.region = Top.pc
  PROVE  Catchers' /\ catch_list' \in Seq(CatchType)
<1>1. Depth \in Nat \ {0} /\ Top = calls[Depth] /\ Depth \in 1 .. Depth
  BY DepthIs DEF Top
<1>2. \A d \in 1 .. Depth : calls'[d].fn = calls[d].fn /\ calls'[d].m = calls[d].m /\ calls'[d].pc = calls[d].pc
  <2>1. Depth' \in Nat /\ \A d \in 1 .. Depth : d <= Depth'
    BY <1>1 DEF Alike
  <2> QED
    BY <2>1 DEF Alike
<1>3. /\ catch_list' \in Seq(CatchType) /\ DOMAIN catch_list' = 1 .. Len(catch_list) + 1
      /\ \A c \in DOMAIN catch_list : catch_list'[c] = catch_list[c]
      /\ catch_list'[Len(catch_list) + 1] = r
      /\ \A c \in DOMAIN catch_list' : c \in DOMAIN catch_list \/ c = Len(catch_list) + 1
  BY CatchFacts, AppendIs, LenProperties
<1>4. Lists(OwnersOf(catch_list'), Holders("catch")')
  <2>1. Holders("catch") \in SUBSET Nat /\ \A x \in Holders("catch") : x < r.owner
    BY <1>1, HoldersIn
  <2> QED
    BY <2>1, <1>1, CatchFacts, ListsMore DEF Catchers
<1>5. ASSUME NEW c \in DOMAIN catch_list', NEW x, x = calls'[catch_list'[c].owner]
      PROVE  /\ x.fn = "gate" => catch_list'[c].method = "invoke_method"
             /\ x.fn = "elf" => catch_list'[c].method = x.m /\ catch_list'[c].region = x.pc
  <2>1. CASE c \in DOMAIN catch_list
    <3>1. catch_list'[c] = catch_list[c] /\ catch_list[c].owner \in 1 .. Depth
      BY <1>3, <2>1, CatchFacts
    <3>2. PICK y : y = calls[catch_list[c].owner]
      OBVIOUS
    <3>3. /\ y.fn = "gate" => catch_list[c].method = "invoke_method"
          /\ y.fn = "elf" => catch_list[c].method = y.m /\ catch_list[c].region = y.pc
      BY <2>1, <3>2 DEF Catchers
    <3>4. x.fn = y.fn /\ x.m = y.m /\ x.pc = y.pc
      BY <1>2, <1>5, <3>1, <3>2
    <3> QED
      BY <3>1, <3>3, <3>4
  <2>2. CASE c = Len(catch_list) + 1
    <3>1. catch_list'[c] = r /\ x.fn = Top.fn /\ x.m = Top.m /\ x.pc = Top.pc
      BY <1>1, <1>2, <1>3, <1>5, <2>2
    <3> QED
      BY <3>1
  <2> QED
    BY <1>3, <2>1, <2>2
<1>6. Catchers'
  BY <1>4, <1>5 DEF Catchers, OwnersOf
<1> QED
  BY <1>3, <1>6

\* It is unlinked by the activation that has linked it.
LEMMA CatchLess ==
  ASSUME TypeOK, Catchers, Leaves, "catch" \in Top.got, catch_list' = Front(catch_list)
  PROVE  Catchers' /\ catch_list' \in Seq(CatchType) /\ catch_list # <<>>
<1>1. Depth \in Nat \ {0} /\ Top = calls[Depth] /\ Depth \in Holders("catch")
  BY DepthIs, HoldersAre DEF Top
<1>2. /\ Depth' = Depth - 1 /\ \A d \in 1 .. Depth - 1 : calls'[d] = calls[d]
  BY DEF Leaves
<1>3. /\ Holders("catch")' = Holders("catch") \ {Depth} /\ Holders("catch") \in SUBSET Nat
      /\ \A x \in Holders("catch") : x <= Depth
  BY HoldersIn, HoldersLeave
<1>4. catch_list # <<>> /\ Last(catch_list).owner = Depth /\ Lists(OwnersOf(catch_list'), Holders("catch")')
  BY <1>1, <1>3, CatchFacts, ListsLess DEF Catchers
<1>5. /\ catch_list' \in Seq(CatchType) /\ DOMAIN catch_list' = 1 .. Len(catch_list) - 1
      /\ \A c \in 1 .. Len(catch_list) - 1 : catch_list'[c] = catch_list[c]
      /\ Len(catch_list) \in Nat \ {0} /\ Last(catch_list) = catch_list[Len(catch_list)]
  BY <1>4, CatchFacts, FrontOf, LenProperties
<1>6. ASSUME NEW c \in DOMAIN catch_list'
      PROVE  /\ c \in DOMAIN catch_list /\ catch_list'[c] = catch_list[c]
             /\ calls'[catch_list'[c].owner] = calls[catch_list[c].owner]
  <2>1. c \in DOMAIN catch_list /\ Len(catch_list) \in DOMAIN catch_list /\ c < Len(catch_list)
    BY <1>5, CatchFacts
  <2>2. catch_list[c].owner < Depth /\ catch_list[c].owner \in 1 .. Depth
    BY <1>4, <1>5, <2>1, CatchFacts
  <2>3. catch_list[c].owner \in 1 .. Depth - 1
    BY <1>1, <2>2
  <2> QED
    BY <1>2, <1>5, <2>1, <2>3
<1>7. Catchers'
  BY <1>4, <1>6 DEF Catchers, OwnersOf
<1> QED
  BY <1>4, <1>5, <1>7

\* A frame of native references is pushed, or popped.
LEMMA LocalsMore ==
  ASSUME TypeOK, NativeLocals, NEW v \in Nat, native_locals' = Append(native_locals, v),
         Holders("frame")' = Holders("frame") \cup {v}, \A x \in Holders("frame") : x < v
  PROVE  NativeLocals' /\ native_locals' \in Seq(Nat)
<1>1. Holders("frame") \in SUBSET Nat /\ native_locals \in Seq(Nat)
  BY HoldersIn DEF TypeOK
<1> QED
  BY <1>1, NumbersMore, AppendIs DEF NativeLocals

\* A function that returns and takes off what it put on a list.
LEMMA LocalsLess ==
  ASSUME TypeOK, NativeLocals, Leaves, "frame" \in Top.got, native_locals' = Front(native_locals)
  PROVE  NativeLocals' /\ native_locals' \in Seq(Nat)
<1>1. Depth \in Holders("frame")
  BY DepthIs, HoldersAre DEF Top
<1>2. Holders("frame") \in SUBSET Nat /\ (\A x \in Holders("frame") : x <= Depth) /\ native_locals \in Seq(Nat)
  BY HoldersIn DEF TypeOK
<1>3. Lists(native_locals', Holders("frame")')
  BY <1>1, <1>2, HoldersLeave, NumbersLess DEF NativeLocals
<1>4. native_locals # <<>>
  <2>1. Depth \in Range(native_locals)
    BY <1>1 DEF NativeLocals, Lists
  <2> QED
    BY <1>2, <2>1, LenProperties DEF Range
<1> QED
  BY <1>2, <1>3, <1>4, FrontOf DEF NativeLocals

\* A monitor is entered, or left.
LEMMA BalanceMore ==
  ASSUME TypeOK, Balance, Alike, NEW m \in Methods, Lock(m), NEW e \in 1 .. Depth, e <= Depth',
         e \notin Holders("lock"), calls[e].m = m, Holders("lock")' = Holders("lock") \cup {e}
  PROVE  Balance' /\ held' \in [Methods -> Nat]
<1>1. held \in [Methods -> Nat] /\ held' = [held EXCEPT ![m] = @ + 1] /\ held' \in [Methods -> Nat]
  BY DEF Lock, TypeOK
<1>2. \A d \in Holders("lock") \cup {e} : calls'[d].m = calls[d].m
  <2>1. ASSUME NEW d \in Holders("lock") \cup {e} PROVE d \in 1 .. Depth /\ d <= Depth'
    <3>1. d \in Holders("lock")'
      OBVIOUS
    <3>2. d \in 1 .. Depth' /\ d \in 1 .. Depth
      BY <3>1, HoldersAre
    <3> QED
      BY <3>2 DEF Alike
  <2> QED
    BY <2>1 DEF Alike
<1>3. ASSUME NEW x \in Methods
      PROVE  held'[x] = Cardinality({d \in Holders("lock")' : calls'[d].m = x})
  <2>1. PICK S : S = {d \in Holders("lock") : calls[d].m = x}
    OBVIOUS
  <2>2. IsFiniteSet(S) /\ e \notin S
    BY <2>1, HoldersIn, FS_Subset
  <2>3. Cardinality(S) = held[x]
    BY <2>1 DEF Balance
  <2>4. CASE x = m
    <3>1. {d \in Holders("lock")' : calls'[d].m = x} = S \cup {e}
      BY <1>2, <2>1, <2>4
    <3>2. Cardinality(S \cup {e}) = Cardinality(S) + 1
      BY <2>2, FS_AddElement
    <3> QED
      BY <1>1, <2>3, <2>4, <3>1, <3>2
  <2>5. CASE x # m
    <3>1. {d \in Holders("lock")' : calls'[d].m = x} = S
      BY <1>2, <2>1, <2>5
    <3> QED
      BY <1>1, <2>3, <2>5, <3>1
  <2> QED
    BY <2>4, <2>5
<1> QED
  BY <1>1, <1>3 DEF Balance

LEMMA BalanceLess ==
  ASSUME TypeOK, Balance, Leaves, Top.m \in Methods, UnlockIf("lock" \in Top.got, Top.m)
  PROVE  Balance' /\ held' \in [Methods -> Nat]
<1>1. Depth \in Nat \ {0} /\ Depth \in 1 .. Depth /\ Depth' = Depth - 1 /\ Top = calls[Depth]
  BY DepthIs DEF Leaves, Top
<1>2. CASE "lock" \in Top.got
  <2>1. held \in [Methods -> Nat] /\ held' = [held EXCEPT ![Top.m] = @ - 1]
    BY <1>2 DEF UnlockIf, TypeOK
  <2>2. Holders("lock")' = Holders("lock") \ {Depth} /\ Depth \in Holders("lock")
    BY <1>1, <1>2, HoldersLeave, HoldersAre
  <2>3. \A d \in Holders("lock") \ {Depth} : calls'[d].m = calls[d].m
    <3>1. \A d \in Holders("lock") \ {Depth} : d \in 1 .. Depth - 1
      BY <1>1 DEF Holders
    <3> QED
      BY <3>1 DEF Leaves
  <2>4. ASSUME NEW x \in Methods
        PROVE  /\ held'[x] = Cardinality({d \in Holders("lock")' : calls'[d].m = x})
               /\ held'[x] \in Nat
    <3>1. PICK S : S = {d \in Holders("lock") : calls[d].m = x}
      OBVIOUS
    <3>2. IsFiniteSet(S) /\ Cardinality(S) = held[x] /\ Cardinality(S) \in Nat
      BY <3>1, HoldersIn, FS_Subset, FS_CardinalityType DEF Balance
    <3>3. CASE x = Top.m
      <4>1. {d \in Holders("lock")' : calls'[d].m = x} = S \ {Depth} /\ Depth \in S
        BY <1>1, <2>2, <2>3, <3>1, <3>3
      <4>2. Cardinality(S \ {Depth}) = Cardinality(S) - 1 /\ Cardinality(S \ {Depth}) \in Nat
        BY <3>2, <4>1, FS_RemoveElement, FS_CardinalityType
      <4>3. held'[x] = held[x] - 1
        BY <2>1, <3>3
      <4> QED
        BY <3>2, <4>1, <4>2, <4>3
    <3>4. CASE x # Top.m
      <4>1. {d \in Holders("lock")' : calls'[d].m = x} = S
        BY <1>1, <2>2, <2>3, <3>1, <3>4
      <4> QED
        BY <2>1, <3>2, <3>4, <4>1
    <3> QED
      BY <3>3, <3>4
  <2>5. held' \in [Methods -> Nat]
    <3>1. held' = [x \in Methods |-> held'[x]]
      BY <2>1
    <3> QED
      BY <2>4, <3>1
  <2> QED
    BY <2>4, <2>5 DEF Balance
<1>3. CASE "lock" \notin Top.got
  <2>1. held' = held
    BY <1>3 DEF UnlockIf
  <2> QED
    BY <1>3, <2>1, LeavesRest DEF TypeOK
<1> QED
  BY <1>2, <1>3

\* An exception is posted, or has been.
LEMMA PostingMore ==
  ASSUME TypeOK, Posting, Alike, Depth <= Depth', Depth \notin Holders("vmex"), Top.m \notin in_vmex,
         Holders("vmex")' = Holders("vmex") \cup {Depth}, in_vmex' = in_vmex \cup {Top.m}
  PROVE  Posting'
<1>1. Depth \in 1 .. Depth /\ Top = calls[Depth]
  BY DepthIs DEF Top
<1>2. \A d \in Holders("vmex") \cup {Depth} : calls'[d].m = calls[d].m
  <2>1. ASSUME NEW d \in Holders("vmex") \cup {Depth} PROVE d \in 1 .. Depth /\ d <= Depth'
    <3>1. d \in Holders("vmex")'
      OBVIOUS
    <3>2. d \in 1 .. Depth' /\ d \in 1 .. Depth
      BY <1>1, <3>1, HoldersAre
    <3> QED
      BY <3>2 DEF Alike
  <2> QED
    BY <2>1 DEF Alike
<1>3. in_vmex = {calls[d].m : d \in Holders("vmex")}
  BY DEF Posting
<1>4. in_vmex' = {calls'[d].m : d \in Holders("vmex")'}
  BY <1>1, <1>2, <1>3
<1>5. \A d \in Holders("vmex") : calls[d].m # Top.m
  BY <1>3
<1>6. \A d, e \in Holders("vmex")' : calls'[d].m = calls'[e].m => d = e
  BY <1>1, <1>2, <1>5 DEF Posting
<1> QED
  BY <1>4, <1>6 DEF Posting

LEMMA PostingLess ==
  ASSUME TypeOK, Posting, Leaves, "vmex" \in Top.got, in_vmex' = in_vmex \ {Top.m}
  PROVE  Posting'
<1>1. Depth \in Holders("vmex") /\ Top = calls[Depth] /\ Depth \in Nat
  BY DepthIs, HoldersAre DEF Top
<1>2. Holders("vmex")' = Holders("vmex") \ {Depth}
  BY HoldersLeave
<1>3. \A d \in Holders("vmex") \ {Depth} : calls'[d].m = calls[d].m
  <2>1. \A d \in Holders("vmex") \ {Depth} : d \in 1 .. Depth - 1
    BY <1>1 DEF Holders
  <2> QED
    BY <2>1 DEF Leaves
<1>4. in_vmex = {calls[d].m : d \in Holders("vmex")}
  BY DEF Posting
<1>5. \A d \in Holders("vmex") \ {Depth} : calls[d].m # Top.m
  BY <1>1 DEF Posting
<1>6. in_vmex' = {calls'[d].m : d \in Holders("vmex")'}
  BY <1>1, <1>2, <1>3, <1>4, <1>5
<1>7. \A d, e \in Holders("vmex")' : calls'[d].m = calls'[e].m => d = e
  BY <1>2, <1>3 DEF Posting
<1> QED
  BY <1>6, <1>7 DEF Posting

-----------------------------------------------------------------------------
(* Actions of the interpreter and of compiled methods                       *)

\* A method returns that has pushed a chunk.
LEMMA InterpLeaves ==
  ASSUME ExecutionInv, NEW s \in {"ok", "err"}, ReturnWith(s), Top.fn = "interp", "chunk" \in Top.got,
         UnlockIf("lock" \in Top.got, Top.m), java_stack' = Front(java_stack),
         catch_list' = catch_list, native_locals' = native_locals, pending' = pending,
         stack_limit' = stack_limit, in_vmex' = in_vmex, jni_method' = jni_method, native' = native
  PROVE  ExecutionInv'
<1>1. TypeOK /\ Links /\ TopIs /\ Stacks
  BY Parts
<1>2. Depth # 1 /\ calls[Depth - 1].fn # "native"
  BY <1>1, CallerIs
<1>3. Leaves /\ st' = Resume(calls[Depth - 1], s)
  BY <1>1, <1>2, LeavesIf DEF ReturnWith
<1>4. Top.got \in SUBSET {"chunk", "lock"} /\ Top.m \in Methods
  BY <1>1, TopFacts, MayIs DEF Shape
<1>5. Balance' /\ held' \in [Methods -> Nat]
  BY <1>1, <1>3, <1>4, Parts, BalanceLess
<1>6. Depth \in Holders("chunk") /\ Depth \notin Holders("clip")
  BY <1>1, <1>4, DepthIs, HoldersAre DEF Top
<1>7. java_stack # <<>>
      /\ StackIs(java_stack', Depth, Holders("chunk") \ {Depth}, Interps, Holders("clip"), Leading, Interpreting)
  BY <1>1, <1>6, StackNow, StackPop
<1>8. Stacks'
  <2>1. Holders("clip") \ {Depth} = Holders("clip")
    BY <1>6
  <2> QED
    BY <1>1, <1>3, <1>7, <2>1, LeavesStack
<1>9. TypeOK'
  <2>1. calls' \in Seq(ActivationType) /\ calls' # <<>>
    BY <1>1, <1>3, DepthIs, EmptySeq DEF Leaves, Depth
  <2>2. st' \in {"enter", "run", "ok", "err"}
    BY <1>3 DEF Resume
  <2>3. java_stack' \in Seq(ChunkType)
    BY <1>7 DEF StackIs
  <2> QED
    BY <1>1, <1>5, <2>1, <2>2, <2>3 DEF TypeOK
<1>10. Links' /\ Searches'
  BY <1>1, <1>3, LeavesLinks, LeavesSearch
<1>11. TopIs'
  <2>1. native' = FALSE
    BY <1>1 DEF TopIs, TypeOK
  <2> QED
    BY <1>1, <1>2, <1>3, <2>1, LeavesTop
<1>12. Catchers' /\ NativeLocals' /\ Limits' /\ Posting'
  BY <1>1, <1>3, <1>4, Parts, LeavesRest
<1>13. JniMethods'
  BY <1>1, <1>3, Parts, LeavesNatives
<1> QED
  BY <1>5, <1>8, <1>9, <1>10, <1>11, <1>12, <1>13, Together

LEMMA InterpReturnKeeps ==
  ASSUME ExecutionInv, InterpReturn
  PROVE  ExecutionInv'
<1>1. Top.fn = "interp" /\ "chunk" \in Top.got
  BY Parts DEF InterpReturn, In, TopIs, Underway
<1> QED
  BY <1>1, InterpLeaves DEF InterpReturn

\* Locking may fail only where no trap covers the first instruction.
LEMMA TrapIs ==
  ASSUME NEW m \in Methods, NEW i \in DOMAIN Traps[m]
  PROVE  /\ DOMAIN Traps[m] \in SUBSET Nat
         /\ Traps[m][i].target \in 0 .. MaxPc /\ Traps[m][i].target \in Nat
         /\ Traps[m][i].start \in Nat /\ Traps[m][i].end \in Nat
<1>1. PICK T : T = [start : Nat, end : Nat, type : Exceptions \cup {AnyType}, target : 0 .. MaxPc]
  OBVIOUS
<1>2. Traps[m] \in Seq(T) /\ MaxPc \in Nat
  BY <1>1, ExecutionAssumption
<1>3. DOMAIN Traps[m] = 1 .. Len(Traps[m])
  BY <1>2, LenProperties
<1>4. Traps[m][i] \in T
  BY <1>2, <1>3, ElementOfSeq
<1> QED
  BY <1>1, <1>2, <1>3, <1>4

LEMMA InterpExceptionKeeps ==
  ASSUME LockFailuresLeave, ExecutionInv, InterpException
  PROVE  ExecutionInv'
<1>1. Top.fn = "interp" /\ st = "err" /\ "chunk" \in Top.got
  BY DEF InterpException, In
<1>2. PICK S : S = Matching(Top.m, Top.pc, pending)
  OBVIOUS
<1>3. CASE S = {}
  BY <1>1, <1>2, <1>3, InterpLeaves DEF InterpException
<1>4. CASE S # {}
  <2>1. Top \in ActivationType /\ Shape(Top) /\ Top.m \in Methods
    BY <1>1, Parts, TopFacts DEF Shape
  <2>2. S \in SUBSET DOMAIN Traps[Top.m] /\ DOMAIN Traps[Top.m] \in SUBSET Nat
    BY <1>2, <1>4, <2>1, TrapIs DEF Matching
  <2>3. Min(S) \in DOMAIN Traps[Top.m]
    BY <1>4, <2>2, MinIs
  <2>4. PICK t : t = Traps[Top.m][Min(S)].target
    OBVIOUS
  <2>5. t \in Nat
    BY <2>1, <2>3, <2>4, TrapIs
  <2>6. PICK b : b = [Top EXCEPT !.pc = t]
    OBVIOUS
  <2>7. /\ b \in ActivationType /\ b.fn = Top.fn /\ b.m = Top.m /\ b.got = Top.got
        /\ b.kept = Top.kept /\ b.pc = t
    BY <2>1, <2>5, <2>6 DEF ActivationType
  <2>8. /\ calls' = [calls EXCEPT ![Depth] = b] /\ st' = "run" /\ pending' = None
        /\ java_stack' = java_stack /\ held' = held
    BY <1>2, <1>4, <2>4, <2>6 DEF InterpException, Top
  <2>9. Becomes(b)
    BY <2>7, <2>8, Parts, BecomesIf
  <2>10. Top.m \in Synchronized => "lock" \in Top.got
    <3>1. SUFFICES ASSUME Top.m \in Synchronized, "lock" \notin Top.got PROVE FALSE
      OBVIOUS
    <3>2. Top.pc = 0 /\ Top.m \in LockMayFail
      BY <1>1, <2>1, <3>1 DEF Shape
    <3>3. PICK i \in S : TRUE
      BY <1>4
    <3>4. i \in DOMAIN Traps[Top.m] /\ Traps[Top.m][i].start <= Top.pc
      BY <1>2, <3>3 DEF Matching, Covers
    <3>5. Traps[Top.m][i].start > 0 /\ Traps[Top.m][i].start \in Nat
      BY <2>1, <3>2, <3>4, TrapIs DEF LockFailuresLeave
    <3> QED
      BY <3>2, <3>4, <3>5
  <2>11. Shape(b)
    BY <1>1, <2>1, <2>7, <2>10 DEF Shape
  <2>12. TypeOK'
    BY <2>8, <2>9, Parts, DepthIs, EmptySeq DEF InterpException, TypeOK, Becomes, Depth
  <2>13. TopIs'
    <3>1. Top' = b /\ native' = native
      BY <2>9 DEF Becomes, Top, InterpException
    <3> QED
      BY <1>1, <2>7, <2>8, <2>10, <3>1, Parts DEF TopIs, Underway
  <2>14. Catchers'
    <3>1. Alike /\ Still("catch")
      BY <1>1, <2>7, <2>9, Parts, BecomesAlike, BecomesStill
    <3>2. \A d \in Holders("catch") : calls'[d].pc = calls[d].pc
      <4>1. "catch" \notin Top.got
        BY <1>1, <2>1, MayIs DEF Shape
      <4>2. \A d \in Holders("catch") : d \in 1 .. Depth - 1
        BY <4>1, Parts, DepthIs DEF Holders, Top
      <4> QED
        BY <2>9, <4>2 DEF Becomes
    <3> QED
      BY <3>1, <3>2, Parts, CatchersKept DEF InterpException
  <2> QED
    BY <1>1, <2>7, <2>8, <2>9, <2>11, <2>12, <2>13, <2>14, PlainStay DEF InterpException
<1> QED
  BY <1>3, <1>4

LEMMA InterpEnterKeeps ==
  ASSUME ExecutionInv, InterpEnter
  PROVE  ExecutionInv'
<1>1. Top.fn = "interp" /\ st = "enter" /\ Top.got = {}
  BY Parts DEF InterpEnter, In, TopIs
<1>2. TypeOK /\ Links /\ TopIs /\ Stacks
  BY Parts
<1>3. Top \in ActivationType /\ Shape(Top) /\ Top.m \in Methods /\ Depth \in Nat \ {0} /\ Depth \in 1 .. Depth
      /\ Top = calls[Depth]
  BY <1>1, <1>2, TopFacts DEF Shape, Top
<1>4. \A x : Depth \notin Holders(x)
  BY <1>1, <1>3, HoldersAre
<1>5. StackIs(java_stack', Depth, Holders("chunk") \cup {Depth}, Interps, Holders("clip"), Leading, Interpreting)
  <2>1. Depth \in Interps
    BY <1>1, <1>3 DEF Interps
  <2>2. java_stack' = Append(java_stack, [interp |-> TRUE, owner |-> Depth, top |-> 0])
    BY DEF InterpEnter, Chunk
  <2>3. (Depth \in Interps <=> TRUE) /\ Depth > 0 /\ Depth \notin Holders("chunk")
    BY <1>3, <1>4, <2>1
  <2> QED
    BY <1>2, <2>2, <2>3, StackNow, StackPush
<1>6. /\ catch_list' = catch_list /\ native_locals' = native_locals /\ pending' = pending
      /\ stack_limit' = stack_limit /\ in_vmex' = in_vmex /\ jni_method' = jni_method /\ native' = native
  BY DEF InterpEnter
<1>7. java_stack' \in Seq(ChunkType)
  BY <1>5 DEF StackIs
<1>8. native = FALSE
  BY <1>1, <1>2 DEF TopIs, TypeOK
<1>9. ASSUME NEW S \in {{"chunk"}, {"chunk", "lock"}}, calls' = Got(S), st' = "run",
             Top.m \in Synchronized <=> "lock" \in S,
             "lock" \in S => Lock(Top.m), "lock" \notin S => held' = held
      PROVE  ExecutionInv'
  <2>1. S \in SUBSET Things
    BY DEF Things
  <2>2. PICK b : b = [Top EXCEPT !.got = @ \cup S]
    OBVIOUS
  <2>3. /\ Becomes(b) /\ b.fn = "interp" /\ b.m = Top.m /\ b.got = S
        /\ b.kept = Top.kept /\ b.pc = Top.pc
    BY <1>1, <1>2, <1>3, <1>9, <2>1, <2>2, BecomesGot DEF ActivationType
  <2>4. Shape(b)
    BY <1>3, <1>9, <2>3, MayIs DEF Shape
  <2>5. Links'
    BY <1>1, <1>2, <2>3, <2>4, BecomesLinks
  <2>6. Alike /\ NativeLocals' /\ Limits' /\ Posting'
    BY <1>1, <1>2, <1>6, <2>3, Parts, BecomesRest
  <2>7. Top' = b
    BY <2>3 DEF Becomes, Top
  <2>8. TopIs'
    BY <1>6, <1>8, <1>9, <2>3, <2>7 DEF TopIs, Underway
  <2>9. Stacks'
    <3>1. Holders("chunk")' = Holders("chunk") \cup {Depth} /\ Holders("clip")' = Holders("clip")
      BY <1>2, <1>4, <2>3, HoldersBecome
    <3> QED
      BY <1>1, <1>2, <1>5, <2>3, <3>1, BecomesStack
  <2>10. Catchers'
    <3>1. Still("catch")
      BY <1>1, <1>2, <2>3, BecomesStill
    <3>2. \A d \in Holders("catch") : calls'[d].pc = calls[d].pc
      <4>1. \A d \in Holders("catch") : d \in 1 .. Depth - 1
        BY <1>3, <1>4 DEF Holders
      <4> QED
        BY <2>3, <4>1 DEF Becomes
    <3> QED
      BY <1>2, <1>6, <2>6, <3>1, <3>2, Parts, CatchersKept
  <2>11. JniMethods' /\ Searches'
    <3>1. Searches'
      BY <2>3, <2>7 DEF Searches
    <3> QED
      BY <1>2, <1>6, <2>3, <2>6, <3>1, Parts, BecomesNatives
  <2>12. Balance' /\ held' \in [Methods -> Nat]
    <3>1. CASE "lock" \in S
      <4>1. Holders("lock")' = Holders("lock") \cup {Depth}
        BY <1>2, <1>4, <2>3, <3>1, HoldersBecome
      <4>2. Depth' = Depth
        BY <2>3 DEF Becomes
      <4> QED
        BY <1>2, <1>3, <1>4, <1>9, <2>6, <3>1, <4>1, <4>2, Parts, BalanceMore
    <3>2. CASE "lock" \notin S
      BY <1>1, <1>2, <1>9, <2>3, <3>2, Parts, BecomesRest DEF TypeOK
    <3> QED
      BY <3>1, <3>2
  <2>13. TypeOK'
    <3>1. calls' \in Seq(ActivationType) /\ calls' # <<>>
      BY <1>3, <2>3, EmptySeq DEF Becomes, Depth
    <3> QED
      BY <1>2, <1>6, <1>7, <1>9, <2>12, <3>1 DEF TypeOK
  <2> QED
    BY <2>5, <2>6, <2>8, <2>9, <2>10, <2>11, <2>12, <2>13, Together
<1>10. ASSUME Top.m \in LockMayFail, Post(Got({"chunk"}), OutOfMemory), held' = held
       PROVE  ExecutionInv'
  <2>1. {"chunk"} \in SUBSET Things /\ OutOfMemory \in Exceptions
    BY DEF Things, Exceptions
  <2>2. PICK a, b : a = Activation("post", OutOfMemory) /\ b = [Top EXCEPT !.got = @ \cup {"chunk"}]
    OBVIOUS
  <2>3. a \in ActivationType /\ Shape(a) /\ a.fn = "post" /\ a.got = {}
    BY <2>1, <2>2, PostShape
  <2>4. b.fn = "interp" /\ b.m = Top.m /\ b.got = {"chunk"} /\ b.pc = Top.pc
    BY <1>1, <1>3, <2>2 DEF ActivationType
  <2>5. calls' = Append(Got({"chunk"}), a) /\ st' = "enter"
    BY <1>10, <2>2 DEF Post, Push
  <2>6. Pushes({"chunk"}, a)
    BY <1>2, <2>1, <2>3, <2>5, PushesIf
  <2>7. Shape(b)
    BY <1>1, <1>3, <1>10, <2>4, MayIs DEF Shape
  <2>8. Waits(b, a)
    BY <2>3, <2>4, CalleesAre DEF Waits, Started
  <2>9. Links'
    BY <1>1, <1>2, <2>1, <2>2, <2>3, <2>6, <2>7, <2>8, PushesLinks
  <2>10. TopIs'
    BY <1>2, <1>6, <1>8, <2>3, <2>5, <2>6, PushesTop
  <2>11. Stacks'
    <3>1. Leading' \subseteq Leading /\ Interpreting' \subseteq Interpreting
      BY <1>1, <1>2, <2>1, <2>3, <2>6, PushesLeads
    <3>2. StackIs(java_stack', Depth, Holders("chunk") \cup (IF "chunk" \in {"chunk"} THEN {Depth} ELSE {}), Interps,
                  Holders("clip") \cup (IF "clip" \in {"chunk"} THEN {Depth} ELSE {}), Leading, Interpreting)
      BY <1>5
    <3> QED
      BY <1>2, <2>1, <2>3, <2>6, <3>1, <3>2, PushesStack
  <2>12. Catchers' /\ NativeLocals' /\ Limits' /\ Posting' /\ Balance'
    BY <1>2, <1>6, <1>10, <2>1, <2>3, <2>6, Parts, PushesRest
  <2>13. JniMethods' /\ Searches'
    BY <1>2, <1>6, <2>3, <2>6, Parts, PushesNatives, PushesSearch
  <2>14. TypeOK'
    <3>1. calls' \in Seq(ActivationType) /\ calls' # <<>>
      BY <1>3, <2>6, EmptySeq DEF Pushes, Depth
    <3> QED
      BY <1>2, <1>6, <1>7, <1>10, <2>5, <3>1 DEF TypeOK
  <2> QED
    BY <2>9, <2>10, <2>11, <2>12, <2>13, <2>14, Together
<1>11. CASE Top.m \in Synchronized /\ Lock(Top.m) /\ calls' = Got({"chunk", "lock"}) /\ st' = "run"
  BY <1>9, <1>11
<1>12. CASE Top.m \in LockMayFail /\ Post(Got({"chunk"}), OutOfMemory) /\ held' = held
  BY <1>10, <1>12
<1>13. CASE Top.m \notin Synchronized /\ calls' = Got({"chunk"}) /\ st' = "run" /\ held' = held
  BY <1>9, <1>13
<1> QED
  BY <1>11, <1>12, <1>13 DEF InterpEnter

\* What every call does, and every return.
LEMMA PushesCore ==
  ASSUME ExecutionInv, NEW S \in SUBSET Things, NEW a \in ActivationType, calls' = Append(Got(S), a), st' = "enter",
         NEW b, b = [Top EXCEPT !.got = @ \cup S], Shape(b), Waits(b, a), Shape(a),
         a.fn \notin {"native", "throw", "call"}, a.got = {}, a.fn = "elf" => a.pc = 0, Top.fn # "native",
         native' = native, jni_method' = jni_method
  PROVE  /\ Pushes(S, a) /\ Links' /\ TopIs' /\ JniMethods' /\ Searches'
         /\ calls' \in Seq(ActivationType) /\ calls' # <<>>
<1>1. TypeOK /\ Links /\ TopIs
  BY Parts
<1>2. Pushes(S, a)
  BY <1>1, PushesIf
<1>3. Links'
  BY <1>1, <1>2, PushesLinks
<1>4. TopIs'
  <2>1. native' = FALSE
    BY <1>1 DEF TopIs, TypeOK
  <2> QED
    BY <1>1, <1>2, <2>1, PushesTop
<1>5. JniMethods' /\ Searches'
  BY <1>1, <1>2, Parts, PushesNatives, PushesSearch
<1>6. calls' \in Seq(ActivationType) /\ calls' # <<>>
  <2>1. calls' \in Seq(ActivationType) /\ Depth' = Depth + 1 /\ Depth \in Nat
    BY <1>1, <1>2, DepthIs DEF Pushes
  <2>2. Len(calls') # 0
    BY <2>1 DEF Depth
  <2> QED
    BY <2>1, <2>2, EmptySeq
<1> QED
  BY <1>2, <1>3, <1>4, <1>5, <1>6

\* What every return keeps.
LEMMA LeavesCore ==
  ASSUME ExecutionInv, NEW s \in {"ok", "err"}, ReturnWith(s), Top.fn \notin {"native", "call"},
         s = "ok" => Top.fn \notin {"post", "throw"}, native' = native, jni_method' = jni_method
  PROVE  /\ Leaves /\ Links' /\ TopIs' /\ JniMethods' /\ Searches'
         /\ calls' \in Seq(ActivationType) /\ calls' # <<>> /\ st' \in {"enter", "run", "ok", "err"}
<1>1. TypeOK /\ Links /\ TopIs
  BY Parts
<1>2. Depth # 1 /\ calls[Depth - 1].fn # "native"
  BY <1>1, CallerIs
<1>3. Leaves /\ st' = Resume(calls[Depth - 1], s)
  BY <1>1, <1>2, LeavesIf DEF ReturnWith
<1>4. Links' /\ Searches'
  BY <1>1, <1>3, LeavesLinks, LeavesSearch
<1>5. TopIs'
  <2>1. native' = FALSE
    BY <1>1 DEF TopIs, TypeOK
  <2> QED
    BY <1>1, <1>2, <1>3, <2>1, LeavesTop
<1>6. JniMethods'
  BY <1>1, <1>3, Parts, LeavesNatives
<1>7. calls' \in Seq(ActivationType) /\ calls' # <<>>
  BY <1>1, <1>3, DepthIs, EmptySeq DEF Leaves, Depth
<1>8. st' \in {"enter", "run", "ok", "err"}
  BY <1>3 DEF Resume
<1> QED
  BY <1>3, <1>4, <1>5, <1>6, <1>7, <1>8

\* An activation that has got more is the same otherwise.
LEMMA TopMore ==
  ASSUME NEW a \in ActivationType, NEW S \in SUBSET Things, NEW b, b = [a EXCEPT !.got = @ \cup S]
  PROVE  b.fn = a.fn /\ b.m = a.m /\ b.pc = a.pc /\ b.kept = a.kept /\ b.got = a.got \cup S
  BY DEF ActivationType

LEMMA ElfEnterKeeps ==
  ASSUME ExecutionInv, ElfEnter
  PROVE  ExecutionInv'
<1>1. Top.fn = "elf" /\ st = "enter" /\ Top.got = {} /\ Top.pc = 0
  BY Parts DEF ElfEnter, In, TopIs
<1>2. TypeOK /\ Links /\ TopIs /\ Stacks
  BY Parts
<1>3. Top \in ActivationType /\ Shape(Top) /\ Top.m \in Methods /\ Depth \in Nat \ {0} /\ Depth \in 1 .. Depth
      /\ Top = calls[Depth]
  BY <1>1, <1>2, TopFacts DEF Shape, Top
<1>4. /\ java_stack' = java_stack /\ native_locals' = native_locals /\ pending' = pending
      /\ stack_limit' = stack_limit /\ in_vmex' = in_vmex /\ jni_method' = jni_method /\ native' = native
      /\ held' = held
  BY DEF ElfEnter
<1>5. CASE Post(calls, StackOverflow) /\ catch_list' = catch_list
  <2>1. "post" \in Callees[Top.fn] /\ Started(Top) /\ StackOverflow \in Exceptions
    BY <1>1, CalleesAre DEF Started, Exceptions
  <2> QED
    BY <1>1, <1>4, <1>5, <2>1, PostKeeps
<1>6. CASE Traps[Top.m] = <<>> /\ st' = "run" /\ calls' = calls /\ catch_list' = catch_list
  <2>1. Underway(Top)
    BY <1>1, <1>6 DEF Underway
  <2>2. pending' \in Exceptions \cup {None}
    BY <1>2, <1>4 DEF TypeOK
  <2> QED
    BY <1>1, <1>4, <1>6, <2>1, <2>2, StayKeeps
<1>7. CASE /\ calls' = Got({"catch"}) /\ st' = "run"
           /\ catch_list' = Append(catch_list, [method |-> Top.m, region |-> 0, owner |-> Depth])
  <2>1. {"catch"} \in SUBSET Things
    BY DEF Things
  <2>2. PICK b : b = [Top EXCEPT !.got = @ \cup {"catch"}]
    OBVIOUS
  <2>3. /\ Becomes(b) /\ b.fn = "elf" /\ b.m = Top.m /\ b.got = {"catch"}
        /\ b.kept = Top.kept /\ b.pc = Top.pc
    <3>1. Becomes(b)
      BY <1>2, <1>7, <2>1, <2>2, BecomesGot
    <3>2. b.fn = Top.fn /\ b.m = Top.m /\ b.pc = Top.pc /\ b.kept = Top.kept /\ b.got = Top.got \cup {"catch"}
      BY <1>3, <2>1, <2>2, TopMore
    <3> QED
      BY <1>1, <3>1, <3>2
  <2>4. Shape(b)
    BY <1>1, <1>3, <2>3, MayIs DEF Shape
  <2>5. Links'
    BY <1>1, <1>2, <2>3, <2>4, BecomesLinks
  <2>6. Alike /\ NativeLocals' /\ Limits' /\ Posting' /\ Balance'
    BY <1>1, <1>2, <1>4, <2>3, Parts, BecomesRest
  <2>7. Top' = b
    BY <2>3 DEF Becomes, Top
  <2>8. TopIs'
    BY <1>1, <1>2, <1>4, <1>7, <2>3, <2>7 DEF TopIs, Underway
  <2>9. Stacks'
    BY <1>1, <1>2, <1>4, <2>3, BecomesStacks, BecomesStill
  <2>10. Catchers' /\ catch_list' \in Seq(CatchType)
    <3>1. PICK r : r = [method |-> Top.m, region |-> 0, owner |-> Depth]
      OBVIOUS
    <3>2. r \in CatchType /\ r.owner = Depth /\ r.method = Top.m /\ r.region = Top.pc
      BY <1>1, <1>3, <3>1 DEF CatchType
    <3>3. Depth \notin Holders("catch")
      BY <1>1, <1>3, HoldersAre
    <3>4. Holders("catch")' = Holders("catch") \cup {Depth}
      BY <1>2, <2>3, <3>3, HoldersBecome
    <3>5. Depth <= Depth' /\ \A d \in 1 .. Depth : calls'[d].pc = calls[d].pc
      <4>1. Depth' = Depth /\ calls'[Depth] = b /\ \A d \in 1 .. Depth - 1 : calls'[d] = calls[d]
        BY <2>3 DEF Becomes
      <4>2. \A d \in 1 .. Depth : d \in 1 .. Depth - 1 \/ d = Depth
        BY <1>3
      <4> QED
        BY <1>3, <2>3, <4>1, <4>2
    <3>6. Top.fn = "gate" => r.method = "invoke_method"
      BY <1>1
    <3>7. catch_list' = Append(catch_list, r)
      BY <1>7, <3>1
    <3> QED
      BY <1>2, <2>6, <3>2, <3>3, <3>4, <3>5, <3>6, <3>7, Parts, CatchMore
  <2>11. JniMethods' /\ Searches'
    <3>1. Searches'
      BY <2>3, <2>7 DEF Searches
    <3> QED
      BY <1>2, <1>4, <2>3, <2>6, <3>1, Parts, BecomesNatives
  <2>12. TypeOK'
    <3>1. calls' \in Seq(ActivationType) /\ calls' # <<>>
      BY <1>3, <2>3, EmptySeq DEF Becomes, Depth
    <3> QED
      BY <1>2, <1>4, <1>7, <2>10, <3>1 DEF TypeOK
  <2> QED
    BY <2>5, <2>6, <2>8, <2>9, <2>10, <2>11, <2>12, Together
<1> QED
  BY <1>5, <1>6, <1>7 DEF ElfEnter

\* The last catch frame is the top's own, if it has one.
LEMMA CatchTop ==
  ASSUME TypeOK, Catchers, "catch" \in Top.got
  PROVE  /\ catch_list # <<>> /\ Len(catch_list) \in DOMAIN catch_list
         /\ catch_list[Len(catch_list)].owner = Depth
         /\ \A c \in DOMAIN catch_list : c # Len(catch_list) => catch_list[c].owner \in 1 .. Depth - 1
<1>1. Depth \in Holders("catch") /\ Depth \in Nat \ {0}
  BY DepthIs, HoldersAre DEF Top
<1>2. PICK c \in DOMAIN catch_list : catch_list[c].owner = Depth
  BY <1>1, CatchFacts
<1>3. /\ DOMAIN catch_list = 1 .. Len(catch_list) /\ Len(catch_list) \in Nat
      /\ \A b \in DOMAIN catch_list : catch_list[b].owner \in 1 .. Depth
      /\ \A b, e \in DOMAIN catch_list : b < e => catch_list[b].owner < catch_list[e].owner
  BY CatchFacts
<1>4. Len(catch_list) \in DOMAIN catch_list /\ catch_list # <<>>
  BY <1>2, <1>3, CatchFacts, EmptySeq
<1>5. c = Len(catch_list)
  <2>1. SUFFICES ASSUME c # Len(catch_list) PROVE FALSE
    OBVIOUS
  <2>2. c < Len(catch_list)
    BY <1>3, <2>1
  <2>3. Depth < catch_list[Len(catch_list)].owner /\ catch_list[Len(catch_list)].owner \in 1 .. Depth
    BY <1>2, <1>3, <1>4, <2>2
  <2> QED
    BY <1>1, <2>3
<1>6. ASSUME NEW b \in DOMAIN catch_list, b # Len(catch_list) PROVE catch_list[b].owner \in 1 .. Depth - 1
  <2>1. b < Len(catch_list)
    BY <1>3, <1>6
  <2>2. catch_list[b].owner < Depth /\ catch_list[b].owner \in 1 .. Depth
    BY <1>2, <1>3, <1>4, <1>5, <2>1
  <2> QED
    BY <1>1, <2>2
<1> QED
  BY <1>2, <1>4, <1>5, <1>6

\* A compiled method notes where it is.
LEMMA CatchRegion ==
  ASSUME TypeOK, Catchers, NEW b, Becomes(b), b.fn = "elf", Top.fn = "elf", b.m = Top.m, b.got = Top.got,
         b.pc \in Nat,
         "catch" \in Top.got, catch_list' = [catch_list EXCEPT ![Len(catch_list)].region = b.pc]
  PROVE  Catchers' /\ catch_list' \in Seq(CatchType)
<1>1. /\ catch_list # <<>> /\ Len(catch_list) \in DOMAIN catch_list
      /\ catch_list[Len(catch_list)].owner = Depth
      /\ \A c \in DOMAIN catch_list : c # Len(catch_list) => catch_list[c].owner \in 1 .. Depth - 1
  BY CatchTop
<1>2. PICK n : n = Len(catch_list)
  OBVIOUS
<1>3. PICK r : r = [catch_list[n] EXCEPT !.region = b.pc]
  OBVIOUS
<1>4. /\ catch_list \in Seq(CatchType) /\ DOMAIN catch_list = 1 .. Len(catch_list) /\ catch_list[n] \in CatchType
  BY <1>1, <1>2, CatchFacts
<1>5. r \in CatchType /\ r.method = catch_list[n].method /\ r.owner = catch_list[n].owner /\ r.region = b.pc
  BY <1>3, <1>4 DEF CatchType
<1>6. catch_list' = [catch_list EXCEPT ![n] = r]
  BY <1>2, <1>3
<1>7. /\ catch_list' \in Seq(CatchType) /\ Len(catch_list') = Len(catch_list)
      /\ \A c \in 1 .. Len(catch_list) : catch_list'[c] = IF c = n THEN r ELSE catch_list[c]
  BY <1>1, <1>2, <1>4, <1>5, <1>6, ExceptSeq
<1>8. DOMAIN catch_list' = DOMAIN catch_list
  BY <1>4, <1>7, LenProperties
<1>9. \A c \in DOMAIN catch_list : catch_list'[c].owner = catch_list[c].owner
  BY <1>4, <1>5, <1>7
<1>10. OwnersOf(catch_list)' = OwnersOf(catch_list)
  BY <1>8, <1>9 DEF OwnersOf
<1>11. Holders("catch")' = Holders("catch")
  BY BecomesStill DEF Still
<1>12. Lists(OwnersOf(catch_list), Holders("catch"))'
  BY <1>10, <1>11 DEF Catchers, Lists
<1>13. calls'[Depth] = b /\ (\A d \in 1 .. Depth - 1 : calls'[d] = calls[d]) /\ Top = calls[Depth]
  BY DEF Becomes, Top
<1>14. ASSUME NEW c \in DOMAIN catch_list', NEW x, x = calls'[catch_list'[c].owner]
       PROVE  /\ x.fn = "gate" => catch_list'[c].method = "invoke_method"
              /\ x.fn = "elf" => catch_list'[c].method = x.m /\ catch_list'[c].region = x.pc
  <2>1. CASE c = n
    <3>1. catch_list'[c] = r /\ x = b /\ catch_list[n].owner = Depth
      BY <1>1, <1>2, <1>4, <1>5, <1>7, <1>13, <1>14, <2>1
    <3>2. catch_list[n].method = Top.m
      BY <1>1, <1>2, <1>13 DEF Catchers
    <3> QED
      BY <1>5, <3>1, <3>2
  <2>2. CASE c # n
    <3>1. catch_list'[c] = catch_list[c] /\ catch_list[c].owner \in 1 .. Depth - 1 /\ c \in DOMAIN catch_list
      BY <1>1, <1>2, <1>4, <1>7, <1>8, <2>2
    <3>2. x = calls[catch_list[c].owner]
      BY <1>13, <1>14, <3>1
    <3> QED
      BY <3>1, <3>2 DEF Catchers
  <2> QED
    BY <2>1, <2>2
<1> QED
  BY <1>7, <1>12, <1>14 DEF Catchers

LEMMA NextInsnKeeps ==
  ASSUME ExecutionInv, NextInsn
  PROVE  ExecutionInv'
<1>1. TypeOK /\ Links /\ TopIs /\ Catchers
  BY Parts
<1>2. Top.fn \in {"interp", "elf"} /\ st = "run" /\ Underway(Top)
  BY <1>1 DEF NextInsn, TopIs
<1>3. Top \in ActivationType /\ Shape(Top) /\ Depth \in Nat \ {0} /\ Top = calls[Depth] /\ Top.pc \in Nat
  BY <1>1, TopFacts, ActivationIs DEF Top
<1>4. PICK b : b = [Top EXCEPT !.pc = Top.pc + 1]
  OBVIOUS
<1>5. /\ b \in ActivationType /\ b.fn = Top.fn /\ b.m = Top.m /\ b.got = Top.got
      /\ b.kept = Top.kept /\ b.pc = Top.pc + 1
  BY <1>3, <1>4 DEF ActivationType
<1>6. calls' = [calls EXCEPT ![Depth] = b]
  BY <1>4 DEF NextInsn, Top
<1>7. Becomes(b)
  BY <1>1, <1>5, <1>6, BecomesIf
<1>8. Shape(b)
  BY <1>2, <1>3, <1>5 DEF Shape, Underway
<1>9. TopIs'
  <2>1. Top' = b /\ st' = "run" /\ native' = native
    BY <1>2, <1>7 DEF Becomes, Top, NextInsn
  <2> QED
    BY <1>1, <1>2, <1>5, <2>1 DEF TopIs, Underway
<1>10. Catchers' /\ catch_list' \in Seq(CatchType)
  <2>1. CASE "catch" \in Top.got
    <3>1. Top.fn = "elf"
      BY <1>2, <1>3, <2>1, MayIs DEF Shape
    <3>2. catch_list' = [catch_list EXCEPT ![Len(catch_list)].region = b.pc]
      BY <1>5, <2>1 DEF NextInsn, SetRegion
    <3>3. b.pc \in Nat /\ b.fn = "elf" /\ b.m = Top.m /\ b.got = Top.got
      BY <1>3, <1>5, <3>1
    <3> QED
      BY <1>1, <1>7, <2>1, <3>1, <3>2, <3>3, CatchRegion
  <2>2. CASE "catch" \notin Top.got
    <3>1. catch_list' = catch_list
      BY <2>2 DEF NextInsn, SetRegion
    <3>2. Alike /\ Still("catch")
      BY <1>1, <1>5, <1>7, BecomesAlike, BecomesStill
    <3>3. \A d \in Holders("catch") : calls'[d].pc = calls[d].pc
      <4>1. \A d \in Holders("catch") : d \in 1 .. Depth - 1
        BY <1>3, <2>2 DEF Holders
      <4> QED
        BY <1>7, <4>1 DEF Becomes
    <3> QED
      BY <1>1, <3>1, <3>2, <3>3, CatchersKept DEF TypeOK
  <2> QED
    BY <2>1, <2>2
<1>11. TypeOK'
  <2>1. calls' \in Seq(ActivationType) /\ calls' # <<>>
    BY <1>3, <1>7, EmptySeq DEF Becomes, Depth
  <2> QED
    BY <1>1, <1>10, <2>1 DEF NextInsn, TypeOK
<1>12. Top.fn # "throw"
  BY <1>2
<1> QED
  BY <1>5, <1>7, <1>8, <1>9, <1>10, <1>11, <1>12, PlainStay DEF NextInsn

LEMMA ElfReturnKeeps ==
  ASSUME ExecutionInv, ElfReturn
  PROVE  ExecutionInv'
<1>1. Top.fn = "elf" /\ ReturnWith("ok")
  BY DEF ElfReturn, In
<1>2. TypeOK /\ Links /\ Stacks
  BY Parts
<1>3. Leaves /\ Links' /\ TopIs' /\ JniMethods' /\ Searches'
      /\ calls' \in Seq(ActivationType) /\ calls' # <<>> /\ st' \in {"enter", "run", "ok", "err"}
  BY <1>1, LeavesCore DEF ElfReturn
<1>4. Top.got \in SUBSET {"catch"}
  BY <1>1, <1>2, TopFacts, MayIs DEF Shape
<1>5. Stacks'
  BY <1>2, <1>3, <1>4, LeavesStacks DEF ElfReturn
<1>6. NativeLocals' /\ Limits' /\ Posting' /\ Balance'
  BY <1>2, <1>3, <1>4, Parts, LeavesRest DEF ElfReturn
<1>7. Catchers' /\ catch_list' \in Seq(CatchType)
  <2>1. CASE "catch" \in Top.got
    BY <1>2, <1>3, <2>1, Parts, CatchLess DEF ElfReturn
  <2>2. CASE "catch" \notin Top.got
    BY <1>2, <1>3, <2>2, Parts, LeavesRest DEF ElfReturn, TypeOK
  <2> QED
    BY <2>1, <2>2
<1>8. TypeOK'
  BY <1>2, <1>3, <1>7 DEF ElfReturn, TypeOK
<1> QED
  BY <1>3, <1>5, <1>6, <1>7, <1>8, Together

LEMMA PostNewKeeps ==
  ASSUME ExecutionInv, PostNew
  PROVE  ExecutionInv'
<1>1. Top.fn = "post" /\ st = "enter" /\ Top.got = {} /\ Top.m \notin in_vmex
  BY Parts DEF PostNew, In, TopIs
<1>2. TypeOK /\ Links /\ TopIs /\ Stacks
  BY Parts
<1>3. Top \in ActivationType /\ Shape(Top) /\ Top.m \in Exceptions /\ Depth \in Nat \ {0} /\ Depth \in 1 .. Depth
      /\ Top = calls[Depth]
  BY <1>1, <1>2, TopFacts DEF Shape, Top
<1>4. PICK S : S = {"vmex"}
  OBVIOUS
<1>5. S \in SUBSET Things /\ Constructor \in Methods /\ OutOfMemory \in Exceptions
  BY <1>4, ExecutionAssumption DEF Things, Exceptions
<1>6. PICK a : /\ a = Gate(Constructor) \/ a = Activation("post", OutOfMemory)
               /\ calls' = Append(Got(S), a) /\ st' = "enter"
  BY <1>4 DEF PostNew, Push, Post, Gate
<1>7. a \in ActivationType /\ Shape(a) /\ a.got = {} /\ a.fn \in {"gate", "post"}
  BY <1>5, <1>6, GateIs, PostShape
<1>8. PICK b : b = [Top EXCEPT !.got = @ \cup S]
  OBVIOUS
<1>9. b.fn = "post" /\ b.m = Top.m /\ b.got = {"vmex"}
  BY <1>1, <1>3, <1>4, <1>5, <1>8, TopMore
<1>10. Shape(b) /\ Waits(b, a)
  BY <1>3, <1>7, <1>9, MayIs, CalleesAre DEF Shape, Waits, Started, Underway
<1>11. /\ java_stack' = java_stack /\ catch_list' = catch_list /\ native_locals' = native_locals
       /\ stack_limit' = stack_limit /\ pending' = pending /\ jni_method' = jni_method /\ native' = native
       /\ held' = held
  BY DEF PostNew, lists
<1>12. /\ Pushes(S, a) /\ Links' /\ TopIs' /\ JniMethods' /\ Searches'
       /\ calls' \in Seq(ActivationType) /\ calls' # <<>>
  BY <1>1, <1>5, <1>6, <1>7, <1>8, <1>10, <1>11, PushesCore
<1>13. Stacks'
  BY <1>1, <1>2, <1>4, <1>5, <1>7, <1>11, <1>12, PushesStacks
<1>14. Catchers' /\ NativeLocals' /\ Limits' /\ Balance'
  BY <1>2, <1>4, <1>5, <1>7, <1>11, <1>12, Parts, PushesRest
<1>15. Posting'
  <2>1. Depth \notin Holders("vmex")
    BY <1>1, <1>3, HoldersAre
  <2>2. Holders("vmex")' = Holders("vmex") \cup {Depth}
    <3>1. Holders("vmex")' = Holders("vmex") \cup (IF "vmex" \in S THEN {Depth} ELSE {})
                                             \cup (IF "vmex" \in a.got THEN {Depth + 1} ELSE {})
      BY <1>2, <1>5, <1>7, <1>12, HoldersPush
    <3>2. "vmex" \in S /\ "vmex" \notin a.got
      BY <1>4, <1>7
    <3> QED
      BY <3>1, <3>2
  <2>3. Alike /\ Depth <= Depth'
    <3>1. Depth' = Depth + 1
      BY <1>12 DEF Pushes
    <3> QED
      BY <1>2, <1>3, <1>5, <1>7, <1>12, <3>1, PushesAlike
  <2>4. in_vmex' = in_vmex \cup {Top.m}
    BY DEF PostNew
  <2> QED
    BY <1>1, <1>2, <2>1, <2>2, <2>3, <2>4, Parts, PostingMore
<1>16. TypeOK'
  <2>1. in_vmex' \subseteq Exceptions
    BY <1>2, <1>3 DEF PostNew, TypeOK
  <2> QED
    BY <1>2, <1>6, <1>11, <1>12, <2>1 DEF TypeOK
<1> QED
  BY <1>12, <1>13, <1>14, <1>15, <1>16, Together

LEMMA PostDoneKeeps ==
  ASSUME ExecutionInv, PostDone
  PROVE  ExecutionInv'
<1>1. Top.fn = "post" /\ ReturnWith("err") /\ "vmex" \in Top.got
  BY Parts DEF PostDone, TopIs, Started
<1>2. TypeOK /\ Links /\ Stacks
  BY Parts
<1>3. Leaves /\ Links' /\ TopIs' /\ JniMethods' /\ Searches'
      /\ calls' \in Seq(ActivationType) /\ calls' # <<>> /\ st' \in {"enter", "run", "ok", "err"}
  BY <1>1, LeavesCore DEF PostDone
<1>4. Top.got \in SUBSET {"vmex"} /\ Top.m \in Exceptions
  BY <1>1, <1>2, TopFacts, MayIs DEF Shape
<1>5. Stacks'
  BY <1>2, <1>3, <1>4, LeavesStacks DEF PostDone, lists
<1>6. Catchers' /\ NativeLocals' /\ Limits' /\ Balance'
  BY <1>2, <1>3, <1>4, Parts, LeavesRest DEF PostDone, lists
<1>7. Posting'
  BY <1>1, <1>2, <1>3, Parts, PostingLess DEF PostDone
<1>8. TypeOK'
  BY <1>2, <1>3, <1>4 DEF PostDone, TypeOK, lists
<1> QED
  BY <1>3, <1>5, <1>6, <1>7, <1>8, Together

LEMMA NativeCallKeeps ==
  ASSUME ExecutionInv, NativeCall
  PROVE  ExecutionInv'
<1>1. Top.fn = "native" /\ native' = FALSE
  BY DEF NativeCall, In
<1>2. TypeOK /\ Links /\ TopIs /\ Stacks
  BY Parts
<1>3. Top \in ActivationType /\ Shape(Top) /\ Depth \in Nat \ {0}
  BY <1>2, TopFacts
<1>4. PICK m, a : /\ m \in Methods /\ a = [Activation("call", m) EXCEPT !.got = {"frame"}]
                  /\ calls' = Append(calls, a) /\ st' = "enter"
  BY DEF NativeCall, Push
<1>5. a \in ActivationType /\ a.fn = "call" /\ a.m = m /\ a.got = {"frame"}
  BY <1>4 DEF Activation, ActivationType, Functions, Things
<1>6. Shape(a)
  BY <1>4, <1>5, MayIs DEF Shape
<1>7. Pushes({}, a) /\ {} \in SUBSET Things
  BY <1>2, <1>4, <1>5, PushesPlain
<1>8. Alike
  BY <1>2, <1>7, PushesAlike
<1>9. Depth' = Depth + 1
  BY <1>7 DEF Pushes
<1>10. PICK b : b = [Top EXCEPT !.got = @ \cup {}]
  OBVIOUS
<1>11. b = Top
  BY <1>3, <1>10 DEF ActivationType
<1>12. Waits(b, a)
  BY <1>1, <1>5, <1>11, CalleesAre DEF Waits, Started, Underway
<1>13. Links'
  BY <1>2, <1>3, <1>5, <1>6, <1>7, <1>10, <1>11, <1>12, PushesLinks
<1>14. TopIs'
  BY <1>1, <1>2, <1>4, <1>5, <1>7, PushesTop
<1>15. /\ java_stack' = java_stack /\ catch_list' = catch_list /\ pending' = pending
       /\ stack_limit' = stack_limit /\ in_vmex' = in_vmex /\ jni_method' = jni_method /\ held' = held
  BY DEF NativeCall
<1>16. Stacks'
  BY <1>1, <1>2, <1>5, <1>7, <1>15, PushesStacks
<1>17. Catchers' /\ Limits' /\ Posting' /\ Balance'
  BY <1>2, <1>5, <1>7, <1>15, Parts, PushesRest
<1>18. JniMethods' /\ Searches'
  BY <1>2, <1>5, <1>7, <1>15, Parts, PushesNatives, PushesSearch
<1>19. NativeLocals' /\ native_locals' \in Seq(Nat)
  <2>1. Holders("frame")' = Holders("frame") \cup (IF "frame" \in {} THEN {Depth} ELSE {})
                                             \cup (IF "frame" \in a.got THEN {Depth + 1} ELSE {})
    BY <1>2, <1>5, <1>7, HoldersPush
  <2>2. Holders("frame")' = Holders("frame") \cup {Depth + 1}
    BY <1>5, <2>1
  <2>3. \A x \in Holders("frame") : x < Depth + 1
    BY <1>3, BelowNext DEF Holders
  <2>4. native_locals' = Append(native_locals, Depth + 1) /\ Depth + 1 \in Nat
    BY <1>3 DEF NativeCall
  <2> QED
    BY <1>2, <2>2, <2>3, <2>4, Parts, LocalsMore
<1>20. TypeOK'
  <2>1. calls' \in Seq(ActivationType) /\ calls' # <<>>
    BY <1>3, <1>7, EmptySeq DEF Pushes, Depth
  <2> QED
    BY <1>1, <1>2, <1>4, <1>15, <1>19, <2>1 DEF TypeOK
<1> QED
  BY <1>13, <1>14, <1>16, <1>17, <1>18, <1>19, <1>20, Together

LEMMA CallDoneKeeps ==
  ASSUME ExecutionInv, CallDone
  PROVE  ExecutionInv'
<1>1. Top.fn = "call" /\ st \in {"ok", "err"} /\ ReturnWith(st) /\ native' = TRUE
  BY DEF CallDone
<1>2. TypeOK /\ Links /\ Stacks
  BY Parts
<1>3. Top.got = {"frame"} /\ Depth # 1 /\ calls[Depth - 1].fn = "native" /\ Depth \in Nat \ {0}
  <2>1. Top.got = {"frame"} /\ Depth # 1 /\ Depth \in Nat \ {0}
    BY <1>1, <1>2, TopFacts, MayIs DEF Shape
  <2>2. calls[Depth - 1].fn \in Functions /\ "call" \in Callees[calls[Depth - 1].fn]
    BY <1>1, <1>2, <2>1, TopFacts DEF Waits
  <2> QED
    BY <2>1, <2>2, CalleesAre DEF Functions
<1>4. Leaves /\ st' = Resume(calls[Depth - 1], st)
  BY <1>1, <1>2, <1>3, LeavesIf DEF ReturnWith
<1>5. Links' /\ Searches'
  BY <1>2, <1>4, LeavesLinks, LeavesSearch
<1>6. TopIs'
  BY <1>1, <1>2, <1>3, <1>4, LeavesTop
<1>7. JniMethods'
  BY <1>1, <1>2, <1>4, Parts, LeavesNatives DEF CallDone
<1>8. Stacks'
  BY <1>2, <1>3, <1>4, LeavesStacks DEF CallDone
<1>9. Catchers' /\ Limits' /\ Posting' /\ Balance'
  BY <1>2, <1>3, <1>4, Parts, LeavesRest DEF CallDone
<1>10. NativeLocals' /\ native_locals' \in Seq(Nat)
  BY <1>2, <1>3, <1>4, Parts, LocalsLess DEF CallDone
<1>11. TypeOK'
  <2>1. calls' \in Seq(ActivationType) /\ calls' # <<>>
    BY <1>2, <1>4, DepthIs, EmptySeq DEF Leaves, Depth
  <2>2. st' \in {"enter", "run", "ok", "err"}
    BY <1>1, <1>4 DEF Resume
  <2> QED
    BY <1>1, <1>2, <1>10, <2>1, <2>2 DEF CallDone, TypeOK
<1> QED
  BY <1>5, <1>6, <1>7, <1>8, <1>9, <1>10, <1>11, Together

LEMMA NativeReturnKeeps ==
  ASSUME ExecutionInv, NativeReturn
  PROVE  ExecutionInv'
<1>1. Top.fn = "native" /\ Depth > 1 /\ native' = FALSE /\ jni_method' = Top.kept
  BY DEF NativeReturn, In
<1>2. TypeOK /\ Links /\ Stacks
  BY Parts
<1>3. Top.got = {} /\ Depth # 1 /\ calls[Depth - 1].fn = "jni_a" /\ Depth \in Nat \ {0} /\ Top = calls[Depth]
  <2>1. Depth # 1 /\ Depth \in Nat \ {0} /\ Top = calls[Depth]
    BY <1>1, <1>2, TopFacts DEF Top
  <2>2. calls[Depth - 1].fn \in Functions /\ "native" \in Callees[calls[Depth - 1].fn]
    BY <1>1, <1>2, <2>1, TopFacts DEF Waits
  <2>3. Depth \in 2 .. Depth
    BY <1>1, <2>1
  <2>4. Top.got = {}
    BY <1>1, <1>2, <2>1, <2>3 DEF Links
  <2> QED
    BY <2>1, <2>2, <2>4, CalleesAre DEF Functions
<1>4. PICK s \in {"ok", "err"} : s = IF pending = None THEN "ok" ELSE "err"
  OBVIOUS
<1>5. Leaves /\ st' = Resume(calls[Depth - 1], s)
  BY <1>2, <1>3, <1>4, LeavesIf DEF NativeReturn, ReturnWith
<1>6. Links' /\ Searches'
  BY <1>2, <1>5, LeavesLinks, LeavesSearch
<1>7. TopIs'
  BY <1>1, <1>2, <1>3, <1>5, LeavesTop
<1>8. JniMethods'
  <2>1. Depth' = Depth - 1 /\ \A d \in 1 .. Depth' : calls'[d] = calls[d]
    BY <1>5 DEF Leaves
  <2>2. ASSUME NEW d \in 1 .. Depth', LastNative(d, Depth + 1)'
        PROVE  jni_method' = calls'[d].m
    <3>1. d \in 1 .. Depth /\ d < Depth /\ Depth \in 1 .. Depth
      BY <1>3, <2>1
    <3>2. calls[d].fn = "native"
      BY <2>1, <2>2 DEF LastNative
    <3>3. ASSUME NEW x \in 1 .. Depth, d < x, x < Depth
          PROVE  calls[x].fn # "native"
      <4>1. x \in 1 .. Depth' /\ x < Depth' + 1
        BY <1>3, <2>1, <3>3
      <4> QED
        BY <2>1, <2>2, <3>3, <4>1 DEF LastNative
    <3>4. LastNative(d, Depth)
      BY <3>2, <3>3 DEF LastNative
    <3>5. Top.kept = calls[d].m
      BY <1>1, <1>3, <3>1, <3>4, Parts DEF JniMethods
    <3> QED
      BY <1>1, <2>1, <3>5
  <2>3. ASSUME NEW d \in 1 .. Depth', NEW e \in 1 .. Depth', d < e, calls'[e].fn = "native", LastNative(d, e)'
        PROVE  calls'[e].kept = calls'[d].m
    <3>1. d \in 1 .. Depth /\ e \in 1 .. Depth
      BY <1>3, <2>1
    <3>2. calls[d].fn = "native" /\ calls[e].fn = "native"
      BY <2>1, <2>3 DEF LastNative
    <3>3. ASSUME NEW x \in 1 .. Depth, d < x, x < e
          PROVE  calls[x].fn # "native"
      <4>1. x \in 1 .. Depth'
        BY <1>3, <2>1, <3>3
      <4> QED
        BY <2>1, <2>3, <3>3, <4>1 DEF LastNative
    <3>4. LastNative(d, e)
      BY <3>2, <3>3 DEF LastNative
    <3> QED
      BY <2>1, <2>3, <3>1, <3>2, <3>4, Parts DEF JniMethods
  <2> QED
    BY <2>2, <2>3 DEF JniMethods
<1>9. Stacks'
  BY <1>2, <1>3, <1>5, LeavesStacks DEF NativeReturn, lists
<1>10. Catchers' /\ NativeLocals' /\ Limits' /\ Posting' /\ Balance'
  BY <1>2, <1>3, <1>5, Parts, LeavesRest DEF NativeReturn, lists
<1>11. jni_method' \in Methods \cup {None}
  <2>1. PICK d \in 1 .. Depth - 1 : LastNative(d, Depth)
    <3>1. PICK S : S = {d \in 1 .. Depth - 1 : calls[d].fn = "native"}
      OBVIOUS
    <3>2. S \in SUBSET (0 .. Depth) /\ S # {}
      <4>1. calls[1].fn = "native" /\ 1 \in 1 .. Depth - 1
        BY <1>1, <1>2, <1>3 DEF Links
      <4> QED
        BY <1>3, <3>1, <4>1
    <3>3. PICK d \in S : \A x \in S : x <= d
      BY <1>3, <3>2, MaxIs
    <3>4. \A x \in 1 .. Depth : d < x /\ x < Depth => calls[x].fn # "native"
      BY <1>3, <3>1, <3>3
    <3> QED
      BY <3>1, <3>3, <3>4 DEF LastNative
  <2>2. Depth \in 1 .. Depth /\ d < Depth /\ d \in 1 .. Depth
    BY <1>3
  <2>3. Top.kept = calls[d].m
    BY <1>1, <1>3, <2>1, <2>2, Parts DEF JniMethods
  <2>4. calls[d].m \in Methods \cup {None}
    BY <1>2, <2>1, <2>2 DEF Links, Shape, LastNative
  <2> QED
    BY <1>1, <2>3, <2>4
<1>12. TypeOK'
  <2>1. calls' \in Seq(ActivationType) /\ calls' # <<>>
    BY <1>2, <1>5, DepthIs, EmptySeq DEF Leaves, Depth
  <2>2. st' \in {"enter", "run", "ok", "err"}
    BY <1>5 DEF Resume
  <2> QED
    BY <1>1, <1>2, <1>11, <2>1, <2>2 DEF NativeReturn, TypeOK, lists
<1> QED
  BY <1>6, <1>7, <1>8, <1>9, <1>10, <1>12, Together

\* What the stack is when the function on top has clipped it if it can.
LEMMA ClipIs ==
  ASSUME TypeOK, Stacks, Depth \notin Holders("chunk")
  PROVE  /\ ClipFlag \in SUBSET {"clip"}
         /\ StackIs(Clip, Depth, Holders("chunk"), Interps,
                    Holders("clip") \cup (IF "clip" \in ClipFlag THEN {Depth} ELSE {}),
                    Leading \cup {Depth}, Interpreting \cup {Depth})
<1>1. StackIs(java_stack, Depth, Holders("chunk"), Interps, Holders("clip"), Leading, Interpreting)
  BY StackNow
<1>2. Depth > 0
  BY DepthIs
<1>3. CASE CanClip
  <2>1. java_stack # <<>> /\ Last(java_stack).top = 0
    BY <1>3 DEF CanClip
  <2>2. ClipFlag = {"clip"} /\ Clip = TopSet(java_stack, Depth - 1)
    BY <1>3 DEF ClipFlag, Clip, TopSet
  <2>3. StackIs(TopSet(java_stack, Depth - 1), Depth, Holders("chunk"), Interps, Holders("clip") \cup {Depth},
                Leading \cup {Depth}, Interpreting \cup {Depth})
    BY <1>1, <1>2, <2>1, StackClip
  <2> QED
    BY <2>2, <2>3
<1>4. CASE ~CanClip
  <2>1. java_stack # <<>> => Last(java_stack).top # 0
    BY <1>4 DEF CanClip
  <2>2. ClipFlag = {} /\ Clip = java_stack
    BY <1>4 DEF ClipFlag, Clip
  <2>3. StackIs(java_stack, Depth, Holders("chunk"), Interps, Holders("clip"),
                Leading \cup {Depth}, Interpreting \cup {Depth})
    BY <1>1, <1>2, <2>1, StackClipped
  <2> QED
    BY <2>2, <2>3
<1> QED
  BY <1>3, <1>4

\* A native method that is called becomes the last one.
LEMMA NativeEnters ==
  ASSUME TypeOK, JniMethods, NEW S, NEW a, Pushes(S, a), a.fn = "native", a.kept = jni_method, jni_method' = a.m,
         Top.fn # "native"
  PROVE  JniMethods'
<1>1. Depth' = Depth + 1 /\ Depth \in Nat \ {0} /\ calls'[Depth + 1] = a /\ Top = calls[Depth]
  BY DepthIs DEF Pushes, Top
<1>2. Alike
  BY PushesAlike
<1>3. \A d \in 1 .. Depth : /\ calls'[d].fn = calls[d].fn /\ calls'[d].m = calls[d].m
                            /\ calls[d].fn = "native" => calls'[d].kept = calls[d].kept
  BY <1>1, <1>2 DEF Alike
<1>4. ASSUME NEW d \in 1 .. Depth', LastNative(d, Depth + 1)'
      PROVE  jni_method' = calls'[d].m
  <2>1. CASE d = Depth + 1
    BY <1>1, <2>1
  <2>2. CASE d # Depth + 1
    <3>1. Depth + 1 \in 1 .. Depth' /\ d < Depth + 1 /\ Depth + 1 < Depth' + 1
      BY <1>1, <2>2
    <3>2. calls'[Depth + 1].fn # "native"
      BY <1>4, <3>1 DEF LastNative
    <3> QED
      BY <1>1, <3>2
  <2> QED
    BY <2>1, <2>2
<1>5. ASSUME NEW d \in 1 .. Depth', NEW e \in 1 .. Depth', d < e, calls'[e].fn = "native", LastNative(d, e)'
      PROVE  calls'[e].kept = calls'[d].m
  <2>1. d \in 1 .. Depth /\ calls[d].fn = "native"
    <3>1. d \in 1 .. Depth
      BY <1>1, <1>5
    <3>2. calls'[d].fn = "native"
      BY <1>5 DEF LastNative
    <3> QED
      BY <1>3, <3>1, <3>2
  <2>2. ASSUME NEW x \in 1 .. Depth, d < x, x < e
        PROVE  calls[x].fn # "native"
    <3>1. x \in 1 .. Depth'
      BY <1>1
    <3>2. calls'[x].fn # "native"
      BY <1>5, <2>2, <3>1 DEF LastNative
    <3> QED
      BY <1>3, <3>2
  <2>3. LastNative(d, e)
    BY <2>1, <2>2 DEF LastNative
  <2>4. CASE e = Depth + 1
    <3>1. jni_method = calls[d].m
      BY <2>1, <2>3, <2>4 DEF JniMethods
    <3> QED
      BY <1>1, <1>3, <2>1, <2>4, <3>1
  <2>5. CASE e # Depth + 1
    <3>1. e \in 1 .. Depth
      BY <1>1, <2>5
    <3>2. calls[e].fn = "native"
      BY <1>3, <1>5, <3>1
    <3>3. calls[e].kept = calls[d].m
      BY <1>5, <2>1, <2>3, <3>1, <3>2 DEF JniMethods
    <3> QED
      BY <1>3, <2>1, <3>1, <3>2, <3>3
  <2> QED
    BY <2>4, <2>5
<1> QED
  BY <1>4, <1>5 DEF JniMethods

LEMMA JniEnterKeeps ==
  ASSUME ExecutionInv, JniEnter
  PROVE  ExecutionInv'
<1>1. Top.fn = "jni_a" /\ st = "enter" /\ Top.got = {}
  BY Parts DEF JniEnter, In, TopIs
<1>2. TypeOK /\ Links /\ TopIs /\ Stacks
  BY Parts
<1>3. Top \in ActivationType /\ Shape(Top) /\ Top.m \in Methods /\ Depth \in Nat \ {0} /\ Depth \in 1 .. Depth
      /\ Top = calls[Depth]
  BY <1>1, <1>2, TopFacts DEF Shape, Top
<1>4. \A x : Depth \notin Holders(x)
  BY <1>1, <1>3, HoldersAre
<1>5. /\ catch_list' = catch_list /\ stack_limit' = stack_limit /\ pending' = pending /\ in_vmex' = in_vmex
      /\ native_locals' = Append(native_locals, Depth)
  BY DEF JniEnter
<1>6. ASSUME NEW S \in SUBSET Things, NEW a \in ActivationType, Pushes(S, a), "frame" \in S, a.got = {}
      PROVE  NativeLocals' /\ native_locals' \in Seq(Nat)
  <2>1. Holders("frame")' = Holders("frame") \cup (IF "frame" \in S THEN {Depth} ELSE {})
                                             \cup (IF "frame" \in a.got THEN {Depth + 1} ELSE {})
    BY <1>2, <1>6, HoldersPush
  <2>2. Holders("frame")' = Holders("frame") \cup {Depth}
    BY <1>6, <2>1
  <2>3. \A x \in Holders("frame") : x < Depth
    BY <1>3, <1>4 DEF Holders
  <2> QED
    BY <1>2, <1>3, <1>5, <2>2, <2>3, Parts, LocalsMore
<1>7. ASSUME NEW S, S = ClipFlag \cup {"frame"} \cup (IF Top.m \in Synchronized THEN {"lock"} ELSE {}),
             NEW a, a = [Activation("native", Top.m) EXCEPT !.kept = jni_method],
             calls' = Append(Got(S), a), st' = "run", native' = TRUE, jni_method' = Top.m, java_stack' = Clip,
             held' = IF Top.m \in Synchronized THEN [held EXCEPT ![Top.m] = @ + 1] ELSE held
      PROVE  ExecutionInv'
  <2>1. ClipFlag \in SUBSET {"clip"}
    BY <1>2, <1>4, ClipIs
  <2>2. S \in SUBSET {"clip", "frame", "lock"} /\ "frame" \in S
        /\ ("clip" \in S <=> "clip" \in ClipFlag) /\ ("lock" \in S <=> Top.m \in Synchronized)
    BY <1>7, <2>1
  <2>3. S \in SUBSET Things
    BY <2>2 DEF Things
  <2>4. a \in ActivationType /\ a.fn = "native" /\ a.got = {} /\ a.kept = jni_method /\ a.m = Top.m
    <3>1. jni_method \in Methods \cup {None}
      BY <1>2 DEF TypeOK
    <3>2. a = [fn |-> "native", m |-> Top.m, pc |-> 0, got |-> {}, kept |-> jni_method]
      BY <1>7 DEF Activation
    <3> QED
      BY <1>3, <3>1, <3>2 DEF ActivationType, Functions
  <2>5. Shape(a)
    BY <1>3, <2>4 DEF Shape
  <2>6. Pushes(S, a)
    BY <1>2, <1>7, <2>3, <2>4, PushesIf
  <2>7. PICK b : b = [Top EXCEPT !.got = @ \cup S]
    OBVIOUS
  <2>8. b.fn = "jni_a" /\ b.m = Top.m /\ b.got = S
    BY <1>1, <1>3, <2>3, <2>7, TopMore
  <2>9. Shape(b) /\ Waits(b, a)
    BY <1>3, <2>2, <2>4, <2>8, MayIs, CalleesAre DEF Shape, Waits, Started, Underway
  <2>10. Links'
    BY <1>1, <1>2, <2>3, <2>4, <2>5, <2>6, <2>7, <2>9, PushesLinks
  <2>11. Alike /\ Depth' = Depth + 1 /\ Depth <= Depth' /\ Top' = a
    <3>1. Depth' = Depth + 1 /\ Top' = a
      BY <2>6 DEF Pushes, Top
    <3> QED
      BY <1>2, <1>3, <2>3, <2>4, <2>6, <3>1, PushesAlike
  <2>12. TopIs'
    BY <1>7, <2>4, <2>11 DEF TopIs, Underway
  <2>13. Stacks'
    <3>1. Leading' \subseteq Leading \cup {Depth} /\ Interpreting' \subseteq Interpreting \cup {Depth}
      BY <1>2, <2>3, <2>4, <2>6, PushesLeads
    <3>2. StackIs(java_stack', Depth, Holders("chunk"), Interps,
                  Holders("clip") \cup (IF "clip" \in ClipFlag THEN {Depth} ELSE {}),
                  Leading \cup {Depth}, Interpreting \cup {Depth})
      BY <1>2, <1>4, <1>7, ClipIs
    <3>3. "chunk" \notin S
      BY <2>2
    <3>4. StackIs(java_stack', Depth, Holders("chunk") \cup (IF "chunk" \in S THEN {Depth} ELSE {}), Interps,
                  Holders("clip") \cup (IF "clip" \in S THEN {Depth} ELSE {}),
                  Leading \cup {Depth}, Interpreting \cup {Depth})
      BY <2>2, <3>2, <3>3
    <3> QED
      BY <1>2, <2>3, <2>4, <2>6, <3>1, <3>4, PushesStack
  <2>14. Catchers' /\ Limits' /\ Posting'
    BY <1>2, <1>5, <2>2, <2>3, <2>4, <2>6, Parts, PushesRest
  <2>15. NativeLocals' /\ native_locals' \in Seq(Nat)
    BY <1>6, <2>2, <2>3, <2>4, <2>6
  <2>16. JniMethods'
    BY <1>1, <1>2, <1>7, <2>4, <2>6, Parts, NativeEnters
  <2>17. Searches'
    BY <2>4, <2>6, PushesSearch
  <2>18. Balance' /\ held' \in [Methods -> Nat]
    <3>1. CASE "lock" \in S
      <4>1. Holders("lock")' = Holders("lock") \cup (IF "lock" \in S THEN {Depth} ELSE {})
                                               \cup (IF "lock" \in a.got THEN {Depth + 1} ELSE {})
        BY <1>2, <2>3, <2>4, <2>6, HoldersPush
      <4>2. Holders("lock")' = Holders("lock") \cup {Depth}
        BY <2>4, <3>1, <4>1
      <4>3. Lock(Top.m)
        BY <1>7, <2>2, <3>1 DEF Lock
      <4> QED
        BY <1>2, <1>3, <1>4, <2>11, <4>2, <4>3, Parts, BalanceMore
    <3>2. CASE "lock" \notin S
      BY <1>2, <1>7, <2>2, <2>3, <2>4, <2>6, <3>2, Parts, PushesRest DEF TypeOK
    <3> QED
      BY <3>1, <3>2
  <2>19. TypeOK'
    <3>1. calls' \in Seq(ActivationType) /\ calls' # <<>>
      BY <1>3, <2>6, EmptySeq DEF Pushes, Depth
    <3>2. java_stack' \in Seq(ChunkType)
      BY <1>2, <1>4, <1>7, ClipIs DEF StackIs
    <3> QED
      BY <1>2, <1>3, <1>5, <1>7, <2>15, <2>18, <3>1, <3>2 DEF TypeOK
  <2> QED
    BY <2>10, <2>12, <2>13, <2>14, <2>15, <2>16, <2>17, <2>18, <2>19, Together
<1>8. ASSUME Post(Got({"frame"}), OutOfMemory), java_stack' = java_stack, native' = native, jni_method' = jni_method,
             held' = held
      PROVE  ExecutionInv'
  <2>1. PICK S : S = {"frame"}
    OBVIOUS
  <2>2. S \in SUBSET Things /\ OutOfMemory \in Exceptions
    BY <2>1 DEF Things, Exceptions
  <2>3. PICK a : a = Activation("post", OutOfMemory)
    OBVIOUS
  <2>4. a \in ActivationType /\ Shape(a) /\ a.fn = "post" /\ a.got = {}
    BY <2>2, <2>3, PostShape
  <2>5. PICK b : b = [Top EXCEPT !.got = @ \cup S]
    OBVIOUS
  <2>6. b.fn = "jni_a" /\ b.m = Top.m /\ b.got = S
    BY <1>1, <1>3, <2>2, <2>5, TopMore
  <2>7. Shape(b) /\ Waits(b, a)
    BY <1>3, <2>1, <2>4, <2>6, MayIs, CalleesAre DEF Shape, Waits, Started
  <2>8. calls' = Append(Got(S), a) /\ st' = "enter"
    BY <1>8, <2>1, <2>3 DEF Post, Push
  <2>9. /\ Pushes(S, a) /\ Links' /\ TopIs' /\ JniMethods' /\ Searches'
        /\ calls' \in Seq(ActivationType) /\ calls' # <<>>
    BY <1>1, <1>8, <2>2, <2>4, <2>5, <2>7, <2>8, PushesCore
  <2>10. Stacks'
    BY <1>1, <1>2, <1>8, <2>1, <2>2, <2>4, <2>9, PushesStacks
  <2>11. Catchers' /\ Limits' /\ Posting' /\ Balance'
    BY <1>2, <1>5, <1>8, <2>1, <2>2, <2>4, <2>9, Parts, PushesRest
  <2>12. NativeLocals' /\ native_locals' \in Seq(Nat)
    BY <1>6, <2>1, <2>2, <2>4, <2>9
  <2>13. TypeOK'
    BY <1>2, <1>5, <1>8, <2>8, <2>9, <2>12 DEF TypeOK
  <2> QED
    BY <2>9, <2>10, <2>11, <2>12, <2>13, Together
<1> QED
  BY <1>7, <1>8 DEF JniEnter

\* What the stack is when the function on top has undone its clip.
LEMMA UnclipIs ==
  ASSUME TypeOK, NEW q, NEW O, Depth \notin O,
         StackIs(q, Depth, O, Interps, Holders("clip"), Leading, Interpreting)
  PROVE  StackIs(Unclip(q, "clip" \in Top.got), Depth, O, Interps, Holders("clip") \ {Depth},
                 Leading \ {Depth}, Interpreting \ {Depth})
<1>1. Depth > 0 /\ Depth \in 1 .. Depth /\ Top = calls[Depth]
  BY DepthIs DEF Top
<1>2. Depth \in Holders("clip") <=> "clip" \in Top.got
  BY <1>1, HoldersAre
<1>3. CASE "clip" \in Top.got
  <2>1. Unclip(q, "clip" \in Top.got) = TopSet(q, 0)
    BY <1>3 DEF Unclip, TopSet
  <2> QED
    BY <1>1, <1>2, <1>3, <2>1, StackUnclip
<1>4. CASE "clip" \notin Top.got
  <2>1. Unclip(q, "clip" \in Top.got) = q /\ Holders("clip") \ {Depth} = Holders("clip")
    BY <1>2, <1>4 DEF Unclip
  <2>2. Leading \ {Depth} \in SUBSET Leading /\ Interpreting \ {Depth} \in SUBSET Interpreting
    OBVIOUS
  <2>3. StackIs(q, Depth, O, Interps, Holders("clip"), Leading \ {Depth}, Interpreting \ {Depth})
    BY <2>2, StackSame
  <2> QED
    BY <2>1, <2>3
<1> QED
  BY <1>3, <1>4

LEMMA JniDoneKeeps ==
  ASSUME ExecutionInv, JniDone
  PROVE  ExecutionInv'
<1>1. Top.fn = "jni_a" /\ st \in {"ok", "err"} /\ ReturnWith(st) /\ "frame" \in Top.got
  BY Parts DEF JniDone, TopIs, Started
<1>2. TypeOK /\ Links /\ Stacks
  BY Parts
<1>3. /\ Leaves /\ Links' /\ TopIs' /\ JniMethods' /\ Searches'
      /\ calls' \in Seq(ActivationType) /\ calls' # <<>> /\ st' \in {"enter", "run", "ok", "err"}
  BY <1>1, LeavesCore DEF JniDone
<1>4. Top.got \in SUBSET {"clip", "frame", "lock"} /\ Top.m \in Methods
  BY <1>1, <1>2, TopFacts, MayIs DEF Shape
<1>5. Stacks' /\ java_stack' \in Seq(ChunkType)
  <2>1. Depth \notin Holders("chunk")
    BY <1>4, HoldersAre DEF Top
  <2>2. StackIs(java_stack', Depth, Holders("chunk"), Interps, Holders("clip") \ {Depth},
                Leading \ {Depth}, Interpreting \ {Depth})
    BY <1>2, <2>1, StackNow, UnclipIs DEF JniDone
  <2>3. Holders("chunk") \ {Depth} = Holders("chunk")
    BY <2>1
  <2> QED
    BY <1>2, <1>3, <2>2, <2>3, LeavesStack DEF StackIs
<1>6. Catchers' /\ Limits' /\ Posting'
  BY <1>2, <1>3, <1>4, Parts, LeavesRest DEF JniDone
<1>7. NativeLocals' /\ native_locals' \in Seq(Nat)
  BY <1>1, <1>2, <1>3, Parts, LocalsLess DEF JniDone
<1>8. Balance' /\ held' \in [Methods -> Nat]
  BY <1>2, <1>3, <1>4, Parts, BalanceLess DEF JniDone
<1>9. TypeOK'
  BY <1>2, <1>3, <1>5, <1>7, <1>8 DEF JniDone, TypeOK
<1> QED
  BY <1>3, <1>5, <1>6, <1>7, <1>8, <1>9, Together

LEMMA GateDoneKeeps ==
  ASSUME ExecutionInv, GateDone
  PROVE  ExecutionInv'
<1>1. Top.fn = "gate" /\ st \in {"ok", "err"} /\ ReturnWith(st) /\ "catch" \in Top.got
  BY Parts DEF GateDone, TopIs, Started
<1>2. TypeOK /\ Links /\ Stacks
  BY Parts
<1>3. /\ Leaves /\ Links' /\ TopIs' /\ JniMethods' /\ Searches'
      /\ calls' \in Seq(ActivationType) /\ calls' # <<>> /\ st' \in {"enter", "run", "ok", "err"}
  BY <1>1, LeavesCore DEF GateDone
<1>4. Top.got \in SUBSET {"clip", "catch", "frame", "limit", "chunk", "lock"} /\ Top.m \in Methods
  BY <1>1, <1>2, TopFacts, MayIs DEF Shape
<1>5. Stacks' /\ java_stack' \in Seq(ChunkType)
  <2>1. PICK q : q = IF "chunk" \in Top.got THEN Front(java_stack) ELSE java_stack
    OBVIOUS
  <2>2. StackIs(q, Depth, Holders("chunk") \ {Depth}, Interps, Holders("clip"), Leading, Interpreting)
    <3>1. StackIs(java_stack, Depth, Holders("chunk"), Interps, Holders("clip"), Leading, Interpreting)
      BY <1>2, StackNow
    <3>2. Depth \in Holders("chunk") <=> "chunk" \in Top.got
      <4>1. Depth \in 1 .. Depth /\ Top = calls[Depth]
        BY <1>2, DepthIs DEF Top
      <4> QED
        BY <4>1, HoldersAre
    <3>3. CASE "chunk" \in Top.got
      BY <2>1, <3>1, <3>2, <3>3, StackPop
    <3>4. CASE "chunk" \notin Top.got
      <4>1. Holders("chunk") \ {Depth} = Holders("chunk") /\ q = java_stack
        BY <2>1, <3>2, <3>4
      <4> QED
        BY <3>1, <4>1
    <3> QED
      BY <3>3, <3>4
  <2>3. java_stack' = Unclip(q, "clip" \in Top.got)
    BY <2>1 DEF GateDone
  <2>4. StackIs(java_stack', Depth, Holders("chunk") \ {Depth}, Interps, Holders("clip") \ {Depth},
                Leading \ {Depth}, Interpreting \ {Depth})
    BY <1>2, <2>2, <2>3, UnclipIs
  <2> QED
    BY <1>2, <1>3, <2>4, LeavesStack DEF StackIs
<1>6. Posting'
  BY <1>2, <1>3, <1>4, Parts, LeavesRest DEF GateDone
<1>7. Catchers' /\ catch_list' \in Seq(CatchType)
  BY <1>1, <1>2, <1>3, Parts, CatchLess DEF GateDone
<1>8. NativeLocals' /\ native_locals' \in Seq(Nat)
  <2>1. CASE "frame" \in Top.got
    BY <1>2, <1>3, <2>1, Parts, LocalsLess DEF GateDone
  <2>2. CASE "frame" \notin Top.got
    BY <1>2, <1>3, <2>2, Parts, LeavesRest DEF GateDone, TypeOK
  <2> QED
    BY <2>1, <2>2
<1>9. Limits' /\ stack_limit' \in Nat
  <2>1. CASE "limit" \in Top.got
    <3>1. Depth \in Holders("limit")
      <4>1. Depth \in 1 .. Depth /\ Top = calls[Depth]
        BY <1>2, DepthIs DEF Top
      <4> QED
        BY <2>1, <4>1, HoldersAre
    <3>2. Holders("limit") = {Depth}
      BY <3>1, Parts DEF Limits
    <3>3. Holders("limit")' = {}
      BY <1>2, <1>3, <3>2, HoldersLeave
    <3>4. stack_limit' = 0
      BY <2>1 DEF GateDone
    <3> QED
      BY <3>3, <3>4 DEF Limits
  <2>2. CASE "limit" \notin Top.got
    BY <1>2, <1>3, <2>2, Parts, LeavesRest DEF GateDone, TypeOK
  <2> QED
    BY <2>1, <2>2
<1>10. Balance' /\ held' \in [Methods -> Nat]
  BY <1>2, <1>3, <1>4, Parts, BalanceLess DEF GateDone
<1>11. TypeOK'
  BY <1>2, <1>3, <1>5, <1>7, <1>8, <1>9, <1>10 DEF GateDone, TypeOK
<1> QED
  BY <1>3, <1>5, <1>6, <1>7, <1>8, <1>9, <1>10, <1>11, Together

\* A gateway that a JNI function calls finds the last chunk clipped.
LEMMA CalledClipped ==
  ASSUME ExecutionInv, Top.fn = "gate", Top.got = {}, calls[Depth - 1].fn = "call", java_stack # <<>>
  PROVE  Last(java_stack).top # 0
<1>1. TypeOK /\ Links /\ Stacks
  BY Parts
<1>2. Depth \in Nat /\ Depth # 1 /\ Depth # 0 /\ Top = calls[Depth]
  BY <1>1, TopFacts DEF Top, Functions
<1>3. \A d \in 1 .. Depth : calls[d] \in ActivationType /\ Shape(calls[d])
  BY <1>1, DepthIs DEF Links
<1>4. Depth - 1 > 1
  <2>1. calls[1].fn = "native"
    BY <1>1 DEF Links
  <2>2. Depth - 1 # 1
    BY <2>1
  <2> QED
    BY <1>2, <2>2
<1>5. calls[Depth - 2].fn = "native"
  <2>1. Depth - 2 \in 1 .. Depth - 1 /\ Depth - 2 + 1 = Depth - 1
    BY <1>2, <1>4
  <2>2. "call" \in Callees[calls[Depth - 2].fn]
    BY <1>1, <2>1 DEF Links, Waits
  <2>3. calls[Depth - 2] \in ActivationType
    BY <1>2, <1>3, <2>1
  <2>4. calls[Depth - 2].fn \in Functions
    BY <2>3, ActivationIs
  <2> QED
    BY <2>2, <2>4, CalleesAre DEF Functions
<1>6. \A d \in 1 .. Depth : d >= Depth - 2 => "chunk" \notin calls[d].got
  <2>1. ASSUME NEW d \in 1 .. Depth, d >= Depth - 2
        PROVE  calls[d].got \subseteq {"frame"}
    <3>1. d = Depth \/ d = Depth - 1 \/ d = Depth - 2
      BY <1>2, <2>1
    <3>2. calls[d].got = {} \/ calls[d].fn = "call" \/ calls[d].fn = "native"
      BY <1>2, <1>5, <3>1
    <3> QED
      BY <1>3, <3>2, MayIs DEF Shape
  <2> QED
    BY <2>1
<1>7. StackIs(java_stack, Depth, Holders("chunk"), Interps, Holders("clip"), Leading, Interpreting)
  BY <1>1, StackNow
<1>8. PICK k : k = Len(java_stack)
  OBVIOUS
<1>9. /\ java_stack \in Seq(ChunkType) /\ Holders("chunk") \in SUBSET (1 .. Depth)
      /\ Lists(OwnersOf(java_stack), Holders("chunk"))
  BY <1>7 DEF StackIs
<1>10. k \in DOMAIN java_stack /\ java_stack[k].owner \in Holders("chunk") /\ java_stack[k].owner \in 1 .. Depth
  BY <1>2, <1>8, <1>9, OwnersAre
<1>11. java_stack[k].owner < Depth - 2
  <2>1. "chunk" \in calls[java_stack[k].owner].got
    BY <1>10, HoldersAre
  <2> QED
    BY <1>2, <1>6, <1>10, <2>1
<1>12. PICK d : d = Depth - 3
  OBVIOUS
<1>13. d \in 1 .. Depth /\ d < Depth /\ d + 1 = Depth - 2 /\ d >= java_stack[k].owner
  BY <1>2, <1>10, <1>11, <1>12
<1>14. calls[d].fn = "jni_a"
  <2>1. d \in 1 .. Depth - 1
    BY <1>2, <1>13
  <2>2. "native" \in Callees[calls[d].fn]
    BY <1>1, <1>5, <1>13, <2>1 DEF Links, Waits
  <2>3. calls[d].fn \in Functions
    BY <1>3, <1>13, ActivationIs
  <2> QED
    BY <2>2, <2>3, CalleesAre DEF Functions
<1>15. d \in Leading
  BY <1>5, <1>13, <1>14 DEF Leading
<1>16. java_stack[k].owner < d
  <2>1. "chunk" \notin calls[d].got
    BY <1>3, <1>13, <1>14, MayIs DEF Shape
  <2>2. d # java_stack[k].owner
    BY <1>10, <2>1, HoldersAre
  <2> QED
    BY <1>2, <1>10, <1>13, <2>2
<1>17. LastBefore(java_stack, k, d)
  BY <1>8, <1>9, <1>16, ChunkIs DEF LastBefore
<1>18. java_stack[k].top # 0
  BY <1>7, <1>10, <1>13, <1>15, <1>17 DEF StackIs, ClippedIn
<1> QED
  BY <1>8, <1>9, <1>18, FrontOf

LEMMA GateNullKeeps ==
  ASSUME ExecutionInv, GateNull
  PROVE  ExecutionInv'
<1>1. Top.fn = "gate" /\ st = "enter" /\ Top.got = {} /\ calls[Depth - 1].fn = "call"
  BY Parts DEF GateNull, In, TopIs
<1>2. TypeOK /\ Links /\ TopIs /\ Stacks
  BY Parts
<1>3. Top \in ActivationType /\ Shape(Top) /\ Top.m \in Methods /\ Depth \in Nat \ {0} /\ Depth \in 1 .. Depth
      /\ Top = calls[Depth]
  BY <1>1, <1>2, TopFacts DEF Shape, Top
<1>4. \A x : Depth \notin Holders(x)
  BY <1>1, <1>3, HoldersAre
<1>5. PICK S, a, b : S = {"catch"} /\ a = Activation("post", NullPointer) /\ b = [Top EXCEPT !.got = @ \cup S]
  OBVIOUS
<1>6. S \in SUBSET Things /\ NullPointer \in Exceptions
  BY <1>5 DEF Things, Exceptions
<1>7. a \in ActivationType /\ Shape(a) /\ a.fn = "post" /\ a.got = {}
  BY <1>5, <1>6, PostShape
<1>8. b.fn = "gate" /\ b.m = Top.m /\ b.got = S
  BY <1>1, <1>3, <1>5, <1>6, TopMore
<1>9. Shape(b) /\ Waits(b, a)
  BY <1>3, <1>5, <1>7, <1>8, MayIs, CalleesAre DEF Shape, Waits, Started
<1>10. calls' = Append(Got(S), a) /\ st' = "enter"
  BY <1>5 DEF GateNull, Post, Push
<1>11. /\ java_stack' = java_stack /\ native_locals' = native_locals /\ held' = held
       /\ stack_limit' = stack_limit /\ pending' = pending /\ in_vmex' = in_vmex /\ jni_method' = jni_method
       /\ native' = native
  BY DEF GateNull
<1>12. /\ Pushes(S, a) /\ Links' /\ TopIs' /\ JniMethods' /\ Searches'
       /\ calls' \in Seq(ActivationType) /\ calls' # <<>>
  BY <1>1, <1>5, <1>6, <1>7, <1>9, <1>10, <1>11, PushesCore
<1>13. Stacks'
  <2>1. Leading' \subseteq Leading \cup {Depth} /\ Interpreting' \subseteq Interpreting \cup {Depth}
    BY <1>2, <1>6, <1>7, <1>12, PushesLeads
  <2>2. StackIs(java_stack', Depth, Holders("chunk"), Interps, Holders("clip"),
                Leading \cup {Depth}, Interpreting \cup {Depth})
    <3>1. java_stack # <<>> => Last(java_stack).top # 0
      BY <1>1, CalledClipped
    <3> QED
      BY <1>2, <1>3, <1>4, <1>11, <3>1, StackNow, StackClipped
  <2>3. StackIs(java_stack', Depth, Holders("chunk") \cup (IF "chunk" \in S THEN {Depth} ELSE {}), Interps,
                Holders("clip") \cup (IF "clip" \in S THEN {Depth} ELSE {}),
                Leading \cup {Depth}, Interpreting \cup {Depth})
    BY <1>5, <2>2
  <2> QED
    BY <1>2, <1>6, <1>7, <1>12, <2>1, <2>3, PushesStack
<1>14. NativeLocals' /\ Limits' /\ Posting' /\ Balance'
  BY <1>2, <1>5, <1>6, <1>7, <1>11, <1>12, Parts, PushesRest
<1>15. Catchers' /\ catch_list' \in Seq(CatchType)
  <2>1. Holders("catch")' = Holders("catch") \cup (IF "catch" \in S THEN {Depth} ELSE {})
                                             \cup (IF "catch" \in a.got THEN {Depth + 1} ELSE {})
    BY <1>2, <1>6, <1>7, <1>12, HoldersPush
  <2>2. Holders("catch")' = Holders("catch") \cup {Depth}
    BY <1>5, <1>7, <2>1
  <2>3. PICK r : r = [method |-> "invoke_method", region |-> 0, owner |-> Depth]
    OBVIOUS
  <2>4. r \in CatchType /\ r.owner = Depth /\ r.method = "invoke_method"
    BY <1>3, <2>3 DEF CatchType
  <2>5. catch_list' = Append(catch_list, r)
    BY <2>3 DEF GateNull
  <2>6. Depth' = Depth + 1
    BY <1>12 DEF Pushes
  <2>7. Alike /\ Depth <= Depth' /\ \A d \in 1 .. Depth : calls'[d].pc = calls[d].pc
    BY <1>2, <1>3, <1>12, <2>6, PushesAlike
  <2> QED
    BY <1>1, <1>2, <1>4, <2>2, <2>4, <2>5, <2>7, Parts, CatchMore
<1>16. TypeOK'
  BY <1>2, <1>10, <1>11, <1>12, <1>15 DEF TypeOK
<1> QED
  BY <1>12, <1>13, <1>14, <1>15, <1>16, Together

LEMMA VinterpEnterKeeps ==
  ASSUME ExecutionInv, VinterpEnter
  PROVE  ExecutionInv'
<1>1. Top.fn = "vinterp" /\ st = "enter" /\ Top.got = {}
  BY Parts DEF VinterpEnter, In, TopIs
<1>2. TypeOK /\ Links /\ TopIs /\ Stacks
  BY Parts
<1>3. Top \in ActivationType /\ Shape(Top) /\ Top.m \in Methods /\ Depth \in Nat \ {0} /\ Depth \in 1 .. Depth
      /\ Top = calls[Depth]
  BY <1>1, <1>2, TopFacts DEF Shape, Top
<1>4. \A x : Depth \notin Holders(x)
  BY <1>1, <1>3, HoldersAre
<1>5. /\ catch_list' = catch_list /\ native_locals' = native_locals /\ held' = held
      /\ stack_limit' = stack_limit /\ pending' = pending /\ in_vmex' = in_vmex /\ jni_method' = jni_method
      /\ native' = native
  BY DEF VinterpEnter
<1>6. PICK S : /\ S = IF ~Last(java_stack).interp /\ CanClip THEN {"clip"} ELSE {}
               /\ calls' = Append(Got(S), Activation("interp", Top.m)) /\ st' = "enter"
               /\ java_stack' = IF ~Last(java_stack).interp /\ CanClip THEN Clip ELSE java_stack
  BY DEF VinterpEnter, Push
<1>7. S \in SUBSET {"clip"} /\ S \in SUBSET Things
  BY <1>6 DEF Things
<1>8. PICK a, b : a = Activation("interp", Top.m) /\ b = [Top EXCEPT !.got = @ \cup S]
  OBVIOUS
<1>9. a \in ActivationType /\ Shape(a) /\ a.fn = "interp" /\ a.got = {}
  BY <1>3, <1>8, NewShape DEF Functions, Activation
<1>10. b.fn = "vinterp" /\ b.m = Top.m /\ b.got = S
  BY <1>1, <1>3, <1>7, <1>8, TopMore
<1>11. Shape(b) /\ Waits(b, a)
  BY <1>3, <1>7, <1>9, <1>10, MayIs, CalleesAre DEF Shape, Waits, Started, Underway
<1>12. /\ Pushes(S, a) /\ Links' /\ TopIs' /\ JniMethods' /\ Searches'
       /\ calls' \in Seq(ActivationType) /\ calls' # <<>>
  BY <1>1, <1>5, <1>6, <1>7, <1>8, <1>9, <1>11, PushesCore
<1>13. Catchers' /\ NativeLocals' /\ Limits' /\ Posting' /\ Balance'
  BY <1>2, <1>5, <1>7, <1>9, <1>12, Parts, PushesRest
<1>14. Leading' \subseteq Leading /\ Interpreting' \subseteq Interpreting \cup {Depth}
  BY <1>1, <1>2, <1>7, <1>9, <1>12, PushesLeads
<1>15. StackIs(java_stack, Depth, Holders("chunk"), Interps, Holders("clip"), Leading, Interpreting)
       /\ Depth \notin Holders("chunk") /\ Depth > 0
  BY <1>2, <1>3, <1>4, StackNow
<1>16. ASSUME NEW L, Leading \subseteq L,
              StackIs(java_stack', Depth, Holders("chunk"), Interps,
                      Holders("clip") \cup (IF "clip" \in S THEN {Depth} ELSE {}), L, Interpreting \cup {Depth})
       PROVE  Stacks' /\ java_stack' \in Seq(ChunkType)
  <2>1. "chunk" \notin S /\ Leading' \subseteq L
    BY <1>7, <1>14, <1>16
  <2>2. StackIs(java_stack', Depth, Holders("chunk") \cup (IF "chunk" \in S THEN {Depth} ELSE {}), Interps,
                Holders("clip") \cup (IF "clip" \in S THEN {Depth} ELSE {}), L, Interpreting \cup {Depth})
    BY <1>16, <2>1
  <2> QED
    BY <1>2, <1>7, <1>9, <1>12, <1>14, <2>1, <2>2, PushesStack DEF StackIs
<1>17. Stacks' /\ java_stack' \in Seq(ChunkType)
  <2>1. CASE CanClip /\ ~Last(java_stack).interp
    <3>1. java_stack # <<>> /\ Last(java_stack).top = 0
      BY <2>1 DEF CanClip
    <3>2. java_stack' = TopSet(java_stack, Depth - 1) /\ "clip" \in S
      BY <1>6, <2>1 DEF Clip, TopSet
    <3>3. StackIs(java_stack', Depth, Holders("chunk"), Interps,
                  Holders("clip") \cup {Depth}, Leading \cup {Depth}, Interpreting \cup {Depth})
      BY <1>15, <3>1, <3>2, StackClip
    <3>4. StackIs(java_stack', Depth, Holders("chunk"), Interps,
                  Holders("clip") \cup (IF "clip" \in S THEN {Depth} ELSE {}), Leading \cup {Depth},
                   Interpreting \cup {Depth})
      BY <3>2, <3>3
    <3>5. Leading \subseteq Leading \cup {Depth}
      OBVIOUS
    <3> QED
      BY <1>16, <3>4, <3>5
  <2>2. CASE CanClip /\ Last(java_stack).interp
    <3>1. java_stack # <<>>
      BY <2>2 DEF CanClip
    <3>2. java_stack' = java_stack /\ "clip" \notin S
      BY <1>6, <2>2
    <3>3. StackIs(java_stack', Depth, Holders("chunk"), Interps,
                  Holders("clip"), Leading, Interpreting \cup {Depth})
      BY <1>15, <2>2, <3>1, <3>2, StackInterp
    <3>4. StackIs(java_stack', Depth, Holders("chunk"), Interps,
                  Holders("clip") \cup (IF "clip" \in S THEN {Depth} ELSE {}), Leading, Interpreting \cup {Depth})
      BY <3>2, <3>3
    <3>5. Leading \subseteq Leading
      OBVIOUS
    <3> QED
      BY <1>16, <3>4, <3>5
  <2>3. CASE ~CanClip
    <3>1. java_stack # <<>> => Last(java_stack).top # 0
      BY <2>3 DEF CanClip
    <3>2. java_stack' = java_stack /\ "clip" \notin S
      BY <1>6, <2>3
    <3>3. StackIs(java_stack', Depth, Holders("chunk"), Interps,
                  Holders("clip"), Leading \cup {Depth}, Interpreting \cup {Depth})
      BY <1>15, <3>1, <3>2, StackClipped
    <3>4. StackIs(java_stack', Depth, Holders("chunk"), Interps,
                  Holders("clip") \cup (IF "clip" \in S THEN {Depth} ELSE {}), Leading \cup {Depth},
                   Interpreting \cup {Depth})
      BY <3>2, <3>3
    <3>5. Leading \subseteq Leading \cup {Depth}
      OBVIOUS
    <3> QED
      BY <1>16, <3>4, <3>5
  <2> QED
    BY <2>1, <2>2, <2>3
<1>18. TypeOK'
  BY <1>2, <1>5, <1>6, <1>12, <1>17 DEF TypeOK
<1> QED
  BY <1>12, <1>13, <1>17, <1>18, Together

LEMMA VinterpDoneKeeps ==
  ASSUME ExecutionInv, VinterpDone
  PROVE  ExecutionInv'
<1>1. Top.fn = "vinterp" /\ st \in {"ok", "err"} /\ (st = "ok" \/ "clip" \in Top.got)
  BY DEF VinterpDone
<1>2. TypeOK /\ Links /\ TopIs /\ Stacks
  BY Parts
<1>3. Top \in ActivationType /\ Shape(Top) /\ Top.m \in Methods /\ Top.got \in SUBSET {"clip"}
      /\ Depth \in Nat \ {0} /\ Depth \in 1 .. Depth /\ Top = calls[Depth]
  BY <1>1, <1>2, TopFacts, MayIs DEF Shape, Top
<1>4. Depth \notin Holders("chunk")
  BY <1>3, HoldersAre
<1>5. /\ catch_list' = catch_list /\ native_locals' = native_locals /\ held' = held
      /\ stack_limit' = stack_limit /\ pending' = pending /\ in_vmex' = in_vmex /\ jni_method' = jni_method
      /\ native' = native
  BY DEF VinterpDone
<1>6. StackIs(java_stack', Depth, Holders("chunk"), Interps, Holders("clip") \ {Depth},
              Leading \ {Depth}, Interpreting \ {Depth})
  BY <1>2, <1>4, StackNow, UnclipIs DEF VinterpDone
<1>7. java_stack' \in Seq(ChunkType)
  BY <1>6 DEF StackIs
<1>8. CASE st = "ok"
  <2>1. ReturnWith("ok")
    BY <1>8 DEF VinterpDone
  <2>2. /\ Leaves /\ Links' /\ TopIs' /\ JniMethods' /\ Searches'
        /\ calls' \in Seq(ActivationType) /\ calls' # <<>> /\ st' \in {"enter", "run", "ok", "err"}
    BY <1>1, <1>5, <2>1, LeavesCore
  <2>3. Holders("chunk") \ {Depth} = Holders("chunk")
    BY <1>4
  <2>4. Stacks'
    BY <1>2, <1>6, <2>2, <2>3, LeavesStack
  <2>5. Catchers' /\ NativeLocals' /\ Limits' /\ Posting' /\ Balance'
    BY <1>2, <1>3, <1>5, <2>2, Parts, LeavesRest
  <2>6. TypeOK'
    BY <1>2, <1>5, <1>7, <2>2 DEF TypeOK
  <2> QED
    BY <2>2, <2>4, <2>5, <2>6, Together
<1>9. CASE st # "ok"
  <2>1. PICK b : b = [Top EXCEPT !.got = {}]
    OBVIOUS
  <2>2. /\ b \in ActivationType /\ b.fn = "vinterp" /\ b.m = Top.m /\ b.got = {}
        /\ b.kept = Top.kept /\ b.pc = Top.pc
    BY <1>1, <1>3, <2>1 DEF ActivationType
  <2>3. calls' = [calls EXCEPT ![Depth] = b] /\ st' = st
    <3>1. calls' = [calls EXCEPT ![Depth].got = {}] /\ st' = st
      BY <1>9 DEF VinterpDone
    <3> QED
      BY <1>3, <2>1, <3>1
  <2>4. Becomes(b)
    BY <1>2, <2>2, <2>3, BecomesIf
  <2>5. Shape(b)
    BY <1>3, <2>2 DEF Shape
  <2>6. Links'
    BY <1>1, <1>2, <2>2, <2>4, <2>5, BecomesLinks
  <2>7. Alike /\ NativeLocals' /\ Limits' /\ Posting' /\ Balance'
    BY <1>1, <1>2, <1>3, <1>5, <2>2, <2>4, Parts, BecomesRest
  <2>8. Top' = b
    BY <2>4 DEF Becomes, Top
  <2>9. TopIs'
    BY <1>1, <1>2, <1>5, <1>9, <2>2, <2>3, <2>8 DEF TopIs, Started
  <2>10. Stacks'
    <3>1. Holders("chunk")' = Holders("chunk") /\ Holders("clip")' = Holders("clip") \ {Depth}
      <4>1. Holders("clip")' = (Holders("clip") \ {Depth}) \cup (IF "clip" \in b.got THEN {Depth} ELSE {})
        BY <1>2, <2>4, HoldersBecome
      <4>2. Holders("chunk")' = (Holders("chunk") \ {Depth}) \cup (IF "chunk" \in b.got THEN {Depth} ELSE {})
        BY <1>2, <2>4, HoldersBecome
      <4> QED
        BY <1>4, <2>2, <4>1, <4>2
    <3>2. Leading \ {Depth} = Leading /\ Interpreting \ {Depth} = Interpreting
      BY <1>1, <1>3 DEF Leading, Interpreting
    <3> QED
      BY <1>1, <1>2, <1>6, <2>2, <2>4, <3>1, <3>2, BecomesStack
  <2>11. Catchers'
    <3>1. Still("catch")
      BY <1>2, <1>3, <2>2, <2>4, BecomesStill
    <3>2. \A d \in Holders("catch") : calls'[d].pc = calls[d].pc
      <4>1. \A d \in Holders("catch") : d \in 1 .. Depth - 1
        BY <1>3 DEF Holders
      <4> QED
        BY <2>4, <4>1 DEF Becomes
    <3> QED
      BY <1>2, <1>5, <2>7, <3>1, <3>2, Parts, CatchersKept
  <2>12. JniMethods' /\ Searches'
    <3>1. Searches'
      BY <2>2, <2>8 DEF Searches
    <3> QED
      BY <1>2, <1>5, <2>4, <2>7, <3>1, Parts, BecomesNatives
  <2>13. TypeOK'
    <3>1. calls' \in Seq(ActivationType) /\ calls' # <<>>
      BY <1>3, <2>4, EmptySeq DEF Becomes, Depth
    <3> QED
      BY <1>2, <1>5, <1>7, <2>3, <3>1 DEF TypeOK
  <2> QED
    BY <2>6, <2>7, <2>9, <2>10, <2>11, <2>12, <2>13, Together
<1> QED
  BY <1>8, <1>9

\* What the gateway does before it calls the method, or posts that it cannot.
LEMMA GateEnters ==
  ASSUME ExecutionInv, Top.fn = "gate", st = "enter", NEW X \in SUBSET {"chunk", "lock"},
         NEW a \in ActivationType, calls' = Append(Got(GateFrames \cup X), a), st' = "enter", Shape(a), a.got = {},
         a.fn \in Thrower \cup {"post"}, a.fn # "post" => "chunk" \in X, a.fn = "elf" => a.pc = 0,
         java_stack' = IF "chunk" \in X THEN Append(Clip, Chunk(FALSE)) ELSE Clip,
         catch_list' = Append(catch_list, [method |-> "invoke_method", region |-> 0, owner |-> Depth]),
         native_locals' = Append(native_locals, Depth),
         stack_limit' = IF stack_limit = 0 THEN Depth ELSE stack_limit,
         held' = IF "lock" \in X THEN [held EXCEPT ![Top.m] = @ + 1] ELSE held,
         pending' = pending, in_vmex' = in_vmex, jni_method' = jni_method, native' = native
  PROVE  ExecutionInv'
<1>1. Top.got = {}
  BY Parts DEF TopIs
<1>2. TypeOK /\ Links /\ TopIs /\ Stacks
  BY Parts
<1>3. Top \in ActivationType /\ Shape(Top) /\ Top.m \in Methods /\ Depth \in Nat \ {0} /\ Depth \in 1 .. Depth
      /\ Top = calls[Depth]
  BY <1>1, <1>2, TopFacts DEF Shape, Top
<1>4. \A x : Depth \notin Holders(x)
  BY <1>1, <1>3, HoldersAre
<1>5. ClipFlag \in SUBSET {"clip"}
  BY <1>2, <1>4, ClipIs
<1>6. PICK S, b : S = GateFrames \cup X /\ b = [Top EXCEPT !.got = @ \cup S]
  OBVIOUS
<1>7. /\ S \in SUBSET {"clip", "catch", "frame", "limit", "chunk", "lock"}
      /\ "catch" \in S /\ "frame" \in S /\ ("clip" \in S <=> "clip" \in ClipFlag)
      /\ ("chunk" \in S <=> "chunk" \in X) /\ ("lock" \in S <=> "lock" \in X)
      /\ ("limit" \in S <=> stack_limit = 0) /\ "vmex" \notin S
  BY <1>5, <1>6 DEF GateFrames
<1>8. S \in SUBSET Things
  BY <1>7 DEF Things
<1>9. b.fn = "gate" /\ b.m = Top.m /\ b.got = S
  BY <1>1, <1>3, <1>6, <1>8, TopMore
<1>10. Shape(b) /\ Waits(b, a)
  <2>1. Shape(b)
    BY <1>3, <1>7, <1>9, MayIs DEF Shape
  <2>2. Waits(b, a)
    BY <1>7, <1>9, CalleesAre DEF Waits, Started, Underway, Thrower
  <2> QED
    BY <2>1, <2>2
<1>11. a.fn \notin {"native", "throw", "call", "gate", "interp"}
  BY DEF Thrower
<1>12. calls' = Append(Got(S), a)
  BY <1>6
<1>13. /\ Pushes(S, a) /\ Links' /\ TopIs' /\ JniMethods' /\ Searches'
       /\ calls' \in Seq(ActivationType) /\ calls' # <<>>
  BY <1>6, <1>8, <1>10, <1>11, <1>12, PushesCore
<1>14. Depth' = Depth + 1 /\ Depth <= Depth' /\ Alike /\ \A d \in 1 .. Depth : calls'[d].pc = calls[d].pc
  <2>1. Depth' = Depth + 1
    BY <1>13 DEF Pushes
  <2>2. Depth <= Depth'
    BY <1>3, <2>1
  <2>3. Alike /\ \A d \in 1 .. Depth : calls'[d].pc = calls[d].pc
    BY <1>2, <1>13, PushesAlike
  <2> QED
    BY <2>1, <2>2, <2>3
<1>15. ASSUME NEW x \in S
       PROVE  Holders(x)' = Holders(x) \cup {Depth}
  <2>1. Holders(x)' = Holders(x) \cup (IF x \in S THEN {Depth} ELSE {}) \cup (IF x \in a.got THEN {Depth + 1} ELSE {})
    BY <1>2, <1>8, <1>13, HoldersPush
  <2> QED
    BY <2>1
<1>16. \A x \in Holders("frame") : x < Depth
  BY <1>3, <1>4 DEF Holders
<1>17. Stacks' /\ java_stack' \in Seq(ChunkType)
  <2>1. Leading' \subseteq Leading \cup {Depth} /\ Interpreting' \subseteq Interpreting \cup {Depth}
    BY <1>2, <1>8, <1>13, PushesLeads
  <2>2. StackIs(Clip, Depth, Holders("chunk"), Interps,
                Holders("clip") \cup (IF "clip" \in ClipFlag THEN {Depth} ELSE {}),
                Leading \cup {Depth}, Interpreting \cup {Depth})
    BY <1>2, <1>4, ClipIs
  <2>3. StackIs(Clip, Depth, Holders("chunk"), Interps,
                Holders("clip") \cup (IF "clip" \in S THEN {Depth} ELSE {}),
                Leading \cup {Depth}, Interpreting \cup {Depth})
    BY <1>7, <2>2
  <2>4. StackIs(java_stack', Depth, Holders("chunk") \cup (IF "chunk" \in S THEN {Depth} ELSE {}), Interps,
                Holders("clip") \cup (IF "clip" \in S THEN {Depth} ELSE {}),
                Leading \cup {Depth}, Interpreting \cup {Depth})
    <3>1. CASE "chunk" \in X
      <4>1. java_stack' = Append(Clip, [interp |-> FALSE, owner |-> Depth, top |-> 0])
        BY <3>1 DEF Chunk
      <4>2. Depth \in Interps <=> FALSE
        BY <1>3 DEF Interps
      <4>3. StackIs(java_stack', Depth, Holders("chunk") \cup {Depth}, Interps,
                    Holders("clip") \cup (IF "clip" \in S THEN {Depth} ELSE {}),
                    Leading \cup {Depth}, Interpreting \cup {Depth})
        <5>1. PICK H, L, M : /\ H = Holders("clip") \cup (IF "clip" \in S THEN {Depth} ELSE {})
                             /\ L = Leading \cup {Depth} /\ M = Interpreting \cup {Depth}
          OBVIOUS
        <5>2. StackIs(Clip, Depth, Holders("chunk"), Interps, H, L, M)
          BY <2>3, <5>1
        <5>3. Depth > 0 /\ Depth \notin Holders("chunk")
          BY <1>3, <1>4
        <5>4. StackIs(java_stack', Depth, Holders("chunk") \cup {Depth}, Interps, H, L, M)
          <6>1. PICK i \in BOOLEAN : i = FALSE
            OBVIOUS
          <6>2. (Depth \in Interps <=> i) /\ java_stack' = Append(Clip, [interp |-> i, owner |-> Depth, top |-> 0])
            BY <4>1, <4>2, <6>1
          <6>3. PICK q, n, O, I : q = Clip /\ n = Depth /\ O = Holders("chunk") /\ I = Interps
            OBVIOUS
          <6>4. StackIs(q, n, O, I, H, L, M) /\ n > 0 /\ n \notin O /\ (n \in I <=> i)
            BY <5>2, <5>3, <6>2, <6>3
          <6>5. StackIs(Append(q, [interp |-> i, owner |-> n, top |-> 0]), n, O \cup {n}, I, H, L, M)
            BY <6>4, StackPush
          <6> QED
            BY <6>2, <6>3, <6>5
        <5> QED
          BY <5>1, <5>4
      <4> QED
        BY <1>7, <3>1, <4>3
    <3>2. CASE "chunk" \notin X
      BY <1>7, <2>3, <3>2
    <3> QED
      BY <3>1, <3>2
  <2> QED
    BY <1>2, <1>8, <1>11, <1>13, <2>1, <2>4, PushesStack DEF StackIs
<1>18. Posting'
  BY <1>2, <1>7, <1>8, <1>13, Parts, PushesRest
<1>19. Catchers' /\ catch_list' \in Seq(CatchType)
  <2>1. PICK r : r = [method |-> "invoke_method", region |-> 0, owner |-> Depth]
    OBVIOUS
  <2>2. r \in CatchType /\ r.owner = Depth /\ r.method = "invoke_method"
    BY <1>3, <2>1 DEF CatchType
  <2>3. catch_list' = Append(catch_list, r)
    BY <2>1
  <2>4. Holders("catch")' = Holders("catch") \cup {Depth}
    BY <1>7, <1>15
  <2>5. Top.fn # "elf"
    OBVIOUS
  <2> QED
    BY <1>2, <1>4, <1>14, <2>2, <2>3, <2>4, <2>5, Parts, CatchMore
<1>20. NativeLocals' /\ native_locals' \in Seq(Nat)
  <2>1. Holders("frame")' = Holders("frame") \cup {Depth}
    BY <1>7, <1>15
  <2> QED
    BY <1>2, <1>3, <1>16, <2>1, Parts, LocalsMore
<1>21. Limits' /\ stack_limit' \in Nat
  <2>1. CASE stack_limit = 0
    <3>1. Holders("limit") = {}
      BY <2>1, Parts DEF Limits
    <3>2. Holders("limit")' = {Depth}
      BY <1>7, <1>15, <2>1, <3>1
    <3>3. stack_limit' = Depth /\ Depth # 0 /\ Depth \in Nat
      BY <1>3, <2>1
    <3> QED
      BY <3>2, <3>3 DEF Limits
  <2>2. CASE stack_limit # 0
    BY <1>2, <1>7, <1>8, <1>13, <2>2, Parts, PushesRest DEF TypeOK
  <2> QED
    BY <2>1, <2>2
<1>22. Balance' /\ held' \in [Methods -> Nat]
  <2>1. CASE "lock" \in X
    <3>1. Lock(Top.m) /\ Holders("lock")' = Holders("lock") \cup {Depth}
      BY <1>7, <1>15, <2>1 DEF Lock
    <3> QED
      BY <1>2, <1>3, <1>4, <1>14, <3>1, Parts, BalanceMore
  <2>2. CASE "lock" \notin X
    BY <1>2, <1>7, <1>8, <1>13, <2>2, Parts, PushesRest DEF TypeOK
  <2> QED
    BY <2>1, <2>2
<1>23. TypeOK'
  BY <1>2, <1>13, <1>17, <1>19, <1>20, <1>21, <1>22 DEF TypeOK
<1> QED
  BY <1>13, <1>17, <1>18, <1>19, <1>20, <1>21, <1>22, <1>23, Together

LEMMA GateEnterKeeps ==
  ASSUME ExecutionInv, GateEnter
  PROVE  ExecutionInv'
<1>1. Top.fn = "gate" /\ st = "enter"
  BY DEF GateEnter, In
<1>2. Top.m \in Methods
  BY <1>1, Parts, TopFacts DEF Shape
<1>3. PICK a : a = IF Top.pc = 1 THEN Activation("jcni", Top.m) ELSE Entry(Top.m)
  OBVIOUS
<1>4. PICK X : X = {"chunk"} \cup IF Top.pc = 1 /\ Top.m \in Synchronized THEN {"lock"} ELSE {}
  OBVIOUS
<1>5. a \in ActivationType /\ Shape(a) /\ a.got = {} /\ a.fn \in Thrower /\ a.pc = 0
  <2>1. CASE Top.pc = 1
    BY <1>2, <1>3, <2>1, NewShape, NewIs DEF Thrower, Functions
  <2>2. CASE Top.pc # 1
    BY <1>2, <1>3, <2>2, EntryIs DEF Thrower
  <2> QED
    BY <2>1, <2>2
<1>6. X \in SUBSET {"chunk", "lock"} /\ "chunk" \in X /\ ("lock" \in X <=> Top.pc = 1 /\ Top.m \in Synchronized)
  BY <1>4
<1>7. /\ catch_list' = Append(catch_list, [method |-> "invoke_method", region |-> 0, owner |-> Depth])
      /\ native_locals' = Append(native_locals, Depth)
      /\ stack_limit' = IF stack_limit = 0 THEN Depth ELSE stack_limit
      /\ pending' = pending /\ in_vmex' = in_vmex /\ jni_method' = jni_method /\ native' = native
  BY DEF GateEnter
<1>8. CASE /\ Push(Got(GateFrames \cup {"chunk"} \cup IF Top.pc = 1 /\ Top.m \in Synchronized THEN {"lock"} ELSE {}), a)
           /\ held' = IF Top.pc = 1 /\ Top.m \in Synchronized THEN [held EXCEPT ![Top.m] = @ + 1] ELSE held
           /\ java_stack' = Append(Clip, Chunk(FALSE))
  <2>1. GateFrames \cup {"chunk"} \cup (IF Top.pc = 1 /\ Top.m \in Synchronized THEN {"lock"} ELSE {})
        = GateFrames \cup X
    BY <1>4
  <2>2. calls' = Append(Got(GateFrames \cup X), a) /\ st' = "enter"
    BY <1>8, <2>1 DEF Push
  <2>3. held' = IF "lock" \in X THEN [held EXCEPT ![Top.m] = @ + 1] ELSE held
    BY <1>6, <1>8
  <2>4. java_stack' = IF "chunk" \in X THEN Append(Clip, Chunk(FALSE)) ELSE Clip
    BY <1>6, <1>8
  <2> QED
    BY <1>1, <1>5, <1>6, <1>7, <2>2, <2>3, <2>4, GateEnters
<1>9. CASE Post(Got(GateFrames), OutOfMemory) /\ java_stack' = Clip /\ held' = held
  <2>1. PICK c : c = Activation("post", OutOfMemory)
    OBVIOUS
  <2>2. c \in ActivationType /\ Shape(c) /\ c.fn = "post" /\ c.got = {}
    BY <2>1, PostShape DEF Exceptions
  <2>3. calls' = Append(Got(GateFrames \cup {}), c) /\ st' = "enter"
    <3>1. GateFrames \cup {} = GateFrames
      OBVIOUS
    <3> QED
      BY <1>9, <2>1, <3>1 DEF Post, Push
  <2>4. {} \in SUBSET {"chunk", "lock"} /\ "chunk" \notin {} /\ "lock" \notin {}
    OBVIOUS
  <2>5. java_stack' = (IF "chunk" \in {} THEN Append(Clip, Chunk(FALSE)) ELSE Clip)
        /\ held' = (IF "lock" \in {} THEN [held EXCEPT ![Top.m] = @ + 1] ELSE held)
    BY <1>9
  <2> QED
    BY <1>1, <1>7, <2>2, <2>3, <2>4, <2>5, GateEnters
<1> QED
  BY <1>3, <1>8, <1>9 DEF GateEnter

-----------------------------------------------------------------------------
(* Exceptions that are thrown *)

\* What compiled methods are called from, at last, is a gateway.
Base(g, t) ==
  /\ g \in 1 .. Depth /\ t \in 1 .. Depth /\ g < t
  /\ calls[g].fn = "gate" /\ {"chunk", "catch"} \subseteq calls[g].got
  /\ \A d \in 1 .. Depth : g < d /\ d < t => calls[d].fn = "elf"

\* Compiled code runs on top of a gateway.
LEMMA BaseIs ==
  ASSUME TypeOK, Links, NEW t \in 1 .. Depth, calls[t].fn \in Thrower
  PROVE  \E g \in 1 .. Depth : Base(g, t)
<1>1. Depth \in Nat /\ \A d \in 1 .. Depth : calls[d] \in ActivationType
  BY DepthIs
<1>2. PICK S : S = {d \in 1 .. t - 1 : calls[d].fn # "elf"}
  OBVIOUS
<1>3. S \in SUBSET (0 .. t) /\ S # {}
  <2>1. calls[1].fn = "native"
    BY DEF Links
  <2>2. t # 1
    BY <2>1 DEF Thrower
  <2>3. 1 \in 1 .. t - 1
    BY <1>1, <2>2
  <2> QED
    BY <1>1, <1>2, <2>1, <2>3
<1>4. PICK g \in S : \A d \in S : d <= g
  <2>1. t \in Nat
    BY <1>1
  <2>2. Max(S) \in S /\ \A d \in S : d <= Max(S)
    BY <1>3, <2>1, MaxIs
  <2> QED
    BY <2>2
<1>5. g \in 1 .. Depth - 1 /\ g < t /\ calls[g].fn # "elf"
  BY <1>1, <1>2
<1>6. \A d \in 1 .. Depth : g < d /\ d < t => calls[d].fn = "elf"
  BY <1>1, <1>2, <1>4
<1>7. calls[g + 1].fn \in {"elf", "vinterp", "vnative", "jcni"}
  <2>1. CASE g + 1 = t
    BY <2>1 DEF Thrower
  <2>2. CASE g + 1 # t
    <3>1. g + 1 \in 1 .. Depth /\ g < g + 1 /\ g + 1 < t
      BY <1>1, <1>5, <2>2
    <3> QED
      BY <1>6, <3>1
  <2> QED
    BY <2>1, <2>2
<1>8. Waits(calls[g], calls[g + 1])
  BY <1>5 DEF Links
<1>9. calls[g].fn = "gate"
  <2>1. calls[g].fn \in Functions /\ calls[g + 1].fn \in Callees[calls[g].fn]
    BY <1>1, <1>5, <1>8, ActivationIs DEF Waits
  <2> QED
    BY <1>5, <1>7, <2>1, CalleesAre DEF Functions
<1>10. {"chunk", "catch"} \subseteq calls[g].got
  BY <1>7, <1>8, <1>9 DEF Waits, Underway, Started
<1>11. g \in 1 .. Depth
  BY <1>1, <1>5
<1> QED
  BY <1>5, <1>6, <1>9, <1>10, <1>11 DEF Base

\* Where a thrown exception may go: up to that gateway, over compiled methods.
Stretch(g, t) == Base(g, t) /\ calls[t].fn \in Thrower /\ (t = Depth \/ (t = Depth - 1 /\ Top.fn = "throw"))

\* From there on all of the stack is its chunk.
LEMMA StretchIs ==
  ASSUME TypeOK, Links, NEW t \in 1 .. Depth, calls[t].fn \in Thrower,
         t = Depth \/ (t = Depth - 1 /\ Top.fn = "throw")
  PROVE  \E g \in 1 .. Depth : Stretch(g, t)
  BY BaseIs DEF Stretch

\* What the activations in it are, and what they have to undo.
LEMMA StretchHas ==
  ASSUME TypeOK, Links, NEW g, NEW t, Stretch(g, t), NEW d \in 1 .. Depth, g < d
  PROVE  /\ calls[d].fn \in {"elf", "vinterp", "vnative", "jcni", "throw"}
         /\ d < t => calls[d].fn = "elf"
         /\ d > t => d = Depth /\ calls[d].fn = "throw"
         /\ calls[d].got \subseteq {"catch", "clip"}
         /\ "clip" \in calls[d].got => d = t /\ calls[d].fn = "vinterp"
         /\ "catch" \in calls[d].got => calls[d].fn = "elf"
<1>1. Depth \in Nat /\ Top = calls[Depth]
  BY DepthIs DEF Top
<1>2. t \in 1 .. Depth /\ g \in 1 .. Depth
  BY DEF Stretch, Base
<1>3. d < t => calls[d].fn = "elf"
  BY DEF Stretch, Base
<1>4. d = t => calls[d].fn \in {"elf", "vinterp", "vnative", "jcni"}
  BY DEF Stretch, Base, Thrower
<1>5. d > t => d = Depth /\ calls[d].fn = "throw"
  BY <1>1, <1>2 DEF Stretch, Base
<1>6. calls[d].fn \in {"elf", "vinterp", "vnative", "jcni", "throw"}
  BY <1>1, <1>2, <1>3, <1>4, <1>5
<1>7. Shape(calls[d])
  BY DEF Links
<1>8. \/ calls[d].fn = "elf" /\ calls[d].got \subseteq {"catch"}
      \/ calls[d].fn = "vinterp" /\ calls[d].got \subseteq {"clip"}
      \/ calls[d].got = {}
  BY <1>6, <1>7, MayIs DEF Shape
<1>9. calls[d].fn = "vinterp" => d = t
  BY <1>1, <1>2, <1>3, <1>5
<1> QED
  BY <1>3, <1>5, <1>6, <1>8, <1>9

\* Its gateway owns the last chunk.
LEMMA StretchTop ==
  ASSUME TypeOK, Links, Stacks, NEW g, NEW t, Stretch(g, t)
  PROVE  /\ java_stack # <<>> /\ Len(java_stack) \in DOMAIN java_stack /\ Len(java_stack) # 0
         /\ Len(java_stack) \in Nat
         /\ java_stack[Len(java_stack)].owner = g /\ java_stack[Len(java_stack)].interp = FALSE
<1>1. StackIs(java_stack, Depth, Holders("chunk"), Interps, Holders("clip"), Leading, Interpreting)
  BY StackNow
<1>2. /\ java_stack \in Seq(ChunkType) /\ Holders("chunk") \in SUBSET (1 .. Depth) /\ Depth \in Nat
      /\ Lists(OwnersOf(java_stack), Holders("chunk"))
      /\ \A k \in DOMAIN java_stack : java_stack[k].interp <=> java_stack[k].owner \in Interps
  BY <1>1 DEF StackIs
<1>3. g \in Holders("chunk") /\ g \in 1 .. Depth /\ calls[g].fn = "gate"
  BY HoldersAre DEF Stretch, Base
<1>4. java_stack # <<>>
  BY <1>2, <1>3, OwnersAre
<1>5. PICK k : k = Len(java_stack)
  OBVIOUS
<1>6. k \in DOMAIN java_stack /\ java_stack[k].owner \in Holders("chunk") /\ g <= java_stack[k].owner
      /\ java_stack[k].owner \in 1 .. Depth
  BY <1>2, <1>3, <1>4, <1>5, OwnersAre
<1>7. java_stack[k].owner = g
  <2>1. "chunk" \in calls[java_stack[k].owner].got
    BY <1>6, HoldersAre
  <2>2. ~(g < java_stack[k].owner)
    BY <1>6, <2>1, StretchHas
  <2> QED
    BY <1>2, <1>3, <1>6, <2>2
<1>8. java_stack[k].interp = FALSE
  <2>1. java_stack[k].interp \in BOOLEAN
    BY <1>2, <1>6, ChunkIs
  <2>2. g \notin Interps
    BY <1>3 DEF Interps
  <2> QED
    BY <1>2, <1>6, <1>7, <2>1, <2>2
<1>9. k \in Nat /\ k # 0
  BY <1>2, <1>4, <1>5, ChunkIs
<1> QED
  BY <1>4, <1>5, <1>6, <1>7, <1>8, <1>9

\* What comes next in a crawl.
LEMMA BelowIs ==
  ASSUME NEW d \in Nat
  PROVE  /\ RegisteredBelow(d) \in 0 .. d
         /\ RegisteredBelow(d) # 0 => Registered(RegisteredBelow(d))
         /\ \A e \in 1 .. d : Registered(e) => e <= RegisteredBelow(d)
<1>1. PICK S : S = {e \in 1 .. d : Registered(e)} \cup {0}
  OBVIOUS
<1>2. S \in SUBSET (0 .. d) /\ S # {} /\ RegisteredBelow(d) = Max(S)
  BY <1>1 DEF RegisteredBelow
<1>3. Max(S) \in S /\ \A k \in S : k <= Max(S)
  BY <1>2, MaxIs
<1> QED
  BY <1>1, <1>2, <1>3

\* The frames in the catch list are those of activations that a crawl sees, and
\* the gateways' say so.
LEMMA CatchOwners ==
  ASSUME TypeOK, Links, Catchers, NEW c \in DOMAIN catch_list
  PROVE  /\ catch_list[c].owner \in 1 .. Depth /\ Registered(catch_list[c].owner)
         /\ calls[catch_list[c].owner].fn \in {"elf", "gate"}
         /\ "catch" \in calls[catch_list[c].owner].got
         /\ MethodOf(catch_list[c].owner) = catch_list[c].method
         /\ catch_list[c].method = "invoke_method" <=> calls[catch_list[c].owner].fn = "gate"
         /\ calls[catch_list[c].owner].fn = "elf" => /\ catch_list[c].method \in Methods
                                                      /\ catch_list[c].method = calls[catch_list[c].owner].m
                                                      /\ catch_list[c].region = calls[catch_list[c].owner].pc
<1>1. PICK d : d = catch_list[c].owner
  OBVIOUS
<1>2. d \in 1 .. Depth /\ "catch" \in calls[d].got
  BY <1>1, CatchFacts
<1>3. calls[d] \in ActivationType /\ Shape(calls[d])
  BY <1>2, DepthIs DEF Links
<1>4. calls[d].fn \in {"elf", "gate"}
  BY <1>2, <1>3, ActivationIs, MayIs DEF Shape, Functions
<1>5. /\ calls[d].fn = "gate" => catch_list[c].method = "invoke_method"
      /\ calls[d].fn = "elf" => catch_list[c].method = calls[d].m /\ catch_list[c].region = calls[d].pc
  BY <1>1 DEF Catchers
<1>6. calls[d].fn = "elf" => calls[d].m \in Methods /\ calls[d].m # "invoke_method"
  BY <1>3, ExecutionAssumption DEF Shape
<1> QED
  BY <1>1, <1>2, <1>4, <1>5, <1>6 DEF Registered, MethodOf

\* The gateway of a stretch has a frame in it, and the frames after that are the stretch's.
LEMMA StretchCatch ==
  ASSUME TypeOK, Catchers, NEW g, NEW t, Stretch(g, t)
  PROVE  /\ catch_list # <<>> /\ Len(catch_list) \in DOMAIN catch_list
         /\ g <= catch_list[Len(catch_list)].owner
         /\ \A c \in DOMAIN catch_list : catch_list[c].owner > g =>
              c - 1 \in DOMAIN catch_list /\ catch_list[c - 1].owner >= g
<1>1. g \in Holders("catch") /\ Depth \in Nat
  BY HoldersAre, DepthIs DEF Stretch, Base
<1>2. PICK b \in DOMAIN catch_list : catch_list[b].owner = g
  BY <1>1, CatchFacts
<1>3. DOMAIN catch_list = 1 .. Len(catch_list) /\ Len(catch_list) \in Nat
      /\ \A c \in DOMAIN catch_list : catch_list[c].owner \in 1 .. Depth
  BY CatchFacts
<1>4. \A c, e \in DOMAIN catch_list : c < e => catch_list[c].owner < catch_list[e].owner
  BY CatchFacts
<1>5. Len(catch_list) \in DOMAIN catch_list /\ catch_list # <<>>
  BY <1>2, <1>3
<1>6. g <= catch_list[Len(catch_list)].owner
  <2>1. b = Len(catch_list) \/ b < Len(catch_list)
    BY <1>3
  <2> QED
    BY <1>1, <1>2, <1>3, <1>4, <1>5, <2>1
<1>7. ASSUME NEW c \in DOMAIN catch_list, catch_list[c].owner > g
      PROVE  c - 1 \in DOMAIN catch_list /\ catch_list[c - 1].owner >= g
  <2>1. b # c /\ ~(c < b)
    BY <1>1, <1>2, <1>3, <1>4, <1>7
  <2>2. c - 1 \in DOMAIN catch_list /\ (b = c - 1 \/ b < c - 1)
    BY <1>3, <2>1
  <2> QED
    BY <1>1, <1>2, <1>3, <1>4, <2>2
<1> QED
  BY <1>5, <1>6, <1>7

LEMMA ThrowKeeps ==
  ASSUME ExecutionInv, Throw
  PROVE  ExecutionInv'
<1>1. Top.fn \in Thrower /\ st = "err" /\ "clip" \notin Top.got
  BY DEF Throw, Thrower
<1>2. TypeOK /\ Links /\ TopIs /\ Stacks /\ Catchers
  BY Parts
<1>3. Top \in ActivationType /\ Shape(Top) /\ Depth \in Nat \ {0} /\ Depth \in 1 .. Depth /\ Top = calls[Depth]
  BY <1>2, TopFacts DEF Top
<1>4. PICK g \in 1 .. Depth : Stretch(g, Depth)
  BY <1>1, <1>2, <1>3, StretchIs
<1>5. PICK k : k = Len(java_stack)
  OBVIOUS
<1>6. /\ k \in DOMAIN java_stack /\ k # 0 /\ k \in Nat
      /\ java_stack[k].owner = g /\ java_stack[k].interp = FALSE
  BY <1>2, <1>4, <1>5, StretchTop
<1>7. java_stack[k].top = 0
  <2>1. ClipsIn(java_stack, Depth, Holders("clip"))
    BY <1>2, StackNow DEF StackIs
  <2>2. java_stack[k].top \in Nat
    BY <1>2, <1>6, ChunkIs DEF TypeOK
  <2>3. ASSUME java_stack[k].top # 0
        PROVE  FALSE
    <3>1. PICK d : d = java_stack[k].top + 1
      OBVIOUS
    <3>2. java_stack[k].top < Depth /\ LastBefore(java_stack, k, d)
      BY <1>6, <2>1, <2>3, <3>1 DEF ClipsIn
    <3>3. d \in 1 .. Depth /\ java_stack[k].top = d - 1
      BY <1>3, <2>2, <3>1, <3>2
    <3>4. d \in Holders("clip")
      BY <1>6, <2>1, <3>2, <3>3 DEF ClipsIn
    <3>5. g < d /\ "clip" \in calls[d].got
      BY <1>6, <3>2, <3>4, HoldersAre DEF LastBefore
    <3>6. d = Depth
      BY <1>2, <1>4, <3>3, <3>5, StretchHas
    <3> QED
      BY <1>1, <1>3, <3>5, <3>6
  <2> QED
    BY <2>3
<1>8. PICK d : d = RegisteredBelow(Depth)
  OBVIOUS
<1>9. d \in g .. Depth /\ d \in Nat /\ d # 0 /\ Registered(d) /\ \A e \in 1 .. Depth : Registered(e) => e <= d
  <2>1. Registered(g)
    BY <1>4 DEF Stretch, Base, Registered
  <2> QED
    BY <1>3, <1>8, <2>1, BelowIs
<1>10. PICK c : c = Len(catch_list)
  OBVIOUS
<1>11. c \in DOMAIN catch_list /\ c \in Nat /\ g <= catch_list[c].owner
  BY <1>2, <1>4, <1>10, StretchCatch, CatchFacts
<1>12. catch_list[c].owner \in g .. d
  BY <1>2, <1>3, <1>9, <1>11, CatchOwners
<1>13. PICK p : p = [chunk |-> k, d |-> d, catch |-> c]
  OBVIOUS
<1>14. p \in Positions /\ p.chunk = k /\ p.d = d /\ p.catch = c
  BY <1>6, <1>9, <1>11, <1>13 DEF Positions
<1>15. PICK a : a = [Activation("throw", None) EXCEPT !.kept = p]
  OBVIOUS
<1>16. a \in ActivationType /\ a.fn = "throw" /\ a.got = {} /\ a.kept = p
  <2>1. a = [fn |-> "throw", m |-> None, pc |-> 0, got |-> {}, kept |-> p]
    BY <1>15 DEF Activation
  <2> QED
    BY <1>14, <2>1 DEF ActivationType, Functions
<1>17. calls' = Append(calls, a) /\ st' = st
  <2>1. CrawlChunk(k) = [chunk |-> k, d |-> d]
    BY <1>6, <1>7, <1>8 DEF CrawlChunk, ChunkTop
  <2>2. Position(CrawlChunk(k), c) = p
    BY <1>13, <2>1 DEF Position
  <2> QED
    BY <1>5, <1>10, <1>15, <2>2 DEF Throw
<1>18. /\ java_stack' = java_stack /\ catch_list' = catch_list /\ native_locals' = native_locals /\ held' = held
       /\ stack_limit' = stack_limit /\ pending' = pending /\ in_vmex' = in_vmex /\ jni_method' = jni_method
       /\ native' = native
  BY DEF Throw, lists
<1>19. Pushes({}, a) /\ {} \in SUBSET Things
  BY <1>2, <1>16, <1>17, PushesPlain
<1>20. Depth' = Depth + 1 /\ Top' = a
  BY <1>19 DEF Pushes, Top
<1>21. Links'
  <2>1. PICK b : b = [Top EXCEPT !.got = @ \cup {}]
    OBVIOUS
  <2>2. b = Top
    BY <1>3, <2>1 DEF ActivationType
  <2>3. Waits(b, a) /\ Shape(a)
    BY <1>1, <1>16, <2>2, MayIs, CalleesAre DEF Waits, Started, Shape, Thrower
  <2> QED
    BY <1>2, <1>3, <1>16, <1>19, <2>1, <2>2, <2>3, PushesLinks
<1>22. TopIs'
  <2>1. native = FALSE
    BY <1>1, <1>2 DEF TopIs, TypeOK, Thrower
  <2> QED
    BY <1>1, <1>16, <1>17, <1>18, <1>20, <2>1 DEF TopIs, Started
<1>23. Stacks'
  BY <1>1, <1>2, <1>16, <1>18, <1>19, PushesStacks DEF Thrower
<1>24. Catchers' /\ NativeLocals' /\ Limits' /\ Posting' /\ Balance'
  BY <1>2, <1>16, <1>18, <1>19, Parts, PushesRest
<1>25. JniMethods'
  BY <1>2, <1>16, <1>18, <1>19, Parts, PushesNatives
<1>26. Searches'
  <2>1. Registered(d)'
    <3>1. calls'[d].fn = calls[d].fn
      <4>1. Alike /\ d \in 1 .. Depth /\ d <= Depth'
        <5>1. d \in 1 .. Depth /\ d <= Depth'
          BY <1>3, <1>9, <1>20
        <5> QED
          BY <1>2, <1>19, <5>1, PushesAlike
      <4> QED
        BY <4>1 DEF Alike
    <3> QED
      BY <1>9, <3>1 DEF Registered
  <2>2. d \in g .. Depth' - 1
    BY <1>3, <1>9, <1>20
  <2>3. \A e \in DOMAIN catch_list : ~(e > c)
    BY <1>2, <1>10, CatchFacts
  <2>4. Search(p)'
    BY <1>5, <1>6, <1>9, <1>11, <1>12, <1>14, <1>18, <2>1, <2>2, <2>3 DEF Search
  <2> QED
    BY <1>1, <1>14, <1>16, <1>17, <1>20, <2>4 DEF Searches
<1>27. TypeOK'
  <2>1. calls' \in Seq(ActivationType) /\ calls' # <<>>
    BY <1>3, <1>19, EmptySeq DEF Pushes, Depth
  <2> QED
    BY <1>2, <1>17, <1>18, <2>1 DEF TypeOK
<1> QED
  BY <1>21, <1>22, <1>23, <1>24, <1>25, <1>26, <1>27, Together

\* Where a search has come to, in terms of the stretch that it goes through.
LEMMA SearchIs ==
  ASSUME ExecutionInv, Top.fn = "throw"
  PROVE  /\ st = "err" /\ Depth - 1 \in 1 .. Depth /\ Top.got = {}
         /\ \E g \in 1 .. Depth :
              /\ Stretch(g, Depth - 1)
              /\ Top.kept \in Positions /\ Search(Top.kept)
              /\ Top.kept.chunk = Len(java_stack) /\ java_stack[Len(java_stack)].owner = g
              /\ Top.kept.d \in g .. Depth - 1 /\ Registered(Top.kept.d)
              /\ Top.kept.catch \in DOMAIN catch_list /\ Catch.owner \in g .. Top.kept.d
              /\ \A c \in DOMAIN catch_list : c > Top.kept.catch => ~Catches(catch_list[c].owner, pending)
<1>1. TypeOK /\ Links /\ Stacks /\ Searches
  BY Parts
<1>2. st = "err" /\ Top.kept \in Positions /\ Search(Top.kept)
  BY <1>1 DEF Searches
<1>3. Depth \in Nat \ {0} /\ Depth # 1 /\ Shape(Top) /\ Waits(calls[Depth - 1], Top)
      /\ calls[Depth - 1].fn \in Functions
  BY <1>1, TopFacts
<1>4. calls[Depth - 1].fn \in Thrower /\ Depth - 1 \in 1 .. Depth
  <2>1. "throw" \in Callees[calls[Depth - 1].fn]
    BY <1>3 DEF Waits
  <2>2. calls[Depth - 1].fn \in {"elf", "vinterp", "vnative", "jcni"}
    BY <1>3, <2>1, CalleesAre DEF Functions
  <2> QED
    BY <1>3, <2>2 DEF Thrower
<1>5. PICK g \in 1 .. Depth : Stretch(g, Depth - 1)
  BY <1>1, <1>4, StretchIs
<1>6. java_stack[Len(java_stack)].owner = g
  BY <1>1, <1>5, StretchTop
<1>7. Top.got = {}
  BY <1>3, MayIs DEF Shape
<1> QED
  BY <1>2, <1>4, <1>5, <1>6, <1>7 DEF Search, Catch

\* A frame that does not catch the exception is of a method without a trap for it.
LEMMA NotCaught ==
  ASSUME ExecutionInv, Top.fn = "throw", ~Caught
  PROVE  /\ calls[Top.kept.d].fn = "elf"
         /\ Catch.owner # Top.kept.d \/ IsCatch
         /\ IsCatch => calls[Catch.owner].fn = "elf" /\ ~Catches(Catch.owner, pending)
<1>1. TypeOK /\ Links /\ Catchers /\ Depth \in Nat
  BY Parts, DepthIs
<1>2. PICK g \in 1 .. Depth : /\ Stretch(g, Depth - 1)
                              /\ Top.kept.d \in g .. Depth - 1 /\ Registered(Top.kept.d)
                              /\ Top.kept.catch \in DOMAIN catch_list /\ Catch.owner \in g .. Top.kept.d
  BY SearchIs
<1>3. PICK c \in DOMAIN catch_list : c = Top.kept.catch /\ Catch = catch_list[c]
  BY <1>2 DEF Catch
<1>4. /\ MethodOf(Catch.owner) = Catch.method
      /\ Catch.method = "invoke_method" <=> calls[Catch.owner].fn = "gate"
      /\ calls[Catch.owner].fn \in {"elf", "gate"} /\ Catch.owner \in 1 .. Depth
      /\ calls[Catch.owner].fn = "elf" => /\ Catch.method \in Methods
                                          /\ Catch.method = calls[Catch.owner].m
                                          /\ Catch.region = calls[Catch.owner].pc
  BY <1>1, <1>3, CatchOwners
<1>5. Catch.owner = Top.kept.d => IsCatch
  BY <1>4 DEF IsCatch
<1>6. IsCatch => Catch.method # "invoke_method" /\ TrapsFor = {}
  BY DEF Caught
<1>7. calls[Top.kept.d].fn = "elf"
  <2>1. calls[Top.kept.d].fn \in {"elf", "gate"}
    BY <1>2 DEF Registered
  <2>2. ASSUME calls[Top.kept.d].fn = "gate"
        PROVE  FALSE
    <3>1. Top.kept.d \in 1 .. Depth
      BY <1>1, <1>2
    <3>2. ~(g < Top.kept.d)
      BY <1>1, <1>2, <2>2, <3>1, StretchHas
    <3>3. Catch.owner = Top.kept.d
      BY <1>1, <1>2, <3>1, <3>2
    <3> QED
      BY <1>4, <1>5, <1>6, <2>2, <3>3
  <2> QED
    BY <2>1, <2>2
<1>8. ASSUME IsCatch
      PROVE  calls[Catch.owner].fn = "elf" /\ ~Catches(Catch.owner, pending)
  <2>1. calls[Catch.owner].fn = "elf"
    BY <1>4, <1>6, <1>8
  <2>2. PICK m, r : m = Catch.method /\ r = Catch.region
    OBVIOUS
  <2>3. m \in Methods /\ m = calls[Catch.owner].m /\ r = calls[Catch.owner].pc
    BY <1>4, <2>1, <2>2
  <2>4. Matching(m, r, pending) = {}
    <3>1. CASE r = 0
      <4>1. \A i \in DOMAIN Traps[m] : Traps[m][i].start > 0 /\ Traps[m][i].start \in Nat
        <5>1. KindOf[m] = "elf"
          BY <1>1, <1>4, <2>1, <2>3 DEF Links, Shape
        <5> QED
          BY <2>3, <5>1, TrapIs, ExecutionAssumption
      <4>2. \A i \in DOMAIN Traps[m] : ~(Traps[m][i].start <= 0)
        BY <4>1
      <4> QED
        BY <3>1, <4>2 DEF Matching, Covers
    <3>2. CASE r # 0
      BY <1>6, <1>8, <2>2, <3>2 DEF TrapsFor
    <3> QED
      BY <3>1, <3>2
  <2> QED
    BY <2>1, <2>3, <2>4 DEF Catches
<1> QED
  BY <1>5, <1>7, <1>8

LEMMA ThrowNextKeeps ==
  ASSUME ExecutionInv, ThrowNext
  PROVE  ExecutionInv'
<1>1. Top.fn = "throw" /\ ~Caught
  BY DEF ThrowNext
<1>2. TypeOK /\ Links /\ TopIs /\ Stacks /\ Catchers
  BY Parts
<1>3. Top \in ActivationType /\ Shape(Top) /\ Depth \in Nat \ {0} /\ Depth \in 1 .. Depth /\ Top = calls[Depth]
  BY <1>2, TopFacts DEF Top
<1>4. st = "err" /\ Top.got = {}
  BY <1>1, SearchIs
<1>5. PICK g \in 1 .. Depth : /\ Stretch(g, Depth - 1)
                              /\ Top.kept \in Positions /\ Search(Top.kept)
                              /\ Top.kept.chunk = Len(java_stack) /\ java_stack[Len(java_stack)].owner = g
                              /\ Top.kept.d \in g .. Depth - 1 /\ Registered(Top.kept.d)
                              /\ Top.kept.catch \in DOMAIN catch_list /\ Catch.owner \in g .. Top.kept.d
                              /\ \A c \in DOMAIN catch_list : c > Top.kept.catch =>
                                   ~Catches(catch_list[c].owner, pending)
  BY <1>1, SearchIs
<1>6. PICK k, d, c : k = Top.kept.chunk /\ d = Top.kept.d /\ c = Top.kept.catch
  OBVIOUS
<1>7. /\ k = Len(java_stack) /\ k \in DOMAIN java_stack /\ k # 0 /\ k \in Nat
      /\ java_stack[k].owner = g /\ java_stack[k].interp = FALSE
  BY <1>2, <1>5, <1>6, StretchTop
<1>8. c \in DOMAIN catch_list /\ c \in Nat /\ Catch = catch_list[c] /\ d \in Nat
  BY <1>2, <1>5, <1>6, CatchFacts DEF Catch, Positions
<1>9. calls[d].fn = "elf" /\ (Catch.owner # d \/ IsCatch)
      /\ (IsCatch => calls[Catch.owner].fn = "elf" /\ ~Catches(Catch.owner, pending))
  BY <1>1, <1>6, NotCaught
<1>10. d \in 1 .. Depth - 1 /\ d # g /\ g \in Nat
  BY <1>3, <1>5, <1>6, <1>9 DEF Stretch, Base
<1>11. PICK e : e = RegisteredBelow(d - 1)
  OBVIOUS
<1>12. e \in g .. d - 1 /\ e \in Nat /\ Registered(e) /\ \A x \in 1 .. d - 1 : Registered(x) => x <= e
  <2>1. d - 1 \in Nat /\ g \in 1 .. d - 1
    BY <1>3, <1>5, <1>6, <1>10
  <2>2. Registered(g)
    BY <1>5 DEF Stretch, Base, Registered
  <2>3. g <= e /\ e \in 0 .. d - 1 /\ (e # 0 => Registered(e)) /\ \A x \in 1 .. d - 1 : Registered(x) => x <= e
    BY <1>11, <2>1, <2>2, BelowIs
  <2> QED
    BY <1>3, <1>10, <2>1, <2>3
<1>13. PICK f : f = IF IsCatch THEN c - 1 ELSE c
  OBVIOUS
<1>14. /\ f \in DOMAIN catch_list /\ f \in Nat /\ catch_list[f].owner \in g .. e
       /\ \A x \in DOMAIN catch_list : x > f => ~Catches(catch_list[x].owner, pending)
  <2>1. \A x \in DOMAIN catch_list : catch_list[x].owner \in 1 .. Depth /\ Registered(catch_list[x].owner)
    BY <1>2, CatchOwners
  <2>2. CASE IsCatch
    <3>1. Catch.owner > g
      <4>1. Catch.owner # g
        BY <1>5, <1>9, <2>2 DEF Stretch, Base
      <4> QED
        BY <1>5, <1>6, <1>10, <4>1
    <3>2. f = c - 1 /\ f \in DOMAIN catch_list /\ catch_list[f].owner >= g
      BY <1>2, <1>5, <1>8, <1>13, <2>2, <3>1, StretchCatch
    <3>3. f < c /\ f \in Nat /\ DOMAIN catch_list = 1 .. Len(catch_list) /\ Len(catch_list) \in Nat
      BY <1>2, <1>8, <3>2, CatchFacts
    <3>4. catch_list[f].owner < Catch.owner
      BY <1>2, <1>8, <3>2, <3>3, CatchFacts
    <3>5. catch_list[f].owner \in 1 .. d - 1
      BY <1>3, <1>5, <1>6, <1>10, <2>1, <3>2, <3>4
    <3>6. catch_list[f].owner \in g .. e
      BY <1>10, <1>12, <2>1, <3>2, <3>5
    <3>7. ASSUME NEW x \in DOMAIN catch_list, x > f
          PROVE  ~Catches(catch_list[x].owner, pending)
      <4>1. x = c \/ x > c
        BY <1>8, <3>2, <3>3, <3>7
      <4> QED
        BY <1>5, <1>6, <1>8, <1>9, <2>2, <4>1
    <3> QED
      BY <3>2, <3>3, <3>6, <3>7
  <2>3. CASE ~IsCatch
    <3>1. f = c /\ Catch.owner # d
      BY <1>9, <1>13, <2>3
    <3>2. Catch.owner \in 1 .. d - 1
      BY <1>3, <1>5, <1>6, <1>10, <3>1
    <3>3. Catch.owner \in g .. e
      BY <1>5, <1>6, <1>8, <1>10, <1>12, <2>1, <3>2
    <3> QED
      BY <1>5, <1>6, <1>8, <3>1, <3>3
  <2> QED
    BY <2>2, <2>3
<1>15. PICK p : p = [chunk |-> k, d |-> e, catch |-> f]
  OBVIOUS
<1>16. p \in Positions /\ p.chunk = k /\ p.d = e /\ p.catch = f
  BY <1>7, <1>12, <1>14, <1>15 DEF Positions
<1>17. PICK b : b = [Top EXCEPT !.kept = p]
  OBVIOUS
<1>18. b \in ActivationType /\ b.fn = "throw" /\ b.m = Top.m /\ b.got = {} /\ b.pc = Top.pc /\ b.kept = p
  BY <1>1, <1>3, <1>4, <1>16, <1>17 DEF ActivationType
<1>19. calls' = [calls EXCEPT ![Depth] = b] /\ st' = st
  <2>1. CrawlNext(Top.kept) = [Top.kept EXCEPT !.d = e]
    BY <1>6, <1>7, <1>9, <1>11 DEF CrawlNext
  <2>2. CrawlNext(Top.kept).chunk = k /\ CrawlNext(Top.kept).d = e
    BY <1>5, <1>6, <2>1 DEF Positions
  <2>3. Position(CrawlNext(Top.kept), IF IsCatch THEN Top.kept.catch - 1 ELSE Top.kept.catch) = p
    BY <1>6, <1>13, <1>15, <2>2 DEF Position
  <2>4. calls' = [calls EXCEPT ![Depth].kept = p] /\ st' = st
    BY <2>3 DEF ThrowNext
  <2> QED
    BY <1>3, <1>17, <2>4
<1>20. /\ java_stack' = java_stack /\ catch_list' = catch_list /\ native_locals' = native_locals /\ held' = held
       /\ stack_limit' = stack_limit /\ pending' = pending /\ in_vmex' = in_vmex /\ jni_method' = jni_method
       /\ native' = native
  BY DEF ThrowNext, lists
<1>21. Becomes(b)
  BY <1>2, <1>18, <1>19, BecomesIf
<1>22. Depth' = Depth /\ Top' = b /\ \A x \in 1 .. Depth - 1 : calls'[x] = calls[x]
  BY <1>21 DEF Becomes, Top
<1>23. Alike /\ \A x : Still(x)
  <2>1. Alike
    BY <1>1, <1>2, <1>18, <1>21, BecomesAlike
  <2>2. \A x : x \in b.got <=> x \in Top.got
    BY <1>4, <1>18
  <2> QED
    BY <1>2, <1>21, <2>1, <2>2, BecomesStill
<1>24. Links'
  <2>1. Shape(b)
    BY <1>18, MayIs DEF Shape
  <2> QED
    BY <1>1, <1>2, <1>18, <1>21, <2>1, BecomesLinks
<1>25. TopIs'
  <2>1. native = FALSE
    BY <1>1, <1>2 DEF TopIs, TypeOK
  <2> QED
    BY <1>4, <1>18, <1>19, <1>20, <1>22, <2>1 DEF TopIs, Started
<1>26. Stacks'
  BY <1>1, <1>2, <1>18, <1>20, <1>21, <1>23, BecomesStacks
<1>27. Catchers' /\ NativeLocals' /\ Limits' /\ Posting' /\ Balance'
  <2>1. \A x \in Holders("catch") : calls'[x].pc = calls[x].pc
    <3>1. \A x \in Holders("catch") : x \in 1 .. Depth - 1
      BY <1>3, <1>4 DEF Holders
    <3> QED
      BY <1>22, <3>1
  <2> QED
    BY <1>2, <1>20, <1>23, <2>1, Parts, Rest
<1>28. JniMethods'
  BY <1>2, <1>20, <1>21, <1>23, Parts, BecomesNatives
<1>29. Searches'
  <2>1. e \in 1 .. Depth - 1 /\ e \in g .. Depth - 1
    BY <1>3, <1>5, <1>10, <1>12
  <2>2. Registered(e)'
    BY <1>12, <1>22, <2>1 DEF Registered
  <2>3. ASSUME NEW x \in DOMAIN catch_list', x > f
        PROVE  ~Catches(catch_list[x].owner, pending)'
    <3>1. PICK y : y = catch_list[x].owner
      OBVIOUS
    <3>2. y \in 1 .. Depth - 1
      <4>1. y \in 1 .. Depth /\ "catch" \in calls[y].got
        BY <1>2, <1>20, <2>3, <3>1, CatchOwners
      <4> QED
        BY <1>3, <1>4, <4>1
    <3>3. ~Catches(y, pending)
      BY <1>14, <1>20, <2>3, <3>1
    <3>4. calls'[y] = calls[y] /\ catch_list'[x].owner = y
      BY <1>20, <1>22, <3>1, <3>2
    <3> QED
      BY <1>20, <3>3, <3>4 DEF Catches
  <2>4. Search(p)'
    BY <1>7, <1>14, <1>16, <1>20, <1>22, <2>1, <2>2, <2>3 DEF Search
  <2> QED
    BY <1>4, <1>16, <1>18, <1>19, <1>22, <2>4 DEF Searches
<1>30. TypeOK'
  <2>1. calls' \in Seq(ActivationType) /\ calls' # <<>>
    BY <1>3, <1>21, EmptySeq DEF Becomes, Depth
  <2> QED
    BY <1>2, <1>19, <1>20, <2>1 DEF TypeOK
<1> QED
  BY <1>24, <1>25, <1>26, <1>27, <1>28, <1>29, <1>30, Together

\* What a longjmp leaves of the stack.
LEMMA StackCut ==
  ASSUME NEW q, NEW n, NEW O, NEW I, NEW H, NEW L, NEW M, StackIs(q, n, O, I, H, L, M), q # <<>>,
         NEW c \in 1 .. n, NEW g, g = q[Len(q)].owner, g <= c,
         \A d \in H \cup L \cup M : d <= c => d <= g,
         NEW J, \A x \in O : x \in I <=> x \in J,
         NEW P, P = {d \in H : d <= c},
         NEW Q \in SUBSET {d \in L : d <= c}, NEW N \in SUBSET {d \in M : d <= c}
  PROVE  StackIs(TopSet(q, 0), c, O, J, P, Q, N)
<1>1. /\ q \in Seq(ChunkType) /\ n \in Nat /\ O \in SUBSET (1 .. n) /\ c \in Nat
      /\ H \subseteq 1 .. n /\ L \subseteq 1 .. n /\ M \subseteq 1 .. n
      /\ Lists(OwnersOf(q), O) /\ \A k \in DOMAIN q : q[k].interp <=> q[k].owner \in I
  BY DEF StackIs
<1>2. PICK p : p = TopSet(q, 0)
  OBVIOUS
<1>3. /\ p \in Seq(ChunkType) /\ Len(p) = Len(q) /\ DOMAIN p = DOMAIN q
      /\ \A k \in DOMAIN q : k # Len(q) => p[k] = q[k]
      /\ \A k \in DOMAIN q : p[k].owner = q[k].owner /\ p[k].interp = q[k].interp
      /\ p[Len(q)].top = 0
  BY <1>1, <1>2, TopSetIs
<1>4. OwnersOf(p) = OwnersOf(q) /\ \A d : \A k \in DOMAIN q : LastBefore(p, k, d) <=> LastBefore(q, k, d)
  BY <1>1, <1>2, TopSetLists
<1>5. DOMAIN q = 1 .. Len(q) /\ Len(q) \in DOMAIN q /\ Len(q) \in Nat
      /\ \A k \in DOMAIN q : q[k].top \in Nat
  BY <1>1, ChunkIs
<1>6. /\ \A k \in DOMAIN q : q[k].owner \in O /\ q[k].owner \in 1 .. n
      /\ \A x \in O : x <= g
      /\ g \in 1 .. n
  BY <1>1, <1>5, OwnersAre
<1>7. \A k \in DOMAIN q : k # Len(q) => k + 1 \in DOMAIN q /\ k < Len(q) /\ q[k + 1].owner <= g
  BY <1>5, <1>6
<1>8. O \subseteq 1 .. c
  <2>1. ASSUME NEW x \in O
        PROVE  x \in 1 .. c
    <3>1. x \in 1 .. n /\ x <= g
      BY <1>1, <1>6
    <3> QED
      BY <1>1, <1>6, <3>1
  <2> QED
    BY <2>1
<1>9. P \subseteq 1 .. c /\ Q \subseteq 1 .. c /\ N \subseteq 1 .. c
  <2>1. \A d \in 1 .. n : d <= c => d \in 1 .. c
    BY <1>1
  <2> QED
    BY <1>1, <2>1
<1>10. \A k \in DOMAIN q : p[k].interp <=> p[k].owner \in J
  BY <1>1, <1>3, <1>6
<1>11. ASSUME NEW k \in DOMAIN q, NEW d \in 1 .. c, LastBefore(q, k, d)
       PROVE  d \in P <=> p[k].top = d - 1
  <2>1. d \in 1 .. n
    BY <1>1
  <2>2. CASE k = Len(q)
    <3>1. g < d /\ d <= c
      BY <1>11, <2>2 DEF LastBefore
    <3>2. d \notin P /\ d - 1 # 0
      BY <1>1, <1>6, <3>1
    <3> QED
      BY <1>3, <2>2, <3>2
  <2>3. CASE k # Len(q)
    <3>1. d \in H <=> q[k].top = d - 1
      BY <1>11, <2>1 DEF StackIs, ClipsIn
    <3> QED
      BY <1>3, <2>3, <3>1
  <2> QED
    BY <2>2, <2>3
<1>12. ASSUME NEW k \in DOMAIN q, p[k].top # 0
       PROVE  p[k].top < c /\ LastBefore(q, k, p[k].top + 1)
  <2>1. k # Len(q) /\ p[k] = q[k]
    BY <1>3, <1>12
  <2>2. LastBefore(q, k, q[k].top + 1)
    BY <1>12, <2>1 DEF StackIs, ClipsIn
  <2>3. q[k].top + 1 <= q[k + 1].owner /\ q[k + 1].owner \in 1 .. n /\ q[k + 1].owner <= g
    BY <1>6, <1>7, <2>1, <2>2 DEF LastBefore
  <2>4. q[k].top < c
    BY <1>1, <1>5, <1>6, <2>3
  <2> QED
    BY <2>1, <2>2, <2>4
<1>13. \A d \in P : \E k \in DOMAIN q : p[k].owner < d
  BY <1>3 DEF StackIs, ClipsIn
<1>14. ClipsIn(p, c, P)
  BY <1>3, <1>4, <1>11, <1>12, <1>13 DEF ClipsIn
<1>15. ASSUME NEW k \in DOMAIN q, NEW d \in 1 .. c, LastBefore(q, k, d), d \in Q \/ (d \in N /\ ~q[k].interp)
       PROVE  p[k].top # 0 /\ p[k].top < d
  <2>1. d \in 1 .. n /\ (d \in L \/ (d \in M /\ ~q[k].interp)) /\ d <= g
    BY <1>1, <1>15
  <2>2. k # Len(q)
    BY <1>1, <1>6, <1>15, <2>1 DEF LastBefore
  <2>3. q[k].top # 0 /\ q[k].top < d
    BY <1>15, <2>1 DEF StackIs, ClippedIn
  <2> QED
    BY <1>3, <2>2, <2>3
<1>16. ClippedIn(p, c, Q, N)
  BY <1>3, <1>4, <1>15 DEF ClippedIn
<1>17. Lists(OwnersOf(p), O)
  BY <1>1, <1>4
<1> QED
  BY <1>1, <1>2, <1>3, <1>8, <1>9, <1>10, <1>14, <1>16, <1>17 DEF StackIs

\* What a longjmp leaves of the activations: those up to the one that it goes to.
Cuts(c, b) ==
  /\ calls' \in Seq(ActivationType) /\ Depth' = c
  /\ \A d \in 1 .. c - 1 : calls'[d] = calls[d]
  /\ calls'[c] = b /\ b.fn = calls[c].fn /\ b.m = calls[c].m /\ b.got = calls[c].got /\ b.kept = calls[c].kept

\* The first ones of a sequence, and one replaced by itself.
LEMMA FirstOnes ==
  ASSUME NEW T, NEW q \in Seq(T), NEW n \in 1 .. Len(q)
  PROVE  SubSeq(q, 1, n) \in Seq(T) /\ Len(SubSeq(q, 1, n)) = n /\ \A k \in 1 .. n : SubSeq(q, 1, n)[k] = q[k]
<1>1. Len(q) \in Nat /\ \A k \in 1 .. Len(q) : q[k] \in T
  BY LenProperties, ElementOfSeq
<1>2. n \in Nat /\ 1 <= n /\ 1 \in Int /\ n \in Int /\ \A k \in 1 .. n : q[k] \in T
  BY <1>1
<1>3. /\ SubSeq(q, 1, n) \in Seq(T) /\ Len(SubSeq(q, 1, n)) = IF 1 <= n THEN n - 1 + 1 ELSE 0
      /\ \A k \in 1 .. n - 1 + 1 : SubSeq(q, 1, n)[k] = q[1 + k - 1]
  BY <1>2, SubSeqProperties
<1>4. n - 1 + 1 = n /\ \A k \in 1 .. n : 1 + k - 1 = k
  BY <1>2
<1> QED
  BY <1>2, <1>3, <1>4

LEMMA ExceptSame ==
  ASSUME NEW T, NEW q \in Seq(T), NEW i \in 1 .. Len(q), NEW r, r = q[i]
  PROVE  [q EXCEPT ![i] = r] = q
<1>1. r \in T
  BY ElementOfSeq
<1>2. /\ [q EXCEPT ![i] = r] \in Seq(T) /\ Len([q EXCEPT ![i] = r]) = Len(q)
      /\ \A j \in 1 .. Len(q) : [q EXCEPT ![i] = r][j] = IF j = i THEN r ELSE q[j]
  BY <1>1, ExceptSeq
<1>3. \A j \in 1 .. Len(q) : [q EXCEPT ![i] = r][j] = q[j]
  BY <1>2
<1> QED
  BY <1>2, <1>3, SeqEqual

\* When a longjmp cuts the stack, and what that leaves.
LEMMA CutsIf ==
  ASSUME TypeOK, NEW c \in 1 .. Depth, NEW b \in ActivationType, calls' = [SubSeq(calls, 1, c) EXCEPT ![c] = b],
         b.fn = calls[c].fn, b.m = calls[c].m, b.got = calls[c].got, b.kept = calls[c].kept
  PROVE  Cuts(c, b)
<1>1. Depth \in Nat /\ \A d \in 1 .. Depth : calls[d] \in ActivationType
  BY DepthIs
<1>2. PICK q : q = SubSeq(calls, 1, c)
  OBVIOUS
<1>3. q \in Seq(ActivationType) /\ Len(q) = c /\ \A d \in 1 .. c : q[d] = calls[d]
  BY <1>2, FirstOnes DEF TypeOK, Depth
<1>4. c \in 1 .. Len(q)
  BY <1>3
<1>5. /\ calls' \in Seq(ActivationType) /\ Len(calls') = Len(q)
      /\ \A d \in 1 .. Len(q) : calls'[d] = IF d = c THEN b ELSE q[d]
  <2>1. PICK r : r = [q EXCEPT ![c] = b]
    OBVIOUS
  <2>2. /\ r \in Seq(ActivationType) /\ Len(r) = Len(q)
        /\ \A d \in 1 .. Len(q) : r[d] = IF d = c THEN b ELSE q[d]
    BY <1>3, <1>4, <2>1, ExceptSeq
  <2>3. calls' = r
    BY <1>2, <2>1
  <2> QED
    BY <2>2, <2>3
<1>6. \A d \in 1 .. c - 1 : calls'[d] = calls[d]
  BY <1>3, <1>5
<1> QED
  BY <1>3, <1>4, <1>5, <1>6 DEF Cuts, Depth

LEMMA CutsAlike ==
  ASSUME TypeOK, NEW c \in 1 .. Depth, NEW b, Cuts(c, b)
  PROVE  /\ Alike /\ c \in Nat /\ \A d \in 1 .. Depth' : d \in 1 .. c /\ calls'[d].got = calls[d].got
         /\ \A x : Holders(x)' = {d \in Holders(x) : d <= c}
<1>1. Depth \in Nat
  BY DepthIs
<1>2. \A d \in 1 .. c : d = c \/ d \in 1 .. c - 1
  BY <1>1
<1>3. \A d \in 1 .. c : /\ calls'[d].fn = calls[d].fn /\ calls'[d].m = calls[d].m
                        /\ calls'[d].got = calls[d].got /\ calls'[d].kept = calls[d].kept
  BY <1>2 DEF Cuts
<1>4. Depth' = c /\ c \in Nat /\ c <= Depth
  BY <1>1 DEF Cuts
<1>5. Alike
  <2>1. \A d \in 1 .. Depth : d <= Depth' => d \in 1 .. c
    BY <1>1, <1>4
  <2> QED
    BY <1>1, <1>3, <1>4, <2>1 DEF Alike
<1>6. ASSUME NEW x
      PROVE  Holders(x)' = {d \in Holders(x) : d <= c}
  <2>1. \A d : d \in Holders(x)' <=> d \in 1 .. c /\ x \in calls[d].got
    BY <1>3, <1>4, HoldersAre
  <2>2. \A d : d \in Holders(x) <=> d \in 1 .. Depth /\ x \in calls[d].got
    BY HoldersAre
  <2>3. \A d : d \in 1 .. c <=> d \in 1 .. Depth /\ d <= c
    BY <1>1, <1>4
  <2> QED
    BY <2>1, <2>2, <2>3
<1> QED
  BY <1>3, <1>4, <1>5, <1>6

\* The chain of activations is whole up to where it is cut.
LEMMA CutsLinks ==
  ASSUME TypeOK, Links, NEW c \in 1 .. Depth, NEW b, Cuts(c, b), Shape(b), calls[c].fn # "native"
  PROVE  Links'
<1>1. Depth \in Nat /\ Depth' = c
  BY DepthIs DEF Cuts
<1>2. calls'[c] = b /\ b.fn = calls[c].fn /\ b.got = calls[c].got /\ \A d \in 1 .. c - 1 : calls'[d] = calls[d]
  BY DEF Cuts
<1>3. c # 1 /\ 1 \in 1 .. c - 1
  <2>1. c # 1
    BY DEF Links
  <2> QED
    BY <1>1, <2>1
<1>4. \A d \in 1 .. c : Shape(calls'[d])
  <2>1. ASSUME NEW d \in 1 .. c
        PROVE  Shape(calls'[d])
    <3>1. CASE d = c
      BY <1>2, <3>1
    <3>2. CASE d # c
      <4>1. d \in 1 .. c - 1 /\ d \in 1 .. Depth
        BY <1>1, <3>2
      <4> QED
        BY <1>2, <4>1 DEF Links
    <3> QED
      BY <3>1, <3>2
  <2> QED
    BY <2>1
<1>5. \A d \in 1 .. c - 1 : Waits(calls'[d], calls'[d + 1])
  <2>1. ASSUME NEW d \in 1 .. c - 1
        PROVE  Waits(calls'[d], calls'[d + 1])
    <3>1. Waits(calls[d], calls[d + 1]) /\ calls'[d] = calls[d]
      <4>1. d \in 1 .. Depth - 1
        BY <1>1
      <4> QED
        BY <1>2, <4>1 DEF Links
    <3>2. calls'[d + 1].fn = calls[d + 1].fn
      <4>1. d + 1 = c \/ d + 1 \in 1 .. c - 1
        BY <1>1
      <4> QED
        BY <1>2, <4>1
    <3> QED
      BY <3>1, <3>2 DEF Waits
  <2> QED
    BY <2>1
<1>6. calls'[1].fn = "native" /\ "frame" \in calls'[1].got
  BY <1>2, <1>3 DEF Links
<1>7. \A d \in 2 .. c : calls'[d].fn = "native" => calls'[d].got = {}
  <2>1. ASSUME NEW d \in 2 .. c, calls'[d].fn = "native"
        PROVE  calls'[d].got = {}
    <3>1. d # c
      BY <1>2, <2>1
    <3>2. d \in 1 .. c - 1 /\ d \in 2 .. Depth
      BY <1>1, <3>1
    <3> QED
      BY <1>2, <2>1, <3>2 DEF Links
  <2> QED
    BY <2>1
<1> QED
  BY <1>1, <1>4, <1>5, <1>6, <1>7 DEF Links

\* The catch list that is left is that of what is left.
LEMMA CutsCatch ==
  ASSUME TypeOK, Links, Catchers, NEW p \in DOMAIN catch_list, NEW c, c = catch_list[p].owner,
         NEW b, Cuts(c, b), b.pc \in Nat, b.pc = calls[c].pc \/ b.fn = "elf",
         catch_list' = [SubSeq(catch_list, 1, p) EXCEPT
                          ![p] = [catch_list[p] EXCEPT !.region = IF b.fn = "elf" THEN b.pc ELSE @]]
  PROVE  Catchers' /\ catch_list' \in Seq(CatchType)
<1>1. /\ catch_list \in Seq(CatchType) /\ DOMAIN catch_list = 1 .. Len(catch_list) /\ Len(catch_list) \in Nat
      /\ \A k \in DOMAIN catch_list : catch_list[k] \in CatchType /\ catch_list[k].owner \in 1 .. Depth
      /\ \A j, k \in DOMAIN catch_list : j < k => catch_list[j].owner < catch_list[k].owner
      /\ \A d \in Holders("catch") : \E k \in DOMAIN catch_list : catch_list[k].owner = d
      /\ \A k \in DOMAIN catch_list : catch_list[k].owner \in Holders("catch")
  BY CatchFacts
<1>2. c \in 1 .. Depth /\ p \in Nat /\ c \in Nat /\ Depth \in Nat
  BY <1>1, DepthIs
<1>3. PICK r : r = [catch_list[p] EXCEPT !.region = IF b.fn = "elf" THEN b.pc ELSE @]
  OBVIOUS
<1>4. PICK q : q = SubSeq(catch_list, 1, p)
  OBVIOUS
<1>5. /\ r \in CatchType /\ r.method = catch_list[p].method /\ r.owner = c
      /\ b.fn = "elf" => r.region = b.pc
  <2>1. catch_list[p] \in CatchType
    BY <1>1
  <2> QED
    BY <1>3, <2>1 DEF CatchType
<1>6. q \in Seq(CatchType) /\ Len(q) = p /\ \A k \in 1 .. p : q[k] = catch_list[k]
  <2>1. p \in 1 .. Len(catch_list)
    BY <1>1
  <2> QED
    BY <1>1, <1>4, <2>1, FirstOnes
<1>7. PICK l : l = [q EXCEPT ![p] = r]
  OBVIOUS
<1>8. catch_list' = l
  BY <1>3, <1>4, <1>7
<1>9. p \in 1 .. Len(q)
  BY <1>1, <1>6
<1>10. l \in Seq(CatchType) /\ Len(l) = p /\ \A k \in 1 .. p : l[k] = IF k = p THEN r ELSE catch_list[k]
  <2>1. /\ l \in Seq(CatchType) /\ Len(l) = Len(q)
        /\ \A k \in 1 .. Len(q) : l[k] = IF k = p THEN r ELSE q[k]
    BY <1>5, <1>6, <1>7, <1>9, ExceptSeq
  <2> QED
    BY <1>6, <2>1
<1>11. DOMAIN l = 1 .. p
  BY <1>10, LenProperties
<1>12. \A k \in 1 .. p : k \in DOMAIN catch_list /\ l[k].owner = catch_list[k].owner
                         /\ l[k].method = catch_list[k].method
  BY <1>1, <1>2, <1>5, <1>10
<1>13. \A k \in 1 .. p : k # p => catch_list[k].owner \in 1 .. c - 1
  <2>1. ASSUME NEW k \in 1 .. p, k # p
        PROVE  catch_list[k].owner \in 1 .. c - 1
    <3>1. k \in DOMAIN catch_list /\ k < p
      BY <1>2, <1>12, <2>1
    <3>2. catch_list[k].owner < c /\ catch_list[k].owner \in 1 .. Depth
      BY <1>1, <3>1
    <3> QED
      BY <1>2, <3>2
  <2> QED
    BY <2>1
<1>14. Alike /\ Holders("catch")' = {d \in Holders("catch") : d <= c}
  BY <1>2, CutsAlike
<1>15. Lists(OwnersOf(l), Holders("catch")')
  <2>1. DOMAIN l = 1 .. Len(l)
    BY <1>10, <1>11
  <2>2. \A k \in DOMAIN l : l[k].owner \in Holders("catch")'
    <3>1. \A k \in 1 .. p : catch_list[k].owner <= c
      BY <1>1, <1>2, <1>13
    <3> QED
      BY <1>1, <1>11, <1>12, <1>14, <3>1
  <2>3. \A x \in Holders("catch")' : \E k \in DOMAIN l : l[k].owner = x
    <3>1. ASSUME NEW x \in Holders("catch")'
          PROVE  \E k \in DOMAIN l : l[k].owner = x
      <4>1. PICK k \in DOMAIN catch_list : catch_list[k].owner = x /\ x <= c
        BY <1>1, <1>14
      <4>2. ~(p < k)
        BY <1>1, <1>2, <4>1
      <4>3. k \in 1 .. p
        BY <1>1, <1>2, <4>1, <4>2
      <4> QED
        BY <1>11, <1>12, <4>1, <4>3
    <3> QED
      BY <3>1
  <2>4. \A j, k \in DOMAIN l : j < k => l[j].owner < l[k].owner
    BY <1>1, <1>11, <1>12
  <2> QED
    BY <2>1, <2>2, <2>3, <2>4, ListsAre
<1>16. Lists(OwnersOf(catch_list), Holders("catch"))'
  <2>1. OwnersOf(catch_list)' = OwnersOf(l)
    BY <1>8 DEF OwnersOf
  <2> QED
    BY <1>15, <2>1 DEF Lists
<1>17. ASSUME NEW k \in DOMAIN catch_list', NEW x, x = calls'[catch_list'[k].owner]
       PROVE  /\ x.fn = "gate" => catch_list'[k].method = "invoke_method"
              /\ x.fn = "elf" => catch_list'[k].method = x.m /\ catch_list'[k].region = x.pc
  <2>0. k \in 1 .. p /\ x = calls'[l[k].owner] /\ catch_list'[k] = l[k]
    BY <1>8, <1>11, <1>17
  <2>1. CASE k = p
    <3>1. x = b /\ l[k] = r /\ b.fn = calls[c].fn /\ b.m = calls[c].m
      BY <1>5, <1>10, <2>0, <2>1 DEF Cuts
    <3>2. /\ calls[c].fn = "gate" => catch_list[p].method = "invoke_method"
          /\ calls[c].fn = "elf" => catch_list[p].method = calls[c].m
      BY DEF Catchers
    <3> QED
      BY <1>5, <2>0, <3>1, <3>2
  <2>2. CASE k # p
    <3>1. PICK d : d = catch_list[k].owner
      OBVIOUS
    <3>2. d \in 1 .. c - 1 /\ l[k] = catch_list[k] /\ k \in DOMAIN catch_list
      BY <1>10, <1>12, <1>13, <2>0, <2>2, <3>1
    <3>3. x = calls[d]
      BY <2>0, <3>1, <3>2 DEF Cuts
    <3> QED
      BY <2>0, <3>1, <3>2, <3>3 DEF Catchers
  <2> QED
    BY <2>1, <2>2
<1> QED
  <2>1. catch_list' \in Seq(CatchType)
    BY <1>8, <1>10
  <2>2. Catchers'
    BY <1>16, <1>17 DEF Catchers
  <2> QED
    BY <2>1, <2>2

LEMMA ThrowCaughtKeeps ==
  ASSUME ExecutionInv, ThrowCaught
  PROVE  ExecutionInv'
<1>1. Top.fn = "throw" /\ Caught
  BY DEF ThrowCaught
<1>2. TypeOK /\ Links /\ TopIs /\ Stacks /\ Catchers
  BY Parts
<1>3. st = "err" /\ Depth - 1 \in 1 .. Depth /\ Depth \in Nat \ {0}
  BY <1>1, <1>2, SearchIs, DepthIs
<1>4. PICK g \in 1 .. Depth : /\ Stretch(g, Depth - 1)
                              /\ Top.kept.chunk = Len(java_stack) /\ java_stack[Len(java_stack)].owner = g
                              /\ Top.kept.d \in g .. Depth - 1
                              /\ Top.kept.catch \in DOMAIN catch_list /\ Catch.owner \in g .. Top.kept.d
  BY <1>1, SearchIs
<1>5. PICK p \in DOMAIN catch_list : p = Top.kept.catch /\ Catch = catch_list[p]
  BY <1>4 DEF Catch
<1>6. PICK c \in 1 .. Depth : c = Catch.owner /\ g <= c /\ c < Depth
  <2>1. Catch.owner \in 1 .. Depth /\ g <= Catch.owner /\ Catch.owner < Depth
    BY <1>3, <1>4
  <2> QED
    BY <2>1
<1>7. calls[c] \in ActivationType /\ Shape(calls[c]) /\ "catch" \in calls[c].got
      /\ calls[c].fn \in {"elf", "gate"} /\ (Catch.method = "invoke_method" <=> calls[c].fn = "gate")
      /\ (calls[c].fn = "elf" => Catch.method \in Methods /\ Catch.method = calls[c].m)
  BY <1>2, <1>5, <1>6, CatchOwners, DepthIs DEF Links
<1>8. /\ native_locals' = native_locals /\ held' = held /\ stack_limit' = stack_limit /\ in_vmex' = in_vmex
      /\ jni_method' = jni_method /\ native' = native
  BY DEF ThrowCaught
<1>9. PICK b \in ActivationType :
        /\ Cuts(c, b) /\ b.fn = calls[c].fn /\ b.m = calls[c].m /\ b.got = calls[c].got
        /\ b.pc = calls[c].pc \/ b.fn = "elf"
        /\ catch_list' = [SubSeq(catch_list, 1, p) EXCEPT
                            ![p] = [catch_list[p] EXCEPT !.region = IF b.fn = "elf" THEN b.pc ELSE @]]
        /\ IF b.fn = "elf" THEN st' = "run" /\ pending' = None ELSE st' = st /\ pending' = pending
  <2>1. SubSeq(calls, 1, c)[c] = calls[c] /\ SubSeq(calls, 1, c) \in Seq(ActivationType)
        /\ Len(SubSeq(calls, 1, c)) = c
    <3>1. calls \in Seq(ActivationType) /\ c \in 1 .. Len(calls) /\ c \in 1 .. c
      BY <1>2, <1>3 DEF TypeOK, Depth
    <3> QED
      BY <3>1, FirstOnes
  <2>2. SubSeq(catch_list, 1, p)[p] = catch_list[p] /\ SubSeq(catch_list, 1, p) \in Seq(CatchType)
        /\ Len(SubSeq(catch_list, 1, p)) = p /\ catch_list[p] \in CatchType
    <3>1. catch_list \in Seq(CatchType) /\ p \in 1 .. Len(catch_list) /\ p \in 1 .. p /\ catch_list[p] \in CatchType
      <4>1. DOMAIN catch_list = 1 .. Len(catch_list) /\ Len(catch_list) \in Nat
        BY <1>2, CatchFacts
      <4>2. p \in 1 .. Len(catch_list) /\ p \in 1 .. p
        BY <4>1
      <4> QED
        BY <1>2, <4>2, CatchFacts
    <3> QED
      BY <3>1, FirstOnes
  <2>3. CASE Catch.method = "invoke_method"
    <3>1. calls' = SubSeq(calls, 1, c) /\ catch_list' = SubSeq(catch_list, 1, p) /\ st' = st /\ pending' = pending
      BY <1>5, <1>6, <2>3 DEF ThrowCaught
    <3>2. calls[c].fn = "gate"
      BY <1>7, <2>3
    <3>3. calls' = [SubSeq(calls, 1, c) EXCEPT ![c] = calls[c]]
      <4>1. c \in 1 .. Len(SubSeq(calls, 1, c))
        BY <1>3, <2>1
      <4> QED
        BY <2>1, <3>1, <4>1, ExceptSame
    <3>4. Cuts(c, calls[c])
      BY <1>2, <1>7, <3>3, CutsIf
    <3>5. PICK b : b = calls[c]
      OBVIOUS
    <3>6. catch_list[p] = [catch_list[p] EXCEPT !.region = IF b.fn = "elf" THEN b.pc ELSE @]
      BY <2>2, <3>2, <3>5 DEF CatchType
    <3>7. catch_list' = [SubSeq(catch_list, 1, p) EXCEPT
                            ![p] = [catch_list[p] EXCEPT !.region = IF b.fn = "elf" THEN b.pc ELSE @]]
      <4>1. p \in 1 .. Len(SubSeq(catch_list, 1, p))
        <5>1. p \in 1 .. p
          BY <1>2, CatchFacts
        <5> QED
          BY <2>2, <5>1
      <4>2. [SubSeq(catch_list, 1, p) EXCEPT ![p] = catch_list[p]] = SubSeq(catch_list, 1, p)
        BY <2>2, <4>1, ExceptSame
      <4> QED
        BY <3>1, <3>6, <4>2
    <3> QED
      BY <1>7, <3>1, <3>2, <3>4, <3>5, <3>7
  <2>4. CASE Catch.method # "invoke_method"
    <3>1. PICK t : t = Traps[Catch.method][Min(TrapsFor)].target
      OBVIOUS
    <3>2. calls[c].fn = "elf" /\ Catch.method \in Methods
      BY <1>7, <2>4
    <3>3. /\ calls' = [SubSeq(calls, 1, c) EXCEPT ![c].pc = t] /\ st' = "run" /\ pending' = None
          /\ catch_list' = SetRegion(SubSeq(catch_list, 1, p), TRUE, t)
      BY <1>5, <1>6, <2>4, <3>1 DEF ThrowCaught
    <3>4. t \in Nat
      <4>1. TrapsFor # {} /\ TrapsFor \in SUBSET DOMAIN Traps[Catch.method]
        BY <1>1, <2>4 DEF Caught, TrapsFor, Matching
      <4>2. DOMAIN Traps[Catch.method] \in SUBSET Nat
        BY <3>2, <4>1, TrapIs
      <4>3. Min(TrapsFor) \in DOMAIN Traps[Catch.method]
        BY <4>1, <4>2, MinIs
      <4> QED
        BY <3>1, <3>2, <4>3, TrapIs
    <3>5. PICK b : b = [calls[c] EXCEPT !.pc = t]
      OBVIOUS
    <3>6. b \in ActivationType /\ b.fn = "elf" /\ b.m = calls[c].m /\ b.got = calls[c].got
          /\ b.kept = calls[c].kept /\ b.pc = t
      BY <1>7, <3>2, <3>4, <3>5 DEF ActivationType
    <3>7. calls' = [SubSeq(calls, 1, c) EXCEPT ![c] = b]
      BY <2>1, <3>3, <3>5
    <3>8. Cuts(c, b)
      BY <1>2, <3>2, <3>6, <3>7, CutsIf
    <3>9. catch_list' = [SubSeq(catch_list, 1, p) EXCEPT ![p] = [catch_list[p] EXCEPT !.region = t]]
      BY <2>2, <3>3 DEF SetRegion
    <3>10. catch_list' = [SubSeq(catch_list, 1, p) EXCEPT
                            ![p] = [catch_list[p] EXCEPT !.region = IF b.fn = "elf" THEN b.pc ELSE @]]
      BY <3>6, <3>9
    <3> QED
      BY <3>2, <3>3, <3>6, <3>8, <3>10
  <2> QED
    BY <2>3, <2>4
<1>10. Alike /\ c \in Nat /\ (\A d \in 1 .. Depth' : d \in 1 .. c /\ calls'[d].got = calls[d].got)
       /\ (\A x : Holders(x)' = {d \in Holders(x) : d <= c}) /\ Depth' = c /\ Top' = b
  BY <1>2, <1>9, CutsAlike DEF Cuts, Top
<1>11. ASSUME NEW d \in 1 .. Depth, d > g
       PROVE  /\ calls[d].fn \in {"elf", "vinterp", "vnative", "jcni", "throw"}
              /\ calls[d].got \subseteq {"catch", "clip"}
              /\ d <= c => calls[d].fn = "elf" /\ "clip" \notin calls[d].got
  <2>1. g < d /\ d \in Nat
    BY <1>3, <1>11
  <2>2. /\ calls[d].fn \in {"elf", "vinterp", "vnative", "jcni", "throw"}
        /\ d < Depth - 1 => calls[d].fn = "elf"
        /\ d > Depth - 1 => d = Depth /\ calls[d].fn = "throw"
        /\ calls[d].got \subseteq {"catch", "clip"}
        /\ "clip" \in calls[d].got => d = Depth - 1 /\ calls[d].fn = "vinterp"
    BY <1>2, <1>4, <2>1, StretchHas
  <2>3. ASSUME d <= c
        PROVE  calls[d].fn = "elf"
    <3>1. CASE d = c
      <4>1. calls[g].fn = "gate"
        BY <1>4 DEF Stretch, Base
      <4>2. "catch" \in calls[d].got /\ calls[d].fn \in {"elf", "gate"}
        BY <1>7, <3>1
      <4> QED
        BY <2>2, <4>2
    <3>2. CASE d # c
      <4>1. d < Depth - 1
        BY <1>3, <1>6, <2>1, <2>3, <3>2
      <4> QED
        BY <2>2, <4>1
    <3> QED
      BY <3>1, <3>2
  <2> QED
    BY <2>2, <2>3
<1>12. ASSUME NEW x \in {"frame", "limit", "vmex", "lock", "chunk"}
       PROVE  Still(x)
  <2>1. \A d \in Holders(x) : d <= c
    <3>1. ASSUME NEW d \in Holders(x)
          PROVE  d <= c
      <4>1. d \in 1 .. Depth /\ x \in calls[d].got
        BY HoldersAre
      <4>2. ~(d > g)
        BY <1>11, <4>1
      <4> QED
        BY <1>3, <1>6, <4>1, <4>2
    <3> QED
      BY <3>1
  <2>2. Holders(x)' = {d \in Holders(x) : d <= c}
    BY <1>10
  <2> QED
    BY <2>1, <2>2 DEF Still
<1>13. Shape(b)
  BY <1>7, <1>9 DEF Shape
<1>14. Links'
  BY <1>2, <1>7, <1>9, <1>13, CutsLinks
<1>15. TopIs'
  <2>1. native = FALSE
    BY <1>1, <1>2 DEF TopIs, TypeOK
  <2> QED
    BY <1>3, <1>7, <1>8, <1>9, <1>10, <2>1 DEF TopIs, Started, Underway
<1>16. Stacks' /\ java_stack' \in Seq(ChunkType)
  <2>1. StackIs(java_stack, Depth, Holders("chunk"), Interps, Holders("clip"), Leading, Interpreting)
    BY <1>2, StackNow
  <2>2. java_stack # <<>>
    BY <1>2, <1>4, StretchTop
  <2>3. java_stack' = TopSet(java_stack, 0)
    <3>1. SubSeq(java_stack, 1, Len(java_stack)) = java_stack
      BY <1>2, SubSeqFull DEF TypeOK
    <3> QED
      BY <1>4, <3>1 DEF ThrowCaught, TopSet
  <2>4. \A d \in Holders("clip") \cup Leading \cup Interpreting : d <= c => d <= g
    <3>1. ASSUME NEW d \in Holders("clip") \cup Leading \cup Interpreting, d <= c
          PROVE  d <= g
      <4>1. d \in 1 .. Depth
        BY DEF Holders, Leading, Interpreting
      <4>2. "clip" \in calls[d].got \/ calls[d].fn \in {"gate", "jni_a", "vinterp"}
        BY HoldersAre DEF Leading, Interpreting
      <4>3. ~(d > g)
        BY <1>11, <3>1, <4>1, <4>2
      <4> QED
        BY <1>3, <4>1, <4>3
    <3> QED
      BY <3>1
  <2>5. \A d \in 1 .. Depth' : /\ d \in 1 .. Depth /\ d <= c
                                /\ calls'[d].fn = calls[d].fn /\ calls'[d].got = calls[d].got
    <3>1. \A d \in 1 .. Depth' : d \in 1 .. Depth /\ d <= Depth'
      BY <1>3, <1>6, <1>10
    <3> QED
      BY <1>10, <3>1 DEF Alike
  <2>6. \A d \in 1 .. Depth' : d < Depth' => d < Depth /\ d + 1 \in 1 .. Depth'
    BY <1>3, <1>6, <1>10
  <2>7. Leading' \in SUBSET {d \in Leading : d <= c}
    BY <2>5, <2>6 DEF Leading
  <2>8. Interpreting' \in SUBSET {d \in Interpreting : d <= c}
    BY <2>5, <2>6 DEF Interpreting
  <2>9. \A x \in Holders("chunk") : x \in Interps <=> x \in Interps'
    <3>1. ASSUME NEW x \in Holders("chunk")
          PROVE  x \in 1 .. Depth /\ x \in 1 .. Depth'
      <4>1. x \in Holders("chunk")'
        BY <1>12 DEF Still
      <4> QED
        BY <4>1, HoldersAre
    <3>2. \A d : d \in Interps' <=> d \in 1 .. Depth' /\ calls'[d].fn = "interp"
      BY DEF Interps
    <3> QED
      BY <2>5, <3>1, <3>2 DEF Interps
  <2>10. Holders("clip")' = {d \in Holders("clip") : d <= c} /\ Holders("chunk")' = Holders("chunk")
    BY <1>10, <1>12 DEF Still
  <2>11. StackIs(TopSet(java_stack, 0), c, Holders("chunk"), Interps', Holders("clip")', Leading', Interpreting')
    BY <1>4, <1>6, <2>1, <2>2, <2>4, <2>7, <2>8, <2>9, <2>10, StackCut
  <2>12. StackIs(java_stack', Depth', Holders("chunk")', Interps', Holders("clip")', Leading', Interpreting')
    BY <1>10, <2>3, <2>10, <2>11
  <2> QED
    BY <2>12, StackThen DEF StackIs
<1>17. NativeLocals' /\ Limits' /\ Posting' /\ Balance'
  BY <1>2, <1>8, <1>10, <1>12, Parts, Rest
<1>18. Catchers' /\ catch_list' \in Seq(CatchType)
  <2>1. b.pc \in Nat
    BY <1>9, ActivationIs
  <2> QED
    BY <1>2, <1>5, <1>6, <1>9, <2>1, CutsCatch
<1>19. JniMethods'
  <2>1. \A d \in 1 .. Depth : calls[d].fn = "native" => d <= Depth'
    <3>1. ASSUME NEW d \in 1 .. Depth, calls[d].fn = "native"
          PROVE  d <= Depth'
      <4>1. ~(d > g)
        BY <1>11, <3>1
      <4> QED
        BY <1>3, <1>6, <1>10, <4>1
    <3> QED
      BY <3>1
  <2>2. \A d \in 1 .. Depth' : d > Depth => calls'[d].fn # "native"
    BY <1>3, <1>6, <1>10
  <2> QED
    BY <1>2, <1>8, <1>10, <2>1, <2>2, Parts, NativesKept
<1>20. Searches'
  BY <1>7, <1>9, <1>10 DEF Searches
<1>21. TypeOK'
  <2>1. calls' \in Seq(ActivationType) /\ calls' # <<>>
    <3>1. Len(calls') # 0 /\ calls' \in Seq(ActivationType)
      BY <1>9, <1>10 DEF Cuts, Depth
    <3> QED
      BY <3>1, EmptySeq
  <2>2. st' \in {"enter", "run", "ok", "err"} /\ pending' \in Exceptions \cup {None}
    BY <1>2, <1>9 DEF TypeOK
  <2> QED
    BY <1>2, <1>8, <1>16, <1>18, <2>1, <2>2 DEF TypeOK
<1> QED
  BY <1>14, <1>15, <1>16, <1>17, <1>18, <1>19, <1>20, <1>21, Together

-----------------------------------------------------------------------------
(* The invariant *)

\* The initial states have the invariant.
LEMMA InitHas == ExecutionInit => ExecutionInv
<1> SUFFICES ASSUME ExecutionInit PROVE ExecutionInv
  OBVIOUS
<1>1. PICK a : a = [fn |-> "native", m |-> None, pc |-> 0, got |-> {"frame"}, kept |-> None]
  OBVIOUS
<1>2. calls = <<a>> /\ st = "run" /\ java_stack = <<>> /\ catch_list = <<>> /\ native_locals = <<1>>
      /\ stack_limit = 0 /\ pending = None /\ in_vmex = {} /\ jni_method = None /\ native = TRUE
      /\ held = [m \in Methods |-> 0]
  <2>1. [Activation("native", None) EXCEPT !.got = {"frame"}] = a
    BY <1>1 DEF Activation
  <2> QED
    BY <2>1 DEF ExecutionInit
<1>3. /\ a \in ActivationType /\ a.fn = "native" /\ a.m = None /\ a.got = {"frame"}
  BY <1>1 DEF ActivationType, Functions, Things
<1>4. Depth = 1 /\ calls[1] = a /\ Top = a /\ 1 .. Depth = {1}
  BY <1>2 DEF Depth, Top
<1>5. \A x, d : d \in Holders(x) <=> d = 1 /\ x = "frame"
  BY <1>3, <1>4 DEF Holders
<1>6. Holders("frame") = {1} /\ Holders("chunk") = {} /\ Holders("catch") = {} /\ Holders("lock") = {}
      /\ Holders("clip") = {} /\ Holders("limit") = {} /\ Holders("vmex") = {}
  BY <1>5
<1>7. TypeOK
  <2>1. calls \in Seq(ActivationType) /\ calls # <<>>
    BY <1>2, <1>3
  <2> QED
    BY <1>2, <2>1 DEF TypeOK
<1>8. Links
  <2>1. Shape(a)
    BY <1>3, MayIs DEF Shape
  <2>2. \A d \in 1 .. Depth - 1 : FALSE
    BY <1>4
  <2>3. \A d \in 2 .. Depth : FALSE
    BY <1>4
  <2> QED
    BY <1>3, <1>4, <2>1, <2>2, <2>3 DEF Links
<1>9. TopIs
  BY <1>2, <1>3, <1>4 DEF TopIs, Underway
<1>10. Chunks /\ Clips /\ Clipped
  <2>1. DOMAIN java_stack = {} /\ Len(java_stack) = 0 /\ DOMAIN java_stack = 1 .. Len(java_stack)
    BY <1>2
  <2>2. Lists(OwnersOf(java_stack), Holders("chunk"))
    BY <1>6, <2>1, ListsAre
  <2> QED
    BY <1>6, <2>1, <2>2 DEF Chunks, Clips, ClipsIn, Clipped, ClippedIn
<1>11. Catchers
  <2>1. DOMAIN catch_list = {} /\ Len(catch_list) = 0 /\ DOMAIN catch_list = 1 .. Len(catch_list)
    BY <1>2
  <2>2. Lists(OwnersOf(catch_list), Holders("catch"))
    BY <1>6, <2>1, ListsAre
  <2> QED
    BY <2>1, <2>2 DEF Catchers
<1>12. NativeLocals
  <2>1. DOMAIN native_locals = {1} /\ native_locals[1] = 1
    BY <1>2
  <2>2. Range(native_locals) = {1}
    BY <2>1 DEF Range
  <2> QED
    BY <1>6, <2>1, <2>2 DEF NativeLocals, Lists
<1>13. Limits /\ Posting
  BY <1>2, <1>6 DEF Limits, Posting
<1>14. JniMethods
  <2>1. \A d \in 1 .. Depth : d = 1
    BY <1>4
  <2> QED
    BY <1>2, <1>3, <1>4, <2>1 DEF JniMethods
<1>15. Balance
  <2>1. \A m \in Methods : {d \in Holders("lock") : calls[d].m = m} = {}
    BY <1>6
  <2> QED
    BY <1>2, <2>1, FS_EmptySet DEF Balance
<1>16. Searches
  BY <1>3, <1>4 DEF Searches
<1> QED
  BY <1>7, <1>8, <1>9, <1>10, <1>11, <1>12, <1>13, <1>14, <1>15, <1>16 DEF ExecutionInv

\* Every step keeps it, and so does one that changes nothing.
LEMMA NextKeeps ==
  ASSUME LockFailuresLeave, ExecutionInv, ExecutionNext
  PROVE  ExecutionInv'
<1>1. CASE PostAgain \/ PostNew \/ PostDone
  BY <1>1, PostAgainKeeps, PostNewKeeps, PostDoneKeeps
<1>2. CASE InterpOverflow \/ InterpEnter \/ InterpCall \/ InterpException \/ InterpNoFrame \/ InterpReturn
  BY <1>2, InterpOverflowKeeps, InterpEnterKeeps, InterpCallKeeps, InterpExceptionKeeps, InterpNoFrameKeeps,
     InterpReturnKeeps
<1>3. CASE NextInsn \/ ElfEnter \/ ElfCall \/ ElfReturn \/ JavaThrows
  BY <1>3, NextInsnKeeps, ElfEnterKeeps, ElfCallKeeps, ElfReturnKeeps, JavaThrowsKeeps
<1>4. CASE Throw \/ ThrowNext \/ ThrowCaught
  BY <1>4, ThrowKeeps, ThrowNextKeeps, ThrowCaughtKeeps
<1>5. CASE GateEnter \/ GateNull \/ GateDone
  BY <1>5, GateEnterKeeps, GateNullKeeps, GateDoneKeeps
<1>6. CASE VinterpEnter \/ VinterpDone \/ VnativeEnter \/ VnativeDone
  BY <1>6, VinterpEnterKeeps, VinterpDoneKeeps, VnativeEnterKeeps, VnativeDoneKeeps
<1>7. CASE JniEnter \/ NativeReturn \/ JniDone \/ NativeThrows \/ NativeClears
  BY <1>7, JniEnterKeeps, NativeReturnKeeps, JniDoneKeeps, NativeThrowsKeeps
<1>8. CASE NativeCall \/ CallEnter \/ CallDone \/ JcniCall \/ JcniEnter \/ JcniReturn
  BY <1>8, NativeCallKeeps, CallEnterKeeps, CallDoneKeeps, JcniCallKeeps, JcniEnterKeeps, JcniReturnKeeps
<1> QED
  BY <1>1, <1>2, <1>3, <1>4, <1>5, <1>6, <1>7, <1>8 DEF ExecutionNext

LEMMA SameKeeps ==
  ASSUME ExecutionInv, UNCHANGED execvars
  PROVE  ExecutionInv'
<1>1. calls' = calls /\ st' = st /\ java_stack' = java_stack /\ catch_list' = catch_list
      /\ native_locals' = native_locals /\ stack_limit' = stack_limit /\ pending' = pending
      /\ in_vmex' = in_vmex /\ jni_method' = jni_method /\ native' = native /\ held' = held
  BY DEF execvars, lists
<1>2. Depth' = Depth /\ Top' = Top
  BY <1>1 DEF Depth, Top
<1>3. \A x : Holders(x)' = Holders(x)
  BY <1>1, <1>2 DEF Holders
<1>4. TypeOK'
  BY <1>1 DEF ExecutionInv, TypeOK
<1>5. Links' /\ TopIs'
  BY <1>1, <1>2 DEF ExecutionInv, Links, TopIs
<1>6. Chunks'
  BY <1>1, <1>3 DEF ExecutionInv, Chunks, OwnersOf
<1>7. Catchers'
  BY <1>1, <1>3 DEF ExecutionInv, Catchers, OwnersOf
<1>8. NativeLocals' /\ Limits' /\ Posting'
  BY <1>1, <1>3 DEF ExecutionInv, NativeLocals, Limits, Posting
<1>9. Clips'
  BY <1>1, <1>2, <1>3 DEF ExecutionInv, Clips
<1>10. Clipped'
  BY <1>1, <1>2 DEF ExecutionInv, Clipped, Leading, Interpreting
<1>11. JniMethods'
  BY <1>1, <1>2 DEF ExecutionInv, JniMethods, LastNative
<1>12. Balance'
  BY <1>1, <1>3 DEF ExecutionInv, Balance
<1>13. Searches'
  <2>1. ASSUME NEW d
        PROVE  Registered(d)' = Registered(d) /\ Catches(d, pending)' = Catches(d, pending)
    BY <1>1 DEF Registered, Catches
  <2>2. ASSUME NEW p
        PROVE  Search(p)' = Search(p)
    BY <1>1, <1>2, <2>1 DEF Search
  <2> QED
    BY <1>1, <1>2, <2>2 DEF ExecutionInv, Searches
<1> QED
  BY <1>4, <1>5, <1>6, <1>7, <1>8, <1>9, <1>10, <1>11, <1>12, <1>13 DEF ExecutionInv

\* The inductive invariant holds, if no interpreted method has a trap over its first
\* instruction and may fail to take its monitor.
THEOREM Invariance == (LockFailuresLeave /\ ExecutionSpec) => []ExecutionInv
<1> SUFFICES ASSUME LockFailuresLeave
             PROVE  ExecutionSpec => []ExecutionInv
  OBVIOUS
<1>1. ExecutionInit => ExecutionInv
  BY InitHas
<1>2. ExecutionInv /\ [ExecutionNext]_execvars => ExecutionInv'
  BY NextKeeps, SameKeeps
<1> QED
  BY <1>1, <1>2, PTL DEF ExecutionSpec

-----------------------------------------------------------------------------
(* The monitors *)

\* MonitorsBalanced follows from the invariant.
LEMMA BalancedThen ==
  ASSUME ExecutionInv
  PROVE  MonitorsBalanced
<1>1. TypeOK /\ Links /\ TopIs /\ Balance
  BY Parts
<1>2. Depth \in Nat /\ Top = calls[Depth]
  BY <1>1, DepthIs DEF Top
<1>3. ASSUME NEW d \in 1 .. Depth, calls[d].fn = "interp", calls[d].m \in Synchronized,
             IF d = Depth THEN st = "run" ELSE calls[d + 1].fn # "post"
      PROVE  "lock" \in calls[d].got
  <2>1. CASE d = Depth
    BY <1>1, <1>2, <1>3, <2>1 DEF TopIs, Underway
  <2>2. CASE d # Depth
    <3>1. d \in 1 .. Depth - 1
      BY <1>2, <2>2
    <3>2. Waits(calls[d], calls[d + 1])
      BY <1>1, <3>1 DEF Links
    <3>3. calls[d + 1].fn # "throw"
      BY <1>3, <3>2, CalleesAre DEF Waits
    <3> QED
      BY <1>3, <2>2, <3>2, <3>3 DEF Waits, Underway
  <2> QED
    BY <2>1, <2>2
<1> QED
  BY <1>1, <1>3 DEF MonitorsBalanced, Balance

-----------------------------------------------------------------------------
(* The crawl of the Java stack *)

\* The activations that a chunk stands for: those from its owner to the next one's.
Part(k, d) == java_stack[k].owner <= d /\ (k < Len(java_stack) => d < java_stack[k + 1].owner)

\* What the invariant says of the Java stack.
LEMMA StackFacts ==
  ASSUME TypeOK, Stacks
  PROVE  /\ java_stack \in Seq(ChunkType) /\ Depth \in Nat /\ Len(java_stack) \in Nat
         /\ DOMAIN java_stack = 1 .. Len(java_stack)
         /\ \A k \in DOMAIN java_stack :
              /\ java_stack[k].owner \in 1 .. Depth /\ "chunk" \in calls[java_stack[k].owner].got
              /\ java_stack[k].top \in Nat /\ java_stack[k].interp \in BOOLEAN
              /\ java_stack[k].interp <=> calls[java_stack[k].owner].fn = "interp"
         /\ \A d \in 1 .. Depth : "chunk" \in calls[d].got => \E k \in DOMAIN java_stack : java_stack[k].owner = d
         /\ \A j, k \in DOMAIN java_stack : j < k => java_stack[j].owner < java_stack[k].owner
<1>1. StackIs(java_stack, Depth, Holders("chunk"), Interps, Holders("clip"), Leading, Interpreting)
  BY StackNow
<1>2. /\ java_stack \in Seq(ChunkType) /\ Holders("chunk") \in SUBSET (1 .. Depth) /\ Depth \in Nat
      /\ Lists(OwnersOf(java_stack), Holders("chunk"))
      /\ \A k \in DOMAIN java_stack : java_stack[k].interp <=> java_stack[k].owner \in Interps
  BY <1>1 DEF StackIs
<1>3. ASSUME NEW k \in DOMAIN java_stack
      PROVE  /\ java_stack[k].owner \in 1 .. Depth /\ "chunk" \in calls[java_stack[k].owner].got
             /\ java_stack[k].top \in Nat /\ java_stack[k].interp \in BOOLEAN
             /\ java_stack[k].interp <=> calls[java_stack[k].owner].fn = "interp"
  <2>1. java_stack[k].owner \in Holders("chunk") /\ java_stack[k].owner \in 1 .. Depth
    BY <1>2, <1>3, OwnersAre
  <2>2. java_stack[k].top \in Nat /\ java_stack[k].interp \in BOOLEAN
    BY <1>2, <1>3, ChunkIs
  <2>3. "chunk" \in calls[java_stack[k].owner].got
    BY <2>1, HoldersAre
  <2>4. java_stack[k].owner \in Interps <=> calls[java_stack[k].owner].fn = "interp"
    BY <2>1 DEF Interps
  <2> QED
    BY <1>2, <1>3, <2>1, <2>2, <2>3, <2>4
<1>4. ASSUME NEW d \in 1 .. Depth, "chunk" \in calls[d].got
      PROVE  \E k \in DOMAIN java_stack : java_stack[k].owner = d
  <2>1. d \in Holders("chunk")
    BY <1>4, HoldersAre
  <2> QED
    BY <1>2, <2>1, OwnersAre
<1>5. \A j, k \in DOMAIN java_stack : j < k => java_stack[j].owner < java_stack[k].owner
  BY <1>2, OwnersAre
<1> QED
  BY <1>2, <1>3, <1>4, <1>5, ChunkIs

\* No chunk begins inside the activations of another.
LEMMA PartOwner ==
  ASSUME TypeOK, Stacks, NEW k \in DOMAIN java_stack, NEW d \in 1 .. Depth, Part(k, d), "chunk" \in calls[d].got
  PROVE  d = java_stack[k].owner
<1>1. PICK j \in DOMAIN java_stack : java_stack[j].owner = d
  BY StackFacts
<1>2. j \in 1 .. Len(java_stack) /\ k \in 1 .. Len(java_stack) /\ Len(java_stack) \in Nat /\ Depth \in Nat
  BY StackFacts
<1>3. ~(j < k)
  <2>1. j < k => java_stack[j].owner < java_stack[k].owner
    BY StackFacts
  <2>2. java_stack[j].owner \in 1 .. Depth /\ java_stack[k].owner \in 1 .. Depth
    BY StackFacts
  <2> QED
    BY <1>1, <1>2, <2>1, <2>2 DEF Part
<1>4. ~(k < j)
  <2>1. ASSUME k < j
        PROVE  FALSE
    <3>1. k < Len(java_stack) /\ k + 1 \in DOMAIN java_stack /\ k + 1 <= j
      BY <1>2, <2>1, StackFacts
    <3>2. java_stack[k + 1].owner \in 1 .. Depth /\ java_stack[j].owner \in 1 .. Depth
      BY <3>1, StackFacts
    <3>3. k + 1 # j => java_stack[k + 1].owner < java_stack[j].owner
      BY <1>2, <3>1, StackFacts
    <3> QED
      BY <1>1, <1>2, <3>1, <3>2, <3>3 DEF Part
  <2> QED
    BY <2>1
<1> QED
  BY <1>1, <1>2, <1>3, <1>4

\* A compiled method runs in the stretch of its gateway, whose chunk it is in.
LEMMA PartElf ==
  ASSUME TypeOK, Links, Stacks, NEW k \in DOMAIN java_stack, NEW d \in 1 .. Depth, Part(k, d),
         calls[d].fn = "elf"
  PROVE  /\ java_stack[k].owner < d /\ calls[java_stack[k].owner].fn = "gate"
         /\ \A e \in 1 .. Depth : java_stack[k].owner < e /\ e <= d => calls[e].fn = "elf"
<1>1. PICK g \in 1 .. Depth : Base(g, d)
  BY BaseIs DEF Thrower
<1>2. /\ g < d /\ calls[g].fn = "gate" /\ "chunk" \in calls[g].got
      /\ \A e \in 1 .. Depth : g < e /\ e < d => calls[e].fn = "elf"
  BY <1>1 DEF Base
<1>3. Depth \in Nat /\ java_stack[k].owner \in 1 .. Depth /\ "chunk" \in calls[java_stack[k].owner].got
  BY StackFacts
<1>4. calls[java_stack[k].owner].fn # "elf"
  <2>1. Shape(calls[java_stack[k].owner])
    BY <1>3 DEF Links
  <2> QED
    BY <1>3, <2>1, MayIs DEF Shape
<1>5. java_stack[k].owner <= d /\ java_stack[k].owner # d
  BY <1>4 DEF Part
<1>6. java_stack[k].owner <= g
  BY <1>2, <1>3, <1>4, <1>5
<1>7. Part(k, g)
  <2>1. k < Len(java_stack) => g < java_stack[k + 1].owner
    <3>1. ASSUME k < Len(java_stack)
          PROVE  g < java_stack[k + 1].owner
      <4>1. k + 1 \in DOMAIN java_stack
        BY <3>1, StackFacts
      <4>2. java_stack[k + 1].owner \in 1 .. Depth
        BY <4>1, StackFacts
      <4> QED
        BY <1>2, <1>3, <3>1, <4>2 DEF Part
    <3> QED
      BY <3>1
  <2> QED
    BY <1>6, <2>1 DEF Part
<1>8. g = java_stack[k].owner
  BY <1>2, <1>7, PartOwner
<1>9. \A e \in 1 .. Depth : g < e /\ e <= d => calls[e].fn = "elf"
  BY <1>2, <1>3
<1> QED
  BY <1>2, <1>8, <1>9

\* A crawl of a chunk of C stack frames begins above its owner and below the next one.
LEMMA ChunkTopIs ==
  ASSUME TypeOK, Links, TopIs, Stacks, NEW k \in DOMAIN java_stack, ~java_stack[k].interp
  PROVE  /\ ChunkTop(k) \in 1 .. Depth /\ Part(k, ChunkTop(k))
         /\ java_stack[k].top # 0 => /\ ChunkTop(k) = java_stack[k].top /\ ChunkTop(k) + 1 \in 1 .. Depth
                                     /\ "clip" \in calls[ChunkTop(k) + 1].got
<1>1. StackIs(java_stack, Depth, Holders("chunk"), Interps, Holders("clip"), Leading, Interpreting)
  BY StackNow
<1>2. ClipsIn(java_stack, Depth, Holders("clip")) /\ ClippedIn(java_stack, Depth, Leading, Interpreting)
  BY <1>1 DEF StackIs
<1>3. /\ Depth \in Nat /\ Len(java_stack) \in Nat /\ k \in 1 .. Len(java_stack)
      /\ java_stack[k].owner \in 1 .. Depth /\ java_stack[k].top \in Nat
      /\ "chunk" \in calls[java_stack[k].owner].got
  BY StackFacts
<1>4. ASSUME java_stack[k].top # 0
      PROVE  /\ ChunkTop(k) = java_stack[k].top /\ ChunkTop(k) \in 1 .. Depth /\ ChunkTop(k) + 1 \in 1 .. Depth
             /\ "clip" \in calls[ChunkTop(k) + 1].got
             /\ Part(k, ChunkTop(k))
  <2>1. PICK t : t = java_stack[k].top
    OBVIOUS
  <2>2. ChunkTop(k) = t /\ t \in Nat /\ t # 0
    BY <1>3, <1>4, <2>1 DEF ChunkTop
  <2>3. t < Depth /\ LastBefore(java_stack, k, t + 1)
    BY <1>2, <1>4, <2>1 DEF ClipsIn
  <2>4. t \in 1 .. Depth /\ t + 1 \in 1 .. Depth /\ t = t + 1 - 1
    BY <1>3, <2>2, <2>3
  <2>5. t + 1 \in Holders("clip")
    BY <1>2, <2>1, <2>3, <2>4 DEF ClipsIn
  <2>6. "clip" \in calls[t + 1].got
    BY <2>5, HoldersAre
  <2>7. java_stack[k].owner <= t
    BY <1>3, <2>2, <2>3 DEF LastBefore
  <2>8. ASSUME k < Len(java_stack)
        PROVE  t < java_stack[k + 1].owner
    <3>1. k + 1 \in DOMAIN java_stack
      BY <1>3, <2>8, StackFacts
    <3>2. java_stack[k + 1].owner \in 1 .. Depth /\ t + 1 <= java_stack[k + 1].owner
      BY <2>3, <2>8, <3>1, StackFacts DEF LastBefore
    <3> QED
      BY <1>3, <2>2, <3>2
  <2> QED
    BY <2>1, <2>2, <2>4, <2>6, <2>7, <2>8 DEF Part
<1>5. ASSUME k < Len(java_stack)
      PROVE  java_stack[k].top # 0
  <2>1. PICK o, x : o = java_stack[k].owner /\ x = java_stack[k + 1].owner
    OBVIOUS
  <2>2. k + 1 \in DOMAIN java_stack /\ k < k + 1
    BY <1>3, <1>5, StackFacts
  <2>3. x \in 1 .. Depth /\ "chunk" \in calls[x].got /\ o < x /\ o \in 1 .. Depth
    BY <1>3, <2>1, <2>2, StackFacts
  <2>4. x \in 1 .. Depth /\ LastBefore(java_stack, k, x)
    BY <1>3, <2>1, <2>3 DEF LastBefore
  <2>5. Shape(calls[x]) /\ calls[x] \in ActivationType /\ calls[x].fn \in Functions
    BY <2>3, DepthIs, ActivationIs DEF Links
  <2>6. calls[x].fn = "gate" \/ calls[x].fn = "interp"
    BY <2>3, <2>5, MayIs DEF Shape, Functions
  <2>7. CASE calls[x].fn = "gate"
    <3>1. x \in Leading
      BY <2>3, <2>7 DEF Leading
    <3> QED
      BY <1>2, <1>3, <2>4, <3>1 DEF ClippedIn
  <2>8. CASE calls[x].fn = "interp"
    <3>1. x # 1 /\ x - 1 \in 1 .. Depth - 1 /\ x - 1 + 1 = x /\ x - 1 \in 1 .. Depth /\ x - 1 < Depth
      <4>1. x # 1
        BY <2>8 DEF Links
      <4> QED
        BY <1>3, <2>3, <4>1
    <3>2. Waits(calls[x - 1], calls[x])
      BY <3>1 DEF Links
    <3>3. calls[x - 1].fn \in Functions
      BY <3>1, DepthIs, ActivationIs
    <3>4. calls[x - 1].fn = "vinterp" \/ calls[x - 1].fn = "interp"
      BY <2>8, <3>2, <3>3, CalleesAre DEF Waits, Functions
    <3>5. calls[x - 1].fn # "interp"
      <4>1. ASSUME calls[x - 1].fn = "interp"
            PROVE  FALSE
        <5>1. "chunk" \in calls[x - 1].got
          BY <2>8, <3>2, <4>1 DEF Waits, Underway
        <5>2. Part(k, x - 1)
          BY <1>3, <2>1, <2>3, <3>1 DEF Part
        <5>3. x - 1 = o
          BY <2>1, <3>1, <5>1, <5>2, PartOwner
        <5> QED
          BY <2>1, <4>1, <5>3, StackFacts
      <4> QED
        BY <4>1
    <3>6. calls[x - 1].fn = "vinterp"
      BY <3>4, <3>5
    <3>7. x - 1 \in Interpreting
      BY <2>8, <3>1, <3>6 DEF Interpreting
    <3>8. o # x - 1
      <4>1. Shape(calls[x - 1])
        BY <3>1 DEF Links
      <4>2. "chunk" \notin calls[x - 1].got
        BY <3>6, <4>1, MayIs DEF Shape
      <4> QED
        BY <1>3, <2>1, <4>2
    <3>9. LastBefore(java_stack, k, x - 1)
      BY <1>3, <2>1, <2>3, <3>1, <3>8 DEF LastBefore
    <3> QED
      BY <1>2, <1>3, <3>1, <3>7, <3>9 DEF ClippedIn
  <2> QED
    BY <2>6, <2>7, <2>8
<1>6. ASSUME java_stack[k].top = 0
      PROVE  ChunkTop(k) \in 1 .. Depth /\ Part(k, ChunkTop(k))
  <2>1. ChunkTop(k) = Depth /\ ~(k < Len(java_stack))
    BY <1>5, <1>6 DEF ChunkTop
  <2> QED
    BY <1>3, <2>1 DEF Part
<1> QED
  BY <1>4, <1>6

\* Of the gateways only the owner is in a chunk.
LEMMA PartGate ==
  ASSUME TypeOK, Links, TopIs, Stacks, st # "enter", NEW k \in DOMAIN java_stack, ~java_stack[k].interp,
         NEW d \in 1 .. ChunkTop(k), calls[d].fn = "gate"
  PROVE  d <= java_stack[k].owner
<1>1. StackIs(java_stack, Depth, Holders("chunk"), Interps, Holders("clip"), Leading, Interpreting)
  BY StackNow
<1>2. ClippedIn(java_stack, Depth, Leading, Interpreting)
  BY <1>1 DEF StackIs
<1>3. /\ ChunkTop(k) \in 1 .. Depth /\ Part(k, ChunkTop(k))
      /\ java_stack[k].top # 0 => ChunkTop(k) = java_stack[k].top
  BY ChunkTopIs
<1>4. Depth \in Nat /\ Len(java_stack) \in Nat /\ java_stack[k].owner \in 1 .. Depth /\ java_stack[k].top \in Nat
  BY StackFacts
<1>5. d \in 1 .. Depth /\ d <= ChunkTop(k)
  BY <1>3, <1>4
<1>6. SUFFICES ASSUME java_stack[k].owner < d
               PROVE  FALSE
  BY <1>4, <1>5
<1>7. Started(calls[d])
  <2>1. CASE d = Depth
    <3>1. calls[d] = Top /\ st \in {"ok", "err", "run"}
      BY <2>1 DEF Top, TypeOK
    <3> QED
      BY <3>1 DEF TopIs
  <2>2. CASE d # Depth
    <3>1. d \in 1 .. Depth - 1
      BY <1>4, <1>5, <2>2
    <3> QED
      BY <3>1 DEF Links, Waits
  <2> QED
    BY <2>1, <2>2
<1>8. d \in Leading
  BY <1>5, <1>7 DEF Leading, Started
<1>9. LastBefore(java_stack, k, d)
  <2>1. ASSUME k < Len(java_stack)
        PROVE  d <= java_stack[k + 1].owner
    <3>1. k + 1 \in DOMAIN java_stack
      BY <1>4, <2>1, StackFacts
    <3>2. java_stack[k + 1].owner \in 1 .. Depth /\ ChunkTop(k) < java_stack[k + 1].owner
      BY <1>3, <2>1, <3>1, StackFacts DEF Part
    <3> QED
      BY <1>3, <1>4, <1>5, <3>2
  <2> QED
    BY <1>6, <2>1 DEF LastBefore
<1>10. java_stack[k].top # 0 /\ java_stack[k].top < d
  BY <1>2, <1>5, <1>8, <1>9 DEF ClippedIn
<1> QED
  BY <1>3, <1>4, <1>5, <1>10

\* The activations that a crawl of a chunk finds.
LEMMA InChunkIs ==
  ASSUME TypeOK, Links, TopIs, Stacks, st # "enter", NEW k \in DOMAIN java_stack
  PROVE  \A d : d \in InChunk(k) <=> d \in LiveJava /\ Part(k, d)
<1>1. PICK o : o = java_stack[k].owner
  OBVIOUS
<1>2. /\ Depth \in Nat /\ Len(java_stack) \in Nat /\ k \in 1 .. Len(java_stack)
      /\ o \in 1 .. Depth /\ java_stack[k].interp \in BOOLEAN
      /\ "chunk" \in calls[o].got /\ (java_stack[k].interp <=> calls[o].fn = "interp")
  BY <1>1, StackFacts
<1>3. calls[o].fn \in {"interp", "gate"} /\ o \in LiveJava
  <2>1. Shape(calls[o]) /\ calls[o].fn \in Functions
    BY <1>2, DepthIs, ActivationIs DEF Links
  <2>2. calls[o].fn \in {"interp", "gate"}
    BY <1>2, <2>1, MayIs DEF Shape, Functions
  <2> QED
    BY <1>2, <2>2 DEF LiveJava
<1>4. Part(k, o)
  <2>1. ASSUME k < Len(java_stack)
        PROVE  o < java_stack[k + 1].owner
    <3>1. k + 1 \in DOMAIN java_stack /\ k < k + 1
      BY <1>2, <2>1, StackFacts
    <3> QED
      BY <1>1, <3>1, StackFacts
  <2> QED
    BY <1>1, <1>2, <2>1 DEF Part
<1>5. ASSUME NEW d \in LiveJava, Part(k, d)
      PROVE  d \in 1 .. Depth /\ (d = o \/ calls[d].fn = "elf")
  <2>1. d \in 1 .. Depth /\ (calls[d].fn = "elf" \/ "chunk" \in calls[d].got)
    BY DEF LiveJava
  <2> QED
    BY <1>1, <1>5, <2>1, PartOwner
<1>6. CASE java_stack[k].interp
  <2>1. ASSUME NEW d \in LiveJava, Part(k, d)
        PROVE  d = o
    <3>1. d \in 1 .. Depth /\ (d = o \/ calls[d].fn = "elf")
      BY <1>5, <2>1
    <3>2. calls[d].fn = "elf" => calls[o].fn = "gate"
      BY <1>1, <2>1, <3>1, PartElf
    <3> QED
      BY <1>2, <1>6, <3>1, <3>2
  <2>2. InChunk(k) = {o}
    BY <1>1, <1>6 DEF InChunk
  <2> QED
    BY <1>3, <1>4, <2>1, <2>2
<1>7. CASE ~java_stack[k].interp
  <2>1. PICK t : t = ChunkTop(k)
    OBVIOUS
  <2>2. /\ t \in 1 .. Depth /\ Part(k, t)
        /\ java_stack[k].top # 0 => t + 1 \in 1 .. Depth /\ "clip" \in calls[t + 1].got
    BY <1>7, <2>1, ChunkTopIs
  <2>3. calls[o].fn = "gate" /\ o <= t
    BY <1>1, <1>2, <1>3, <1>7, <2>2 DEF Part
  <2>4. PICK G : G = {d \in 1 .. ChunkTop(k) : calls[d].fn = "gate"} \cup {0}
    OBVIOUS
  <2>5. o \in G /\ G \in SUBSET (0 .. t) /\ t \in Nat
    BY <1>2, <2>1, <2>2, <2>3, <2>4
  <2>6. \A d \in G : d <= o
    BY <1>1, <1>2, <1>7, <2>4, PartGate
  <2>7. Max(G) = o
    <3>1. Max(G) \in G /\ o <= Max(G)
      BY <2>5, MaxIs
    <3>2. Max(G) <= o /\ Max(G) \in 0 .. t
      BY <2>5, <2>6, <3>1
    <3> QED
      BY <1>2, <2>5, <3>1, <3>2
  <2>8. InChunk(k) = {d \in o .. t : d > 0 /\ Registered(d)}
    BY <1>7, <2>1, <2>4, <2>7 DEF InChunk
  <2>9. ASSUME NEW d \in InChunk(k)
        PROVE  d \in LiveJava /\ Part(k, d)
    <3>1. d \in o .. t /\ d \in 1 .. Depth /\ d \in 1 .. t /\ Registered(d)
      BY <1>2, <2>2, <2>8
    <3>2. d = o \/ calls[d].fn = "elf"
      <4>1. calls[d].fn = "gate" => d <= o
        BY <2>4, <2>1, <2>6, <3>1
      <4> QED
        BY <1>2, <3>1, <4>1 DEF Registered
    <3>3. d \in LiveJava
      BY <1>3, <3>1, <3>2 DEF LiveJava
    <3>4. ASSUME k < Len(java_stack)
          PROVE  d < java_stack[k + 1].owner
      <4>1. k + 1 \in DOMAIN java_stack
        BY <1>2, <3>4, StackFacts
      <4>2. java_stack[k + 1].owner \in 1 .. Depth /\ t < java_stack[k + 1].owner
        BY <2>2, <3>4, <4>1, StackFacts DEF Part
      <4> QED
        BY <1>2, <2>2, <3>1, <4>2
    <3> QED
      BY <1>1, <1>2, <3>1, <3>3, <3>4 DEF Part
  <2>10. ASSUME NEW d \in LiveJava, Part(k, d)
         PROVE  d \in InChunk(k)
    <3>1. d \in 1 .. Depth /\ (d = o \/ calls[d].fn = "elf") /\ o <= d
      BY <1>1, <1>5, <2>10 DEF Part
    <3>2. Registered(d)
      BY <2>3, <3>1 DEF Registered
    <3>3. d <= t
      <4>1. ASSUME t < d
            PROVE  FALSE
        <5>1. java_stack[k].top # 0
          <6>1. ASSUME java_stack[k].top = 0
                PROVE  FALSE
            <7>1. t = Depth
              BY <2>1, <6>1 DEF ChunkTop
            <7> QED
              BY <1>2, <3>1, <4>1, <7>1
          <6> QED
            BY <6>1
        <5>2. d # o /\ calls[d].fn = "elf"
          BY <1>2, <2>2, <2>3, <3>1, <4>1
        <5>3. t + 1 \in 1 .. Depth /\ o < t + 1 /\ t + 1 <= d /\ "clip" \in calls[t + 1].got
          BY <1>2, <2>2, <2>3, <3>1, <4>1, <5>1
        <5>4. calls[t + 1].fn = "elf"
          BY <1>1, <2>10, <3>1, <5>2, <5>3, PartElf
        <5>5. Shape(calls[t + 1])
          BY <5>3 DEF Links
        <5> QED
          BY <5>3, <5>4, <5>5, MayIs DEF Shape
      <4> QED
        BY <1>2, <2>2, <3>1, <4>1
    <3> QED
      BY <1>2, <2>2, <2>8, <3>1, <3>2, <3>3
  <2> QED
    BY <2>9, <2>10
<1> QED
  BY <1>2, <1>6, <1>7

\* A crawl finds the Java methods that the thread is in, in order.
LEMMA CrawlFinds ==
  ASSUME TypeOK, Links, TopIs, Stacks, st # "enter"
  PROVE  /\ UNION {InChunk(k) : k \in DOMAIN java_stack} = LiveJava
         /\ \A j, k \in DOMAIN java_stack : j < k => \A d \in InChunk(j), e \in InChunk(k) : d < e
<1>1. Depth \in Nat /\ Len(java_stack) \in Nat /\ DOMAIN java_stack = 1 .. Len(java_stack)
  BY StackFacts
<1>2. \A k \in DOMAIN java_stack : \A d : d \in InChunk(k) <=> d \in LiveJava /\ Part(k, d)
  BY InChunkIs
<1>3. ASSUME NEW d \in LiveJava
      PROVE  \E k \in DOMAIN java_stack : Part(k, d)
  <2>1. d \in 1 .. Depth
    BY DEF LiveJava
  <2>2. \E g \in 1 .. Depth : g <= d /\ "chunk" \in calls[g].got
    <3>1. CASE calls[d].fn = "elf"
      <4>1. PICK g \in 1 .. Depth : Base(g, d)
        BY <2>1, <3>1, BaseIs DEF Thrower
      <4> QED
        BY <1>1, <2>1, <4>1 DEF Base
    <3>2. CASE calls[d].fn # "elf"
      <4>1. "chunk" \in calls[d].got
        BY <3>2 DEF LiveJava
      <4> QED
        BY <1>1, <2>1, <4>1
    <3> QED
      BY <3>1, <3>2
  <2>3. PICK K : K = {k \in DOMAIN java_stack : java_stack[k].owner <= d}
    OBVIOUS
  <2>4. K \in SUBSET (0 .. Len(java_stack)) /\ K # {}
    <3>1. PICK g \in 1 .. Depth : g <= d /\ "chunk" \in calls[g].got
      BY <2>2
    <3>2. \E k \in DOMAIN java_stack : java_stack[k].owner = g
      BY <3>1, StackFacts
    <3> QED
      BY <1>1, <2>3, <3>1, <3>2
  <2>5. PICK k \in K : \A j \in K : j <= k
    <3>1. Max(K) \in K /\ \A j \in K : j <= Max(K)
      BY <1>1, <2>4, MaxIs
    <3> QED
      BY <3>1
  <2>6. k \in DOMAIN java_stack /\ java_stack[k].owner <= d
    BY <2>3, <2>5
  <2>7. ASSUME k < Len(java_stack)
        PROVE  d < java_stack[k + 1].owner
    <3>1. k + 1 \in DOMAIN java_stack /\ ~(k + 1 <= k)
      BY <1>1, <2>6, <2>7
    <3>2. ~(java_stack[k + 1].owner <= d)
      BY <2>3, <2>5, <3>1
    <3>3. java_stack[k + 1].owner \in 1 .. Depth
      BY <3>1, StackFacts
    <3> QED
      BY <1>1, <2>1, <3>2, <3>3
  <2> QED
    BY <2>6, <2>7 DEF Part
<1>4. UNION {InChunk(k) : k \in DOMAIN java_stack} = LiveJava
  <2>1. ASSUME NEW d
        PROVE  (\E k \in DOMAIN java_stack : d \in InChunk(k)) <=> d \in LiveJava
    BY <1>2, <1>3
  <2> QED
    BY <2>1
<1>5. ASSUME NEW j \in DOMAIN java_stack, NEW k \in DOMAIN java_stack, j < k,
             NEW d \in InChunk(j), NEW e \in InChunk(k)
      PROVE  d < e
  <2>1. j < Len(java_stack) /\ j + 1 \in DOMAIN java_stack /\ j + 1 <= k /\ j \in Nat /\ k \in Nat
    BY <1>1, <1>5
  <2>2. d \in LiveJava /\ e \in LiveJava /\ Part(j, d) /\ Part(k, e)
    BY <1>2, <1>5
  <2>3. d \in 1 .. Depth /\ e \in 1 .. Depth
    BY <2>2 DEF LiveJava
  <2>4. d < java_stack[j + 1].owner /\ java_stack[k].owner <= e
    BY <2>1, <2>2 DEF Part
  <2>5. java_stack[j + 1].owner \in 1 .. Depth /\ java_stack[k].owner \in 1 .. Depth
    BY <2>1, StackFacts
  <2>6. j + 1 # k => java_stack[j + 1].owner < java_stack[k].owner
    BY <2>1, StackFacts
  <2> QED
    BY <1>1, <2>1, <2>3, <2>4, <2>5, <2>6
<1> QED
  BY <1>4, <1>5

\* While the thread is in native code its Java stack is clipped.
LEMMA NativeClipped ==
  ASSUME ExecutionInv, native, java_stack # <<>>
  PROVE  Last(java_stack).top # 0
<1>1. TypeOK /\ Links /\ TopIs /\ Stacks
  BY Parts
<1>2. StackIs(java_stack, Depth, Holders("chunk"), Interps, Holders("clip"), Leading, Interpreting)
  BY <1>1, StackNow
<1>3. ClippedIn(java_stack, Depth, Leading, Interpreting)
  BY <1>2 DEF StackIs
<1>4. Depth \in Nat /\ Len(java_stack) \in Nat /\ DOMAIN java_stack = 1 .. Len(java_stack)
      /\ java_stack \in Seq(ChunkType)
  BY <1>1, StackFacts
<1>5. PICK k : k = Len(java_stack)
  OBVIOUS
<1>6. k \in DOMAIN java_stack /\ Last(java_stack) = java_stack[k]
  <2>1. Len(java_stack) # 0
    BY <1>4, ChunkIs
  <2>2. Last(java_stack) = java_stack[Len(java_stack)]
    BY <1>4, FrontOf
  <2> QED
    BY <1>4, <1>5, <2>1, <2>2
<1>7. PICK o : o = java_stack[k].owner
  OBVIOUS
<1>8. o \in 1 .. Depth /\ "chunk" \in calls[o].got
  BY <1>1, <1>6, <1>7, StackFacts
<1>9. calls[Depth].fn = "native" /\ calls[1].fn = "native" /\ Depth \in 1 .. Depth
  BY <1>1, <1>4, <1>8 DEF TopIs, Top, Links
<1>10. \A d \in 1 .. Depth : calls[d].fn \in {"native", "jni_a"} => o # d
  <2>1. ASSUME NEW d \in 1 .. Depth, calls[d].fn \in {"native", "jni_a"}
        PROVE  "chunk" \notin calls[d].got
    BY <1>1, <2>1, MayIs DEF Links, Shape
  <2> QED
    BY <1>8, <2>1
<1>11. PICK d : d = Depth - 1
  OBVIOUS
<1>12. d \in 1 .. Depth - 1 /\ d \in 1 .. Depth /\ d + 1 = Depth /\ d < Depth /\ o <= d
  <2>1. o # 1 /\ o # Depth
    BY <1>4, <1>8, <1>9, <1>10
  <2> QED
    BY <1>4, <1>8, <1>11, <2>1
<1>13. calls[d].fn = "jni_a"
  <2>1. "native" \in Callees[calls[d].fn]
    BY <1>1, <1>9, <1>12 DEF Links, Waits
  <2>2. calls[d].fn \in Functions
    BY <1>1, <1>12, DepthIs, ActivationIs
  <2> QED
    BY <2>1, <2>2, CalleesAre DEF Functions
<1>14. d \in Leading
  BY <1>9, <1>12, <1>13 DEF Leading
<1>15. LastBefore(java_stack, k, d)
  <2>1. o < d
    BY <1>4, <1>8, <1>10, <1>12, <1>13
  <2> QED
    BY <1>4, <1>5, <1>7, <2>1 DEF LastBefore
<1> QED
  BY <1>3, <1>6, <1>12, <1>14, <1>15 DEF ClippedIn

\* StacksAgree follows from the invariant.
LEMMA StacksThen ==
  ASSUME ExecutionInv
  PROVE  StacksAgree
<1>1. TypeOK /\ Links /\ TopIs /\ Stacks /\ Catchers /\ NativeLocals /\ Limits /\ Posting /\ JniMethods
  BY Parts
<1>2. /\ Lists(OwnersOf(java_stack), Holders("chunk"))
      /\ Lists(OwnersOf(catch_list), Holders("catch"))
      /\ Lists(native_locals, Holders("frame"))
  BY <1>1 DEF Stacks, Chunks, Catchers, NativeLocals
<1>3. \A k \in DOMAIN java_stack : java_stack[k].top <= Depth
  <2>1. StackIs(java_stack, Depth, Holders("chunk"), Interps, Holders("clip"), Leading, Interpreting)
    BY <1>1, StackNow
  <2>2. \A k \in DOMAIN java_stack : java_stack[k].top # 0 => java_stack[k].top < Depth
    BY <2>1 DEF StackIs, ClipsIn
  <2>3. Depth \in Nat /\ \A k \in DOMAIN java_stack : java_stack[k].top \in Nat
    BY <1>1, StackFacts
  <2> QED
    BY <2>2, <2>3
<1>4. st # "enter" =>
        /\ UNION {InChunk(k) : k \in DOMAIN java_stack} = LiveJava
        /\ \A j, k \in DOMAIN java_stack : j < k => \A d \in InChunk(j), e \in InChunk(k) : d < e
  BY <1>1, CrawlFinds
<1>5. native /\ java_stack # <<>> => Last(java_stack).top # 0
  BY NativeClipped
<1>6. PICK S : S = {d \in 1 .. Depth : calls[d].fn = "native"}
  OBVIOUS
<1>7. jni_method = calls[Max(S)].m
  <2>1. Depth \in Nat \ {0} /\ calls[1].fn = "native"
    BY <1>1, DepthIs DEF Links
  <2>2. S \in SUBSET (0 .. Depth) /\ S # {}
    BY <1>6, <2>1
  <2>3. PICK d : d = Max(S)
    OBVIOUS
  <2>4. d \in S /\ \A e \in S : e <= d
    BY <2>1, <2>2, <2>3, MaxIs
  <2>5. d \in 1 .. Depth /\ LastNative(d, Depth + 1)
    <3>1. \A x \in 1 .. Depth : d < x => calls[x].fn # "native"
      BY <1>6, <2>1, <2>4
    <3> QED
      BY <1>6, <2>4, <3>1 DEF LastNative
  <2> QED
    BY <1>1, <2>3, <2>5 DEF JniMethods
<1>8. jni_method = LET Z == {d \in 1 .. Depth : calls[d].fn = "native"} IN calls[Max(Z)].m
  BY <1>6, <1>7
<1>9. Holders("limit") = (IF stack_limit = 0 THEN {} ELSE {stack_limit})
      /\ in_vmex = {calls[d].m : d \in Holders("vmex")}
  BY <1>1 DEF Limits, Posting
<1> QED
  BY <1>2, <1>3, <1>4, <1>5, <1>8, <1>9 DEF StacksAgree

\* The lists that the VM keeps are those of the live activations.
THEOREM StacksHold == (LockFailuresLeave /\ ExecutionSpec) => []StacksAgree
<1>1. ExecutionInv => StacksAgree
  BY StacksThen
<1> QED
  BY <1>1, Invariance, PTL

\* The monitors are held as often as their methods are entered.
THEOREM MonitorsHold == (LockFailuresLeave /\ ExecutionSpec) => []MonitorsBalanced
<1>1. ExecutionInv => MonitorsBalanced
  BY BalancedThen
<1> QED
  BY <1>1, Invariance, PTL

-----------------------------------------------------------------------------
(* Exceptions in flight *)

\* What a step does with an exception: it goes on, gets to native code, or is caught.
Passed == InFlight' /\ pending' = pending /\ Handler' = Handler
Returned == calls[Handler].fn = "native" /\ Depth' = Handler /\ pending' = pending /\ st' = "run"
IsTaken ==
  /\ calls[Handler].fn # "native" /\ Depth' = Handler /\ pending' = None /\ st' = "run"
  /\ LET S == Matching(calls[Handler].m, calls[Handler].pc, pending)
     IN  Top'.pc = Traps[calls[Handler].m][Min(S)].target
Onward == InFlight => Passed \/ Returned \/ IsTaken

\* The handler is the innermost activation that catches the exception.
LEMMA HandlerIs ==
  ASSUME TypeOK, Links
  PROVE  /\ Handler \in 1 .. Depth /\ Catches(Handler, pending)
         /\ \A d \in 1 .. Depth : Catches(d, pending) => d <= Handler
<1>1. Depth \in Nat \ {0} /\ calls[1].fn = "native"
  BY DepthIs DEF Links
<1>2. PICK S : S = {d \in 1 .. Depth : Catches(d, pending)}
  OBVIOUS
<1>3. S \in SUBSET (0 .. Depth) /\ S # {}
  <2>1. 1 \in S
    BY <1>1, <1>2 DEF Catches
  <2> QED
    BY <1>1, <1>2, <2>1
<1>4. Max(S) \in S /\ \A d \in S : d <= Max(S)
  BY <1>1, <1>3, MaxIs
<1>5. Handler = Max(S)
  BY <1>2 DEF Handler
<1> QED
  BY <1>2, <1>4, <1>5

\* The handler is the same as long as the same activations would catch the exception.
LEMMA HandlerSame ==
  ASSUME st' = "err", pending # None, pending' = pending,
         \A d : (d \in 1 .. Depth' /\ Catches(d, pending)') <=> (d \in 1 .. Depth /\ Catches(d, pending))
  PROVE  Passed
<1>1. {d \in 1 .. Depth' : Catches(d, pending)'} = {d \in 1 .. Depth : Catches(d, pending)}
  OBVIOUS
<1> QED
  BY <1>1 DEF Passed, InFlight, Handler

\* An activation that does not catch the exception returns the error.
LEMMA LeavesPassed ==
  ASSUME ExecutionInv, ReturnWith("err"), Top.fn \notin {"native", "call"}, ~Catches(Depth, pending),
         pending # None, pending' = pending
  PROVE  Passed
<1>1. TypeOK /\ Links
  BY Parts
<1>2. Depth # 1 /\ calls[Depth - 1].fn # "native"
  BY <1>1, CallerIs
<1>3. Leaves
  BY <1>1, <1>2, LeavesIf DEF ReturnWith
<1>4. st' = "err"
  BY <1>2 DEF ReturnWith, Resume
<1>5. Depth \in Nat /\ Depth' = Depth - 1 /\ \A d \in 1 .. Depth' : calls'[d] = calls[d]
  BY <1>1, <1>3, DepthIs DEF Leaves
<1>6. \A d \in 1 .. Depth' : Catches(d, pending)' <=> Catches(d, pending)
  BY <1>5 DEF Catches
<1>7. \A d : d \in 1 .. Depth <=> d \in 1 .. Depth' \/ d = Depth
  BY <1>2, <1>5, <1>1, DepthIs
<1>8. \A d : (d \in 1 .. Depth' /\ Catches(d, pending)') <=> (d \in 1 .. Depth /\ Catches(d, pending))
  BY <1>6, <1>7
<1> QED
  BY <1>4, <1>8, HandlerSame

\* What a trampoline, a gateway or the search does does not change who catches.
LEMMA StaysPassed ==
  ASSUME ExecutionInv, NEW b, Becomes(b), b.fn = Top.fn, Top.fn \notin {"native", "interp", "elf"},
         st' = "err", pending # None, pending' = pending
  PROVE  Passed
<1>1. TypeOK
  BY Parts
<1>2. Depth \in Nat /\ Depth' = Depth /\ calls'[Depth] = b /\ Top = calls[Depth]
      /\ \A d \in 1 .. Depth - 1 : calls'[d] = calls[d]
  BY <1>1, DepthIs DEF Becomes, Top
<1>3. ~Catches(Depth, pending) /\ ~Catches(Depth, pending)'
  BY <1>2 DEF Catches
<1>4. \A d \in 1 .. Depth : d = Depth \/ d \in 1 .. Depth - 1
  BY <1>2
<1>5. \A d \in 1 .. Depth - 1 : Catches(d, pending)' <=> Catches(d, pending)
  BY <1>2 DEF Catches
<1>6. \A d : (d \in 1 .. Depth' /\ Catches(d, pending)') <=> (d \in 1 .. Depth /\ Catches(d, pending))
  BY <1>2, <1>3, <1>4, <1>5
<1> QED
  BY <1>6, HandlerSame

\* An exception in an interpreted method is caught there or returned.
LEMMA InterpOnward ==
  ASSUME LockFailuresLeave, ExecutionInv, InFlight, InterpException
  PROVE  Passed \/ IsTaken
<1>1. Top.fn = "interp" /\ st = "err" /\ "chunk" \in Top.got /\ pending # None
  BY DEF InterpException, In, InFlight
<1>2. TypeOK /\ Links
  BY Parts
<1>3. PICK S : S = Matching(Top.m, Top.pc, pending)
  OBVIOUS
<1>4. Depth \in Nat \ {0} /\ Depth \in 1 .. Depth /\ Top = calls[Depth] /\ Shape(Top) /\ Top.m \in Methods
      /\ Top \in ActivationType
  BY <1>1, <1>2, TopFacts DEF Top, Shape
<1>5. CASE S = {}
  <2>1. ~Catches(Depth, pending)
    BY <1>1, <1>3, <1>4, <1>5 DEF Catches
  <2>2. ReturnWith("err") /\ pending' = pending
    BY <1>3, <1>5 DEF InterpException
  <2> QED
    BY <1>1, <2>1, <2>2, LeavesPassed
<1>6. CASE S # {}
  <2>1. Top.m \in Synchronized => "lock" \in Top.got
    <3>1. SUFFICES ASSUME Top.m \in Synchronized, "lock" \notin Top.got PROVE FALSE
      OBVIOUS
    <3>2. Top.pc = 0 /\ Top.m \in LockMayFail
      BY <1>1, <1>4, <3>1 DEF Shape
    <3>3. PICK i \in S : TRUE
      BY <1>6
    <3>4. i \in DOMAIN Traps[Top.m] /\ Traps[Top.m][i].start <= Top.pc
      BY <1>3, <3>3 DEF Matching, Covers
    <3>5. Traps[Top.m][i].start > 0 /\ Traps[Top.m][i].start \in Nat
      BY <1>4, <3>2, <3>4, TrapIs DEF LockFailuresLeave
    <3> QED
      BY <3>2, <3>4, <3>5
  <2>2. Catches(Depth, pending)
    BY <1>1, <1>3, <1>4, <1>6, <2>1 DEF Catches
  <2>3. Handler = Depth
    <3>1. Handler \in 1 .. Depth /\ Depth <= Handler
      BY <1>2, <1>4, <2>2, HandlerIs
    <3> QED
      BY <1>4, <3>1
  <2>4. PICK t : t = Traps[Top.m][Min(S)].target
    OBVIOUS
  <2>5. t \in Nat
    <3>1. S \in SUBSET DOMAIN Traps[Top.m] /\ DOMAIN Traps[Top.m] \in SUBSET Nat
      BY <1>3, <1>4, <1>6, TrapIs DEF Matching
    <3>2. Min(S) \in DOMAIN Traps[Top.m]
      BY <1>6, <3>1, MinIs
    <3> QED
      BY <1>4, <2>4, <3>2, TrapIs
  <2>6. PICK b : b = [Top EXCEPT !.pc = t]
    OBVIOUS
  <2>7. b \in ActivationType /\ b.pc = t
    BY <1>4, <2>5, <2>6 DEF ActivationType
  <2>8. calls' = [calls EXCEPT ![Depth] = b] /\ st' = "run" /\ pending' = None
    BY <1>3, <1>6, <2>4, <2>6 DEF InterpException, Top
  <2>9. Becomes(b)
    BY <1>2, <2>7, <2>8, BecomesIf
  <2>10. Depth' = Depth /\ Top' = b
    BY <2>9 DEF Becomes, Top
  <2> QED
    BY <1>1, <1>3, <1>4, <2>3, <2>4, <2>7, <2>8, <2>10 DEF IsTaken
<1> QED
  BY <1>5, <1>6

\* _jc_throw_exception() begins.
LEMMA ThrowOnward ==
  ASSUME ExecutionInv, InFlight, Throw
  PROVE  Passed
<1>1. TypeOK /\ st' = "err" /\ pending # None /\ pending' = pending
  BY Parts DEF Throw, InFlight
<1>2. PICK a : a = [Activation("throw", None) EXCEPT !.kept = Position(CrawlChunk(Len(java_stack)), Len(catch_list))]
  OBVIOUS
<1>3. calls' = Append(calls, a) /\ a.fn = "throw"
  BY <1>2 DEF Throw, Activation
<1>4. PICK n \in Nat : n = Depth + 1 /\ Depth \in Nat /\ Depth' = n /\ calls'[n] = a
                      /\ \A d \in 1 .. Depth : calls'[d] = calls[d]
  BY <1>1, <1>3 DEF Depth, TypeOK
<1>5. ~Catches(n, pending)'
  BY <1>3, <1>4 DEF Catches
<1>6. \A d \in 1 .. Depth : Catches(d, pending)' <=> Catches(d, pending)
  BY <1>1, <1>4 DEF Catches
<1>7. \A d : d \in 1 .. Depth' <=> d \in 1 .. Depth \/ d = n
  BY <1>4
<1>8. \A d : (d \in 1 .. Depth' /\ Catches(d, pending)') <=> (d \in 1 .. Depth /\ Catches(d, pending))
  BY <1>5, <1>6, <1>7
<1> QED
  BY <1>1, <1>8, HandlerSame

\* The search for a handler does not change which one it is.
LEMMA ThrowNextOnward ==
  ASSUME ExecutionInv, InFlight, ThrowNext
  PROVE  Passed
<1>1. Top.fn = "throw" /\ st' = "err" /\ pending # None /\ pending' = pending /\ TypeOK
  BY Parts DEF ThrowNext, InFlight
<1>2. PICK b : b = [Top EXCEPT !.kept =
                      Position(CrawlNext(Top.kept), IF IsCatch THEN Top.kept.catch - 1 ELSE Top.kept.catch)]
  OBVIOUS
<1>3. Top \in ActivationType /\ Depth \in Nat \ {0} /\ Top = calls[Depth] /\ calls \in Seq(ActivationType)
      /\ Depth = Len(calls)
  BY <1>1, DepthIs DEF Top, TypeOK, Depth
<1>4. b.fn = "throw"
  BY <1>1, <1>2, <1>3 DEF ActivationType
<1>5. calls' \in Seq(ActivationType)
  BY ThrowNextKeeps, Parts DEF ExecutionInv, TypeOK
<1>6. Becomes(b)
  <2>1. calls' = [calls EXCEPT ![Depth] = b]
    BY <1>2 DEF ThrowNext, Top
  <2>2. Len(calls') = Len(calls) /\ calls'[Depth] = b /\ \A d \in 1 .. Depth - 1 : calls'[d] = calls[d]
    BY <1>3, <1>5, <2>1
  <2> QED
    BY <1>3, <1>5, <2>2 DEF Becomes, Depth
<1> QED
  BY <1>1, <1>4, <1>6, StaysPassed

\* The search of _jc_throw_exception() ends at the handler, or at the gateway below it.
LEMMA ThrowCaughtOnward ==
  ASSUME ExecutionInv, InFlight, ThrowCaught
  PROVE  Passed \/ IsTaken
<1>1. Top.fn = "throw" /\ Caught /\ pending # None
  BY DEF ThrowCaught, InFlight
<1>2. TypeOK /\ Links /\ Catchers
  BY Parts
<1>3. st = "err" /\ Depth - 1 \in 1 .. Depth /\ Depth \in Nat \ {0}
  BY <1>1, <1>2, SearchIs, DepthIs
<1>4. PICK g \in 1 .. Depth :
        /\ Stretch(g, Depth - 1)
        /\ Top.kept.d \in g .. Depth - 1
        /\ Top.kept.catch \in DOMAIN catch_list /\ Catch.owner \in g .. Top.kept.d
        /\ \A c \in DOMAIN catch_list : c > Top.kept.catch => ~Catches(catch_list[c].owner, pending)
  BY <1>1, SearchIs
<1>5. PICK p \in DOMAIN catch_list : p = Top.kept.catch /\ Catch = catch_list[p]
  BY <1>4 DEF Catch
<1>6. PICK c \in 1 .. Depth : c = Catch.owner /\ g <= c /\ c < Depth /\ c \in 1 .. Len(calls)
  <2>1. Catch.owner \in 1 .. Depth /\ g <= Catch.owner /\ Catch.owner < Depth
    BY <1>3, <1>4
  <2> QED
    BY <2>1 DEF Depth
<1>7. /\ calls[c] \in ActivationType /\ "catch" \in calls[c].got
      /\ calls[c].fn \in {"elf", "gate"} /\ (Catch.method = "invoke_method" <=> calls[c].fn = "gate")
      /\ (calls[c].fn = "elf" => /\ Catch.method \in Methods /\ Catch.method = calls[c].m
                                 /\ Catch.region = calls[c].pc)
  BY <1>2, <1>5, <1>6, CatchOwners, DepthIs
<1>8. ASSUME NEW d \in 1 .. Depth, d > c
      PROVE  ~Catches(d, pending)
  <2>1. calls[d].fn \in {"elf", "vinterp", "vnative", "jcni", "throw"}
    <3>1. g < d
      BY <1>3, <1>4, <1>6, <1>8
    <3> QED
      BY <1>2, <1>4, <3>1, StretchHas
  <2>2. ASSUME calls[d].fn = "elf", "catch" \in calls[d].got
        PROVE  ~Catches(d, pending)
    <3>1. d \in Holders("catch")
      BY <2>2, HoldersAre
    <3>2. PICK e \in DOMAIN catch_list : catch_list[e].owner = d
      BY <1>2, <3>1, CatchFacts
    <3>3. e > p
      <4>1. e < p => catch_list[e].owner < catch_list[p].owner
        BY <1>2, CatchFacts
      <4>2. e \in Nat /\ p \in Nat
        BY <1>2, CatchFacts
      <4> QED
        BY <1>3, <1>5, <1>6, <1>8, <3>2, <4>1, <4>2
    <3> QED
      BY <1>4, <1>5, <3>2, <3>3
  <2> QED
    BY <2>1, <2>2 DEF Catches
<1>9. /\ SubSeq(calls, 1, c) \in Seq(ActivationType) /\ Len(SubSeq(calls, 1, c)) = c
      /\ \A d \in 1 .. c : SubSeq(calls, 1, c)[d] = calls[d]
  BY <1>2, <1>6, FirstOnes DEF TypeOK
<1>10. CASE Catch.method = "invoke_method"
  <2>1. calls' = SubSeq(calls, 1, c) /\ st' = "err" /\ pending' = pending
    BY <1>3, <1>6, <1>10 DEF ThrowCaught
  <2>2. Depth' = c /\ \A d \in 1 .. c : calls'[d] = calls[d]
    BY <1>9, <2>1 DEF Depth
  <2>3. \A d \in 1 .. c : Catches(d, pending)' <=> Catches(d, pending)
    BY <2>1, <2>2 DEF Catches
  <2>4. \A d : d \in 1 .. Depth <=> d \in 1 .. c \/ (d \in 1 .. Depth /\ d > c)
    BY <1>3, <1>6
  <2>5. \A d : (d \in 1 .. Depth' /\ Catches(d, pending)') <=> (d \in 1 .. Depth /\ Catches(d, pending))
    BY <1>8, <2>2, <2>3, <2>4
  <2> QED
    BY <1>1, <2>1, <2>5, HandlerSame
<1>11. CASE Catch.method # "invoke_method"
  <2>1. calls[c].fn = "elf"
    BY <1>7, <1>11
  <2>2. TrapsFor # {} /\ TrapsFor = Matching(calls[c].m, calls[c].pc, pending)
    BY <1>1, <1>7, <1>11, <2>1 DEF Caught, TrapsFor
  <2>3. Catches(c, pending)
    BY <1>7, <2>1, <2>2 DEF Catches
  <2>4. Handler = c
    <3>1. Handler \in 1 .. Depth /\ c <= Handler /\ Catches(Handler, pending)
      BY <1>2, <2>3, HandlerIs
    <3>2. ~(Handler > c)
      BY <1>8, <3>1
    <3> QED
      BY <1>3, <1>6, <3>1, <3>2
  <2>5. PICK t : t = Traps[Catch.method][Min(TrapsFor)].target
    OBVIOUS
  <2>6. calls' = [SubSeq(calls, 1, c) EXCEPT ![c].pc = t] /\ st' = "run" /\ pending' = None
    BY <1>6, <1>11, <2>5 DEF ThrowCaught
  <2>7. Depth' = c /\ Top'.pc = t
    <3>1. c \in 1 .. c /\ c \in Nat /\ SubSeq(calls, 1, c)[c] = calls[c]
      BY <1>3, <1>6, <1>9
    <3>2. PICK q : q = SubSeq(calls, 1, c)
      OBVIOUS
    <3>3. q \in Seq(ActivationType) /\ Len(q) = c /\ q[c] = calls[c] /\ calls' = [q EXCEPT ![c].pc = t]
      BY <1>9, <2>6, <3>1, <3>2
    <3>4. Len(calls') = c /\ calls'[c] = [calls[c] EXCEPT !.pc = t]
      BY <3>1, <3>3
    <3>5. calls'[c].pc = t
      BY <1>7, <3>4 DEF ActivationType
    <3> QED
      BY <3>4, <3>5 DEF Depth, Top
  <2> QED
    BY <1>7, <2>1, <2>2, <2>4, <2>5, <2>6, <2>7 DEF IsTaken
<1> QED
  BY <1>10, <1>11

\* The functions that only pass an error on, and the one that gives it to native code.
LEMMA ReturnsOnward ==
  ASSUME ExecutionInv, InFlight, PostDone \/ InterpNoFrame \/ GateDone \/ JniDone
  PROVE  Passed
<1>1. st = "err" /\ pending # None
  BY DEF InFlight
<1>2. Top.fn \in {"post", "interp", "gate", "jni_a"} /\ (Top.fn = "interp" => "chunk" \notin Top.got)
  BY DEF PostDone, InterpNoFrame, GateDone, JniDone, In
<1>3. ReturnWith("err") /\ pending' = pending
  BY <1>1 DEF PostDone, InterpNoFrame, GateDone, JniDone
<1>4. ~Catches(Depth, pending)
  BY <1>2 DEF Catches, Top
<1> QED
  BY <1>1, <1>2, <1>3, <1>4, LeavesPassed

\* An error that is returned does not change it either.
LEMMA VinterpOnward ==
  ASSUME ExecutionInv, InFlight, VinterpDone
  PROVE  Passed
<1>1. Top.fn = "vinterp" /\ st = "err" /\ pending # None /\ pending' = pending /\ st' = "err"
  BY DEF VinterpDone, InFlight
<1>2. TypeOK /\ Top \in ActivationType
  BY Parts, DepthIs
<1>3. PICK b : b = [Top EXCEPT !.got = {}]
  OBVIOUS
<1>4. b \in ActivationType /\ b.fn = Top.fn
  BY <1>2, <1>3 DEF ActivationType
<1>5. calls' = [calls EXCEPT ![Depth] = b]
  BY <1>1, <1>3 DEF VinterpDone, Top
<1>6. Becomes(b)
  BY <1>2, <1>4, <1>5, BecomesIf
<1> QED
  BY <1>1, <1>4, <1>6, StaysPassed

\* Native code gets the exception that a call returns with.
LEMMA CallOnward ==
  ASSUME ExecutionInv, InFlight, CallDone
  PROVE  Returned
<1>1. TypeOK /\ Links
  BY Parts
<1>2. Top.fn = "call" /\ st = "err" /\ pending' = pending /\ ReturnWith("err")
  BY DEF CallDone, InFlight
<1>3. Depth \in Nat /\ Depth # 1 /\ Depth # 0 /\ Top = calls[Depth] /\ calls[Depth - 1].fn \in Functions
      /\ Waits(calls[Depth - 1], Top)
  BY <1>1, <1>2, TopFacts DEF Top
<1>4. calls[Depth - 1].fn = "native"
  BY <1>2, <1>3, CalleesAre DEF Waits, Functions
<1>5. Leaves
  BY <1>1, <1>2, <1>3, LeavesIf DEF ReturnWith
<1>6. Depth' = Depth - 1 /\ st' = "run"
  BY <1>2, <1>4, <1>5 DEF Leaves, ReturnWith, Resume
<1>7. PICK n \in 1 .. Depth : n = Depth - 1
  BY <1>3
<1>8. Catches(n, pending) /\ ~Catches(Depth, pending)
  BY <1>2, <1>3, <1>4, <1>7 DEF Catches
<1>9. Handler = n
  <2>1. Handler \in 1 .. Depth /\ n <= Handler /\ Catches(Handler, pending)
    BY <1>1, <1>8, HandlerIs
  <2>2. Handler # Depth
    BY <1>8, <2>1
  <2> QED
    BY <1>3, <1>7, <2>1, <2>2
<1> QED
  BY <1>2, <1>4, <1>6, <1>7, <1>9 DEF Returned

\* Every step takes an exception to its handler or leaves it in flight.
LEMMA StepOnward ==
  ASSUME LockFailuresLeave, ExecutionInv, ExecutionNext
  PROVE  Onward
<1>1. SUFFICES ASSUME InFlight
               PROVE  Passed \/ Returned \/ IsTaken
  BY DEF Onward
<1>2. st = "err"
  BY <1>1 DEF InFlight
<1>3. CASE InterpException
  BY <1>1, <1>3, InterpOnward
<1>4. CASE Throw \/ ThrowNext
  BY <1>1, <1>4, ThrowOnward, ThrowNextOnward
<1>5. CASE ThrowCaught
  BY <1>1, <1>5, ThrowCaughtOnward
<1>6. CASE PostDone \/ InterpNoFrame \/ GateDone \/ JniDone
  BY <1>1, <1>6, ReturnsOnward
<1>7. CASE VinterpDone
  BY <1>1, <1>7, VinterpOnward
<1>8. CASE CallDone
  BY <1>1, <1>8, CallOnward
<1>9. /\ ~PostAgain /\ ~PostNew /\ ~InterpOverflow /\ ~InterpEnter /\ ~InterpCall /\ ~InterpReturn
      /\ ~NextInsn /\ ~ElfEnter /\ ~ElfCall /\ ~ElfReturn /\ ~JavaThrows
  BY <1>2 DEF PostAgain, PostNew, InterpOverflow, InterpEnter, InterpCall, InterpReturn, NextInsn, ElfEnter, ElfCall,
     ElfReturn, JavaThrows, In
<1>10. /\ ~GateEnter /\ ~GateNull /\ ~VinterpEnter /\ ~VnativeEnter /\ ~VnativeDone /\ ~JniEnter /\ ~NativeReturn
       /\ ~NativeThrows /\ ~NativeClears /\ ~NativeCall /\ ~CallEnter /\ ~JcniCall /\ ~JcniEnter /\ ~JcniReturn
  BY <1>2 DEF GateEnter, GateNull, VinterpEnter, VnativeEnter, VnativeDone, JniEnter, NativeReturn, NativeThrows,
     NativeClears, NativeCall, CallEnter, JcniCall, JcniEnter, JcniReturn, In
<1> QED
  BY <1>3, <1>4, <1>5, <1>6, <1>7, <1>8, <1>9, <1>10 DEF ExecutionNext

\* An exception gets to the innermost handler for it, and to no other.
THEOREM HandlerHolds == (LockFailuresLeave /\ ExecutionSpec) => HandlerFound
<1> SUFFICES ASSUME LockFailuresLeave
             PROVE  ExecutionSpec => HandlerFound
  OBVIOUS
<1>1. ExecutionInv /\ [ExecutionNext]_execvars => [Onward]_execvars
  BY StepOnward
<1>2. ExecutionSpec => []ExecutionInv
  BY Invariance
<1> QED
  BY <1>1, <1>2, PTL DEF ExecutionSpec, HandlerFound, Onward, Passed, Returned, IsTaken
=============================================================================
