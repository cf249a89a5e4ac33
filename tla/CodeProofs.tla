---------------------------- MODULE CodeProofs -----------------------------
(* Proofs of what Jni and Dispatch state.  Jni: the slots in use are those  *)
(* of the references that somebody has, and the first exception is what     *)
(* native code sees.  Dispatch: the instanceof tables, and what is made of  *)
(* them, say what the declarations say.                                     *)
EXTENDS Jni, Dispatch, TLAPS, NaturalsInduction, WellFoundedInduction, SequenceTheorems, FiniteSetTheorems

-----------------------------------------------------------------------------
(* Numbers *)

\* A set of numbers has a least.
LEMMA Least ==
  ASSUME NEW S \in SUBSET Nat, S # {} PROVE \E m \in S : \A k \in S : m <= k
<1>1. PICK m \in S : \A k \in S : ~(<<k, m>> \in OpToRel(<, Nat))
  BY WFMin, NatLessThanWellFounded
<1>2. \A k \in S : ~(k < m)
  BY <1>1 DEF OpToRel
<1> QED
  BY <1>2

\* Min and Max are what they say.
LEMMA MinIs ==
  ASSUME NEW S \in SUBSET Nat, S # {} PROVE Min(S) \in S /\ \A k \in S : Min(S) <= k
BY Least DEF Min

\* One that is bounded has a greatest.
LEMMA MaxIs ==
  ASSUME NEW n \in Nat, NEW S \in SUBSET (0 .. n), S # {} PROVE Max(S) \in S
<1> DEFINE T == {n - k : k \in S}
<1>1. T \in SUBSET Nat /\ T # {}
  <2>1. \A k \in S : n - k \in Nat
    OBVIOUS
  <2>2. T \in SUBSET Nat
    BY <2>1
  <2>3. T # {}
    OBVIOUS
  <2> QED
    BY <2>2, <2>3
<1>2. PICK i \in T : \A k \in T : i <= k
  <2> HIDE DEF T
  <2> QED
    BY <1>1, Least
<1>3. PICK m \in S : i = n - m
  BY <1>2
<1>4. ASSUME NEW k \in S PROVE m >= k
  <2>1. n - k \in T
    OBVIOUS
  <2>2. n - m <= n - k
    BY <1>2, <1>3, <2>1
  <2> QED
    BY <2>2
<1> QED
  BY <1>4 DEF Max

-----------------------------------------------------------------------------
(* Slots *)

Slots == 1 .. RefsPerFrame

\* A new frame, one with a slot taken, one with a slot freed.
LEMMA NewFrame ==
  ASSUME JniAssumption, NEW e \in BOOLEAN
  PROVE  Frame(e) \in FrameType /\ Frame(e).used = {} /\ Frame(e).extension = e
BY DEF Frame, FrameType

LEMMA TakenIs ==
  ASSUME JniAssumption, NEW f \in FrameType, NEW i \in Slots, NEW o \in Objects
  PROVE  /\ Taken(f, i, o) \in FrameType /\ Taken(f, i, o).extension = f.extension
         /\ Taken(f, i, o).used = f.used \cup {i}
         /\ \A j \in Slots : Taken(f, i, o).refs[j] = IF j = i THEN o ELSE f.refs[j]
BY DEF Taken, FrameType, Slots

LEMMA FreedIs ==
  ASSUME JniAssumption, NEW f \in FrameType, NEW i \in Slots
  PROVE  /\ Freed(f, i) \in FrameType /\ Freed(f, i).extension = f.extension
         /\ Freed(f, i).used = f.used \ {i}
         /\ \A j \in Slots : Freed(f, i).refs[j] = IF j = i THEN NoRef ELSE f.refs[j]
BY DEF Freed, FrameType, Slots

\* What a frame is made of.
LEMMA SlotsAre ==
  ASSUME JniAssumption, NEW f \in FrameType
  PROVE  f.used \subseteq Slots /\ f.extension \in BOOLEAN /\ f.refs \in [Slots -> Objects \cup {NoRef}]
BY DEF FrameType, Slots

LEMMA RefIs ==
  ASSUME NEW list \in {"local", "global"}, NEW n \in Nat, NEW i \in Nat, NEW o \in Objects
  PROVE  /\ Ref(list, n, i, o) \in References /\ Ref(list, n, i, o).obj = o
         /\ Ref(list, n, i, o).at[1] = list /\ Ref(list, n, i, o).at[2] = n /\ Ref(list, n, i, o).at[3] = i
BY DEF Ref, References

\* A reference is its slot and its object.
LEMMA RefOf ==
  ASSUME NEW r \in References
  PROVE  /\ r = Ref(r.at[1], r.at[2], r.at[3], r.obj) /\ r.obj \in Objects
         /\ r.at[1] \in {"local", "global"} /\ r.at[2] \in Nat /\ r.at[3] \in Nat
BY DEF Ref, References

\* NULL refers to nothing.
LEMMA NoRefIsNone ==
  ASSUME JniAssumption PROVE NoRef \notin References /\ NoRef \notin Objects
BY DEF JniAssumption

\* The references that are held are determined by the slots in use.
LEMMA HeldIf ==
  ASSUME NEW list, NEW fs, NEW S, Holds(list, fs, S),
         NEW r \in References, r.at[1] = list, IsIn(r, fs)
  PROVE  r \in S
BY RefOf DEF Holds, IsIn

\* What somebody may do to the frames without changing where scopes begin.
Extends(fs, gs) ==
  /\ gs \in Seq(FrameType) /\ Len(gs) >= Len(fs)
  /\ \A n \in 1 .. Len(gs) : gs[n].extension <=> IF n <= Len(fs) THEN fs[n].extension ELSE TRUE

\* A slot is taken.
Takes(fs, gs, n, i, o) == gs = [fs EXCEPT ![n] = Taken(@, i, o)]

\* Then the reference to the slot is one more.
LEMMA TakeHolds ==
  ASSUME JniAssumption, NEW list \in {"local", "global"}, NEW fs \in Seq(FrameType), NEW S, Holds(list, fs, S),
         NEW n \in DOMAIN fs, NEW i \in Free(fs[n]), NEW o \in Objects, NEW gs,
         Takes(fs, gs, n, i, o)
  PROVE  /\ Extends(fs, gs) /\ Len(gs) = Len(fs) /\ Ref(list, n, i, o) \in References \ S
         /\ Holds(list, gs, S \cup {Ref(list, n, i, o)})
         /\ AllFull(fs) => AllFull(gs)
<1>1. /\ DOMAIN fs = 1 .. Len(fs) /\ Len(fs) \in Nat /\ \A m \in DOMAIN fs : fs[m] \in FrameType
      /\ n \in Nat
  OBVIOUS
<1>2. i \in Slots /\ i \in Nat /\ i \notin fs[n].used
  BY DEF Free, Slots, JniAssumption
<1>3. PICK f \in FrameType :
        /\ f = Taken(fs[n], i, o) /\ f.extension = fs[n].extension /\ f.used = fs[n].used \cup {i}
        /\ \A j \in Slots : f.refs[j] = IF j = i THEN o ELSE fs[n].refs[j]
  BY <1>1, <1>2, TakenIs
<1>4. gs = [fs EXCEPT ![n] = f]
  BY <1>3 DEF Takes
<1>5. /\ gs \in Seq(FrameType) /\ Len(gs) = Len(fs) /\ DOMAIN gs = DOMAIN fs /\ gs[n] = f
       /\ \A m \in DOMAIN fs : m # n => gs[m] = fs[m]
  BY <1>1, <1>4, ExceptSeq
<1>6. Extends(fs, gs)
  <2>1. \A m \in 1 .. Len(gs) : gs[m].extension = fs[m].extension
    BY <1>1, <1>3, <1>5
  <2> QED
    BY <1>1, <1>5, <2>1 DEF Extends
<1>7. PICK q : q = Ref(list, n, i, o)
  OBVIOUS
<1>8. q \in References /\ q.obj = o /\ q.at[1] = list /\ q.at[2] = n /\ q.at[3] = i
  BY <1>1, <1>2, <1>7, RefIs
<1>9. q \notin S
  BY <1>2, <1>8 DEF Holds, IsIn
<1>10. \A m \in DOMAIN fs, j \in Slots :
        /\ j \in gs[m].used <=> j \in fs[m].used \/ (m = n /\ j = i)
        /\ gs[m].refs[j] = IF m = n /\ j = i THEN o ELSE fs[m].refs[j]
  BY <1>1, <1>2, <1>3, <1>5
<1>11. \A m \in DOMAIN fs : fs[m].used \subseteq Slots /\ gs[m].used \subseteq Slots
  BY <1>1, <1>5, SlotsAre
<1>12. ASSUME NEW r \in S \cup {q}
      PROVE  r \in References /\ r.at[1] = list /\ IsIn(r, gs)
  <2>1. CASE r = q
    BY <1>2, <1>10, <1>5, <1>8, <2>1 DEF IsIn
  <2>2. CASE r \in S
    <3>1. r \in References /\ r.at[1] = list /\ IsIn(r, fs)
      BY <2>2 DEF Holds
    <3>2. r.at[2] \in DOMAIN fs /\ r.at[3] \in Slots /\ ~(r.at[2] = n /\ r.at[3] = i)
      BY <1>2, <1>11, <3>1 DEF IsIn
    <3> QED
      BY <1>10, <1>5, <3>1, <3>2 DEF IsIn
  <2> QED
    BY <2>1, <2>2
<1>13. ASSUME NEW m \in DOMAIN gs, NEW j \in gs[m].used, gs[m].refs[j] \in Objects
      PROVE  Ref(list, m, j, gs[m].refs[j]) \in S \cup {q}
  <2>1. m \in DOMAIN fs /\ j \in Slots
    BY <1>11, <1>5
  <2>2. CASE m = n /\ j = i
    BY <1>7, <1>10, <2>1, <2>2
  <2>3. CASE ~(m = n /\ j = i)
    BY <1>10, <1>13, <2>1, <2>3 DEF Holds
  <2> QED
    BY <2>2, <2>3
<1>14. Holds(list, gs, S \cup {q})
  BY <1>12, <1>13 DEF Holds
<1>15. ASSUME AllFull(fs) PROVE AllFull(gs)
  BY <1>5, <1>10, <1>11, <1>15 DEF AllFull
<1> QED
  BY <1>6, <1>7, <1>14, <1>15, <1>5, <1>8, <1>9

\* Slots are freed.
Drops(fs, gs, R) ==
  /\ gs \in Seq(FrameType) /\ Len(gs) = Len(fs)
  /\ \A n \in DOMAIN fs :
       /\ gs[n].extension = fs[n].extension
       /\ \A i \in Slots :
            /\ i \in gs[n].used <=> i \in fs[n].used /\ \A r \in R : r.at[2] # n \/ r.at[3] # i
            /\ i \in gs[n].used => gs[n].refs[i] = fs[n].refs[i]

\* Then the references are no more.
LEMMA DropHolds ==
  ASSUME JniAssumption, NEW list \in {"local", "global"}, NEW fs \in Seq(FrameType), NEW S, Holds(list, fs, S),
         NEW R \in SUBSET S, NEW gs, Drops(fs, gs, R)
  PROVE  /\ Extends(fs, gs) /\ Holds(list, gs, S \ R)
         /\ AllFull(fs) => AllFull(gs)
<1>1. /\ DOMAIN fs = 1 .. Len(fs) /\ DOMAIN gs = DOMAIN fs /\ Len(fs) \in Nat /\ gs \in Seq(FrameType)
      /\ Len(gs) = Len(fs) /\ \A n \in DOMAIN fs : fs[n] \in FrameType /\ gs[n] \in FrameType
  BY DEF Drops
<1>2. \A n \in DOMAIN fs : fs[n].used \subseteq Slots /\ gs[n].used \subseteq Slots
  BY <1>1, SlotsAre
<1>3. Extends(fs, gs)
  BY <1>1 DEF Extends, Drops
<1>4. ASSUME NEW r \in S \ R PROVE r \in References /\ r.at[1] = list /\ IsIn(r, gs)
  <2>1. r \in References /\ r.at[1] = list /\ IsIn(r, fs)
    BY DEF Holds
  <2>2. ASSUME NEW q \in R PROVE q.at[2] # r.at[2] \/ q.at[3] # r.at[3]
    <3>1. q \in References /\ q.at[1] = list /\ IsIn(q, fs)
      BY DEF Holds
    <3>2. ASSUME q.at[2] = r.at[2], q.at[3] = r.at[3] PROVE FALSE
      <4>1. q.obj = r.obj
        BY <2>1, <3>1, <3>2 DEF IsIn
      <4>2. q = r
        BY <2>1, <3>1, <3>2, <4>1, RefOf
      <4> QED
        BY <4>2
    <3> QED
      BY <3>2
  <2> QED
    BY <1>1, <1>2, <2>1, <2>2 DEF IsIn, Drops
<1>5. ASSUME NEW n \in DOMAIN gs, NEW i \in gs[n].used, gs[n].refs[i] \in Objects
      PROVE  Ref(list, n, i, gs[n].refs[i]) \in S \ R
  <2>1. i \in Slots /\ n \in DOMAIN fs /\ i \in fs[n].used /\ gs[n].refs[i] = fs[n].refs[i]
    BY <1>1, <1>2 DEF Drops
  <2>2. Ref(list, n, i, gs[n].refs[i]) \in S
    BY <1>5, <2>1 DEF Holds
  <2>3. Ref(list, n, i, gs[n].refs[i]).at[2] = n /\ Ref(list, n, i, gs[n].refs[i]).at[3] = i
    BY DEF Ref
  <2> QED
    BY <2>1, <2>2, <2>3 DEF Drops
<1>6. Holds(list, gs, S \ R)
  BY <1>4, <1>5 DEF Holds
<1>7. ASSUME AllFull(fs) PROVE AllFull(gs)
  BY <1>1, <1>2, <1>7 DEF AllFull, Drops
<1> QED
  BY <1>3, <1>6, <1>7

\* One reference is freed.
LEMMA FreeHolds ==
  ASSUME JniAssumption, NEW list \in {"local", "global"}, NEW fs \in Seq(FrameType), NEW S, Holds(list, fs, S),
         NEW r \in S
  PROVE  /\ Extends(fs, FreeRef(fs, r)) /\ Holds(list, FreeRef(fs, r), S \ {r})
         /\ Len(FreeRef(fs, r)) = Len(fs)
         /\ AllFull(fs) => AllFull(FreeRef(fs, r))
<1> DEFINE n == r.at[2]
           i == r.at[3]
<1>1. r \in References /\ n \in DOMAIN fs /\ i \in fs[n].used
  BY DEF Holds, IsIn
<1>2. DOMAIN fs = 1 .. Len(fs) /\ \A m \in DOMAIN fs : fs[m] \in FrameType
  OBVIOUS
<1> HIDE DEF n, i
<1>3. i \in Slots
  BY <1>1, <1>2, SlotsAre
<1>4. PICK gs : gs = [fs EXCEPT ![n] = Freed(@, i)]
  OBVIOUS
<1>5. /\ gs \in Seq(FrameType) /\ Len(gs) = Len(fs) /\ gs[n] = Freed(fs[n], i)
      /\ \A m \in DOMAIN fs : m # n => gs[m] = fs[m]
  BY <1>1, <1>2, <1>3, <1>4, FreedIs
<1>6. {r} \in SUBSET S
  OBVIOUS
<1>7. ASSUME NEW m \in DOMAIN fs
      PROVE  /\ gs[m].extension = fs[m].extension
             /\ \A j \in Slots : /\ j \in gs[m].used <=> j \in fs[m].used /\ (n # m \/ i # j)
                                 /\ j \in gs[m].used => gs[m].refs[j] = fs[m].refs[j]
  <2>1. CASE m = n
    <3>1. /\ gs[m].extension = fs[m].extension /\ gs[m].used = fs[m].used \ {i}
          /\ \A j \in Slots : gs[m].refs[j] = IF j = i THEN NoRef ELSE fs[m].refs[j]
      BY <1>2, <1>3, <1>5, <2>1, FreedIs
    <3> QED
      BY <2>1, <3>1
  <2>2. CASE m # n
    BY <1>5, <2>2
  <2> QED
    BY <2>1, <2>2
<1>8. Drops(fs, gs, {r})
  <2>1. ASSUME NEW m \in DOMAIN fs, NEW j \in Slots
        PROVE  j \in gs[m].used <=> j \in fs[m].used /\ \A q \in {r} : q.at[2] # m \/ q.at[3] # j
    <3>1. (n # m \/ i # j) <=> \A q \in {r} : q.at[2] # m \/ q.at[3] # j
      BY DEF n, i
    <3> QED
      BY <1>7, <3>1
  <2> QED
    BY <1>5, <1>7, <2>1 DEF Drops
<1>9. FreeRef(fs, r) = gs
  BY <1>4 DEF FreeRef, n, i
<1>10. /\ Extends(fs, gs) /\ Holds(list, gs, S \ {r})
       /\ AllFull(fs) => AllFull(gs)
  BY <1>6, <1>8, DropHolds
<1> QED
  BY <1>5, <1>9, <1>10

\* The references of a function that fails.
LEMMA FreeAllHolds ==
  ASSUME JniAssumption, frames \in Seq(FrameType), NEW S, Holds("local", frames, S), NEW R \in SUBSET S
  PROVE  /\ Extends(frames, FreeAll(R)) /\ Holds("local", FreeAll(R), S \ R)
         /\ AllFull(frames) => AllFull(FreeAll(R))
<1> DEFINE slots(n) == {ref.at[3] : ref \in {ref \in R : ref.at[2] = n}}
<1>1. /\ DOMAIN frames = 1 .. Len(frames) /\ Len(frames) \in Nat
      /\ \A n \in DOMAIN frames : frames[n] \in FrameType
  OBVIOUS
<1>2. PICK gs : gs = FreeAll(R)
  OBVIOUS
<1>3. ASSUME NEW n \in DOMAIN frames
      PROVE  /\ gs[n] \in FrameType /\ gs[n].extension = frames[n].extension
             /\ gs[n].used = frames[n].used \ slots(n)
             /\ \A i \in Slots : gs[n].refs[i] = IF i \in slots(n) THEN NoRef ELSE frames[n].refs[i]
  <2>1. gs[n] = [frames[n] EXCEPT !.used = @ \ slots(n),
                                  !.refs = [i \in 1 .. RefsPerFrame |->
                                              IF i \in slots(n) THEN NoRef ELSE frames[n].refs[i]]]
    BY <1>2 DEF FreeAll
  <2> HIDE DEF slots
  <2>2. frames[n] \in FrameType
    BY <1>1
  <2>3. PICK f \in FrameType : f = frames[n]
    BY <2>2
  <2>4. PICK qs : qs = [i \in 1 .. RefsPerFrame |-> IF i \in slots(n) THEN NoRef ELSE f.refs[i]]
    OBVIOUS
  <2>5. /\ qs \in [Slots -> Objects \cup {NoRef}]
        /\ \A i \in Slots : qs[i] = IF i \in slots(n) THEN NoRef ELSE f.refs[i]
    BY <2>4, SlotsAre DEF Slots
  <2>6. gs[n] = [f EXCEPT !.used = @ \ slots(n), !.refs = qs]
    BY <2>1, <2>3, <2>4
  <2> QED
    BY <2>3, <2>5, <2>6 DEF FrameType, Slots
<1>4. DOMAIN gs = 1 .. Len(frames)
  BY <1>1, <1>2 DEF FreeAll
<1>5. gs \in Seq(FrameType) /\ Len(gs) = Len(frames)
  <2>1. \A n \in 1 .. Len(frames) : gs[n] \in FrameType
    BY <1>1, <1>3
  <2>2. gs = [n \in 1 .. Len(frames) |-> gs[n]]
    BY <1>2, <1>4 DEF FreeAll
  <2> QED
    BY <1>1, <2>1, <2>2
<1>6. ASSUME NEW n \in DOMAIN frames, NEW i \in Slots
      PROVE  /\ i \in gs[n].used <=> i \in frames[n].used /\ \A r \in R : r.at[2] # n \/ r.at[3] # i
             /\ i \in gs[n].used => gs[n].refs[i] = frames[n].refs[i]
  BY <1>3
<1> HIDE DEF slots
<1>7. \A n \in DOMAIN frames : gs[n].extension = frames[n].extension
  BY <1>3
<1>8. Drops(frames, gs, R)
  BY <1>5, <1>6, <1>7 DEF Drops
<1>9. /\ Extends(frames, gs) /\ Holds("local", gs, S \ R)
      /\ AllFull(frames) => AllFull(gs)
  BY <1>8, DropHolds
<1> QED
  BY <1>2, <1>9

\* Frames are added, all empty.
Longer(fs, gs) ==
  /\ gs \in Seq(FrameType) /\ Len(gs) >= Len(fs)
  /\ \A n \in 1 .. Len(gs) : IF n <= Len(fs) THEN gs[n] = fs[n] ELSE gs[n].used = {}

\* Then the references are as before.
LEMMA LongerHolds ==
  ASSUME JniAssumption, NEW list \in {"local", "global"}, NEW fs \in Seq(FrameType), NEW S, Holds(list, fs, S),
         NEW gs, Longer(fs, gs)
  PROVE  Holds(list, gs, S) /\ (AllFull(fs) => AllFull(gs))
<1>1. /\ DOMAIN fs = 1 .. Len(fs) /\ DOMAIN gs = 1 .. Len(gs) /\ Len(fs) \in Nat /\ Len(gs) \in Nat
      /\ \A n \in DOMAIN fs : n \in DOMAIN gs /\ gs[n] = fs[n]
  BY LenProperties DEF Longer
<1>2. \A n \in DOMAIN gs : \A i \in gs[n].used : n \in DOMAIN fs
  BY <1>1 DEF Longer
<1>3. \A r \in S : r \in References /\ r.at[1] = list /\ IsIn(r, gs)
  BY <1>1 DEF Holds, IsIn
<1>4. ASSUME NEW n \in DOMAIN gs, NEW i \in gs[n].used, gs[n].refs[i] \in Objects
      PROVE  Ref(list, n, i, gs[n].refs[i]) \in S
  <2>1. n \in DOMAIN fs /\ gs[n] = fs[n]
    BY <1>1, <1>2
  <2> QED
    BY <1>4, <2>1 DEF Holds
<1>5. ASSUME AllFull(fs) PROVE AllFull(gs)
  BY <1>1, <1>2, <1>5 DEF AllFull
<1> QED
  BY <1>3, <1>4, <1>5 DEF Holds

\* Frames are popped, with the references in them.
LEMMA CutHolds ==
  ASSUME JniAssumption, NEW list \in {"local", "global"}, NEW fs \in Seq(FrameType), NEW S, Holds(list, fs, S),
         NEW b \in 0 .. Len(fs)
  PROVE  /\ SubSeq(fs, 1, b) \in Seq(FrameType) /\ Len(SubSeq(fs, 1, b)) = b
         /\ \A n \in 1 .. b : SubSeq(fs, 1, b)[n] = fs[n]
         /\ Holds(list, SubSeq(fs, 1, b), {r \in S : r.at[2] <= b})
         /\ AllFull(fs) => AllFull(SubSeq(fs, 1, b))
<1>1. DOMAIN fs = 1 .. Len(fs) /\ Len(fs) \in Nat
  OBVIOUS
<1>2. PICK gs : gs = SubSeq(fs, 1, b)
  OBVIOUS
<1>3. gs \in Seq(FrameType) /\ Len(gs) = b /\ DOMAIN gs = 1 .. b /\ \A n \in 1 .. b : gs[n] = fs[n]
  BY <1>1, <1>2
<1>4. \A n \in 1 .. b : n \in DOMAIN fs /\ n <= b
  BY <1>1
<1>5. \A r \in S : r.at[2] <= b => r \in References /\ r.at[1] = list /\ IsIn(r, gs)
  BY <1>1, <1>3, <1>4 DEF Holds, IsIn
<1>6. ASSUME NEW n \in DOMAIN gs, NEW i \in gs[n].used, gs[n].refs[i] \in Objects
      PROVE  Ref(list, n, i, gs[n].refs[i]) \in {r \in S : r.at[2] <= b}
  <2>1. n \in DOMAIN fs /\ n <= b /\ gs[n] = fs[n]
    BY <1>3, <1>4
  <2>2. Ref(list, n, i, gs[n].refs[i]) \in S
    BY <1>6, <2>1 DEF Holds
  <2>3. Ref(list, n, i, gs[n].refs[i]).at[2] = n
    BY DEF Ref
  <2> QED
    BY <2>1, <2>2, <2>3
<1>7. ASSUME AllFull(fs) PROVE AllFull(gs)
  BY <1>3, <1>4, <1>7 DEF AllFull
<1>8. Holds(list, gs, {r \in S : r.at[2] <= b})
  BY <1>5, <1>6 DEF Holds
<1> QED
  BY <1>2, <1>3, <1>7, <1>8

\* One frame is added, or as many as the capacity that is asked for needs.
LEMMA AppendHolds ==
  ASSUME JniAssumption, NEW fs \in Seq(FrameType), NEW e \in BOOLEAN, NEW gs, gs = Append(fs, Frame(e)),
         NEW b, b = Len(fs) + 1
  PROVE  /\ Longer(fs, gs) /\ Len(gs) = b /\ gs[b] = Frame(e) /\ gs \in Seq(FrameType)
         /\ SubSeq(gs, 1, b - 1) = fs /\ b \in DOMAIN gs
<1>1. PICK f \in FrameType : f = Frame(e) /\ f.used = {}
  BY NewFrame
<1>2. gs = Append(fs, f)
  BY <1>1
<1>3. /\ gs \in Seq(FrameType) /\ Len(gs) = b /\ gs[b] = f
      /\ \A n \in 1 .. Len(fs) : gs[n] = fs[n]
  BY <1>2, AppendProperties
<1>4. Len(fs) \in Nat /\ b \in Nat /\ b - 1 = Len(fs)
  BY LenProperties
<1>5. ASSUME NEW n \in 1 .. Len(gs) PROVE IF n <= Len(fs) THEN gs[n] = fs[n] ELSE gs[n].used = {}
  <2>1. CASE n <= Len(fs)
    BY <1>3, <1>4, <2>1
  <2>2. CASE ~(n <= Len(fs))
    <3>1. n = b
      BY <1>3, <1>4, <2>2
    <3> QED
      BY <1>1, <1>3, <2>2, <3>1
  <2> QED
    BY <2>1, <2>2
<1>6. SubSeq(gs, 1, Len(fs)) = fs
  BY <1>2, <1>4
<1>7. DOMAIN gs = 1 .. b /\ b >= 1
  BY <1>3, <1>4, LenProperties
<1> QED
  BY <1>1, <1>3, <1>4, <1>5, <1>6, <1>7 DEF Longer

LEMMA ExtendedHolds ==
  ASSUME JniAssumption, NEW fs \in Seq(FrameType), NEW k \in Nat, NEW gs, gs = Extended(fs, k)
  PROVE  Extends(fs, gs) /\ Longer(fs, gs)
<1>1. PICK d : d = (k + RefsPerFrame - 1) \div RefsPerFrame
  OBVIOUS
<1>2. d \in Nat
  BY <1>1 DEF JniAssumption
<1>3. PICK es : es = [j \in 1 .. d |-> Frame(TRUE)]
  OBVIOUS
<1>4. Frame(TRUE) \in FrameType /\ Frame(TRUE).used = {} /\ Frame(TRUE).extension = TRUE
  BY NewFrame
<1>5. es \in Seq(FrameType) /\ Len(es) = d /\ \A j \in 1 .. d : es[j] = Frame(TRUE)
  <2>1. es \in [1 .. d -> FrameType] /\ \A j \in 1 .. d : es[j] = Frame(TRUE)
    BY <1>3, <1>4
  <2>2. es \in Seq(FrameType)
    BY <1>2, <2>1
  <2>3. Len(es) = d
    BY <1>2, <1>3
  <2> QED
    BY <2>1, <2>2, <2>3
<1>6. gs = fs \o es
  BY <1>1, <1>3 DEF Extended
<1>7. /\ gs \in Seq(FrameType) /\ Len(gs) = Len(fs) + d
      /\ \A n \in 1 .. Len(fs) + d : gs[n] = IF n <= Len(fs) THEN fs[n] ELSE es[n - Len(fs)]
  BY <1>5, <1>6, ConcatProperties
<1>8. /\ Len(fs) \in Nat /\ DOMAIN fs = 1 .. Len(fs) /\ DOMAIN gs = 1 .. Len(fs) + d
      /\ Len(gs) >= Len(fs) /\ \A n \in DOMAIN fs : n \in 1 .. Len(fs) + d /\ n <= Len(fs)
  BY <1>2, <1>7, LenProperties
<1>9. ASSUME NEW n \in 1 .. Len(fs) + d, ~(n <= Len(fs)) PROVE gs[n] = Frame(TRUE)
  <2>1. n - Len(fs) \in 1 .. d
    BY <1>2, <1>8, <1>9
  <2> QED
    BY <1>5, <1>7, <1>9, <2>1
<1>10. Longer(fs, gs)
  <2>1. \A n \in 1 .. Len(gs) : IF n <= Len(fs) THEN gs[n] = fs[n] ELSE gs[n].used = {}
    BY <1>4, <1>7, <1>9
  <2> QED
    BY <1>7, <1>8, <2>1 DEF Longer
<1>11. Extends(fs, gs)
  <2>1. \A n \in 1 .. Len(gs) : gs[n].extension <=> IF n <= Len(fs) THEN fs[n].extension ELSE TRUE
    BY <1>4, <1>7, <1>9
  <2> QED
    BY <1>7, <1>8, <2>1 DEF Extends
<1> QED
  BY <1>10, <1>11

-----------------------------------------------------------------------------
(* Functions on local frames *)

\* The frames that a new reference is looked for in are frames that are there.
LEMMA SearchedAre ==
  ASSUME NEW fs \in Seq(FrameType)
  PROVE  Searched(fs) \subseteq DOMAIN fs /\ Searched(fs) \subseteq 0 .. Len(fs)
BY DEF Searched

\* A reference gets a free slot of a frame that is searched, if there is one.
LEMMA NewLocalTakes ==
  ASSUME JniAssumption, NEW fs \in Seq(FrameType), NEW o \in Objects,
         \E n \in Searched(fs) : Free(fs[n]) # {}
  PROVE  \E n \in Searched(fs) : \E i \in Free(fs[n]) :
           NewLocal(fs, o) = Outcome([fs EXCEPT ![n] = Taken(@, i, o)], Ref("local", n, i, o))
<1> DEFINE room == {n \in Searched(fs) : Free(fs[n]) # {}}
           n == Max(room)
           i == Min(Free(fs[n]))
<1>1. room # {} /\ room \in SUBSET (0 .. Len(fs)) /\ Len(fs) \in Nat
  BY SearchedAre
<1>2. n \in room
  <2> HIDE DEF room
  <2> QED
    BY <1>1, MaxIs
<1>3. Free(fs[n]) \in SUBSET Nat /\ Free(fs[n]) # {}
  BY <1>2 DEF Free, JniAssumption
<1>4. i \in Free(fs[n])
  BY <1>3, MinIs
<1>5. o # NoRef
  BY NoRefIsNone
<1>6. NewLocal(fs, o) = Outcome([fs EXCEPT ![n] = Taken(@, i, o)], Ref("local", n, i, o))
  BY <1>1, <1>5 DEF NewLocal
<1> QED
  BY <1>2, <1>4, <1>6

\* A new reference is one more, of a frame that is there; without room nothing changes.
LEMMA NewLocalIs ==
  ASSUME JniAssumption, NEW fs \in Seq(FrameType), NEW o \in Objects \cup {NoRef},
         NEW S, Holds("local", fs, S), AllFull(fs)
  PROVE  LET new == NewLocal(fs, o)
         IN  /\ Extends(fs, new.frames) /\ Len(new.frames) = Len(fs)
             /\ Holds("local", new.frames, S \cup Refs(new.ref)) /\ AllFull(new.frames)
             /\ new.ref \in References \cup {NoRef} /\ Refs(new.ref) \cap S = {}
             /\ new.ref # NoRef <=> o # NoRef /\ ~Full(fs, o)
             /\ new.ref # NoRef => new.ref.at[1] = "local"
<1>1. CASE o = NoRef \/ ~\E n \in Searched(fs) : Free(fs[n]) # {}
  <2>1. NewLocal(fs, o) = Outcome(fs, NoRef)
    BY <1>1 DEF NewLocal
  <2>2. NewLocal(fs, o).frames = fs /\ NewLocal(fs, o).ref = NoRef /\ Refs(NoRef) = {}
    BY <2>1 DEF Outcome, Refs
  <2>3. Extends(fs, fs)
    BY DEF Extends
  <2> QED
    BY <2>2, <2>3 DEF Full
<1>2. CASE o # NoRef /\ \E n \in Searched(fs) : Free(fs[n]) # {}
  <2>1. o \in Objects
    BY <1>2
  <2>2. PICK n \in Searched(fs) : \E i \in Free(fs[n]) :
          NewLocal(fs, o) = Outcome([fs EXCEPT ![n] = Taken(@, i, o)], Ref("local", n, i, o))
    BY <1>2, <2>1, NewLocalTakes
  <2>3. PICK i \in Free(fs[n]) :
          NewLocal(fs, o) = Outcome([fs EXCEPT ![n] = Taken(@, i, o)], Ref("local", n, i, o))
    BY <2>2
  <2>4. PICK gs : gs = [fs EXCEPT ![n] = Taken(@, i, o)]
    OBVIOUS
  <2>5. NewLocal(fs, o).frames = gs /\ NewLocal(fs, o).ref = Ref("local", n, i, o)
    BY <2>3, <2>4 DEF Outcome
  <2>6. n \in DOMAIN fs
    BY SearchedAre
  <2>7. Takes(fs, gs, n, i, o)
    BY <2>4 DEF Takes
  <2>8. /\ Extends(fs, gs) /\ Len(gs) = Len(fs) /\ Ref("local", n, i, o) \in References \ S
        /\ Holds("local", gs, S \cup {Ref("local", n, i, o)})
        /\ AllFull(fs) => AllFull(gs)
    BY <2>1, <2>6, <2>7, TakeHolds
  <2>9. Ref("local", n, i, o) # NoRef /\ Ref("local", n, i, o).at[1] = "local"
    BY <2>8, NoRefIsNone DEF Ref
  <2>10. Refs(Ref("local", n, i, o)) = {Ref("local", n, i, o)}
    BY <2>9 DEF Refs
  <2> QED
    BY <1>2, <2>5, <2>8, <2>9, <2>10 DEF Full
<1> QED
  BY <1>1, <1>2

\* The frame on top and its extensions are popped.
LEMMA PopIs ==
  ASSUME JniAssumption, NEW fs \in Seq(FrameType), NEW b \in DOMAIN fs, ~fs[b].extension,
         \A n \in DOMAIN fs : n > b => fs[n].extension, NEW o
  PROVE  Pop(fs, o) = NewLocal(SubSeq(fs, 1, b - 1), o)
<1>1. DOMAIN fs = 1 .. Len(fs) /\ Len(fs) \in Nat
  OBVIOUS
<1>2. b \in Searched(fs)
  BY <1>1 DEF Searched
<1>3. ASSUME NEW n \in Searched(fs) PROVE n \in Nat /\ n >= b
  BY <1>1, <1>3 DEF Searched
<1>4. Searched(fs) \in SUBSET Nat /\ Searched(fs) # {}
  BY <1>2, <1>3
<1>5. Min(Searched(fs)) \in Searched(fs) /\ Min(Searched(fs)) <= b
  BY <1>2, <1>4, MinIs
<1>6. Min(Searched(fs)) = b
  BY <1>1, <1>3, <1>5
<1> QED
  BY <1>6 DEF Pop

\* A function's own frame comes and goes.
LEMMA OwnFrame ==
  ASSUME JniAssumption, NEW fs \in Seq(FrameType), NEW o
  PROVE  Pop(Append(fs, Frame(FALSE)), o) = NewLocal(fs, o)
<1>1. PICK gs : gs = Append(fs, Frame(FALSE))
  OBVIOUS
<1>2. PICK b : b = Len(fs) + 1
  OBVIOUS
<1>3. Len(gs) = b /\ gs[b] = Frame(FALSE) /\ gs \in Seq(FrameType) /\ SubSeq(gs, 1, b - 1) = fs /\ b \in DOMAIN gs
  BY <1>1, <1>2, AppendHolds
<1>4. ~gs[b].extension
  BY <1>3, NewFrame
<1>5. \A n \in DOMAIN gs : n > b => gs[n].extension
  <2>1. DOMAIN gs = 1 .. b /\ b \in Nat
    BY <1>3, LenProperties
  <2> QED
    BY <2>1
<1>6. Pop(gs, o) = NewLocal(SubSeq(gs, 1, b - 1), o)
  BY <1>3, <1>4, <1>5, PopIs
<1> QED
  BY <1>1, <1>3, <1>6

\* The outcomes of the functions in their own frames.
Kinds == [result : {"none", "object", "value", "retval", "throws"}, posts : SUBSET Posted]

\* A function in its own frames leaves the caller's frames with one reference more or none,
\* and posts an exception or succeeds; only what is taken from env->retval comes with one.
LEMMA PerformIs ==
  ASSUME JniAssumption, frames \in Seq(FrameType), NEW f, Kind(f) \in Kinds, NEW end \in Perform(f)
  PROVE  \E o \in {NoRef, Result} :
           /\ end.frames = NewLocal(frames, o).frames /\ end.ref = NewLocal(frames, o).ref
           /\ end.exc \in Posted \cup {NoExc}
           /\ end.exc # NoExc /\ Kind(f).result # "retval" => NewLocal(frames, o).ref = NoRef
           /\ Kind(f).result = "object" /\ end.exc = NoExc => NewLocal(frames, o).ref # NoRef
           /\ Kind(f).result \in {"none", "throws"} => NewLocal(frames, o).ref = NoRef
<1> DEFINE Ends(o, e) ==
             LET fs == Pop(Append(frames, Frame(FALSE)), o)
             IN  [frames |-> fs.frames, ref |-> fs.ref, exc |-> IF Full(frames, o) THEN "Internal" ELSE e]
<1>1. PICK o \in {NoRef, Result}, e \in Posted \cup {NoExc} :
        /\ end = Ends(o, e) /\ (e # NoExc /\ Kind(f).result # "retval" => o = NoRef)
        /\ e = NoExc /\ Kind(f).result = "object" => o = Result
        /\ Kind(f).result \in {"none", "throws"} => o = NoRef
  <2>1. Kind(f).posts \subseteq Posted /\ NoExc \notin Kind(f).posts
    BY DEF Kinds, JniAssumption
  <2>2. \/ \E e \in Kind(f).posts : end = Ends(NoRef, e)
        \/ Kind(f).result = "retval" /\ \E e \in Kind(f).posts : end = Ends(Result, e)
        \/ Kind(f).result \in {"object", "value", "retval"} /\ end = Ends(Result, NoExc)
        \/ Kind(f).result \in {"none", "value", "retval"} /\ end = Ends(NoRef, NoExc)
    BY DEF Perform
  <2> HIDE DEF Ends
  <2>3. CASE \E e \in Kind(f).posts : end = Ends(NoRef, e)
    BY <2>1, <2>3
  <2>4. CASE Kind(f).result \in {"object", "value", "retval"} /\ end = Ends(Result, NoExc)
    BY <2>4
  <2>5. CASE Kind(f).result \in {"none", "value", "retval"} /\ end = Ends(NoRef, NoExc)
    BY <2>5
  <2>6. CASE Kind(f).result = "retval" /\ \E e \in Kind(f).posts : end = Ends(Result, e)
    BY <2>1, <2>6
  <2> QED
    BY <2>2, <2>3, <2>4, <2>5, <2>6
<1>2. Pop(Append(frames, Frame(FALSE)), o) = NewLocal(frames, o)
  BY OwnFrame
<1>3. /\ end.frames = NewLocal(frames, o).frames /\ end.ref = NewLocal(frames, o).ref
      /\ end.exc = IF Full(frames, o) THEN "Internal" ELSE e
  BY <1>1, <1>2
<1> HIDE DEF Ends
<1>4. "Internal" \in Posted /\ NoExc # "Internal" /\ Result # NoRef
  BY NoRefIsNone DEF Posted, JniAssumption
<1>5. Full(frames, NoRef) = FALSE /\ NewLocal(frames, NoRef).ref = NoRef
  BY DEF Full, NewLocal, Outcome
<1> QED
  BY <1>1, <1>3, <1>4, <1>5 DEF Full

\* A frame and its extensions, all of whose slots are free.
Opens(fs, gs, b) ==
  /\ Longer(fs, gs) /\ gs \in Seq(FrameType) /\ b \in DOMAIN gs /\ Searched(gs) = b .. Len(gs)
  /\ \A n \in b .. Len(gs) : gs[n].used = {}
  /\ \A n \in 1 .. Len(gs) : n < b => gs[n] = fs[n]
  /\ \A n \in 1 .. Len(gs) : n >= b => (gs[n].extension <=> n > b)

\* A frame on top of the others, with extensions, is such a frame.
LEMMA OpensIf ==
  ASSUME JniAssumption, NEW fs \in Seq(FrameType), NEW bs \in Seq(FrameType), NEW gs, NEW b \in Nat,
         Longer(fs, bs), Len(bs) = b, bs[b] = Frame(FALSE), Len(fs) = b - 1, Extends(bs, gs), Longer(bs, gs)
  PROVE  Opens(fs, gs, b)
<1>1. Longer(fs, bs) /\ Len(bs) = b /\ bs[b] = Frame(FALSE) /\ bs \in Seq(FrameType)
  OBVIOUS
<1>2. Extends(bs, gs) /\ Longer(bs, gs)
  OBVIOUS
<1>3. gs \in Seq(FrameType) /\ Len(gs) >= Len(bs)
  BY <1>2 DEF Extends
<1>4. Len(fs) \in Nat /\ b \in Nat /\ b >= 1 /\ Len(gs) \in Nat /\ Len(gs) >= b /\ DOMAIN gs = 1 .. Len(gs)
  BY <1>1, <1>3, LenProperties
<1>5. PICK l \in Nat : l = Len(gs) /\ l >= b
  BY <1>4
<1>6. \A n \in 1 .. l : IF n <= b THEN gs[n] = bs[n] ELSE gs[n].used = {}
  BY <1>1, <1>2, <1>5 DEF Longer
<1>7. \A n \in 1 .. b : IF n <= Len(fs) THEN bs[n] = fs[n] ELSE bs[n].used = {}
  BY <1>1 DEF Longer
<1>8. \A n \in 1 .. l : gs[n].extension <=> IF n <= b THEN bs[n].extension ELSE TRUE
  BY <1>1, <1>2, <1>5 DEF Extends
<1>9. ~bs[b].extension
  BY <1>1, NewFrame
<1>10. ASSUME NEW n \in 1 .. l, n < b PROVE gs[n] = fs[n]
  <2>1. n \in 1 .. b /\ n <= Len(fs) /\ n <= b
    BY <1>4, <1>10
  <2> QED
    BY <1>6, <1>7, <2>1
<1>11. ASSUME NEW n \in 1 .. l, n >= b PROVE gs[n].used = {} /\ (gs[n].extension <=> n > b)
  <2>1. CASE n = b
    <3>1. n \in 1 .. b /\ ~(n <= Len(fs)) /\ n <= b /\ ~(n > b)
      BY <1>4, <2>1
    <3>2. gs[n] = bs[n] /\ bs[n].used = {}
      BY <1>6, <1>7, <3>1
    <3> QED
      BY <1>9, <2>1, <3>1, <3>2
  <2>2. CASE n # b
    <3>1. ~(n <= b) /\ n > b
      BY <1>4, <1>11, <2>2
    <3> QED
      BY <1>6, <1>8, <3>1
  <2> QED
    BY <2>1, <2>2
<1>12. ASSUME NEW n PROVE n \in Searched(gs) <=> n \in b .. l
  <2>1. n \in Searched(gs) <=> n \in 1 .. l /\ \A m \in n + 1 .. l : gs[m].extension
    BY <1>4, <1>5 DEF Searched
  <2>2. ASSUME n \in 1 .. l, n < b PROVE b \in n + 1 .. l /\ ~gs[b].extension
    <3>1. b \in 1 .. l /\ b >= b /\ ~(b > b)
      BY <1>4, <1>5
    <3>2. ~gs[b].extension
      BY <1>11, <3>1
    <3> QED
      BY <1>4, <1>5, <2>2, <3>2
  <2>3. ASSUME n \in b .. l, NEW m \in n + 1 .. l PROVE gs[m].extension
    <3>1. m \in 1 .. l /\ m >= b /\ m > b
      BY <1>4, <1>5, <2>3
    <3> QED
      BY <1>11, <3>1
  <2>4. n \in b .. l => n \in 1 .. l
    BY <1>4, <1>5
  <2>5. n \in 1 .. l /\ ~(n < b) => n \in b .. l
    BY <1>4, <1>5
  <2> QED
    BY <2>1, <2>2, <2>3, <2>4, <2>5
<1>13. Searched(gs) = b .. l
  BY <1>12
<1>14. Longer(fs, gs)
  <2>1. ASSUME NEW n \in 1 .. l PROVE IF n <= Len(fs) THEN gs[n] = fs[n] ELSE gs[n].used = {}
    <3>1. n <= Len(fs) <=> n < b
      BY <1>4
    <3>2. n < b \/ n >= b
      BY <1>4
    <3> QED
      BY <1>10, <1>11, <3>1, <3>2
  <2>2. Len(gs) >= Len(fs)
    BY <1>4
  <2> QED
    BY <1>3, <1>5, <2>1, <2>2 DEF Longer
<1>15. \A n \in b .. l : n \in 1 .. l /\ n >= b
  BY <1>4
<1>16. b \in 1 .. l
  BY <1>4, <1>5
<1> QED
  BY <1>3, <1>4, <1>5, <1>10, <1>11, <1>13, <1>14, <1>15, <1>16 DEF Opens

\* PushLocalFrame and a native method's own frame are.
LEMMA RoomIs ==
  ASSUME JniAssumption, NEW fs \in Seq(FrameType), NEW k \in Nat
  PROVE  Opens(fs, Extended(Append(fs, Frame(FALSE)), k), Len(fs) + 1)
<1>1. PICK bs : bs = Append(fs, Frame(FALSE))
  OBVIOUS
<1>2. PICK b : b = Len(fs) + 1
  OBVIOUS
<1>3. b \in Nat /\ Len(fs) = b - 1
  BY <1>2, LenProperties
<1>4. Longer(fs, bs) /\ Len(bs) = b /\ bs[b] = Frame(FALSE) /\ bs \in Seq(FrameType)
  BY <1>1, <1>2, AppendHolds
<1>5. PICK gs : gs = Extended(bs, k)
  OBVIOUS
<1>6. Extends(bs, gs) /\ Longer(bs, gs)
  BY <1>4, <1>5, ExtendedHolds
<1>7. Opens(fs, gs, b)
  BY <1>3, <1>4, <1>6, OpensIf
<1> QED
  BY <1>1, <1>2, <1>5, <1>7
\* The frames of a native method with d parameters.
Extra(d) == IF d + MinRefs > RefsPerFrame THEN d + MinRefs - RefsPerFrame ELSE 0
RoomFor(fs, d) == Extended(Append(fs, Frame(FALSE)), Extra(d))

\* They get their references one after the other.
Given(after, o) ==
  LET new == NewLocal(after.frames, o) IN [frames |-> new.frames, refs |-> after.refs \cup {new.ref}]
NoneYet(fs, d) == [frames |-> RoomFor(fs, d), refs |-> {}]
After(F, A, params, d) == F = [k \in 0 .. d |-> IF k = 0 THEN A ELSE Given(F[k - 1], params[k])]

\* What Entered gives is what the last parameter leads to;
LEMMA EnteredIs ==
  ASSUME NEW fs, NEW params, NEW d, d = Len(params), NEW A, A = NoneYet(fs, d), NEW F, After(F, A, params, d)
  PROVE  \E G : After(G, A, params, d) /\ Entered(fs, params) = G[d]
<1> DEFINE H == CHOOSE G : After(G, NoneYet(fs, Len(params)), params, Len(params))
<1>1. After(H, A, params, d)
  OBVIOUS
<1>2. Entered(fs, params) = H[Len(params)]
  BY DEF Entered, NoneYet, RoomFor, Extra, Given, After
<1> HIDE DEF H
<1> QED
  BY <1>1, <1>2

\* with one parameter,
LEMMA EnteredOne ==
  ASSUME NEW fs, NEW o PROVE Entered(fs, <<o>>) = Given(NoneYet(fs, 1), o)
<1>1. PICK A : A = NoneYet(fs, 1)
  OBVIOUS
<1>2. PICK B : B = Given(A, o)
  OBVIOUS
<1>3. PICK F : F = [k \in 0 .. 1 |-> IF k = 0 THEN A ELSE B]
  OBVIOUS
<1>4. F[0] = A
  BY <1>3
<1>5. \A k \in 0 .. 1 : k = 0 \/ (k = 1 /\ <<o>>[k] = o /\ k - 1 = 0)
  OBVIOUS
<1>6. After(F, A, <<o>>, 1)
  BY <1>2, <1>3, <1>4, <1>5 DEF After
<1>7. Len(<<o>>) = 1
  OBVIOUS
<1>8. PICK G : After(G, A, <<o>>, 1) /\ Entered(fs, <<o>>) = G[1]
  BY <1>1, <1>6, <1>7, EnteredIs
<1>9. G[0] = A /\ G[1] = Given(G[0], o)
  BY <1>8, <1>5 DEF After
<1> QED
  BY <1>1, <1>8, <1>9

\* and with two.
LEMMA EnteredTwo ==
  ASSUME NEW fs, NEW o, NEW p PROVE Entered(fs, <<o, p>>) = Given(Given(NoneYet(fs, 2), o), p)
<1>1. PICK A : A = NoneYet(fs, 2)
  OBVIOUS
<1>2. PICK B : B = Given(A, o)
  OBVIOUS
<1>3. PICK C : C = Given(B, p)
  OBVIOUS
<1>4. PICK F : F = [k \in 0 .. 2 |-> IF k = 0 THEN A ELSE IF k = 1 THEN B ELSE C]
  OBVIOUS
<1>5. F[0] = A /\ F[1] = B
  BY <1>4
<1>6. \A k \in 0 .. 2 : k = 0 \/ (k = 1 /\ <<o, p>>[k] = o /\ k - 1 = 0) \/ (k = 2 /\ <<o, p>>[k] = p /\ k - 1 = 1)
  OBVIOUS
<1>7. After(F, A, <<o, p>>, 2)
  BY <1>2, <1>3, <1>4, <1>5, <1>6 DEF After
<1>8. Len(<<o, p>>) = 2
  OBVIOUS
<1>9. PICK G : After(G, A, <<o, p>>, 2) /\ Entered(fs, <<o, p>>) = G[2]
  BY <1>1, <1>7, <1>8, EnteredIs
<1>10. G[0] = A /\ G[1] = Given(G[0], o) /\ G[2] = Given(G[1], p)
  BY <1>9, <1>6 DEF After
<1> QED
  BY <1>1, <1>9, <1>10

\* There are slots for the parameters.
LEMMA RoomForIs ==
  ASSUME JniAssumption, NEW fs \in Seq(FrameType), NEW d \in {1, 2}, NEW b, b = Len(fs) + 1
  PROVE  /\ Opens(fs, RoomFor(fs, d), b)
         /\ d = 2 => RefsPerFrame >= 2 \/ Len(RoomFor(fs, d)) > b
<1>1. PICK k : k = Extra(d)
  OBVIOUS
<1>2. k \in Nat /\ (RefsPerFrame = 1 /\ d = 2 => k = 1)
  BY <1>1 DEF JniAssumption, Extra
<1>3. RoomFor(fs, d) = Extended(Append(fs, Frame(FALSE)), k)
  BY <1>1 DEF RoomFor
<1>4. Opens(fs, RoomFor(fs, d), b)
  BY <1>2, <1>3, RoomIs
<1>5. ASSUME RefsPerFrame = 1, d = 2 PROVE Len(RoomFor(fs, d)) > b
  <2>1. (k + RefsPerFrame - 1) \div RefsPerFrame = 1
    BY <1>2, <1>5
  <2>2. PICK bs : bs = Append(fs, Frame(FALSE))
    OBVIOUS
  <2>3. bs \in Seq(FrameType) /\ Len(bs) = b
    BY <2>2, AppendHolds
  <2>4. PICK l \in Nat : l = 1
    OBVIOUS
  <2>5. PICK es : es = [j \in 1 .. l |-> Frame(TRUE)]
    OBVIOUS
  <2>6. es \in Seq(FrameType) /\ Len(es) = 1
    <3>1. Frame(TRUE) \in FrameType
      BY NewFrame
    <3>2. es \in [1 .. l -> FrameType]
      BY <2>5, <3>1
    <3>3. es \in Seq(FrameType)
      BY <3>2
    <3>4. Len(es) = l
      BY <2>5
    <3> QED
      BY <2>4, <3>3, <3>4
  <2>7. RoomFor(fs, d) = bs \o es
    BY <1>3, <2>1, <2>2, <2>5, <2>4 DEF Extended
  <2>8. Len(bs \o es) = Len(bs) + Len(es)
    BY <2>3, <2>6, ConcatProperties
  <2>9. b \in Nat
    BY <2>3, LenProperties
  <2>10. Len(bs \o es) = b + 1 /\ b \in Nat
    BY <2>3, <2>6, <2>8, <2>9
  <2> QED
    BY <2>7, <2>10
<1>6. RefsPerFrame >= 2 \/ RefsPerFrame = 1
  BY DEF JniAssumption
<1> QED
  BY <1>4, <1>5, <1>6
\* NewLocal takes a slot of one of these frames.
LocalTakes(fs, new, o) ==
  \E n \in Searched(fs), i \in Nat :
    i \in Free(fs[n]) /\ Takes(fs, new.frames, n, i, o) /\ new.ref = Ref("local", n, i, o)

LEMMA NewLocalIn ==
  ASSUME JniAssumption, NEW fs \in Seq(FrameType), NEW o \in Objects, NEW m \in Searched(fs), Free(fs[m]) # {}
  PROVE  LocalTakes(fs, NewLocal(fs, o), o)
<1>1. PICK n \in Searched(fs) : \E i \in Free(fs[n]) :
        NewLocal(fs, o) = Outcome([fs EXCEPT ![n] = Taken(@, i, o)], Ref("local", n, i, o))
  BY NewLocalTakes
<1>2. PICK i \in Free(fs[n]) :
        NewLocal(fs, o) = Outcome([fs EXCEPT ![n] = Taken(@, i, o)], Ref("local", n, i, o))
  BY <1>1
<1>3. i \in Nat
  BY DEF Free, JniAssumption
<1>4. PICK gs : gs = [fs EXCEPT ![n] = Taken(@, i, o)]
  OBVIOUS
<1>5. NewLocal(fs, o).frames = gs /\ NewLocal(fs, o).ref = Ref("local", n, i, o)
  BY <1>2, <1>4 DEF Outcome
<1> QED
  BY <1>3, <1>4, <1>5 DEF LocalTakes, Takes

\* Then the references are one more.
LEMMA LocalTakesHolds ==
  ASSUME JniAssumption, NEW fs \in Seq(FrameType), NEW S, Holds("local", fs, S), AllFull(fs),
         NEW o \in Objects, NEW new, LocalTakes(fs, new, o)
  PROVE  /\ Extends(fs, new.frames) /\ Len(new.frames) = Len(fs) /\ new.frames \in Seq(FrameType)
         /\ Holds("local", new.frames, S \cup {new.ref}) /\ AllFull(new.frames)
         /\ new.ref \in References \ S /\ new.ref.at[1] = "local"
<1>1. PICK n \in Searched(fs), i \in Nat :
        i \in Free(fs[n]) /\ Takes(fs, new.frames, n, i, o) /\ new.ref = Ref("local", n, i, o)
  BY DEF LocalTakes
<1>2. n \in DOMAIN fs
  BY SearchedAre
<1>3. /\ Extends(fs, new.frames) /\ Len(new.frames) = Len(fs) /\ Ref("local", n, i, o) \in References \ S
      /\ Holds("local", new.frames, S \cup {Ref("local", n, i, o)})
      /\ AllFull(fs) => AllFull(new.frames)
  BY <1>1, <1>2, TakeHolds
<1>4. Ref("local", n, i, o).at[1] = "local"
  BY DEF Ref
<1> QED
  BY <1>1, <1>3, <1>4 DEF Extends

\* There is room for the second parameter.
LEMMA StillRoom ==
  ASSUME JniAssumption, NEW fs, NEW gs, NEW b \in Nat, Opens(fs, gs, b), RefsPerFrame >= 2 \/ Len(gs) > b,
         NEW o \in Objects, NEW new, LocalTakes(gs, new, o)
  PROVE  \E m \in Searched(new.frames) : Free(new.frames[m]) # {}
<1>1. PICK n \in Searched(gs), i \in Nat : i \in Free(gs[n]) /\ Takes(gs, new.frames, n, i, o)
  BY DEF LocalTakes
<1>2. PICK hs : hs = new.frames
  OBVIOUS
<1>3. /\ gs \in Seq(FrameType) /\ b \in 1 .. Len(gs) /\ Searched(gs) = b .. Len(gs) /\ Len(gs) \in Nat
      /\ \A m \in b .. Len(gs) : gs[m].used = {}
  <2>1. gs \in Seq(FrameType) /\ b \in DOMAIN gs /\ Searched(gs) = b .. Len(gs)
        /\ \A m \in b .. Len(gs) : gs[m].used = {}
    BY DEF Opens
  <2> QED
    BY <2>1, LenProperties
<1>4. n \in DOMAIN gs /\ i \in Slots /\ DOMAIN gs = 1 .. Len(gs) /\ gs[n] \in FrameType
  BY <1>3, <1>1, SearchedAre DEF Free, Slots
<1>5. PICK f \in FrameType : f = Taken(gs[n], i, o) /\ f.extension = gs[n].extension /\ f.used = gs[n].used \cup {i}
  BY <1>4, TakenIs
<1>6. hs = [gs EXCEPT ![n] = f]
  BY <1>5, <1>1, <1>2 DEF Takes
<1>7. Len(hs) = Len(gs) /\ DOMAIN hs = DOMAIN gs /\ hs[n] = f /\ \A m \in DOMAIN gs : m # n => hs[m] = gs[m]
  BY <1>3, <1>4, <1>6, ExceptSeq
<1>8. \A m \in DOMAIN gs : hs[m].extension = gs[m].extension
  BY <1>5, <1>7
<1>9. Searched(hs) = Searched(gs)
  <2>1. \A m \in DOMAIN gs : \A k \in m + 1 .. Len(gs) : k \in DOMAIN gs
    BY <1>3, <1>4
  <2> QED
    BY <1>7, <1>8, <2>1 DEF Searched
<1>10. 1 \in Slots
  BY DEF Slots, JniAssumption
<1>11. \A m \in Searched(gs) : m # n => Free(hs[m]) # {}
  <2>1. \A m \in Searched(gs) : m # n => hs[m].used = {}
    BY <1>3, <1>7, SearchedAre
  <2> QED
    BY <1>10, <2>1 DEF Free, Slots
<1>12. CASE n # b
  <2>1. b \in Searched(gs)
    BY <1>3
  <2> QED
    BY <1>9, <1>11, <1>12, <2>1, <1>2
<1>13. CASE n = b /\ Len(gs) > b
  <2>1. b + 1 \in Searched(gs) /\ b + 1 # n
    BY <1>3, <1>13
  <2> QED
    BY <1>9, <1>11, <2>1, <1>2
<1>14. CASE n = b /\ RefsPerFrame >= 2
  <2>1. hs[n].used = {i}
    BY <1>3, <1>5, <1>7
  <2>2. PICK j \in Slots : j # i
    <3>1. 1 \in Slots /\ 2 \in Slots /\ 1 # 2
      BY <1>14 DEF Slots, JniAssumption
    <3> QED
      BY <3>1
  <2>3. j \in Free(hs[n])
    BY <2>1, <2>2 DEF Free, Slots
  <2> QED
    BY <1>9, <2>3, <1>2
<1> QED
  BY <1>12, <1>13, <1>14, <1>2
\* A native method has its own frame, and references R to its parameters.
Enters(fs, gs, b, S, R) ==
  /\ gs \in Seq(FrameType) /\ b \in 1 .. Len(gs)
  /\ \A n \in 1 .. Len(gs) : n < b => gs[n].extension = fs[n].extension
  /\ \A n \in 1 .. Len(gs) : n >= b => (gs[n].extension <=> n > b)
  /\ Holds("local", gs, S \cup R) /\ AllFull(gs)
  /\ R \subseteq References /\ R \cap S = {} /\ IsFiniteSet(R) /\ \A r \in R : r.at[1] = "local"

\* It begins without references to its parameters.
LEMMA OpensEnters ==
  ASSUME JniAssumption, NEW fs \in Seq(FrameType), NEW S, Holds("local", fs, S), AllFull(fs),
         NEW b \in Nat, NEW gs, Opens(fs, gs, b)
  PROVE  Enters(fs, gs, b, S, {})
<1>1. /\ Longer(fs, gs) /\ gs \in Seq(FrameType) /\ b \in DOMAIN gs
      /\ \A n \in 1 .. Len(gs) : n < b => gs[n] = fs[n]
      /\ \A n \in 1 .. Len(gs) : n >= b => (gs[n].extension <=> n > b)
  BY DEF Opens
<1>2. b \in 1 .. Len(gs)
  BY <1>1, LenProperties
<1>3. \A n \in 1 .. Len(gs) : n < b => gs[n].extension = fs[n].extension
  BY <1>1
<1>4. Holds("local", gs, S) /\ AllFull(gs)
  BY <1>1, LongerHolds
<1>5. S \cup {} = S /\ IsFiniteSet({})
  BY FS_EmptySet
<1> QED
  BY <1>1, <1>2, <1>3, <1>4, <1>5 DEF Enters

\* It has one more parameter.
LEMMA EntersMore ==
  ASSUME JniAssumption, NEW fs, NEW gs, NEW b \in Nat, NEW S, NEW R, Enters(fs, gs, b, S, R),
         NEW o \in Objects, NEW new, LocalTakes(gs, new, o)
  PROVE  Enters(fs, new.frames, b, S, R \cup {new.ref})
<1>1. /\ gs \in Seq(FrameType) /\ b \in 1 .. Len(gs) /\ Holds("local", gs, S \cup R) /\ AllFull(gs)
      /\ R \subseteq References /\ R \cap S = {} /\ IsFiniteSet(R) /\ \A r \in R : r.at[1] = "local"
  BY DEF Enters
<1>2. PICK hs, q : hs = new.frames /\ q = new.ref
  OBVIOUS
<1>3. /\ Extends(gs, hs) /\ Len(hs) = Len(gs) /\ hs \in Seq(FrameType)
      /\ Holds("local", hs, S \cup R \cup {q}) /\ AllFull(hs)
      /\ q \in References \ (S \cup R) /\ q.at[1] = "local"
  BY <1>1, <1>2, LocalTakesHolds
<1>4. \A n \in 1 .. Len(gs) : hs[n].extension <=> gs[n].extension
  <2>1. Len(gs) \in Nat
    BY <1>1, LenProperties
  <2> QED
    BY <1>3, <2>1 DEF Extends
<1>5. \A n \in 1 .. Len(gs) : hs[n].extension = gs[n].extension
  <2>1. \A n \in 1 .. Len(gs) : gs[n] \in FrameType /\ hs[n] \in FrameType
    BY <1>1, <1>3
  <2> QED
    BY <1>4, <2>1, SlotsAre
<1>6. S \cup R \cup {q} = S \cup (R \cup {q})
  OBVIOUS
<1>7. IsFiniteSet(R \cup {q})
  BY <1>1, FS_AddElement
<1>8. /\ \A n \in 1 .. Len(gs) : n < b => gs[n].extension = fs[n].extension
      /\ \A n \in 1 .. Len(gs) : n >= b => (gs[n].extension <=> n > b)
  BY DEF Enters
<1>9. Holds("local", hs, S \cup (R \cup {q}))
  BY <1>3, <1>6
<1>10. Enters(fs, hs, b, S, R \cup {q})
  BY <1>1, <1>3, <1>5, <1>7, <1>8, <1>9 DEF Enters
<1> QED
  BY <1>2, <1>10

\* There is room for the first parameter.
LEMMA OpenRoom ==
  ASSUME JniAssumption, NEW fs, NEW gs, NEW b, Opens(fs, gs, b), b \in Nat
  PROVE  b \in Searched(gs) /\ Free(gs[b]) # {} /\ gs \in Seq(FrameType)
<1>1. b \in DOMAIN gs /\ gs \in Seq(FrameType) /\ Searched(gs) = b .. Len(gs) /\ \A n \in b .. Len(gs) : gs[n].used = {}
  BY DEF Opens
<1>2. b \in b .. Len(gs)
  BY <1>1, LenProperties
<1>3. 1 \in Slots
  BY DEF Slots, JniAssumption
<1> QED
  BY <1>1, <1>2, <1>3 DEF Free, Slots

\* A native method has references to its parameters, one of them,
LEMMA EntersOne ==
  ASSUME JniAssumption, NEW fs \in Seq(FrameType), NEW S, Holds("local", fs, S), AllFull(fs),
         NEW o \in Objects, NEW e, e = Entered(fs, <<o>>)
  PROVE  Enters(fs, e.frames, Len(fs) + 1, S, e.refs)
<1>1. PICK b : b = Len(fs) + 1
  OBVIOUS
<1>2. b \in Nat
  BY <1>1, LenProperties
<1>3. PICK gs : gs = RoomFor(fs, 1)
  OBVIOUS
<1>4. Opens(fs, gs, b)
  BY <1>1, <1>3, RoomForIs
<1>5. PICK new : new = NewLocal(gs, o)
  OBVIOUS
<1>6. LocalTakes(gs, new, o)
  BY <1>2, <1>4, <1>5, OpenRoom, NewLocalIn
<1>7. Enters(fs, gs, b, S, {})
  BY <1>2, <1>4, OpensEnters
<1>8. Enters(fs, new.frames, b, S, {} \cup {new.ref})
  BY <1>2, <1>6, <1>7, EntersMore
<1>9. e.frames = new.frames /\ e.refs = {} \cup {new.ref}
  <2>1. e = Given(NoneYet(fs, 1), o)
    BY EnteredOne
  <2>2. NoneYet(fs, 1).frames = gs /\ NoneYet(fs, 1).refs = {}
    BY <1>3 DEF NoneYet
  <2> QED
    BY <1>5, <2>1, <2>2 DEF Given
<1> QED
  BY <1>1, <1>8, <1>9

\* or two.
LEMMA EntersTwo ==
  ASSUME JniAssumption, NEW fs \in Seq(FrameType), NEW S, Holds("local", fs, S), AllFull(fs),
         NEW o \in Objects, NEW p \in Objects, NEW e, e = Entered(fs, <<o, p>>)
  PROVE  Enters(fs, e.frames, Len(fs) + 1, S, e.refs)
<1>1. PICK b : b = Len(fs) + 1
  OBVIOUS
<1>2. b \in Nat
  BY <1>1, LenProperties
<1>3. PICK gs : gs = RoomFor(fs, 2)
  OBVIOUS
<1>4. Opens(fs, gs, b) /\ (RefsPerFrame >= 2 \/ Len(gs) > b)
  BY <1>1, <1>3, RoomForIs
<1>5. PICK new : new = NewLocal(gs, o)
  OBVIOUS
<1>6. LocalTakes(gs, new, o)
  BY <1>2, <1>4, <1>5, OpenRoom, NewLocalIn
<1>7. Enters(fs, gs, b, S, {})
  BY <1>2, <1>4, OpensEnters
<1>8. Enters(fs, new.frames, b, S, {} \cup {new.ref})
  BY <1>2, <1>6, <1>7, EntersMore
<1>9. PICK hs, R : hs = new.frames /\ R = {} \cup {new.ref}
  OBVIOUS
<1>10. Enters(fs, hs, b, S, R) /\ hs \in Seq(FrameType)
  BY <1>8, <1>9 DEF Enters
<1>11. \E m \in Searched(hs) : Free(hs[m]) # {}
  <2>1. \E m \in Searched(new.frames) : Free(new.frames[m]) # {}
    BY <1>2, <1>4, <1>6, StillRoom
  <2> QED
    BY <1>9, <2>1
<1>12. PICK newer : newer = NewLocal(hs, p)
  OBVIOUS
<1>13. LocalTakes(hs, newer, p)
  BY <1>10, <1>11, <1>12, NewLocalIn
<1>14. Enters(fs, newer.frames, b, S, R \cup {newer.ref})
  BY <1>2, <1>10, <1>13, EntersMore
<1>15. e.frames = newer.frames /\ e.refs = R \cup {newer.ref}
  <2>1. e = Given(Given(NoneYet(fs, 2), o), p)
    BY EnteredTwo
  <2>2. NoneYet(fs, 2).frames = gs /\ NoneYet(fs, 2).refs = {}
    BY <1>3 DEF NoneYet
  <2>3. PICK g : g = Given(NoneYet(fs, 2), o)
    OBVIOUS
  <2>4. g.frames = hs /\ g.refs = R
    BY <1>5, <1>9, <2>2, <2>3 DEF Given
  <2> QED
    BY <1>12, <2>1, <2>3, <2>4 DEF Given
<1> QED
  BY <1>1, <1>14, <1>15

\* Every function is of such a kind.
AreKinds(F) == \A x \in DOMAIN F : F[x] \in Kinds

\* The kinds of function that the tables are made of,
LEMMA KindsOf ==
  ASSUME NEW S \in SUBSET Posted
  PROVE  /\ Void(S) \in Kinds /\ Object(S) \in Kinds /\ Value(S) \in Kinds /\ Called(S) \in Kinds
         /\ Returns("throws", S) \in Kinds
BY DEF Void, Object, Value, Called, Returns, Kinds

\* and those of all functions.
LEMMA KindsAre ==
  ASSUME NEW f PROVE Kind(f) \in Kinds
<1>1. \A S \in SUBSET Posted :
        /\ Void(S) \in Kinds /\ Object(S) \in Kinds /\ Value(S) \in Kinds /\ Called(S) \in Kinds
        /\ Returns("throws", S) \in Kinds
  BY KindsOf
<1>2. /\ {} \in SUBSET Posted /\ {"Argument"} \in SUBSET Posted /\ {"Thrown", "Argument"} \in SUBSET Posted
      /\ {"Thrown"} \in SUBSET Posted /\ {"Thrown", "Linkage"} \in SUBSET Posted
      /\ {"Thrown", "OutOfMemory"} \in SUBSET Posted /\ {"Argument", "Linkage", "OutOfMemory"} \in SUBSET Posted
      /\ {"Argument", "OutOfMemory"} \in SUBSET Posted /\ {"OutOfMemory", "Thrown"} \in SUBSET Posted
      /\ {"OutOfMemory"} \in SUBSET Posted /\ {"OutOfMemory", "Linkage"} \in SUBSET Posted
      /\ {"Linkage"} \in SUBSET Posted /\ {"Linkage", "Internal"} \in SUBSET Posted
      /\ {"Thrown", "Argument", "OutOfMemory"} \in SUBSET Posted
  BY DEF Posted
<1>3. AreKinds(InstanceFields)
  BY <1>1, <1>2 DEF AreKinds, InstanceFields
<1>4. AreKinds(StaticFields)
  BY <1>1, <1>2 DEF AreKinds, StaticFields
<1>5. AreKinds(CallsNonvirtual)
  BY <1>1, <1>2 DEF AreKinds, CallsNonvirtual
<1>6. AreKinds(CallsVirtual)
  BY <1>1, <1>2 DEF AreKinds, CallsVirtual
<1>7. AreKinds(CallsStatic)
  BY <1>1, <1>2 DEF AreKinds, CallsStatic
<1>8. AreKinds(IDs)
  BY <1>1, <1>2 DEF AreKinds, IDs
<1>9. AreKinds(ObjectClasses)
  BY <1>1, <1>2 DEF AreKinds, ObjectClasses
<1>10. AreKinds(ObjectArrays)
  BY <1>1, <1>2 DEF AreKinds, ObjectArrays
<1>11. AreKinds(ArrayRegions)
  BY <1>1, <1>2 DEF AreKinds, ArrayRegions
<1>12. AreKinds(Classes)
  BY <1>1, <1>2 DEF AreKinds, Classes
<1>13. AreKinds(ClassRelations)
  BY <1>1, <1>2 DEF AreKinds, ClassRelations
<1>14. AreKinds(Throws)
  BY <1>1, <1>2 DEF AreKinds, Throws
<1>15. AreKinds(Allocation)
  BY <1>1, <1>2 DEF AreKinds, Allocation
<1>16. AreKinds(StringChars)
  BY <1>1, <1>2 DEF AreKinds, StringChars
<1>17. AreKinds(NewArrays)
  BY <1>1, <1>2 DEF AreKinds, NewArrays
<1>18. AreKinds(Natives)
  BY <1>1, <1>2 DEF AreKinds, Natives
<1>19. AreKinds(Locks)
  BY <1>1, <1>2 DEF AreKinds, Locks
<1>20. AreKinds(Reflected)
  BY <1>1, <1>2 DEF AreKinds, Reflected
<1>21. AreKinds(Buffers)
  BY <1>1, <1>2 DEF AreKinds, Buffers
<1>22. \A g \in Groups : AreKinds(g)
  BY <1>3, <1>4, <1>5, <1>6, <1>7, <1>8, <1>9, <1>10, <1>11, <1>12, <1>13, <1>14, <1>15, <1>16, <1>17, <1>18, <1>19, <1>20, <1>21 DEF Groups
<1>23. ASSUME NEW x \in UNION {DOMAIN g : g \in Groups}
       PROVE  (CHOOSE g \in Groups : x \in DOMAIN g)[x] \in Kinds
  <2>1. PICK g : g = CHOOSE h \in Groups : x \in DOMAIN h
    OBVIOUS
  <2>2. g \in Groups /\ x \in DOMAIN g
    BY <2>1
  <2> QED
    BY <1>22, <2>1, <2>2 DEF AreKinds
<1>24. AreKinds(Primitive)
  BY <1>23 DEF AreKinds, Primitive
<1>25. Object({"OutOfMemory", "Thrown"}) \in Kinds
  BY <1>1, <1>2
<1> QED
  BY <1>24, <1>25 DEF AreKinds, Kind

\* A function of a group is of the kind that the group gives.
LEMMA KindIn ==
  ASSUME NEW f, NEW h \in Groups, \A g \in Groups : f \in DOMAIN g <=> g = h
  PROVE  Kind(f) = h[f]
<1>1. (CHOOSE g \in Groups : f \in DOMAIN g) = h
  OBVIOUS
<1>2. f \in UNION {DOMAIN g : g \in Groups}
  OBVIOUS
<1> QED
  BY <1>1, <1>2 DEF Primitive, Kind

\* What a kind says of the result.
LEMMA ResultOf ==
  ASSUME NEW S PROVE Void(S).result = "none" /\ Object(S).result = "object" /\ Returns("throws", S).result = "throws"
BY DEF Void, Object, Returns

\* What functions return.
LEMMA Allocates == Kind("AllocObject").result = "object"
<1>1. \A g \in Groups : "AllocObject" \in DOMAIN g <=> g = Allocation
  <2>1. "AllocObject" \notin DOMAIN InstanceFields
    BY DEF InstanceFields
  <2>2. "AllocObject" \notin DOMAIN StaticFields
    BY DEF StaticFields
  <2>3. "AllocObject" \notin DOMAIN CallsNonvirtual
    BY DEF CallsNonvirtual
  <2>4. "AllocObject" \notin DOMAIN CallsVirtual
    BY DEF CallsVirtual
  <2>5. "AllocObject" \notin DOMAIN CallsStatic
    BY DEF CallsStatic
  <2>6. "AllocObject" \notin DOMAIN IDs
    BY DEF IDs
  <2>7. "AllocObject" \notin DOMAIN ObjectClasses
    BY DEF ObjectClasses
  <2>8. "AllocObject" \notin DOMAIN ObjectArrays
    BY DEF ObjectArrays
  <2>9. "AllocObject" \notin DOMAIN ArrayRegions
    BY DEF ArrayRegions
  <2>10. "AllocObject" \notin DOMAIN Classes
    BY DEF Classes
  <2>11. "AllocObject" \notin DOMAIN ClassRelations
    BY DEF ClassRelations
  <2>12. "AllocObject" \notin DOMAIN Throws
    BY DEF Throws
  <2>13. "AllocObject" \notin DOMAIN StringChars
    BY DEF StringChars
  <2>14. "AllocObject" \notin DOMAIN NewArrays
    BY DEF NewArrays
  <2>15. "AllocObject" \notin DOMAIN Natives
    BY DEF Natives
  <2>16. "AllocObject" \notin DOMAIN Locks
    BY DEF Locks
  <2>17. "AllocObject" \notin DOMAIN Reflected
    BY DEF Reflected
  <2>18. "AllocObject" \notin DOMAIN Buffers
    BY DEF Buffers
  <2>19. "AllocObject" \in DOMAIN Allocation
    BY DEF Allocation
  <2> QED
    BY <2>1, <2>2, <2>3, <2>4, <2>5, <2>6, <2>7, <2>8, <2>9, <2>10, <2>11, <2>12, <2>13, <2>14, <2>15, <2>16, <2>17, <2>18, <2>19 DEF Groups
<1>2. Allocation \in Groups
  BY DEF Groups
<1> QED
  BY <1>1, <1>2, KindIn, ResultOf DEF Allocation

\* The functions that are called by others: what each of them returns.
LEMMA VoidMethod == Kind("CallNonvirtualVoidMethod").result = "none"
<1>1. \A g \in Groups : "CallNonvirtualVoidMethod" \in DOMAIN g <=> g = CallsNonvirtual
  <2>1. "CallNonvirtualVoidMethod" \notin DOMAIN InstanceFields
    BY DEF InstanceFields
  <2>2. "CallNonvirtualVoidMethod" \notin DOMAIN StaticFields
    BY DEF StaticFields
  <2>3. "CallNonvirtualVoidMethod" \notin DOMAIN CallsVirtual
    BY DEF CallsVirtual
  <2>4. "CallNonvirtualVoidMethod" \notin DOMAIN CallsStatic
    BY DEF CallsStatic
  <2>5. "CallNonvirtualVoidMethod" \notin DOMAIN IDs
    BY DEF IDs
  <2>6. "CallNonvirtualVoidMethod" \notin DOMAIN ObjectClasses
    BY DEF ObjectClasses
  <2>7. "CallNonvirtualVoidMethod" \notin DOMAIN ObjectArrays
    BY DEF ObjectArrays
  <2>8. "CallNonvirtualVoidMethod" \notin DOMAIN ArrayRegions
    BY DEF ArrayRegions
  <2>9. "CallNonvirtualVoidMethod" \notin DOMAIN Classes
    BY DEF Classes
  <2>10. "CallNonvirtualVoidMethod" \notin DOMAIN ClassRelations
    BY DEF ClassRelations
  <2>11. "CallNonvirtualVoidMethod" \notin DOMAIN Throws
    BY DEF Throws
  <2>12. "CallNonvirtualVoidMethod" \notin DOMAIN Allocation
    BY DEF Allocation
  <2>13. "CallNonvirtualVoidMethod" \notin DOMAIN StringChars
    BY DEF StringChars
  <2>14. "CallNonvirtualVoidMethod" \notin DOMAIN NewArrays
    BY DEF NewArrays
  <2>15. "CallNonvirtualVoidMethod" \notin DOMAIN Natives
    BY DEF Natives
  <2>16. "CallNonvirtualVoidMethod" \notin DOMAIN Locks
    BY DEF Locks
  <2>17. "CallNonvirtualVoidMethod" \notin DOMAIN Reflected
    BY DEF Reflected
  <2>18. "CallNonvirtualVoidMethod" \notin DOMAIN Buffers
    BY DEF Buffers
  <2>19. "CallNonvirtualVoidMethod" \in DOMAIN CallsNonvirtual
    BY DEF CallsNonvirtual
  <2> QED
    BY <2>1, <2>2, <2>3, <2>4, <2>5, <2>6, <2>7, <2>8, <2>9, <2>10, <2>11, <2>12, <2>13, <2>14, <2>15, <2>16, <2>17, <2>18, <2>19 DEF Groups
<1>2. CallsNonvirtual \in Groups
  BY DEF Groups
<1> QED
  BY <1>1, <1>2, KindIn, ResultOf DEF CallsNonvirtual

LEMMA IntMethod == Kind("CallIntMethod").result = "none"
<1>1. \A g \in Groups : "CallIntMethod" \in DOMAIN g <=> g = CallsVirtual
  <2>1. "CallIntMethod" \notin DOMAIN InstanceFields
    BY DEF InstanceFields
  <2>2. "CallIntMethod" \notin DOMAIN StaticFields
    BY DEF StaticFields
  <2>3. "CallIntMethod" \notin DOMAIN CallsNonvirtual
    BY DEF CallsNonvirtual
  <2>4. "CallIntMethod" \notin DOMAIN CallsStatic
    BY DEF CallsStatic
  <2>5. "CallIntMethod" \notin DOMAIN IDs
    BY DEF IDs
  <2>6. "CallIntMethod" \notin DOMAIN ObjectClasses
    BY DEF ObjectClasses
  <2>7. "CallIntMethod" \notin DOMAIN ObjectArrays
    BY DEF ObjectArrays
  <2>8. "CallIntMethod" \notin DOMAIN ArrayRegions
    BY DEF ArrayRegions
  <2>9. "CallIntMethod" \notin DOMAIN Classes
    BY DEF Classes
  <2>10. "CallIntMethod" \notin DOMAIN ClassRelations
    BY DEF ClassRelations
  <2>11. "CallIntMethod" \notin DOMAIN Throws
    BY DEF Throws
  <2>12. "CallIntMethod" \notin DOMAIN Allocation
    BY DEF Allocation
  <2>13. "CallIntMethod" \notin DOMAIN StringChars
    BY DEF StringChars
  <2>14. "CallIntMethod" \notin DOMAIN NewArrays
    BY DEF NewArrays
  <2>15. "CallIntMethod" \notin DOMAIN Natives
    BY DEF Natives
  <2>16. "CallIntMethod" \notin DOMAIN Locks
    BY DEF Locks
  <2>17. "CallIntMethod" \notin DOMAIN Reflected
    BY DEF Reflected
  <2>18. "CallIntMethod" \notin DOMAIN Buffers
    BY DEF Buffers
  <2>19. "CallIntMethod" \in DOMAIN CallsVirtual
    BY DEF CallsVirtual
  <2> QED
    BY <2>1, <2>2, <2>3, <2>4, <2>5, <2>6, <2>7, <2>8, <2>9, <2>10, <2>11, <2>12, <2>13, <2>14, <2>15, <2>16, <2>17, <2>18, <2>19 DEF Groups
<1>2. CallsVirtual \in Groups
  BY DEF Groups
<1> QED
  BY <1>1, <1>2, KindIn, ResultOf DEF CallsVirtual

LEMMA MethodID == Kind("GetMethodID").result = "none"
<1>1. \A g \in Groups : "GetMethodID" \in DOMAIN g <=> g = IDs
  <2>1. "GetMethodID" \notin DOMAIN InstanceFields
    BY DEF InstanceFields
  <2>2. "GetMethodID" \notin DOMAIN StaticFields
    BY DEF StaticFields
  <2>3. "GetMethodID" \notin DOMAIN CallsNonvirtual
    BY DEF CallsNonvirtual
  <2>4. "GetMethodID" \notin DOMAIN CallsVirtual
    BY DEF CallsVirtual
  <2>5. "GetMethodID" \notin DOMAIN CallsStatic
    BY DEF CallsStatic
  <2>6. "GetMethodID" \notin DOMAIN ObjectClasses
    BY DEF ObjectClasses
  <2>7. "GetMethodID" \notin DOMAIN ObjectArrays
    BY DEF ObjectArrays
  <2>8. "GetMethodID" \notin DOMAIN ArrayRegions
    BY DEF ArrayRegions
  <2>9. "GetMethodID" \notin DOMAIN Classes
    BY DEF Classes
  <2>10. "GetMethodID" \notin DOMAIN ClassRelations
    BY DEF ClassRelations
  <2>11. "GetMethodID" \notin DOMAIN Throws
    BY DEF Throws
  <2>12. "GetMethodID" \notin DOMAIN Allocation
    BY DEF Allocation
  <2>13. "GetMethodID" \notin DOMAIN StringChars
    BY DEF StringChars
  <2>14. "GetMethodID" \notin DOMAIN NewArrays
    BY DEF NewArrays
  <2>15. "GetMethodID" \notin DOMAIN Natives
    BY DEF Natives
  <2>16. "GetMethodID" \notin DOMAIN Locks
    BY DEF Locks
  <2>17. "GetMethodID" \notin DOMAIN Reflected
    BY DEF Reflected
  <2>18. "GetMethodID" \notin DOMAIN Buffers
    BY DEF Buffers
  <2>19. "GetMethodID" \in DOMAIN IDs
    BY DEF IDs
  <2> QED
    BY <2>1, <2>2, <2>3, <2>4, <2>5, <2>6, <2>7, <2>8, <2>9, <2>10, <2>11, <2>12, <2>13, <2>14, <2>15, <2>16, <2>17, <2>18, <2>19 DEF Groups
<1>2. IDs \in Groups
  BY DEF Groups
<1> QED
  BY <1>1, <1>2, KindIn, ResultOf DEF IDs

LEMMA CharRegion == Kind("GetCharArrayRegion").result = "none"
<1>1. \A g \in Groups : "GetCharArrayRegion" \in DOMAIN g <=> g = ArrayRegions
  <2>1. "GetCharArrayRegion" \notin DOMAIN InstanceFields
    BY DEF InstanceFields
  <2>2. "GetCharArrayRegion" \notin DOMAIN StaticFields
    BY DEF StaticFields
  <2>3. "GetCharArrayRegion" \notin DOMAIN CallsNonvirtual
    BY DEF CallsNonvirtual
  <2>4. "GetCharArrayRegion" \notin DOMAIN CallsVirtual
    BY DEF CallsVirtual
  <2>5. "GetCharArrayRegion" \notin DOMAIN CallsStatic
    BY DEF CallsStatic
  <2>6. "GetCharArrayRegion" \notin DOMAIN IDs
    BY DEF IDs
  <2>7. "GetCharArrayRegion" \notin DOMAIN ObjectClasses
    BY DEF ObjectClasses
  <2>8. "GetCharArrayRegion" \notin DOMAIN ObjectArrays
    BY DEF ObjectArrays
  <2>9. "GetCharArrayRegion" \notin DOMAIN Classes
    BY DEF Classes
  <2>10. "GetCharArrayRegion" \notin DOMAIN ClassRelations
    BY DEF ClassRelations
  <2>11. "GetCharArrayRegion" \notin DOMAIN Throws
    BY DEF Throws
  <2>12. "GetCharArrayRegion" \notin DOMAIN Allocation
    BY DEF Allocation
  <2>13. "GetCharArrayRegion" \notin DOMAIN StringChars
    BY DEF StringChars
  <2>14. "GetCharArrayRegion" \notin DOMAIN NewArrays
    BY DEF NewArrays
  <2>15. "GetCharArrayRegion" \notin DOMAIN Natives
    BY DEF Natives
  <2>16. "GetCharArrayRegion" \notin DOMAIN Locks
    BY DEF Locks
  <2>17. "GetCharArrayRegion" \notin DOMAIN Reflected
    BY DEF Reflected
  <2>18. "GetCharArrayRegion" \notin DOMAIN Buffers
    BY DEF Buffers
  <2>19. "GetCharArrayRegion" \in DOMAIN ArrayRegions
    BY DEF ArrayRegions
  <2> QED
    BY <2>1, <2>2, <2>3, <2>4, <2>5, <2>6, <2>7, <2>8, <2>9, <2>10, <2>11, <2>12, <2>13, <2>14, <2>15, <2>16, <2>17, <2>18, <2>19 DEF Groups
<1>2. ArrayRegions \in Groups
  BY DEF Groups
<1> QED
  BY <1>1, <1>2, KindIn, ResultOf DEF ArrayRegions

LEMMA Thrown == Kind("Throw").result = "throws"
<1>1. \A g \in Groups : "Throw" \in DOMAIN g <=> g = Throws
  <2>1. "Throw" \notin DOMAIN InstanceFields
    BY DEF InstanceFields
  <2>2. "Throw" \notin DOMAIN StaticFields
    BY DEF StaticFields
  <2>3. "Throw" \notin DOMAIN CallsNonvirtual
    BY DEF CallsNonvirtual
  <2>4. "Throw" \notin DOMAIN CallsVirtual
    BY DEF CallsVirtual
  <2>5. "Throw" \notin DOMAIN CallsStatic
    BY DEF CallsStatic
  <2>6. "Throw" \notin DOMAIN IDs
    BY DEF IDs
  <2>7. "Throw" \notin DOMAIN ObjectClasses
    BY DEF ObjectClasses
  <2>8. "Throw" \notin DOMAIN ObjectArrays
    BY DEF ObjectArrays
  <2>9. "Throw" \notin DOMAIN ArrayRegions
    BY DEF ArrayRegions
  <2>10. "Throw" \notin DOMAIN Classes
    BY DEF Classes
  <2>11. "Throw" \notin DOMAIN ClassRelations
    BY DEF ClassRelations
  <2>12. "Throw" \notin DOMAIN Allocation
    BY DEF Allocation
  <2>13. "Throw" \notin DOMAIN StringChars
    BY DEF StringChars
  <2>14. "Throw" \notin DOMAIN NewArrays
    BY DEF NewArrays
  <2>15. "Throw" \notin DOMAIN Natives
    BY DEF Natives
  <2>16. "Throw" \notin DOMAIN Locks
    BY DEF Locks
  <2>17. "Throw" \notin DOMAIN Reflected
    BY DEF Reflected
  <2>18. "Throw" \notin DOMAIN Buffers
    BY DEF Buffers
  <2>19. "Throw" \in DOMAIN Throws
    BY DEF Throws
  <2> QED
    BY <2>1, <2>2, <2>3, <2>4, <2>5, <2>6, <2>7, <2>8, <2>9, <2>10, <2>11, <2>12, <2>13, <2>14, <2>15, <2>16, <2>17, <2>18, <2>19 DEF Groups
<1>2. Throws \in Groups
  BY DEF Groups
<1> QED
  BY <1>1, <1>2, KindIn, ResultOf DEF Throws

\* NewObject() is made of such functions.
LEMMA Constructs == Kind("NewObject").result # "retval"
<1>1. \A g \in Groups : "NewObject" \notin DOMAIN g
  <2>1. "NewObject" \notin DOMAIN InstanceFields
    BY DEF InstanceFields
  <2>2. "NewObject" \notin DOMAIN StaticFields
    BY DEF StaticFields
  <2>3. "NewObject" \notin DOMAIN CallsNonvirtual
    BY DEF CallsNonvirtual
  <2>4. "NewObject" \notin DOMAIN CallsVirtual
    BY DEF CallsVirtual
  <2>5. "NewObject" \notin DOMAIN CallsStatic
    BY DEF CallsStatic
  <2>6. "NewObject" \notin DOMAIN IDs
    BY DEF IDs
  <2>7. "NewObject" \notin DOMAIN ObjectClasses
    BY DEF ObjectClasses
  <2>8. "NewObject" \notin DOMAIN ObjectArrays
    BY DEF ObjectArrays
  <2>9. "NewObject" \notin DOMAIN ArrayRegions
    BY DEF ArrayRegions
  <2>10. "NewObject" \notin DOMAIN Classes
    BY DEF Classes
  <2>11. "NewObject" \notin DOMAIN ClassRelations
    BY DEF ClassRelations
  <2>12. "NewObject" \notin DOMAIN Throws
    BY DEF Throws
  <2>13. "NewObject" \notin DOMAIN Allocation
    BY DEF Allocation
  <2>14. "NewObject" \notin DOMAIN StringChars
    BY DEF StringChars
  <2>15. "NewObject" \notin DOMAIN NewArrays
    BY DEF NewArrays
  <2>16. "NewObject" \notin DOMAIN Natives
    BY DEF Natives
  <2>17. "NewObject" \notin DOMAIN Locks
    BY DEF Locks
  <2>18. "NewObject" \notin DOMAIN Reflected
    BY DEF Reflected
  <2>19. "NewObject" \notin DOMAIN Buffers
    BY DEF Buffers
  <2> QED
    BY <2>1, <2>2, <2>3, <2>4, <2>5, <2>6, <2>7, <2>8, <2>9, <2>10, <2>11, <2>12, <2>13, <2>14, <2>15, <2>16, <2>17, <2>18, <2>19 DEF Groups
<1>2. "NewObject" \notin DOMAIN Primitive
  BY <1>1 DEF Primitive
<1> QED
  BY <1>2, ResultOf DEF Kind

-----------------------------------------------------------------------------
(* Functions that call others, from one step to the next *)

\* Frees and Assigns, one step further on.
LEMMA FreesStep ==
  ASSUME NEW c, Len(c) \in Nat, NEW k \in 1 .. Len(c)
  PROVE  /\ c[k].do \in {"delete", "return"} => Frees(c, k) = c[k].args \cup Frees(c, k + 1)
         /\ c[k].do \notin {"delete", "return"} => Frees(c, k) = Frees(c, k + 1)
<1>1. \A j : j \in k .. Len(c) <=> j = k \/ j \in k + 1 .. Len(c)
  OBVIOUS
<1> QED
  BY <1>1 DEF Frees

LEMMA AssignsStep ==
  ASSUME NEW c, Len(c) \in Nat, NEW k \in 1 .. Len(c)
  PROVE  /\ c[k].do = "call" => Assigns(c, k) = {c[k].to} \cup Assigns(c, k + 1)
         /\ c[k].do # "call" => Assigns(c, k) = Assigns(c, k + 1)
<1>1. \A j : j \in k .. Len(c) <=> j = k \/ j \in k + 1 .. Len(c)
  OBVIOUS
<1> QED
  BY <1>1 DEF Assigns

LEMMA NoSteps ==
  ASSUME NEW c, NEW k \in Nat, Len(c) = k - 1 PROVE Frees(c, k) = {} /\ Assigns(c, k) = {}
<1>1. k .. Len(c) = {}
  OBVIOUS
<1> QED
  BY <1>1 DEF Frees, Assigns

\* With an exception pending, no function is called,
LEMMA CautiousCall ==
  ASSUME NEW c, Len(c) \in Nat, NEW k \in 1 .. Len(c), c[k].do = "call", NEW kept
  PROVE  ~Cautious(c, k, kept)
<1>1. k .. k - 1 = {} /\ k \in k .. Len(c)
  OBVIOUS
<1> QED
  BY <1>1 DEF Cautious

\* what is left is deleted when it is found,
LEMMA CautiousCheck ==
  ASSUME NEW c, Len(c) \in Nat, NEW k \in 1 .. Len(c), c[k].do = "check", NEW kept
  PROVE  Cautious(c, k, kept) <=> kept \subseteq c[k].args
<1>1. k \in k .. Len(c) /\ k .. k - 1 = {} /\ k >= k
  OBVIOUS
<1>2. ASSUME Cautious(c, k, kept) PROVE kept \subseteq c[k].args
  <2>1. Notices(c, k, k)
    BY <1>1 DEF Notices
  <2>2. kept \subseteq c[k].args \cup UNION {c[j].args : j \in k .. k - 1}
    BY <1>1, <1>2, <2>1 DEF Cautious
  <2> QED
    BY <1>1, <2>2
<1>3. ASSUME kept \subseteq c[k].args PROVE Cautious(c, k, kept)
  <2>1. ASSUME NEW j \in k .. Len(c), c[j].do = "call" PROVE k \in k .. j - 1
    <3>1. j # k
      BY <2>1
    <3> QED
      BY <3>1
  <2>2. ASSUME NEW m \in k .. Len(c), Notices(c, k, m) PROVE m = k
    <3>1. CASE m # k
      <4>1. k \in k .. m - 1
        BY <3>1
      <4> QED
        BY <2>2, <4>1 DEF Notices
    <3> QED
      BY <3>1
  <2> QED
    BY <1>1, <1>3, <2>1, <2>2 DEF Cautious
<1> QED
  BY <1>2, <1>3

\* or before,
LEMMA CautiousDelete ==
  ASSUME NEW c, Len(c) \in Nat, NEW k \in 1 .. Len(c), c[k].do = "delete", k # Len(c), NEW kept
  PROVE  Cautious(c, k, kept) <=> Cautious(c, k + 1, kept \ c[k].args)
<1>1. \A j : j \in k .. Len(c) <=> j = k \/ j \in k + 1 .. Len(c)
  OBVIOUS
<1>2. \A m \in k + 1 .. Len(c) : \A j : j \in k .. m - 1 <=> j = k \/ j \in k + 1 .. m - 1
  OBVIOUS
<1>3. \A m \in k + 1 .. Len(c) : m >= k /\ m >= k + 1
  OBVIOUS
<1>4. \A m \in k + 1 .. Len(c) : Notices(c, k, m) <=> Notices(c, k + 1, m)
  BY <1>2, <1>3 DEF Notices
<1>5. ~Notices(c, k, k)
  BY DEF Notices
<1>6. \A m \in k + 1 .. Len(c) :
        UNION {c[j].args : j \in k .. m - 1} = c[k].args \cup UNION {c[j].args : j \in k + 1 .. m - 1}
  BY <1>2
<1>7. (\A m \in k .. Len(c) : Notices(c, k, m) => kept \subseteq c[m].args \cup UNION {c[j].args : j \in k .. m - 1})
      <=> \A m \in k + 1 .. Len(c) : Notices(c, k + 1, m) =>
            kept \ c[k].args \subseteq c[m].args \cup UNION {c[j].args : j \in k + 1 .. m - 1}
  <2>1. ASSUME NEW m \in k + 1 .. Len(c)
        PROVE  (kept \subseteq c[m].args \cup UNION {c[j].args : j \in k .. m - 1})
               <=> (kept \ c[k].args \subseteq c[m].args \cup UNION {c[j].args : j \in k + 1 .. m - 1})
    <3>1. PICK A, B : A = UNION {c[j].args : j \in k .. m - 1} /\ B = UNION {c[j].args : j \in k + 1 .. m - 1}
      OBVIOUS
    <3>2. A = c[k].args \cup B
      BY <1>6, <3>1
    <3>3. (kept \subseteq c[m].args \cup A) <=> (kept \ c[k].args \subseteq c[m].args \cup B)
      BY <3>2
    <3> QED
      BY <3>1, <3>3
  <2> QED
    BY <1>1, <1>4, <1>5, <2>1
<1>8. (\A j \in k .. Len(c) : c[j].do = "call" => \E m \in k .. j - 1 : c[m].do = "check")
      <=> \A j \in k + 1 .. Len(c) : c[j].do = "call" => \E m \in k + 1 .. j - 1 : c[m].do = "check"
  BY <1>1, <1>2
<1>9. (\E m \in k .. Len(c) : c[m].do = "check") <=> \E m \in k + 1 .. Len(c) : c[m].do = "check"
  BY <1>1
<1> QED
  BY <1>7, <1>8, <1>9 DEF Cautious

\* and no object is returned.
LEMMA CautiousReturn ==
  ASSUME NEW c, Len(c) \in Nat, NEW k \in 1 .. Len(c), c[k].do = "return", k = Len(c), NEW kept
  PROVE  Cautious(c, k, kept) <=> c[k].args = {}
<1>1. \A j : j \in k .. Len(c) <=> j = k
  OBVIOUS
<1>2. \A m \in k .. Len(c) : c[m].do = "return" /\ ~Notices(c, k, m)
  BY <1>1 DEF Notices
<1> QED
  BY <1>2 DEF Cautious

\* What WellMade says of a step.
WellAt(c, k) ==
  /\ c[k].do \in {"call", "delete", "check", "return"} /\ (c[k].do = "return" <=> k = Len(c))
  /\ c[k].args \subseteq Frees(c, k)
  /\ c[k].do = "delete" => c[k].args \cap Frees(c, k + 1) = {}
  /\ c[k].do = "call" =>
       /\ c[k].to \in Frees(c, k + 1) \cup {"none"}
       /\ c[k].to # "none" => c[k].to \notin Assigns(c, k + 1)
       /\ c[k].to \in c[Len(c)].args => Kind(c[k].f).result = "object"
       /\ c[k].to = "none" => Kind(c[k].f).result \in {"none", "throws"}
       /\ Kind(c[k].f).result = "retval" => c[k + 1].do = "check" /\ c[k].to \notin c[k + 1].args
       /\ Cautious(c, k + 1, Frees(c, k + 1) \ Assigns(c, k))

\* The steps from k on are well made; they free F and assign A.
From(c, n, k, F, A) ==
  /\ Len(c) = n /\ n \in Nat /\ Frees(c, k) = F /\ Assigns(c, k) = A
  /\ \A j \in k .. n : WellAt(c, j)

\* The last step; before it a check, a deletion or a call.
LEMMA FromReturn ==
  ASSUME NEW c, NEW n \in Nat \ {0}, Len(c) = n, NEW S, c[n] = Return(S)
  PROVE  From(c, n, n, S, {})
<1>1. c[n].do = "return" /\ c[n].args = S
  BY DEF Return
<1>2. PICK l \in Nat : l = n + 1
  OBVIOUS
<1>3. Frees(c, n + 1) = {} /\ Assigns(c, n + 1) = {}
  <2>1. Frees(c, l) = {} /\ Assigns(c, l) = {}
    BY <1>2, NoSteps
  <2> QED
    BY <1>2, <2>1
<1>4. Frees(c, n) = S /\ Assigns(c, n) = {}
  <2>1. n \in 1 .. Len(c) /\ Len(c) \in Nat
    OBVIOUS
  <2>2. Frees(c, n) = c[n].args \cup Frees(c, n + 1)
    BY <1>1, <2>1, FreesStep
  <2>3. Assigns(c, n) = Assigns(c, n + 1)
    BY <1>1, <2>1, AssignsStep
  <2> QED
    BY <1>1, <1>3, <2>2, <2>3
<1>5. WellAt(c, n)
  BY <1>1, <1>4 DEF WellAt
<1> QED
  BY <1>4, <1>5 DEF From

LEMMA FromCheck ==
  ASSUME NEW c, NEW n, NEW k \in Nat \ {0}, NEW l, l = k + 1, NEW F, NEW A, From(c, n, l, F, A), k < n,
         NEW U, c[k] = Check(U), U \subseteq F
  PROVE  From(c, n, k, F, A)
<1>1. c[k].do = "check" /\ c[k].args = U
  BY DEF Check
<1>2. /\ Len(c) = n /\ n \in Nat /\ k \in 1 .. n /\ Frees(c, k + 1) = F /\ Assigns(c, k + 1) = A
      /\ \A j \in k + 1 .. n : WellAt(c, j)
  BY DEF From
<1>3. Frees(c, k) = F /\ Assigns(c, k) = A
  BY <1>1, <1>2, FreesStep, AssignsStep
<1>4. WellAt(c, k)
  BY <1>1, <1>2, <1>3 DEF WellAt
<1>5. \A j : j \in k .. n <=> j = k \/ j \in k + 1 .. n
  BY <1>2
<1> QED
  BY <1>2, <1>3, <1>4, <1>5 DEF From

LEMMA FromDelete ==
  ASSUME NEW c, NEW n, NEW k \in Nat \ {0}, NEW l, l = k + 1, NEW F, NEW A, From(c, n, l, F, A), k < n,
         NEW v, c[k] = Delete(v), v \notin F, NEW G, G = {v} \cup F
  PROVE  From(c, n, k, G, A)
<1>1. c[k].do = "delete" /\ c[k].args = {v}
  BY DEF Delete
<1>2. /\ Len(c) = n /\ n \in Nat /\ k \in 1 .. n /\ Frees(c, k + 1) = F /\ Assigns(c, k + 1) = A
      /\ \A j \in k + 1 .. n : WellAt(c, j)
  BY DEF From
<1>3. Frees(c, k) = G /\ Assigns(c, k) = A
  BY <1>1, <1>2, FreesStep, AssignsStep
<1>4. WellAt(c, k)
  BY <1>1, <1>2, <1>3 DEF WellAt
<1>5. \A j : j \in k .. n <=> j = k \/ j \in k + 1 .. n
  BY <1>2
<1> QED
  BY <1>2, <1>3, <1>4, <1>5 DEF From

LEMMA FromCall ==
  ASSUME NEW c, NEW n, NEW k \in Nat \ {0}, NEW l, l = k + 1, NEW F, NEW A, From(c, n, l, F, A), k < n,
         NEW to, NEW f, NEW args, c[k] = Call(to, f, args), args \subseteq F,
         to \in F \cup {"none"}, to # "none" => to \notin A, to \in c[n].args => Kind(f).result = "object",
         to = "none" => Kind(f).result \in {"none", "throws"},
         to # "none" => Kind(f).result # "retval" \/ \E U : c[l] = Check(U) /\ to \notin U,
         NEW B, B = {to} \cup A, NEW kept, kept = F \ B, Cautious(c, l, kept)
  PROVE  From(c, n, k, F, B)
<1>1. c[k].do = "call" /\ c[k].args = args /\ c[k].to = to /\ c[k].f = f
  BY DEF Call
<1>2. /\ Len(c) = n /\ n \in Nat /\ k \in 1 .. n /\ Frees(c, k + 1) = F /\ Assigns(c, k + 1) = A
      /\ \A j \in k + 1 .. n : WellAt(c, j)
  BY DEF From
<1>3. Frees(c, k) = F /\ Assigns(c, k) = B
  BY <1>1, <1>2, FreesStep, AssignsStep
<1>4. Cautious(c, k + 1, F \ B)
  OBVIOUS
<1>5. WellAt(c, k)
  <2>1. c[k].do \in {"call", "delete", "check", "return"} /\ (c[k].do = "return" <=> k = Len(c)) /\ c[k].do # "delete"
    BY <1>1, <1>2
  <2>2. c[k].args \subseteq Frees(c, k)
    BY <1>1, <1>3
  <2>3. /\ c[k].to \in Frees(c, k + 1) \cup {"none"} /\ (c[k].to # "none" => c[k].to \notin Assigns(c, k + 1))
        /\ c[k].to \in c[Len(c)].args => Kind(c[k].f).result = "object"
        /\ c[k].to = "none" => Kind(c[k].f).result \in {"none", "throws"}
    BY <1>1, <1>2
  <2>4. Cautious(c, k + 1, Frees(c, k + 1) \ Assigns(c, k))
    BY <1>2, <1>3, <1>4
  <2>5. Kind(c[k].f).result = "retval" => c[k + 1].do = "check" /\ c[k].to \notin c[k + 1].args
    <3>1. SUFFICES ASSUME Kind(f).result = "retval" PROVE c[l].do = "check" /\ to \notin c[l].args
      BY <1>1
    <3>2. to # "none"
      BY <3>1
    <3>3. PICK U : c[l] = Check(U) /\ to \notin U
      BY <3>1, <3>2
    <3> QED
      BY <3>3 DEF Check
  <2> QED
    BY <2>1, <2>2, <2>3, <2>4, <2>5 DEF WellAt
<1>6. \A j : j \in k .. n <=> j = k \/ j \in k + 1 .. n
  BY <1>2
<1> QED
  BY <1>2, <1>3, <1>5, <1>6 DEF From

\* From its first step on, a function is well made.
LEMMA FromFirst ==
  ASSUME NEW c, NEW n \in Nat \ {0}, NEW F, NEW A, From(c, n, 1, F, A), DOMAIN c = 1 .. n, c # <<>>, c[n].args \subseteq A,
         F \subseteq Variables, A \subseteq Variables \cup {"none"}
  PROVE  WellMade(c) /\ Frees(c, 1) \subseteq Variables /\ Assigns(c, 1) \subseteq Variables \cup {"none"}
<1>1. Len(c) = n /\ Frees(c, 1) = F /\ Assigns(c, 1) = A /\ \A k \in DOMAIN c : WellAt(c, k)
  BY DEF From
<1> QED
  BY <1>1 DEF WellMade, WellAt

\* Cautious holds where the exception is found, where it is found after a deletion,
\* and at the end.
LEMMA CautiousIfFound ==
  ASSUME NEW c, NEW n, Len(c) = n, n \in Nat, NEW k \in 1 .. n, NEW U, c[k] = Check(U), NEW kept, kept \subseteq U
  PROVE  Cautious(c, k, kept)
<1>1. c[k].do = "check" /\ c[k].args = U
  BY DEF Check
<1> QED
  BY <1>1, CautiousCheck

LEMMA CautiousIfDeleted ==
  ASSUME NEW c, NEW n, Len(c) = n, n \in Nat, NEW k \in 1 .. n, k < n, NEW v, c[k] = Delete(v),
         NEW l, l = k + 1, NEW kept, NEW rest, rest = kept \ {v}, Cautious(c, l, rest)
  PROVE  Cautious(c, k, kept)
<1>1. c[k].do = "delete" /\ c[k].args = {v} /\ k # Len(c)
  BY DEF Delete
<1>2. Cautious(c, k + 1, kept \ c[k].args)
  BY <1>1
<1> QED
  BY <1>1, <1>2, CautiousDelete

LEMMA CautiousIfReturned ==
  ASSUME NEW c, NEW n, Len(c) = n, n \in Nat \ {0}, c[n] = Return({}), NEW kept
  PROVE  Cautious(c, n, kept)
<1>1. c[n].do = "return" /\ c[n].args = {} /\ n \in 1 .. Len(c)
  BY DEF Return
<1> QED
  BY <1>1, CautiousReturn

\* Its variables are among those there are.
Fits(c) == WellMade(c) /\ Frees(c, 1) \subseteq Variables /\ Assigns(c, 1) \subseteq Variables \cup {"none"}

\* Each function that calls others is well made, step by step from its end.
LEMMA NewObjectIs == Fits(NewObject)
<1>1. PICK c : c = NewObject
  OBVIOUS
<1>2. PICK E, N, O, NO : E = {} /\ N = {"none"} /\ O = {"obj"} /\ NO = {"none", "obj"}
  OBVIOUS
<1>3. c # <<>> /\ Len(c) = 5 /\ DOMAIN c = 1 .. 5 /\ 5 \in Nat \ {0}
  BY <1>1 DEF NewObject
<1>4. c[1] = Call("obj", "AllocObject", E)
  BY <1>1, <1>2 DEF NewObject
<1>5. c[2] = Check(E)
  BY <1>1, <1>2 DEF NewObject
<1>6. c[3] = Call("none", "CallNonvirtualVoidMethod", O)
  BY <1>1, <1>2 DEF NewObject
<1>7. c[4] = Check(O)
  BY <1>1, <1>2 DEF NewObject
<1>8. c[5] = Return(O)
  BY <1>1, <1>2 DEF NewObject
<1>9. From(c, 5, 5, O, E)
  <2>1. From(c, 5, 5, O, {})
    BY <1>3, <1>8, FromReturn
  <2> QED
    BY <1>2, <2>1
<1>10. From(c, 5, 4, O, E)
  <2>1. 4 \in Nat \ {0} /\ 5 = 4 + 1 /\ 4 < 5 /\ 4 \in 1 .. 5
    OBVIOUS
  <2>2. O \subseteq O
    BY <1>2
  <2> QED
    BY <1>7, <1>9, <2>1, <2>2, FromCheck
<1>11. From(c, 5, 3, O, N)
  <2>1. Cautious(c, 4, O)
    <3>1. 4 \in 1 .. 5 /\ 5 \in Nat
      OBVIOUS
    <3>2. O \subseteq O
      BY <1>2
    <3> QED
      BY <1>3, <1>7, <3>1, <3>2, CautiousIfFound
  <2>2. 3 \in Nat \ {0} /\ 4 = 3 + 1 /\ 3 < 5 /\ 3 \in 1 .. 5
    OBVIOUS
  <2>3. /\ N = {"none"} \cup E /\ O = O \ N /\ O \subseteq O
       /\ "none" = "none"
    BY <1>2
  <2>4. "none" \notin c[5].args
    BY <1>2, <1>8 DEF Return
  <2>5. Kind("CallNonvirtualVoidMethod").result \in {"none", "throws"}
    BY VoidMethod
  <2> QED
    BY <1>6, <1>10, <2>1, <2>2, <2>3, <2>4, <2>5, FromCall
<1>12. From(c, 5, 2, O, N)
  <2>1. 2 \in Nat \ {0} /\ 3 = 2 + 1 /\ 2 < 5 /\ 2 \in 1 .. 5
    OBVIOUS
  <2>2. E \subseteq O
    BY <1>2
  <2> QED
    BY <1>5, <1>11, <2>1, <2>2, FromCheck
<1>13. From(c, 5, 1, O, NO)
  <2>1. Cautious(c, 2, E)
    <3>1. 2 \in 1 .. 5 /\ 5 \in Nat
      OBVIOUS
    <3>2. E \subseteq E
      BY <1>2
    <3> QED
      BY <1>3, <1>5, <3>1, <3>2, CautiousIfFound
  <2>2. 1 \in Nat \ {0} /\ 2 = 1 + 1 /\ 1 < 5 /\ 1 \in 1 .. 5
    OBVIOUS
  <2>3. /\ NO = {"obj"} \cup N /\ E = O \ NO /\ E \subseteq O
       /\ "obj" \in O /\ "obj" \notin N /\ "obj" # "none"
    BY <1>2
  <2>4. "obj" \in c[5].args => Kind("AllocObject").result = "object"
    BY Allocates
  <2>5. \E U : c[2] = Check(U) /\ "obj" \notin U
    BY <1>2, <1>5
  <2> QED
    BY <1>4, <1>12, <2>1, <2>2, <2>3, <2>4, <2>5, FromCall
<1>14. /\ c[5].args \subseteq NO /\ O \subseteq Variables
      /\ NO \subseteq Variables \cup {"none"}
  BY <1>2, <1>8 DEF Return, Variables
<1> QED
  BY <1>1, <1>3, <1>13, <1>14, FromFirst DEF Fits

LEMMA GetStringLengthIs == Fits(GetStringLength)
<1>1. PICK c : c = GetStringLength
  OBVIOUS
<1>2. PICK C, E, N, CN : C = {"class"} /\ E = {} /\ N = {"none"} /\ CN = {"class", "none"}
  OBVIOUS
<1>3. c # <<>> /\ Len(c) = 7 /\ DOMAIN c = 1 .. 7 /\ 7 \in Nat \ {0}
  BY <1>1 DEF GetStringLength
<1>4. c[1] = Call("class", "FindClass", E)
  BY <1>1, <1>2 DEF GetStringLength
<1>5. c[2] = Check(E)
  BY <1>1, <1>2 DEF GetStringLength
<1>6. c[3] = Call("none", "GetMethodID", C)
  BY <1>1, <1>2 DEF GetStringLength
<1>7. c[4] = Delete("class")
  BY <1>1, <1>2 DEF GetStringLength
<1>8. c[5] = Check(E)
  BY <1>1, <1>2 DEF GetStringLength
<1>9. c[6] = Call("none", "CallIntMethod", E)
  BY <1>1, <1>2 DEF GetStringLength
<1>10. c[7] = Return(E)
  BY <1>1, <1>2 DEF GetStringLength
<1>11. From(c, 7, 7, E, E)
  <2>1. From(c, 7, 7, E, {})
    BY <1>3, <1>10, FromReturn
  <2> QED
    BY <1>2, <2>1
<1>12. From(c, 7, 6, E, N)
  <2>1. Cautious(c, 7, E)
    <3>1. c[7] = Return({})
      BY <1>2, <1>10
    <3> QED
      BY <1>3, <3>1, CautiousIfReturned
  <2>2. 6 \in Nat \ {0} /\ 7 = 6 + 1 /\ 6 < 7 /\ 6 \in 1 .. 7
    OBVIOUS
  <2>3. /\ N = {"none"} \cup E /\ E = E \ N /\ E \subseteq E
       /\ "none" = "none"
    BY <1>2
  <2>4. "none" \notin c[7].args
    BY <1>2, <1>10 DEF Return
  <2>5. Kind("CallIntMethod").result \in {"none", "throws"}
    BY IntMethod
  <2> QED
    BY <1>9, <1>11, <2>1, <2>2, <2>3, <2>4, <2>5, FromCall
<1>13. From(c, 7, 5, E, N)
  <2>1. 5 \in Nat \ {0} /\ 6 = 5 + 1 /\ 5 < 7 /\ 5 \in 1 .. 7
    OBVIOUS
  <2>2. E \subseteq E
    BY <1>2
  <2> QED
    BY <1>8, <1>12, <2>1, <2>2, FromCheck
<1>14. From(c, 7, 4, C, N)
  <2>1. 4 \in Nat \ {0} /\ 5 = 4 + 1 /\ 4 < 7 /\ 4 \in 1 .. 7
    OBVIOUS
  <2>2. C = {"class"} \cup E /\ "class" \notin E
    BY <1>2
  <2> QED
    BY <1>7, <1>13, <2>1, <2>2, FromDelete
<1>15. From(c, 7, 3, C, N)
  <2>1. Cautious(c, 5, E)
    <3>1. 5 \in 1 .. 7 /\ 7 \in Nat
      OBVIOUS
    <3>2. E \subseteq E
      BY <1>2
    <3> QED
      BY <1>3, <1>8, <3>1, <3>2, CautiousIfFound
  <2>2. Cautious(c, 4, C)
    <3>1. 4 \in Nat \ {0} /\ 5 = 4 + 1 /\ 4 < 7 /\ 4 \in 1 .. 7 /\ 7 \in Nat
      OBVIOUS
    <3>2. E = C \ {"class"}
      BY <1>2
    <3> QED
      BY <1>3, <1>7, <2>1, <3>1, <3>2, CautiousIfDeleted
  <2>3. 3 \in Nat \ {0} /\ 4 = 3 + 1 /\ 3 < 7 /\ 3 \in 1 .. 7
    OBVIOUS
  <2>4. /\ N = {"none"} \cup N /\ C = C \ N /\ C \subseteq C
       /\ "none" = "none"
    BY <1>2
  <2>5. "none" \notin c[7].args
    BY <1>2, <1>10 DEF Return
  <2>6. Kind("GetMethodID").result \in {"none", "throws"}
    BY MethodID
  <2> QED
    BY <1>6, <1>14, <2>2, <2>3, <2>4, <2>5, <2>6, FromCall
<1>16. From(c, 7, 2, C, N)
  <2>1. 2 \in Nat \ {0} /\ 3 = 2 + 1 /\ 2 < 7 /\ 2 \in 1 .. 7
    OBVIOUS
  <2>2. E \subseteq C
    BY <1>2
  <2> QED
    BY <1>5, <1>15, <2>1, <2>2, FromCheck
<1>17. From(c, 7, 1, C, CN)
  <2>1. Cautious(c, 2, E)
    <3>1. 2 \in 1 .. 7 /\ 7 \in Nat
      OBVIOUS
    <3>2. E \subseteq E
      BY <1>2
    <3> QED
      BY <1>3, <1>5, <3>1, <3>2, CautiousIfFound
  <2>2. 1 \in Nat \ {0} /\ 2 = 1 + 1 /\ 1 < 7 /\ 1 \in 1 .. 7
    OBVIOUS
  <2>3. /\ CN = {"class"} \cup N /\ E = C \ CN /\ E \subseteq C
       /\ "class" \in C /\ "class" \notin N /\ "class" # "none"
    BY <1>2
  <2>4. "class" \notin c[7].args
    BY <1>2, <1>10 DEF Return
  <2>5. \E U : c[2] = Check(U) /\ "class" \notin U
    BY <1>2, <1>5
  <2> QED
    BY <1>4, <1>16, <2>1, <2>2, <2>3, <2>4, <2>5, FromCall
<1>18. /\ c[7].args \subseteq CN /\ C \subseteq Variables
      /\ CN \subseteq Variables \cup {"none"}
  BY <1>2, <1>10 DEF Return, Variables
<1> QED
  BY <1>1, <1>3, <1>17, <1>18, FromFirst DEF Fits

LEMMA GetStringRegionIs == Fits(GetStringRegion)
<1>1. PICK c : c = GetStringRegion
  OBVIOUS
<1>2. PICK C, E, H, N, HC, HN, HCN : C = {"class"} /\ E = {} /\ H = {"chars"} /\ N = {"none"} /\ HC = {"chars", "class"} /\ HN = {"chars", "none"} /\ HCN = {"chars", "class", "none"}
  OBVIOUS
<1>3. c # <<>> /\ Len(c) = 10 /\ DOMAIN c = 1 .. 10 /\ 10 \in Nat \ {0}
  BY <1>1 DEF GetStringRegion
<1>4. c[1] = Call("class", "FindClass", E)
  BY <1>1, <1>2 DEF GetStringRegion
<1>5. c[2] = Check(E)
  BY <1>1, <1>2 DEF GetStringRegion
<1>6. c[3] = Call("none", "GetMethodID", C)
  BY <1>1, <1>2 DEF GetStringRegion
<1>7. c[4] = Delete("class")
  BY <1>1, <1>2 DEF GetStringRegion
<1>8. c[5] = Check(E)
  BY <1>1, <1>2 DEF GetStringRegion
<1>9. c[6] = Call("chars", "CallObjectMethod", E)
  BY <1>1, <1>2 DEF GetStringRegion
<1>10. c[7] = Check(E)
  BY <1>1, <1>2 DEF GetStringRegion
<1>11. c[8] = Call("none", "GetCharArrayRegion", H)
  BY <1>1, <1>2 DEF GetStringRegion
<1>12. c[9] = Delete("chars")
  BY <1>1, <1>2 DEF GetStringRegion
<1>13. c[10] = Return(E)
  BY <1>1, <1>2 DEF GetStringRegion
<1>14. From(c, 10, 10, E, E)
  <2>1. From(c, 10, 10, E, {})
    BY <1>3, <1>13, FromReturn
  <2> QED
    BY <1>2, <2>1
<1>15. From(c, 10, 9, H, E)
  <2>1. 9 \in Nat \ {0} /\ 10 = 9 + 1 /\ 9 < 10 /\ 9 \in 1 .. 10
    OBVIOUS
  <2>2. H = {"chars"} \cup E /\ "chars" \notin E
    BY <1>2
  <2> QED
    BY <1>12, <1>14, <2>1, <2>2, FromDelete
<1>16. From(c, 10, 8, H, N)
  <2>1. Cautious(c, 10, E)
    <3>1. c[10] = Return({})
      BY <1>2, <1>13
    <3> QED
      BY <1>3, <3>1, CautiousIfReturned
  <2>2. Cautious(c, 9, H)
    <3>1. 9 \in Nat \ {0} /\ 10 = 9 + 1 /\ 9 < 10 /\ 9 \in 1 .. 10 /\ 10 \in Nat
      OBVIOUS
    <3>2. E = H \ {"chars"}
      BY <1>2
    <3> QED
      BY <1>3, <1>12, <2>1, <3>1, <3>2, CautiousIfDeleted
  <2>3. 8 \in Nat \ {0} /\ 9 = 8 + 1 /\ 8 < 10 /\ 8 \in 1 .. 10
    OBVIOUS
  <2>4. /\ N = {"none"} \cup E /\ H = H \ N /\ H \subseteq H
       /\ "none" = "none"
    BY <1>2
  <2>5. "none" \notin c[10].args
    BY <1>2, <1>13 DEF Return
  <2>6. Kind("GetCharArrayRegion").result \in {"none", "throws"}
    BY CharRegion
  <2> QED
    BY <1>11, <1>15, <2>2, <2>3, <2>4, <2>5, <2>6, FromCall
<1>17. From(c, 10, 7, H, N)
  <2>1. 7 \in Nat \ {0} /\ 8 = 7 + 1 /\ 7 < 10 /\ 7 \in 1 .. 10
    OBVIOUS
  <2>2. E \subseteq H
    BY <1>2
  <2> QED
    BY <1>10, <1>16, <2>1, <2>2, FromCheck
<1>18. From(c, 10, 6, H, HN)
  <2>1. Cautious(c, 7, E)
    <3>1. 7 \in 1 .. 10 /\ 10 \in Nat
      OBVIOUS
    <3>2. E \subseteq E
      BY <1>2
    <3> QED
      BY <1>3, <1>10, <3>1, <3>2, CautiousIfFound
  <2>2. 6 \in Nat \ {0} /\ 7 = 6 + 1 /\ 6 < 10 /\ 6 \in 1 .. 10
    OBVIOUS
  <2>3. /\ HN = {"chars"} \cup N /\ E = H \ HN /\ E \subseteq H
       /\ "chars" \in H /\ "chars" \notin N /\ "chars" # "none"
    BY <1>2
  <2>4. "chars" \notin c[10].args
    BY <1>2, <1>13 DEF Return
  <2>5. \E U : c[7] = Check(U) /\ "chars" \notin U
    BY <1>2, <1>10
  <2> QED
    BY <1>9, <1>17, <2>1, <2>2, <2>3, <2>4, <2>5, FromCall
<1>19. From(c, 10, 5, H, HN)
  <2>1. 5 \in Nat \ {0} /\ 6 = 5 + 1 /\ 5 < 10 /\ 5 \in 1 .. 10
    OBVIOUS
  <2>2. E \subseteq H
    BY <1>2
  <2> QED
    BY <1>8, <1>18, <2>1, <2>2, FromCheck
<1>20. From(c, 10, 4, HC, HN)
  <2>1. 4 \in Nat \ {0} /\ 5 = 4 + 1 /\ 4 < 10 /\ 4 \in 1 .. 10
    OBVIOUS
  <2>2. HC = {"class"} \cup H /\ "class" \notin H
    BY <1>2
  <2> QED
    BY <1>7, <1>19, <2>1, <2>2, FromDelete
<1>21. From(c, 10, 3, HC, HN)
  <2>1. Cautious(c, 5, E)
    <3>1. 5 \in 1 .. 10 /\ 10 \in Nat
      OBVIOUS
    <3>2. E \subseteq E
      BY <1>2
    <3> QED
      BY <1>3, <1>8, <3>1, <3>2, CautiousIfFound
  <2>2. Cautious(c, 4, C)
    <3>1. 4 \in Nat \ {0} /\ 5 = 4 + 1 /\ 4 < 10 /\ 4 \in 1 .. 10 /\ 10 \in Nat
      OBVIOUS
    <3>2. E = C \ {"class"}
      BY <1>2
    <3> QED
      BY <1>3, <1>7, <2>1, <3>1, <3>2, CautiousIfDeleted
  <2>3. 3 \in Nat \ {0} /\ 4 = 3 + 1 /\ 3 < 10 /\ 3 \in 1 .. 10
    OBVIOUS
  <2>4. /\ HN = {"none"} \cup HN /\ C = HC \ HN /\ C \subseteq HC
       /\ "none" = "none"
    BY <1>2
  <2>5. "none" \notin c[10].args
    BY <1>2, <1>13 DEF Return
  <2>6. Kind("GetMethodID").result \in {"none", "throws"}
    BY MethodID
  <2> QED
    BY <1>6, <1>20, <2>2, <2>3, <2>4, <2>5, <2>6, FromCall
<1>22. From(c, 10, 2, HC, HN)
  <2>1. 2 \in Nat \ {0} /\ 3 = 2 + 1 /\ 2 < 10 /\ 2 \in 1 .. 10
    OBVIOUS
  <2>2. E \subseteq HC
    BY <1>2
  <2> QED
    BY <1>5, <1>21, <2>1, <2>2, FromCheck
<1>23. From(c, 10, 1, HC, HCN)
  <2>1. Cautious(c, 2, E)
    <3>1. 2 \in 1 .. 10 /\ 10 \in Nat
      OBVIOUS
    <3>2. E \subseteq E
      BY <1>2
    <3> QED
      BY <1>3, <1>5, <3>1, <3>2, CautiousIfFound
  <2>2. 1 \in Nat \ {0} /\ 2 = 1 + 1 /\ 1 < 10 /\ 1 \in 1 .. 10
    OBVIOUS
  <2>3. /\ HCN = {"class"} \cup HN /\ E = HC \ HCN /\ E \subseteq HC
       /\ "class" \in HC /\ "class" \notin HN /\ "class" # "none"
    BY <1>2
  <2>4. "class" \notin c[10].args
    BY <1>2, <1>13 DEF Return
  <2>5. \E U : c[2] = Check(U) /\ "class" \notin U
    BY <1>2, <1>5
  <2> QED
    BY <1>4, <1>22, <2>1, <2>2, <2>3, <2>4, <2>5, FromCall
<1>24. /\ c[10].args \subseteq HCN /\ HC \subseteq Variables
      /\ HCN \subseteq Variables \cup {"none"}
  BY <1>2, <1>13 DEF Return, Variables
<1> QED
  BY <1>1, <1>3, <1>23, <1>24, FromFirst DEF Fits

LEMMA ThrowNewIs == Fits(ThrowNew)
<1>1. PICK c : c = ThrowNew
  OBVIOUS
<1>2. PICK E, N, O, S, NO, OS, NOS : E = {} /\ N = {"none"} /\ O = {"obj"} /\ S = {"string"} /\ NO = {"none", "obj"} /\ OS = {"obj", "string"} /\ NOS = {"none", "obj", "string"}
  OBVIOUS
<1>3. c # <<>> /\ Len(c) = 10 /\ DOMAIN c = 1 .. 10 /\ 10 \in Nat \ {0}
  BY <1>1 DEF ThrowNew
<1>4. c[1] = Call("none", "GetMethodID", E)
  BY <1>1, <1>2 DEF ThrowNew
<1>5. c[2] = Check(E)
  BY <1>1, <1>2 DEF ThrowNew
<1>6. c[3] = Call("string", "NewStringUTF", E)
  BY <1>1, <1>2 DEF ThrowNew
<1>7. c[4] = Check(E)
  BY <1>1, <1>2 DEF ThrowNew
<1>8. c[5] = Call("obj", "NewObject", S)
  BY <1>1, <1>2 DEF ThrowNew
<1>9. c[6] = Delete("string")
  BY <1>1, <1>2 DEF ThrowNew
<1>10. c[7] = Check(E)
  BY <1>1, <1>2 DEF ThrowNew
<1>11. c[8] = Call("none", "Throw", O)
  BY <1>1, <1>2 DEF ThrowNew
<1>12. c[9] = Delete("obj")
  BY <1>1, <1>2 DEF ThrowNew
<1>13. c[10] = Return(E)
  BY <1>1, <1>2 DEF ThrowNew
<1>14. From(c, 10, 10, E, E)
  <2>1. From(c, 10, 10, E, {})
    BY <1>3, <1>13, FromReturn
  <2> QED
    BY <1>2, <2>1
<1>15. From(c, 10, 9, O, E)
  <2>1. 9 \in Nat \ {0} /\ 10 = 9 + 1 /\ 9 < 10 /\ 9 \in 1 .. 10
    OBVIOUS
  <2>2. O = {"obj"} \cup E /\ "obj" \notin E
    BY <1>2
  <2> QED
    BY <1>12, <1>14, <2>1, <2>2, FromDelete
<1>16. From(c, 10, 8, O, N)
  <2>1. Cautious(c, 10, E)
    <3>1. c[10] = Return({})
      BY <1>2, <1>13
    <3> QED
      BY <1>3, <3>1, CautiousIfReturned
  <2>2. Cautious(c, 9, O)
    <3>1. 9 \in Nat \ {0} /\ 10 = 9 + 1 /\ 9 < 10 /\ 9 \in 1 .. 10 /\ 10 \in Nat
      OBVIOUS
    <3>2. E = O \ {"obj"}
      BY <1>2
    <3> QED
      BY <1>3, <1>12, <2>1, <3>1, <3>2, CautiousIfDeleted
  <2>3. 8 \in Nat \ {0} /\ 9 = 8 + 1 /\ 8 < 10 /\ 8 \in 1 .. 10
    OBVIOUS
  <2>4. /\ N = {"none"} \cup E /\ O = O \ N /\ O \subseteq O
       /\ "none" = "none"
    BY <1>2
  <2>5. "none" \notin c[10].args
    BY <1>2, <1>13 DEF Return
  <2>6. Kind("Throw").result \in {"none", "throws"}
    BY Thrown
  <2> QED
    BY <1>11, <1>15, <2>2, <2>3, <2>4, <2>5, <2>6, FromCall
<1>17. From(c, 10, 7, O, N)
  <2>1. 7 \in Nat \ {0} /\ 8 = 7 + 1 /\ 7 < 10 /\ 7 \in 1 .. 10
    OBVIOUS
  <2>2. E \subseteq O
    BY <1>2
  <2> QED
    BY <1>10, <1>16, <2>1, <2>2, FromCheck
<1>18. From(c, 10, 6, OS, N)
  <2>1. 6 \in Nat \ {0} /\ 7 = 6 + 1 /\ 6 < 10 /\ 6 \in 1 .. 10
    OBVIOUS
  <2>2. OS = {"string"} \cup O /\ "string" \notin O
    BY <1>2
  <2> QED
    BY <1>9, <1>17, <2>1, <2>2, FromDelete
<1>19. From(c, 10, 5, OS, NO)
  <2>1. Cautious(c, 7, E)
    <3>1. 7 \in 1 .. 10 /\ 10 \in Nat
      OBVIOUS
    <3>2. E \subseteq E
      BY <1>2
    <3> QED
      BY <1>3, <1>10, <3>1, <3>2, CautiousIfFound
  <2>2. Cautious(c, 6, S)
    <3>1. 6 \in Nat \ {0} /\ 7 = 6 + 1 /\ 6 < 10 /\ 6 \in 1 .. 10 /\ 10 \in Nat
      OBVIOUS
    <3>2. E = S \ {"string"}
      BY <1>2
    <3> QED
      BY <1>3, <1>9, <2>1, <3>1, <3>2, CautiousIfDeleted
  <2>3. 5 \in Nat \ {0} /\ 6 = 5 + 1 /\ 5 < 10 /\ 5 \in 1 .. 10
    OBVIOUS
  <2>4. /\ NO = {"obj"} \cup N /\ S = OS \ NO /\ S \subseteq OS
       /\ "obj" \in OS /\ "obj" \notin N /\ "obj" # "none"
    BY <1>2
  <2>5. "obj" \notin c[10].args
    BY <1>2, <1>13 DEF Return
  <2>6. Kind("NewObject").result # "retval"
    BY Constructs
  <2> QED
    BY <1>8, <1>18, <2>2, <2>3, <2>4, <2>5, <2>6, FromCall
<1>20. From(c, 10, 4, OS, NO)
  <2>1. 4 \in Nat \ {0} /\ 5 = 4 + 1 /\ 4 < 10 /\ 4 \in 1 .. 10
    OBVIOUS
  <2>2. E \subseteq OS
    BY <1>2
  <2> QED
    BY <1>7, <1>19, <2>1, <2>2, FromCheck
<1>21. From(c, 10, 3, OS, NOS)
  <2>1. Cautious(c, 4, E)
    <3>1. 4 \in 1 .. 10 /\ 10 \in Nat
      OBVIOUS
    <3>2. E \subseteq E
      BY <1>2
    <3> QED
      BY <1>3, <1>7, <3>1, <3>2, CautiousIfFound
  <2>2. 3 \in Nat \ {0} /\ 4 = 3 + 1 /\ 3 < 10 /\ 3 \in 1 .. 10
    OBVIOUS
  <2>3. /\ NOS = {"string"} \cup NO /\ E = OS \ NOS /\ E \subseteq OS
       /\ "string" \in OS /\ "string" \notin NO /\ "string" # "none"
    BY <1>2
  <2>4. "string" \notin c[10].args
    BY <1>2, <1>13 DEF Return
  <2>5. \E U : c[4] = Check(U) /\ "string" \notin U
    BY <1>2, <1>7
  <2> QED
    BY <1>6, <1>20, <2>1, <2>2, <2>3, <2>4, <2>5, FromCall
<1>22. From(c, 10, 2, OS, NOS)
  <2>1. 2 \in Nat \ {0} /\ 3 = 2 + 1 /\ 2 < 10 /\ 2 \in 1 .. 10
    OBVIOUS
  <2>2. E \subseteq OS
    BY <1>2
  <2> QED
    BY <1>5, <1>21, <2>1, <2>2, FromCheck
<1>23. From(c, 10, 1, OS, NOS)
  <2>1. Cautious(c, 2, E)
    <3>1. 2 \in 1 .. 10 /\ 10 \in Nat
      OBVIOUS
    <3>2. E \subseteq E
      BY <1>2
    <3> QED
      BY <1>3, <1>5, <3>1, <3>2, CautiousIfFound
  <2>2. 1 \in Nat \ {0} /\ 2 = 1 + 1 /\ 1 < 10 /\ 1 \in 1 .. 10
    OBVIOUS
  <2>3. /\ NOS = {"none"} \cup NOS /\ E = OS \ NOS /\ E \subseteq OS
       /\ "none" = "none"
    BY <1>2
  <2>4. "none" \notin c[10].args
    BY <1>2, <1>13 DEF Return
  <2>5. Kind("GetMethodID").result \in {"none", "throws"}
    BY MethodID
  <2> QED
    BY <1>4, <1>22, <2>1, <2>2, <2>3, <2>4, <2>5, FromCall
<1>24. /\ c[10].args \subseteq NOS /\ OS \subseteq Variables
      /\ NOS \subseteq Variables \cup {"none"}
  BY <1>2, <1>13 DEF Return, Variables
<1> QED
  BY <1>1, <1>3, <1>23, <1>24, FromFirst DEF Fits

\* Each is a sequence.
LEMMA NewObjectSeq == \E T : NewObject \in Seq(T)
<1>1. PICK T : T = {NewObject[k] : k \in 1 .. 5}
  OBVIOUS
<1>2. NewObject[1] \in T /\ NewObject[2] \in T /\ NewObject[3] \in T /\ NewObject[4] \in T /\ NewObject[5] \in T
  BY <1>1
<1>3. NewObject \in Seq(T)
  BY <1>2 DEF NewObject
<1> QED
  BY <1>3

LEMMA GetStringLengthSeq == \E T : GetStringLength \in Seq(T)
<1>1. PICK T : T = {GetStringLength[k] : k \in 1 .. 7}
  OBVIOUS
<1>2. GetStringLength[1] \in T /\ GetStringLength[2] \in T /\ GetStringLength[3] \in T /\ GetStringLength[4] \in T /\ GetStringLength[5] \in T /\ GetStringLength[6] \in T /\ GetStringLength[7] \in T
  BY <1>1
<1>3. GetStringLength \in Seq(T)
  BY <1>2 DEF GetStringLength
<1> QED
  BY <1>3

LEMMA GetStringRegionSeq == \E T : GetStringRegion \in Seq(T)
<1>1. PICK T : T = {GetStringRegion[k] : k \in 1 .. 10}
  OBVIOUS
<1>2. GetStringRegion[1] \in T /\ GetStringRegion[2] \in T /\ GetStringRegion[3] \in T /\ GetStringRegion[4] \in T /\ GetStringRegion[5] \in T /\ GetStringRegion[6] \in T /\ GetStringRegion[7] \in T /\ GetStringRegion[8] \in T /\ GetStringRegion[9] \in T /\ GetStringRegion[10] \in T
  BY <1>1
<1>3. GetStringRegion \in Seq(T)
  BY <1>2 DEF GetStringRegion
<1> QED
  BY <1>3

LEMMA ThrowNewSeq == \E T : ThrowNew \in Seq(T)
<1>1. PICK T : T = {ThrowNew[k] : k \in 1 .. 10}
  OBVIOUS
<1>2. ThrowNew[1] \in T /\ ThrowNew[2] \in T /\ ThrowNew[3] \in T /\ ThrowNew[4] \in T /\ ThrowNew[5] \in T /\ ThrowNew[6] \in T /\ ThrowNew[7] \in T /\ ThrowNew[8] \in T /\ ThrowNew[9] \in T /\ ThrowNew[10] \in T
  BY <1>1
<1>3. ThrowNew \in Seq(T)
  BY <1>2 DEF ThrowNew
<1> QED
  BY <1>3

\* So are all that native code calls.
LEMMA CompositesAre ==
  ASSUME LocalRules, NEW f \in DOMAIN Composite \ NotCalled
  PROVE  Fits(Composite[f]) /\ \E T : Composite[f] \in Seq(T)
<1>1. f \in {"NewObject", "GetStringLength", "GetStringRegion", "ThrowNew"}
  BY DEF Composite, LocalRules
<1>2. CASE f = "NewObject"
  <2>1. Composite[f] = NewObject
    BY <1>2 DEF Composite
  <2> QED
    BY <2>1, NewObjectIs, NewObjectSeq
<1>3. CASE f = "GetStringLength"
  <2>1. Composite[f] = GetStringLength
    BY <1>3 DEF Composite
  <2> QED
    BY <2>1, GetStringLengthIs, GetStringLengthSeq
<1>4. CASE f = "GetStringRegion"
  <2>1. Composite[f] = GetStringRegion
    BY <1>4 DEF Composite
  <2> QED
    BY <2>1, GetStringRegionIs, GetStringRegionSeq
<1>5. CASE f = "ThrowNew"
  <2>1. Composite[f] = ThrowNew
    BY <1>5 DEF Composite
  <2> QED
    BY <2>1, ThrowNewIs, ThrowNewSeq
<1> QED
  BY <1>1, <1>2, <1>3, <1>4, <1>5

-----------------------------------------------------------------------------
(* Where native code is in a function that calls others *)

\* What is read of such a function.
Reads(c) == Fits(c) /\ Len(c) \in Nat /\ DOMAIN c = 1 .. Len(c) /\ c # <<>>

\* What is left to free, or to assign, is part of what there was.
LEMMA FreesWithin ==
  ASSUME NEW c, Len(c) \in Nat, NEW k \in 1 .. Len(c)
  PROVE  Frees(c, k) \subseteq Frees(c, 1) /\ Assigns(c, k) \subseteq Assigns(c, 1)
<1>1. \A j \in k .. Len(c) : j \in 1 .. Len(c)
  OBVIOUS
<1> QED
  BY <1>1 DEF Frees, Assigns

\* What is left of a sequence.
LEMMA RestIs ==
  ASSUME NEW T, NEW c \in Seq(T), NEW k \in 1 .. Len(c)
  PROVE  /\ SubSeq(c, k, Len(c)) # <<>> /\ Head(SubSeq(c, k, Len(c))) = c[k]
         /\ Tail(SubSeq(c, k, Len(c))) = SubSeq(c, k + 1, Len(c))
<1>1. PICK s : s = SubSeq(c, k, Len(c))
  OBVIOUS
<1>2. Len(c) \in Nat /\ k \in Nat /\ k <= Len(c) /\ DOMAIN c = 1 .. Len(c)
  OBVIOUS
<1>3. s \in Seq(T) /\ Len(s) = Len(c) - k + 1 /\ \A i \in 1 .. Len(c) - k + 1 : s[i] = c[k + i - 1]
  BY <1>1, <1>2
<1>4. Len(s) >= 1 /\ s # <<>>
  BY <1>2, <1>3
<1>5. s[1] = c[k]
  BY <1>2, <1>3
<1>6. Head(s) = c[k]
  BY <1>3, <1>4, <1>5
<1>7. PICK t : t = SubSeq(c, k + 1, Len(c))
  OBVIOUS
<1>8. t \in Seq(T) /\ Len(t) = Len(c) - k /\ \A i \in 1 .. Len(c) - k : t[i] = c[k + i]
  <2>1. PICK l \in Nat : l = k + 1
    BY <1>2
  <2>2. t = SubSeq(c, l, Len(c)) /\ l \in 1 .. Len(c) + 1
    BY <1>2, <1>7, <2>1
  <2>3. t \in Seq(T)
    BY <1>2, <2>2, SubSeqProperties
  <2>4. Len(t) = Len(c) - k
    <3>1. \A i \in l .. Len(c) : c[i] \in T
      BY <1>2, <2>2
    <3>2. Len(t) = IF l <= Len(c) THEN Len(c) - l + 1 ELSE 0
      BY <1>2, <2>2, <3>1, SubSeqProperties
    <3>3. CASE l <= Len(c)
      <4>1. Len(c) - l + 1 = Len(c) - k
        BY <1>2, <2>1
      <4> QED
        BY <3>2, <3>3, <4>1
    <3>4. CASE ~(l <= Len(c))
      <4>1. PICK n \in Nat : n = Len(c)
        BY <1>2
      <4>2. k \in Nat /\ k <= n /\ ~(k + 1 <= n)
        BY <1>2, <2>1, <3>4, <4>1
      <4>3. k = n
        BY <4>2
      <4> QED
        BY <3>2, <3>4, <4>1, <4>3
    <3> QED
      BY <3>3, <3>4
  <2>5. \A i \in 1 .. Len(c) - k : t[i] = c[k + i]
    BY <1>2, <2>1, <2>2
  <2> QED
    BY <2>3, <2>4, <2>5
<1>9. /\ Tail(s) \in Seq(T) /\ Len(Tail(s)) = Len(c) - k
      /\ \A i \in 1 .. Len(c) - k : Tail(s)[i] = s[i + 1] /\ i + 1 \in 1 .. Len(c) - k + 1 /\ k + (i + 1) - 1 = k + i
  BY <1>2, <1>3, <1>4
<1>10. \A i \in 1 .. Len(c) - k : Tail(s)[i] = t[i]
  BY <1>3, <1>8, <1>9
<1>11. Tail(s) = t
  BY <1>8, <1>9, <1>10, SeqEqual
<1> QED
  BY <1>1, <1>4, <1>6, <1>7, <1>11

\* Native code is in such a function just if something is left of it.
LEMMA Running ==
  ASSUME LocalRules, Runs, code # <<>>
  PROVE  \E f \in DOMAIN Composite \ NotCalled : \E k \in DOMAIN Composite[f] :
           /\ RunsAt(Composite[f], k) /\ Reads(Composite[f])
           /\ Head(code) = Composite[f][k] /\ Tail(code) = SubSeq(Composite[f], k + 1, Len(Composite[f]))
<1>1. PICK f \in DOMAIN Composite \ NotCalled : \E k \in DOMAIN Composite[f] : RunsAt(Composite[f], k)
  BY DEF Runs
<1>2. PICK c : c = Composite[f]
  OBVIOUS
<1>3. PICK k \in DOMAIN c : RunsAt(c, k)
  BY <1>1, <1>2
<1>4. PICK T : c \in Seq(T)
  BY <1>2, CompositesAre
<1>5. Fits(c) /\ Len(c) \in Nat /\ DOMAIN c = 1 .. Len(c) /\ c # <<>>
  <2>1. Fits(c)
    BY <1>2, CompositesAre
  <2>2. c # <<>>
    BY <2>1 DEF Fits, WellMade
  <2> QED
    BY <1>4, <2>1, <2>2
<1>6. code = SubSeq(c, k, Len(c))
  BY <1>3 DEF RunsAt
<1>7. Head(code) = c[k] /\ Tail(code) = SubSeq(c, k + 1, Len(c))
  BY <1>4, <1>5, <1>6, RestIs
<1> QED
  BY <1>2, <1>3, <1>5, <1>7 DEF Reads

\* Outside such a function its variables are empty.
LEMMA Idle ==
  ASSUME LocalRules, Runs, code = <<>> PROVE own = {} /\ \A v \in Variables : temps[v] = NoRef
<1>1. ASSUME NEW f \in DOMAIN Composite \ NotCalled, NEW k \in DOMAIN Composite[f], RunsAt(Composite[f], k) PROVE FALSE
  <2>1. PICK T : Composite[f] \in Seq(T)
    BY CompositesAre
  <2>2. PICK c \in Seq(T) : c = Composite[f]
    BY <2>1
  <2>3. k \in 1 .. Len(c)
    BY <2>2
  <2>4. code = SubSeq(c, k, Len(c))
    BY <1>1, <2>2 DEF RunsAt
  <2>5. SubSeq(c, k, Len(c)) # <<>>
    BY <2>3, RestIs
  <2> QED
    BY <2>4, <2>5
<1> QED
  BY <1>1 DEF Runs

\* What WellMade says, step by step.
LEMMA WellAtStep ==
  ASSUME NEW c, Reads(c), NEW k \in 1 .. Len(c)
  PROVE  /\ c[k].do \in {"call", "delete", "check", "return"} /\ (c[k].do = "return" <=> k = Len(c))
         /\ c[k].args \subseteq Frees(c, k)
         /\ c[k].do = "delete" => c[k].args \cap Frees(c, k + 1) = {}
         /\ Frees(c, k) \subseteq Variables /\ Assigns(c, k) \subseteq Variables \cup {"none"}
         /\ c[k].do # "return" => k + 1 \in 1 .. Len(c)
<1>1. WellMade(c) /\ Len(c) \in Nat /\ DOMAIN c = 1 .. Len(c)
  BY DEF Reads, Fits
<1>2. /\ c[k].do \in {"call", "delete", "check", "return"} /\ (c[k].do = "return" <=> k = Len(c))
      /\ c[k].args \subseteq Frees(c, k)
      /\ c[k].do = "delete" => c[k].args \cap Frees(c, k + 1) = {}
  BY <1>1 DEF WellMade
<1>3. Frees(c, k) \subseteq Variables /\ Assigns(c, k) \subseteq Variables \cup {"none"}
  BY <1>1, FreesWithin DEF Reads, Fits
<1>4. k # Len(c) => k + 1 \in 1 .. Len(c)
  <2>1. PICK n \in Nat : n = Len(c)
    BY <1>1
  <2>2. k \in 1 .. n
    BY <2>1
  <2>3. k # n => k + 1 \in 1 .. n
    BY <2>2
  <2> QED
    BY <2>1, <2>3
<1> QED
  BY <1>2, <1>3, <1>4

\* What WellMade says of a call.
CallFits(c, k) ==
  /\ c[k].to \in Frees(c, k + 1) \cup {"none"}
  /\ c[k].to # "none" => c[k].to \notin Assigns(c, k + 1)
  /\ c[k].to \in c[Len(c)].args => Kind(c[k].f).result = "object"
  /\ c[k].to = "none" => Kind(c[k].f).result \in {"none", "throws"}
  /\ Kind(c[k].f).result = "retval" => c[k + 1].do = "check" /\ c[k].to \notin c[k + 1].args
  /\ Cautious(c, k + 1, Frees(c, k + 1) \ Assigns(c, k))
  /\ Frees(c, k) = Frees(c, k + 1) /\ Assigns(c, k) = {c[k].to} \cup Assigns(c, k + 1)

LEMMA WellAtCall ==
  ASSUME NEW c, Reads(c), NEW k \in 1 .. Len(c), c[k].do = "call"
  PROVE  CallFits(c, k)
<1>1. WellMade(c) /\ Len(c) \in Nat /\ DOMAIN c = 1 .. Len(c)
  BY DEF Reads, Fits
<1>2. Frees(c, k) = Frees(c, k + 1) /\ Assigns(c, k) = {c[k].to} \cup Assigns(c, k + 1)
  BY <1>1, FreesStep, AssignsStep
<1> QED
  BY <1>1, <1>2 DEF WellMade, CallFits

\* Caution for some references is caution for fewer.
LEMMA CautiousLess ==
  ASSUME NEW c, NEW k, NEW K, NEW L \in SUBSET K, Cautious(c, k, K) PROVE Cautious(c, k, L)
BY DEF Cautious

\* The references that a function has are those in its variables,
Even(c, k) ==
  /\ code = SubSeq(c, k, Len(c))
  /\ own = {temps[v] : v \in Frees(c, k)} \ {NoRef}
  /\ \A v, w \in Frees(c, k) : v # w /\ temps[v] = temps[w] => temps[v] = NoRef
  /\ \A v \in Assigns(c, k) \ {"none"} : temps[v] = NoRef
  /\ exc = NoExc => \A v \in c[Len(c)].args \ Assigns(c, k) : temps[v] # NoRef
  /\ exc # NoExc => Cautious(c, k, {v \in Frees(c, k) : temps[v] # NoRef})

\* except where it is about to find an exception.
LEMMA RunsEven ==
  ASSUME NEW c, NEW k, RunsAt(c, k), exc = NoExc \/ c[k].do # "check"
  PROVE  Even(c, k)
<1>1. PICK F : F = Frees(c, k)
  OBVIOUS
<1>2. own \subseteq {temps[v] : v \in F} \ {NoRef} /\ \A v \in F : temps[v] \in own \cup {NoRef}
  BY <1>1 DEF RunsAt
<1>3. own = {temps[v] : v \in F} \ {NoRef}
  BY <1>2
<1>4. {v \in F : temps[v] \in own} = {v \in F : temps[v] # NoRef}
  BY <1>3
<1> QED
  BY <1>1, <1>3, <1>4 DEF RunsAt, Even

LEMMA EvenRuns ==
  ASSUME NEW c, NEW k, Even(c, k)'
  PROVE  RunsAt(c, k)'
<1>1. PICK F : F = Frees(c, k)
  OBVIOUS
<1>2. own' = {temps'[v] : v \in F} \ {NoRef}
  BY <1>1 DEF Even
<1>3. {v \in F : temps'[v] \in own'} = {v \in F : temps'[v] # NoRef}
  BY <1>2
<1>4. \A v \in F : temps'[v] \in own' \cup {NoRef}
  BY <1>2
<1>5. exc' # NoExc => Cautious(c, k, {v \in F : temps'[v] \in own'})
  BY <1>1, <1>3 DEF Even
<1>6. /\ code' = SubSeq(c, k, Len(c))
      /\ \A v, w \in F : v # w /\ temps'[v] = temps'[w] => temps'[v] = NoRef
      /\ \A v \in Assigns(c, k) \ {"none"} : temps'[v] = NoRef
      /\ exc' = NoExc => \A v \in c[Len(c)].args \ Assigns(c, k) : temps'[v] # NoRef
  BY <1>1 DEF Even
<1> QED
  BY <1>1, <1>2, <1>4, <1>5, <1>6 DEF RunsAt

\* A function has been called; q is its result.
LEMMA RunCall ==
  ASSUME JniAssumption, NEW c, Reads(c), NEW k \in 1 .. Len(c), RunsAt(c, k), c[k].do = "call", exc = NoExc,
         NEW q \in References \cup {NoRef}, q \notin own, temps \in [Variables -> References \cup {NoRef}],
         own' = (IF exc' = NoExc THEN own \cup Refs(q) ELSE own), code' = SubSeq(c, k + 1, Len(c)),
         temps' = IF c[k].to = "none" THEN temps ELSE [temps EXCEPT ![c[k].to] = q],
         exc' # NoExc /\ Kind(c[k].f).result # "retval" => q = NoRef, Kind(c[k].f).result = "object" /\ exc' = NoExc => q # NoRef,
         Kind(c[k].f).result \in {"none", "throws"} => q = NoRef
  PROVE  RunsAt(c, k + 1)'
<1>1. PICK v, F, A, B : /\ v = c[k].to /\ F = Frees(c, k + 1) /\ A = Assigns(c, k) /\ B = Assigns(c, k + 1)
  OBVIOUS
<1>2. /\ v \in F \cup {"none"} /\ (v # "none" => v \notin B) /\ Frees(c, k) = F /\ A = {v} \cup B
      /\ v \in c[Len(c)].args => Kind(c[k].f).result = "object"
      /\ v = "none" => q = NoRef
      /\ exc' # NoExc /\ q # NoRef => c[k + 1].do = "check" /\ v \notin c[k + 1].args
      /\ Cautious(c, k + 1, F \ A)
  <2>1. CallFits(c, k)
    BY WellAtCall
  <2>2. Cautious(c, k + 1, F \ A)
    BY <1>1, <2>1 DEF CallFits
  <2> QED
    BY <1>1, <2>1, <2>2 DEF CallFits
<1>3. F \subseteq Variables /\ A \subseteq Variables \cup {"none"} /\ "none" \notin Variables
  BY <1>1, <1>2, WellAtStep DEF Variables
<1>4. /\ own = {temps[w] : w \in F} \ {NoRef}
      /\ \A w, x \in F : w # x /\ temps[w] = temps[x] => temps[w] = NoRef
      /\ \A w \in A \ {"none"} : temps[w] = NoRef
      /\ \A w \in c[Len(c)].args \ A : temps[w] # NoRef
  <2>1. Even(c, k)
    BY RunsEven
  <2> QED
    BY <1>1, <1>2, <2>1 DEF Even
<1>5. \A w \in Variables : temps'[w] = IF w = v THEN q ELSE temps[w]
  BY <1>1, <1>3
<1>6. Refs(q) = {q} \ {NoRef}
  BY DEF Refs
<1>7. /\ v \in Variables => temps[v] = NoRef
      /\ \A w \in F : temps[w] \in own \cup {NoRef} /\ (w = v => temps[w] = NoRef)
      /\ NoRef \notin own
  BY <1>2, <1>3, <1>4
<1>8. ASSUME NEW w \in F, NEW x \in F, w # x, temps'[w] = temps'[x] PROVE temps'[w] = NoRef
  <2>1. \A y \in F : temps[y] = q => q = NoRef
    BY <1>4
  <2> QED
    BY <1>3, <1>4, <1>5, <1>8, <2>1
<1>9. ASSUME NEW w \in B \ {"none"} PROVE temps'[w] = NoRef
  <2>1. w \in A /\ w # v /\ w \in Variables
    BY <1>2, <1>3
  <2> QED
    BY <1>4, <1>5, <2>1
<1>10. ASSUME exc' = NoExc, NEW w \in c[Len(c)].args \ B PROVE temps'[w] # NoRef
  <2>1. Len(c) \in 1 .. Len(c)
    BY DEF Reads
  <2>2. w \in Variables
    BY <2>1, WellAtStep
  <2>3. CASE w = v
    BY <1>1, <1>2, <1>5, <1>10, <2>2, <2>3
  <2>4. CASE w # v
    BY <1>2, <1>4, <1>5, <2>2, <2>4
  <2> QED
    BY <2>3, <2>4
<1>11. CASE exc' = NoExc \/ q = NoRef
  <2>1. own' = own \cup Refs(q)
    BY <1>6, <1>11
  <2>2. own' = {temps'[w] : w \in F} \ {NoRef}
    <3>1. CASE v = "none"
      <4>1. \A w \in F : temps'[w] = temps[w]
        BY <1>3, <1>5, <3>1
      <4>2. own' = own
        BY <1>2, <1>6, <2>1, <3>1
      <4> QED
        BY <1>4, <4>1, <4>2
    <3>2. CASE v # "none"
      <4>1. v \in F /\ temps[v] = NoRef /\ temps'[v] = q
        BY <1>2, <1>3, <1>4, <1>5, <3>2
      <4>2. \A w \in F : w # v => temps'[w] = temps[w]
        BY <1>3, <1>5
      <4>3. \A r : r \in {temps'[w] : w \in F} \ {NoRef} <=> r \in own \/ (r = q /\ r # NoRef)
        <5>1. TAKE r
        <5>2. ASSUME NEW w \in F, r = temps'[w], r # NoRef PROVE r \in own \/ r = q
          <6>1. CASE w = v
            BY <4>1, <5>2, <6>1
          <6>2. CASE w # v
            BY <1>4, <4>2, <5>2, <6>2
          <6> QED
            BY <6>1, <6>2
        <5>3. ASSUME r \in own PROVE r # NoRef /\ \E w \in F : r = temps'[w]
          <6>1. PICK w \in F : r = temps[w] /\ r # NoRef
            BY <1>4, <5>3
          <6>2. w # v
            BY <4>1, <6>1
          <6> QED
            BY <4>2, <6>1, <6>2
        <5> QED
          BY <4>1, <5>2, <5>3
      <4> QED
        BY <1>6, <2>1, <4>3
    <3> QED
      BY <3>1, <3>2
  <2>3. ASSUME exc' # NoExc PROVE Cautious(c, k + 1, {w \in F : temps'[w] # NoRef})
    <3>1. ASSUME NEW w \in F, temps'[w] # NoRef PROVE w \notin A
      <4>1. w \in Variables /\ w # "none"
        BY <1>3
      <4>2. w # v
        BY <1>5, <1>11, <2>3, <3>1, <4>1
      <4> QED
        BY <1>4, <1>5, <3>1, <4>1, <4>2
    <3>2. {w \in F : temps'[w] # NoRef} \in SUBSET (F \ A)
      BY <3>1
    <3> QED
      BY <1>2, <3>2, CautiousLess
  <2>4. Even(c, k + 1)'
    BY <1>1, <1>8, <1>9, <1>10, <2>2, <2>3 DEF Even
  <2> QED
    BY <2>4, EvenRuns
<1>12. CASE exc' # NoExc /\ q # NoRef
  <2>1. own' = own /\ v # "none" /\ v \in F /\ v \in Variables /\ c[k + 1].do = "check" /\ v \notin c[k + 1].args
    BY <1>2, <1>3, <1>12
  <2>2. \A w \in F : w # v => temps'[w] = temps[w]
    BY <1>3, <1>5
  <2>3. own' \subseteq {temps'[w] : w \in F} \ {NoRef}
    <3>1. SUFFICES ASSUME NEW r \in own PROVE r # NoRef /\ \E w \in F : r = temps'[w]
      BY <2>1
    <3>2. PICK w \in F : r = temps[w]
      BY <1>4
    <3>3. r # NoRef /\ w # v
      BY <1>7, <3>2
    <3> QED
      BY <2>2, <3>2, <3>3
  <2>4. \A w \in F : temps'[w] \notin own' \cup {NoRef} =>
          exc' # NoExc /\ c[k + 1].do = "check" /\ w \notin c[k + 1].args
    BY <1>7, <1>12, <2>1, <2>2
  <2>5. Cautious(c, k + 1, {w \in F : temps'[w] \in own'})
    <3>1. ASSUME NEW w \in F, temps'[w] \in own PROVE w \notin A
      <4>1. w \in Variables /\ w # "none"
        BY <1>3
      <4>2. w # v
        BY <1>5, <3>1, <4>1
      <4>3. temps[w] # NoRef
        BY <1>7, <2>2, <3>1, <4>2
      <4> QED
        BY <1>4, <4>1, <4>3
    <3>2. {w \in F : temps'[w] \in own'} \in SUBSET (F \ A)
      BY <2>1, <3>1
    <3> QED
      BY <1>2, <3>2, CautiousLess
  <2> QED
    BY <1>1, <1>8, <1>9, <1>10, <1>12, <2>3, <2>4, <2>5 DEF RunsAt
<1> QED
  BY <1>11, <1>12

\* References have been deleted.
LEMMA RunDelete ==
  ASSUME JniAssumption, NEW c, Reads(c), NEW k \in 1 .. Len(c), RunsAt(c, k), c[k].do = "delete",
         own' = own \ {temps[v] : v \in c[k].args}, code' = SubSeq(c, k + 1, Len(c)), temps' = temps, exc' = exc
  PROVE  RunsAt(c, k + 1)'
<1>1. PICK F, G, A, U : F = Frees(c, k) /\ G = Frees(c, k + 1) /\ A = Assigns(c, k) /\ U = c[k].args
  OBVIOUS
<1>2. F = U \cup G /\ U \cap G = {} /\ Assigns(c, k + 1) = A /\ Len(c) \in Nat /\ k # Len(c)
  BY <1>1, WellAtStep, FreesStep, AssignsStep DEF Reads
<1>3. /\ own = {temps[w] : w \in F} \ {NoRef}
      /\ \A w, x \in F : w # x /\ temps[w] = temps[x] => temps[w] = NoRef
      /\ \A w \in A \ {"none"} : temps[w] = NoRef
      /\ exc = NoExc => \A w \in c[Len(c)].args \ A : temps[w] # NoRef
      /\ exc # NoExc => Cautious(c, k, {w \in F : temps[w] # NoRef})
  <2>1. Even(c, k)
    BY RunsEven
  <2> QED
    BY <1>1, <2>1 DEF Even
<1>4. own \ {temps[v] : v \in U} = {temps[w] : w \in G} \ {NoRef}
  <2>1. \A w \in G : temps[w] # NoRef => temps[w] \notin {temps[v] : v \in U}
    BY <1>2, <1>3
  <2> QED
    BY <1>2, <1>3, <2>1
<1>5. ASSUME exc # NoExc PROVE Cautious(c, k + 1, {w \in G : temps[w] # NoRef})
  <2>1. Cautious(c, k + 1, {w \in F : temps[w] # NoRef} \ U)
    BY <1>1, <1>2, <1>3, <1>5, CautiousDelete
  <2>2. {w \in F : temps[w] # NoRef} \ U = {w \in G : temps[w] # NoRef}
    BY <1>2
  <2> QED
    BY <2>1, <2>2
<1>6. \A w, x \in G : w # x /\ temps[w] = temps[x] => temps[w] = NoRef
  BY <1>2, <1>3
<1>7. Even(c, k + 1)'
  BY <1>1, <1>2, <1>3, <1>4, <1>5, <1>6 DEF Even
<1> QED
  BY <1>7, EvenRuns

\* There is no exception,
LEMMA RunCheck ==
  ASSUME JniAssumption, NEW c, Reads(c), NEW k \in 1 .. Len(c), RunsAt(c, k), c[k].do = "check", exc = NoExc,
         own' = own, code' = SubSeq(c, k + 1, Len(c)), temps' = temps, exc' = exc
  PROVE  RunsAt(c, k + 1)'
<1>1. Frees(c, k + 1) = Frees(c, k) /\ Assigns(c, k + 1) = Assigns(c, k)
  BY FreesStep, AssignsStep DEF Reads
<1>2. Even(c, k)
  BY RunsEven
<1>3. Even(c, k + 1)'
  BY <1>1, <1>2 DEF Even
<1> QED
  BY <1>3, EvenRuns

\* or there is one and all is deleted.
LEMMA RunFails ==
  ASSUME JniAssumption, NEW c, Reads(c), NEW k \in 1 .. Len(c), RunsAt(c, k), c[k].do = "check", exc # NoExc
  PROVE  own = {temps[v] : v \in c[k].args} \ {NoRef}
<1>1. PICK F, U : F = Frees(c, k) /\ U = c[k].args
  OBVIOUS
<1>2. /\ own \subseteq {temps[w] : w \in F} \ {NoRef} /\ Cautious(c, k, {w \in F : temps[w] \in own})
      /\ \A w \in F : temps[w] \notin own \cup {NoRef} => w \notin U
  BY <1>1 DEF RunsAt
<1>3. {w \in F : temps[w] \in own} \subseteq U
  BY <1>1, <1>2, CautiousCheck DEF Reads
<1>4. U \subseteq F
  BY <1>1, WellAtStep
<1>5. own = {temps[w] : w \in U} \ {NoRef}
  BY <1>2, <1>3, <1>4
<1> QED
  BY <1>1, <1>5

\* What is left is returned, and there is an object just if there is no exception.
LEMMA RunReturn ==
  ASSUME JniAssumption, NEW c, Reads(c), NEW k \in 1 .. Len(c), RunsAt(c, k), c[k].do = "return"
  PROVE  /\ own = {temps[v] : v \in c[k].args} \ {NoRef}
         /\ exc = NoExc => \A v \in c[k].args : temps[v] # NoRef
         /\ exc # NoExc => c[k].args = {}
<1>1. k = Len(c) /\ Len(c) \in Nat
  BY WellAtStep DEF Reads
<1>2. PICK l \in Nat : l = k + 1
  BY <1>1
<1>3. Frees(c, k + 1) = {} /\ Assigns(c, k + 1) = {}
  <2>1. Frees(c, l) = {} /\ Assigns(c, l) = {}
    BY <1>1, <1>2, NoSteps
  <2> QED
    BY <1>2, <2>1
<1>4. Frees(c, k) = c[k].args /\ Assigns(c, k) = {}
  <2>1. Frees(c, k) = c[k].args \cup Frees(c, k + 1)
    BY <1>1, FreesStep
  <2>2. Assigns(c, k) = Assigns(c, k + 1)
    BY <1>1, AssignsStep
  <2> QED
    BY <1>3, <2>1, <2>2
<1>5. exc = NoExc => \A v \in c[k].args : temps[v] # NoRef
  BY <1>1, <1>4 DEF RunsAt
<1>6. ASSUME exc # NoExc PROVE c[k].args = {}
  <2>1. PICK K : Cautious(c, k, K)
    BY <1>6 DEF RunsAt
  <2> QED
    BY <1>1, <2>1, CautiousReturn
<1>7. own = {temps[v] : v \in c[k].args} \ {NoRef}
  BY <1>4, RunsEven DEF Even
<1> QED
  BY <1>5, <1>6, <1>7

\* No function is called while an exception is pending.
LEMMA RunsClear ==
  ASSUME NEW c, Reads(c), NEW k \in 1 .. Len(c), RunsAt(c, k), c[k].do = "call" PROVE exc = NoExc
<1>1. ASSUME exc # NoExc PROVE FALSE
  <2>1. PICK K : Cautious(c, k, K)
    BY <1>1 DEF RunsAt
  <2> QED
    BY <2>1, CautiousCall DEF Reads
<1> QED
  BY <1>1

-----------------------------------------------------------------------------
(* References and frames, from one state to the next *)

\* The references of native code, of the function it called, and the other thread's.
LEMMA WhoseAre ==
  ASSUME Handles
  PROVE  /\ \A r \in theirs : r \in References /\ r.at[1] = "global"
         /\ \A r \in own : r \in References /\ r.at[1] = "local"
         /\ \A r \in refs : r \in References /\ r.at[1] \in {"local", "global"}
<1>1. \A r \in theirs : r \in References /\ r.at[1] = "global"
  BY DEF Handles, InFrames
<1>2. \A r \in own : r \in References /\ r.at[1] = "local"
  BY DEF Handles, Holds
<1>3. \A r \in refs : r \in References
  BY DEF Handles
<1> QED
  BY <1>1, <1>2, <1>3, RefOf

\* What native code has references to are objects.
LEMMA HeldAre ==
  ASSUME JniAssumption, JniTypeOK, Handles PROVE Held \subseteq Objects
<1>1. SUFFICES ASSUME NEW r \in refs, Deref(r) # NoRef PROVE Deref(r) \in Objects
  BY DEF Held, Has
<1>2. r \in References /\ r.at[1] \in {"local", "global"} /\ r.obj \in Objects
  BY WhoseAre, RefOf
<1>3. CASE r.at[1] = "local"
  <2>1. r \in Locals(refs) \cup own
    BY <1>3 DEF Locals
  <2>2. IsIn(r, frames)
    BY <2>1 DEF Handles, Holds
  <2>3. Deref(r) = frames[r.at[2]].refs[r.at[3]]
    BY <1>3 DEF Deref
  <2> QED
    BY <1>2, <2>2, <2>3 DEF IsIn
<1>4. CASE r.at[1] = "global"
  <2>1. r \in Globals(refs) \cup theirs
    BY <1>4 DEF Globals
  <2>2. r.at[2] \in DOMAIN globals /\ r.at[3] \in 1 .. RefsPerFrame
    BY <2>1 DEF Handles, InFrames, Slot
  <2>3. Deref(r) = globals[r.at[2]].refs[r.at[3]]
    BY <1>4 DEF Deref
  <2>4. globals[r.at[2]] \in FrameType
    BY <2>2 DEF JniTypeOK
  <2> QED
    BY <1>1, <2>2, <2>3, <2>4 DEF FrameType
<1> QED
  BY <1>2, <1>3, <1>4

\* Local references change, global ones do not.
LEMMA LocalsChange ==
  ASSUME Handles, UNCHANGED <<globals, theirs, update, raced>>, NEW gs, frames' = gs,
         NEW R, refs' = R, NEW O, own' = O,
         Holds("local", gs, Locals(R) \cup O), AllFull(gs), R \subseteq References,
         Globals(R) = Globals(refs), R \cap O = {}
  PROVE  Handles'
<1>1. Holds("local", frames', Locals(refs') \cup own') /\ AllFull(frames')
  OBVIOUS
<1>2. Globals(refs') = Globals(refs)
  OBVIOUS
<1>3. \A r \in theirs : r.at[1] = "global"
  BY WhoseAre
<1>4. InFrames'
  BY <1>2 DEF Handles, InFrames, Slot
<1>5. ASSUME ~raced' PROVE GlobalHandles'
  <2>1. GlobalHandles
    BY <1>5 DEF Handles
  <2>2. Holds("global", globals', Globals(refs') \cup theirs') /\ UpdateHolds'
    BY <1>2, <2>1 DEF GlobalHandles, UpdateHolds
  <2>3. R \cap theirs = {}
    <3>1. SUFFICES ASSUME NEW r \in R \cap theirs PROVE FALSE
      OBVIOUS
    <3>2. r \in Globals(R)
      BY <1>3, <3>1 DEF Globals
    <3>3. r \in refs
      BY <3>2 DEF Globals
    <3> QED
      BY <2>1, <3>1, <3>3 DEF GlobalHandles
  <2> QED
    BY <2>2, <2>3 DEF GlobalHandles
<1> QED
  BY <1>1, <1>4, <1>5 DEF Handles

\* A scope still begins where it began.
LEMMA ScopesStay ==
  ASSUME Stacked, frames \in Seq(FrameType), Extends(frames, frames'), scopes' = scopes
  PROVE  Stacked'
<1>1. \A k : First(k)' = First(k)
  BY DEF First
<1>2. Len(frames) \in Nat /\ Len(frames') \in Nat /\ Len(frames) <= Len(frames')
      /\ DOMAIN frames = 1 .. Len(frames) /\ DOMAIN frames' = 1 .. Len(frames')
  BY DEF Extends
<1>3. DOMAIN frames \subseteq DOMAIN frames'
  BY <1>2
<1>4. \A k \in DOMAIN scopes : scopes'[k].base \in DOMAIN frames' /\ First(k)' \in DOMAIN frames'
  BY <1>1, <1>3 DEF Stacked
<1>5. \A n \in DOMAIN frames' : ~frames'[n].extension <=> \E k \in DOMAIN scopes : n \in {scopes[k].base, First(k)}
  <2>1. TAKE n \in DOMAIN frames'
  <2>2. CASE n \in DOMAIN frames
    <3>1. frames'[n].extension <=> frames[n].extension
      BY <1>2, <2>2 DEF Extends
    <3> QED
      BY <3>1, <2>2 DEF Stacked
  <2>3. CASE n \notin DOMAIN frames
    <3>1. frames'[n].extension
      BY <1>2, <2>3 DEF Extends
    <3>2. ~\E k \in DOMAIN scopes : n \in {scopes[k].base, First(k)}
      BY <2>3 DEF Stacked
    <3> QED
      BY <3>1, <3>2
  <2> QED
    BY <2>2, <2>3
<1>6. scopes' # <<>> /\ scopes'[1] = Scope(1, TRUE)
  BY DEF Stacked
<1>7. \A j, k \in DOMAIN scopes' : j < k => First(j)' < scopes'[k].base
  BY <1>1 DEF Stacked
<1>8. \A n \in DOMAIN frames' : ~frames'[n].extension <=> \E k \in DOMAIN scopes' : n \in {scopes'[k].base, First(k)'}
  BY <1>5, <1>1
<1> QED
  BY <1>4, <1>6, <1>7, <1>8 DEF Stacked

\* One local reference more.
LEMMA RefsAre ==
  ASSUME JniAssumption, NEW q \in References \cup {NoRef}, q # NoRef => q.at[1] = "local", NEW S
  PROVE  /\ IsFiniteSet(Refs(q)) /\ Refs(q) \subseteq References
         /\ Locals(S \cup Refs(q)) = Locals(S) \cup Refs(q) /\ Globals(S \cup Refs(q)) = Globals(S)
<1>1. CASE q = NoRef
  <2>1. Refs(q) = {}
    BY <1>1 DEF Refs
  <2>2. S \cup Refs(q) = S
    BY <2>1
  <2> QED
    BY <2>1, <2>2, FS_EmptySet
<1>2. CASE q # NoRef
  <2>1. Refs(q) = {q}
    BY <1>2 DEF Refs
  <2>2. IsFiniteSet({q})
    BY FS_Singleton
  <2>3. q.at[1] = "local" /\ q \in References
    BY <1>2
  <2>4. Locals(S \cup {q}) = Locals(S) \cup {q}
    BY <2>3 DEF Locals
  <2>5. Globals(S \cup {q}) = Globals(S)
    BY <2>3 DEF Globals
  <2> QED
    BY <2>1, <2>2, <2>3, <2>4, <2>5
<1> QED
  BY <1>1, <1>2

\* Who gets a new local reference, if there is one.
Gets(q) ==
  \/ refs' = refs \cup Refs(q) /\ own' = own
  \/ refs' = refs /\ own' = own \cup Refs(q)

\* A local reference is made, for native code or the function it called, if there is room.
LEMMA LocalMade ==
  ASSUME JniAssumption, JniTypeOK, Handles, UNCHANGED <<globals, theirs, update, raced>>,
         NEW o \in Objects \cup {NoRef}, NEW q, q = NewLocal(frames, o).ref, frames' = NewLocal(frames, o).frames,
         Gets(q)
  PROVE  /\ Handles' /\ Extends(frames, frames') /\ frames' \in Seq(FrameType)
         /\ q \in References \cup {NoRef} /\ q \notin own
         /\ IsFiniteSet(refs') /\ IsFiniteSet(own')
<1> PICK gs : gs = NewLocal(frames, o).frames
  OBVIOUS
<1> PICK S : S = Locals(refs) \cup own
  OBVIOUS
<1>1. frames \in Seq(FrameType) /\ IsFiniteSet(refs) /\ IsFiniteSet(own)
  BY DEF JniTypeOK
<1>2. Holds("local", frames, S) /\ AllFull(frames)
  BY DEF Handles
<1>3. /\ Extends(frames, gs) /\ Holds("local", gs, S \cup Refs(q)) /\ AllFull(gs)
      /\ q \in References \cup {NoRef} /\ Refs(q) \cap S = {} /\ (q # NoRef => q.at[1] = "local")
  BY <1>1, <1>2, NewLocalIs
<1>4. /\ IsFiniteSet(Refs(q)) /\ Refs(q) \subseteq References
      /\ Locals(refs \cup Refs(q)) = Locals(refs) \cup Refs(q) /\ Globals(refs \cup Refs(q)) = Globals(refs)
  BY <1>3, RefsAre
<1>5. IsFiniteSet(refs') /\ IsFiniteSet(own')
  <2>1. IsFiniteSet(refs \cup Refs(q))
    BY <1>1, <1>4, FS_Union
  <2>2. IsFiniteSet(own \cup Refs(q))
    BY <1>1, <1>4, FS_Union
  <2> QED
    BY <1>1, <2>1, <2>2 DEF Gets
<1>6. q \notin own
  <2>1. CASE q = NoRef
    BY <2>1, NoRefIsNone, WhoseAre
  <2>2. CASE q # NoRef
    <3>1. q \in Refs(q)
      BY <2>2 DEF Refs
    <3> QED
      BY <3>1, <1>3
  <2> QED
    BY <2>1, <2>2
<1>7. refs \cap own = {} /\ refs \subseteq References
  BY DEF Handles
<1>8. frames' = gs /\ gs \in Seq(FrameType)
  BY <1>3 DEF Extends
<1>9. Handles'
  <2>1. CASE refs' = refs \cup Refs(q) /\ own' = own
    <3>1. Locals(refs \cup Refs(q)) \cup own = S \cup Refs(q)
      BY <1>4
    <3>2. (refs \cup Refs(q)) \cap own = {}
      BY <1>3, <1>7
    <3>3. refs \cup Refs(q) \subseteq References
      BY <1>4, <1>7
    <3> QED
      BY <2>1, <3>1, <3>2, <3>3, <1>3, <1>4, <1>8, LocalsChange
  <2>2. CASE refs' = refs /\ own' = own \cup Refs(q)
    <3>1. Locals(refs) \cup (own \cup Refs(q)) = S \cup Refs(q)
      OBVIOUS
    <3>2. refs \cap (own \cup Refs(q)) = {}
      <4>1. SUFFICES ASSUME NEW r \in Refs(q), r \in refs PROVE FALSE
        BY <1>7
      <4>2. r = q /\ q # NoRef
        BY <4>1 DEF Refs
      <4>3. r \in Locals(refs)
        BY <4>1, <4>2, <1>3 DEF Locals
      <4> QED
        BY <4>1, <4>3, <1>3
    <3> QED
      BY <2>2, <3>1, <3>2, <1>3, <1>7, <1>8, LocalsChange
  <2> QED
    BY <2>1, <2>2 DEF Gets
<1> QED
  BY <1>3, <1>5, <1>6, <1>8, <1>9

\* Outside such a function, or between two of its steps.
LEMMA RunsStay ==
  ASSUME LocalRules, Runs, UNCHANGED <<code, own, temps>>, code = <<>> \/ exc' = exc
  PROVE  Runs'
<1>1. CASE code = <<>>
  <2>1. own = {} /\ \A v \in Variables : temps[v] = NoRef
    BY <1>1, Idle
  <2> QED
    BY <2>1, <1>1 DEF Runs
<1>2. CASE exc' = exc
  <2>1. ASSUME NEW c, NEW k, RunsAt(c, k) PROVE RunsAt(c, k)'
    BY <1>2, <2>1 DEF RunsAt
  <2> QED
    BY <2>1 DEF Runs
<1> QED
  BY <1>1, <1>2

\* Nothing but local references changes.
LEMMA CallPrimitiveKeeps ==
  ASSUME JniAssumption, LocalRules, IInv, CallPrimitive PROVE IInv'
<1>1. JniTypeOK /\ Handles /\ Stacked /\ Runs /\ code = <<>>
  BY DEF IInv, CallPrimitive, Calling
<1>2. UNCHANGED <<globals, scopes, code, temps, own, theirs, update, raced>>
  BY DEF CallPrimitive
<1>3. frames \in Seq(FrameType)
  BY <1>1 DEF JniTypeOK
<1>4. PICK f : \E end \in Perform(f) :
         frames' = end.frames /\ exc' = end.exc /\ refs' = refs \cup Refs(end.ref)
  BY DEF CallPrimitive
<1>5. PICK end \in Perform(f) : frames' = end.frames /\ exc' = end.exc /\ refs' = refs \cup Refs(end.ref)
  BY <1>4
<1>6. PICK o \in {NoRef, Result} :
        /\ end.frames = NewLocal(frames, o).frames /\ end.ref = NewLocal(frames, o).ref
        /\ end.exc \in Posted \cup {NoExc}
  BY <1>3, KindsAre, PerformIs
<1>7. o \in Objects \cup {NoRef}
  BY DEF JniAssumption
<1>8. Handles' /\ Extends(frames, frames') /\ frames' \in Seq(FrameType) /\ IsFiniteSet(refs')
  BY <1>1, <1>2, <1>5, <1>6, <1>7, LocalMade DEF Gets
<1>9. Stacked'
  BY <1>1, <1>2, <1>3, <1>8, ScopesStay
<1>10. Runs'
  BY <1>1, <1>2, RunsStay
<1>11. JniTypeOK'
  BY <1>1, <1>2, <1>5, <1>6, <1>8 DEF JniTypeOK
<1> QED
  BY <1>8, <1>9, <1>10, <1>11 DEF IInv

\* NewLocalRef, and the functions that look for an exception.
LEMMA NewLocalRefKeeps ==
  ASSUME JniAssumption, LocalRules, IInv, NewLocalRef PROVE IInv'
<1>1. JniTypeOK /\ Handles /\ Stacked /\ Runs /\ code = <<>>
  BY DEF IInv, NewLocalRef, Calling
<1>2. UNCHANGED <<globals, scopes, code, temps, own, theirs, update, raced>>
  BY DEF NewLocalRef
<1>3. frames \in Seq(FrameType)
  BY <1>1 DEF JniTypeOK
<1>4. PICK o \in Held :
        /\ frames' = NewLocal(frames, o).frames /\ refs' = refs \cup Refs(NewLocal(frames, o).ref)
        /\ exc' = IF Full(frames, o) THEN "Internal" ELSE exc
  BY DEF NewLocalRef
<1>5. o \in Objects \cup {NoRef}
  BY <1>1, HeldAre
<1>6. exc' \in Posted \cup {NoExc}
  BY <1>1, <1>4 DEF JniTypeOK, Posted
<1>7. Handles' /\ Extends(frames, frames') /\ frames' \in Seq(FrameType) /\ IsFiniteSet(refs')
  BY <1>1, <1>2, <1>4, <1>5, LocalMade DEF Gets
<1>8. Stacked'
  BY <1>1, <1>2, <1>3, <1>7, ScopesStay
<1>9. Runs'
  BY <1>1, <1>2, RunsStay
<1>10. JniTypeOK'
  BY <1>1, <1>2, <1>6, <1>7 DEF JniTypeOK
<1> QED
  BY <1>7, <1>8, <1>9, <1>10 DEF IInv

LEMMA ExceptionOccurredKeeps ==
  ASSUME JniAssumption, LocalRules, IInv, ExceptionOccurred PROVE IInv'
<1>1. JniTypeOK /\ Handles /\ Stacked /\ Runs /\ code = <<>>
  BY DEF IInv, ExceptionOccurred
<1>2. UNCHANGED <<globals, exc, scopes, code, temps, own, theirs, update, raced>>
  BY DEF ExceptionOccurred
<1>3. frames \in Seq(FrameType)
  BY <1>1 DEF JniTypeOK
<1>4. Result \in Objects \cup {NoRef} /\ Result # NoRef
  BY NoRefIsNone DEF JniAssumption
<1>5. NewLocal(frames, Result).ref # NoRef
  BY <1>4 DEF ExceptionOccurred, Full
<1>6. frames' = NewLocal(frames, Result).frames /\ refs' = refs \cup Refs(NewLocal(frames, Result).ref)
  BY <1>5 DEF ExceptionOccurred, Refs
<1>7. Handles' /\ Extends(frames, frames') /\ frames' \in Seq(FrameType) /\ IsFiniteSet(refs')
  BY <1>1, <1>2, <1>4, <1>6, LocalMade DEF Gets
<1>8. Stacked'
  BY <1>1, <1>2, <1>3, <1>7, ScopesStay
<1>9. Runs'
  BY <1>1, <1>2, RunsStay
<1>10. JniTypeOK'
  BY <1>1, <1>2, <1>7 DEF JniTypeOK
<1> QED
  BY <1>7, <1>8, <1>9, <1>10 DEF IInv

LEMMA ExceptionClearKeeps ==
  ASSUME JniAssumption, LocalRules, IInv, ExceptionClear PROVE IInv'
<1>1. JniTypeOK /\ Handles /\ Stacked /\ Runs /\ code = <<>>
  BY DEF IInv, ExceptionClear
<1>2. UNCHANGED <<frames, globals, refs, scopes, code, temps, own, theirs, update, raced>> /\ exc' = NoExc
  BY DEF ExceptionClear
<1>3. Handles'
  BY <1>1, <1>2 DEF Handles, GlobalHandles, InFrames, Slot, UpdateHolds
<1>4. Stacked'
  BY <1>1, <1>2 DEF Stacked, First
<1>5. Runs'
  BY <1>1, <1>2, RunsStay
<1>6. JniTypeOK'
  BY <1>1, <1>2 DEF JniTypeOK
<1> QED
  BY <1>3, <1>4, <1>5, <1>6 DEF IInv

\* Native code calls a function that calls others.
LEMMA CallCompositeKeeps ==
  ASSUME JniAssumption, LocalRules, IInv, CallComposite PROVE IInv'
<1>1. JniTypeOK /\ Handles /\ Stacked /\ Runs /\ code = <<>> /\ exc = NoExc
  BY DEF IInv, CallComposite, Calling
<1>2. UNCHANGED <<frames, globals, exc, refs, scopes, temps, own, theirs, update, raced>>
  BY DEF CallComposite
<1>3. Handles' /\ Stacked' /\ JniTypeOK'
  BY <1>1, <1>2 DEF Handles, GlobalHandles, InFrames, Slot, UpdateHolds, Stacked, First, JniTypeOK
<1>4. PICK f \in DOMAIN Composite \ NotCalled : code' = Composite[f]
  BY DEF CallComposite
<1>5. own = {} /\ \A v \in Variables : temps[v] = NoRef
  BY <1>1, Idle
<1>6. Runs'
  <2> PICK c : c = Composite[f]
    OBVIOUS
  <2>1. Fits(c)
    BY CompositesAre
  <2>2. PICK T : c \in Seq(T)
    BY CompositesAre
  <2>3. c # <<>> /\ c[Len(c)].args \subseteq Assigns(c, 1)
    BY <2>1 DEF Fits, WellMade
  <2>4. PICK n \in Nat : n = Len(c)
    BY <2>2
  <2>5. SubSeq(c, 1, n) = c
    BY <2>2, <2>4, SubSeqProperties
  <2>6. 1 \in DOMAIN c
    BY <2>2, <2>3
  <2>7. Frees(c, 1) \subseteq Variables /\ Assigns(c, 1) \ {"none"} \subseteq Variables
    BY <2>1 DEF Fits
  <2>8. {temps[v] : v \in Frees(c, 1)} \ {NoRef} = {}
    BY <2>7, <1>5
  <2>9. \A v, w \in Frees(c, 1) : v # w /\ temps[v] = temps[w] => temps[v] = NoRef
    BY <2>7, <1>5
  <2>10. \A v \in Assigns(c, 1) \ {"none"} : temps[v] = NoRef
    BY <2>7, <1>5
  <2>11. c[Len(c)].args \ Assigns(c, 1) = {}
    BY <2>3
  <2>12. code' = SubSeq(c, 1, Len(c))
    BY <1>4, <2>4, <2>5
  <2>13. Even(c, 1)'
    BY <1>1, <1>2, <1>5, <2>8, <2>9, <2>10, <2>11, <2>12 DEF Even
  <2>14. RunsAt(c, 1)'
    BY <2>13, EvenRuns
  <2> QED
    BY <2>6, <2>14 DEF Runs
<1> QED
  BY <1>3, <1>6 DEF IInv

\* Native code is at the kth step of c, which is f.
At(c, f, k) ==
  /\ f \in DOMAIN Composite \ NotCalled /\ c = Composite[f] /\ k \in 1 .. Len(c) /\ RunsAt(c, k) /\ Reads(c)
  /\ Head(code) = c[k] /\ Tail(code) = SubSeq(c, k + 1, Len(c))

\* Inside such a function there is a next step.
LEMMA AtStep ==
  ASSUME LocalRules, Runs, code # <<>>
  PROVE  \E c, f, k : At(c, f, k)
<1>1. PICK f \in DOMAIN Composite \ NotCalled : \E k \in DOMAIN Composite[f] :
           /\ RunsAt(Composite[f], k) /\ Reads(Composite[f])
           /\ Head(code) = Composite[f][k] /\ Tail(code) = SubSeq(Composite[f], k + 1, Len(Composite[f]))
  BY Running
<1> PICK c : c = Composite[f]
  OBVIOUS
<1>2. PICK k \in DOMAIN c :
           RunsAt(c, k) /\ Reads(c) /\ Head(code) = c[k] /\ Tail(code) = SubSeq(c, k + 1, Len(c))
  BY <1>1
<1>3. k \in 1 .. Len(c)
  BY <1>2 DEF Reads
<1> QED
  BY <1>2, <1>3 DEF At

\* The function calls another one.
LEMMA CompositeCallKeeps ==
  ASSUME JniAssumption, LocalRules, IInv, CompositeCall PROVE IInv'
<1>1. JniTypeOK /\ Handles /\ Stacked /\ Runs
  BY DEF IInv
<1>2. UNCHANGED <<globals, scopes, theirs, update, raced>> /\ code # <<>>
  BY DEF CompositeCall, Step
<1>3. frames \in Seq(FrameType) /\ temps \in [Variables -> References \cup {NoRef}]
  BY <1>1 DEF JniTypeOK
<1>4. PICK end \in Perform(Head(code).f) :
        /\ frames' = end.frames /\ exc' = end.exc
        /\ IF exc' = NoExc THEN own' = own \cup Refs(end.ref) /\ refs' = refs
           ELSE refs' = refs \cup Refs(end.ref) /\ own' = own
        /\ temps' = IF Head(code).to = "none" THEN temps ELSE [temps EXCEPT ![Head(code).to] = end.ref]
  BY DEF CompositeCall
<1>5. PICK c, f, k : At(c, f, k)
  BY <1>1, <1>2, AtStep
<1>6. /\ f \in DOMAIN Composite \ NotCalled /\ c = Composite[f] /\ k \in 1 .. Len(c) /\ RunsAt(c, k)
      /\ Reads(c) /\ Head(code) = c[k] /\ Tail(code) = SubSeq(c, k + 1, Len(c))
  BY <1>5 DEF At
<1>7. k \in 1 .. Len(c) /\ c[k].do = "call"
  BY <1>6 DEF Reads, CompositeCall, Do
<1>8. exc = NoExc
  BY <1>6, <1>7, RunsClear
<1>9. PICK o \in {NoRef, Result} :
        /\ end.frames = NewLocal(frames, o).frames /\ end.ref = NewLocal(frames, o).ref
        /\ end.exc \in Posted \cup {NoExc}
        /\ end.exc # NoExc /\ Kind(c[k].f).result # "retval" => NewLocal(frames, o).ref = NoRef
        /\ Kind(c[k].f).result = "object" /\ end.exc = NoExc => NewLocal(frames, o).ref # NoRef
        /\ Kind(c[k].f).result \in {"none", "throws"} => NewLocal(frames, o).ref = NoRef
  BY <1>3, <1>4, <1>6, KindsAre, PerformIs
<1>10. o \in Objects \cup {NoRef}
  BY DEF JniAssumption
<1> PICK q : q = end.ref
  OBVIOUS
<1>11. /\ Handles' /\ Extends(frames, frames') /\ frames' \in Seq(FrameType)
       /\ IsFiniteSet(own') /\ IsFiniteSet(refs')
       /\ q \in References \cup {NoRef} /\ q \notin own
  <2>1. Gets(q)
    BY <1>4 DEF Gets
  <2> QED
    BY <1>1, <1>2, <1>4, <1>9, <1>10, <2>1, LocalMade
<1>12. Stacked'
  BY <1>1, <1>2, <1>3, <1>11, ScopesStay
<1>13. own' = (IF exc' = NoExc THEN own \cup Refs(q) ELSE own) /\ temps' = IF c[k].to = "none" THEN temps ELSE [temps EXCEPT ![c[k].to] = q]
  BY <1>4, <1>6
<1>14. code' = SubSeq(c, k + 1, Len(c))
  BY <1>6 DEF CompositeCall
<1>15. /\ exc' # NoExc /\ Kind(c[k].f).result # "retval" => q = NoRef
       /\ Kind(c[k].f).result = "object" /\ exc' = NoExc => q # NoRef
       /\ Kind(c[k].f).result \in {"none", "throws"} => q = NoRef
  BY <1>4, <1>9
<1>16. RunsAt(c, k + 1)'
  BY <1>3, <1>6, <1>7, <1>8, <1>11, <1>13, <1>14, <1>15, RunCall
<1>17. k + 1 \in DOMAIN c
  BY <1>6, <1>7, WellAtStep DEF Reads
<1>18. Runs'
  BY <1>6, <1>16, <1>17 DEF Runs
<1>19. temps' \in [Variables -> References \cup {NoRef}]
  BY <1>3, <1>11, <1>13
<1>20. exc' \in Posted \cup {NoExc}
  BY <1>4, <1>9
<1>21. JniTypeOK'
  BY <1>1, <1>2, <1>11, <1>19, <1>20 DEF JniTypeOK
<1> QED
  BY <1>11, <1>12, <1>18, <1>21 DEF IInv

\* The function that native code called gives references back.
LEMMA OwnFreed ==
  ASSUME JniAssumption, JniTypeOK, Handles, UNCHANGED <<globals, refs, theirs, update, raced>>,
         NEW R \in SUBSET own, frames' = FreeAll(R), own' = own \ R
  PROVE  /\ Handles' /\ Extends(frames, frames') /\ frames' \in Seq(FrameType)
         /\ IsFiniteSet(own')
<1> PICK S : S = Locals(refs) \cup own
  OBVIOUS
<1>1. frames \in Seq(FrameType) /\ IsFiniteSet(own)
  BY DEF JniTypeOK
<1>2. Holds("local", frames, S) /\ AllFull(frames)
  BY DEF Handles
<1>3. /\ Extends(frames, FreeAll(R)) /\ Holds("local", FreeAll(R), S \ R) /\ AllFull(FreeAll(R))
  BY <1>1, <1>2, FreeAllHolds
<1>4. refs \cap own = {} /\ refs \subseteq References
  BY DEF Handles
<1>5. S \ R = Locals(refs) \cup (own \ R)
  BY <1>4 DEF Locals
<1>6. refs \cap (own \ R) = {}
  BY <1>4
<1>7. Handles'
  BY <1>3, <1>4, <1>5, <1>6, LocalsChange
<1>8. IsFiniteSet(own \ R)
  BY <1>1, FS_Difference
<1> QED
  BY <1>3, <1>7, <1>8 DEF Extends

\* The variables of a function are those there are, and it has what they refer to.
LEMMA ArgsAre ==
  ASSUME LocalRules, Runs, code # <<>> PROVE Args \ {NoRef} \subseteq own
<1>1. PICK c, f, k : At(c, f, k)
  BY AtStep
<1>2. k \in 1 .. Len(c) /\ RunsAt(c, k) /\ Reads(c) /\ Head(code) = c[k]
  BY <1>1 DEF At
<1>3. c[k].args \subseteq Frees(c, k)
  BY <1>2, WellAtStep
<1>4. \A v \in Frees(c, k) : temps[v] \notin own \cup {NoRef} => v \notin c[k].args
  BY <1>2 DEF RunsAt
<1> QED
  BY <1>2, <1>3, <1>4 DEF Args

\* It deletes a reference, once.
LEMMA CompositeDeleteKeeps ==
  ASSUME JniAssumption, LocalRules, IInv, CompositeDelete PROVE IInv'
<1>1. JniTypeOK /\ Handles /\ Stacked /\ Runs
  BY DEF IInv
<1>2. UNCHANGED <<globals, exc, refs, scopes, temps, theirs, update, raced>> /\ code # <<>>
  BY DEF CompositeDelete, Step
<1>3. frames \in Seq(FrameType)
  BY <1>1 DEF JniTypeOK
<1>4. PICK c, f, k : At(c, f, k)
  BY <1>1, <1>2, AtStep
<1>5. /\ f \in DOMAIN Composite \ NotCalled /\ c = Composite[f] /\ k \in 1 .. Len(c) /\ RunsAt(c, k)
      /\ Reads(c) /\ Head(code) = c[k] /\ Tail(code) = SubSeq(c, k + 1, Len(c))
  BY <1>4 DEF At
<1>6. c[k].do = "delete"
  BY <1>5 DEF CompositeDelete, Do
<1>7. own' = own \ {temps[v] : v \in c[k].args} /\ code' = SubSeq(c, k + 1, Len(c)) /\ temps' = temps /\ exc' = exc
  BY <1>5, <1>2 DEF CompositeDelete, Args
<1>8. RunsAt(c, k + 1)'
  BY <1>5, <1>6, <1>7, RunDelete
<1>9. k + 1 \in DOMAIN c
  BY <1>5, <1>6, WellAtStep DEF Reads
<1>10. Runs'
  BY <1>5, <1>8, <1>9 DEF Runs
<1>11. Args \ {NoRef} \subseteq own
  BY <1>1, <1>2, ArgsAre
<1>12. NoRef \notin own
  BY <1>1, WhoseAre, NoRefIsNone
<1>13. own' = own \ (Args \ {NoRef}) /\ frames' = FreeAll(Args \ {NoRef})
  BY <1>12 DEF CompositeDelete
<1>14. Handles' /\ Extends(frames, frames') /\ frames' \in Seq(FrameType) /\ IsFiniteSet(own')
  BY <1>1, <1>2, <1>11, <1>13, OwnFreed
<1>15. Stacked'
  BY <1>1, <1>2, <1>3, <1>14, ScopesStay
<1>16. JniTypeOK'
  BY <1>1, <1>2, <1>14 DEF JniTypeOK
<1> QED
  BY <1>10, <1>14, <1>15, <1>16 DEF IInv

\* It has returned.
LEMMA FinishRuns ==
  ASSUME JniAssumption, Finish
  PROVE  Runs' /\ temps' \in [Variables -> References \cup {NoRef}] /\ IsFiniteSet(own')
<1>1. code' = <<>> /\ own' = {} /\ \A v \in Variables : temps'[v] = NoRef
  BY DEF Finish
<1>2. Runs'
  BY <1>1 DEF Runs
<1>3. temps' \in [Variables -> References \cup {NoRef}]
  BY DEF Finish
<1> QED
  BY <1>1, <1>2, <1>3, FS_EmptySet

\* It finds an exception and deletes what it has left, or goes on.
LEMMA CompositeCheckKeeps ==
  ASSUME JniAssumption, LocalRules, IInv, CompositeCheck PROVE IInv'
<1>1. JniTypeOK /\ Handles /\ Stacked /\ Runs
  BY DEF IInv
<1>2. UNCHANGED <<globals, exc, refs, scopes, theirs, update, raced>> /\ code # <<>>
  BY DEF CompositeCheck, Step
<1>3. frames \in Seq(FrameType)
  BY <1>1 DEF JniTypeOK
<1>4. PICK c, f, k : At(c, f, k)
  BY <1>1, <1>2, AtStep
<1>5. /\ f \in DOMAIN Composite \ NotCalled /\ c = Composite[f] /\ k \in 1 .. Len(c) /\ RunsAt(c, k)
      /\ Reads(c) /\ Head(code) = c[k] /\ Tail(code) = SubSeq(c, k + 1, Len(c))
  BY <1>4 DEF At
<1>6. c[k].do = "check"
  BY <1>5 DEF CompositeCheck, Do
<1>7. CASE exc = NoExc
  <2>1. own' = own /\ code' = SubSeq(c, k + 1, Len(c)) /\ temps' = temps /\ exc' = exc /\ frames' = frames
    BY <1>2, <1>5, <1>7 DEF CompositeCheck
  <2>2. RunsAt(c, k + 1)'
    BY <1>5, <1>6, <1>7, <2>1, RunCheck
  <2>3. k + 1 \in DOMAIN c
    BY <1>5, <1>6, WellAtStep DEF Reads
  <2>4. Runs'
    BY <1>5, <2>2, <2>3 DEF Runs
  <2>5. Handles' /\ Stacked' /\ JniTypeOK'
    BY <1>1, <1>2, <2>1 DEF Handles, GlobalHandles, InFrames, Slot, UpdateHolds, Stacked, First, JniTypeOK
  <2> QED
    BY <2>4, <2>5 DEF IInv
<1>8. CASE exc # NoExc
  <2>1. frames' = FreeAll(Args \ {NoRef}) /\ Finish
    BY <1>8 DEF CompositeCheck
  <2>2. own = {temps[v] : v \in c[k].args} \ {NoRef}
    BY <1>5, <1>6, <1>8, RunFails
  <2>3. own = Args \ {NoRef}
    BY <1>5, <2>2 DEF Args
  <2>4. frames' = FreeAll(own) /\ own' = own \ own
    BY <2>1, <2>3 DEF Finish
  <2>5. Handles' /\ Extends(frames, frames') /\ frames' \in Seq(FrameType)
    BY <1>1, <1>2, <2>4, OwnFreed
  <2>6. Runs' /\ temps' \in [Variables -> References \cup {NoRef}] /\ IsFiniteSet(own')
    BY <2>1, FinishRuns
  <2>7. Stacked'
    BY <1>1, <1>2, <1>3, <2>5, ScopesStay
  <2>8. JniTypeOK'
    BY <1>1, <1>2, <2>5, <2>6 DEF JniTypeOK
  <2> QED
    BY <2>5, <2>6, <2>7, <2>8 DEF IInv
<1> QED
  BY <1>7, <1>8

\* It returns, with a reference to its result or none.
LEMMA CompositeReturnKeeps ==
  ASSUME JniAssumption, LocalRules, IInv, CompositeReturn PROVE IInv'
<1>1. JniTypeOK /\ Handles /\ Stacked /\ Runs
  BY DEF IInv
<1>2. UNCHANGED <<frames, globals, exc, scopes, theirs, update, raced>> /\ code # <<>> /\ Finish
  BY DEF CompositeReturn, Step
<1>3. PICK c, f, k : At(c, f, k)
  BY <1>1, <1>2, AtStep
<1>4. /\ f \in DOMAIN Composite \ NotCalled /\ c = Composite[f] /\ k \in 1 .. Len(c) /\ RunsAt(c, k)
      /\ Reads(c) /\ Head(code) = c[k] /\ Tail(code) = SubSeq(c, k + 1, Len(c))
  BY <1>3 DEF At
<1>5. c[k].do = "return"
  BY <1>4 DEF CompositeReturn, Do
<1>6. own = {temps[v] : v \in c[k].args} \ {NoRef}
  BY <1>4, <1>5, RunReturn
<1>7. own = Args \ {NoRef}
  BY <1>4, <1>6 DEF Args
<1>8. refs' = refs \cup own /\ own' = {} /\ frames' = frames
  BY <1>2, <1>7 DEF CompositeReturn, Finish
<1>9. \A r \in own : r \in References /\ r.at[1] = "local"
  BY <1>1, WhoseAre
<1>10. Locals(refs \cup own) \cup {} = Locals(refs) \cup own /\ Globals(refs \cup own) = Globals(refs)
  BY <1>9 DEF Locals, Globals
<1>11. refs \cup own \subseteq References
  BY <1>1, <1>9 DEF Handles
<1>12. Holds("local", frames, Locals(refs \cup own) \cup {}) /\ AllFull(frames)
  BY <1>1, <1>10 DEF Handles
<1>13. Handles'
  <2> PICK R : R = refs \cup own
    OBVIOUS
  <2>1. R \cap {} = {} /\ R \subseteq References /\ Globals(R) = Globals(refs)
    BY <1>10, <1>11
  <2>2. Holds("local", frames, Locals(R) \cup {}) /\ AllFull(frames)
    BY <1>12
  <2> QED
    BY <1>1, <1>2, <1>8, <2>1, <2>2, LocalsChange
<1>14. Stacked'
  BY <1>1, <1>2 DEF Stacked, First
<1>15. Runs' /\ temps' \in [Variables -> References \cup {NoRef}] /\ IsFiniteSet(own')
  BY <1>2, FinishRuns
<1>16. IsFiniteSet(refs')
  BY <1>1, <1>8, FS_Union DEF JniTypeOK
<1>17. JniTypeOK'
  BY <1>1, <1>2, <1>15, <1>16 DEF JniTypeOK
<1> QED
  BY <1>13, <1>14, <1>15, <1>17 DEF IInv

\* Native code deletes a local reference of the innermost scope.
LEMMA DeleteLocalRefKeeps ==
  ASSUME JniAssumption, LocalRules, IInv, DeleteLocalRef PROVE IInv'
<1>1. JniTypeOK /\ Handles /\ Stacked /\ Runs /\ code = <<>>
  BY DEF IInv, DeleteLocalRef
<1>2. UNCHANGED <<globals, exc, scopes, code, temps, own, theirs, update, raced>>
  BY DEF DeleteLocalRef
<1>3. frames \in Seq(FrameType) /\ IsFiniteSet(refs)
  BY <1>1 DEF JniTypeOK
<1>4. PICK r \in Locals(refs) : frames' = FreeRef(frames, r) /\ refs' = refs \ {r}
  <2>1. Locals(Has) \subseteq Locals(refs)
    BY DEF Locals, Has
  <2> QED
    BY <2>1 DEF DeleteLocalRef
<1> PICK S : S = Locals(refs) \cup own
  OBVIOUS
<1>5. Holds("local", frames, S) /\ AllFull(frames) /\ r \in S
  BY <1>1 DEF Handles
<1>6. /\ Extends(frames, FreeRef(frames, r)) /\ Holds("local", FreeRef(frames, r), S \ {r})
      /\ AllFull(FreeRef(frames, r))
  BY <1>3, <1>5, FreeHolds
<1>7. r \in refs /\ r.at[1] = "local"
  BY <1>4 DEF Locals
<1>8. refs \cap own = {} /\ refs \subseteq References
  BY <1>1 DEF Handles
<1>9. S \ {r} = Locals(refs \ {r}) \cup own
  BY <1>7, <1>8 DEF Locals
<1>10. Globals(refs \ {r}) = Globals(refs)
  BY <1>7 DEF Globals
<1>11. (refs \ {r}) \cap own = {} /\ refs \ {r} \subseteq References
  BY <1>8
<1>12. Handles'
  BY <1>1, <1>2, <1>4, <1>6, <1>9, <1>10, <1>11, LocalsChange
<1>13. Extends(frames, frames') /\ frames' \in Seq(FrameType)
  BY <1>4, <1>6 DEF Extends
<1>14. Stacked'
  BY <1>1, <1>2, <1>3, <1>13, ScopesStay
<1>15. Runs'
  BY <1>1, <1>2, RunsStay
<1>16. IsFiniteSet(refs')
  BY <1>3, <1>4, FS_Difference
<1>17. JniTypeOK'
  BY <1>1, <1>2, <1>13, <1>16 DEF JniTypeOK
<1> QED
  BY <1>12, <1>14, <1>15, <1>17 DEF IInv

\* Frames that extend the top one: no scope begins there.
LEMMA EnsureLocalCapacityKeeps ==
  ASSUME JniAssumption, LocalRules, IInv, EnsureLocalCapacity PROVE IInv'
<1>1. JniTypeOK /\ Handles /\ Stacked /\ Runs /\ code = <<>>
  BY DEF IInv, EnsureLocalCapacity, Calling
<1>2. UNCHANGED <<globals, refs, scopes, code, temps, own, theirs, update, raced>>
  BY DEF EnsureLocalCapacity
<1>3. frames \in Seq(FrameType)
  BY <1>1 DEF JniTypeOK
<1>4. PICK n \in Capacities :
        \/ frames' = Extended(frames, n) /\ exc' = exc
        \/ exc' = "OutOfMemory" /\ frames' = frames
  BY DEF EnsureLocalCapacity
<1>5. exc' \in Posted \cup {NoExc}
  BY <1>1, <1>4 DEF JniTypeOK, Posted
<1>6. Runs'
  BY <1>1, <1>2, RunsStay
<1>7. CASE frames' = frames
  <2>1. Handles' /\ Stacked' /\ JniTypeOK'
    BY <1>1, <1>2, <1>5, <1>7 DEF Handles, GlobalHandles, InFrames, Slot, UpdateHolds, Stacked, First, JniTypeOK
  <2> QED
    BY <1>6, <2>1 DEF IInv
<1>8. CASE frames' = Extended(frames, n)
  <2> PICK S : S = Locals(refs) \cup own
    OBVIOUS
  <2>1. Holds("local", frames, S) /\ AllFull(frames)
    BY <1>1 DEF Handles
  <2>2. n \in Nat
    BY DEF JniAssumption
  <2>3. Extends(frames, frames') /\ Longer(frames, frames')
    BY <1>3, <1>8, <2>2, ExtendedHolds
  <2>4. Holds("local", frames', S) /\ AllFull(frames')
    BY <1>3, <2>1, <2>3, LongerHolds
  <2>5. refs \cap own = {} /\ refs \subseteq References
    BY <1>1 DEF Handles
  <2>6. Handles'
    BY <1>1, <1>2, <2>4, <2>5, LocalsChange
  <2>7. Stacked'
    BY <1>1, <1>2, <1>3, <2>3, ScopesStay
  <2>8. frames' \in Seq(FrameType)
    BY <2>3 DEF Extends
  <2>9. JniTypeOK'
    BY <1>1, <1>2, <1>5, <2>8 DEF JniTypeOK
  <2> QED
    BY <1>6, <2>6, <2>7, <2>9 DEF IInv
<1> QED
  BY <1>4, <1>7, <1>8

-----------------------------------------------------------------------------
(* Scopes *)

\* Scopes, as sequences.
Scopes == Seq([base : Nat, method : BOOLEAN])

\* A scope's own frame is at its base or next to it.
LEMMA FirstIs ==
  ASSUME scopes \in Scopes, NEW k \in DOMAIN scopes
  PROVE  /\ scopes[k].base \in Nat /\ First(k) \in Nat /\ scopes[k].base <= First(k)
         /\ First(k) = IF k > 1 /\ scopes[k].method THEN scopes[k].base + 1 ELSE scopes[k].base
<1> PICK T : T = [base : Nat, method : BOOLEAN]
  OBVIOUS
<1>1. scopes \in Seq(T)
  BY DEF Scopes
<1>2. k \in 1 .. Len(scopes)
  BY <1>1
<1>3. scopes[k] \in T
  BY <1>1, <1>2, ElementOfSeq
<1>4. scopes[k].base \in Nat
  BY <1>3
<1> QED
  BY <1>4 DEF First

\* The innermost scope has the frames on top.
LEMMA LastScope ==
  ASSUME Stacked, frames \in Seq(FrameType), scopes \in Scopes, Len(scopes) > 1,
         NEW b, b = Last(scopes).base, NEW t, t = IF Last(scopes).method THEN b + 1 ELSE b
  PROVE  /\ b \in DOMAIN frames /\ t \in DOMAIN frames
         /\ ~frames[b].extension /\ ~frames[t].extension
         /\ \A n \in DOMAIN frames : n > t => frames[n].extension
         /\ \A k \in DOMAIN scopes : k < Len(scopes) => First(k) < b /\ scopes[k].base < b
<1> PICK d \in Nat : d = Len(scopes)
  BY DEF Scopes
<1>1. d \in DOMAIN scopes /\ d > 1 /\ Last(scopes) = scopes[d] /\ DOMAIN scopes = 1 .. d
  BY DEF Scopes, Last
<1>2. b = scopes[d].base /\ t = First(d) /\ b <= t
  BY <1>1, FirstIs
<1>3. \A k \in DOMAIN scopes : k < d => First(k) < b /\ scopes[k].base < b
  <2>1. TAKE k \in DOMAIN scopes
  <2>2. HAVE k < d
  <2>3. First(k) < b
    BY <1>1, <1>2, <2>2 DEF Stacked
  <2>4. First(k) \in Nat /\ scopes[k].base \in Nat /\ scopes[k].base <= First(k)
    BY FirstIs
  <2>5. b \in Nat
    BY <1>1, <1>2, FirstIs
  <2> QED
    BY <2>3, <2>4, <2>5
<1>4. b \in DOMAIN frames /\ t \in DOMAIN frames
  BY <1>1, <1>2 DEF Stacked
<1>5. ~frames[b].extension /\ ~frames[t].extension
  BY <1>1, <1>2, <1>4 DEF Stacked
<1>6. ASSUME NEW n \in DOMAIN frames, n > t, ~frames[n].extension PROVE FALSE
  <2>1. PICK k \in DOMAIN scopes : n \in {scopes[k].base, First(k)}
    BY <1>6 DEF Stacked
  <2>2. n \in Nat /\ b \in Nat /\ t \in Nat
    BY <1>4
  <2>3. CASE k = d
    BY <1>2, <1>6, <2>1, <2>2, <2>3
  <2>4. CASE k # d
    <3>1. k < d
      BY <1>1, <2>4
    <3>2. n < b
      BY <1>3, <2>1, <3>1
    <3> QED
      BY <1>2, <1>6, <2>2, <3>2
  <2> QED
    BY <2>3, <2>4
<1> QED
  BY <1>3, <1>4, <1>5, <1>6

\* The scopes but for the last.
LEMMA FrontIs ==
  ASSUME scopes \in Scopes, Len(scopes) > 1, NEW d \in Nat, d = Len(scopes)
  PROVE  /\ Front(scopes) \in Scopes /\ Len(Front(scopes)) = d - 1
         /\ \A k \in 1 .. d - 1 : Front(scopes)[k] = scopes[k]
<1> PICK e \in Nat : e = d - 1
  OBVIOUS
<1> PICK T : T = [base : Nat, method : BOOLEAN]
  OBVIOUS
<1>1. scopes \in Seq(T)
  BY DEF Scopes
<1>2. Front(scopes) = SubSeq(scopes, 1, e)
  BY DEF Front
<1>3. 1 \in Int /\ e \in Int /\ \A i \in 1 .. e : scopes[i] \in T
  <2>1. ASSUME NEW i \in 1 .. e PROVE scopes[i] \in T
    <3>1. i \in 1 .. Len(scopes)
      OBVIOUS
    <3> QED
      BY <1>1, <3>1, ElementOfSeq
  <2> QED
    BY <2>1
<1>4. /\ SubSeq(scopes, 1, e) \in Seq(T)
      /\ Len(SubSeq(scopes, 1, e)) = IF 1 <= e THEN e - 1 + 1 ELSE 0
      /\ \A i \in 1 .. e - 1 + 1 : SubSeq(scopes, 1, e)[i] = scopes[1 + i - 1]
  BY <1>3, SubSeqProperties
<1>5. (IF 1 <= e THEN e - 1 + 1 ELSE 0) = e /\ e - 1 + 1 = e /\ \A i \in Nat : 1 + i - 1 = i
  OBVIOUS
<1>6. SubSeq(scopes, 1, e) \in Seq(T) /\ Len(SubSeq(scopes, 1, e)) = e
  BY <1>4, <1>5
<1>7. \A i \in 1 .. e : SubSeq(scopes, 1, e)[i] = scopes[i]
  BY <1>4, <1>5
<1> QED
  BY <1>2, <1>6, <1>7 DEF Scopes

\* The frames up to the ath, and the references in them.
Below(S, a) == {r \in S : r.at[2] <= a}

\* The references to slots below are the ones that are left.
LEMMA LocalsCut ==
  ASSUME JniAssumption, NEW fs \in Seq(FrameType), NEW S, Holds("local", fs, S), AllFull(fs),
         NEW a \in 0 .. Len(fs), NEW gs, gs = SubSeq(fs, 1, a)
  PROVE  /\ gs \in Seq(FrameType) /\ Len(gs) = a
         /\ \A n \in 1 .. a : gs[n] = fs[n]
         /\ Holds("local", gs, Below(S, a)) /\ AllFull(gs)
BY CutHolds DEF Below

\* One of the frames up to the ath gets a reference, if there is one.
CutTo(fs, S, a, new) ==
  /\ new.frames \in Seq(FrameType) /\ Len(new.frames) = a
  /\ Holds("local", new.frames, Below(S, a) \cup Refs(new.ref)) /\ AllFull(new.frames)
  /\ new.ref \in References \cup {NoRef} /\ (new.ref # NoRef => new.ref.at[1] = "local")
  /\ \A n \in 1 .. a : new.frames[n].extension <=> fs[n].extension

\* That holds when frames are cut off and a reference is made in what is left.
LEMMA MadeBelow ==
  ASSUME JniAssumption, NEW fs \in Seq(FrameType), NEW S, Holds("local", fs, S), AllFull(fs),
         NEW a \in 0 .. Len(fs), NEW o \in Objects \cup {NoRef}, NEW new, new = NewLocal(SubSeq(fs, 1, a), o)
  PROVE  CutTo(fs, S, a, new)
<1> PICK gs : gs = SubSeq(fs, 1, a)
  OBVIOUS
<1> PICK B : B = Below(S, a)
  OBVIOUS
<1>1. Holds("local", gs, Below(S, a)) /\ AllFull(gs)
  BY LocalsCut
<1>2. gs \in Seq(FrameType) /\ Len(gs) = a
  BY LocalsCut
<1>3. \A n \in 1 .. a : gs[n] = fs[n]
  BY LocalsCut
<1>4. /\ gs \in Seq(FrameType) /\ Len(gs) = a /\ \A n \in 1 .. a : gs[n] = fs[n]
      /\ Holds("local", gs, B) /\ AllFull(gs)
  BY <1>1, <1>2, <1>3
<1>5. /\ Extends(gs, new.frames) /\ Len(new.frames) = Len(gs)
      /\ Holds("local", new.frames, B \cup Refs(new.ref)) /\ AllFull(new.frames)
      /\ new.ref \in References \cup {NoRef} /\ (new.ref # NoRef => new.ref.at[1] = "local")
  BY <1>4, NewLocalIs
<1>6. \A n \in 1 .. a : new.frames[n].extension <=> fs[n].extension
  BY <1>4, <1>5 DEF Extends
<1>7. new.frames \in Seq(FrameType)
  BY <1>5 DEF Extends
<1> QED
  BY <1>4, <1>5, <1>6, <1>7 DEF CutTo

\* The place before another.
Before(a, b) == b = a + 1

\* What is popped in the end: the frames of the innermost scope.
LEMMA Popped ==
  ASSUME JniAssumption, LocalRules, JniTypeOK, Handles, Stacked, Runs, code = <<>>, Len(scopes) > 1,
         NEW b, b = Last(scopes).base, NEW a \in 0 .. Len(frames), Before(a, b),
         NEW o \in Objects \cup {NoRef}, NEW new, new = NewLocal(SubSeq(frames, 1, a), o), frames' = new.frames,
         refs' = Remaining \cup Refs(new.ref), scopes' = Front(scopes), UNCHANGED <<globals, own, theirs, update, raced>>
  PROVE  Handles' /\ Stacked' /\ frames' \in Seq(FrameType) /\ scopes' \in Scopes /\ IsFiniteSet(refs')
<1>1. frames \in Seq(FrameType) /\ scopes \in Scopes /\ IsFiniteSet(refs)
  BY DEF JniTypeOK, Scopes
<1>2. /\ b \in DOMAIN frames
      /\ \A k \in DOMAIN scopes : k < Len(scopes) => First(k) < b /\ scopes[k].base < b
  BY <1>1, LastScope
<1> PICK S : S = Locals(refs)
  BY <1>1
<1>3. own = {}
  BY Idle
<1>4. Holds("local", frames, S) /\ AllFull(frames) /\ refs \subseteq References
  BY <1>3 DEF Handles
<1>5. a \in Nat /\ b = a + 1
  BY <1>1 DEF Before
<1>6. CutTo(frames, S, a, new)
  BY <1>1, <1>4, MadeBelow
<1> PICK B : B = Below(S, a)
  OBVIOUS
<1> PICK q : q = new.ref
  OBVIOUS
<1>7. /\ new.frames \in Seq(FrameType) /\ Len(new.frames) = a
      /\ Holds("local", new.frames, B \cup Refs(q)) /\ AllFull(new.frames)
      /\ q \in References \cup {NoRef} /\ (q # NoRef => q.at[1] = "local")
  BY <1>6 DEF CutTo
<1>8. /\ IsFiniteSet(Refs(q)) /\ Refs(q) \subseteq References
      /\ Locals(Remaining \cup Refs(q)) = Locals(Remaining) \cup Refs(q)
      /\ Globals(Remaining \cup Refs(q)) = Globals(Remaining)
  BY <1>7, RefsAre
<1>9. Remaining \subseteq refs
  BY DEF Remaining
<1>10. \A r \in S : r.at[2] <= a <=> r.at[2] < b
  <2>1. TAKE r \in S
  <2>2. r \in References
    BY <1>4 DEF Locals
  <2>3. r.at[2] \in Nat
    BY <2>2, RefOf
  <2> QED
    BY <2>3, <1>5
<1>11. Locals(Remaining) = B
  BY <1>10 DEF Remaining, Locals, Below
<1>12. Globals(Remaining) = Globals(refs)
  BY DEF Remaining, Globals
<1>13. Handles'
  <2> PICK R : R = Remaining \cup Refs(q)
    OBVIOUS
  <2>1. Locals(R) \cup {} = B \cup Refs(q) /\ Globals(R) = Globals(refs)
    BY <1>8, <1>11, <1>12
  <2>2. R \subseteq References /\ R \cap {} = {}
    BY <1>4, <1>8, <1>9
  <2>3. refs' = R /\ own' = {}
    BY <1>3
  <2>4. Holds("local", new.frames, Locals(R) \cup {}) /\ AllFull(new.frames)
    BY <1>7, <2>1
  <2> QED
    BY <2>1, <2>2, <2>3, <2>4, LocalsChange
<1>14. IsFiniteSet(refs')
  <2>1. IsFiniteSet(Remaining)
    BY <1>1, <1>9, FS_Subset
  <2> QED
    BY <2>1, <1>8, FS_Union
<1>15. frames' \in Seq(FrameType) /\ Len(frames') = a
  BY <1>7
<1>16. \A n \in 1 .. a : frames'[n].extension <=> frames[n].extension
  BY <1>6 DEF CutTo
<1> PICK d \in Nat : d = Len(scopes)
  BY <1>1 DEF Scopes
<1>17. scopes' \in Scopes /\ Len(scopes') = d - 1 /\ \A k \in 1 .. d - 1 : scopes'[k] = scopes[k]
  BY <1>1, FrontIs
<1>18. \A k \in 1 .. d - 1 : First(k)' = First(k)
  BY <1>17 DEF First
<1>19. Stacked'
  <2>1. DOMAIN scopes = 1 .. d /\ DOMAIN scopes' = 1 .. d - 1 /\ DOMAIN frames' = 1 .. a /\ d > 1
    BY <1>1, <1>15, <1>17 DEF Scopes
  <2>2. scopes' # <<>> /\ scopes'[1] = Scope(1, TRUE)
    <3>1. 1 \in 1 .. d - 1
      BY <2>1
    <3>2. scopes'[1] = scopes[1]
      BY <3>1, <1>17
    <3> QED
      BY <2>1, <3>1, <3>2 DEF Stacked
  <2>3. ASSUME NEW k \in 1 .. d - 1
        PROVE  /\ scopes'[k].base \in 1 .. a /\ First(k)' \in 1 .. a
               /\ scopes'[k].base = scopes[k].base /\ First(k)' = First(k) /\ k \in 1 .. d /\ k # d
    <3>1. k \in DOMAIN scopes /\ k < d
      BY <2>1
    <3>2. First(k) < b /\ scopes[k].base < b
      BY <3>1, <1>2
    <3>3. First(k) \in DOMAIN frames /\ scopes[k].base \in DOMAIN frames
      BY <3>1 DEF Stacked
    <3>4. First(k) \in 1 .. a /\ scopes[k].base \in 1 .. a
      BY <1>1, <1>5, <3>2, <3>3
    <3> QED
      BY <3>1, <3>4, <1>17, <1>18, <2>1
  <2>4. \A k \in DOMAIN scopes' : scopes'[k].base \in DOMAIN frames' /\ First(k)' \in DOMAIN frames'
    BY <2>1, <2>3
  <2>5. \A j, k \in DOMAIN scopes' : j < k => First(j)' < scopes'[k].base
    <3>1. ASSUME NEW j \in 1 .. d - 1, NEW k \in 1 .. d - 1, j < k PROVE First(j)' < scopes'[k].base
      <4>1. j \in DOMAIN scopes /\ k \in DOMAIN scopes
        BY <2>1, <2>3
      <4>2. First(j) < scopes[k].base
        BY <4>1, <3>1 DEF Stacked
      <4>3. First(j)' = First(j)
        BY <2>3
      <4>4. scopes'[k].base = scopes[k].base
        BY <2>3
      <4> QED
        BY <4>2, <4>3, <4>4
    <3> QED
      BY <2>1, <3>1
  <2>6. \A n \in DOMAIN frames' : ~frames'[n].extension <=> \E k \in DOMAIN scopes' : n \in {scopes'[k].base, First(k)'}
    <3>1. TAKE n \in DOMAIN frames'
    <3>2. n \in 1 .. a /\ n \in DOMAIN frames /\ n < b
      BY <1>1, <1>5, <2>1
    <3>3. ~frames[n].extension <=> \E k \in DOMAIN scopes : n \in {scopes[k].base, First(k)}
      BY <3>2 DEF Stacked
    <3>4. ASSUME NEW k \in DOMAIN scopes, n \in {scopes[k].base, First(k)} PROVE k \in 1 .. d - 1
      <4>1. CASE k = d
        <5>1. scopes[d].base = b
          BY <1>1, <2>1 DEF Last, Scopes
        <5>2. First(d) \in Nat /\ b \in Nat /\ b <= First(d)
          BY <5>1, <1>1, <4>1, <3>4, FirstIs
        <5>3. n \in {b, First(d)}
          BY <3>4, <4>1, <5>1
        <5> QED
          BY <3>2, <5>2, <5>3
      <4>2. CASE k # d
        BY <2>1, <4>2
      <4> QED
        BY <4>1, <4>2
    <3>5. (\E k \in DOMAIN scopes : n \in {scopes[k].base, First(k)})
          <=> \E k \in DOMAIN scopes' : n \in {scopes'[k].base, First(k)'}
      BY <2>1, <2>3, <3>4
    <3>6. frames'[n].extension <=> frames[n].extension
      BY <3>2, <1>16
    <3> QED
      BY <3>3, <3>5, <3>6
  <2> QED
    BY <2>2, <2>4, <2>5, <2>6 DEF Stacked
<1> QED
  BY <1>13, <1>14, <1>15, <1>17, <1>19

\* Part of a part from the start.
LEMMA CutTwice ==
  ASSUME NEW T, NEW s \in Seq(T), NEW b \in 0 .. Len(s), NEW a \in 0 .. b
  PROVE  SubSeq(SubSeq(s, 1, b), 1, a) = SubSeq(s, 1, a)
<1> PICK h : h = SubSeq(s, 1, b)
  OBVIOUS
<1>1. Len(s) \in Nat /\ DOMAIN s = 1 .. Len(s)
  OBVIOUS
<1>2. a \in Nat /\ b \in Nat /\ a <= b /\ b <= Len(s)
  BY <1>1
<1>3. \A i \in 1 .. b : s[i] \in T
  BY <1>1, <1>2, ElementOfSeq
<1>4. h \in Seq(T) /\ \A i \in 1 .. b - 1 + 1 : h[i] = s[1 + i - 1]
  BY <1>2, <1>3, SubSeqProperties
<1>5. \A i \in 1 .. b : h[i] = s[i]
  <2>1. b - 1 + 1 = b /\ \A i \in Nat : 1 + i - 1 = i
    BY <1>2
  <2> QED
    BY <1>4, <2>1
<1>6. \A i \in 1 .. a : h[i] = s[i] /\ h[i] \in T
  BY <1>2, <1>3, <1>5
<1>7. \A i \in 1 .. a : s[i] \in T
  BY <1>2, <1>3
<1>8. /\ SubSeq(h, 1, a) \in Seq(T) /\ Len(SubSeq(h, 1, a)) = IF 1 <= a THEN a - 1 + 1 ELSE 0
      /\ \A i \in 1 .. a - 1 + 1 : SubSeq(h, 1, a)[i] = h[1 + i - 1]
  BY <1>2, <1>6, SubSeqProperties
<1>9. /\ SubSeq(s, 1, a) \in Seq(T) /\ Len(SubSeq(s, 1, a)) = IF 1 <= a THEN a - 1 + 1 ELSE 0
      /\ \A i \in 1 .. a - 1 + 1 : SubSeq(s, 1, a)[i] = s[1 + i - 1]
  BY <1>2, <1>7, SubSeqProperties
<1>10. (IF 1 <= a THEN a - 1 + 1 ELSE 0) = a /\ a - 1 + 1 = a /\ \A i \in Nat : 1 + i - 1 = i
  BY <1>2
<1>11. Len(SubSeq(h, 1, a)) = a /\ \A i \in 1 .. a : SubSeq(h, 1, a)[i] = h[i]
  BY <1>8, <1>10
<1>12. Len(SubSeq(s, 1, a)) = a /\ \A i \in 1 .. a : SubSeq(s, 1, a)[i] = s[i]
  BY <1>9, <1>10
<1>13. \A i \in 1 .. Len(SubSeq(h, 1, a)) : SubSeq(h, 1, a)[i] = SubSeq(s, 1, a)[i]
  BY <1>6, <1>11, <1>12
<1> QED
  BY <1>8, <1>9, <1>11, <1>12, <1>13, SeqEqual

\* Nothing is made of NULL.
LEMMA NoLocal ==
  ASSUME NEW fs PROVE NewLocal(fs, NoRef) = Outcome(fs, NoRef) /\ NewLocal(fs, NoRef).frames = fs
BY DEF NewLocal, Outcome

\* The frames of the innermost scope are popped.
LEMMA ScopePopped ==
  ASSUME JniAssumption, Stacked, frames \in Seq(FrameType), scopes \in Scopes, Len(scopes) > 1,
         NEW b, b = Last(scopes).base, NEW o
  PROVE  \E a \in 0 .. Len(frames) :
           /\ Before(a, b)
           /\ (IF Last(scopes).method THEN Pop(Pop(frames, NoRef).frames, o) ELSE Pop(frames, o))
                = NewLocal(SubSeq(frames, 1, a), o)
<1> PICK t : t = IF Last(scopes).method THEN b + 1 ELSE b
  OBVIOUS
<1>1. /\ b \in DOMAIN frames /\ t \in DOMAIN frames
      /\ ~frames[b].extension /\ ~frames[t].extension
      /\ \A n \in DOMAIN frames : n > t => frames[n].extension
  BY LastScope
<1>2. b - 1 \in 0 .. Len(frames) /\ Before(b - 1, b)
  BY <1>1 DEF Before
<1>3. CASE ~Last(scopes).method
  <2>1. t = b
    BY <1>3
  <2>2. Pop(frames, o) = NewLocal(SubSeq(frames, 1, b - 1), o)
    BY <1>1, <2>1, PopIs
  <2> QED
    BY <1>2, <1>3, <2>2
<1>4. CASE Last(scopes).method
  <2>1. t = b + 1 /\ t - 1 = b
    BY <1>1, <1>4
  <2>2. Pop(frames, NoRef) = NewLocal(SubSeq(frames, 1, t - 1), NoRef)
    BY <1>1, PopIs
  <2> PICK hs : hs = SubSeq(frames, 1, b)
    OBVIOUS
  <2>3. Pop(frames, NoRef).frames = hs
    BY <2>1, <2>2, NoLocal
  <2>4. b \in 0 .. Len(frames) /\ b - 1 \in 0 .. b
    BY <1>1
  <2>5. hs \in Seq(FrameType) /\ Len(hs) = b /\ \A n \in 1 .. b : hs[n] = frames[n]
    <3>1. \A i \in 1 .. b : frames[i] \in FrameType
      BY <2>4, ElementOfSeq
    <3>2. /\ hs \in Seq(FrameType) /\ Len(hs) = IF 1 <= b THEN b - 1 + 1 ELSE 0
          /\ \A i \in 1 .. b - 1 + 1 : hs[i] = frames[1 + i - 1]
      BY <2>4, <3>1, SubSeqProperties
    <3>3. (IF 1 <= b THEN b - 1 + 1 ELSE 0) = b /\ b - 1 + 1 = b /\ \A i \in Nat : 1 + i - 1 = i
      BY <2>4
    <3> QED
      BY <3>2, <3>3
  <2>6. b \in DOMAIN hs /\ ~hs[b].extension /\ \A n \in DOMAIN hs : n > b => hs[n].extension
    <3>1. b \in 1 .. b /\ DOMAIN hs = 1 .. b
      BY <1>1, <2>5
    <3>2. hs[b] = frames[b]
      BY <2>5, <3>1
    <3>3. \A n \in 1 .. b : ~(n > b)
      BY <3>1
    <3> QED
      BY <1>1, <3>1, <3>2, <3>3
  <2>7. Pop(hs, o) = NewLocal(SubSeq(hs, 1, b - 1), o)
    BY <2>5, <2>6, PopIs
  <2>8. SubSeq(hs, 1, b - 1) = SubSeq(frames, 1, b - 1)
    BY <2>4, CutTwice
  <2> QED
    BY <1>2, <1>4, <2>3, <2>7, <2>8
<1> QED
  BY <1>3, <1>4

\* Popping a scope keeps the invariant, with a reference to the result or none,
LEMMA PopKeeps ==
  ASSUME JniAssumption, LocalRules, IInv, code = <<>>, Len(scopes) > 1, NEW o \in Objects \cup {NoRef},
         PopTo(IF Last(scopes).method THEN Pop(frames, NoRef).frames ELSE frames, o),
         scopes' = Front(scopes), UNCHANGED <<globals, code, temps, own, theirs, update, raced>>
  PROVE  IInv'
<1>1. JniTypeOK /\ Handles /\ Stacked /\ Runs
  BY DEF IInv
<1>2. frames \in Seq(FrameType) /\ scopes \in Scopes
  BY <1>1 DEF JniTypeOK, Scopes
<1> PICK b : b = Last(scopes).base
  OBVIOUS
<1> PICK new : new = IF Last(scopes).method THEN Pop(Pop(frames, NoRef).frames, o) ELSE Pop(frames, o)
  OBVIOUS
<1>3. PICK a \in 0 .. Len(frames) : Before(a, b) /\ new = NewLocal(SubSeq(frames, 1, a), o)
  BY <1>1, <1>2, ScopePopped
<1>4. /\ frames' = new.frames /\ refs' = Remaining \cup Refs(new.ref)
      /\ exc' = IF o # NoRef /\ new.ref = NoRef THEN "Internal" ELSE exc
  BY DEF PopTo
<1>5. Handles' /\ Stacked' /\ frames' \in Seq(FrameType) /\ scopes' \in Scopes /\ IsFiniteSet(refs')
  BY <1>1, <1>3, <1>4, Popped
<1>6. Runs'
  BY <1>1, RunsStay
<1>7. exc' \in Posted \cup {NoExc}
  BY <1>1, <1>4 DEF JniTypeOK, Posted
<1>8. JniTypeOK'
  BY <1>1, <1>5, <1>7 DEF JniTypeOK, Scopes
<1> QED
  BY <1>5, <1>6, <1>8 DEF IInv

\* What native code may hand on are objects.
LEMMA ResultsAre ==
  ASSUME JniAssumption, JniTypeOK, Handles
  PROVE  Results \subseteq Objects \cup {NoRef} /\ Returned \subseteq Objects \cup {NoRef}
BY HeldAre DEF Results, Returned

\* in PopLocalFrame,
LEMMA PopLocalFrameKeeps ==
  ASSUME JniAssumption, LocalRules, IInv, PopLocalFrame PROVE IInv'
<1>1. /\ code = <<>> /\ Len(scopes) > 1 /\ ~Last(scopes).method /\ scopes' = Front(scopes)
      /\ UNCHANGED <<globals, code, temps, own, theirs, update, raced>>
  BY DEF PopLocalFrame
<1>2. PICK o \in Results : PopTo(frames, o)
  BY DEF PopLocalFrame
<1>3. o \in Objects \cup {NoRef}
  BY ResultsAre DEF IInv
<1> QED
  BY <1>1, <1>2, <1>3, PopKeeps

\* and when a native method returns.
LEMMA LeaveNativeKeeps ==
  ASSUME JniAssumption, LocalRules, IInv, LeaveNative PROVE IInv'
<1>1. /\ code = <<>> /\ Len(scopes) > 1 /\ Last(scopes).method /\ scopes' = Front(scopes)
      /\ UNCHANGED <<globals, code, temps, own, theirs, update, raced>>
  BY DEF LeaveNative
<1>2. PICK o \in Returned : PopTo(Pop(frames, NoRef).frames, o)
  BY DEF LeaveNative
<1>3. o \in Objects \cup {NoRef}
  BY ResultsAre DEF IInv
<1> QED
  BY <1>1, <1>2, <1>3, PopKeeps

\* A scope begins in gs at b, with another frame of its own when it is a native method.
Begins(gs, b, t) ==
  /\ gs \in Seq(FrameType) /\ t \in 1 .. Len(gs) /\ b \in 1 .. Len(gs)
  /\ \A n \in 1 .. Len(gs) : n < b => (gs[n].extension <=> frames[n].extension)
  /\ \A n \in 1 .. Len(gs) : n >= b => (gs[n].extension <=> n > t)

\* Then a new scope begins there.
LEMMA ScopeBegins ==
  ASSUME frames \in Seq(FrameType), scopes \in Scopes, Stacked, NEW b \in Nat, b = Len(frames) + 1,
         NEW m \in BOOLEAN, NEW t \in Nat, t = IF m THEN b + 1 ELSE b, Begins(frames', b, t),
         scopes' = Append(scopes, Scope(b, m))
  PROVE  Stacked' /\ scopes' \in Scopes
<1> PICK T : T = [base : Nat, method : BOOLEAN]
  OBVIOUS
<1> PICK d \in Nat : d = Len(scopes)
  BY DEF Scopes
<1> PICK s : s = Scope(b, m)
  OBVIOUS
<1> PICK h \in Nat : h = Len(frames')
  BY DEF Begins
<1>1. scopes \in Seq(T) /\ s \in T /\ s.base = b /\ s.method = m
  BY DEF Scopes, Scope
<1>2. DOMAIN scopes = 1 .. d /\ d >= 1
  <2>1. scopes # <<>>
    BY DEF Stacked
  <2> QED
    BY <1>1, <2>1
<1>3. scopes' \in Seq(T) /\ Len(scopes') = d + 1 /\ scopes'[d + 1] = s /\ \A k \in 1 .. d : scopes'[k] = scopes[k]
  BY <1>1, AppendProperties
<1>4. DOMAIN scopes' = 1 .. d + 1 /\ 1 \in 1 .. d
  BY <1>2, <1>3
<1>5. \A k \in 1 .. d : First(k)' = First(k)
  BY <1>3 DEF First
<1>6. First(d + 1)' = t /\ scopes'[d + 1].base = b
  <2>1. d + 1 > 1
    BY <1>2
  <2> QED
    BY <1>1, <1>3, <2>1 DEF First
<1>7. DOMAIN frames = 1 .. b - 1 /\ DOMAIN frames' = 1 .. h /\ b \in 1 .. h /\ t \in 1 .. h /\ b <= t
  BY DEF Begins
<1>8. ASSUME NEW k \in 1 .. d
      PROVE  /\ scopes'[k].base \in 1 .. b - 1 /\ First(k)' \in 1 .. b - 1
             /\ scopes'[k].base = scopes[k].base /\ First(k)' = First(k)
  <2>1. scopes[k].base \in DOMAIN frames /\ First(k) \in DOMAIN frames
    BY <1>2 DEF Stacked
  <2> QED
    BY <2>1, <1>3, <1>5, <1>7
<1>9. scopes' # <<>> /\ scopes'[1] = Scope(1, TRUE)
  <2>1. scopes'[1] = scopes[1]
    BY <1>3, <1>4
  <2>2. scopes[1] = Scope(1, TRUE)
    BY DEF Stacked
  <2>3. Len(scopes') # 0
    BY <1>3
  <2>4. scopes' # <<>>
    BY <2>3
  <2> QED
    BY <2>1, <2>2, <2>4
<1>10. ASSUME NEW k \in 1 .. d + 1 PROVE scopes'[k].base \in 1 .. h /\ First(k)' \in 1 .. h
  <2>1. CASE k = d + 1
    BY <1>6, <1>7, <2>1
  <2>2. CASE k # d + 1
    <3>1. k \in 1 .. d
      BY <2>2
    <3>2. scopes'[k].base \in 1 .. b - 1 /\ First(k)' \in 1 .. b - 1
      BY <1>8, <3>1
    <3> QED
      BY <1>7, <3>2
  <2> QED
    BY <2>1, <2>2
<1>11. ASSUME NEW j \in 1 .. d + 1, NEW k \in 1 .. d + 1, j < k PROVE First(j)' < scopes'[k].base
  <2>1. j \in 1 .. d
    BY <1>11
  <2>2. CASE k = d + 1
    <3>1. First(j)' \in 1 .. b - 1
      BY <1>8, <2>1
    <3> QED
      BY <1>6, <2>2, <3>1
  <2>3. CASE k # d + 1
    <3>1. k \in 1 .. d
      BY <2>3
    <3>2. First(j) < scopes[k].base
      BY <1>2, <1>11, <2>1, <3>1 DEF Stacked
    <3>3. First(j)' = First(j) /\ scopes'[k].base = scopes[k].base
      BY <1>8, <2>1, <3>1
    <3> QED
      BY <3>2, <3>3
  <2> QED
    BY <2>2, <2>3
<1>12. ASSUME NEW n \in 1 .. h
       PROVE  ~frames'[n].extension <=> \E k \in 1 .. d + 1 : n \in {scopes'[k].base, First(k)'}
  <2>1. CASE n < b
    <3>1. n \in DOMAIN frames
      BY <1>7, <2>1
    <3>2. frames'[n].extension <=> frames[n].extension
      BY <2>1 DEF Begins
    <3>3. ~frames[n].extension <=> \E k \in 1 .. d : n \in {scopes[k].base, First(k)}
      BY <1>2, <3>1 DEF Stacked
    <3>4. n \notin {scopes'[d + 1].base, First(d + 1)'}
      BY <1>6, <1>7, <2>1
    <3>5. \A k \in 1 .. d + 1 : k \in 1 .. d \/ k = d + 1
      OBVIOUS
    <3>6. \A k \in 1 .. d : k \in 1 .. d + 1
      OBVIOUS
    <3>7. (\E k \in 1 .. d : n \in {scopes[k].base, First(k)}) <=> \E k \in 1 .. d + 1 : n \in {scopes'[k].base, First(k)'}
      BY <1>8, <3>4, <3>5, <3>6
    <3> QED
      BY <3>2, <3>3, <3>7
  <2>2. CASE n >= b
    <3>1. frames'[n].extension <=> n > t
      BY <2>2 DEF Begins
    <3>2. n \in {b, t} <=> ~(n > t)
      <4>1. t = b \/ t = b + 1
        OBVIOUS
      <4> QED
        BY <2>2, <4>1
    <3>3. \A k \in 1 .. d : n \notin {scopes'[k].base, First(k)'}
      <4>1. TAKE k \in 1 .. d
      <4>2. scopes'[k].base \in 1 .. b - 1 /\ First(k)' \in 1 .. b - 1
        BY <1>8
      <4> QED
        BY <4>2, <2>2
    <3>4. \A k \in 1 .. d + 1 : k \in 1 .. d \/ k = d + 1
      OBVIOUS
    <3>5. d + 1 \in 1 .. d + 1
      BY <1>2
    <3>6. (\E k \in 1 .. d + 1 : n \in {scopes'[k].base, First(k)'}) <=> n \in {b, t}
      BY <1>6, <3>3, <3>4, <3>5
    <3> QED
      BY <3>1, <3>2, <3>6
  <2> QED
    BY <1>7, <2>1, <2>2
<1>13. Stacked'
  BY <1>4, <1>7, <1>9, <1>10, <1>11, <1>12 DEF Stacked
<1> QED
  BY <1>3, <1>13 DEF Scopes

\* The references that native code has are those it had and R.
LEMMA Entering ==
  ASSUME JniAssumption, JniTypeOK, Handles, Runs, LocalRules, code = <<>>, UNCHANGED <<globals, own, theirs, update, raced>>,
         NEW R, NEW fs, NEW b, Enters(fs, frames', b, Locals(refs), R), refs' = refs \cup R
  PROVE  Handles' /\ IsFiniteSet(refs')
<1>1. own = {}
  BY Idle
<1>2. /\ Holds("local", frames', Locals(refs) \cup R) /\ AllFull(frames')
      /\ R \subseteq References /\ IsFiniteSet(R) /\ \A r \in R : r.at[1] = "local"
  BY DEF Enters
<1>3. Locals(refs \cup R) \cup {} = Locals(refs) \cup R /\ Globals(refs \cup R) = Globals(refs)
  BY <1>2 DEF Locals, Globals
<1>4. refs \cup R \subseteq References
  BY <1>2 DEF Handles
<1> PICK Q : Q = refs \cup R
  OBVIOUS
<1>5. /\ Holds("local", frames', Locals(Q) \cup {}) /\ Globals(Q) = Globals(refs) /\ Q \subseteq References
      /\ Q \cap {} = {} /\ refs' = Q /\ own' = {}
  BY <1>1, <1>2, <1>3, <1>4
<1>6. Handles'
  BY <1>2, <1>5, LocalsChange
<1>7. IsFiniteSet(refs')
  BY <1>2, FS_Union DEF JniTypeOK
<1> QED
  BY <1>6, <1>7

\* Native code pushes a frame of its own.
LEMMA PushLocalFrameKeeps ==
  ASSUME JniAssumption, LocalRules, IInv, PushLocalFrame PROVE IInv'
<1>1. JniTypeOK /\ Handles /\ Stacked /\ Runs /\ code = <<>>
  BY DEF IInv, PushLocalFrame, Calling
<1>2. UNCHANGED <<globals, refs, code, temps, own, theirs, update, raced>>
  BY DEF PushLocalFrame
<1>3. frames \in Seq(FrameType) /\ scopes \in Scopes
  BY <1>1 DEF JniTypeOK, Scopes
<1> PICK b \in Nat : b = Len(frames) + 1
  BY <1>3
<1>4. PICK n \in Capacities :
        \/ /\ frames' = (IF n = 0 THEN frames ELSE Pushed(frames, n)) /\ exc' = exc
           /\ scopes' = Append(scopes, Scope(b, FALSE))
        \/ exc' = "OutOfMemory" /\ frames' = frames /\ scopes' = scopes
  BY DEF PushLocalFrame
<1>5. n # 0 /\ n \in Nat
  BY DEF LocalRules, JniAssumption
<1>6. exc' \in Posted \cup {NoExc}
  BY <1>1, <1>4 DEF JniTypeOK, Posted
<1>7. Runs'
  BY <1>1, <1>2, RunsStay
<1>8. CASE frames' = frames /\ scopes' = scopes
  <2>1. Handles' /\ Stacked' /\ JniTypeOK'
    BY <1>1, <1>2, <1>6, <1>8 DEF Handles, GlobalHandles, InFrames, Slot, UpdateHolds, Stacked, First, JniTypeOK
  <2> QED
    BY <1>7, <2>1 DEF IInv
<1>9. CASE frames' = Pushed(frames, n) /\ scopes' = Append(scopes, Scope(b, FALSE))
  <2> PICK k \in Nat : k = IF n > RefsPerFrame THEN n - RefsPerFrame ELSE 0
    <3>1. RefsPerFrame \in Nat
      BY DEF JniAssumption
    <3>2. (IF n > RefsPerFrame THEN n - RefsPerFrame ELSE 0) \in Nat
      BY <1>5, <3>1
    <3> QED
      BY <3>2
  <2> PICK S : S = Locals(refs)
    OBVIOUS
  <2>1. frames' = Extended(Append(frames, Frame(FALSE)), k)
    BY <1>5, <1>9 DEF Pushed
  <2>2. Opens(frames, frames', b)
    BY <1>3, <2>1, RoomIs
  <2>3. own = {}
    BY <1>1, Idle
  <2>4. Holds("local", frames, S) /\ AllFull(frames)
    BY <1>1, <2>3 DEF Handles
  <2>5. Enters(frames, frames', b, S, {})
    BY <1>3, <2>2, <2>4, OpensEnters
  <2>6. refs' = refs \cup {}
    BY <1>2
  <2>7. Handles'
    BY <1>1, <1>2, <2>5, <2>6, Entering
  <2>8. Begins(frames', b, b)
    <3>1. frames' \in Seq(FrameType) /\ b \in 1 .. Len(frames')
      BY <2>5 DEF Enters
    <3>2. \A i \in 1 .. Len(frames') : i < b => (frames'[i].extension <=> frames[i].extension)
      BY <2>5 DEF Enters
    <3>3. \A i \in 1 .. Len(frames') : i >= b => (frames'[i].extension <=> i > b)
      BY <2>5 DEF Enters
    <3> QED
      BY <3>1, <3>2, <3>3 DEF Begins
  <2>9. Stacked' /\ scopes' \in Scopes
    BY <1>1, <1>3, <1>9, <2>8, ScopeBegins
  <2>10. frames' \in Seq(FrameType)
    BY <2>8 DEF Begins
  <2>11. JniTypeOK'
    BY <1>1, <1>2, <1>6, <2>9, <2>10 DEF JniTypeOK, Scopes
  <2> QED
    BY <1>7, <2>7, <2>9, <2>11 DEF IInv
<1> QED
  BY <1>4, <1>5, <1>8, <1>9

\* A native method is called, with its parameters.
LEMMA EnterNativeKeeps ==
  ASSUME JniAssumption, LocalRules, IInv, EnterNative PROVE IInv'
<1>1. JniTypeOK /\ Handles /\ Stacked /\ Runs /\ code = <<>>
  BY DEF IInv, EnterNative, Calling
<1>2. UNCHANGED <<globals, exc, code, temps, own, theirs, update, raced>>
  BY DEF EnterNative
<1>3. frames \in Seq(FrameType) /\ scopes \in Scopes
  BY <1>1 DEF JniTypeOK, Scopes
<1> PICK b \in Nat : b = Len(frames) + 1
  BY <1>3
<1> PICK bs : bs = Append(frames, Frame(FALSE))
  OBVIOUS
<1> PICK S : S = Locals(refs)
  OBVIOUS
<1>4. PICK params \in {<<o>> : o \in Held} \cup {<<o, Result>> : o \in Held} :
        frames' = Entered(bs, params).frames /\ refs' = refs \cup Entered(bs, params).refs
  BY DEF EnterNative
<1>5. scopes' = Append(scopes, Scope(b, TRUE))
  BY DEF EnterNative
<1>6. own = {}
  BY <1>1, Idle
<1>7. Holds("local", frames, S) /\ AllFull(frames)
  BY <1>1, <1>6 DEF Handles
<1>8. /\ Longer(frames, bs) /\ Len(bs) = b /\ bs[b] = Frame(FALSE) /\ bs \in Seq(FrameType)
      /\ b \in DOMAIN bs
  BY <1>3, AppendHolds
<1>9. Holds("local", bs, S) /\ AllFull(bs)
  BY <1>3, <1>7, <1>8, LongerHolds
<1>10. Held \subseteq Objects
  BY <1>1, HeldAre
<1> PICK e : e = Entered(bs, params)
  OBVIOUS
<1>11. Enters(bs, e.frames, Len(bs) + 1, S, e.refs)
  <2>1. CASE \E o \in Held : params = <<o>>
    <3>1. PICK p \in Objects : params = <<p>>
      BY <2>1, <1>10
    <3>2. e = Entered(bs, <<p>>)
      BY <3>1
    <3> QED
      BY <1>8, <1>9, <3>2, EntersOne
  <2>2. CASE \E o \in Held : params = <<o, Result>>
    <3>1. PICK p \in Objects : params = <<p, Result>>
      BY <2>2, <1>10
    <3>2. e = Entered(bs, <<p, Result>>) /\ Result \in Objects
      BY <3>1 DEF JniAssumption
    <3> QED
      BY <1>8, <1>9, <3>2, EntersTwo
  <2> QED
    BY <1>4, <2>1, <2>2
<1> PICK t \in Nat : t = b + 1
  OBVIOUS
<1>12. frames' = e.frames /\ refs' = refs \cup e.refs
  BY <1>4
<1>13. Enters(bs, frames', t, S, e.refs)
  BY <1>8, <1>11, <1>12
<1>14. Handles' /\ IsFiniteSet(refs')
  BY <1>1, <1>2, <1>12, <1>13, Entering
<1>15. Begins(frames', b, t)
  <2> PICK h \in Nat : h = Len(frames')
    BY <1>13 DEF Enters
  <2>1. frames' \in Seq(FrameType) /\ t \in 1 .. h
    BY <1>13 DEF Enters
  <2>2. b \in 1 .. h
    BY <2>1
  <2>3. /\ \A n \in 1 .. h : n < t => bs[n].extension = frames'[n].extension
        /\ \A n \in 1 .. h : n >= t => (frames'[n].extension <=> n > t)
    BY <1>13 DEF Enters
  <2>4. ASSUME NEW n \in 1 .. h, n < b PROVE frames'[n].extension <=> frames[n].extension
    <3>1. n \in 1 .. b /\ n <= Len(frames) /\ n < t
      BY <1>3, <2>4
    <3>2. bs[n] = frames[n]
      BY <1>8, <3>1 DEF Longer
    <3> QED
      BY <2>3, <3>1, <3>2
  <2>5. ASSUME NEW n \in 1 .. h, n >= b PROVE frames'[n].extension <=> n > t
    <3>1. CASE n = b
      <4>1. ~bs[b].extension
        BY <1>8, NewFrame
      <4>2. n < t /\ ~(n > t)
        BY <3>1
      <4> QED
        BY <2>3, <3>1, <4>1, <4>2
    <3>2. CASE n # b
      <4>1. n >= t
        BY <2>5, <3>2
      <4> QED
        BY <2>3, <4>1
    <3> QED
      BY <3>1, <3>2
  <2> QED
    BY <2>1, <2>2, <2>4, <2>5 DEF Begins
<1>16. Stacked' /\ scopes' \in Scopes
  BY <1>1, <1>3, <1>5, <1>15, ScopeBegins
<1>17. Runs'
  BY <1>1, <1>2, RunsStay
<1>18. frames' \in Seq(FrameType)
  BY <1>15 DEF Begins
<1>19. JniTypeOK'
  BY <1>1, <1>2, <1>14, <1>16, <1>18 DEF JniTypeOK, Scopes
<1> QED
  BY <1>14, <1>16, <1>17, <1>19 DEF IInv

-----------------------------------------------------------------------------
(* Global references *)

\* The word of flags that u has is that of a frame in gs, and still what it will be.
WordHolds(gs, u) ==
  IF u = <<>> THEN AllFull(gs)
  ELSE LET n == u[1].n
       IN  /\ n \in DOMAIN gs
           /\ \A m \in DOMAIN gs : \A i \in gs[m].used : gs[m].refs[i] \in Objects \/ (m = n /\ i \notin u[1].used)
           /\ u[1].used \subseteq gs[n].used
           /\ \A i \in gs[n].used \ u[1].used : gs[n].refs[i] = NoRef

LEMMA WordIs ==
  UpdateHolds = WordHolds(globals, update) /\ UpdateHolds' = WordHolds(globals', update')
BY DEF UpdateHolds, WordHolds, AllFull

\* No frame but the nth changes, and it has no empty slot in use unless it had one.
OnlyAt(fs, gs, n) ==
  /\ DOMAIN fs \subseteq DOMAIN gs /\ n \in DOMAIN gs
  /\ \A m \in DOMAIN gs : m # n => m \in DOMAIN fs /\ gs[m] = fs[m]
  /\ (n \in DOMAIN fs => \A i \in fs[n].used : fs[n].refs[i] \in Objects)
       => \A i \in gs[n].used : gs[n].refs[i] \in Objects

\* The word of another frame does not notice.
LEMMA WordStays ==
  ASSUME NEW fs, NEW gs, NEW n, NEW u, WordHolds(fs, u), OnlyAt(fs, gs, n), u = <<>> \/ u[1].n # n
  PROVE  WordHolds(gs, u)
<1>1. CASE u = <<>>
  <2>1. AllFull(fs)
    BY <1>1 DEF WordHolds
  <2>2. \A i \in gs[n].used : gs[n].refs[i] \in Objects
    BY <2>1 DEF OnlyAt, AllFull
  <2>3. \A m \in DOMAIN gs : m # n => m \in DOMAIN fs /\ gs[m] = fs[m]
    BY DEF OnlyAt
  <2>4. AllFull(gs)
    BY <2>1, <2>2, <2>3 DEF AllFull
  <2> QED
    BY <1>1, <2>4 DEF WordHolds
<1>2. CASE u # <<>>
  <2> PICK k, U : k = u[1].n /\ U = u[1].used
    OBVIOUS
  <2>1. /\ k \in DOMAIN fs
        /\ \A m \in DOMAIN fs : \A i \in fs[m].used : fs[m].refs[i] \in Objects \/ (m = k /\ i \notin U)
        /\ U \subseteq fs[k].used
        /\ \A i \in fs[k].used \ U : fs[k].refs[i] = NoRef
    BY <1>2 DEF WordHolds
  <2>2. /\ k # n /\ DOMAIN fs \subseteq DOMAIN gs
        /\ \A m \in DOMAIN gs : m # n => m \in DOMAIN fs /\ gs[m] = fs[m]
    BY <1>2 DEF OnlyAt
  <2>3. \A i \in gs[n].used : gs[n].refs[i] \in Objects
    <3>1. n \in DOMAIN fs => \A i \in fs[n].used : fs[n].refs[i] \in Objects
      BY <2>1, <2>2
    <3> QED
      BY <3>1 DEF OnlyAt
  <2>4. k \in DOMAIN gs /\ gs[k] = fs[k]
    BY <2>1, <2>2
  <2>5. \A m \in DOMAIN gs : \A i \in gs[m].used : gs[m].refs[i] \in Objects \/ (m = k /\ i \notin U)
    BY <2>1, <2>2, <2>3
  <2> QED
    BY <1>2, <2>1, <2>4, <2>5 DEF WordHolds
<1> QED
  BY <1>1, <1>2

\* References that are held are in frames.
LEMMA HoldsSlots ==
  ASSUME JniAssumption, NEW gs \in Seq(FrameType), NEW S, Holds("global", gs, S), NEW r \in S
  PROVE  r \in References /\ r.at[1] = "global" /\ r.at[2] \in DOMAIN gs /\ r.at[3] \in 1 .. RefsPerFrame
<1>1. r \in References /\ r.at[1] = "global" /\ r.at[2] \in DOMAIN gs /\ r.at[3] \in gs[r.at[2]].used
  BY DEF Holds, IsIn
<1>2. gs[r.at[2]] \in FrameType
  BY <1>1
<1> QED
  BY <1>1, <1>2 DEF FrameType

\* One frame's flags and slot are cleared.
LEMMA FreeOnly ==
  ASSUME JniAssumption, NEW fs \in Seq(FrameType), NEW r, NEW n, n = r.at[2], n \in DOMAIN fs,
         r.at[3] \in 1 .. RefsPerFrame
  PROVE  /\ FreeRef(fs, r) \in Seq(FrameType) /\ DOMAIN FreeRef(fs, r) = DOMAIN fs
         /\ OnlyAt(fs, FreeRef(fs, r), n)
<1> PICK i : i = r.at[3]
  OBVIOUS
<1>1. DOMAIN fs = 1 .. Len(fs) /\ \A m \in DOMAIN fs : fs[m] \in FrameType
  OBVIOUS
<1>2. i \in Slots
  BY DEF Slots
<1> PICK gs : gs = [fs EXCEPT ![n] = Freed(@, i)]
  OBVIOUS
<1>3. /\ Freed(fs[n], i) \in FrameType /\ Freed(fs[n], i).used = fs[n].used \ {i}
      /\ \A j \in Slots : Freed(fs[n], i).refs[j] = IF j = i THEN NoRef ELSE fs[n].refs[j]
  BY <1>1, <1>2, FreedIs
<1>4. gs \in Seq(FrameType) /\ Len(gs) = Len(fs) /\ \A m \in DOMAIN fs : gs[m] = IF m = n THEN Freed(fs[n], i) ELSE fs[m]
  BY <1>1, <1>3
<1>5. DOMAIN gs = DOMAIN fs
  BY <1>4
<1>6. gs[n] = Freed(fs[n], i) /\ \A m \in DOMAIN fs : m # n => gs[m] = fs[m]
  BY <1>4
<1>7. fs[n].used \subseteq Slots
  BY <1>1, SlotsAre
<1>8. \A j \in gs[n].used : j \in fs[n].used /\ gs[n].refs[j] = fs[n].refs[j]
  BY <1>3, <1>6, <1>7
<1>9. OnlyAt(fs, gs, n)
  BY <1>5, <1>6, <1>8 DEF OnlyAt
<1>10. FreeRef(fs, r) = gs
  BY DEF FreeRef
<1> QED
  BY <1>4, <1>5, <1>9, <1>10

\* A slot for a global reference, in a new frame when all are full.
LEMMA NewGlobalIs ==
  ASSUME JniAssumption, NEW S, globals \in Seq(FrameType), Holds("global", globals, S),
         NEW o \in Objects, NEW made, made = NewGlobal(o)
  PROVE  /\ made.globals \in Seq(FrameType) /\ Holds("global", made.globals, S \cup {made.ref})
         /\ OnlyAt(globals, made.globals, made.ref.at[2])
         /\ made.ref \in References \ S /\ made.ref.at[1] = "global"
<1> DEFINE room == {n \in DOMAIN globals : Free(globals[n]) # {}}
           n == IF room = {} THEN Len(globals) + 1 ELSE Max(room)
           gs == IF room = {} THEN Append(globals, Frame(FALSE)) ELSE globals
           i == Min(Free(gs[n]))
<1>1. Len(globals) \in Nat /\ DOMAIN globals = 1 .. Len(globals)
  OBVIOUS
<1>2. /\ gs \in Seq(FrameType) /\ n \in DOMAIN gs /\ Free(gs[n]) # {}
      /\ Holds("global", gs, S) /\ DOMAIN globals \subseteq DOMAIN gs
      /\ \A m \in DOMAIN gs : m # n => m \in DOMAIN globals /\ gs[m] = globals[m]
      /\ n \notin DOMAIN globals => gs[n].used = {}
      /\ n \in DOMAIN globals => gs[n] = globals[n]
  <2>1. CASE room = {}
    <3> PICK b \in Nat : b = Len(globals) + 1
      BY <1>1
    <3> PICK hs : hs = Append(globals, Frame(FALSE))
      OBVIOUS
    <3>1. gs = hs /\ n = b
      BY <2>1
    <3>2. /\ Longer(globals, hs) /\ Len(hs) = b /\ hs[b] = Frame(FALSE) /\ hs \in Seq(FrameType) /\ b \in DOMAIN hs
      BY AppendHolds
    <3>3. Holds("global", hs, S)
      BY <3>2, LongerHolds
    <3>4. Frame(FALSE).used = {}
      BY NewFrame
    <3>5. 1 \in 1 .. RefsPerFrame
      BY DEF JniAssumption
    <3>6. Free(hs[b]) # {}
      BY <3>2, <3>4, <3>5 DEF Free
    <3>7. /\ DOMAIN globals \subseteq DOMAIN hs /\ b \notin DOMAIN globals
          /\ \A m \in DOMAIN hs : m # b => m \in DOMAIN globals /\ hs[m] = globals[m]
      BY <1>1, <3>2 DEF Longer
    <3> HIDE DEF gs, n
    <3> QED
      BY <3>1, <3>2, <3>3, <3>4, <3>6, <3>7
  <2>2. CASE room # {}
    <3>1. room \in SUBSET (0 .. Len(globals))
      BY <1>1
    <3>2. Max(room) \in room
      <4> HIDE DEF room
      <4> QED
        BY <1>1, <2>2, <3>1, MaxIs
    <3>3. gs = globals /\ n = Max(room)
      BY <2>2
    <3> QED
      BY <3>2, <3>3
  <2> QED
    BY <2>1, <2>2
<1>3. i \in Free(gs[n])
  <2>1. \A f : Free(f) \in SUBSET Nat
    BY DEF Free, JniAssumption
  <2> HIDE DEF n, gs
  <2> QED
    BY <1>2, <2>1, MinIs
<1>4. made.globals = [gs EXCEPT ![n] = Taken(@, i, o)] /\ made.ref = Ref("global", n, i, o)
  BY DEF NewGlobal
<1> HIDE DEF room, n, gs, i
<1>5. Takes(gs, made.globals, n, i, o)
  BY <1>4 DEF Takes
<1>6. /\ Extends(gs, made.globals) /\ Ref("global", n, i, o) \in References \ S
      /\ Holds("global", made.globals, S \cup {Ref("global", n, i, o)})
  BY <1>2, <1>3, <1>5, TakeHolds
<1>7. Ref("global", n, i, o).at[1] = "global" /\ Ref("global", n, i, o).at[2] = n
  BY DEF Ref
<1>8. OnlyAt(globals, made.globals, n)
  <2>1. \A m \in DOMAIN gs : gs[m] \in FrameType
    BY <1>2
  <2>2. i \in Slots
    BY <1>3 DEF Free, Slots
  <2>3. /\ Taken(gs[n], i, o).used = gs[n].used \cup {i}
        /\ \A j \in Slots : Taken(gs[n], i, o).refs[j] = IF j = i THEN o ELSE gs[n].refs[j]
    BY <1>2, <2>1, <2>2, TakenIs
  <2>4. DOMAIN made.globals = DOMAIN gs /\ made.globals[n] = Taken(gs[n], i, o)
        /\ \A m \in DOMAIN gs : m # n => made.globals[m] = gs[m]
    BY <1>2, <1>4
  <2>5. gs[n].used \subseteq Slots
    BY <1>2, <2>1, SlotsAre
  <2>6. (n \in DOMAIN globals => \A j \in globals[n].used : globals[n].refs[j] \in Objects)
          => \A j \in made.globals[n].used : made.globals[n].refs[j] \in Objects
    BY <1>2, <2>2, <2>3, <2>4, <2>5
  <2> QED
    BY <1>2, <2>4, <2>6 DEF OnlyAt
<1> QED
  BY <1>4, <1>6, <1>7, <1>8 DEF Extends

\* Global references change, local ones do not.
LEMMA GlobalsChange ==
  ASSUME Handles, UNCHANGED <<frames, own>>, NEW R, refs' = R, InFrames', ~raced' => GlobalHandles',
         R \subseteq References, Locals(R) = Locals(refs)
  PROVE  Handles'
<1>1. Holds("local", frames', Locals(refs') \cup own') /\ AllFull(frames')
  BY DEF Handles
<1>2. \A r \in own : r.at[1] = "local"
  BY WhoseAre
<1>3. R \cap own = {}
  <2>1. SUFFICES ASSUME NEW r \in R \cap own PROVE FALSE
    OBVIOUS
  <2>2. r \in Locals(R)
    BY <1>2 DEF Locals
  <2>3. r \in refs
    BY <2>2 DEF Locals
  <2> QED
    BY <2>3 DEF Handles
<1> QED
  BY <1>1, <1>3 DEF Handles

\* One global reference more, or less.
LEMMA GlobalRefsAre ==
  ASSUME NEW q, q.at[1] = "global", NEW S
  PROVE  /\ Globals(S \cup {q}) = Globals(S) \cup {q} /\ Locals(S \cup {q}) = Locals(S)
         /\ Locals(S \ {q}) = Locals(S) /\ Globals(S \ {q}) = Globals(S) \ {q}
<1>1. "local" # "global"
  OBVIOUS
<1> QED
  BY <1>1 DEF Globals, Locals

\* Native code makes a global reference: in another frame, if the word is to be right.
LEMMA NewGlobalRefKeeps ==
  ASSUME JniAssumption, LocalRules, IInv, NewGlobalRef PROVE IInv'
<1>1. JniTypeOK /\ Handles /\ Stacked /\ Runs /\ code = <<>> /\ ~raced
  BY DEF IInv, NewGlobalRef, Calling
<1>2. UNCHANGED <<frames, scopes, code, temps, own, theirs, update>>
  BY DEF NewGlobalRef
<1>3. globals \in Seq(FrameType) /\ IsFiniteSet(refs)
  BY <1>1 DEF JniTypeOK
<1>4. GlobalHandles /\ InFrames /\ refs \subseteq References
  BY <1>1 DEF Handles
<1>5. PICK o \in Held :
        \/ /\ globals' = NewGlobal(o).globals /\ refs' = refs \cup {NewGlobal(o).ref} /\ exc' = exc
           /\ raced' = (raced \/ Races(NewGlobal(o).ref.at[2]))
        \/ exc' = "OutOfMemory" /\ globals' = globals /\ refs' = refs /\ raced' = raced
  BY DEF NewGlobalRef
<1>6. o \in Objects
  BY <1>1, HeldAre
<1>7. exc' \in Posted \cup {NoExc} /\ raced' \in BOOLEAN
  BY <1>1, <1>5 DEF JniTypeOK, Posted
<1>8. Runs'
  BY <1>1, <1>2, RunsStay
<1>9. Stacked'
  BY <1>1, <1>2 DEF Stacked, First
<1>10. CASE globals' = globals /\ refs' = refs /\ raced' = raced
  <2>1. Handles' /\ JniTypeOK'
    BY <1>1, <1>2, <1>7, <1>10 DEF Handles, GlobalHandles, InFrames, Slot, UpdateHolds, JniTypeOK
  <2> QED
    BY <1>8, <1>9, <2>1 DEF IInv
<1>11. CASE /\ globals' = NewGlobal(o).globals /\ refs' = refs \cup {NewGlobal(o).ref}
            /\ raced' = (raced \/ Races(NewGlobal(o).ref.at[2]))
  <2> PICK made : made = NewGlobal(o)
    OBVIOUS
  <2> PICK S : S = Globals(refs) \cup theirs
    OBVIOUS
  <2> PICK q : q = made.ref
    OBVIOUS
  <2> PICK R : R = refs \cup {q}
    OBVIOUS
  <2>1. Holds("global", globals, S) /\ WordHolds(globals, update) /\ refs \cap theirs = {}
    BY <1>4, WordIs DEF GlobalHandles
  <2>2. /\ made.globals \in Seq(FrameType) /\ Holds("global", made.globals, S \cup {q})
        /\ OnlyAt(globals, made.globals, q.at[2]) /\ q \in References \ S /\ q.at[1] = "global"
    BY <1>3, <1>6, <2>1, NewGlobalIs
  <2>3. Globals(R) = Globals(refs) \cup {q} /\ Locals(R) = Locals(refs)
    BY <2>2, GlobalRefsAre
  <2>4. Globals(R) \cup theirs = S \cup {q}
    BY <2>3
  <2>5. R \subseteq References /\ R \cap theirs = {}
    BY <1>4, <2>1, <2>2
  <2>6. globals' = made.globals /\ refs' = R /\ theirs' = theirs /\ update' = update
    BY <1>2, <1>11
  <2>7. InFrames'
    <3>1. \A r \in Globals(R) \cup theirs :
            r \in References /\ r.at[1] = "global" /\ r.at[2] \in DOMAIN globals' /\ r.at[3] \in 1 .. RefsPerFrame
      BY <2>2, <2>4, <2>6, HoldsSlots
    <3>2. DOMAIN globals \subseteq DOMAIN globals'
      BY <2>2, <2>6 DEF OnlyAt
    <3>3. update # <<>> => update[1].n \in DOMAIN globals /\ update[1].used \subseteq 1 .. RefsPerFrame
      BY <1>4 DEF InFrames
    <3> QED
      BY <2>6, <3>1, <3>2, <3>3 DEF InFrames, Slot
  <2>8. ASSUME ~raced' PROVE GlobalHandles'
    <3>1. update = <<>> \/ update[1].n # q.at[2]
      BY <1>11, <2>8 DEF Races
    <3>2. WordHolds(made.globals, update)
      BY <2>1, <2>2, <3>1, WordStays
    <3>3. UpdateHolds'
      BY <2>6, <3>2, WordIs
    <3> QED
      BY <2>2, <2>4, <2>5, <2>6, <3>3 DEF GlobalHandles
  <2>9. Handles'
    BY <1>1, <1>2, <2>3, <2>5, <2>6, <2>7, <2>8, GlobalsChange
  <2>10. IsFiniteSet(refs')
    BY <1>3, <2>6, FS_AddElement
  <2>11. JniTypeOK'
    BY <1>1, <1>2, <1>7, <2>2, <2>6, <2>10 DEF JniTypeOK
  <2> QED
    BY <1>8, <1>9, <2>9, <2>11 DEF IInv
<1> QED
  BY <1>5, <1>10, <1>11

\* It deletes one.
LEMMA DeleteGlobalRefKeeps ==
  ASSUME JniAssumption, LocalRules, IInv, DeleteGlobalRef PROVE IInv'
<1>1. JniTypeOK /\ Handles /\ Stacked /\ Runs /\ code = <<>>
  BY DEF IInv, DeleteGlobalRef
<1>2. UNCHANGED <<frames, exc, scopes, code, temps, own, theirs, update>>
  BY DEF DeleteGlobalRef
<1>3. globals \in Seq(FrameType) /\ IsFiniteSet(refs)
  BY <1>1 DEF JniTypeOK
<1>4. PICK r \in Globals(refs) :
        globals' = FreeRef(globals, r) /\ refs' = refs \ {r} /\ raced' = (raced \/ Races(r.at[2]))
  <2>1. Globals(Has) \subseteq Globals(refs)
    BY DEF Globals, Has
  <2> QED
    BY <2>1 DEF DeleteGlobalRef
<1> PICK S : S = Globals(refs) \cup theirs
  OBVIOUS
<1> PICK R : R = refs \ {r}
  OBVIOUS
<1>5. InFrames /\ refs \subseteq References
  BY <1>1 DEF Handles
<1>6. r \in S /\ r \in refs /\ r.at[1] = "global"
  BY DEF Globals
<1>7. r.at[2] \in DOMAIN globals /\ r.at[3] \in 1 .. RefsPerFrame
  BY <1>5, <1>6 DEF InFrames, Slot
<1>8. /\ FreeRef(globals, r) \in Seq(FrameType) /\ DOMAIN FreeRef(globals, r) = DOMAIN globals
      /\ OnlyAt(globals, FreeRef(globals, r), r.at[2])
  BY <1>3, <1>7, FreeOnly
<1>9. Globals(R) = Globals(refs) \ {r} /\ Locals(R) = Locals(refs)
  BY <1>6, GlobalRefsAre
<1>10. globals' = FreeRef(globals, r) /\ refs' = R /\ theirs' = theirs /\ update' = update /\ R \subseteq References
  BY <1>2, <1>4, <1>5
<1>11. InFrames'
  BY <1>5, <1>8, <1>9, <1>10 DEF InFrames, Slot
<1>12. ASSUME ~raced' PROVE GlobalHandles'
  <2>1. ~raced /\ (update = <<>> \/ update[1].n # r.at[2])
    BY <1>4, <1>12 DEF Races
  <2>2. Holds("global", globals, S) /\ WordHolds(globals, update) /\ refs \cap theirs = {}
    BY <1>1, <2>1, WordIs DEF Handles, GlobalHandles
  <2>3. Holds("global", FreeRef(globals, r), S \ {r})
    BY <1>3, <1>6, <2>2, FreeHolds
  <2>4. WordHolds(FreeRef(globals, r), update)
    BY <1>8, <2>1, <2>2, WordStays
  <2>5. UpdateHolds'
    BY <1>10, <2>4, WordIs
  <2>6. Globals(R) \cup theirs = S \ {r} /\ R \cap theirs = {}
    BY <1>6, <1>9, <2>2
  <2> QED
    BY <1>10, <2>3, <2>5, <2>6 DEF GlobalHandles
<1>13. Handles'
  BY <1>1, <1>2, <1>9, <1>10, <1>11, <1>12, GlobalsChange
<1>14. Runs'
  BY <1>1, <1>2, RunsStay
<1>15. Stacked'
  BY <1>1, <1>2 DEF Stacked, First
<1>16. IsFiniteSet(refs')
  BY <1>3, <1>4, FS_Difference
<1>17. raced' \in BOOLEAN
  BY <1>1, <1>4 DEF JniTypeOK, Races
<1>18. JniTypeOK'
  BY <1>1, <1>2, <1>8, <1>10, <1>16, <1>17 DEF JniTypeOK
<1> QED
  BY <1>13, <1>14, <1>15, <1>18 DEF IInv

\* Another thread makes one.
LEMMA OtherNewGlobalRefKeeps ==
  ASSUME JniAssumption, LocalRules, IInv, OtherNewGlobalRef PROVE IInv'
<1>1. JniTypeOK /\ Handles /\ Stacked /\ Runs /\ ~raced
  BY DEF IInv, OtherNewGlobalRef
<1>2. UNCHANGED <<frames, exc, refs, scopes, code, temps, own, update, raced>> /\ update = <<>>
  BY DEF OtherNewGlobalRef
<1>3. globals \in Seq(FrameType) /\ IsFiniteSet(theirs)
  BY <1>1 DEF JniTypeOK
<1>4. PICK o \in Objects : globals' = NewGlobal(o).globals /\ theirs' = theirs \cup {NewGlobal(o).ref}
  BY DEF OtherNewGlobalRef
<1> PICK made : made = NewGlobal(o)
  OBVIOUS
<1> PICK S : S = Globals(refs) \cup theirs
  OBVIOUS
<1> PICK q : q = made.ref
  OBVIOUS
<1> PICK T : T = theirs \cup {q}
  OBVIOUS
<1>5. Holds("global", globals, S) /\ WordHolds(globals, update) /\ refs \subseteq References /\ refs \cap theirs = {}
  BY <1>1, WordIs DEF Handles, GlobalHandles
<1>6. /\ made.globals \in Seq(FrameType) /\ Holds("global", made.globals, S \cup {q})
      /\ OnlyAt(globals, made.globals, q.at[2]) /\ q \in References \ S /\ q.at[1] = "global"
  BY <1>3, <1>5, NewGlobalIs
<1>7. Globals(refs) \cup T = S \cup {q}
  OBVIOUS
<1>8. q \notin refs
  BY <1>6 DEF Globals
<1>9. refs \cap T = {}
  BY <1>5, <1>8
<1>10. globals' = made.globals /\ theirs' = T /\ refs' = refs /\ update' = <<>> /\ update' = update
  BY <1>2, <1>4
<1>11. InFrames'
  <2>1. \A r \in Globals(refs) \cup T :
          r \in References /\ r.at[1] = "global" /\ r.at[2] \in DOMAIN globals' /\ r.at[3] \in 1 .. RefsPerFrame
    BY <1>6, <1>7, <1>10, HoldsSlots
  <2> QED
    BY <1>10, <2>1 DEF InFrames, Slot
<1>12. GlobalHandles'
  <2>1. WordHolds(made.globals, update)
    BY <1>2, <1>5, <1>6, WordStays
  <2>2. UpdateHolds'
    BY <1>10, <2>1, WordIs
  <2> QED
    BY <1>6, <1>7, <1>9, <1>10, <2>2 DEF GlobalHandles
<1>13. Handles'
  BY <1>1, <1>2, <1>5, <1>10, <1>11, <1>12, GlobalsChange
<1>14. Runs'
  <2>1. ASSUME NEW c, NEW k, RunsAt(c, k) PROVE RunsAt(c, k)'
    BY <1>2, <2>1 DEF RunsAt
  <2> QED
    BY <1>1, <1>2, <2>1 DEF Runs
<1>15. Stacked'
  BY <1>1, <1>2 DEF Stacked, First
<1>16. IsFiniteSet(theirs')
  BY <1>3, <1>10, FS_AddElement
<1>17. JniTypeOK'
  BY <1>1, <1>2, <1>6, <1>10, <1>16 DEF JniTypeOK
<1> QED
  BY <1>13, <1>14, <1>15, <1>17 DEF IInv

\* The other thread empties a slot.
EmptiedAt(gs, S, r, n, i) ==
  /\ gs \in Seq(FrameType) /\ DOMAIN gs = DOMAIN globals /\ n \in DOMAIN globals /\ i \in globals[n].used
  /\ Holds("global", gs, S \ {r})
  /\ \A m \in DOMAIN globals : gs[m].used = globals[m].used
  /\ gs[n].refs[i] = NoRef
  /\ \A m \in DOMAIN globals : \A j \in globals[m].used : gs[m].refs[j] \in Objects \/ (m = n /\ j = i)

\* That is so when another thread has emptied the slot and not yet written the flags.
LEMMA Emptied ==
  ASSUME JniAssumption, globals \in Seq(FrameType), NEW S, Holds("global", globals, S), AllFull(globals),
         NEW r \in S, NEW n, n = r.at[2], NEW i, i = r.at[3], NEW gs, gs = [globals EXCEPT ![n].refs[i] = NoRef]
  PROVE  EmptiedAt(gs, S, r, n, i)
<1>1. r \in References /\ r.at[1] = "global" /\ IsIn(r, globals)
  BY DEF Holds
<1>2. n \in DOMAIN globals /\ i \in globals[n].used /\ globals[n].refs[i] = r.obj
  BY <1>1 DEF IsIn
<1>3. DOMAIN globals = 1 .. Len(globals) /\ \A m \in DOMAIN globals : globals[m] \in FrameType
  OBVIOUS
<1>4. i \in Slots
  BY <1>2, <1>3, SlotsAre
<1> PICK f : f = [globals[n] EXCEPT !.refs = [globals[n].refs EXCEPT ![i] = NoRef]]
  OBVIOUS
<1>5. /\ f \in FrameType /\ f.used = globals[n].used /\ f.extension = globals[n].extension
      /\ \A j \in Slots : f.refs[j] = IF j = i THEN NoRef ELSE globals[n].refs[j]
  <2>1. globals[n] \in FrameType
    BY <1>2, <1>3
  <2> QED
    BY <1>4, <2>1 DEF FrameType, Slots
<1>6. gs = [globals EXCEPT ![n] = f]
  OBVIOUS
<1>7. /\ gs \in Seq(FrameType) /\ Len(gs) = Len(globals)
      /\ \A m \in 1 .. Len(globals) : gs[m] = IF m = n THEN f ELSE globals[m]
  BY <1>2, <1>3, <1>5, <1>6, ExceptSeq
<1>8. DOMAIN gs = DOMAIN globals
  BY <1>3, <1>7
<1>9. ASSUME NEW m \in DOMAIN globals
      PROVE  /\ gs[m].used = globals[m].used
             /\ \A j \in Slots : gs[m].refs[j] = IF m = n /\ j = i THEN NoRef ELSE globals[m].refs[j]
  BY <1>3, <1>5, <1>7
<1>10. \A m \in DOMAIN globals : globals[m].used \subseteq Slots
  BY <1>3, SlotsAre
<1>11. \A m \in DOMAIN globals : \A j \in globals[m].used : gs[m].refs[j] \in Objects \/ (m = n /\ j = i)
  BY <1>9, <1>10 DEF AllFull
<1>12. Holds("global", gs, S \ {r})
  <2>1. ASSUME NEW q \in S \ {r} PROVE q \in References /\ q.at[1] = "global" /\ IsIn(q, gs)
    <3>1. q \in References /\ q.at[1] = "global" /\ IsIn(q, globals)
      BY DEF Holds
    <3>2. /\ q.at[2] \in DOMAIN globals /\ q.at[3] \in globals[q.at[2]].used
          /\ globals[q.at[2]].refs[q.at[3]] = q.obj
      BY <3>1 DEF IsIn
    <3>3. ~(q.at[2] = n /\ q.at[3] = i)
      <4>1. SUFFICES ASSUME q.at[2] = n, q.at[3] = i PROVE FALSE
        OBVIOUS
      <4>2. q.obj = r.obj
        BY <1>2, <3>2, <4>1
      <4>3. q = Ref("global", n, i, r.obj)
        BY <3>1, <4>1, <4>2, RefOf
      <4>4. r = Ref("global", n, i, r.obj)
        BY <1>1, RefOf
      <4> QED
        BY <4>3, <4>4
    <3>4. q.at[3] \in Slots
      BY <1>10, <3>2
    <3> QED
      BY <1>8, <1>9, <3>1, <3>2, <3>3, <3>4 DEF IsIn
  <2>2. ASSUME NEW m \in DOMAIN gs, NEW j \in gs[m].used, gs[m].refs[j] \in Objects
        PROVE  Ref("global", m, j, gs[m].refs[j]) \in S \ {r}
    <3>1. m \in DOMAIN globals /\ j \in globals[m].used /\ j \in Slots
      BY <1>8, <1>9, <1>10
    <3>2. ~(m = n /\ j = i)
      BY <1>9, <2>2, <3>1, NoRefIsNone
    <3>3. gs[m].refs[j] = globals[m].refs[j]
      BY <1>9, <3>1, <3>2
    <3> PICK o \in Objects : o = gs[m].refs[j]
      BY <2>2
    <3>4. Ref("global", m, j, o) \in S
      BY <3>1, <3>3 DEF Holds
    <3>5. Ref("global", m, j, o).at[2] = m /\ Ref("global", m, j, o).at[3] = j
      BY DEF Ref
    <3>6. Ref("global", m, j, o) # r
      BY <3>2, <3>5
    <3> QED
      BY <3>4, <3>6
  <2> QED
    BY <2>1, <2>2 DEF Holds
<1>13. gs[n].refs[i] = NoRef
  <2>1. gs[n] = f
    BY <1>2, <1>3, <1>7
  <2>2. f.refs[i] = NoRef
    BY <1>4, <1>5
  <2> QED
    BY <2>1, <2>2
<1> QED
  BY <1>2, <1>7, <1>8, <1>9, <1>11, <1>12, <1>13 DEF EmptiedAt

\* The frames have their types with a slot emptied.
LEMMA EmptiedType ==
  ASSUME JniAssumption, globals \in Seq(FrameType), NEW n \in DOMAIN globals, NEW i \in 1 .. RefsPerFrame,
         NEW gs, gs = [globals EXCEPT ![n].refs[i] = NoRef]
  PROVE  gs \in Seq(FrameType) /\ DOMAIN gs = DOMAIN globals
<1>1. DOMAIN globals = 1 .. Len(globals) /\ \A m \in DOMAIN globals : globals[m] \in FrameType
  OBVIOUS
<1> PICK f : f = [globals[n] EXCEPT !.refs = [globals[n].refs EXCEPT ![i] = NoRef]]
  OBVIOUS
<1>2. f \in FrameType
  <2>1. globals[n] \in FrameType
    BY <1>1
  <2> QED
    BY <2>1 DEF FrameType
<1>3. gs = [globals EXCEPT ![n] = f]
  OBVIOUS
<1>4. gs \in Seq(FrameType) /\ Len(gs) = Len(globals)
  BY <1>1, <1>2, <1>3, ExceptSeq
<1> QED
  BY <1>1, <1>4

\* Another thread deletes a reference: first the slot,
LEMMA OtherDeleteGlobalRefKeeps ==
  ASSUME JniAssumption, LocalRules, IInv, OtherDeleteGlobalRef PROVE IInv'
<1>1. JniTypeOK /\ Handles /\ Stacked /\ Runs
  BY DEF IInv
<1>2. UNCHANGED <<frames, exc, refs, scopes, code, temps, own, raced>> /\ update = <<>>
  BY DEF OtherDeleteGlobalRef
<1>3. globals \in Seq(FrameType) /\ IsFiniteSet(theirs)
  BY <1>1 DEF JniTypeOK
<1>4. InFrames /\ refs \subseteq References
  BY <1>1 DEF Handles
<1>5. PICK r \in theirs :
        /\ theirs' = theirs \ {r} /\ globals' = [globals EXCEPT ![r.at[2]].refs[r.at[3]] = NoRef]
        /\ update' = <<[n |-> r.at[2], used |-> FreeRef(globals, r)[r.at[2]].used]>>
  BY DEF OtherDeleteGlobalRef
<1> PICK n : n = r.at[2]
  OBVIOUS
<1> PICK i : i = r.at[3]
  OBVIOUS
<1> PICK S : S = Globals(refs) \cup theirs
  OBVIOUS
<1> PICK T : T = theirs \ {r}
  OBVIOUS
<1>6. r \in S /\ n \in DOMAIN globals /\ i \in 1 .. RefsPerFrame
  BY <1>4 DEF InFrames, Slot
<1>7. globals' = [globals EXCEPT ![n].refs[i] = NoRef]
  BY <1>5
<1>8. globals' \in Seq(FrameType) /\ DOMAIN globals' = DOMAIN globals
  BY <1>3, <1>6, <1>7, EmptiedType
<1>9. FreeRef(globals, r)[n].used = globals[n].used \ {i} /\ globals[n].used \subseteq 1 .. RefsPerFrame
  <2>1. DOMAIN globals = 1 .. Len(globals) /\ \A m \in DOMAIN globals : globals[m] \in FrameType
    BY <1>3
  <2>2. i \in Slots
    BY <1>6 DEF Slots
  <2>3. FreeRef(globals, r) = [globals EXCEPT ![n] = Freed(globals[n], i)]
    BY DEF FreeRef
  <2>4. FreeRef(globals, r)[n] = Freed(globals[n], i)
    BY <1>6, <2>3
  <2>5. globals[n].used \subseteq 1 .. RefsPerFrame
    BY <1>6, <2>1, SlotsAre DEF Slots
  <2> QED
    BY <1>6, <2>1, <2>2, <2>4, <2>5, FreedIs
<1>10. update' # <<>> /\ update'[1].n = n /\ update'[1].used = globals[n].used \ {i}
  BY <1>5, <1>9
<1>11. theirs' = T /\ refs' = refs
  BY <1>2, <1>5
<1>12. InFrames'
  <2>1. \A q \in Globals(refs) \cup T : q \in References /\ q.at[1] = "global" /\ Slot(q.at[2], q.at[3])
    BY <1>4 DEF InFrames
  <2>2. \A q \in Globals(refs) \cup T : Slot(q.at[2], q.at[3])'
    BY <1>8, <2>1 DEF Slot
  <2>3. update'[1].n \in DOMAIN globals' /\ update'[1].used \subseteq 1 .. RefsPerFrame
    BY <1>6, <1>8, <1>9, <1>10
  <2> QED
    BY <1>11, <2>1, <2>2, <2>3 DEF InFrames
<1>13. ASSUME ~raced' PROVE GlobalHandles'
  <2>1. Holds("global", globals, S) /\ AllFull(globals) /\ refs \cap theirs = {}
    BY <1>1, <1>2, <1>13 DEF Handles, GlobalHandles, UpdateHolds
  <2>2. /\ i \in globals[n].used /\ Holds("global", globals', S \ {r})
        /\ \A m \in DOMAIN globals : globals'[m].used = globals[m].used
        /\ globals'[n].refs[i] = NoRef
        /\ \A m \in DOMAIN globals : \A j \in globals[m].used : globals'[m].refs[j] \in Objects \/ (m = n /\ j = i)
    <3>1. EmptiedAt(globals', S, r, n, i)
      BY <1>3, <1>6, <1>7, <2>1, Emptied
    <3> QED
      BY <3>1 DEF EmptiedAt
  <2>3. UpdateHolds'
    <3>1. \A m \in DOMAIN globals' : \A j \in globals'[m].used :
            globals'[m].refs[j] \in Objects \/ (m = n /\ j \notin update'[1].used)
      BY <1>8, <1>10, <2>2
    <3>2. update'[1].used \subseteq globals'[n].used
      BY <1>6, <1>10, <2>2
    <3>3. \A j \in globals'[n].used \ update'[1].used : globals'[n].refs[j] = NoRef
      BY <1>6, <1>10, <2>2
    <3>4. n \in DOMAIN globals'
      BY <1>6, <1>8
    <3> QED
      BY <1>10, <3>1, <3>2, <3>3, <3>4 DEF UpdateHolds
  <2>4. r \notin refs
    BY <2>1
  <2>5. Globals(refs) \cup T = S \ {r} /\ refs \cap T = {}
    BY <2>1, <2>4 DEF Globals
  <2> QED
    BY <1>11, <2>2, <2>3, <2>5 DEF GlobalHandles
<1>14. Handles'
  BY <1>1, <1>2, <1>4, <1>11, <1>12, <1>13, GlobalsChange
<1>15. Runs'
  <2>1. ASSUME NEW c, NEW k, RunsAt(c, k) PROVE RunsAt(c, k)'
    BY <1>2, <2>1 DEF RunsAt
  <2> QED
    BY <1>1, <1>2, <2>1 DEF Runs
<1>16. Stacked'
  BY <1>1, <1>2 DEF Stacked, First
<1>17. IsFiniteSet(theirs')
  BY <1>3, <1>5, FS_Difference
<1>18. JniTypeOK'
  BY <1>1, <1>2, <1>8, <1>17 DEF JniTypeOK
<1> QED
  BY <1>14, <1>15, <1>16, <1>18 DEF IInv

\* then, in a step of its own, the flags, none of which another processor has changed.
LEMMA OtherWritesFlagsKeeps ==
  ASSUME JniAssumption, LocalRules, IInv, OtherWritesFlags PROVE IInv'
<1>1. JniTypeOK /\ Handles /\ Stacked /\ Runs
  BY DEF IInv
<1>2. UNCHANGED <<frames, exc, refs, scopes, code, temps, own, theirs, raced>> /\ update # <<>> /\ update' = <<>>
  BY DEF OtherWritesFlags
<1>3. globals \in Seq(FrameType)
  BY <1>1 DEF JniTypeOK
<1> PICK n : n = update[1].n
  OBVIOUS
<1> PICK U : U = update[1].used
  OBVIOUS
<1> PICK gs : gs = [globals EXCEPT ![n].used = U]
  OBVIOUS
<1>4. globals' = gs
  BY DEF OtherWritesFlags
<1>5. n \in DOMAIN globals /\ U \subseteq 1 .. RefsPerFrame /\ InFrames /\ refs \subseteq References
  BY <1>1, <1>2 DEF Handles, InFrames
<1>6. DOMAIN globals = 1 .. Len(globals) /\ \A m \in DOMAIN globals : globals[m] \in FrameType
  BY <1>3
<1> PICK f : f = [globals[n] EXCEPT !.used = U]
  OBVIOUS
<1>7. f \in FrameType /\ f.used = U /\ f.refs = globals[n].refs
  <2>1. globals[n] \in FrameType
    BY <1>5, <1>6
  <2> QED
    BY <1>5, <2>1 DEF FrameType
<1>8. gs = [globals EXCEPT ![n] = f]
  OBVIOUS
<1>9. /\ gs \in Seq(FrameType) /\ Len(gs) = Len(globals)
      /\ \A m \in 1 .. Len(globals) : gs[m] = IF m = n THEN f ELSE globals[m]
  BY <1>3, <1>5, <1>6, <1>7, <1>8, ExceptSeq
<1>10. DOMAIN gs = DOMAIN globals
  BY <1>6, <1>9
<1>11. ASSUME NEW m \in DOMAIN globals
       PROVE  gs[m].refs = globals[m].refs /\ gs[m].used = IF m = n THEN U ELSE globals[m].used
  BY <1>6, <1>7, <1>9
<1> PICK S : S = Globals(refs) \cup theirs
  OBVIOUS
<1>12. InFrames'
  BY <1>2, <1>4, <1>5, <1>10 DEF InFrames, Slot
<1>13. ASSUME ~raced' PROVE GlobalHandles'
  <2>1. /\ \A m \in DOMAIN globals : \A i \in globals[m].used : globals[m].refs[i] \in Objects \/ (m = n /\ i \notin U)
        /\ U \subseteq globals[n].used
        /\ \A i \in globals[n].used \ U : globals[n].refs[i] = NoRef
    BY <1>1, <1>2, <1>13 DEF Handles, GlobalHandles, UpdateHolds
  <2>2. Holds("global", globals, S) /\ refs \cap theirs = {}
    BY <1>1, <1>2, <1>13 DEF Handles, GlobalHandles
  <2>3. AllFull(gs)
    <3>1. ASSUME NEW m \in DOMAIN gs, NEW i \in gs[m].used PROVE gs[m].refs[i] \in Objects
      <4>1. m \in DOMAIN globals
        BY <1>10
      <4>2. i \in globals[m].used /\ (m = n => i \in U)
        BY <1>11, <2>1, <4>1
      <4> QED
        BY <1>11, <2>1, <4>1, <4>2
    <3> QED
      BY <3>1 DEF AllFull
  <2>4. Holds("global", gs, S)
    <3>1. ASSUME NEW q \in S PROVE q \in References /\ q.at[1] = "global" /\ IsIn(q, gs)
      <4>1. q \in References /\ q.at[1] = "global" /\ IsIn(q, globals)
        BY <2>2 DEF Holds
      <4> PICK m : m = q.at[2]
        OBVIOUS
      <4> PICK i : i = q.at[3]
        OBVIOUS
      <4>2. m \in DOMAIN globals /\ i \in globals[m].used /\ globals[m].refs[i] = q.obj
        BY <4>1 DEF IsIn
      <4>3. q.obj # NoRef
        BY <4>1, RefOf, NoRefIsNone
      <4>4. m = n => i \in U
        BY <2>1, <4>2, <4>3
      <4>5. m \in DOMAIN gs /\ i \in gs[m].used /\ gs[m].refs[i] = q.obj
        BY <1>10, <1>11, <4>2, <4>4
      <4> QED
        BY <4>1, <4>5 DEF IsIn
    <3>2. ASSUME NEW m \in DOMAIN gs, NEW i \in gs[m].used, gs[m].refs[i] \in Objects
          PROVE  Ref("global", m, i, gs[m].refs[i]) \in S
      <4>1. m \in DOMAIN globals
        BY <1>10
      <4>2. i \in globals[m].used /\ gs[m].refs = globals[m].refs
        BY <1>11, <2>1, <4>1
      <4> QED
        BY <2>2, <3>2, <4>1, <4>2 DEF Holds
    <3> QED
      BY <3>1, <3>2 DEF Holds
  <2>5. UpdateHolds'
    BY <1>2, <1>4, <2>3 DEF UpdateHolds
  <2> QED
    BY <1>2, <1>4, <2>2, <2>4, <2>5 DEF GlobalHandles
<1>14. Handles'
  BY <1>1, <1>2, <1>5, <1>12, <1>13, GlobalsChange
<1>15. Runs'
  <2>1. ASSUME NEW c, NEW k, RunsAt(c, k) PROVE RunsAt(c, k)'
    BY <1>2, <2>1 DEF RunsAt
  <2> QED
    BY <1>1, <1>2, <2>1 DEF Runs
<1>16. Stacked'
  BY <1>1, <1>2 DEF Stacked, First
<1>17. JniTypeOK'
  BY <1>1, <1>2, <1>4, <1>9 DEF JniTypeOK
<1> QED
  BY <1>14, <1>15, <1>16, <1>17 DEF IInv

-----------------------------------------------------------------------------
(* The inductive invariant *)

\* Native code begins in a native method that has a reference to an object.
LEMMA InitIInv == ASSUME JniAssumption PROVE Init => IInv
<1> SUFFICES ASSUME Init PROVE IInv
  OBVIOUS
<1> PICK o \in Objects : o = CHOOSE x \in Objects : x # Result
  <2>1. \E x \in Objects : x # Result
    BY DEF JniAssumption
  <2> QED
    BY <2>1
<1> PICK e : e = Entered(<<>>, <<o>>)
  OBVIOUS
<1>1. /\ frames = e.frames /\ refs = e.refs
      /\ globals = <<>> /\ exc = NoExc /\ scopes = <<Scope(1, TRUE)>>
      /\ code = <<>> /\ temps = [v \in Variables |-> NoRef] /\ own = {}
      /\ theirs = {} /\ update = <<>> /\ raced = FALSE
  BY DEF Init
<1>2. <<>> \in Seq(FrameType) /\ Len(<<>>) + 1 = 1
  OBVIOUS
<1>3. \A list : Holds(list, <<>>, {})
  BY DEF Holds
<1>4. AllFull(<<>>)
  BY DEF AllFull
<1>5. Enters(<<>>, e.frames, Len(<<>>) + 1, {}, e.refs)
  BY <1>2, <1>3, <1>4, EntersOne
<1>6. Enters(<<>>, frames, 1, {}, refs)
  BY <1>1, <1>2, <1>5
<1>7. /\ frames \in Seq(FrameType) /\ 1 \in 1 .. Len(frames)
      /\ \A n \in 1 .. Len(frames) : n >= 1 => (frames[n].extension <=> n > 1)
      /\ Holds("local", frames, {} \cup refs) /\ AllFull(frames)
      /\ refs \subseteq References /\ IsFiniteSet(refs) /\ \A r \in refs : r.at[1] = "local"
  BY <1>6 DEF Enters
<1>8. Locals(refs) \cup own = {} \cup refs /\ Globals(refs) \cup theirs = {}
  BY <1>1, <1>7 DEF Locals, Globals
<1>9. Handles
  <2>1. Holds("local", frames, Locals(refs) \cup own)
    BY <1>7, <1>8
  <2>2. Holds("global", globals, Globals(refs) \cup theirs)
    BY <1>1, <1>3, <1>8
  <2>3. UpdateHolds
    BY <1>1, <1>4 DEF UpdateHolds
  <2>4. GlobalHandles
    BY <1>1, <2>2, <2>3 DEF GlobalHandles
  <2>5. InFrames
    BY <1>1, <1>8 DEF InFrames
  <2> QED
    BY <1>1, <1>7, <2>1, <2>4, <2>5 DEF Handles
<1>10. Stacked
  <2> PICK s : s = Scope(1, TRUE)
    OBVIOUS
  <2>1. scopes = <<s>> /\ s.base = 1
    BY <1>1 DEF Scope
  <2>2. DOMAIN scopes = {1} /\ scopes[1] = s /\ scopes # <<>>
    BY <2>1
  <2>3. ~(1 > 1)
    OBVIOUS
  <2>4. First(1) = 1
    BY <2>1, <2>2, <2>3 DEF First
  <2>5. DOMAIN frames = 1 .. Len(frames)
    BY <1>7
  <2>6. \A n \in DOMAIN frames : ~frames[n].extension <=> n = 1
    <3>1. \A n \in DOMAIN frames : n \in Nat /\ n >= 1
      BY <2>5
    <3>2. \A n \in DOMAIN frames : n > 1 <=> n # 1
      BY <3>1
    <3> QED
      BY <1>7, <2>5, <3>1, <3>2
  <2>7. \A k \in DOMAIN scopes : scopes[k].base = 1 /\ First(k) = 1
    BY <2>1, <2>2, <2>4
  <2>8. \A n \in DOMAIN frames : ~frames[n].extension <=> \E k \in DOMAIN scopes : n \in {scopes[k].base, First(k)}
    BY <2>2, <2>6, <2>7
  <2>9. \A j, k \in DOMAIN scopes : ~(j < k)
    BY <2>2
  <2> QED
    BY <1>7, <2>2, <2>5, <2>7, <2>8, <2>9 DEF Stacked
<1>11. Runs
  BY <1>1 DEF Runs
<1>12. JniTypeOK
  <2>1. Scope(1, TRUE) \in [base : Nat, method : BOOLEAN]
    BY DEF Scope
  <2>2. scopes \in Seq([base : Nat, method : BOOLEAN])
    <3>1. \A T, s : s \in T => <<s>> \in Seq(T)
      OBVIOUS
    <3> QED
      BY <1>1, <2>1, <3>1
  <2>3. globals \in Seq(FrameType)
    BY <1>1
  <2>4. temps \in [Variables -> References \cup {NoRef}]
    BY <1>1
  <2>5. IsFiniteSet(own) /\ IsFiniteSet(theirs)
    BY <1>1, FS_EmptySet
  <2> QED
    BY <1>1, <1>7, <2>2, <2>3, <2>4, <2>5 DEF JniTypeOK
<1> QED
  BY <1>9, <1>10, <1>11, <1>12 DEF IInv

\* Every step keeps it.
LEMMA NextIInv == ASSUME JniAssumption, LocalRules PROVE IInv /\ [Next]_jnivars => IInv'
<1>1. ASSUME IInv, Next PROVE IInv'
  <2>1. CASE CallPrimitive
    BY <1>1, <2>1, CallPrimitiveKeeps
  <2>2. CASE CallComposite
    BY <1>1, <2>2, CallCompositeKeeps
  <2>3. CASE CompositeCall
    BY <1>1, <2>3, CompositeCallKeeps
  <2>4. CASE CompositeDelete
    BY <1>1, <2>4, CompositeDeleteKeeps
  <2>5. CASE CompositeCheck
    BY <1>1, <2>5, CompositeCheckKeeps
  <2>6. CASE CompositeReturn
    BY <1>1, <2>6, CompositeReturnKeeps
  <2>7. CASE NewLocalRef
    BY <1>1, <2>7, NewLocalRefKeeps
  <2>8. CASE DeleteLocalRef
    BY <1>1, <2>8, DeleteLocalRefKeeps
  <2>9. CASE NewGlobalRef
    BY <1>1, <2>9, NewGlobalRefKeeps
  <2>10. CASE DeleteGlobalRef
    BY <1>1, <2>10, DeleteGlobalRefKeeps
  <2>11. CASE OtherNewGlobalRef
    BY <1>1, <2>11, OtherNewGlobalRefKeeps
  <2>12. CASE OtherDeleteGlobalRef
    BY <1>1, <2>12, OtherDeleteGlobalRefKeeps
  <2>13. CASE OtherWritesFlags
    BY <1>1, <2>13, OtherWritesFlagsKeeps
  <2>14. CASE EnsureLocalCapacity
    BY <1>1, <2>14, EnsureLocalCapacityKeeps
  <2>15. CASE PushLocalFrame
    BY <1>1, <2>15, PushLocalFrameKeeps
  <2>16. CASE PopLocalFrame
    BY <1>1, <2>16, PopLocalFrameKeeps
  <2>17. CASE EnterNative
    BY <1>1, <2>17, EnterNativeKeeps
  <2>18. CASE LeaveNative
    BY <1>1, <2>18, LeaveNativeKeeps
  <2>19. CASE ExceptionOccurred
    BY <1>1, <2>19, ExceptionOccurredKeeps
  <2>20. CASE ExceptionClear
    BY <1>1, <2>20, ExceptionClearKeeps
  <2> QED
    BY <1>1, <2>1, <2>2, <2>3, <2>4, <2>5, <2>6, <2>7, <2>8, <2>9, <2>10, <2>11, <2>12, <2>13, <2>14,
       <2>15, <2>16, <2>17, <2>18, <2>19, <2>20 DEF Next
<1>2. ASSUME IInv, UNCHANGED jnivars PROVE IInv'
  <2>1. UNCHANGED <<frames, globals, exc, refs, scopes, code, temps, own, theirs, update, raced>>
    BY <1>2 DEF jnivars
  <2>2. Handles' /\ Stacked' /\ JniTypeOK'
    BY <1>2, <2>1 DEF IInv, Handles, GlobalHandles, InFrames, Slot, UpdateHolds, Stacked, First, JniTypeOK
  <2>3. Runs'
    BY <1>2, <2>1, RunsStay DEF IInv
  <2> QED
    BY <2>2, <2>3 DEF IInv
<1> QED
  BY <1>1, <1>2

\* The slots in use are those of the references that are held, scopes begin where native
\* methods and pushed frames do, and a function in progress has what it needs: always.
THEOREM Invariance == ASSUME JniAssumption, LocalRules PROVE Spec => []IInv
<1>1. Init => IInv
  BY InitIInv
<1>2. IInv /\ [Next]_jnivars => IInv'
  BY NextIInv
<1> QED
  BY <1>1, <1>2, PTL DEF Spec

-----------------------------------------------------------------------------
(* What it implies *)

\* The slots in use, but for empty ones, are those of the references in S.
LEMMA UsedIs ==
  ASSUME JniAssumption, NEW list \in {"local", "global"}, NEW fs \in Seq(FrameType), NEW S, Holds(list, fs, S)
  PROVE  {r \in Used(list, fs) : r.obj # NoRef} = S /\ (AllFull(fs) => Used(list, fs) = S)
<1>1. DOMAIN fs = 1 .. Len(fs) /\ \A n \in DOMAIN fs : fs[n] \in FrameType
  OBVIOUS
<1>2. ASSUME NEW r \in S PROVE r \in Used(list, fs) /\ r.obj # NoRef
  <2>1. r \in References /\ r.at[1] = list /\ IsIn(r, fs)
    BY DEF Holds
  <2> PICK n : n = r.at[2]
    OBVIOUS
  <2> PICK i : i = r.at[3]
    OBVIOUS
  <2>2. n \in DOMAIN fs /\ i \in fs[n].used /\ fs[n].refs[i] = r.obj
    BY <2>1 DEF IsIn
  <2>3. r = Ref(list, n, i, fs[n].refs[i]) /\ r.obj # NoRef
    BY <2>1, <2>2, RefOf, NoRefIsNone
  <2> QED
    BY <2>2, <2>3 DEF Used
<1>3. ASSUME NEW r \in Used(list, fs), r.obj # NoRef \/ AllFull(fs) PROVE r \in S
  <2>1. PICK n \in DOMAIN fs, i \in Nat : i \in fs[n].used /\ r = Ref(list, n, i, fs[n].refs[i])
    <3>1. PICK n \in DOMAIN fs : r \in {Ref(list, n, i, fs[n].refs[i]) : i \in fs[n].used}
      BY <1>3 DEF Used
    <3>2. PICK i \in fs[n].used : r = Ref(list, n, i, fs[n].refs[i])
      BY <3>1
    <3>3. i \in Nat
      BY <1>1, SlotsAre DEF Slots
    <3> QED
      BY <3>2, <3>3
  <2>2. fs[n].refs[i] \in Objects \cup {NoRef}
    <3>1. i \in Slots
      BY <1>1, <2>1, SlotsAre
    <3> QED
      BY <1>1, <3>1, SlotsAre
  <2>3. r.obj = fs[n].refs[i]
    BY <2>1 DEF Ref
  <2>4. fs[n].refs[i] \in Objects
    <3>1. CASE AllFull(fs)
      BY <2>1, <3>1 DEF AllFull
    <3>2. CASE r.obj # NoRef
      BY <2>2, <2>3, <3>2
    <3> QED
      BY <1>3, <3>1, <3>2
  <2> QED
    BY <2>1, <2>4 DEF Holds
<1> QED
  BY <1>2, <1>3

\* Two references to slots in use that have the same slot are the same.
LEMMA SlotsDiffer ==
  ASSUME JniAssumption, NEW list \in {"local", "global"}, NEW fs, NEW S, Holds(list, fs, S),
         NEW q \in S, NEW r \in S, q.at = r.at
  PROVE  q = r
<1>1. q \in References /\ IsIn(q, fs) /\ r \in References /\ IsIn(r, fs)
  BY DEF Holds
<1>2. q.obj = r.obj
  BY <1>1 DEF IsIn
<1> QED
  BY <1>1, <1>2, RefOf

\* So sets of such references that have no reference in common have no slot in common.
LEMMA SlotsApart ==
  ASSUME JniAssumption, NEW list \in {"local", "global"}, NEW fs, NEW S, NEW A, NEW B, Holds(list, fs, S),
         \A r \in A : r.at[1] = list => r \in S, \A r \in B : r.at[1] = list /\ r \in S, A \cap B = {}
  PROVE  SlotsOf(A) \cap SlotsOf(B) = {}
<1>1. SUFFICES ASSUME NEW q \in A, NEW r \in B, q.at = r.at PROVE FALSE
  BY DEF SlotsOf
<1>2. r \in S /\ q.at[1] = list
  BY <1>1
<1>3. q \in S
  BY <1>2
<1>4. q = r
  BY <1>1, <1>2, <1>3, SlotsDiffer
<1> QED
  BY <1>4

\* No two references share a slot, and each refers to its object.
LEMMA HandlesByIInv == ASSUME JniAssumption, LocalRules, IInv PROVE SlotsAreHandles
<1>1. JniTypeOK /\ Handles /\ Runs
  BY DEF IInv
<1> PICK S : S = Locals(refs) \cup own
  OBVIOUS
<1>2. Holds("local", frames, S) /\ AllFull(frames) /\ refs \cap own = {}
  BY <1>1 DEF Handles
<1>3. Used("local", frames) = Locals(refs) \cup own
  <2>1. frames \in Seq(FrameType)
    BY <1>1 DEF JniTypeOK
  <2> QED
    BY <1>2, <2>1, UsedIs
<1>4. SlotsOf(refs) \cap SlotsOf(own) = {}
  <2>1. \A r \in refs : r.at[1] = "local" => r \in S
    BY DEF Locals
  <2>2. \A r \in own : r.at[1] = "local" /\ r \in S
    BY <1>1, WhoseAre
  <2> QED
    BY <1>2, <2>1, <2>2, SlotsApart
<1>5. ASSUME ~raced
      PROVE  /\ {r \in Used("global", globals) : update # <<>> => r.obj # NoRef} = Globals(refs) \cup theirs
             /\ SlotsOf(refs) \cap SlotsOf(theirs) = {}
  <2> PICK G : G = Globals(refs) \cup theirs
    OBVIOUS
  <2>1. Holds("global", globals, G) /\ UpdateHolds /\ refs \cap theirs = {}
    BY <1>1, <1>5 DEF Handles, GlobalHandles
  <2>2. globals \in Seq(FrameType)
    BY <1>1 DEF JniTypeOK
  <2>3. {r \in Used("global", globals) : r.obj # NoRef} = G /\ (AllFull(globals) => Used("global", globals) = G)
    BY <2>1, <2>2, UsedIs
  <2>4. update = <<>> => AllFull(globals)
    BY <2>1 DEF UpdateHolds
  <2>5. {r \in Used("global", globals) : update # <<>> => r.obj # NoRef} = G
    BY <2>3, <2>4
  <2>6. SlotsOf(refs) \cap SlotsOf(theirs) = {}
    <3>1. \A r \in refs : r.at[1] = "global" => r \in G
      BY DEF Globals
    <3>2. \A r \in theirs : r.at[1] = "global" /\ r \in G
      BY <1>1, WhoseAre
    <3> QED
      BY <2>1, <3>1, <3>2, SlotsApart
  <2> QED
    BY <2>5, <2>6
<1>6. Step => Args \subseteq own \cup {NoRef}
  BY <1>1, ArgsAre DEF Step
<1> QED
  BY <1>3, <1>4, <1>5, <1>6 DEF SlotsAreHandles

\* Through pushed and extended frames, nested native methods, functions that fail half-way
\* and another thread's global references, the slots in use are those of the references that
\* somebody has or a failing call has left behind, each once, and a function uses none that it
\* does not have: the local ones always, the global ones until two threads have changed the
\* flags of a frame at the same time.
THEOREM HandlesAlways == ASSUME JniAssumption, LocalRules PROVE Spec => []SlotsAreHandles
<1>1. IInv => SlotsAreHandles
  BY HandlesByIInv
<1> QED
  BY <1>1, Invariance, PTL

\* The variables of Jni always have their types: the frames of native_ref.c, the scopes of
\* native methods and pushed frames, the pending exception and the references that are held.
THEOREM TypeCorrect == ASSUME JniAssumption, LocalRules PROVE Spec => []JniTypeOK
<1>1. IInv => JniTypeOK
  BY DEF IInv
<1> QED
  BY <1>1, Invariance, PTL

\* What a step may do to a pending exception, and what a function does while there is one.
ErrorKept ==
  /\ exc # NoExc => exc' = exc \/ (code = <<>> /\ exc' = NoExc)
  /\ Step /\ Do = "call" => exc = NoExc
  /\ Step /\ Do = "return" /\ Args # {} => (NoRef \notin Args <=> exc = NoExc)

\* A function that calls others does so, and returns an object, just without an exception.
LEMMA FunctionsLook ==
  ASSUME JniAssumption, LocalRules, IInv
  PROVE  /\ Step /\ Do = "call" => exc = NoExc
         /\ Step /\ Do = "return" /\ Args # {} => (NoRef \notin Args <=> exc = NoExc)
<1>1. Runs
  BY DEF IInv
<1>2. ASSUME Step, Do = "call" PROVE exc = NoExc
  <2>1. PICK c, f, k : At(c, f, k)
    BY <1>1, <1>2, AtStep DEF Step
  <2>2. k \in 1 .. Len(c) /\ RunsAt(c, k) /\ Reads(c) /\ Head(code) = c[k]
    BY <2>1 DEF At
  <2>3. c[k].do = "call"
    BY <1>2, <2>2 DEF Do
  <2> QED
    BY <2>2, <2>3, RunsClear
<1>3. ASSUME Step, Do = "return", Args # {} PROVE NoRef \notin Args <=> exc = NoExc
  <2>1. PICK c, f, k : At(c, f, k)
    BY <1>1, <1>3, AtStep DEF Step
  <2>2. k \in 1 .. Len(c) /\ RunsAt(c, k) /\ Reads(c) /\ Head(code) = c[k]
    BY <2>1 DEF At
  <2>3. c[k].do = "return"
    BY <1>3, <2>2 DEF Do
  <2>4. /\ exc = NoExc => \A v \in c[k].args : temps[v] # NoRef
        /\ exc # NoExc => c[k].args = {}
    BY <2>2, <2>3, RunReturn
  <2>5. Args = {temps[v] : v \in c[k].args}
    BY <2>2 DEF Args
  <2>6. exc = NoExc
    <3>1. SUFFICES ASSUME exc # NoExc PROVE FALSE
      OBVIOUS
    <3>2. c[k].args = {}
      BY <2>4, <3>1
    <3> QED
      BY <1>3, <2>5, <3>2
  <2>7. NoRef \notin Args
    BY <2>4, <2>5, <2>6
  <2> QED
    BY <2>6, <2>7
<1> QED
  BY <1>2, <1>3

\* No step replaces an exception.
LEMMA ExceptionStays ==
  ASSUME JniAssumption, LocalRules, IInv, [Next]_jnivars, exc # NoExc
  PROVE  exc' = exc \/ (code = <<>> /\ exc' = NoExc)
<1>1. ASSUME Calling PROVE FALSE
  BY <1>1 DEF Calling
<1>2. ~CallPrimitive /\ ~CallComposite /\ ~NewLocalRef /\ ~NewGlobalRef /\ ~EnsureLocalCapacity
      /\ ~PushLocalFrame /\ ~EnterNative
  BY <1>1 DEF CallPrimitive, CallComposite, NewLocalRef, NewGlobalRef, EnsureLocalCapacity, PushLocalFrame, EnterNative
<1>3. ~CompositeCall
  BY FunctionsLook DEF CompositeCall
<1>4. ASSUME NEW o \in Results \cup Returned, NEW fs, PopTo(fs, o) PROVE exc' = exc
  <2>1. o = NoRef
    BY <1>4 DEF Results, Returned
  <2> QED
    BY <1>4, <2>1 DEF PopTo
<1>5. CASE PopLocalFrame \/ LeaveNative
  BY <1>4, <1>5 DEF PopLocalFrame, LeaveNative
<1>6. CASE ExceptionClear
  BY <1>6 DEF ExceptionClear
<1>7. CASE CompositeDelete \/ CompositeCheck \/ CompositeReturn
  BY <1>7 DEF CompositeDelete, CompositeCheck, CompositeReturn
<1>8. CASE DeleteLocalRef \/ DeleteGlobalRef \/ ExceptionOccurred
  BY <1>8 DEF DeleteLocalRef, DeleteGlobalRef, ExceptionOccurred
<1>9. CASE OtherNewGlobalRef \/ OtherDeleteGlobalRef \/ OtherWritesFlags
  BY <1>9 DEF OtherNewGlobalRef, OtherDeleteGlobalRef, OtherWritesFlags
<1>10. CASE UNCHANGED jnivars
  BY <1>10 DEF jnivars
<1> QED
  BY <1>2, <1>3, <1>5, <1>6, <1>7, <1>8, <1>9, <1>10 DEF Next

\* The first exception is what native code sees in the end: functions that call others
\* look for it before they call the next, and no step but ExceptionClear() replaces it,
\* though a call that fails may return what an earlier one has left.
THEOREM ErrorsAlwaysKept == ASSUME JniAssumption, LocalRules PROVE Spec => ErrorsKept
<1>1. IInv /\ [Next]_jnivars => [ErrorKept]_jnivars
  <2>1. IInv /\ [Next]_jnivars => ErrorKept
    BY FunctionsLook, ExceptionStays DEF ErrorKept
  <2> QED
    BY <2>1
<1> QED
  BY <1>1, Invariance, PTL DEF Spec, ErrorsKept, ErrorKept

-----------------------------------------------------------------------------
(* The superinterfaces of a type *)

\* What SuperInterfaces[t] is made of, if g has it for the interfaces.
Above(g, t) ==
  UNION {UNION {{i} \cup g[i] : i \in ToSet(interfaces[c])} : c \in ToSet(Chain[t])}

LEMMA AboveIs ==
  ASSUME NEW g, NEW t, NEW j
  PROVE  j \in Above(g, t) <=>
           \E c \in ToSet(Chain[t]) : \E i \in ToSet(interfaces[c]) : j = i \/ j \in g[i]
BY DEF Above

DispatchTypeOK ==
  /\ status \in [Types -> {"unknown", "loaded", "resolved"}]
  /\ interfaces \in [Types -> Seq(Interfaces)]
  /\ instanceof \in [Types -> SUBSET Types]

LEMMA SetOfSeq ==
  ASSUME NEW S, NEW s \in Seq(S) PROVE ToSet(s) \subseteq S
BY DEF ToSet

\* A recursive definition is of use if a function is as it says.  There is one, as
\* Above grows with g: the least of those that are closed under Above.
LEMMA SuperInterfacesIs ==
  ASSUME ChainAssumption, DispatchTypeOK, NEW t \in Types
  PROVE  SuperInterfaces[t] = Above(SuperInterfaces, t)
<1> DEFINE Closed == {g \in [Types -> SUBSET Types] : \A u \in Types : Above(g, u) \subseteq g[u]}
           least == [u \in Types |-> {j \in Types : \A g \in Closed : j \in g[u]}]
           step == [u \in Types |-> Above(least, u)]
<1>1. \A u \in Types : \A c \in ToSet(Chain[u]) : ToSet(interfaces[c]) \subseteq Types
  BY SetOfSeq DEF ChainAssumption, DispatchTypeOK
<1>2. ASSUME NEW g \in [Types -> SUBSET Types], NEW h \in [Types -> SUBSET Types],
             \A u \in Types : g[u] \subseteq h[u],
             NEW u \in Types
      PROVE  Above(g, u) \subseteq Above(h, u)
  BY <1>1, <1>2, AboveIs
<1>3. ASSUME NEW g \in [Types -> SUBSET Types], NEW u \in Types PROVE Above(g, u) \subseteq Types
  BY <1>1, AboveIs
<1>4. least \in [Types -> SUBSET Types]
  OBVIOUS
<1>5. \A u \in Types : Above(least, u) \subseteq least[u]
  <2> SUFFICES ASSUME NEW u \in Types, NEW j \in Above(least, u)
               PROVE  j \in Types /\ \A g \in Closed : j \in g[u]
    BY DEF least
  <2> SUFFICES ASSUME NEW g \in Closed PROVE j \in Types /\ j \in g[u]
    BY <1>3, <1>4
  <2>1. \A v \in Types : least[v] \subseteq g[v]
    OBVIOUS
  <2>2. g \in [Types -> SUBSET Types] /\ Above(g, u) \subseteq g[u]
    OBVIOUS
  <2> HIDE DEF least, Closed
  <2>3. Above(least, u) \subseteq Above(g, u)
    BY <1>2, <1>4, <2>1, <2>2
  <2> QED
    BY <1>3, <1>4, <2>2, <2>3
<1>6. step \in Closed
  <2>1. step \in [Types -> SUBSET Types]
    BY <1>3, <1>4
  <2>2. \A u \in Types : step[u] \subseteq least[u]
    BY <1>5
  <2>3. \A u \in Types : Above(step, u) \subseteq Above(least, u)
    BY <1>2, <1>4, <2>1, <2>2
  <2>4. \A u \in Types : Above(step, u) \subseteq step[u]
    BY <2>3
  <2> QED
    BY <2>1, <2>4
<1>7. \A u \in Types : least[u] \subseteq Above(least, u)
  <2>1. \A u \in Types : least[u] \subseteq step[u]
    BY <1>6
  <2> QED
    BY <2>1
<1>8. least = [u \in Types |-> Above(least, u)]
  <2>1. \A u \in Types : least[u] = Above(least, u)
    BY <1>5, <1>7
  <2> QED
    BY <2>1
<1> HIDE DEF least
<1>9. \E f : f = [u \in Types |-> Above(f, u)]
  BY <1>8
<1>10. SuperInterfaces = [u \in Types |-> Above(SuperInterfaces, u)]
  BY <1>9 DEF SuperInterfaces, Above
<1> QED
  BY <1>10

-----------------------------------------------------------------------------
(* The instanceof tables *)

\* A type is resolved after its superclasses and its interfaces.
Grounded ==
  \A t \in Resolved : ToSet(Chain[t]) \cup ToSet(interfaces[t]) \subseteq Resolved

\* The table of a resolved type has its superclasses, itself and its superinterfaces.
\* It is said of any function that is as SuperInterfaces is on resolved types: there is
\* but one on these, while SuperInterfaces changes, elsewhere, with every derivation.
Listed ==
  \A g : (\A t \in Resolved : g[t] = Above(g, t)) =>
           \A t \in Resolved : instanceof[t] = ToSet(Chain[t]) \cup g[t]

DispatchInv == DispatchTypeOK /\ Grounded /\ Listed

LEMMA InChain ==
  ASSUME ChainAssumption, NEW t \in Types
  PROVE  /\ t \in ToSet(Chain[t])
         /\ ToSet(Chain[t]) \subseteq Types
         /\ ToSet(Chain[t]) = {t} \cup ToSet(Supers(t))
<1>1. Chain[t] \in Seq(Types) /\ Chain[t] # <<>> /\ Chain[t][1] = t
  BY DEF ChainAssumption
<1>2. Len(Chain[t]) \in Nat \ {0} /\ DOMAIN Chain[t] = 1 .. Len(Chain[t])
  BY <1>1
<1>3. DOMAIN Supers(t) = 1 .. Len(Chain[t]) - 1
  BY <1>1, <1>2 DEF Supers
<1>4. \A k \in 1 .. Len(Chain[t]) - 1 : Supers(t)[k] = Chain[t][k + 1]
  BY <1>1, <1>2 DEF Supers
<1>5. ToSet(Supers(t)) = {Chain[t][k] : k \in 2 .. Len(Chain[t])}
  <2>1. \A k \in 2 .. Len(Chain[t]) : k - 1 \in 1 .. Len(Chain[t]) - 1 /\ Supers(t)[k - 1] = Chain[t][k]
    BY <1>2, <1>4
  <2> QED
    BY <1>2, <1>3, <1>4, <2>1 DEF ToSet
<1>6. ToSet(Chain[t]) = {Chain[t][k] : k \in 1 .. Len(Chain[t])}
  BY <1>2 DEF ToSet
<1>7. 1 \in 1 .. Len(Chain[t]) /\ 1 .. Len(Chain[t]) = {1} \cup 2 .. Len(Chain[t])
  BY <1>2
<1>8. ToSet(Chain[t]) = {t} \cup ToSet(Supers(t))
  BY <1>1, <1>5, <1>6, <1>7
<1>9. ToSet(Chain[t]) \subseteq Types
  BY <1>1, SetOfSeq
<1> QED
  BY <1>8, <1>9

LEMMA InitDispatch == ASSUME ChainAssumption, DispatchInit PROVE DispatchInv
BY DEF DispatchInit, DispatchInv, DispatchTypeOK, Grounded, Listed, Resolved

LEMMA NothingChanges ==
  ASSUME DispatchInv, UNCHANGED <<status, interfaces, instanceof>> PROVE DispatchInv'
<1>1. ASSUME NEW g, NEW t PROVE Above(g, t)' = Above(g, t)
  BY DEF Above
<1>2. Resolved' = Resolved
  BY DEF Resolved
<1> QED
  BY <1>1, <1>2 DEF DispatchInv, DispatchTypeOK, Grounded, Listed

\* A type that is derived is in no table yet.
LEMMA DeriveKeeps ==
  ASSUME ChainAssumption, DispatchInv, NEW t \in Types, Derive(t)
  PROVE  DispatchInv'
<1> USE DEF DispatchInv, DispatchTypeOK
<1>1. PICK implemented \in Implementable[t] : interfaces' = [interfaces EXCEPT ![t] = implemented]
  BY DEF Derive
<1>2. implemented \in Seq(Interfaces)
  BY DEF ChainAssumption
<1>3. status[t] = "unknown" /\ status' = [status EXCEPT ![t] = "loaded"] /\ UNCHANGED instanceof
  BY DEF Derive
<1>4. DispatchTypeOK'
  BY <1>1, <1>2, <1>3
<1>5. Resolved' = Resolved /\ t \notin Resolved
  BY <1>3 DEF Resolved
<1>6. \A u \in Resolved : u \in Types /\ interfaces'[u] = interfaces[u]
  BY <1>1, <1>5 DEF Resolved
<1>7. Grounded'
  BY <1>5, <1>6 DEF Grounded
<1>8. ASSUME NEW g, NEW u \in Resolved PROVE Above(g, u)' = Above(g, u)
  <2>1. \A c \in ToSet(Chain[u]) : interfaces'[c] = interfaces[c]
    BY <1>6 DEF Grounded
  <2> QED
    BY <2>1 DEF Above
<1>9. Listed'
  BY <1>3, <1>5, <1>8 DEF Listed
<1> QED
  BY <1>4, <1>7, <1>9

\* The tables of the interfaces that a type and its superclasses declare have all its
\* superinterfaces.
LEMMA ResolveKeeps ==
  ASSUME ChainAssumption, DispatchInv, NEW t \in Types, Resolve(t)
  PROVE  DispatchInv'
<1> USE DEF DispatchInv, DispatchTypeOK
<1>1. UNCHANGED interfaces /\ \A s \in ToSet(Supers(t)) \cup ToSet(interfaces[t]) : status[s] = "resolved"
  BY DEF Resolve
<1>2. CASE UNCHANGED <<instanceof, status>>
  BY <1>1, <1>2, NothingChanges
<1>3. CASE /\ instanceof' = [instanceof EXCEPT ![t] = _jc_derive_instanceof_table(t)]
           /\ status' = [status EXCEPT ![t] = "resolved"]
  <2>1. Resolved' = Resolved \cup {t} /\ Resolved \subseteq Types
    BY <1>3 DEF Resolved
  <2>2. ToSet(Supers(t)) \subseteq Resolved /\ ToSet(interfaces[t]) \subseteq Resolved
    <3>1. ToSet(interfaces[t]) \subseteq Types
      BY SetOfSeq DEF ChainAssumption
    <3> QED
      BY <1>1, <3>1, InChain DEF Resolved
  <2>3. \A c \in ToSet(Chain[t]) : c \in Types /\ ToSet(interfaces[c]) \subseteq Resolved
    BY <2>1, <2>2, InChain DEF Grounded
  <2>4. \A c \in ToSet(Chain[t]) : \A i \in ToSet(interfaces[c]) :
          i \in Resolved /\ i \in ToSet(Chain[i]) /\ ToSet(Chain[i]) \subseteq {i} \cup ToSet(Chain[t])
    <3>1. \A c \in Types : ToSet(interfaces[c]) \subseteq Interfaces
      BY SetOfSeq
    <3> QED
      BY <2>1, <2>3, <3>1, InChain DEF ChainAssumption
  <2>5. Grounded'
    BY <1>1, <2>1, <2>2, InChain DEF Grounded
  <2>6. DispatchTypeOK'
    <3>1. _jc_derive_instanceof_table(t) \subseteq Types
      BY <2>1, <2>3, InChain DEF _jc_derive_instanceof_table
    <3> QED
      BY <1>1, <1>3, <3>1
  <2>7. Listed'
    <3> SUFFICES ASSUME NEW g, \A u \in Resolved' : g[u] = Above(g, u)', NEW u \in Resolved'
                 PROVE  instanceof'[u] = ToSet(Chain[u]) \cup g[u]
      BY DEF Listed
    <3>1. \A v : Above(g, v)' = Above(g, v)
      BY <1>1 DEF Above
    <3>2. \A v \in Resolved : instanceof[v] = ToSet(Chain[v]) \cup g[v]
      BY <2>1, <3>1 DEF Listed
    <3>3. CASE u # t
      BY <1>3, <2>1, <3>2, <3>3
    <3>4. CASE u = t
      <4>1. instanceof'[t] = _jc_derive_instanceof_table(t)
        BY <1>3
      <4>2. g[t] = Above(g, t)
        BY <2>1, <3>1
      <4>3. ASSUME NEW j PROVE j \in _jc_derive_instanceof_table(t) <=> j \in ToSet(Chain[t]) \cup Above(g, t)
        <5>1. j \in _jc_derive_instanceof_table(t) <=>
                \/ j \in ToSet(Chain[t])
                \/ \E c \in ToSet(Chain[t]) : \E i \in ToSet(interfaces[c]) : j \in instanceof[i]
          BY DEF _jc_derive_instanceof_table
        <5>2. \A c \in ToSet(Chain[t]) : \A i \in ToSet(interfaces[c]) :
                j \in ToSet(Chain[t]) \/ (j \in instanceof[i] <=> (j = i \/ j \in g[i]))
          <6> TAKE c \in ToSet(Chain[t])
          <6> TAKE i \in ToSet(interfaces[c])
          <6>1. i \in ToSet(Chain[i]) /\ ToSet(Chain[i]) \subseteq {i} \cup ToSet(Chain[t])
            BY <2>4
          <6>2. instanceof[i] = ToSet(Chain[i]) \cup g[i]
            BY <2>4, <3>2
          <6> QED
            BY <6>1, <6>2
        <5>3. j \in Above(g, t) <=> \E c \in ToSet(Chain[t]) : \E i \in ToSet(interfaces[c]) : j = i \/ j \in g[i]
          BY AboveIs
        <5> QED
          BY <5>1, <5>2, <5>3
      <4> QED
        BY <3>4, <4>1, <4>2, <4>3
    <3> QED
      BY <3>3, <3>4
  <2> QED
    BY <2>5, <2>6, <2>7
<1> QED
  BY <1>2, <1>3 DEF Resolve

THEOREM TablesInvariance == ChainAssumption => (DispatchSpec => []DispatchInv)
<1> SUFFICES ASSUME ChainAssumption PROVE DispatchSpec => []DispatchInv
  OBVIOUS
<1>1. DispatchInit => DispatchInv
  BY InitDispatch
<1>2. DispatchInv /\ [DispatchNext]_dispatchvars => DispatchInv'
  <2>1. ASSUME DispatchInv, UNCHANGED dispatchvars PROVE DispatchInv'
    BY <2>1, NothingChanges DEF dispatchvars
  <2> QED
    BY <2>1, DeriveKeeps, ResolveKeeps DEF DispatchNext
<1> QED
  BY <1>1, <1>2, PTL DEF DispatchSpec

\* The shortcuts for arrays agree with the rule for arrays, if the tables are right.
LEMMA TablesDecide ==
  ASSUME ChainAssumption, DispatchInv, ~LowerArrays PROVE AssignableIsSubtype
<1> SUFFICES ASSUME NEW f \in Resolved, NEW t \in Resolved, NEW i \in 0 .. 2, NEW j \in 0 .. 2,
                    ~(i > 0 /\ i < j)
             PROVE  _jc_assignable_from([base |-> f, dims |-> i], [base |-> t, dims |-> j])
                      <=> Subtype([base |-> f, dims |-> i], [base |-> t, dims |-> j])
  BY DEF AssignableIsSubtype
<1>1. f \in Types /\ t \in Types
  BY DEF Resolved
<1>2. t \in instanceof[f] <=> t \in ToSet(Chain[f]) \cup SuperInterfaces[f]
  BY SuperInterfacesIs DEF DispatchInv, Listed, Resolved
<1>3. f \in ToSet(Chain[f])
  BY <1>1, InChain
<1> QED
  BY <1>2, <1>3 DEF _jc_assignable_from, Subtype

\* The instanceof table of a type, made of the tables of its interfaces only, and the
\* shortcuts for arrays, say what the declarations say, however classes are derived and
\* resolved.  Arrays are not compared with arrays of more dimensions: there
\* _jc_assignable_from() looks at the base types only.
THEOREM Assignability == ChainAssumption /\ ~LowerArrays => (DispatchSpec => []AssignableIsSubtype)
<1> SUFFICES ASSUME ChainAssumption, ~LowerArrays PROVE DispatchSpec => []AssignableIsSubtype
  OBVIOUS
<1>1. DispatchInv => AssignableIsSubtype
  BY TablesDecide
<1> QED
  BY <1>1, TablesInvariance, PTL
=============================================================================
