-------------------------- MODULE ClassInitProofs --------------------------
(***************************************************************************)
(* Proofs about ClassInit, for any threads, any hierarchy of classes and   *)
(* any choice of the steps that may fail.                                  *)
(*                                                                         *)
(* The stack of a thread lists classes that it has claimed, each once, so  *)
(* that a claim is held where it was made (ClaimsHeld).  SuperFirst needs  *)
(* more: a superclass that was only claimed when <clinit> began has been   *)
(* claimed further out, or for good, and cannot fail before that <clinit>  *)
(* has returned (SupersReady).  Seven actions end a call; what the end of  *)
(* a call keeps is one lemma, ReturnKeeps.                                 *)
(***************************************************************************)
EXTENDS ClassInit, TLAPS

\* A sequence with one more element in front.
LEMMA PushSeq ==
  ASSUME NEW S, NEW x \in S, NEW s \in Seq(S)
  PROVE  /\ <<x>> \o s \in Seq(S)
         /\ DOMAIN (<<x>> \o s) = 1..(Len(s) + 1)
         /\ DOMAIN s = 1..Len(s)
         /\ (<<x>> \o s)[1] = x
         /\ \A i \in 1..Len(s) : (<<x>> \o s)[i + 1] = s[i]
         /\ <<x>> \o s # <<>>
         /\ Head(<<x>> \o s) = x
         /\ Len(s) \in Nat
  OBVIOUS

\* A sequence without its first element.
LEMMA PopSeq ==
  ASSUME NEW S, NEW s \in Seq(S), s # <<>>
  PROVE  /\ Tail(s) \in Seq(S)
         /\ Head(s) = s[1]
         /\ s[1] \in S
         /\ 1 \in DOMAIN s
         /\ DOMAIN s = 1..Len(s)
         /\ DOMAIN Tail(s) = 1..(Len(s) - 1)
         /\ \A i \in 1..(Len(s) - 1) : Tail(s)[i] = s[i + 1]
         /\ Len(s) \in Nat \ {0}
  OBVIOUS

-----------------------------------------------------------------------------

\* What the end of a call does, with the class that it hands back or leaves.
Ends(pcs, t, ok) ==
  /\ IInv
  /\ pc[t] # "java"
  /\ ok \in BOOLEAN
  /\ ok => pc[t] = "done"
  /\ pcs \in [Threads -> Pcs]
  /\ \A u \in Threads :
       \/ pcs[u] = pc[u]
       \/ pc[u] = "asleep" /\ pcs[u] = "woken"
  /\ initialized' = initialized
  /\ began' = began
  /\ initializing' \in [Classes -> Threads \cup {None}]
  /\ \A c \in Classes :
       initializing'[c] # initializing[c] => c = at[t] /\ pc[t] = "error"
  /\ ReturnAmong(pcs, t, ok)

\* The two ways a call ends: back in Java code, or in step 7 of another call.
LEMMA EndsCases ==
  ASSUME NEW t \in Threads, NEW pcs, NEW ok, Ends(pcs, t, ok)
  PROVE  \/ /\ stack[t] # <<>> => stack[t][1] \in began
            /\ pc' = [pcs EXCEPT ![t] = "java"]
            /\ at' = [at EXCEPT ![t] = None]
            /\ stack' = stack
         \/ /\ stack[t] # <<>>
            /\ stack[t][1] \notin began
            /\ pc' = [pcs EXCEPT ![t] = IF ok THEN "fields" ELSE "error"]
            /\ at' = [at EXCEPT ![t] = stack[t][1]]
            /\ stack' = [stack EXCEPT ![t] = Tail(stack[t])]
<1>1. stack[t] \in Seq(Classes)
  BY DEF Ends, IInv, TypeOK
<1>2. CASE stack[t] = <<>>
  BY <1>2 DEF Ends, ReturnAmong
<1>3. CASE stack[t] # <<>>
  <2>1. Head(stack[t]) = stack[t][1]
    BY <1>1, <1>3, PopSeq
  <2> QED
    BY <1>3, <2>1 DEF Ends, ReturnAmong
<1> QED
  BY <1>2, <1>3

\* Ready7 after the step, of a class as it is known before it.
ReadyNext(t, c) ==
  Super[c] # None => Super[c] \in initialized' \/ initializing'[Super[c]] = t

\* The claims, the phases and the superclasses survive the end of a call.
LEMMA ReturnKeeps ==
  ASSUME InitAssumption, NEW t \in Threads, NEW pcs, NEW ok,
         Ends(pcs, t, ok)
  PROVE  /\ pc' \in [Threads -> Pcs]
         /\ at' \in [Threads -> Classes \cup {None}]
         /\ stack' \in [Threads -> Seq(Classes)]
         /\ \A u \in Threads : pc'[u] = "java" <=> at'[u] = None
         /\ \A u \in Threads : pc'[u] \in {"done", "asleep"} =>
              u # t /\ pc[u] = pc'[u] /\ pcs[u] = pc[u] /\ at'[u] = at[u]
         /\ ClaimsHeld'
         /\ Phases'
         /\ SupersReady'
<1> USE DEF InitAssumption
<1>0. /\ TypeOK /\ ClaimsHeld /\ Phases /\ SupersReady /\ OkMeansReady
      /\ pc[t] \in Pcs \ {"java"}
      /\ at[t] \in Classes
      /\ \A u \in Threads :
           stack[u] \in Seq(Classes) /\ DOMAIN stack[u] = 1..Len(stack[u])
             /\ Len(stack[u]) \in Nat
             /\ \A i \in DOMAIN stack[u] : stack[u][i] \in Classes
  BY DEF Ends, IInv, TypeOK
\* Claims are given up by the thread itself, and not those it needs.
<1>1. \A u \in Threads : \A c \in Classes :
        initializing[c] = u /\ initializing'[c] # u =>
          u = t /\ c = at[t] /\ pc[t] \in Claimed
  BY <1>0 DEF Ends, ClaimsHeld, Claimed
<1>2. \A u \in Threads : \A i \in DOMAIN stack[u] :
        /\ initializing'[stack[u][i]] = u
        /\ stack[u][i] \in began => ReadyNext(u, stack[u][i])
  <2> SUFFICES ASSUME NEW u \in Threads, NEW i \in DOMAIN stack[u]
               PROVE  /\ initializing'[stack[u][i]] = u
                      /\ stack[u][i] \in began => ReadyNext(u, stack[u][i])
    OBVIOUS
  <2>1. initializing'[stack[u][i]] = u
    BY <1>0, <1>1 DEF ClaimsHeld
  <2>2. ASSUME stack[u][i] \in began  PROVE ReadyNext(u, stack[u][i])
    <3>1. stack[u][i] \in Classes
      BY <1>0
    <3>2. Super[stack[u][i]] \in Classes \cup {None}
      BY <3>1
    <3>3. Super[stack[u][i]] # None =>
            Super[stack[u][i]] \in initialized
              \/ initializing[Super[stack[u][i]]] = u
      BY <1>0, <2>2 DEF SupersReady, Ready7
    <3>4. Super[stack[u][i]] \notin initialized /\ pc[u] \in Claimed =>
            at[u] # Super[stack[u][i]]
      BY <1>0, <2>2 DEF SupersReady
    <3>5. initialized' = initialized
      BY DEF Ends
    <3> QED
      BY <1>1, <3>1, <3>2, <3>3, <3>4, <3>5 DEF ReadyNext
  <2> QED
    BY <2>1, <2>2
<1>3. \A u \in Threads : pc[u] = "fields" /\ u # t => ReadyNext(u, at[u])
  <2> SUFFICES ASSUME NEW u \in Threads, pc[u] = "fields", u # t
               PROVE  ReadyNext(u, at[u])
    OBVIOUS
  <2>1. at'[u] = at[u] /\ at[u] \in Classes
    BY <1>0, EndsCases DEF TypeOK, Pcs
  <2>2. Ready7(u, at[u]) /\ Super[at[u]] \in Classes \cup {None}
    BY <1>0, <2>1 DEF SupersReady
  <2> QED
    BY <1>1, <2>1, <2>2 DEF Ready7, ReadyNext, Ends
<1>4. CASE /\ stack[t] # <<>> => stack[t][1] \in began
           /\ pc' = [pcs EXCEPT ![t] = "java"]
           /\ at' = [at EXCEPT ![t] = None]
           /\ stack' = stack
  <2>1. /\ pc' \in [Threads -> Pcs]
        /\ at' \in [Threads -> Classes \cup {None}]
        /\ stack' \in [Threads -> Seq(Classes)]
        /\ \A u \in Threads : pc'[u] = "java" <=> at'[u] = None
        /\ \A u \in Threads : pc'[u] \in {"done", "asleep"} =>
             u # t /\ pc[u] = pc'[u] /\ pcs[u] = pc[u] /\ at'[u] = at[u]
    BY <1>0, <1>4 DEF Ends, TypeOK, Pcs
  <2>2. \A u \in Threads :
          /\ u # t => /\ at'[u] = at[u]
                      /\ pc'[u] \in Claimed <=> pc[u] \in Claimed
                      /\ \A l \in {"java", "super", "fields", "finish"} :
                           pc'[u] = l <=> pc[u] = l
          /\ u = t => pc'[u] = "java"
    BY <1>0, <1>4 DEF Ends, TypeOK, Pcs, Claimed
  <2>3. ClaimsHeld'
    BY <1>0, <1>1, <1>2, <1>4, <2>2 DEF ClaimsHeld, Claimed, TypeOK, Pcs
  <2>4. Phases'
    <3> SUFFICES ASSUME NEW u \in Threads
        PROVE  /\ pc'[u] \in {"super", "fields"} => at'[u] \notin began
               /\ pc'[u] = "finish" => at'[u] \in began
               /\ \A i \in DOMAIN stack[u] : stack[u][i] \notin began =>
                    IF i = 1
                    THEN pc'[u] # "java" /\ at'[u] = Super[stack[u][i]]
                    ELSE stack[u][i - 1] = Super[stack[u][i]]
      BY <1>4 DEF Phases, Ends
    <3>1. CASE u = t
      <4>1. DOMAIN stack[t] # {} => stack[t] # <<>>
        BY <1>0
      <4> QED
        BY <1>0, <1>4, <2>2, <3>1, <4>1 DEF Phases
    <3>2. CASE u # t
      BY <1>0, <2>2, <3>2 DEF Phases
    <3> QED
      BY <3>1, <3>2
  <2>5. SupersReady'
    <3> SUFFICES ASSUME NEW u \in Threads
                 PROVE  /\ pc'[u] = "fields" => ReadyNext(u, at'[u])
                        /\ \A i \in DOMAIN stack[u] : stack[u][i] \in began =>
                             /\ ReadyNext(u, stack[u][i])
                             /\ Super[stack[u][i]] \notin initialized =>
                                  /\ \A j \in 1..(i - 1) :
                                       stack[u][j] # Super[stack[u][i]]
                                  /\ pc'[u] \in Claimed =>
                                       at'[u] # Super[stack[u][i]]
      BY <1>4 DEF SupersReady, Ends, Ready7, ReadyNext
    <3>1. CASE u = t
      BY <1>0, <1>2, <2>2, <3>1 DEF SupersReady, Claimed
    <3>2. CASE u # t
      BY <1>0, <1>2, <1>3, <2>2, <3>2 DEF SupersReady
    <3> QED
      BY <3>1, <3>2
  <2> QED
    BY <2>1, <2>3, <2>4, <2>5
<1>5. CASE /\ stack[t] # <<>>
           /\ stack[t][1] \notin began
           /\ pc' = [pcs EXCEPT ![t] = IF ok THEN "fields" ELSE "error"]
           /\ at' = [at EXCEPT ![t] = stack[t][1]]
           /\ stack' = [stack EXCEPT ![t] = Tail(stack[t])]
  <2>1. /\ stack[t][1] \in Classes
        /\ 1 \in DOMAIN stack[t]
        /\ stack'[t] = Tail(stack[t])
        /\ stack'[t] \in Seq(Classes)
        /\ DOMAIN stack'[t] = 1..(Len(stack[t]) - 1)
        /\ \A i \in 1..(Len(stack[t]) - 1) : stack'[t][i] = stack[t][i + 1]
        /\ \A u \in Threads : u # t => stack'[u] = stack[u]
        /\ Len(stack[t]) \in Nat \ {0}
    BY <1>0, <1>5, PopSeq DEF TypeOK
  <2>2. /\ pc' \in [Threads -> Pcs]
        /\ at' \in [Threads -> Classes \cup {None}]
        /\ \A u \in Threads : pc'[u] = "java" <=> at'[u] = None
        /\ \A u \in Threads : pc'[u] \in {"done", "asleep"} =>
             u # t /\ pc[u] = pc'[u] /\ pcs[u] = pc[u] /\ at'[u] = at[u]
    BY <1>0, <1>5, <2>1 DEF Ends, TypeOK, Pcs
  <2>3. stack' \in [Threads -> Seq(Classes)]
    BY <1>0, <1>5, <2>1 DEF TypeOK
  <2>4. \A u \in Threads :
          /\ u # t => /\ at'[u] = at[u]
                      /\ pc'[u] \in Claimed <=> pc[u] \in Claimed
                      /\ \A l \in {"java", "super", "fields", "finish"} :
                           pc'[u] = l <=> pc[u] = l
          /\ u = t => pc'[u] = (IF ok THEN "fields" ELSE "error")
                        /\ at'[u] = stack[t][1]
    BY <1>0, <1>5 DEF Ends, TypeOK, Pcs, Claimed
  <2>5. ClaimsHeld'
    <3> SUFFICES ASSUME NEW u \in Threads
        PROVE  /\ \A i \in DOMAIN stack'[u] : initializing'[stack'[u][i]] = u
               /\ \A i, j \in DOMAIN stack'[u] :
                    stack'[u][i] = stack'[u][j] => i = j
               /\ pc'[u] \in Claimed =>
                    /\ initializing'[at'[u]] = u
                    /\ \A i \in DOMAIN stack'[u] : stack'[u][i] # at'[u]
      BY DEF ClaimsHeld
    <3>1. CASE u = t
      <4>1. \A i, j \in DOMAIN stack[t] : stack[t][i] = stack[t][j] => i = j
        BY <1>0 DEF ClaimsHeld
      <4>2. \A i \in DOMAIN stack'[t] :
              /\ i + 1 \in DOMAIN stack[t] /\ i + 1 # 1
              /\ stack'[t][i] = stack[t][i + 1]
        BY <1>0, <2>1
      <4>3. \A i, j \in DOMAIN stack'[t] : i + 1 = j + 1 => i = j
        BY <2>1
      <4>4. \A i, j \in DOMAIN stack'[t] : stack'[t][i] = stack'[t][j] => i = j
        BY <4>1, <4>2, <4>3
      <4>5. \A i \in DOMAIN stack'[t] :
              initializing'[stack'[t][i]] = t /\ stack'[t][i] # stack[t][1]
        BY <1>2, <2>1, <4>1, <4>2
      <4>6. initializing'[stack[t][1]] = t
        BY <1>2, <2>1
      <4> QED
        BY <2>4, <3>1, <4>4, <4>5, <4>6
    <3>2. CASE u # t
      <4>1. pc[u] \in Claimed => initializing'[at[u]] = u /\ at[u] \in Classes
        BY <1>0, <1>1, <3>2 DEF ClaimsHeld, TypeOK, Claimed
      <4> QED
        BY <1>0, <1>2, <2>1, <2>4, <3>2, <4>1 DEF ClaimsHeld
    <3> QED
      BY <3>1, <3>2
  <2>6. Phases'
    <3> SUFFICES ASSUME NEW u \in Threads
        PROVE  /\ pc'[u] \in {"super", "fields"} => at'[u] \notin began
               /\ pc'[u] = "finish" => at'[u] \in began
               /\ \A i \in DOMAIN stack'[u] : stack'[u][i] \notin began =>
                    IF i = 1
                    THEN pc'[u] # "java" /\ at'[u] = Super[stack'[u][i]]
                    ELSE stack'[u][i - 1] = Super[stack'[u][i]]
      BY DEF Phases, Ends
    <3>1. CASE u = t
      <4>1. ASSUME NEW i \in DOMAIN stack'[t], stack'[t][i] \notin began
            PROVE  IF i = 1
                   THEN at'[t] = Super[stack'[t][i]]
                   ELSE stack'[t][i - 1] = Super[stack'[t][i]]
        <5>1. /\ i + 1 \in DOMAIN stack[t] /\ i + 1 # 1
              /\ (i + 1) - 1 = i
              /\ stack'[t][i] = stack[t][i + 1]
              /\ i # 1 => i - 1 \in 1..(Len(stack[t]) - 1) /\ (i - 1) + 1 = i
          BY <1>0, <2>1
        <5>2. stack[t][i] = Super[stack'[t][i]]
          <6>1. \A k \in DOMAIN stack[t] :
                  stack[t][k] \notin began /\ k # 1 =>
                    stack[t][k - 1] = Super[stack[t][k]]
            BY <1>0 DEF Phases
          <6> QED
            BY <4>1, <5>1, <6>1
        <5>3. i # 1 => stack'[t][i - 1] = stack[t][i]
          BY <2>1, <5>1
        <5> QED
          BY <2>4, <5>2, <5>3
      <4> QED
        BY <1>5, <2>4, <3>1, <4>1
    <3>2. CASE u # t
      BY <1>0, <2>1, <2>4, <3>2 DEF Phases
    <3> QED
      BY <3>1, <3>2
  <2>7. SupersReady'
    <3> SUFFICES ASSUME NEW u \in Threads
        PROVE  /\ pc'[u] = "fields" => ReadyNext(u, at'[u])
               /\ \A i \in DOMAIN stack'[u] : stack'[u][i] \in began =>
                    /\ ReadyNext(u, stack'[u][i])
                    /\ Super[stack'[u][i]] \notin initialized =>
                         /\ \A j \in 1..(i - 1) :
                              stack'[u][j] # Super[stack'[u][i]]
                         /\ pc'[u] \in Claimed =>
                              at'[u] # Super[stack'[u][i]]
      BY DEF SupersReady, Ends, Ready7, ReadyNext
    <3>1. CASE u = t
      <4>1. ASSUME pc'[t] = "fields"  PROVE ReadyNext(t, at'[t])
        <5>1. pc[t] = "done"
          BY <2>4, <4>1 DEF Ends
        <5>2. at[t] = Super[stack[t][1]]
          BY <1>0, <1>5, <2>1 DEF Phases
        <5>3. at[t] \in initialized \/ initializing'[at[t]] = t
          BY <1>0, <1>1, <5>1 DEF OkMeansReady, Claimed
        <5> QED
          BY <2>4, <5>2, <5>3 DEF ReadyNext, Ends
      <4>2. ASSUME NEW i \in DOMAIN stack'[t], stack'[t][i] \in began
            PROVE  /\ ReadyNext(t, stack'[t][i])
                   /\ Super[stack'[t][i]] \notin initialized =>
                        /\ \A j \in 1..(i - 1) :
                             stack'[t][j] # Super[stack'[t][i]]
                        /\ pc'[t] \in Claimed =>
                             at'[t] # Super[stack'[t][i]]
        <5>1. /\ i + 1 \in DOMAIN stack[t]
              /\ (i + 1) - 1 = i
              /\ 1 \in 1..i
              /\ stack'[t][i] = stack[t][i + 1]
              /\ \A j \in 1..(i - 1) :
                   /\ j + 1 \in 1..i
                   /\ stack'[t][j] = stack[t][j + 1]
          BY <1>0, <2>1
        <5>2. ReadyNext(t, stack'[t][i])
          BY <1>2, <4>2, <5>1
        <5>3. Super[stack'[t][i]] \notin initialized =>
                \A j \in 1..i : stack[t][j] # Super[stack'[t][i]]
          BY <1>0, <4>2, <5>1 DEF SupersReady
        <5> QED
          BY <2>4, <5>1, <5>2, <5>3
      <4> QED
        BY <3>1, <4>1, <4>2
    <3>2. CASE u # t
      <4>1. \A i \in DOMAIN stack'[u] : stack'[u][i] \in began =>
              ReadyNext(u, stack'[u][i])
        BY <1>2, <2>1, <3>2
      <4> QED
        BY <1>0, <1>3, <2>1, <2>4, <3>2, <4>1 DEF SupersReady
    <3> QED
      BY <3>1, <3>2
  <2> QED
    BY <2>2, <2>3, <2>5, <2>6, <2>7
<1> QED
  BY <1>4, <1>5, EndsCases

-----------------------------------------------------------------------------

\* Who falls asleep does so for a class that is claimed, not failed.
LEMMA WaitIInv ==
  ASSUME InitAssumption, IInv, NEW t \in Threads, Wait(t)
  PROVE  IInv'
<1> USE DEF InitAssumption, IInv, Wait, Entering, Goto, class
<1>0. /\ pc[t] \in Pcs /\ at[t] \in Classes \cup {None}
      /\ pc[t] # "java" => at[t] \in Classes
  BY DEF TypeOK, Pcs
<1>1. TypeOK'
  BY <1>0 DEF TypeOK, Pcs
<1>2. ClaimsHeld'
  BY <1>0 DEF TypeOK, ClaimsHeld, Claimed
<1>3. Phases'
  BY <1>0 DEF TypeOK, Phases, ClassStates
<1>4. SupersReady'
  <2>1. \A u \in Threads : pc'[u] \in Claimed \cup {"fields"} =>
          pc[u] = pc'[u] /\ at'[u] = at[u]
    BY DEF TypeOK, Claimed
  <2> QED
    BY <2>1 DEF SupersReady, Ready7
<1>5. ClassStates'
  BY <1>0 DEF TypeOK, ClassStates, Phases, ClaimsHeld, Claimed
<1>6. OkMeansReady'
  BY <1>0 DEF TypeOK, OkMeansReady, ClassStates, Phases
<1>7. FailureWakesAll'
  BY <1>0 DEF TypeOK, FailureWakesAll, ClassStates
<1> QED
  BY <1>1, <1>2, <1>3, <1>4, <1>5, <1>6, <1>7

\* The thread may use the class.
LEMMA ReadyIInv ==
  ASSUME InitAssumption, IInv, NEW t \in Threads, Ready(t)
  PROVE  IInv'
<1> USE DEF InitAssumption, IInv, Ready, Entering, Goto, class
<1>0. /\ pc[t] \in Pcs /\ at[t] \in Classes \cup {None}
      /\ pc[t] # "java" => at[t] \in Classes
  BY DEF TypeOK, Pcs
<1>1. TypeOK'
  BY <1>0 DEF TypeOK, Pcs
<1>2. ClaimsHeld'
  BY <1>0 DEF TypeOK, ClaimsHeld, Claimed
<1>3. Phases'
  BY <1>0 DEF TypeOK, Phases, ClassStates
<1>4. SupersReady'
  <2>1. \A u \in Threads : pc'[u] \in Claimed \cup {"fields"} =>
          pc[u] = pc'[u] /\ at'[u] = at[u]
    BY DEF TypeOK, Claimed
  <2> QED
    BY <2>1 DEF SupersReady, Ready7
<1>5. ClassStates'
  BY <1>0 DEF TypeOK, ClassStates, Phases, ClaimsHeld, Claimed
<1>6. OkMeansReady'
  BY <1>0 DEF TypeOK, OkMeansReady, ClassStates, Phases
<1>7. FailureWakesAll'
  BY <1>0 DEF TypeOK, FailureWakesAll, ClassStates
<1> QED
  BY <1>1, <1>2, <1>3, <1>4, <1>5, <1>6, <1>7

\* The class was free, and the thread holds it nowhere.
LEMMA ClaimIInv ==
  ASSUME InitAssumption, IInv, NEW t \in Threads, Claim(t)
  PROVE  IInv'
<1> USE DEF InitAssumption, IInv, Claim, Entering, Goto, class
<1>0. /\ pc[t] \in Pcs /\ at[t] \in Classes \cup {None}
      /\ pc[t] # "java" => at[t] \in Classes
  BY DEF TypeOK, Pcs
<1>1. TypeOK'
  BY <1>0 DEF TypeOK, Pcs
<1>2. ClaimsHeld'
  BY <1>0 DEF TypeOK, ClaimsHeld, Claimed
<1>3. Phases'
  BY <1>0 DEF TypeOK, Phases, ClassStates
<1>4. SupersReady'
  BY <1>0 DEF TypeOK, SupersReady, Ready7, Claimed, ClaimsHeld
<1>5. ClassStates'
  BY <1>0 DEF TypeOK, ClassStates, Phases, ClaimsHeld, Claimed
<1>6. OkMeansReady'
  BY <1>0 DEF TypeOK, OkMeansReady, ClassStates, Phases
<1>7. FailureWakesAll'
  BY <1>0 DEF TypeOK, FailureWakesAll, ClassStates
<1> QED
  BY <1>1, <1>2, <1>3, <1>4, <1>5, <1>6, <1>7

\* Waking up claims nothing.
LEMMA OtherNotifyIInv ==
  ASSUME InitAssumption, IInv, NEW t \in Threads, OtherNotify(t)
  PROVE  IInv'
<1> USE DEF InitAssumption, IInv, OtherNotify, Goto, class
<1>0. /\ pc[t] \in Pcs /\ at[t] \in Classes \cup {None}
      /\ pc[t] # "java" => at[t] \in Classes
  BY DEF TypeOK, Pcs
<1>1. TypeOK'
  BY <1>0 DEF TypeOK, Pcs
<1>2. ClaimsHeld'
  BY <1>0 DEF TypeOK, ClaimsHeld, Claimed
<1>3. Phases'
  BY <1>0 DEF TypeOK, Phases, ClassStates
<1>4. SupersReady'
  <2>1. \A u \in Threads : pc'[u] \in Claimed \cup {"fields"} =>
          pc[u] = pc'[u] /\ at'[u] = at[u]
    BY DEF TypeOK, Claimed
  <2> QED
    BY <2>1 DEF SupersReady, Ready7
<1>5. ClassStates'
  BY <1>0 DEF TypeOK, ClassStates, Phases, ClaimsHeld, Claimed
<1>6. OkMeansReady'
  BY <1>0 DEF TypeOK, OkMeansReady, ClassStates, Phases
<1>7. FailureWakesAll'
  BY <1>0 DEF TypeOK, FailureWakesAll, ClassStates
<1> QED
  BY <1>1, <1>2, <1>3, <1>4, <1>5, <1>6, <1>7

\* The superclass is initialized.
LEMMA HaveSuperIInv ==
  ASSUME InitAssumption, IInv, NEW t \in Threads, HaveSuper(t)
  PROVE  IInv'
<1> USE DEF InitAssumption, IInv, HaveSuper, SuperReady, Goto, class
<1>0. /\ pc[t] \in Pcs /\ at[t] \in Classes \cup {None}
      /\ pc[t] # "java" => at[t] \in Classes
  BY DEF TypeOK, Pcs
<1>1. TypeOK'
  BY <1>0 DEF TypeOK, Pcs
<1>2. ClaimsHeld'
  BY <1>0 DEF TypeOK, ClaimsHeld, Claimed
<1>3. Phases'
  BY <1>0 DEF TypeOK, Phases, ClassStates
<1>4. SupersReady'
  BY <1>0 DEF TypeOK, SupersReady, Ready7, Claimed, ClaimsHeld
<1>5. ClassStates'
  BY <1>0 DEF TypeOK, ClassStates, Phases, ClaimsHeld, Claimed
<1>6. OkMeansReady'
  BY <1>0 DEF TypeOK, OkMeansReady, ClassStates, Phases
<1>7. FailureWakesAll'
  BY <1>0 DEF TypeOK, FailureWakesAll, ClassStates
<1> QED
  BY <1>1, <1>2, <1>3, <1>4, <1>5, <1>6, <1>7

\* The claim becomes a flag, in one step of the monitor.
LEMMA FinishIInv ==
  ASSUME InitAssumption, IInv, NEW t \in Threads, Finish(t)
  PROVE  IInv'
<1> USE DEF InitAssumption, IInv, Finish, Goto, class
<1>0. /\ pc[t] \in Pcs /\ at[t] \in Classes \cup {None}
      /\ pc[t] # "java" => at[t] \in Classes
  BY DEF TypeOK, Pcs
<1>1. TypeOK'
  BY <1>0 DEF TypeOK, Pcs
<1>2. ClaimsHeld'
  BY <1>0 DEF TypeOK, ClaimsHeld, Claimed
<1>3. Phases'
  BY <1>0 DEF TypeOK, Phases, ClassStates
<1>4. SupersReady'
  BY <1>0 DEF TypeOK, SupersReady, Ready7, Claimed, ClaimsHeld
<1>5. ClassStates'
  BY <1>0 DEF TypeOK, ClassStates, Phases, ClaimsHeld, Claimed
<1>6. OkMeansReady'
  BY <1>0 DEF TypeOK, OkMeansReady, ClassStates, Phases
<1>7. FailureWakesAll'
  BY <1>0 DEF TypeOK, FailureWakesAll, ClassStates
<1> QED
  BY <1>1, <1>2, <1>3, <1>4, <1>5, <1>6, <1>7

\* The thread leaves Java code with nothing on its hands.
LEMMA RequestIInv ==
  ASSUME InitAssumption, IInv, NEW t \in Threads, NEW c \in Classes,
         Request(t, c)
  PROVE  IInv'
<1> USE DEF InitAssumption, IInv, Request, Goto, class
<1>0. /\ pc[t] \in Pcs /\ at[t] \in Classes \cup {None}
      /\ pc[t] # "java" => at[t] \in Classes
  BY DEF TypeOK, Pcs
<1>1. TypeOK'
  BY <1>0 DEF TypeOK, Pcs
<1>2. ClaimsHeld'
  BY <1>0 DEF TypeOK, ClaimsHeld, Claimed
<1>3. Phases'
  BY <1>0 DEF TypeOK, Phases, ClassStates
<1>4. SupersReady'
  <2>1. \A u \in Threads : pc'[u] \in Claimed \cup {"fields"} =>
          pc[u] = pc'[u] /\ at'[u] = at[u]
    BY DEF TypeOK, Claimed
  <2> QED
    BY <2>1 DEF SupersReady, Ready7
<1>5. ClassStates'
  BY <1>0 DEF TypeOK, ClassStates, Phases, ClaimsHeld, Claimed
<1>6. OkMeansReady'
  BY <1>0 DEF TypeOK, OkMeansReady, ClassStates, Phases
<1>7. FailureWakesAll'
  BY <1>0 DEF TypeOK, FailureWakesAll, ClassStates
<1> QED
  BY <1>1, <1>2, <1>3, <1>4, <1>5, <1>6, <1>7

\* The call for the superclass goes on top of the one that made it.
LEMMA NeedSuperIInv ==
  ASSUME InitAssumption, IInv, NEW t \in Threads, NeedSuper(t)
  PROVE  IInv'
<1> USE DEF InitAssumption, IInv, NeedSuper, SuperReady, Goto, class
<1>0. /\ pc[t] \in Pcs /\ at[t] \in Classes \cup {None}
      /\ pc[t] # "java" => at[t] \in Classes
  BY DEF TypeOK, Pcs
<1>8. /\ stack[t] \in Seq(Classes)
      /\ stack' \in [Threads -> Seq(Classes)]
      /\ stack'[t] = <<at[t]>> \o stack[t]
      /\ \A u \in Threads : u # t => stack'[u] = stack[u]
  BY <1>0, PushSeq DEF TypeOK
<1>9. /\ DOMAIN stack'[t] = 1..(Len(stack[t]) + 1)
      /\ DOMAIN stack[t] = 1..Len(stack[t])
      /\ stack'[t][1] = at[t]
      /\ \A i \in 1..Len(stack[t]) : stack'[t][i + 1] = stack[t][i]
      /\ Len(stack[t]) \in Nat
  BY <1>0, <1>8, PushSeq
<1>10. \A i \in DOMAIN stack'[t] :
        i # 1 => /\ i - 1 \in DOMAIN stack[t]
                 /\ stack'[t][i] = stack[t][i - 1]
                 /\ i - 1 # 1 => stack'[t][i - 1] = stack[t][(i - 1) - 1]
  BY <1>9
<1>1. TypeOK'
  BY <1>0, <1>8 DEF TypeOK, Pcs
<1>2. ClaimsHeld'
  <2>1. \A u \in Threads : u # t =>
          stack'[u] = stack[u] /\ pc'[u] = pc[u] /\ at'[u] = at[u]
    BY <1>8 DEF TypeOK
  <2>2. \A i, j \in DOMAIN stack'[t] : stack'[t][i] = stack'[t][j] => i = j
    BY <1>0, <1>9, <1>10 DEF ClaimsHeld, Claimed
  <2>3. \A i \in DOMAIN stack'[t] : initializing[stack'[t][i]] = t
    BY <1>0, <1>9, <1>10 DEF ClaimsHeld, Claimed
  <2>4. pc'[t] \notin Claimed
    BY DEF Claimed, TypeOK
  <2> QED
    BY <2>1, <2>2, <2>3, <2>4 DEF ClaimsHeld
<1>3. Phases'
  <2>1. \A u \in Threads : u # t =>
          stack'[u] = stack[u] /\ pc'[u] = pc[u] /\ at'[u] = at[u]
    BY <1>8 DEF TypeOK
  <2> SUFFICES ASSUME NEW u \in Threads
      PROVE  /\ pc'[u] \in {"super", "fields"} => at'[u] \notin began'
             /\ pc'[u] = "finish" => at'[u] \in began'
             /\ \A i \in DOMAIN stack'[u] : stack'[u][i] \notin began' =>
                  IF i = 1
                  THEN pc'[u] # "java" /\ at'[u] = Super[stack'[u][i]]
                  ELSE stack'[u][i - 1] = Super[stack'[u][i]]
    BY DEF Phases
  <2>2. CASE u # t
    BY <2>1, <2>2 DEF Phases, ClaimsHeld, Claimed, TypeOK
  <2>3. CASE u = t
    <3>1. \A i \in DOMAIN stack[t] : stack[t][i] \notin began =>
            IF i = 1 THEN at[t] = Super[stack[t][i]]
                     ELSE stack[t][i - 1] = Super[stack[t][i]]
      BY DEF Phases
    <3> QED
      BY <1>0, <1>9, <1>10, <2>3, <3>1 DEF TypeOK
  <2> QED
    BY <2>2, <2>3
<1>4. SupersReady'
  <2>1. \A u \in Threads : u # t =>
          stack'[u] = stack[u] /\ pc'[u] = pc[u] /\ at'[u] = at[u]
    BY <1>8 DEF TypeOK
  <2> SUFFICES ASSUME NEW u \in Threads
               PROVE  /\ pc'[u] = "fields" => Ready7(u, at'[u])
                      /\ \A i \in DOMAIN stack'[u] : stack'[u][i] \in began' =>
                           /\ Ready7(u, stack'[u][i])
                           /\ Super[stack'[u][i]] \notin initialized =>
                                /\ \A j \in 1..(i - 1) :
                                     stack'[u][j] # Super[stack'[u][i]]
                                /\ pc'[u] \in Claimed =>
                                     at'[u] # Super[stack'[u][i]]
    BY DEF SupersReady, Ready7
  <2>2. CASE u # t
    BY <2>1, <2>2 DEF SupersReady, ClaimsHeld, Claimed, TypeOK
  <2>3. CASE u = t
    <3>1. pc'[t] \notin Claimed \cup {"fields"}
      BY DEF Claimed, TypeOK
    <3>2. ASSUME NEW i \in DOMAIN stack'[t], stack'[t][i] \in began'
          PROVE  /\ Ready7(t, stack'[t][i])
                 /\ Super[stack'[t][i]] \notin initialized =>
                      \A j \in 1..(i - 1) : stack'[t][j] # Super[stack'[t][i]]
      <4>1. CASE i = 1
        BY <1>0, <1>9, <3>2, <4>1 DEF SupersReady, Phases, Claimed
      <4>2. CASE i # 1
        <5>1. /\ i - 1 \in DOMAIN stack[t]
              /\ stack'[t][i] = stack[t][i - 1]
              /\ i \in 1..(Len(stack[t]) + 1)
          BY <1>9, <1>10, <4>2
        <5>4. ASSUME NEW j \in 1..(i - 1), j # 1
              PROVE  /\ j - 1 \in 1..((i - 1) - 1)
                     /\ stack'[t][j] = stack[t][j - 1]
          <6>1. /\ j \in DOMAIN stack'[t]
                /\ j - 1 \in 1..((i - 1) - 1)
            BY <1>9, <5>1, <5>4
          <6> QED
            BY <1>10, <5>4, <6>1
        <5>2. stack[t][i - 1] \in began
          BY <1>0, <3>2, <5>1 DEF ClaimsHeld, Claimed
        <5>3. /\ Ready7(t, stack[t][i - 1])
              /\ Super[stack[t][i - 1]] \notin initialized =>
                   /\ \A j \in 1..((i - 1) - 1) :
                        stack[t][j] # Super[stack[t][i - 1]]
                   /\ at[t] # Super[stack[t][i - 1]]
          BY <1>0, <5>1, <5>2 DEF SupersReady, Claimed
        <5> QED
          BY <1>9, <5>1, <5>3, <5>4
      <4> QED
        BY <4>1, <4>2
    <3> QED
      BY <2>3, <3>1, <3>2
  <2> QED
    BY <2>2, <2>3
<1>5. ClassStates'
  BY <1>0 DEF TypeOK, ClassStates, PlainLockword, ClaimsHeld, Claimed
<1>6. OkMeansReady'
  BY <1>0 DEF TypeOK, OkMeansReady, PlainLockword
<1>7. FailureWakesAll'
  BY <1>0 DEF TypeOK, FailureWakesAll
<1> QED
  BY <1>1, <1>2, <1>3, <1>4, <1>5, <1>6, <1>7

\* From here on the superclass is as it is.
LEMMA InvokeClinitIInv ==
  ASSUME InitAssumption, IInv, NEW t \in Threads, InvokeClinit(t)
  PROVE  IInv'
<1> USE DEF InitAssumption, IInv, InvokeClinit, PlainLockword, Goto, class
<1>0. /\ pc[t] \in Pcs /\ at[t] \in Classes \cup {None}
      /\ pc[t] # "java" => at[t] \in Classes
  BY DEF TypeOK, Pcs
<1>8. /\ stack[t] \in Seq(Classes)
      /\ stack' \in [Threads -> Seq(Classes)]
      /\ stack'[t] = <<at[t]>> \o stack[t]
      /\ \A u \in Threads : u # t => stack'[u] = stack[u]
  BY <1>0, PushSeq DEF TypeOK
<1>9. /\ DOMAIN stack'[t] = 1..(Len(stack[t]) + 1)
      /\ DOMAIN stack[t] = 1..Len(stack[t])
      /\ stack'[t][1] = at[t]
      /\ \A i \in 1..Len(stack[t]) : stack'[t][i + 1] = stack[t][i]
      /\ Len(stack[t]) \in Nat
  BY <1>0, <1>8, PushSeq
<1>10. \A i \in DOMAIN stack'[t] :
        i # 1 => /\ i - 1 \in DOMAIN stack[t]
                 /\ stack'[t][i] = stack[t][i - 1]
                 /\ i - 1 # 1 => stack'[t][i - 1] = stack[t][(i - 1) - 1]
  BY <1>9
<1>1. TypeOK'
  BY <1>0, <1>8 DEF TypeOK, Pcs
<1>2. ClaimsHeld'
  <2>1. \A u \in Threads : u # t =>
          stack'[u] = stack[u] /\ pc'[u] = pc[u] /\ at'[u] = at[u]
    BY <1>8 DEF TypeOK
  <2>2. \A i, j \in DOMAIN stack'[t] : stack'[t][i] = stack'[t][j] => i = j
    BY <1>0, <1>9, <1>10 DEF ClaimsHeld, Claimed
  <2>3. \A i \in DOMAIN stack'[t] : initializing[stack'[t][i]] = t
    BY <1>0, <1>9, <1>10 DEF ClaimsHeld, Claimed
  <2>4. pc'[t] \notin Claimed
    BY DEF Claimed, TypeOK
  <2> QED
    BY <2>1, <2>2, <2>3, <2>4 DEF ClaimsHeld
<1>3. Phases'
  <2>1. \A u \in Threads : u # t =>
          stack'[u] = stack[u] /\ pc'[u] = pc[u] /\ at'[u] = at[u]
    BY <1>8 DEF TypeOK
  <2> SUFFICES ASSUME NEW u \in Threads
      PROVE  /\ pc'[u] \in {"super", "fields"} => at'[u] \notin began'
             /\ pc'[u] = "finish" => at'[u] \in began'
             /\ \A i \in DOMAIN stack'[u] : stack'[u][i] \notin began' =>
                  IF i = 1
                  THEN pc'[u] # "java" /\ at'[u] = Super[stack'[u][i]]
                  ELSE stack'[u][i - 1] = Super[stack'[u][i]]
    BY DEF Phases
  <2>2. CASE u # t
    BY <2>1, <2>2 DEF Phases, ClaimsHeld, Claimed, TypeOK
  <2>3. CASE u = t
    <3>1. \A i \in DOMAIN stack[t] : stack[t][i] \notin began =>
            IF i = 1 THEN at[t] = Super[stack[t][i]]
                     ELSE stack[t][i - 1] = Super[stack[t][i]]
      BY DEF Phases
    <3> QED
      BY <1>0, <1>9, <1>10, <2>3, <3>1 DEF TypeOK
  <2> QED
    BY <2>2, <2>3
<1>4. SupersReady'
  <2>1. \A u \in Threads : u # t =>
          stack'[u] = stack[u] /\ pc'[u] = pc[u] /\ at'[u] = at[u]
    BY <1>8 DEF TypeOK
  <2> SUFFICES ASSUME NEW u \in Threads
               PROVE  /\ pc'[u] = "fields" => Ready7(u, at'[u])
                      /\ \A i \in DOMAIN stack'[u] : stack'[u][i] \in began' =>
                           /\ Ready7(u, stack'[u][i])
                           /\ Super[stack'[u][i]] \notin initialized =>
                                /\ \A j \in 1..(i - 1) :
                                     stack'[u][j] # Super[stack'[u][i]]
                                /\ pc'[u] \in Claimed =>
                                     at'[u] # Super[stack'[u][i]]
    BY DEF SupersReady, Ready7
  <2>2. CASE u # t
    BY <2>1, <2>2 DEF SupersReady, ClaimsHeld, Claimed, TypeOK
  <2>3. CASE u = t
    <3>1. pc'[t] \notin Claimed \cup {"fields"}
      BY DEF Claimed, TypeOK
    <3>2. ASSUME NEW i \in DOMAIN stack'[t], stack'[t][i] \in began'
          PROVE  /\ Ready7(t, stack'[t][i])
                 /\ Super[stack'[t][i]] \notin initialized =>
                      \A j \in 1..(i - 1) : stack'[t][j] # Super[stack'[t][i]]
      <4>1. CASE i = 1
        BY <1>0, <1>9, <3>2, <4>1 DEF SupersReady, Phases, Claimed
      <4>2. CASE i # 1
        <5>1. /\ i - 1 \in DOMAIN stack[t]
              /\ stack'[t][i] = stack[t][i - 1]
              /\ i \in 1..(Len(stack[t]) + 1)
          BY <1>9, <1>10, <4>2
        <5>4. ASSUME NEW j \in 1..(i - 1), j # 1
              PROVE  /\ j - 1 \in 1..((i - 1) - 1)
                     /\ stack'[t][j] = stack[t][j - 1]
          <6>1. /\ j \in DOMAIN stack'[t]
                /\ j - 1 \in 1..((i - 1) - 1)
            BY <1>9, <5>1, <5>4
          <6> QED
            BY <1>10, <5>4, <6>1
        <5>2. stack[t][i - 1] \in began
          BY <1>0, <3>2, <5>1 DEF ClaimsHeld, Claimed
        <5>3. /\ Ready7(t, stack[t][i - 1])
              /\ Super[stack[t][i - 1]] \notin initialized =>
                   /\ \A j \in 1..((i - 1) - 1) :
                        stack[t][j] # Super[stack[t][i - 1]]
                   /\ at[t] # Super[stack[t][i - 1]]
          BY <1>0, <5>1, <5>2 DEF SupersReady, Claimed
        <5> QED
          BY <1>9, <5>1, <5>3, <5>4
      <4> QED
        BY <4>1, <4>2
    <3> QED
      BY <2>3, <3>1, <3>2
  <2> QED
    BY <2>2, <2>3
<1>5. ClassStates'
  BY <1>0 DEF TypeOK, ClassStates, PlainLockword, ClaimsHeld, Claimed
<1>6. OkMeansReady'
  BY <1>0 DEF TypeOK, OkMeansReady, PlainLockword
<1>7. FailureWakesAll'
  BY <1>0 DEF TypeOK, FailureWakesAll
<1> QED
  BY <1>1, <1>2, <1>3, <1>4, <1>5, <1>6, <1>7

\* A call that has claimed nothing ends.
LEMMA RequestFailsIInv ==
  ASSUME InitAssumption, IInv, NEW t \in Threads, RequestFails(t)
  PROVE  IInv'
<1> USE DEF InitAssumption, IInv, RequestFails, Goto, class
<1>0. /\ pc[t] \in Pcs /\ at[t] \in Classes \cup {None}
      /\ pc[t] # "java" => at[t] \in Classes
  BY DEF TypeOK, Pcs
<1>1. PICK pcs : pcs = pc
  OBVIOUS
<1>2. Ends(pcs, t, FALSE)
  <2>1. /\ pc[t] # "java"
        /\ FALSE \in BOOLEAN
        /\ FALSE => pc[t] = "done"
        /\ pcs \in [Threads -> Pcs]
        /\ initialized' = initialized
        /\ began' = began
        /\ initializing' = initializing
        /\ initializing \in [Classes -> Threads \cup {None}]
    BY <1>1 DEF TypeOK
  <2>2. ReturnAmong(pcs, t, FALSE)
    BY <1>1 DEF Return
  <2> QED
    BY <1>1, <2>1, <2>2 DEF Ends
<1>3. TypeOK'
  BY <1>0, <1>2, ReturnKeeps DEF TypeOK
<1>4. ClaimsHeld' /\ Phases' /\ SupersReady'
  BY <1>2, ReturnKeeps
<1>5. ClassStates'
  BY <1>0 DEF TypeOK, ClassStates
<1>6. OkMeansReady'
  <2>1. \A u \in Threads : pc'[u] = "done" =>
          u # t /\ pc[u] = "done" /\ at'[u] = at[u]
    BY <1>2, ReturnKeeps
  <2> QED
    BY <1>0, <2>1 DEF TypeOK, OkMeansReady
<1>7. FailureWakesAll'
  <2>1. \A u \in Threads : pc'[u] = "asleep" =>
          pc[u] = "asleep" /\ at'[u] = at[u]
    BY <1>2, ReturnKeeps
  <2> QED
    BY <2>1 DEF FailureWakesAll
<1> QED
  BY <1>3, <1>4, <1>5, <1>6, <1>7

\* A call that has claimed nothing ends.
LEMMA RefuseIInv ==
  ASSUME InitAssumption, IInv, NEW t \in Threads, Refuse(t)
  PROVE  IInv'
<1> USE DEF InitAssumption, IInv, Refuse, Entering, Goto, class
<1>0. /\ pc[t] \in Pcs /\ at[t] \in Classes \cup {None}
      /\ pc[t] # "java" => at[t] \in Classes
  BY DEF TypeOK, Pcs
<1>1. PICK pcs : pcs = pc
  OBVIOUS
<1>2. Ends(pcs, t, FALSE)
  <2>1. /\ pc[t] # "java"
        /\ FALSE \in BOOLEAN
        /\ FALSE => pc[t] = "done"
        /\ pcs \in [Threads -> Pcs]
        /\ initialized' = initialized
        /\ began' = began
        /\ initializing' = initializing
        /\ initializing \in [Classes -> Threads \cup {None}]
    BY <1>1 DEF TypeOK
  <2>2. ReturnAmong(pcs, t, FALSE)
    BY <1>1 DEF Return
  <2> QED
    BY <1>1, <2>1, <2>2 DEF Ends
<1>3. TypeOK'
  BY <1>0, <1>2, ReturnKeeps DEF TypeOK
<1>4. ClaimsHeld' /\ Phases' /\ SupersReady'
  BY <1>2, ReturnKeeps
<1>5. ClassStates'
  BY <1>0 DEF TypeOK, ClassStates
<1>6. OkMeansReady'
  <2>1. \A u \in Threads : pc'[u] = "done" =>
          u # t /\ pc[u] = "done" /\ at'[u] = at[u]
    BY <1>2, ReturnKeeps
  <2> QED
    BY <1>0, <2>1 DEF TypeOK, OkMeansReady
<1>7. FailureWakesAll'
  <2>1. \A u \in Threads : pc'[u] = "asleep" =>
          pc[u] = "asleep" /\ at'[u] = at[u]
    BY <1>2, ReturnKeeps
  <2> QED
    BY <2>1 DEF FailureWakesAll
<1> QED
  BY <1>3, <1>4, <1>5, <1>6, <1>7

\* A call that has claimed nothing ends.
LEMMA WaitFailsIInv ==
  ASSUME InitAssumption, IInv, NEW t \in Threads, WaitFails(t)
  PROVE  IInv'
<1> USE DEF InitAssumption, IInv, WaitFails, Goto, class
<1>0. /\ pc[t] \in Pcs /\ at[t] \in Classes \cup {None}
      /\ pc[t] # "java" => at[t] \in Classes
  BY DEF TypeOK, Pcs
<1>1. PICK pcs : pcs = pc
  OBVIOUS
<1>2. Ends(pcs, t, FALSE)
  <2>1. /\ pc[t] # "java"
        /\ FALSE \in BOOLEAN
        /\ FALSE => pc[t] = "done"
        /\ pcs \in [Threads -> Pcs]
        /\ initialized' = initialized
        /\ began' = began
        /\ initializing' = initializing
        /\ initializing \in [Classes -> Threads \cup {None}]
    BY <1>1 DEF TypeOK
  <2>2. ReturnAmong(pcs, t, FALSE)
    BY <1>1 DEF Return
  <2> QED
    BY <1>1, <2>1, <2>2 DEF Ends
<1>3. TypeOK'
  BY <1>0, <1>2, ReturnKeeps DEF TypeOK
<1>4. ClaimsHeld' /\ Phases' /\ SupersReady'
  BY <1>2, ReturnKeeps
<1>5. ClassStates'
  BY <1>0 DEF TypeOK, ClassStates
<1>6. OkMeansReady'
  <2>1. \A u \in Threads : pc'[u] = "done" =>
          u # t /\ pc[u] = "done" /\ at'[u] = at[u]
    BY <1>2, ReturnKeeps
  <2> QED
    BY <1>0, <2>1 DEF TypeOK, OkMeansReady
<1>7. FailureWakesAll'
  <2>1. \A u \in Threads : pc'[u] = "asleep" =>
          pc[u] = "asleep" /\ at'[u] = at[u]
    BY <1>2, ReturnKeeps
  <2> QED
    BY <2>1 DEF FailureWakesAll
<1> QED
  BY <1>3, <1>4, <1>5, <1>6, <1>7

\* The claim stays behind.
LEMMA FieldsFailIInv ==
  ASSUME InitAssumption, IInv, NEW t \in Threads, FieldsFail(t)
  PROVE  IInv'
<1> USE DEF InitAssumption, IInv, FieldsFail, PlainLockword, Goto, class
<1>0. /\ pc[t] \in Pcs /\ at[t] \in Classes \cup {None}
      /\ pc[t] # "java" => at[t] \in Classes
  BY DEF TypeOK, Pcs
<1>1. PICK pcs : pcs = pc
  OBVIOUS
<1>2. Ends(pcs, t, FALSE)
  <2>1. /\ pc[t] # "java"
        /\ FALSE \in BOOLEAN
        /\ FALSE => pc[t] = "done"
        /\ pcs \in [Threads -> Pcs]
        /\ initialized' = initialized
        /\ began' = began
        /\ initializing' = initializing
        /\ initializing \in [Classes -> Threads \cup {None}]
    BY <1>1 DEF TypeOK
  <2>2. ReturnAmong(pcs, t, FALSE)
    BY <1>1 DEF Return
  <2> QED
    BY <1>1, <2>1, <2>2 DEF Ends
<1>3. TypeOK'
  BY <1>0, <1>2, ReturnKeeps DEF TypeOK
<1>4. ClaimsHeld' /\ Phases' /\ SupersReady'
  BY <1>2, ReturnKeeps
<1>5. ClassStates'
  BY <1>0 DEF TypeOK, ClassStates
<1>6. OkMeansReady'
  <2>1. \A u \in Threads : pc'[u] = "done" =>
          u # t /\ pc[u] = "done" /\ at'[u] = at[u]
    BY <1>2, ReturnKeeps
  <2> QED
    BY <1>0, <2>1 DEF TypeOK, OkMeansReady
<1>7. FailureWakesAll'
  <2>1. \A u \in Threads : pc'[u] = "asleep" =>
          pc[u] = "asleep" /\ at'[u] = at[u]
    BY <1>2, ReturnKeeps
  <2> QED
    BY <2>1 DEF FailureWakesAll
<1> QED
  BY <1>3, <1>4, <1>5, <1>6, <1>7

\* The claim stays behind.
LEMMA EndFailsIInv ==
  ASSUME InitAssumption, IInv, NEW t \in Threads, EndFails(t)
  PROVE  IInv'
<1> USE DEF InitAssumption, IInv, EndFails, Goto, class
<1>0. /\ pc[t] \in Pcs /\ at[t] \in Classes \cup {None}
      /\ pc[t] # "java" => at[t] \in Classes
  BY DEF TypeOK, Pcs
<1>1. PICK pcs : pcs = pc
  OBVIOUS
<1>2. Ends(pcs, t, FALSE)
  <2>1. /\ pc[t] # "java"
        /\ FALSE \in BOOLEAN
        /\ FALSE => pc[t] = "done"
        /\ pcs \in [Threads -> Pcs]
        /\ initialized' = initialized
        /\ began' = began
        /\ initializing' = initializing
        /\ initializing \in [Classes -> Threads \cup {None}]
    BY <1>1 DEF TypeOK
  <2>2. ReturnAmong(pcs, t, FALSE)
    BY <1>1 DEF Return
  <2> QED
    BY <1>1, <2>1, <2>2 DEF Ends
<1>3. TypeOK'
  BY <1>0, <1>2, ReturnKeeps DEF TypeOK
<1>4. ClaimsHeld' /\ Phases' /\ SupersReady'
  BY <1>2, ReturnKeeps
<1>5. ClassStates'
  BY <1>0 DEF TypeOK, ClassStates
<1>6. OkMeansReady'
  <2>1. \A u \in Threads : pc'[u] = "done" =>
          u # t /\ pc[u] = "done" /\ at'[u] = at[u]
    BY <1>2, ReturnKeeps
  <2> QED
    BY <1>0, <2>1 DEF TypeOK, OkMeansReady
<1>7. FailureWakesAll'
  <2>1. \A u \in Threads : pc'[u] = "asleep" =>
          pc[u] = "asleep" /\ at'[u] = at[u]
    BY <1>2, ReturnKeeps
  <2> QED
    BY <2>1 DEF FailureWakesAll
<1> QED
  BY <1>3, <1>4, <1>5, <1>6, <1>7

\* The class is ready for the call around.
LEMMA DoneIInv ==
  ASSUME InitAssumption, IInv, NEW t \in Threads, Done(t)
  PROVE  IInv'
<1> USE DEF InitAssumption, IInv, Done, FullLockword, Goto, class
<1>0. /\ pc[t] \in Pcs /\ at[t] \in Classes \cup {None}
      /\ pc[t] # "java" => at[t] \in Classes
  BY DEF TypeOK, Pcs
<1>1. PICK pcs : pcs = pc
  OBVIOUS
<1>2. Ends(pcs, t, TRUE)
  <2>1. /\ pc[t] # "java"
        /\ TRUE \in BOOLEAN
        /\ TRUE => pc[t] = "done"
        /\ pcs \in [Threads -> Pcs]
        /\ initialized' = initialized
        /\ began' = began
        /\ initializing' = initializing
        /\ initializing \in [Classes -> Threads \cup {None}]
    BY <1>1 DEF TypeOK
  <2>2. ReturnAmong(pcs, t, TRUE)
    BY <1>1 DEF Return
  <2> QED
    BY <1>1, <2>1, <2>2 DEF Ends
<1>3. TypeOK'
  BY <1>0, <1>2, ReturnKeeps DEF TypeOK
<1>4. ClaimsHeld' /\ Phases' /\ SupersReady'
  BY <1>2, ReturnKeeps
<1>5. ClassStates'
  BY <1>0 DEF TypeOK, ClassStates
<1>6. OkMeansReady'
  <2>1. \A u \in Threads : pc'[u] = "done" =>
          u # t /\ pc[u] = "done" /\ at'[u] = at[u]
    BY <1>2, ReturnKeeps
  <2> QED
    BY <1>0, <2>1 DEF TypeOK, OkMeansReady
<1>7. FailureWakesAll'
  <2>1. \A u \in Threads : pc'[u] = "asleep" =>
          pc[u] = "asleep" /\ at'[u] = at[u]
    BY <1>2, ReturnKeeps
  <2> QED
    BY <2>1 DEF FailureWakesAll
<1> QED
  BY <1>3, <1>4, <1>5, <1>6, <1>7

\* The class that <clinit> belongs to comes back from the stack.
LEMMA ClinitEndsIInv ==
  ASSUME InitAssumption, IInv, NEW t \in Threads, ClinitEnds(t)
  PROVE  IInv'
<1> USE DEF InitAssumption, IInv, ClinitEnds, Goto, class
<1>1. PICK l \in {"finish", "error"} : pc' = [pc EXCEPT ![t] = l]
  OBVIOUS
<1>2. /\ pc[t] = "java"
      /\ stack[t] \in Seq(Classes)
      /\ stack[t] # <<>>
  BY DEF TypeOK
<1>3. /\ Tail(stack[t]) \in Seq(Classes)
      /\ stack[t][1] \in Classes
      /\ 1 \in DOMAIN stack[t]
      /\ DOMAIN stack[t] = 1..Len(stack[t])
      /\ DOMAIN Tail(stack[t]) = 1..(Len(stack[t]) - 1)
      /\ \A i \in 1..(Len(stack[t]) - 1) : Tail(stack[t])[i] = stack[t][i + 1]
      /\ Len(stack[t]) \in Nat \ {0}
      /\ Head(stack[t]) = stack[t][1]
  BY <1>2, PopSeq
<1>4. /\ at' = [at EXCEPT ![t] = stack[t][1]]
      /\ at'[t] = stack[t][1]
      /\ stack'[t] = Tail(stack[t])
      /\ pc'[t] = l
      /\ \A u \in Threads : u # t =>
           stack'[u] = stack[u] /\ pc'[u] = pc[u] /\ at'[u] = at[u]
  BY <1>1, <1>3 DEF TypeOK
<1>5. \A i \in DOMAIN stack'[t] :
        /\ i + 1 \in DOMAIN stack[t]
        /\ i + 1 # 1
        /\ (i + 1) - 1 = i
        /\ stack'[t][i] = stack[t][i + 1]
        /\ i # 1 => stack'[t][i - 1] = stack[t][i]
        /\ \A j \in 1..(i - 1) :
             j + 1 \in 1..((i + 1) - 1) /\ stack'[t][j] = stack[t][j + 1]
  <2> SUFFICES ASSUME NEW i \in DOMAIN stack'[t]
               PROVE  /\ i + 1 \in DOMAIN stack[t]
                      /\ i + 1 # 1
                      /\ (i + 1) - 1 = i
                      /\ stack'[t][i] = stack[t][i + 1]
                      /\ i # 1 => stack'[t][i - 1] = stack[t][i]
                      /\ \A j \in 1..(i - 1) :
                           /\ j + 1 \in 1..((i + 1) - 1)
                           /\ stack'[t][j] = stack[t][j + 1]
    OBVIOUS
  <2>1. i \in 1..(Len(stack[t]) - 1)
    BY <1>3, <1>4
  <2>2. i # 1 => i - 1 \in 1..(Len(stack[t]) - 1) /\ (i - 1) + 1 = i
    BY <1>3, <2>1
  <2>3. \A j \in 1..(i - 1) :
          j \in 1..(Len(stack[t]) - 1) /\ j + 1 \in 1..((i + 1) - 1)
    BY <1>3, <2>1
  <2>4. i + 1 \in DOMAIN stack[t] /\ i + 1 # 1 /\ (i + 1) - 1 = i
    BY <1>3, <2>1
  <2> QED
    BY <1>3, <1>4, <2>1, <2>2, <2>3, <2>4
<1>6. stack[t][1] \in began
  BY <1>2, <1>3 DEF Phases
<1>7. TypeOK'
  BY <1>1, <1>2, <1>3 DEF TypeOK, Pcs
<1>8. ClaimsHeld'
  <2>1. \A i, j \in DOMAIN stack[t] : stack[t][i] = stack[t][j] => i = j
    BY DEF ClaimsHeld
  <2>2. \A i, j \in DOMAIN stack'[t] : i + 1 = j + 1 => i = j
    BY <1>3, <1>4
  <2>3. \A i, j \in DOMAIN stack'[t] : stack'[t][i] = stack'[t][j] => i = j
    BY <1>5, <2>1, <2>2
  <2>4. \A i \in DOMAIN stack'[t] :
          initializing[stack'[t][i]] = t /\ stack'[t][i] # stack[t][1]
    BY <1>3, <1>5, <2>1 DEF ClaimsHeld
  <2>5. initializing[stack[t][1]] = t
    BY <1>3 DEF ClaimsHeld
  <2> QED
    BY <1>4, <2>3, <2>4, <2>5 DEF ClaimsHeld
<1>9. Phases'
  <2>1. \A i \in DOMAIN stack[t] : stack[t][i] \notin began /\ i # 1 =>
          stack[t][i - 1] = Super[stack[t][i]]
    BY DEF Phases
  <2>2. \A i \in DOMAIN stack'[t] : stack'[t][i] \notin began =>
          stack[t][i] = Super[stack'[t][i]]
    BY <1>5, <2>1
  <2>3. \A i \in DOMAIN stack'[t] : stack'[t][i] \notin began =>
          IF i = 1 THEN at'[t] = Super[stack'[t][i]]
                   ELSE stack'[t][i - 1] = Super[stack'[t][i]]
    BY <1>4, <1>5, <2>2
  <2> QED
    BY <1>4, <1>6, <2>3 DEF Phases
<1>10. SupersReady'
  <2>1. ASSUME NEW i \in DOMAIN stack'[t], stack'[t][i] \in began
        PROVE  /\ Ready7(t, stack'[t][i])
               /\ Super[stack'[t][i]] \notin initialized =>
                    /\ \A j \in 1..(i - 1) :
                         stack'[t][j] # Super[stack'[t][i]]
                    /\ at'[t] # Super[stack'[t][i]]
    <3>1. stack[t][i + 1] \in began /\ stack'[t][i] = stack[t][i + 1]
      BY <1>5, <2>1
    <3>2. /\ Ready7(t, stack[t][i + 1])
          /\ Super[stack[t][i + 1]] \notin initialized =>
               \A j \in 1..((i + 1) - 1) : stack[t][j] # Super[stack[t][i + 1]]
      BY <1>5, <3>1 DEF SupersReady
    <3>3. 1 \in 1..((i + 1) - 1)
      BY <1>3, <1>4
    <3> QED
      BY <1>4, <1>5, <3>1, <3>2, <3>3
  <2>2. \A u \in Threads : u # t => pc'[u] = pc[u]
    BY <1>4
  <2> QED
    BY <1>4, <2>1 DEF SupersReady, Ready7
<1>11. ClassStates' /\ OkMeansReady' /\ FailureWakesAll'
  BY <1>4 DEF ClassStates, OkMeansReady, FailureWakesAll
<1> QED
  BY <1>7, <1>8, <1>9, <1>10, <1>11

\* A claim that is given up, and everybody awake.
LEMMA ErrorIInv ==
  ASSUME InitAssumption, IInv, NEW t \in Threads, Error(t)
  PROVE  IInv'
<1> USE DEF InitAssumption, IInv, Error
<1>0. /\ pc[t] = "error" /\ at[t] \in Classes /\ initializing[at[t]] = t
      /\ t # None
  BY DEF TypeOK, ClaimsHeld, Claimed
<1>1. PICK pcs \in {pc, NotifyAll(at[t])} :
        /\ ReturnAmong(pcs, t, FALSE)
        /\ \/ pcs = NotifyAll(at[t]) /\ silent' = silent
           \/ silent' = silent \cup {at[t]}
  BY DEF Return
<1>2. Ends(pcs, t, FALSE)
  <2>1. /\ pc \in [Threads -> Pcs]
        /\ NotifyAll(at[t]) \in [Threads -> Pcs]
    BY DEF TypeOK, Pcs, NotifyAll
  <2>2. \A u \in Threads :
          \/ NotifyAll(at[t])[u] = pc[u]
          \/ pc[u] = "asleep" /\ NotifyAll(at[t])[u] = "woken"
    BY DEF NotifyAll
  <2> QED
    BY <1>0, <1>1, <2>1, <2>2 DEF Ends, TypeOK
<1>3. TypeOK'
  BY <1>0, <1>1, <1>2, ReturnKeeps DEF TypeOK
<1>4. ClaimsHeld' /\ Phases' /\ SupersReady'
  BY <1>2, ReturnKeeps
<1>5. ClassStates'
  BY <1>0 DEF TypeOK, ClassStates
<1>6. OkMeansReady'
  <2>1. \A u \in Threads : pc'[u] = "done" =>
          u # t /\ pc[u] = "done" /\ at'[u] = at[u]
    BY <1>2, ReturnKeeps
  <2> QED
    BY <1>0, <2>1 DEF TypeOK, OkMeansReady
<1>7. FailureWakesAll'
  <2>1. \A u \in Threads : pc'[u] = "asleep" =>
          pc[u] = "asleep" /\ pcs[u] = "asleep" /\ at'[u] = at[u]
    <3>1. \A u \in Threads : pc'[u] \in {"done", "asleep"} =>
            u # t /\ pc[u] = pc'[u] /\ pcs[u] = pc[u] /\ at'[u] = at[u]
      BY <1>2, ReturnKeeps
    <3> QED
      BY <3>1
  <2>2. \A u \in Threads :
          pcs = NotifyAll(at[t]) /\ pcs[u] = "asleep" => at[u] # at[t]
    BY DEF NotifyAll
  <2> QED
    BY <1>1, <2>1, <2>2 DEF FailureWakesAll
<1> QED
  BY <1>3, <1>4, <1>5, <1>6, <1>7

-----------------------------------------------------------------------------

\* At the start nobody has claimed anything.
LEMMA InitIInv ==
  ASSUME InitAssumption, Init  PROVE IInv
<1> USE DEF InitAssumption, Init, IInv
<1>1. <<>> \in Seq(Classes) /\ DOMAIN <<>> = {}
  OBVIOUS
<1> QED
  BY <1>1 DEF TypeOK, Pcs, ClaimsHeld, Claimed, Phases, SupersReady,
              ClassStates, OkMeansReady, FailureWakesAll

\* Every step keeps the invariant.
LEMMA NextIInv ==
  ASSUME InitAssumption, IInv, [Next]_vars  PROVE IInv'
<1>1. ASSUME NEW t \in Threads, NEW c \in Classes, Request(t, c)  PROVE IInv'
  BY <1>1, RequestIInv
<1>2. ASSUME NEW t \in Threads, Step(t)  PROVE IInv'
  BY <1>2, RequestFailsIInv, WaitIInv, ReadyIInv, RefuseIInv, ClaimIInv,
     WaitFailsIInv, OtherNotifyIInv, NeedSuperIInv, HaveSuperIInv,
     InvokeClinitIInv, FieldsFailIInv, ClinitEndsIInv, FinishIInv, DoneIInv,
     EndFailsIInv, ErrorIInv DEF Step
<1>3. CASE UNCHANGED vars
  BY <1>3 DEF vars, class, IInv, TypeOK, ClaimsHeld, Phases, SupersReady,
              Ready7, ClassStates, OkMeansReady, FailureWakesAll
<1> QED
  BY <1>1, <1>2, <1>3 DEF Next

\* The inductive invariant holds in every reachable state.
THEOREM Invariance == InitAssumption => (Spec => []IInv)
<1> SUFFICES ASSUME InitAssumption  PROVE Spec => []IInv
  OBVIOUS
<1> QED
  BY InitIInv, NextIInv, PTL DEF Spec

\* Type correctness, and that a thread is in a call unless in Java code.
THEOREM TypeCorrect == InitAssumption => (Spec => []TypeOK)
<1>1. IInv => TypeOK
  BY DEF IInv
<1> QED
  BY <1>1, Invariance, PTL

\* One thread initializes a class, and no <clinit> is invoked again.
THEOREM InitializedOnce == InitAssumption => (Spec => []ClinitOnce)
<1>1. ASSUME IInv  PROVE ClinitOnce
  <2>1. \A t \in Threads : \A c \in Active(t) : initializing[c] = t
    BY <1>1 DEF IInv, ClaimsHeld, Active
  <2>2. \A t \in Threads : \A u \in Threads \ {t} :
          Active(t) \cap Active(u) = {}
    BY <2>1
  <2> QED
    BY <1>1, <2>2 DEF IInv, Phases, ClinitOnce
<1> QED
  BY <1>1, Invariance, PTL

\* No <clinit> runs before the superclass is initialized, unless it is the
\* thread itself that initializes the superclass.
THEOREM SuperclassesFirst == InitAssumption => (Spec => []SuperFirst)
<1>1. IInv => SuperFirst
  BY DEF IInv, SupersReady, Ready7, SuperFirst
<1> QED
  BY <1>1, Invariance, PTL

\* No thread is told that it may use a class before it may.
THEOREM ReadyWhenTold == InitAssumption => (Spec => []OkMeansReady)
<1>1. IInv => OkMeansReady
  BY DEF IInv
<1> QED
  BY <1>1, Invariance, PTL

\* A failed initialization wakes all who wait for it.
THEOREM FailuresWake == InitAssumption => (Spec => []FailureWakesAll)
<1>1. IInv => FailureWakesAll
  BY DEF IInv
<1> QED
  BY <1>1, Invariance, PTL

\* The outcome of an initialization is final.
THEOREM OutcomesFinal == InitAssumption => (Spec => FlagsAreFinal)
<1> SUFFICES ASSUME InitAssumption  PROVE Spec => FlagsAreFinal
  OBVIOUS
<1> DEFINE Final == /\ initialized \subseteq initialized'
                    /\ failed \subseteq failed'
                    /\ initialized' \cap failed' = {}
                    /\ \A c \in initialized \cup failed :
                         initializing'[c] = None
<1>1. ASSUME IInv, [Next]_vars  PROVE Final
  <2>1. IInv'
    BY <1>1, NextIInv
  <2>2. initialized \subseteq initialized' /\ failed \subseteq failed'
    BY <1>1 DEF Next, Step, Request, RequestFails, Wait, Ready, Refuse, Claim,
       WaitFails, OtherNotify, NeedSuper, HaveSuper, InvokeClinit, FieldsFail,
       ClinitEnds, Finish, Done, EndFails, Error, vars, class
  <2> QED
    BY <2>1, <2>2 DEF IInv, ClassStates, TypeOK
<1> QED
  BY <1>1, Invariance, PTL DEF Spec, FlagsAreFinal
=============================================================================
