----------------------------- MODULE HeapProofs -----------------------------
(***************************************************************************)
(* Proofs about module Heap: threads that allocate without a lock are given *)
(* memory that is apart, for any number of threads, pages and sizes, until  *)
(* one of them is misled by a reservation in progress; a walk over the heap *)
(* finds every object, and the heap passes heap_check(), as long.           *)
(***************************************************************************)
EXTENDS Heap, WellFoundedInduction, TLAPS

-----------------------------------------------------------------------------
(* Words, ends, and the greatest of a set of pages *)

\* What each kind of word is made of.
LEMMA WordFields ==
  ASSUME HeapAssumption, HeapTypeOK, NEW p \in PageNos
  PROVE  /\ page[p].t \in {"free", "small", "large", "alloc"}
         /\ page[p].t = "free" <=> page[p] = Free
         /\ page[p].t = "large" => page[p].n \in Nat \ {0}
         /\ page[p].t = "alloc" => page[p].n \in Nat \ {0}
         /\ page[p].t = "small" => page[p].size \in Sizes /\ page[p].next \in PageNos \cup {None}
<1>1. page[p] \in Words
  BY DEF HeapTypeOK
<1>2. CASE page[p] = Free
  BY <1>2 DEF Free
<1>3. CASE \E n \in LargeSizes : page[p] = Large(n)
  BY <1>3 DEF Large, Free, HeapAssumption
<1>4. CASE \E m \in LargeSizes \cup {1} : \E n \in 1..m : page[p] = Alloc(n)
  BY <1>4 DEF Alloc, Free, HeapAssumption
<1>5. CASE \E s \in Sizes, q \in PageNos \cup {None} : page[p] = Small(s, q)
  BY <1>5 DEF Small, Free
<1> QED
  BY <1>1, <1>2, <1>3, <1>4, <1>5 DEF Words

\* What the words that threads write are.
LEMMA NewWords ==
  ASSUME HeapAssumption
  PROVE  /\ Free \in Words /\ Free.t = "free"
         /\ \A n \in LargeSizes : Large(n) \in Words /\ Large(n).t = "large" /\ Large(n).n = n
         /\ \A m \in LargeSizes \cup {1} : \A n \in 1..m :
              Alloc(n) \in Words /\ Alloc(n).t = "alloc" /\ Alloc(n).n = n /\ Alloc(n) # Free
         /\ \A s \in Sizes, q \in PageNos \cup {None} :
              /\ Small(s, q) \in Words /\ Small(s, q).t = "small"
              /\ Small(s, q).size = s /\ Small(s, q).next = q
<1>1. Free \in Words /\ Free.t = "free"
  BY DEF Words, Free
<1>2. ASSUME NEW n \in LargeSizes
      PROVE  Large(n) \in Words /\ Large(n).t = "large" /\ Large(n).n = n
  BY DEF Words, Large
<1>3. ASSUME NEW m \in LargeSizes \cup {1}, NEW n \in 1..m
      PROVE  Alloc(n) \in Words /\ Alloc(n).t = "alloc" /\ Alloc(n).n = n /\ Alloc(n) # Free
  <2>1. n \in UNION {1..k : k \in LargeSizes \cup {1}}
    OBVIOUS
  <2>2. Alloc(n) \in Words
    BY <2>1 DEF Words
  <2> QED
    BY <2>2 DEF Alloc, Free
<1>4. ASSUME NEW s \in Sizes, NEW q \in PageNos \cup {None}
      PROVE  /\ Small(s, q) \in Words /\ Small(s, q).t = "small"
             /\ Small(s, q).size = s /\ Small(s, q).next = q
  BY DEF Words, Small
<1> QED
  BY <1>1, <1>2, <1>3, <1>4

\* A set of naturals that is not empty has a least element: what a proof by induction
\* comes down to, here and below.
LEMMA Least ==
  ASSUME NEW S \in SUBSET Nat, S # {} PROVE \E m \in S : \A k \in S : m <= k
<1>1. PICK m \in S : \A k \in S : ~(<<k, m>> \in OpToRel(<, Nat))
  BY WFMin, NatLessThanWellFounded
<1>2. \A k \in S : ~(k < m)
  BY <1>1 DEF OpToRel
<1> QED
  BY <1>2

\* One that is bounded has a greatest.
LEMMA Greatest ==
  ASSUME NEW n \in Nat, NEW S \in SUBSET (0..n), S # {}
  PROVE  \E m \in S : \A k \in S : k <= m
<1> DEFINE T == {n - k : k \in S}
<1>1. T \in SUBSET Nat /\ T # {}
  <2>1. \A k \in S : n - k \in Nat
    OBVIOUS
  <2>2. T \in SUBSET Nat
    BY <2>1
  <2>3. T # {}
    OBVIOUS
  <2> QED
    BY <2>2, <2>3
<1>2. PICK i \in T : \A k \in T : i <= k
  <2> HIDE DEF T
  <2> QED
    BY <1>1, Least
<1>3. PICK m \in S : i = n - m
  BY <1>2
<1>4. ASSUME NEW k \in S PROVE k <= m
  <2>1. n - k \in T
    OBVIOUS
  <2>2. n - m <= n - k
    BY <1>2, <1>3, <2>1
  <2> QED
    BY <2>2
<1> QED
  BY <1>4

\* A set of pages has a greatest element.
LEMMA TopPage == ASSUME HeapAssumption, NEW S \in SUBSET PageNos, S # {} PROVE Max(S) \in S
<1>1. MaxPages \in Nat /\ S \in SUBSET (0..MaxPages)
  BY DEF PageNos, HeapAssumption
<1>2. \E m \in S : \A k \in S : m >= k
  <2>1. PICK m \in S : \A k \in S : k <= m
    BY <1>1, Greatest
  <2> QED
    BY <1>1, <2>1
<1> QED
  BY <1>2 DEF Max

LEMMA LeastOfTwo ==
  ASSUME NEW a \in Nat, NEW b \in Nat
  PROVE  Min({a, b}) \in {a, b} /\ Min({a, b}) <= a /\ Min({a, b}) <= b
<1>1. \E x \in {a, b} : \A y \in {a, b} : x <= y
  <2>1. CASE a <= b  BY <2>1
  <2>2. CASE b <= a  BY <2>2
  <2> QED  BY <2>1, <2>2
<1> QED
  BY <1>1 DEF Min

LEMMA EndsArePages == ASSUME HeapAssumption, IInv, NEW x, IsEnd(x) PROVE x \in Nat /\ x >= 1
<1>1. CASE x = 1
  BY <1>1
<1>2. CASE AfterPage(x)
  BY <1>2, WordFields DEF AfterPage, IInv, PageNos, HeapAssumption
<1>3. CASE AfterJob(x)
  BY <1>3 DEF AfterJob, IInv, JobTypeOK, Jobs, PagesOK
<1> QED
  BY <1>1, <1>2, <1>3 DEF IsEnd

-----------------------------------------------------------------------------
(* What a step of one thread leaves alone *)

\* Only thread t's place and variables change.
OnlyJob(t) == \A u \in Threads \ {t} : pc'[u] = pc[u] /\ job'[u] = job[u]

\* Descriptors of blocks and large objects stay while no collection runs.
PagesStay == \A p \in PageNos : page[p].t \in {"small", "large"} => page'[p] = page[p]

LEMMA EndsStay ==
  ASSUME NEW t \in Threads, OnlyJob(t), PagesStay,
         \A x : Complete(t) /\ x = job[t].ptr + job[t].n => IsEnd(x)',
         NEW x, IsEnd(x)
  PROVE  IsEnd(x)'
<1>1. CASE x = 1
  BY <1>1 DEF IsEnd
<1>2. CASE AfterPage(x)
  BY <1>2 DEF AfterPage, IsEnd, PagesStay
<1>3. CASE AfterJob(x)
  <2>1. PICK u \in Threads : Complete(u) /\ x = job[u].ptr + job[u].n
    BY <1>3 DEF AfterJob
  <2>2. CASE u = t
    BY <2>1, <2>2
  <2>3. CASE u # t
    BY <2>1, <2>3 DEF OnlyJob, Complete, AfterJob, IsEnd
  <2> QED
    BY <2>2, <2>3
<1> QED
  BY <1>1, <1>2, <1>3 DEF IsEnd

LEMMA BlocksStay ==
  ASSUME PagesStay, NEW s, NEW p
  PROVE  /\ IsPage(s, p) => IsPage(s, p)'
         /\ \A b : IsBlock(s, p, b) => IsBlock(s, p, b)'
  BY DEF PagesStay, IsPage, IsBlock

LEMMA OthersStay ==
  ASSUME NEW t \in Threads, OnlyJob(t), PagesStay, IInv, HeapAssumption,
         \A x : Complete(t) /\ x = job[t].ptr + job[t].n => IsEnd(x)',
         numPages' \in Nat, numPages <= numPages',
         NEW u \in Threads \ {t},
         \A p \in Own(u) : page'[p] = page[p],
         HasBlock(u) => block'[job[u].ptr][job[u].blk] = "alloc"
  PROVE  /\ PagesOK(u)' /\ BlocksOK(u)'
         /\ Own(u)' = Own(u) /\ (Complete(u)' <=> Complete(u)) /\ (HasBlock(u)' <=> HasBlock(u))
<1>1. pc'[u] = pc[u] /\ job'[u] = job[u]
  BY DEF OnlyJob
<1>2. Own(u)' = Own(u) /\ (Complete(u)' <=> Complete(u)) /\ (HasBlock(u)' <=> HasBlock(u))
      /\ (Reserving(u)' <=> Reserving(u))
  BY <1>1 DEF Own, Complete, HasBlock, Reserving
<1>3. \A x : IsEnd(x) => IsEnd(x)'
  BY EndsStay
<1>4. PagesOK(u) /\ BlocksOK(u) /\ numPages \in Nat
  BY DEF IInv, HeapTypeOK, HeapAssumption
<1>5. PagesOK(u)'
  <2>1. pc[u] = "mark" => job[u].ptr \in Own(u)
    <3>1. ASSUME pc[u] = "mark" PROVE Complete(u) /\ job[u].n \in LargeSizes /\ job[u].j = job[u].n
      BY <1>4, <3>1 DEF PagesOK, BlocksOK, Complete
    <3>2. job[u].ptr \in Nat /\ LargeSizes \subseteq Nat \ {0}
      BY DEF IInv, JobTypeOK, Jobs, HeapAssumption
    <3>3. ASSUME pc[u] = "mark" PROVE job[u].j \in Nat /\ job[u].j >= 1
      <4>1. job[u].j \in LargeSizes
        BY <3>1, <3>3
      <4>2. job[u].j \in Nat \ {0}
        BY <3>2, <4>1
      <4> QED
        BY <4>2
    <3>4. ASSUME NEW a \in Nat, NEW b \in Nat, b >= 1 PROVE a \in a..(a + b - 1)
      BY <3>4
    <3> QED
      BY <3>1, <3>2, <3>3, <3>4 DEF Own
  <2>2. pc[u] = "mark" => page'[job[u].ptr] = page[job[u].ptr]
    BY <2>1
  <2>3. job[u].ptr \in Nat /\ job[u].n \in Nat
    BY DEF IInv, JobTypeOK, Jobs
  <2>4. Reserving(u) \/ Complete(u) => job[u].ptr + job[u].n - 1 <= numPages'
    BY <1>4, <2>3 DEF PagesOK
  <2> QED
    BY <1>1, <1>2, <1>3, <1>4, <2>2, <2>4 DEF PagesOK
<1>6. BlocksOK(u)'
  BY <1>1, <1>2, <1>4, BlocksStay DEF BlocksOK
<1> QED
  BY <1>2, <1>5, <1>6

\* A step that changes neither the heap's words nor what is reserved.
LEMMA QuietStep ==
  ASSUME NEW t \in Threads, OnlyJob(t), IInv, HeapAssumption,
         UNCHANGED <<page, block, numPages>>, held' = held \/ \E o : held' = [held EXCEPT ![t] = @ \ {o}],
         \A x : Complete(t) /\ x = job[t].ptr + job[t].n => IsEnd(x)',
         HeapTypeOK', JobTypeOK', PagesOK(t)', BlocksOK(t)',
         Own(t)' = Own(t),
         HasBlock(t)' => HasBlock(t) /\ job'[t].ptr = job[t].ptr /\ job'[t].blk = job[t].blk,
         \A s \in Sizes : /\ list'[s] # None => IsPage(s, list'[s])
                          /\ hint'[s] # None => IsBlock(s, hint'[s][1], hint'[s][2]),
         nextPage' = nextPage \/ IsEnd(nextPage)'
  PROVE  IInv'
<1>1. PagesStay /\ numPages' \in Nat /\ numPages <= numPages'
  BY DEF PagesStay, IInv, HeapTypeOK, HeapAssumption
<1>2. ASSUME NEW u \in Threads \ {t}
      PROVE  /\ PagesOK(u)' /\ BlocksOK(u)' /\ Own(u)' = Own(u)
             /\ (HasBlock(u)' <=> HasBlock(u))
  <2>1. (\A p \in Own(u) : page'[p] = page[p]) /\ (HasBlock(u) => block'[job[u].ptr][job[u].blk] = "alloc")
    BY DEF IInv, BlocksOK
  <2> QED
    BY <1>1, <2>1, OthersStay
<1>3. \A u \in Threads : PagesOK(u)' /\ BlocksOK(u)'
  BY <1>2
<1>4. \A u \in Threads : Own(u)' = Own(u)
  BY <1>2
<1>5. ListsOK'
  <2>2. IsEnd(nextPage)'
    <3>1. CASE nextPage' = nextPage
      <4>1. \A x : IsEnd(x) => IsEnd(x)'
        BY <1>1, EndsStay
      <4>2. IsEnd(nextPage)
        BY DEF IInv, ListsOK
      <4>3. PICK x : x = nextPage
        OBVIOUS
      <4>4. IsEnd(x)' /\ x = nextPage'
        BY <3>1, <4>1, <4>2, <4>3
      <4> QED
        BY <4>4 DEF IsEnd, AfterPage, AfterJob
    <3> QED
      BY <3>1
  <2> QED
    BY <2>2 DEF ListsOK, IInv, IsPage, IsBlock
<1>6. Layout'
  <2>1. \A p : Extent(p)' = Extent(p)
    BY DEF Extent
  <2> QED
    BY <1>4, <2>1 DEF IInv, Layout
<1>7. ObjectsOK'
  <2>1. \A u \in Threads : held'[u] \subseteq held[u]
    <3>1. CASE held' = held
      BY <3>1
    <3>2. CASE \E o : held' = [held EXCEPT ![t] = @ \ {o}]
      BY <3>2 DEF IInv, HeapTypeOK
    <3> QED
      BY <3>1, <3>2
  <2>2. \A u \in Threads : HasBlock(u)' => HasBlock(u) /\ job'[u].ptr = job[u].ptr /\ job'[u].blk = job[u].blk
    BY <1>2 DEF OnlyJob
  <2>4. \A u \in Threads : \A o \in held'[u] :
          IF o[2] = 0 THEN page'[o[1]].t = "large"
          ELSE IsBlock(page'[o[1]].size, o[1], o[2]) /\ block'[o[1]][o[2]] = "obj"
    BY <2>1 DEF IInv, ObjectsOK
  <2>5. \A u, v \in Threads : u # v => held'[u] \cap held'[v] = {}
    BY <2>1 DEF IInv, ObjectsOK
  <2>6. \A u, v \in Threads : u # v /\ HasBlock(u)' /\ HasBlock(v)' =>
          <<job'[u].ptr, job'[u].blk>> # <<job'[v].ptr, job'[v].blk>>
    BY <2>2 DEF IInv, ObjectsOK
  <2> QED
    BY <2>4, <2>5, <2>6 DEF ObjectsOK, IsBlock, IsPage
<1> QED
  BY <1>3, <1>5, <1>6, <1>7 DEF IInv

-----------------------------------------------------------------------------
(* The steps that leave the heap's words alone *)

\* Thread t goes to a place with a job.
LEMMA Moves ==
  ASSUME IInv, NEW t \in Threads, NEW to \in Places, NEW r \in Jobs,
         pc' = [pc EXCEPT ![t] = to], job' = [job EXCEPT ![t] = r]
  PROVE  OnlyJob(t) /\ JobTypeOK' /\ pc'[t] = to /\ job'[t] = r
  BY DEF IInv, JobTypeOK, OnlyJob

\* It keeps its job.
LEMMA Stays ==
  ASSUME IInv, NEW t \in Threads, NEW to \in Places, To(t, to), job' = job
  PROVE  OnlyJob(t) /\ JobTypeOK' /\ pc'[t] = to /\ job'[t] = job[t]
  BY DEF IInv, JobTypeOK, OnlyJob, To

\* A thread that has nothing in its hands goes to where it has nothing either.
LEMMA EmptyHanded ==
  ASSUME HeapAssumption, IInv, NEW t \in Threads, OnlyJob(t), JobTypeOK',
         UNCHANGED <<pages, lists>>, oom' \in [Threads -> BOOLEAN],
         held' = held \/ \E o : held' = [held EXCEPT ![t] = @ \ {o}],
         pc[t] \in {"idle", "hint", "list", "try", "avail", "gc", "popped", "pop", "grab", "next"},
         Own(t)' = {}, ~HasBlock(t)',
         PagesOK(t)', BlocksOK(t)'
  PROVE  IInv'
<1>1. ~Complete(t) /\ Own(t) = {}
  BY DEF Complete, Own, Reserving
<1>2. HeapTypeOK'
  <2>0. held \in [Threads -> SUBSET Objects]
    BY DEF IInv, HeapTypeOK
  <2>1. held' \in [Threads -> SUBSET Objects]
    <3>1. CASE held' = held
      BY <2>0, <3>1
    <3>2. ASSUME NEW o, held' = [held EXCEPT ![t] = @ \ {o}]
          PROVE  held' \in [Threads -> SUBSET Objects]
      <4>1. held[t] \ {o} \in SUBSET Objects
        BY <2>0
      <4> QED
        BY <2>0, <3>2, <4>1
    <3> QED
      BY <3>1, <3>2
  <2> QED
    BY <2>1 DEF IInv, HeapTypeOK, pages, lists
<1>3. \A s \in Sizes : /\ list'[s] # None => IsPage(s, list'[s])
                       /\ hint'[s] # None => IsBlock(s, hint'[s][1], hint'[s][2])
  BY DEF IInv, ListsOK, lists
<1> QED
  BY <1>1, <1>2, <1>3, QuietStep DEF pages, lists

LEMMA NewStep ==
  ASSUME HeapAssumption, IInv, NEW t \in Threads, New(t)
  PROVE  IInv'
<1>1. UNCHANGED <<pages, lists>> /\ oom' = oom /\ held' = held /\ oom \in [Threads -> BOOLEAN]
  BY DEF New, IInv, HeapTypeOK
<1>2. CASE Goto(t, "idle", "hint") /\ \E s \in Sizes : job' = [job EXCEPT ![t] = [NoJob EXCEPT !.size = s, !.n = 1]]
  <2>1. PICK s \in Sizes : job' = [job EXCEPT ![t] = [NoJob EXCEPT !.size = s, !.n = 1]]
    BY <1>2
  <2>2. [NoJob EXCEPT !.size = s, !.n = 1] \in Jobs /\ "hint" \in Places
    BY DEF NoJob, Jobs, Places, HeapAssumption
  <2>3. OnlyJob(t) /\ JobTypeOK' /\ pc'[t] = "hint" /\ job'[t] = [NoJob EXCEPT !.size = s, !.n = 1]
    BY <1>2, <2>1, <2>2, Moves DEF Goto, To
  <2>4. Own(t)' = {} /\ ~HasBlock(t)'
    BY <2>3 DEF Own, Reserving, Complete, HasBlock
  <2>5. job'[t].size = s /\ job'[t].n = 1 /\ s # None
    BY <2>3 DEF NoJob, HeapAssumption
  <2>6. PagesOK(t)' /\ BlocksOK(t)'
    BY <2>3, <2>4, <2>5 DEF PagesOK, BlocksOK, Reserving, Complete
  <2> QED
    BY <1>1, <1>2, <2>3, <2>4, <2>6, EmptyHanded DEF Goto
<1>3. CASE Goto(t, "idle", "try") /\ \E n \in LargeSizes : job' = [job EXCEPT ![t] = [NoJob EXCEPT !.n = n]]
  <2>1. PICK n \in LargeSizes : job' = [job EXCEPT ![t] = [NoJob EXCEPT !.n = n]]
    BY <1>3
  <2>2. [NoJob EXCEPT !.n = n] \in Jobs /\ "try" \in Places
    BY DEF NoJob, Jobs, Places, HeapAssumption
  <2>3. OnlyJob(t) /\ JobTypeOK' /\ pc'[t] = "try" /\ job'[t] = [NoJob EXCEPT !.n = n]
    BY <1>3, <2>1, <2>2, Moves DEF Goto, To
  <2>4. Own(t)' = {} /\ ~HasBlock(t)'
    BY <2>3 DEF Own, Reserving, Complete, HasBlock
  <2>5. job'[t].size = None /\ job'[t].n = n
    BY <2>3 DEF NoJob
  <2>6. PagesOK(t)' /\ BlocksOK(t)'
    BY <2>3, <2>4, <2>5 DEF PagesOK, BlocksOK, Reserving, Complete
  <2> QED
    BY <1>1, <1>3, <2>3, <2>4, <2>6, EmptyHanded DEF Goto
<1> QED
  BY <1>2, <1>3 DEF New

LEMMA DropStep ==
  ASSUME HeapAssumption, IInv, NEW t \in Threads, Drop(t)
  PROVE  IInv'
<1>1. UNCHANGED <<pages, lists, oom, pc, job>> /\ pc[t] = "idle" /\ oom \in [Threads -> BOOLEAN]
      /\ \E o : held' = [held EXCEPT ![t] = @ \ {o}]
  BY DEF Drop, IInv, HeapTypeOK
<1>2. OnlyJob(t) /\ JobTypeOK'
  BY <1>1 DEF OnlyJob, JobTypeOK, IInv
<1>3. Own(t)' = {} /\ ~HasBlock(t)'
  BY <1>1 DEF Own, Reserving, Complete, HasBlock
<1>4. PagesOK(t)' /\ BlocksOK(t)'
  BY <1>1, <1>3 DEF PagesOK, BlocksOK, Reserving, Complete
<1> QED
  BY <1>1, <1>2, <1>3, <1>4, EmptyHanded

\* A thread gives up its allocation.
LEMMA EndOfJob ==
  ASSUME HeapAssumption, IInv, NEW t \in Threads, To(t, "idle"), job' = [job EXCEPT ![t] = NoJob]
  PROVE  /\ OnlyJob(t) /\ JobTypeOK' /\ pc'[t] = "idle"
         /\ Own(t)' = {} /\ ~HasBlock(t)' /\ ~Complete(t)' /\ PagesOK(t)' /\ BlocksOK(t)'
<1>1. NoJob \in Jobs /\ "idle" \in Places
  BY DEF NoJob, Jobs, Places, HeapAssumption
<1>2. OnlyJob(t) /\ JobTypeOK' /\ pc'[t] = "idle"
  BY <1>1, Moves DEF To
<1>3. Own(t)' = {} /\ ~HasBlock(t)' /\ ~Complete(t)'
  BY <1>2 DEF Own, Reserving, Complete, HasBlock
<1>4. PagesOK(t)' /\ BlocksOK(t)'
  BY <1>2, <1>3 DEF PagesOK, BlocksOK, Reserving, Complete
<1> QED
  BY <1>2, <1>3, <1>4

LEMMA OutOfMemoryStep ==
  ASSUME HeapAssumption, IInv, NEW t \in Threads, OutOfMemory(t)
  PROVE  IInv'
<1>0. oom \in [Threads -> BOOLEAN]
  BY DEF IInv, HeapTypeOK
<1>1. /\ UNCHANGED <<pages, lists>> /\ held' = held /\ pc[t] = "avail"
      /\ To(t, "idle") /\ job' = [job EXCEPT ![t] = NoJob] /\ oom' \in [Threads -> BOOLEAN]
  BY <1>0 DEF OutOfMemory, Goto
<1>2. /\ OnlyJob(t) /\ JobTypeOK'
      /\ Own(t)' = {} /\ ~HasBlock(t)' /\ PagesOK(t)' /\ BlocksOK(t)'
  BY <1>1, EndOfJob
<1> QED
  BY <1>1, <1>2, EmptyHanded

\* A job with its fields.
LEMMA JobFields ==
  ASSUME IInv, NEW t \in Threads
  PROVE  /\ job[t] \in Jobs
         /\ job[t].size \in Sizes \cup {None}
         /\ job[t].n \in Nat /\ job[t].res \in Nat /\ job[t].ptr \in Nat /\ job[t].at \in Nat
         /\ job[t].j \in Nat /\ job[t].blk \in Nat /\ job[t].cycles \in Nat
  BY DEF IInv, JobTypeOK, Jobs

\* A collection that fails leaves the heap's words alone, and nobody has anything in its
\* hands, or only the thread that asked for it moves.
LEMMA GcFailsStep ==
  ASSUME HeapAssumption, IInv, NEW t \in Threads, GcFails(t)
  PROVE  IInv'
<1>0. /\ UNCHANGED <<page, block, numPages, nextPage, oom, held>> /\ pc[t] = "gc"
      /\ pc \in [Threads -> Places] /\ job \in [Threads -> Jobs]
  BY DEF GcFails, pages, IInv, JobTypeOK
<1>1. CASE /\ Goto(t, "gc", "idle") /\ job' = [job EXCEPT ![t] = NoJob]
           /\ UNCHANGED <<hint, list>>
  <2>1. /\ UNCHANGED <<pages, lists>> /\ held' = held /\ oom' \in [Threads -> BOOLEAN]
        /\ To(t, "idle")
    BY <1>0, <1>1 DEF pages, lists, Goto, IInv, HeapTypeOK
  <2>2. /\ OnlyJob(t) /\ JobTypeOK'
        /\ Own(t)' = {} /\ ~HasBlock(t)' /\ PagesOK(t)' /\ BlocksOK(t)'
    BY <1>1, <2>1, EndOfJob
  <2> QED
    BY <1>0, <2>1, <2>2, EmptyHanded
<1>2. CASE /\ \A u \in Threads : AtSafePoint(u)
           /\ UNCHANGED <<hint, list>> \/ (/\ hint' = [s \in Sizes |-> None]
                                         /\ list' = [s \in Sizes |-> None])
           /\ pc' = [u \in Threads |->
                IF u = t THEN "idle"
                ELSE IF u \in {v \in Threads \ {t} : pc[v] = "gc"} THEN "try" ELSE pc[u]]
           /\ job' = [u \in Threads |->
                IF u = t THEN NoJob
                ELSE IF u \in {v \in Threads \ {t} : pc[v] = "gc"}
                     THEN [job[u] EXCEPT !.cycles = @ + 1, !.at = 0] ELSE job[u]]
  <2>1. ASSUME NEW u \in Threads
        PROVE  /\ pc[u] \in {"idle", "gc"} /\ pc'[u] \in {"idle", "try"}
               /\ job'[u] \in Jobs
               /\ pc'[u] # "idle" => job'[u].size = job[u].size /\ job'[u].n = job[u].n /\ pc[u] = "gc"
    <3>1. pc[u] \in {"idle", "gc"}
      BY <1>2 DEF AtSafePoint
    <3>2. job[u] \in Jobs /\ NoJob \in Jobs
      BY <1>0 DEF NoJob, Jobs, HeapAssumption
    <3> DEFINE r == [job[u] EXCEPT !.cycles = @ + 1, !.at = 0]
    <3>3. r \in Jobs /\ r.size = job[u].size /\ r.n = job[u].n
      <4>1. job[u].cycles + 1 \in Nat
        BY JobFields
      <4> QED
        BY <3>2, <4>1 DEF Jobs
    <3> HIDE DEF r
    <3>4. job'[u] \in {NoJob, r, job[u]}
      <4>1. job'[u] = NoJob \/ job'[u] = job[u] \/ job'[u] = [job[u] EXCEPT !.cycles = @ + 1, !.at = 0]
        BY <1>2
      <4> QED
        BY <4>1 DEF r
    <3>5. job'[u] \in Jobs
      BY <3>2, <3>3, <3>4
    <3>6. pc'[u] \in {"idle", "try"}
      BY <1>2, <3>1
    <3>7. ASSUME pc'[u] # "idle" PROVE pc[u] = "gc" /\ job'[u] = r
      <4>1. u # t /\ pc[u] = "gc"
        BY <1>2, <3>1, <3>7
      <4> QED
        BY <1>2, <4>1 DEF r
    <3> QED
      BY <3>1, <3>3, <3>5, <3>6, <3>7
  <2>2. JobTypeOK'
    BY <1>2, <2>1 DEF JobTypeOK, Places
  <2>3. hint' \in [Sizes -> Hints] /\ list' \in [Sizes -> PageNos \cup {None}]
    BY <1>2 DEF IInv, HeapTypeOK, Hints
  <2>4. HeapTypeOK'
    BY <1>0, <2>3 DEF IInv, HeapTypeOK
  <2>5. ASSUME NEW u \in Threads
        PROVE  /\ Own(u) = {} /\ Own(u)' = {} /\ ~Complete(u) /\ ~Complete(u)'
               /\ ~Reserving(u)' /\ ~HasBlock(u) /\ ~HasBlock(u)'
    BY <2>1 DEF Own, Reserving, Complete, HasBlock
  <2>6. ASSUME NEW u \in Threads PROVE PagesOK(u)' /\ BlocksOK(u)'
    <3>1. PagesOK(u)
      BY DEF IInv
    <3>2. pc'[u] # "idle" => IF job'[u].size = None THEN job'[u].n \in LargeSizes ELSE job'[u].n = 1
      BY <2>1, <3>1 DEF PagesOK
    <3>3. PagesOK(u)'
      BY <2>1, <2>5, <3>2 DEF PagesOK
    <3> QED
      BY <2>1, <2>5, <3>3 DEF BlocksOK
  <2>7. ListsOK'
    <3>0. ListsOK
      BY DEF IInv
    <3>2. \A s \in Sizes : /\ list'[s] # None => IsPage(s, list'[s])
                           /\ hint'[s] # None => IsBlock(s, hint'[s][1], hint'[s][2])
      BY <1>2, <3>0 DEF ListsOK
    <3>3. IsEnd(nextPage)'
      BY <1>0, <2>5, <3>0 DEF ListsOK, IsEnd, AfterPage, AfterJob
    <3>4. \A p \in PageNos :
            page'[p].t = "small" /\ page'[p].next # None => IsPage(page'[p].size, page'[p].next)
      BY <1>0, <3>0 DEF ListsOK
    <3>5. ASSUME NEW s \in Sizes, NEW l PROVE IsPage(s, l)' <=> IsPage(s, l)
      BY <1>0 DEF IsPage
    <3>6. ASSUME NEW s \in Sizes, NEW l, NEW b PROVE IsBlock(s, l, b)' <=> IsBlock(s, l, b)
      BY <1>0 DEF IsPage, IsBlock
    <3>7. \A s \in Sizes : (list[s] # None => IsPage(s, list[s]))'
      BY <3>2, <3>5 DEF IsPage
    <3>8. \A s \in Sizes : (hint[s] # None => IsBlock(s, hint[s][1], hint[s][2]))'
      BY <3>2, <3>6 DEF IsPage, IsBlock
    <3>9. \A p \in PageNos :
            (page[p].t = "small" /\ page[p].next # None => IsPage(page[p].size, page[p].next))'
      BY <1>0, <3>4 DEF IsPage
    <3> QED
      BY <3>3, <3>7, <3>8, <3>9 DEF ListsOK
  <2>8. Layout'
    <3>1. Layout
      BY DEF IInv
    <3>2. \A p \in PageNos : Extent(p)' = Extent(p)
      BY <1>0 DEF Extent
    <3> QED
      BY <1>0, <2>5, <3>1, <3>2 DEF Layout
  <2>9. ObjectsOK'
    BY <1>0, <2>5 DEF IInv, ObjectsOK, IsBlock, IsPage
  <2> QED
    BY <2>2, <2>4, <2>6, <2>7, <2>8, <2>9 DEF IInv
<1> QED
  BY <1>1, <1>2 DEF GcFails

LEMMA AskGcStep ==
  ASSUME HeapAssumption, IInv, NEW t \in Threads, AskGc(t)
  PROVE  IInv'
<1>0. oom \in [Threads -> BOOLEAN]
  BY DEF IInv, HeapTypeOK
<1>1. /\ UNCHANGED <<pages, lists>> /\ held' = held /\ pc[t] = "avail" /\ job' = job
      /\ To(t, "gc") /\ oom' \in [Threads -> BOOLEAN]
  BY <1>0 DEF AskGc, Goto
<1>2. OnlyJob(t) /\ JobTypeOK' /\ pc'[t] = "gc" /\ job'[t] = job[t]
  BY <1>1, Stays DEF Places
<1>3. Own(t)' = {} /\ ~HasBlock(t)'
  BY <1>2 DEF Own, Reserving, Complete, HasBlock
<1>4. PagesOK(t)' /\ BlocksOK(t)'
  BY <1>1, <1>2, <1>3 DEF PagesOK, BlocksOK, Reserving, Complete, IInv
<1> QED
  BY <1>1, <1>2, <1>3, <1>4, EmptyHanded

LEMMA ReadHintStep ==
  ASSUME HeapAssumption, IInv, NEW t \in Threads, ReadHint(t)
  PROVE  IInv'
<1> DEFINE h == hint[job[t].size]
<1>0. oom \in [Threads -> BOOLEAN]
  BY DEF IInv, HeapTypeOK
<1>1. /\ UNCHANGED <<pages, lists>> /\ held' = held /\ pc[t] = "hint" /\ oom' \in [Threads -> BOOLEAN]
      /\ UNCHANGED page
  BY <1>0 DEF ReadHint, pages
<1>2. job[t].size \in Sizes /\ job[t].n = 1 /\ job[t].size # None
  BY <1>1, JobFields DEF IInv, BlocksOK, PagesOK
<1>3. CASE h = None
  <2>1. OnlyJob(t) /\ JobTypeOK' /\ pc'[t] = "list" /\ job'[t] = job[t]
    BY <1>3, Stays DEF Places, ReadHint
  <2>2. Own(t)' = {} /\ ~HasBlock(t)'
    BY <2>1 DEF Own, Reserving, Complete, HasBlock
  <2>3. PagesOK(t)' /\ BlocksOK(t)'
    BY <1>2, <2>1, <2>2 DEF PagesOK, BlocksOK, Reserving, Complete
  <2> QED
    BY <1>1, <2>1, <2>2, <2>3, EmptyHanded
<1>4. CASE h # None
  <2> DEFINE r == [job[t] EXCEPT !.ptr = h[1], !.blk = h[2]]
  <2>1. IsBlock(job[t].size, h[1], h[2])
    BY <1>2, <1>4 DEF IInv, ListsOK
  <2>2. h \in PageNos \X (1..MaxBlocks)
    BY <1>2, <1>4 DEF IInv, HeapTypeOK, Hints
  <2>3. h[1] \in Nat /\ h[2] \in Nat
    BY <2>2 DEF PageNos, HeapAssumption
  <2>4. r \in Jobs /\ r.size = job[t].size /\ r.n = job[t].n /\ r.ptr = h[1] /\ r.blk = h[2]
    BY <2>3, JobFields DEF Jobs
  <2>5. To(t, "grab") /\ job' = [job EXCEPT ![t] = r]
    BY <1>4 DEF ReadHint
  <2>6. OnlyJob(t) /\ JobTypeOK' /\ pc'[t] = "grab" /\ job'[t] = r
    <3> HIDE DEF r
    <3> QED BY <2>4, <2>5, Moves DEF Places, To
  <2>7. Own(t)' = {} /\ ~HasBlock(t)'
    BY <2>6 DEF Own, Reserving, Complete, HasBlock
  <2>8. PagesOK(t)'
    <3> HIDE DEF r
    <3> QED BY <1>2, <2>4, <2>6, <2>7 DEF PagesOK, Reserving, Complete
  <2>9. BlocksOK(t)'
    <3> HIDE DEF r, h
    <3> QED BY <1>1, <1>2, <2>1, <2>4, <2>6, <2>7 DEF BlocksOK, IsBlock, IsPage
  <2> QED
    BY <1>1, <2>6, <2>7, <2>8, <2>9, EmptyHanded
<1> QED
  BY <1>3, <1>4

LEMMA ReadListStep ==
  ASSUME HeapAssumption, IInv, NEW t \in Threads, ReadList(t)
  PROVE  IInv'
<1> DEFINE p == list[job[t].size]
<1>0. oom \in [Threads -> BOOLEAN]
  BY DEF IInv, HeapTypeOK
<1>1. /\ UNCHANGED <<pages, lists>> /\ held' = held /\ pc[t] = "list" /\ oom' \in [Threads -> BOOLEAN]
      /\ UNCHANGED page
  BY <1>0 DEF ReadList, pages
<1>2. job[t].size \in Sizes /\ job[t].n = 1 /\ job[t].size # None
  BY <1>1, JobFields DEF IInv, BlocksOK, PagesOK
<1>3. CASE p = None
  <2>1. OnlyJob(t) /\ JobTypeOK' /\ pc'[t] = "try" /\ job'[t] = job[t]
    BY <1>3, Stays DEF Places, ReadList
  <2>2. Own(t)' = {} /\ ~HasBlock(t)'
    BY <2>1 DEF Own, Reserving, Complete, HasBlock
  <2>3. PagesOK(t)' /\ BlocksOK(t)'
    BY <1>2, <2>1, <2>2 DEF PagesOK, BlocksOK, Reserving, Complete
  <2> QED
    BY <1>1, <2>1, <2>2, <2>3, EmptyHanded
<1>4. CASE p # None
  <2> DEFINE r == [job[t] EXCEPT !.ptr = p]
  <2>1. IsPage(job[t].size, p)
    BY <1>2, <1>4 DEF IInv, ListsOK
  <2>2. p \in Nat
    BY <2>1 DEF IsPage, PageNos, HeapAssumption
  <2>3. r \in Jobs /\ r.size = job[t].size /\ r.n = job[t].n /\ r.ptr = p
    BY <2>2, JobFields DEF Jobs
  <2>4. To(t, "pop") /\ job' = [job EXCEPT ![t] = r]
    BY <1>4 DEF ReadList
  <2>5. OnlyJob(t) /\ JobTypeOK' /\ pc'[t] = "pop" /\ job'[t] = r
    <3> HIDE DEF r
    <3> QED BY <2>3, <2>4, Moves DEF Places, To
  <2>6. Own(t)' = {} /\ ~HasBlock(t)'
    BY <2>5 DEF Own, Reserving, Complete, HasBlock
  <2>7. PagesOK(t)'
    <3> HIDE DEF r
    <3> QED BY <1>2, <2>3, <2>5, <2>6 DEF PagesOK, Reserving, Complete
  <2>8. BlocksOK(t)'
    <3> HIDE DEF r, p
    <3> QED BY <1>1, <1>2, <2>1, <2>3, <2>5, <2>6 DEF BlocksOK, IsPage
  <2> QED
    BY <1>1, <2>5, <2>6, <2>7, <2>8, EmptyHanded
<1> QED
  BY <1>3, <1>4

LEMMA TryAgainStep ==
  ASSUME HeapAssumption, IInv, NEW t \in Threads, TryAgain(t)
  PROVE  IInv'
<1> DEFINE r == [job[t] EXCEPT !.at = nextPage, !.res = IF oom[t] THEN 0 ELSE @]
<1>0. oom \in [Threads -> BOOLEAN]
  BY DEF IInv, HeapTypeOK
<1>1. /\ UNCHANGED <<pages, lists>> /\ held' = held /\ pc[t] = "try" /\ oom' \in [Threads -> BOOLEAN]
      /\ To(t, "avail") /\ job' = [job EXCEPT ![t] = r]
  BY <1>0 DEF TryAgain, Goto
<1>2. nextPage \in Nat
  BY DEF IInv, HeapTypeOK, HeapAssumption
<1>3. r \in Jobs /\ r.size = job[t].size /\ r.n = job[t].n /\ r.at = nextPage
  BY <1>2, JobFields DEF Jobs
<1> HIDE DEF r
<1>4. OnlyJob(t) /\ JobTypeOK' /\ pc'[t] = "avail" /\ job'[t] = r
  BY <1>1, <1>3, Moves DEF Places, To
<1>5. Own(t)' = {} /\ ~HasBlock(t)' /\ ~Complete(t)
  BY <1>1, <1>4 DEF Own, Reserving, Complete, HasBlock
<1>6. IsEnd(nextPage)'
  <2>1. PagesStay
    BY <1>1 DEF PagesStay, pages
  <2>2. \A x : IsEnd(x) => IsEnd(x)'
    BY <1>4, <1>5, <2>1, EndsStay
  <2>3. PICK x : x = nextPage
    OBVIOUS
  <2>4. IsEnd(x)'
    BY <2>2, <2>3 DEF IInv, ListsOK
  <2> QED
    BY <1>1, <2>3, <2>4 DEF lists, IsEnd, AfterPage, AfterJob
<1>7. IsEnd(job[t].at)'
  BY <1>1, <1>3, <1>4, <1>6 DEF lists, IsEnd, AfterPage, AfterJob
<1>8. PagesOK(t)' /\ BlocksOK(t)'
  BY <1>1, <1>3, <1>4, <1>5, <1>7 DEF PagesOK, BlocksOK, Reserving, Complete, IInv
<1> QED
  BY <1>1, <1>4, <1>5, <1>8, EmptyHanded

LEMMA AvailStep ==
  ASSUME HeapAssumption, IInv, NEW t \in Threads, Avail(t)
  PROVE  IInv'
<1> DEFINE r == [job[t] EXCEPT !.ptr = job[t].at, !.j = 0]
<1>0. oom \in [Threads -> BOOLEAN]
  BY DEF IInv, HeapTypeOK
<1>1. /\ UNCHANGED <<pages, lists>> /\ held' = held /\ pc[t] = "avail" /\ oom' \in [Threads -> BOOLEAN]
      /\ To(t, "pages") /\ job' = [job EXCEPT ![t] = r] /\ ~TooFar(t)
      /\ page' = page /\ numPages' = numPages
  BY <1>0 DEF Avail, Goto, pages
<1>2. /\ r \in Jobs /\ r.size = job[t].size /\ r.n = job[t].n /\ r.at = job[t].at /\ r.ptr = r.at
      /\ r.j = 0
  BY JobFields DEF Jobs
<1> HIDE DEF r
<1>3. OnlyJob(t) /\ JobTypeOK' /\ pc'[t] = "pages" /\ job'[t] = r
  BY <1>1, <1>2, Moves DEF Places, To
<1>4. ~HasBlock(t)' /\ ~Complete(t)' /\ ~Complete(t)
  BY <1>1, <1>3 DEF HasBlock, Complete
<1>5. \A x : IsEnd(x) => IsEnd(x)'
  BY <1>1, <1>3, <1>4, EndsStay DEF PagesStay
<1>6. IsEnd(job[t].at) /\ job[t].at >= 1
  BY <1>1, EndsArePages DEF IInv, PagesOK
<1>7. \A k \in Nat : k..(k + 0 - 1) = {}
  OBVIOUS
<1>8. Own(t)' = {}
  BY <1>2, <1>3, <1>7, JobFields DEF Own
<1>9. job[t].n \in Nat /\ job[t].n > 0
  BY <1>1, JobFields DEF IInv, PagesOK, HeapAssumption
<1>10. job[t].at + job[t].n - 1 <= numPages
  BY <1>1, JobFields DEF TooFar, IInv, HeapTypeOK, HeapAssumption
<1>11. IsEnd(job[t].ptr)'
  <2>1. PICK x : x = job[t].at
    OBVIOUS
  <2> QED
    BY <1>2, <1>3, <1>5, <1>6, <2>1 DEF IsEnd, AfterPage, AfterJob
<1>12. IF job[t].size = None THEN job[t].n \in LargeSizes ELSE job[t].n = 1
  BY <1>1 DEF IInv, PagesOK
<1>13. PagesOK(t)'
  BY <1>1, <1>2, <1>3, <1>4, <1>6, <1>8, <1>9, <1>10, <1>11, <1>12 DEF PagesOK
<1>14. BlocksOK(t)'
  BY <1>3, <1>4 DEF BlocksOK
<1> QED
  BY <1>1, <1>3, <1>4, <1>8, <1>13, <1>14, EmptyHanded

\* A step that moves a hint, a list or next_page.
LEMMA ListsStep ==
  ASSUME HeapAssumption, IInv, NEW t \in Threads, OnlyJob(t), JobTypeOK',
         UNCHANGED <<page, block, numPages, oom, held>>,
         \A x : Complete(t) /\ x = job[t].ptr + job[t].n => IsEnd(x)',
         PagesOK(t)', BlocksOK(t)', Own(t)' = Own(t),
         HasBlock(t)' => HasBlock(t) /\ job'[t].ptr = job[t].ptr /\ job'[t].blk = job[t].blk,
         \/ list' = list
         \/ \E s \in Sizes : \E p : list' = [list EXCEPT ![s] = p] /\ (p = None \/ IsPage(s, p)),
         \/ hint' = hint
         \/ \E s \in Sizes : \E p, b : hint' = [hint EXCEPT ![s] = <<p, b>>] /\ IsBlock(s, p, b)
         \/ \E s \in Sizes : hint' = [hint EXCEPT ![s] = None],
         nextPage' = nextPage \/ (IsEnd(nextPage)' /\ nextPage' \in 1..(MaxPages + 1))
  PROVE  IInv'
<1>1. hint \in [Sizes -> Hints] /\ list \in [Sizes -> PageNos \cup {None}]
  BY DEF IInv, HeapTypeOK
<1>2. list' \in [Sizes -> PageNos \cup {None}]
  BY <1>1 DEF IsPage
<1>3. \A s, p, b : IsBlock(s, p, b) /\ s \in Sizes => <<p, b>> \in Hints
  <2>1. SUFFICES ASSUME NEW s \in Sizes, NEW p, NEW b, IsBlock(s, p, b) PROVE <<p, b>> \in Hints
    OBVIOUS
  <2>2. p \in PageNos /\ b \in 1..Blocks[s]
    BY <2>1 DEF IsBlock, IsPage
  <2>3. Blocks[s] \in 2..MaxBlocks /\ MaxBlocks \in Nat
    BY DEF HeapAssumption
  <2>4. b \in 1..MaxBlocks
    BY <2>2, <2>3
  <2> QED
    BY <2>2, <2>4 DEF Hints
<1>4. hint' \in [Sizes -> Hints]
  <2>1. None \in Hints
    BY DEF Hints
  <2> QED
    BY <1>1, <1>3, <2>1
<1>5. HeapTypeOK'
  BY <1>2, <1>4 DEF IInv, HeapTypeOK
<1>6. \A s \in Sizes : list'[s] # None => IsPage(s, list'[s])
  BY <1>1 DEF IInv, ListsOK
<1>7. \A s \in Sizes : hint'[s] # None => IsBlock(s, hint'[s][1], hint'[s][2])
  <2>1. CASE hint' = hint
    BY <2>1 DEF IInv, ListsOK
  <2>2. ASSUME NEW q \in Sizes, NEW p, NEW b, hint' = [hint EXCEPT ![q] = <<p, b>>], IsBlock(q, p, b)
        PROVE  \A s \in Sizes : hint'[s] # None => IsBlock(s, hint'[s][1], hint'[s][2])
    BY <1>1, <2>2 DEF IInv, ListsOK
  <2>3. ASSUME NEW q \in Sizes, hint' = [hint EXCEPT ![q] = None]
        PROVE  \A s \in Sizes : hint'[s] # None => IsBlock(s, hint'[s][1], hint'[s][2])
    BY <1>1, <2>3 DEF IInv, ListsOK
  <2> QED
    BY <2>1, <2>2, <2>3
<1> QED
  BY <1>5, <1>6, <1>7, QuietStep

LEMMA StoreHintStep ==
  ASSUME HeapAssumption, IInv, NEW t \in Threads, StoreHint(t)
  PROVE  IInv'
<1> DEFINE s == job[t].size
           p == job[t].ptr
           b == job[t].blk
           to == IF pc[t] = "mine" THEN "build" ELSE "hint"
           r == IF pc[t] = "next" THEN [job[t] EXCEPT !.ptr = 0, !.blk = 0] ELSE job[t]
<1>1. /\ UNCHANGED <<page, block, numPages, oom, held>> /\ list' = list /\ nextPage' = nextPage
      /\ pc[t] \in {"mine", "next"} /\ To(t, to)
  BY DEF StoreHint, Goto, To, pages
<1>2. job' = [job EXCEPT ![t] = r]
  BY DEF StoreHint, IInv, JobTypeOK
<1>3. s \in Sizes /\ IsBlock(s, p, b)
  <2>1. BlocksOK(t)
    BY DEF IInv
  <2>2. IsBlock(s, p, b)
    BY <1>1, <2>1 DEF BlocksOK, HasBlock
  <2> QED
    BY <2>2, WordFields DEF IInv, IsBlock, IsPage
<1>4. job[t].n = 1 /\ s # None
  BY <1>1, <1>3 DEF IInv, PagesOK, HeapAssumption
<1>5. r \in Jobs /\ r.size = s /\ r.n = 1 /\ (pc[t] = "mine" => r = job[t])
  BY <1>1, <1>4, JobFields DEF Jobs
<1>6. OnlyJob(t) /\ JobTypeOK' /\ pc'[t] = to /\ job'[t] = r
  <2> HIDE DEF r
  <2> QED  BY <1>1, <1>2, <1>5, Moves DEF Places, To
<1>7. Own(t)' = {} /\ Own(t) = {} /\ ~Complete(t) /\ ~Reserving(t)' /\ ~Complete(t)'
  <2> HIDE DEF r, s
  <2> QED  BY <1>1, <1>4, <1>5, <1>6 DEF Own, Reserving, Complete, s
<1>8. PagesOK(t)'
  <2> HIDE DEF r
  <2> QED  BY <1>1, <1>4, <1>5, <1>6, <1>7 DEF PagesOK
<1>9. HasBlock(t)' => HasBlock(t) /\ pc[t] = "mine" /\ job'[t] = job[t]
  BY <1>1, <1>4, <1>5, <1>6 DEF HasBlock
<1>10. BlocksOK(t)'
  <2>1. CASE pc[t] = "mine"
    <3>1. HasBlock(t) /\ BlocksOK(t)
      BY <1>4, <2>1 DEF HasBlock, IInv
    <3>2. pc'[t] = "build" /\ job'[t] = job[t]
      BY <2>1, <1>5, <1>6
    <3> QED
      BY <1>1, <1>4, <3>1, <3>2 DEF BlocksOK, HasBlock, IsBlock, IsPage
  <2>2. CASE pc[t] = "next"
    <3>1. pc'[t] = "hint" /\ job'[t].size # None
      BY <1>4, <1>5, <1>6, <2>2
    <3> QED
      BY <3>1 DEF BlocksOK, HasBlock
  <2> QED
    BY <1>1, <2>1, <2>2
<1>11. \/ \E q \in Sizes : \E x, y : hint' = [hint EXCEPT ![q] = <<x, y>>] /\ IsBlock(q, x, y)
       \/ \E q \in Sizes : hint' = [hint EXCEPT ![q] = None]
  <2>1. CASE b < Blocks[s]
    <3>1. hint' = [hint EXCEPT ![s] = <<p, b + 1>>]
      BY <2>1 DEF StoreHint
    <3>2. Blocks[s] \in Nat /\ b \in Nat
      BY <1>3, JobFields DEF HeapAssumption
    <3>3. b + 1 \in 1..Blocks[s]
      BY <2>1, <3>2
    <3>4. IsBlock(s, p, b + 1)
      BY <1>3, <3>3 DEF IsBlock
    <3> QED
      BY <1>3, <3>1, <3>4
  <2>2. CASE ~(b < Blocks[s])
    BY <1>3, <2>2 DEF StoreHint
  <2> QED
    BY <2>1, <2>2
<1> QED
  BY <1>1, <1>6, <1>7, <1>8, <1>9, <1>10, <1>11, ListsStep

LEMMA PopPageStep ==
  ASSUME HeapAssumption, IInv, NEW t \in Threads, PopPage(t)
  PROVE  IInv'
<1> DEFINE s == job[t].size
           p == job[t].ptr
<1>1. /\ UNCHANGED <<page, block, numPages, oom, held>> /\ hint' = hint /\ nextPage' = nextPage
      /\ pc[t] = "pop"
  BY DEF PopPage, pages
<1>2. IsPage(s, p) /\ s \in Sizes
  <2>1. IsPage(s, p)
    BY <1>1 DEF IInv, BlocksOK
  <2> QED
    BY <2>1, WordFields DEF IInv, IsPage
<1>3. job[t].n = 1 /\ s # None
  BY <1>1, <1>2 DEF IInv, PagesOK, HeapAssumption
<1>4. Own(t) = {} /\ ~Complete(t)
  BY <1>1 DEF Own, Reserving, Complete
<1>5. CASE list[s] = p
  <2>1. To(t, "popped") /\ list' = [list EXCEPT ![s] = page[p].next] /\ job' = job
    BY <1>5 DEF PopPage
  <2>2. OnlyJob(t) /\ JobTypeOK' /\ pc'[t] = "popped" /\ job'[t] = job[t]
    BY <2>1, Stays DEF Places
  <2>3. page[p].next = None \/ IsPage(s, page[p].next)
    BY <1>2 DEF IInv, ListsOK, IsPage
  <2>4. Own(t)' = {} /\ ~HasBlock(t)' /\ ~Complete(t)' /\ ~Reserving(t)'
    BY <2>2 DEF Own, Reserving, Complete, HasBlock
  <2>5. PagesOK(t)' /\ BlocksOK(t)'
    BY <1>1, <1>2, <1>3, <2>2, <2>4 DEF PagesOK, BlocksOK, IsPage
  <2> QED
    BY <1>1, <1>2, <1>4, <2>1, <2>2, <2>3, <2>4, <2>5, ListsStep
<1>6. CASE list[s] # p
  <2> DEFINE r == [job[t] EXCEPT !.ptr = 0]
  <2>1. To(t, "hint") /\ list' = list /\ job' = [job EXCEPT ![t] = r]
    BY <1>6 DEF PopPage
  <2>2. r \in Jobs /\ r.size = s /\ r.n = 1
    BY <1>3, JobFields DEF Jobs
  <2> HIDE DEF r
  <2>3. OnlyJob(t) /\ JobTypeOK' /\ pc'[t] = "hint" /\ job'[t] = r
    BY <2>1, <2>2, Moves DEF Places, To
  <2>4. Own(t)' = {} /\ ~HasBlock(t)' /\ ~Complete(t)' /\ ~Reserving(t)'
    BY <2>3 DEF Own, Reserving, Complete, HasBlock
  <2>5. PagesOK(t)' /\ BlocksOK(t)'
    BY <1>3, <2>2, <2>3, <2>4 DEF PagesOK, BlocksOK
  <2> QED
    BY <1>1, <1>2, <1>4, <2>1, <2>3, <2>4, <2>5, ListsStep
<1> QED
  BY <1>5, <1>6

LEMMA HintAtPageStep ==
  ASSUME HeapAssumption, IInv, NEW t \in Threads, HintAtPage(t)
  PROVE  IInv'
<1> DEFINE s == job[t].size
           p == job[t].ptr
           r == [job[t] EXCEPT !.ptr = 0]
<1>1. /\ UNCHANGED <<page, block, numPages, oom, held>> /\ list' = list /\ nextPage' = nextPage
      /\ pc[t] = "popped" /\ To(t, "hint") /\ job' = [job EXCEPT ![t] = r]
      /\ hint' = [hint EXCEPT ![s] = <<p, 1>>]
  BY DEF HintAtPage, Goto, pages
<1>2. IsPage(s, p) /\ s \in Sizes
  <2>1. IsPage(s, p)
    BY <1>1 DEF IInv, BlocksOK
  <2> QED
    BY <2>1, WordFields DEF IInv, IsPage
<1>3. job[t].n = 1 /\ s # None
  BY <1>1, <1>2 DEF IInv, PagesOK, HeapAssumption
<1>4. IsBlock(s, p, 1)
  <2>1. Blocks[s] \in Nat /\ Blocks[s] >= 2
    BY <1>2 DEF HeapAssumption
  <2>2. 1 \in 1..Blocks[s]
    BY <2>1
  <2> QED
    BY <1>2, <2>2 DEF IsBlock
<1>5. r \in Jobs /\ r.size = s /\ r.n = 1
  BY <1>3, JobFields DEF Jobs
<1> HIDE DEF r
<1>6. OnlyJob(t) /\ JobTypeOK' /\ pc'[t] = "hint" /\ job'[t] = r
  BY <1>1, <1>5, Moves DEF Places, To
<1>7. /\ Own(t)' = {} /\ ~HasBlock(t)' /\ ~Complete(t)' /\ ~Reserving(t)'
      /\ Own(t) = {} /\ ~Complete(t)
  BY <1>1, <1>6 DEF Own, Reserving, Complete, HasBlock
<1>8. PagesOK(t)' /\ BlocksOK(t)'
  BY <1>3, <1>5, <1>6, <1>7 DEF PagesOK, BlocksOK
<1> QED
  BY <1>1, <1>2, <1>4, <1>6, <1>7, <1>8, ListsStep

LEMMA HintAtSecondStep ==
  ASSUME HeapAssumption, IInv, NEW t \in Threads, HintAtSecond(t)
  PROVE  IInv'
<1> DEFINE s == job[t].size
           p == job[t].ptr
<1>1. /\ UNCHANGED <<page, block, numPages, oom, held>> /\ list' = list /\ nextPage' = nextPage
      /\ pc[t] = "hinted" /\ To(t, "build") /\ job' = job
      /\ hint' = [hint EXCEPT ![s] = <<p, 2>>]
  BY DEF HintAtSecond, Goto, pages
<1>2. BlocksOK(t) /\ PagesOK(t)
  BY DEF IInv
<1>3. s # None
  BY <1>1, <1>2 DEF BlocksOK
<1>4. HasBlock(t) /\ IsBlock(s, p, job[t].blk)
  BY <1>1, <1>2, <1>3 DEF BlocksOK, HasBlock
<1>5. s \in Sizes
  BY <1>4, WordFields DEF IInv, IsBlock, IsPage
<1>6. IsBlock(s, p, 2)
  <2>1. Blocks[s] \in Nat /\ Blocks[s] >= 2
    BY <1>5 DEF HeapAssumption
  <2>2. 2 \in 1..Blocks[s]
    BY <2>1
  <2> QED
    BY <1>4, <2>2 DEF IsBlock
<1>7. OnlyJob(t) /\ JobTypeOK' /\ pc'[t] = "build" /\ job'[t] = job[t]
  BY <1>1, Stays DEF Places
<1>8. /\ Own(t)' = {} /\ ~Complete(t)' /\ ~Reserving(t)'
      /\ Own(t) = {} /\ ~Complete(t)
  BY <1>1, <1>3, <1>7 DEF Own, Reserving, Complete
<1>9. PagesOK(t)'
  BY <1>1, <1>2, <1>7, <1>8 DEF PagesOK
<1>10. BlocksOK(t)'
  BY <1>1, <1>2, <1>4, <1>7 DEF BlocksOK, HasBlock, IsBlock, IsPage
<1> QED
  BY <1>1, <1>4, <1>5, <1>6, <1>7, <1>8, <1>9, <1>10, ListsStep

\* Where a thread that meets a page in use goes on is an end.
LEMMA LooksAtEnd ==
  ASSUME HeapAssumption, ~misled', IInv, NEW t \in Threads, Look(t)
  PROVE  IsEnd(job'[t].at) /\ job' = [job EXCEPT ![t] = [job[t] EXCEPT !.at = job'[t].at]]
         /\ job'[t].at \in Nat
<1> DEFINE p == job[t].ptr + job[t].j
           w == page[p]
           skip == CASE w.t = "free" -> 0
                     [] w.t = "small" -> job[t].j + 1
                     [] OTHER -> job[t].j + w.n
<1>0. PagesOK(t) /\ pc[t] = "look" /\ Reserving(t)
  BY DEF IInv, Look, Goto, Reserving
<1>1. /\ IsEnd(job[t].ptr) /\ job[t].at = job[t].ptr /\ job[t].j < job[t].n
      /\ job[t].ptr >= 1 /\ job[t].ptr + job[t].n - 1 <= numPages
  BY <1>0 DEF PagesOK
<1>2. p \in PageNos
  <2>1. numPages \in Nat /\ numPages <= MaxPages /\ MaxPages \in Nat
    BY DEF IInv, HeapTypeOK, HeapAssumption
  <2> QED
    BY <1>1, <2>1, JobFields DEF PageNos
<1>3. ~Undecided(p) /\ job' = [job EXCEPT ![t].at = @ + skip]
  BY DEF Look
<1>4. w.t \in {"free", "small", "large", "alloc"}
  BY <1>2, WordFields DEF IInv
<1>5. IsEnd(job[t].at + skip) /\ skip \in Nat
  <2>1. CASE w.t = "free"
    BY <1>1, <2>1, JobFields
  <2>2. CASE w.t = "small"
    <3>1. skip = job[t].j + 1
      BY <2>2
    <3>2. job[t].at + skip = p + 1
      BY <1>1, <3>1, JobFields
    <3> QED
      BY <1>2, <2>2, <3>1, <3>2, JobFields DEF IsEnd, AfterPage
  <2>3. CASE w.t = "large"
    <3>1. skip = job[t].j + w.n /\ w.n \in Nat
      BY <1>2, <2>3, WordFields DEF IInv
    <3>2. job[t].at + skip = p + w.n
      BY <1>1, <3>1, JobFields
    <3> QED
      BY <1>2, <2>3, <3>1, <3>2, JobFields DEF IsEnd, AfterPage
  <2>4. CASE w.t = "alloc"
    <3>1. skip = job[t].j + w.n /\ w.n \in Nat
      BY <1>2, <2>4, WordFields DEF IInv
    <3>2. job[t].at + skip = p + w.n
      BY <1>1, <3>1, JobFields
    <3>3. PICK u \in Threads : p \in Own(u)
      BY <1>2, <2>4 DEF IInv, Layout
    <3>4. PagesOK(u)
      BY DEF IInv
    <3>5. p \in job[u].ptr..(job[u].ptr + job[u].j - 1) /\ (Reserving(u) \/ Complete(u))
      BY <3>3 DEF Own
    <3>6. job[u].j > 0
      BY <3>5, JobFields
    <3>7. Complete(u)
      BY <1>3, <3>5, <3>6 DEF Undecided, Reserving
    <3>8. w = Alloc(job[u].ptr + job[u].n - p)
      <4>1. CASE pc[u] # "mark"
        BY <3>3, <3>4, <4>1 DEF PagesOK
      <4>2. CASE pc[u] = "mark"
        <5>1. p # job[u].ptr => w = Free
          BY <3>3, <3>4, <4>2 DEF PagesOK
        <5>2. p = job[u].ptr
          BY <2>4, <5>1 DEF Free
        <5>3. w = Alloc(job[u].n) /\ job[u].n = job[u].ptr + job[u].n - p
          BY <3>4, <4>2, <5>2, JobFields DEF PagesOK
        <5> QED
          BY <5>3
      <4> QED
        BY <4>1, <4>2
    <3>9. w.n = job[u].ptr + job[u].n - p
      BY <3>8 DEF Alloc
    <3>10. job[t].at + skip = job[u].ptr + job[u].n
      BY <1>2, <3>2, <3>9, JobFields DEF PageNos
    <3>11. skip \in Nat
      BY <3>1, JobFields
    <3>12. IsEnd(job[u].ptr + job[u].n)
      BY <3>7 DEF IsEnd, AfterJob
    <3> HIDE DEF skip
    <3> QED
      BY <3>10, <3>11, <3>12
  <2> QED
    BY <1>4, <2>1, <2>2, <2>3, <2>4
<1> HIDE DEF skip
<1>6. job'[t].at = job[t].at + skip
  BY <1>3 DEF IInv, JobTypeOK, Jobs
<1>7. job' = [job EXCEPT ![t] = [job[t] EXCEPT !.at = job'[t].at]]
  BY <1>3, <1>6
<1> QED
  BY <1>5, <1>6, <1>7, JobFields

LEMMA LookStep ==
  ASSUME HeapAssumption, ~misled', IInv, NEW t \in Threads, Look(t)
  PROVE  IInv'
<1> DEFINE r == [job[t] EXCEPT !.at = job'[t].at]
<1>1. /\ UNCHANGED <<page, block, numPages, oom, held>> /\ list' = list /\ hint' = hint
      /\ nextPage' = nextPage /\ pc[t] = "look" /\ To(t, "undo")
  BY DEF Look, Goto, pages, lists
<1>2. /\ r \in Jobs /\ r.size = job[t].size /\ r.n = job[t].n /\ r.ptr = job[t].ptr
      /\ r.j = job[t].j /\ r.at = job'[t].at
  BY LooksAtEnd, JobFields DEF Jobs
<1>3. job' = [job EXCEPT ![t] = r]
  BY LooksAtEnd
<1>4. OnlyJob(t) /\ JobTypeOK' /\ pc'[t] = "undo" /\ job'[t] = r
  <2> HIDE DEF r
  <2> QED  BY <1>1, <1>2, <1>3, Moves DEF Places, To
<1>5. /\ Own(t)' = Own(t) /\ Reserving(t) /\ Reserving(t)' /\ ~Complete(t)' /\ ~Complete(t)
      /\ ~HasBlock(t)'
  <2> HIDE DEF r
  <2> QED  BY <1>1, <1>2, <1>4 DEF Own, Reserving, Complete, HasBlock
<1>6. IsEnd(job[t].at)'
  <2>1. PICK x : x = job'[t].at
    OBVIOUS
  <2>2. IsEnd(x)
    BY <2>1, LooksAtEnd
  <2>3. IsEnd(x)'
    BY <1>1, <1>4, <1>5, <2>2, EndsStay DEF PagesStay
  <2> QED
    BY <2>1, <2>3 DEF IsEnd, AfterPage, AfterJob
<1>7. PagesOK(t)
  BY DEF IInv
<1>8. PagesOK(t)'
  <2> HIDE DEF r
  <2> QED  BY <1>1, <1>2, <1>4, <1>5, <1>6, <1>7 DEF PagesOK
<1>9. BlocksOK(t)'
  BY <1>4, <1>5 DEF BlocksOK
<1> QED
  BY <1>1, <1>4, <1>5, <1>8, <1>9, ListsStep

LEMMA StoreNextPageStep ==
  ASSUME HeapAssumption, IInv, NEW t \in Threads, StoreNextPage(t)
  PROVE  IInv'
<1> DEFINE r == [job[t] EXCEPT !.at = 0, !.cycles = 0, !.res = Reserved]
           to == IF job[t].size = None THEN "build" ELSE "format"
<1>1. /\ UNCHANGED <<page, block, numPages, oom, held>> /\ list' = list /\ hint' = hint
      /\ nextPage' = job[t].ptr + job[t].n /\ pc[t] = "got" /\ To(t, to)
      /\ job' = [job EXCEPT ![t] = r]
  BY DEF StoreNextPage, Goto, pages
<1>2. /\ r \in Jobs /\ r.size = job[t].size /\ r.n = job[t].n /\ r.ptr = job[t].ptr
      /\ r.j = job[t].j
  BY JobFields DEF Jobs, HeapAssumption
<1> HIDE DEF r
<1>3. OnlyJob(t) /\ JobTypeOK' /\ pc'[t] = to /\ job'[t] = r
  <2>1. to \in Places
    BY DEF Places
  <2> HIDE DEF to
  <2> QED
    BY <1>1, <1>2, <2>1, Moves DEF To
<1>4. /\ Own(t)' = Own(t) /\ Complete(t)' /\ Complete(t) /\ ~Reserving(t)'
      /\ ~HasBlock(t)'
  BY <1>1, <1>2, <1>3 DEF Own, Reserving, Complete, HasBlock
<1>5. PagesOK(t)
  BY DEF IInv
<1>6. PagesOK(t)'
  BY <1>1, <1>2, <1>3, <1>4, <1>5 DEF PagesOK
<1>7. BlocksOK(t)'
  BY <1>2, <1>3, <1>4 DEF BlocksOK
<1>8. IsEnd(job[t].ptr + job[t].n)'
  BY <1>4 DEF IsEnd, AfterJob
<1>9. \A x : x = job[t].ptr + job[t].n => IsEnd(x)'
  BY <1>2, <1>3, <1>4 DEF IsEnd, AfterJob
<1>10. IsEnd(nextPage)'
  <2>1. PICK x : x = nextPage'
    OBVIOUS
  <2>2. IsEnd(x)'
    BY <1>1, <1>9, <2>1
  <2> QED
    BY <2>1, <2>2 DEF IsEnd, AfterPage, AfterJob
<1>11. nextPage' \in 1..(MaxPages + 1)
  <2>1. numPages \in Nat /\ numPages <= MaxPages /\ MaxPages \in Nat
    BY DEF IInv, HeapTypeOK, HeapAssumption
  <2>2. job[t].ptr >= 1 /\ job[t].ptr + job[t].n - 1 <= numPages
    BY <1>4, <1>5 DEF PagesOK
  <2> QED
    BY <1>1, <2>1, <2>2, JobFields
<1> QED
  BY <1>1, <1>3, <1>4, <1>6, <1>7, <1>9, <1>10, <1>11, ListsStep

-----------------------------------------------------------------------------
(* The steps that write the heap's words *)

LEMMA OwnStays ==
  ASSUME NEW t \in Threads, OnlyJob(t), NEW u \in Threads \ {t}
  PROVE  /\ Own(u)' = Own(u) /\ (HasBlock(u)' <=> HasBlock(u)) /\ (Complete(u)' <=> Complete(u))
         /\ job'[u] = job[u]
  BY DEF OnlyJob, Own, HasBlock, Complete, Reserving

\* What is reserved is in the heap.
LEMMA OwnArePages ==
  ASSUME HeapAssumption, IInv, NEW t \in Threads
  PROVE  Own(t) \subseteq PageNos /\ Own(t) \subseteq 1..numPages
<1>1. CASE Reserving(t) \/ Complete(t)
  <2>1. PagesOK(t)
    BY DEF IInv
  <2>2. /\ job[t].ptr >= 1 /\ job[t].ptr + job[t].n - 1 <= numPages /\ job[t].j <= job[t].n
        /\ Own(t) = job[t].ptr..(job[t].ptr + job[t].j - 1)
    BY <1>1, <2>1, JobFields DEF PagesOK, Own
  <2>3. numPages \in Nat /\ numPages <= MaxPages /\ MaxPages \in Nat
    BY DEF IInv, HeapTypeOK, HeapAssumption
  <2>4. ASSUME NEW q \in Own(t) PROVE q \in 1..numPages
    BY <2>2, <2>3, JobFields
  <2>5. 1..numPages \subseteq PageNos
    BY <2>3 DEF PageNos
  <2> QED
    BY <2>4, <2>5
<1>2. CASE ~(Reserving(t) \/ Complete(t))
  BY <1>2 DEF Own
<1> QED
  BY <1>1, <1>2

\* Objects that are held stay what they are.
LEMMA HeldStay ==
  ASSUME HeapAssumption, PagesStay, IInv,
         \A p \in PageNos : \A b \in 1..MaxBlocks :
            IsBlock(page[p].size, p, b) /\ block[p][b] = "obj" => block'[p][b] = "obj",
         NEW u \in Threads, NEW o \in held[u]
  PROVE  IF o[2] = 0 THEN page'[o[1]].t = "large"
         ELSE IsBlock(page[o[1]].size, o[1], o[2])' /\ block'[o[1]][o[2]] = "obj"
<1>1. o \in Objects
  BY DEF IInv, HeapTypeOK
<1>2. o[1] \in PageNos /\ o[2] \in 0..MaxBlocks
  BY <1>1 DEF Objects
<1>3. IF o[2] = 0 THEN page[o[1]].t = "large"
      ELSE IsBlock(page[o[1]].size, o[1], o[2]) /\ block[o[1]][o[2]] = "obj"
  BY DEF IInv, ObjectsOK
<1>4. CASE o[2] = 0
  BY <1>2, <1>3, <1>4 DEF PagesStay
<1>5. CASE o[2] # 0
  <2>1. o[2] \in 1..MaxBlocks
    BY <1>2, <1>5 DEF HeapAssumption
  <2>2. page'[o[1]] = page[o[1]]
    BY <1>2, <1>3, <1>5 DEF PagesStay, IsBlock, IsPage
  <2> QED
    BY <1>2, <1>3, <1>5, <2>1, <2>2 DEF IsBlock, IsPage
<1> QED
  BY <1>4, <1>5

\* Objects and blocks stay apart if a thread takes a block that no other thread has.
LEMMA ObjectsStay ==
  ASSUME HeapAssumption, PagesStay, IInv, NEW t \in Threads, OnlyJob(t), held' = held,
         \A p \in PageNos : \A b \in 1..MaxBlocks :
            IsBlock(page[p].size, p, b) /\ block[p][b] = "obj" => block'[p][b] = "obj",
         \A u \in Threads \ {t} : HasBlock(t)' /\ HasBlock(u) =>
            <<job'[t].ptr, job'[t].blk>> # <<job[u].ptr, job[u].blk>>
  PROVE  ObjectsOK'
<1>1. \A u \in Threads : \A o \in held[u] :
        IF o[2] = 0 THEN page'[o[1]].t = "large"
        ELSE IsBlock(page[o[1]].size, o[1], o[2])' /\ block'[o[1]][o[2]] = "obj"
  BY HeldStay
<1>2. \A u, v \in Threads : u # v => held'[u] \cap held'[v] = {}
  BY DEF IInv, ObjectsOK
<1>3. \A u \in Threads \ {t} : (HasBlock(u)' <=> HasBlock(u)) /\ job'[u] = job[u]
  BY OwnStays
<1>4. \A u, v \in Threads : u # v /\ HasBlock(u)' /\ HasBlock(v)' =>
        <<job'[u].ptr, job'[u].blk>> # <<job'[v].ptr, job'[v].blk>>
  BY <1>3 DEF IInv, ObjectsOK
<1> QED
  BY <1>1, <1>2, <1>4 DEF ObjectsOK

\* What is left to show of such a step.
LEMMA WordsStep ==
  ASSUME HeapAssumption, IInv, NEW t \in Threads, OnlyJob(t), PagesStay,
         UNCHANGED <<lists, numPages>>,
         \A x : Complete(t) /\ x = job[t].ptr + job[t].n => IsEnd(x)',
         \A u \in Threads \ {t} : /\ \A p \in Own(u) : page'[p] = page[p]
                                  /\ HasBlock(u) => block'[job[u].ptr][job[u].blk] = "alloc",
         \A p \in PageNos : page'[p].t = "small" => page[p].t = "small" \/ page'[p].next = None,
         HeapTypeOK', JobTypeOK', PagesOK(t)', BlocksOK(t)', Layout', ObjectsOK'
  PROVE  IInv'
<1>1. numPages' \in Nat /\ numPages <= numPages'
  BY DEF IInv, HeapTypeOK, HeapAssumption
<1>2. \A u \in Threads : PagesOK(u)' /\ BlocksOK(u)'
  BY <1>1, OthersStay
<1>3. ListsOK'
  <2>1. IsEnd(nextPage)'
    <3>1. PICK x : x = nextPage
      OBVIOUS
    <3>2. IsEnd(x)'
      BY <3>1, EndsStay DEF IInv, ListsOK
    <3> QED
      BY <3>1, <3>2 DEF IsEnd, AfterPage, AfterJob, lists
  <2>2. \A s, p : IsPage(s, p) => IsPage(s, p)'
    BY BlocksStay
  <2>3. \A s, p, b : IsBlock(s, p, b) => IsBlock(s, p, b)'
    BY BlocksStay
  <2>4. \A s \in Sizes : /\ list[s] # None => IsPage(s, list[s])
                         /\ hint[s] # None => IsBlock(s, hint[s][1], hint[s][2])
    BY DEF IInv, ListsOK
  <2>5. \A s \in Sizes : /\ list'[s] # None => IsPage(s, list[s])'
                         /\ hint'[s] # None => IsBlock(s, hint[s][1], hint[s][2])'
    <3>1. list' = list /\ hint' = hint
      BY DEF lists
    <3>2. SUFFICES ASSUME NEW s \in Sizes
                   PROVE  /\ list'[s] # None => IsPage(s, list[s])'
                          /\ hint'[s] # None => IsBlock(s, hint[s][1], hint[s][2])'
      OBVIOUS
    <3>3. PICK l, h : l = list[s] /\ h = hint[s]
      OBVIOUS
    <3>4. (l # None => IsPage(s, l)') /\ (h # None => IsBlock(s, h[1], h[2])')
      BY <2>2, <2>3, <2>4, <3>3
    <3> QED
      BY <3>1, <3>3, <3>4 DEF IsPage, IsBlock
  <2>6. ASSUME NEW p \in PageNos, page'[p].t = "small", page'[p].next # None
        PROVE  IsPage(page[p].size, page[p].next)'
    <3>1. page'[p] = page[p]
      BY <2>6 DEF PagesStay
    <3>2. PICK s, q : s = page[p].size /\ q = page[p].next
      OBVIOUS
    <3>3. IsPage(s, q)
      BY <2>6, <3>1, <3>2 DEF IInv, ListsOK
    <3>4. IsPage(s, q)'
      BY <2>2, <3>3
    <3> QED
      BY <3>1, <3>2, <3>4 DEF IsPage
  <2> QED
    BY <2>1, <2>5, <2>6 DEF ListsOK
<1> QED
  BY <1>2, <1>3 DEF IInv

\* Where something ends, nothing else goes on: an area that includes the page before an
\* end and goes on is that of the thread or the descriptor that ends there.
LEMMA NothingCrossesEnd ==
  ASSUME HeapAssumption, IInv, NEW x \in Nat, IsEnd(x), x > 1
  PROVE  /\ \A q \in PageNos : x - 1 \in Extent(q) => x \notin Extent(q)
         /\ \A u \in Threads : x - 1 \in Own(u) => x \notin Own(u)
<1>1. CASE AfterPage(x)
  <2>1. PICK p \in PageNos : \/ page[p].t = "small" /\ x = p + 1
                             \/ page[p].t = "large" /\ x = p + page[p].n
    BY <1>1 DEF AfterPage
  <2>2. p \in Nat /\ p >= 1
    BY DEF PageNos, HeapAssumption
  <2>3. x - 1 \in Extent(p) /\ x \notin Extent(p)
    <3>1. CASE page[p].t = "small" /\ x = p + 1
      BY <2>2, <3>1 DEF Extent
    <3>2. CASE page[p].t = "large" /\ x = p + page[p].n
      <4>1. page[p].n \in Nat \ {0}
        BY <3>2, WordFields DEF IInv
      <4>2. Extent(p) = p..(p + page[p].n - 1)
        BY <3>2 DEF Extent
      <4> QED
        BY <2>2, <3>2, <4>1, <4>2
    <3> QED
      BY <2>1, <3>1, <3>2
  <2>4. ASSUME NEW q \in PageNos, x - 1 \in Extent(q) PROVE x \notin Extent(q)
    <3>1. q = p
      BY <2>3, <2>4 DEF IInv, Layout
    <3> QED
      BY <2>3, <3>1
  <2>5. ASSUME NEW u \in Threads, x - 1 \in Own(u) PROVE FALSE
    BY <2>3, <2>5 DEF IInv, Layout
  <2> QED
    BY <2>4, <2>5
<1>2. CASE AfterJob(x)
  <2>1. PICK v \in Threads : Complete(v) /\ x = job[v].ptr + job[v].n
    BY <1>2 DEF AfterJob
  <2>2. job[v].j = job[v].n /\ job[v].ptr >= 1
    BY <2>1 DEF IInv, PagesOK
  <2>3. job[v].n \in Nat /\ job[v].n > 0
    <3>1. pc[v] # "idle"
      BY <2>1 DEF Complete
    <3> QED
      BY <3>1, JobFields DEF IInv, PagesOK, HeapAssumption
  <2>4. Own(v) = job[v].ptr..(job[v].ptr + job[v].n - 1)
    BY <2>1, <2>2 DEF Own
  <2>5. x - 1 \in Own(v) /\ x \notin Own(v)
    BY <2>1, <2>3, <2>4, JobFields
  <2>6. ASSUME NEW q \in PageNos, x - 1 \in Extent(q) PROVE FALSE
    BY <2>5, <2>6 DEF IInv, Layout
  <2>7. ASSUME NEW u \in Threads, x - 1 \in Own(u) PROVE x \notin Own(u)
    <3>1. u = v
      BY <2>5, <2>7 DEF IInv, Layout
    <3> QED
      BY <2>5, <3>1
  <2> QED
    BY <2>6, <2>7
<1> QED
  BY <1>1, <1>2 DEF IsEnd

\* A page that reads as free where a thread, going from an end, finds it, is nobody's.
LEMMA FreeIsNobodys ==
  ASSUME HeapAssumption, IInv, NEW t \in Threads, pc[t] = "pages",
         NEW p, p = job[t].ptr + job[t].j, page[p] = Free
  PROVE  /\ p \in PageNos /\ p <= numPages
         /\ \A q \in PageNos : p \notin Extent(q)
         /\ \A u \in Threads : p \notin Own(u)
<1>0. PagesOK(t) /\ Reserving(t)
  BY DEF IInv, Reserving
<1>1. /\ IsEnd(job[t].ptr) /\ job[t].j < job[t].n
      /\ job[t].ptr >= 1 /\ job[t].ptr + job[t].n - 1 <= numPages
  BY <1>0 DEF PagesOK
<1>2. job[t].ptr \in Nat /\ job[t].j \in Nat /\ job[t].n \in Nat /\ numPages \in Nat
      /\ MaxPages \in Nat /\ numPages <= MaxPages
  BY JobFields DEF IInv, HeapTypeOK, HeapAssumption
<1>3. p \in PageNos /\ p <= numPages
  BY <1>1, <1>2 DEF PageNos
<1>4. Own(t) = job[t].ptr..(p - 1)
  BY <1>0, <1>2 DEF Own
<1>5. ASSUME NEW q \in PageNos, p \in Extent(q) PROVE FALSE
  <2>1. page[p].t = "free"
    BY DEF Free
  <2>2. q # p /\ page[q].t = "large" /\ p \in q..(q + page[q].n - 1)
    BY <1>5, <2>1 DEF Extent
  <2>3. q \in Nat /\ q < p /\ page[q].n \in Nat
    BY <2>2, <1>2, WordFields DEF IInv, PageNos
  <2>4. q < job[t].ptr
    <3>1. SUFFICES ASSUME q >= job[t].ptr PROVE FALSE
      BY <1>2, <2>3
    <3>2. q \in Own(t)
      BY <1>2, <1>4, <2>3, <3>1
    <3>3. page[q] = Alloc(job[t].ptr + job[t].n - q)
      BY <1>0, <3>2 DEF PagesOK
    <3> QED
      BY <2>2, <3>3 DEF Alloc
  <2>5. Extent(q) = q..(q + page[q].n - 1)
    BY <2>2 DEF Extent
  <2>6. job[t].ptr - 1 \in Extent(q) /\ job[t].ptr \in Extent(q) /\ job[t].ptr > 1
    <3>1. q >= 1
      BY <1>2 DEF PageNos
    <3>2. p \in Nat /\ job[t].ptr <= p /\ p <= q + page[q].n - 1
      BY <1>2, <2>2, <2>3
    <3>3. job[t].ptr - 1 \in q..(q + page[q].n - 1)
      BY <1>2, <2>3, <2>4, <3>2
    <3>4. job[t].ptr \in q..(q + page[q].n - 1)
      BY <1>2, <2>3, <2>4, <3>2
    <3>5. job[t].ptr > 1
      BY <1>2, <2>3, <2>4, <3>1
    <3> QED
      BY <2>5, <3>3, <3>4, <3>5
  <2> QED
    BY <1>1, <1>2, <2>6, NothingCrossesEnd
<1>6. ASSUME NEW u \in Threads, p \in Own(u) PROVE FALSE
  <2>1. u # t
    BY <1>2, <1>4, <1>6
  <2>2. PagesOK(u)
    BY DEF IInv
  <2>3. pc[u] = "mark" /\ p # job[u].ptr
    <3>1. page[p].t = "free"
      BY DEF Free
    <3>2. \A m : Alloc(m).t = "alloc"
      BY DEF Alloc
    <3>3. pc[u] = "mark"
      BY <1>6, <2>2, <3>1, <3>2 DEF PagesOK
    <3> QED
      BY <2>2, <3>1, <3>2, <3>3 DEF PagesOK
  <2>4. p \in job[u].ptr..(job[u].ptr + job[u].j - 1) /\ Own(u) = job[u].ptr..(job[u].ptr + job[u].j - 1)
    BY <1>6 DEF Own
  <2>5. job[u].ptr \in Nat /\ job[u].j \in Nat /\ job[u].ptr < p
    BY <1>2, <2>3, <2>4, JobFields
  <2>6. job[u].ptr \in Own(u) /\ job[u].ptr >= 1
    <3>1. job[u].ptr >= 1
      BY <2>2, <1>6 DEF PagesOK, Own
    <3> QED
      BY <1>2, <2>4, <2>5, <3>1
  <2>7. job[u].ptr < job[t].ptr
    <3>1. SUFFICES ASSUME job[u].ptr >= job[t].ptr PROVE FALSE
      BY <1>2, <2>5
    <3>2. job[u].ptr \in Own(t)
      BY <1>2, <1>4, <2>5, <3>1
    <3> QED
      BY <2>1, <2>6, <3>2 DEF IInv, Layout
  <2>8. job[t].ptr - 1 \in Own(u) /\ job[t].ptr \in Own(u) /\ job[t].ptr > 1
    <3>1. p \in Nat /\ job[t].ptr <= p /\ p <= job[u].ptr + job[u].j - 1
      BY <1>2, <2>4, <2>5
    <3>2. job[t].ptr - 1 \in job[u].ptr..(job[u].ptr + job[u].j - 1)
      BY <1>2, <2>5, <2>7, <3>1
    <3>3. job[t].ptr \in job[u].ptr..(job[u].ptr + job[u].j - 1)
      BY <1>2, <2>5, <2>7, <3>1
    <3>4. job[t].ptr > 1
      BY <1>2, <2>5, <2>6, <2>7
    <3> QED
      BY <2>4, <3>2, <3>3, <3>4
  <2> QED
    BY <1>1, <1>2, <2>8, NothingCrossesEnd
<1> QED
  BY <1>3, <1>5, <1>6

\* Extents are those of the words that stay.
LEMMA ExtentsStay ==
  ASSUME NEW p, page'[p] = page[p] \/ (/\ page[p].t \notin {"small", "large"}
                                       /\ page'[p].t \notin {"small", "large"})
  PROVE  Extent(p)' = Extent(p)
  BY DEF Extent

\* One page more is reserved.
LEMMA TakePage ==
  ASSUME HeapAssumption, IInv, NEW t \in Threads, GrabPage(t),
         page[job[t].ptr + job[t].j] = Free
  PROVE  IInv'
<1> DEFINE p == job[t].ptr + job[t].j
           m == job[t].n - job[t].j
           r == [job[t] EXCEPT !.j = job[t].j + 1]
           to == IF job[t].j + 1 = job[t].n THEN "got" ELSE "pages"
<1>1. /\ pc[t] = "pages" /\ page' = [page EXCEPT ![p] = Alloc(m)]
      /\ job' = [job EXCEPT ![t] = r] /\ To(t, to)
      /\ UNCHANGED <<block, numPages, hint, list, nextPage, oom, held>>
  BY DEF GrabPage, lists
<1>2. /\ p \in PageNos /\ p <= numPages
      /\ \A q \in PageNos : p \notin Extent(q)
      /\ \A u \in Threads : p \notin Own(u)
  BY <1>1, FreeIsNobodys
<1>3. PagesOK(t) /\ Reserving(t) /\ ~Complete(t) /\ ~HasBlock(t)
  BY <1>1 DEF IInv, Reserving, Complete, HasBlock
<1>4. job[t].j < job[t].n /\ job[t].j \in Nat /\ job[t].n \in Nat /\ job[t].ptr \in Nat
  BY <1>3, JobFields DEF PagesOK
<1>5. Alloc(m) \in Words /\ Alloc(m).t = "alloc" /\ Alloc(m).n = m /\ Alloc(m) # Free
  <2>1. job[t].n \in LargeSizes \cup {1}
    BY <1>1, <1>3 DEF PagesOK
  <2>2. m \in 1..job[t].n
    BY <1>4
  <2>3. \A x \in LargeSizes \cup {1} : \A y \in 1..x :
          Alloc(y) \in Words /\ Alloc(y).t = "alloc" /\ Alloc(y).n = y /\ Alloc(y) # Free
    BY NewWords
  <2> HIDE DEF m
  <2>4. \A y \in 1..job[t].n :
          Alloc(y) \in Words /\ Alloc(y).t = "alloc" /\ Alloc(y).n = y /\ Alloc(y) # Free
    BY <2>1, <2>3
  <2> QED
    BY <2>2, <2>4
<1>6. /\ r \in Jobs /\ r.size = job[t].size /\ r.n = job[t].n /\ r.ptr = job[t].ptr
      /\ r.j = job[t].j + 1 /\ r.at = job[t].at
  BY JobFields DEF Jobs
<1> HIDE DEF r
<1>7. OnlyJob(t) /\ JobTypeOK' /\ pc'[t] = to /\ job'[t] = r
  BY <1>1, <1>6, Moves DEF Places, To
<1>8. Own(t) = job[t].ptr..(p - 1)
  BY <1>3, <1>4 DEF Own
<1>9. Own(t)' = Own(t) \cup {p}
  <2>1. Reserving(t)' \/ Complete(t)'
    BY <1>7 DEF Reserving, Complete
  <2>2. Own(t)' = job[t].ptr..(job[t].ptr + (job[t].j + 1) - 1)
    BY <1>6, <1>7, <2>1 DEF Own
  <2> QED
    BY <1>4, <1>8, <2>2
<1>10. page \in [PageNos -> Words]
  BY DEF IInv, HeapTypeOK
<1>11. page'[p] = Alloc(m) /\ \A q \in PageNos \ {p} : page'[q] = page[q]
  BY <1>1, <1>2, <1>10
<1>12. HeapTypeOK'
  BY <1>1, <1>5, <1>10 DEF IInv, HeapTypeOK
<1>13. PagesStay
  BY <1>11 DEF PagesStay, Free
<1>14. \A x : IsEnd(x) => IsEnd(x)'
  BY <1>3, <1>7, <1>13, EndsStay
<1>15. \A q \in PageNos : Extent(q)' = Extent(q)
  <2>1. page[p].t = "free"
    BY DEF Free
  <2> QED
    BY <1>5, <1>11, <2>1, ExtentsStay
<1>16. IsEnd(job[t].ptr)'
  <2>1. PICK x : x = job[t].ptr
    OBVIOUS
  <2>2. IsEnd(x)'
    BY <1>1, <1>3, <1>14, <2>1 DEF PagesOK
  <2> QED
    BY <1>6, <1>7, <2>1, <2>2 DEF IsEnd, AfterPage, AfterJob
<1>17. \A q \in Own(t)' : page'[q] = Alloc(job[t].ptr + job[t].n - q)
  <2>1. ASSUME NEW q \in Own(t) PROVE page'[q] = Alloc(job[t].ptr + job[t].n - q)
    <3>1. page[q] = Alloc(job[t].ptr + job[t].n - q)
      BY <1>1, <1>3 DEF PagesOK
    <3>2. q # p
      BY <1>2
    <3> QED
      BY <1>1, <1>10, <3>1, <3>2
  <2>2. job[t].ptr + job[t].n - p = m
    BY <1>4
  <2> QED
    BY <1>9, <1>11, <2>1, <2>2
<1>18. PagesOK(t)'
  <2>1. pc'[t] \in {"got", "pages"} /\ (pc'[t] = "got" <=> job[t].j + 1 = job[t].n)
    BY <1>7
  <2>2. /\ IF job'[t].size = None THEN job'[t].n \in LargeSizes ELSE job'[t].n = 1
        /\ pc'[t] = "pages" => IsEnd(job[t].ptr)' /\ job'[t].at = job'[t].ptr
        /\ job'[t].ptr >= 1 /\ job'[t].ptr + job'[t].n - 1 <= numPages'
    BY <1>1, <1>3, <1>6, <1>7, <1>16 DEF PagesOK
  <2>3. (Reserving(t)' => job'[t].j < job'[t].n) /\ (Complete(t)' => job'[t].j = job'[t].n)
    BY <1>4, <1>6, <1>7, <2>1 DEF Reserving, Complete
  <2>4. \A q \in Own(t)' : page'[q] = Alloc(job'[t].ptr + job'[t].n - q)
    BY <1>6, <1>7, <1>17
  <2> QED
    BY <2>1, <2>2, <2>3, <2>4 DEF PagesOK
<1>19. BlocksOK(t)' /\ ~HasBlock(t)'
  BY <1>7 DEF BlocksOK, HasBlock
<1>20. \A u \in Threads \ {t} : /\ Own(u)' = Own(u) /\ (HasBlock(u)' <=> HasBlock(u))
                                /\ job'[u] = job[u]
  BY <1>7, OwnStays
<1>21. Layout'
  <2>1. \A q1, q2 \in PageNos : q1 # q2 => Extent(q1)' \cap Extent(q2)' = {}
    BY <1>15 DEF IInv, Layout
  <2>2. \A q \in PageNos, u \in Threads : Extent(q)' \cap Own(u)' = {}
    BY <1>2, <1>9, <1>15, <1>20 DEF IInv, Layout
  <2>3. \A u, v \in Threads : u # v => Own(u)' \cap Own(v)' = {}
    BY <1>2, <1>9, <1>20 DEF IInv, Layout
  <2>4. \A q \in PageNos : page'[q].t = "alloc" => \E u \in Threads : q \in Own(u)'
    BY <1>9, <1>11, <1>20 DEF IInv, Layout
  <2>5. \A q \in PageNos : Extent(q)' \subseteq 1..numPages'
    BY <1>1, <1>15 DEF IInv, Layout
  <2> QED
    BY <2>1, <2>2, <2>3, <2>4, <2>5 DEF Layout
<1>22. ObjectsOK'
  BY <1>1, <1>7, <1>13, <1>19, ObjectsStay
<1>23. \A u \in Threads \ {t} : /\ \A q \in Own(u) : page'[q] = page[q]
                                /\ HasBlock(u) => block'[job[u].ptr][job[u].blk] = "alloc"
  <2>1. \A q : q # p => page'[q] = page[q]
    BY <1>1, <1>10
  <2> QED
    BY <1>1, <1>2, <2>1 DEF IInv, BlocksOK
<1>24. \A q \in PageNos : page'[q].t = "small" => page[q].t = "small"
  BY <1>5, <1>11
<1> QED
  BY <1>1, <1>3, <1>7, <1>12, <1>13, <1>18, <1>19, <1>21, <1>22, <1>23, <1>24, WordsStep DEF lists

LEMMA GrabPageStep ==
  ASSUME HeapAssumption, IInv, NEW t \in Threads, GrabPage(t)
  PROVE  IInv'
<1>1. CASE page[job[t].ptr + job[t].j] = Free
  BY <1>1, TakePage
<1>2. CASE page[job[t].ptr + job[t].j] # Free
  <2>1. /\ UNCHANGED <<page, block, numPages, oom, held, hint, list, nextPage>>
        /\ pc[t] = "pages" /\ To(t, "look") /\ job' = job
    BY <1>2 DEF GrabPage, lists
  <2>2. OnlyJob(t) /\ JobTypeOK' /\ pc'[t] = "look" /\ job'[t] = job[t]
    BY <2>1, Stays DEF Places
  <2>3. /\ Own(t)' = Own(t) /\ Reserving(t) /\ Reserving(t)' /\ ~Complete(t)' /\ ~Complete(t)
        /\ ~HasBlock(t)'
    BY <2>1, <2>2 DEF Own, Reserving, Complete, HasBlock
  <2>4. \A x : IsEnd(x) => IsEnd(x)'
    BY <2>1, <2>2, <2>3, EndsStay DEF PagesStay
  <2>5. IsEnd(job[t].ptr)'
    <3>1. PICK x : x = job[t].ptr
      OBVIOUS
    <3>2. IsEnd(x)'
      BY <2>1, <2>4, <3>1 DEF PagesOK, IInv
    <3> QED
      BY <2>2, <3>1, <3>2 DEF IsEnd, AfterPage, AfterJob
  <2>6. PagesOK(t)
    BY DEF IInv
  <2>7. PagesOK(t)' /\ BlocksOK(t)'
    BY <2>1, <2>2, <2>3, <2>5, <2>6 DEF PagesOK, BlocksOK
  <2> QED
    BY <2>1, <2>2, <2>3, <2>7, ListsStep
<1> QED
  BY <1>1, <1>2

\* The last of the pages reserved is given back.
LEMMA GiveBack ==
  ASSUME HeapAssumption, IInv, NEW t \in Threads, Undo(t), job[t].j > 0
  PROVE  IInv'
<1> DEFINE p == job[t].ptr + job[t].j - 1
           r == [job[t] EXCEPT !.j = job[t].j - 1]
<1>1. /\ pc[t] = "undo" /\ page' = [page EXCEPT ![p] = Free]
      /\ job' = [job EXCEPT ![t] = r] /\ pc' = pc
      /\ UNCHANGED <<block, numPages, hint, list, nextPage, oom, held>>
  BY DEF Undo, lists
<1>2. PagesOK(t) /\ Reserving(t) /\ ~Complete(t) /\ ~HasBlock(t)
  BY <1>1 DEF IInv, Reserving, Complete, HasBlock
<1>3. /\ job[t].j < job[t].n /\ job[t].j \in Nat /\ job[t].n \in Nat /\ job[t].ptr \in Nat
      /\ job[t].ptr >= 1
  BY <1>2, JobFields DEF PagesOK
<1>4. /\ r \in Jobs /\ r.size = job[t].size /\ r.n = job[t].n /\ r.ptr = job[t].ptr
      /\ r.j = job[t].j - 1 /\ r.at = job[t].at
  BY <1>3, JobFields DEF Jobs
<1> HIDE DEF r
<1>5. OnlyJob(t) /\ JobTypeOK' /\ pc'[t] = "undo" /\ job'[t] = r
  BY <1>1, <1>4 DEF IInv, JobTypeOK, OnlyJob
<1>6. Own(t) = job[t].ptr..p
  BY <1>2, <1>3 DEF Own
<1>7. Reserving(t)' /\ ~Complete(t)' /\ ~HasBlock(t)'
  BY <1>5 DEF Reserving, Complete, HasBlock
<1>8. Own(t)' = Own(t) \ {p} /\ p \in Own(t)
  <2>1. Own(t)' = job[t].ptr..(job[t].ptr + (job[t].j - 1) - 1)
    BY <1>4, <1>5, <1>7 DEF Own
  <2>2. p \in Nat /\ job[t].ptr <= p
    BY <1>3
  <2>3. Own(t)' = job[t].ptr..(p - 1)
    BY <1>3, <2>1
  <2> HIDE DEF p
  <2> QED
    BY <1>3, <1>6, <2>2, <2>3
<1>9. page[p] = Alloc(job[t].ptr + job[t].n - p)
  BY <1>1, <1>2, <1>8 DEF PagesOK
<1>10. p \in PageNos
  <2>1. numPages \in Nat /\ numPages <= MaxPages /\ MaxPages \in Nat
    BY DEF IInv, HeapTypeOK, HeapAssumption
  <2>2. job[t].ptr + job[t].n - 1 <= numPages
    BY <1>2 DEF PagesOK
  <2> QED
    BY <1>3, <2>1, <2>2 DEF PageNos
<1>11. page \in [PageNos -> Words]
  BY DEF IInv, HeapTypeOK
<1>12. page'[p] = Free /\ \A q : q # p => page'[q] = page[q]
  BY <1>1, <1>10, <1>11
<1>13. HeapTypeOK'
  BY <1>1, <1>11, NewWords DEF IInv, HeapTypeOK
<1>14. PagesStay
  BY <1>9, <1>12 DEF PagesStay, Alloc
<1>15. \A x : IsEnd(x) => IsEnd(x)'
  BY <1>2, <1>5, <1>14, EndsStay
<1>16. \A q \in PageNos : Extent(q)' = Extent(q)
  BY <1>9, <1>12, ExtentsStay DEF Free, Alloc
<1>17. IsEnd(job[t].at)'
  <2>1. PICK x : x = job[t].at
    OBVIOUS
  <2>2. IsEnd(x)'
    BY <1>1, <1>2, <1>15, <2>1 DEF PagesOK
  <2> QED
    BY <1>4, <1>5, <2>1, <2>2 DEF IsEnd, AfterPage, AfterJob
<1>18. PagesOK(t)'
  <2>1. /\ IF job'[t].size = None THEN job'[t].n \in LargeSizes ELSE job'[t].n = 1
        /\ job'[t].ptr >= 1 /\ job'[t].ptr + job'[t].n - 1 <= numPages'
    BY <1>1, <1>2, <1>4, <1>5 DEF PagesOK
  <2>2. job'[t].j < job'[t].n
    BY <1>3, <1>4, <1>5
  <2>3. \A q \in Own(t)' : page'[q] = Alloc(job'[t].ptr + job'[t].n - q)
    BY <1>1, <1>2, <1>4, <1>5, <1>8, <1>12 DEF PagesOK
  <2> QED
    BY <1>5, <1>7, <1>17, <2>1, <2>2, <2>3 DEF PagesOK
<1>19. BlocksOK(t)'
  BY <1>5, <1>7 DEF BlocksOK
<1>20. \A u \in Threads \ {t} : Own(u)' = Own(u)
  BY <1>5, OwnStays
<1>21. Layout'
  <2>1. \A q1, q2 \in PageNos : q1 # q2 => Extent(q1)' \cap Extent(q2)' = {}
    BY <1>16 DEF IInv, Layout
  <2>2. \A q \in PageNos, u \in Threads : Extent(q)' \cap Own(u)' = {}
    BY <1>8, <1>16, <1>20 DEF IInv, Layout
  <2>3. \A u, v \in Threads : u # v => Own(u)' \cap Own(v)' = {}
    BY <1>8, <1>20 DEF IInv, Layout
  <2>4. \A q \in PageNos : page'[q].t = "alloc" => \E u \in Threads : q \in Own(u)'
    BY <1>8, <1>12, <1>20, NewWords DEF IInv, Layout
  <2>5. \A q \in PageNos : Extent(q)' \subseteq 1..numPages'
    BY <1>1, <1>16 DEF IInv, Layout
  <2> QED
    BY <2>1, <2>2, <2>3, <2>4, <2>5 DEF Layout
<1>22. ObjectsOK'
  BY <1>1, <1>5, <1>7, <1>14, ObjectsStay
<1>23. \A u \in Threads \ {t} : /\ \A q \in Own(u) : page'[q] = page[q]
                                /\ HasBlock(u) => block'[job[u].ptr][job[u].blk] = "alloc"
  BY <1>1, <1>8, <1>12 DEF IInv, BlocksOK, Layout
<1>24. \A q \in PageNos : page'[q].t = "small" => page[q].t = "small"
  BY <1>12, NewWords
<1> QED
  BY <1>1, <1>2, <1>5, <1>13, <1>14, <1>18, <1>19, <1>21, <1>22, <1>23, <1>24, WordsStep DEF lists

LEMMA UndoStep ==
  ASSUME HeapAssumption, IInv, NEW t \in Threads, Undo(t)
  PROVE  IInv'
<1>1. CASE job[t].j > 0
  BY <1>1, GiveBack
<1>2. CASE ~(job[t].j > 0)
  <2> DEFINE r == [job[t] EXCEPT !.ptr = 0]
  <2>1. /\ UNCHANGED <<page, block, numPages, oom, held, hint, list, nextPage>>
        /\ pc[t] = "undo" /\ To(t, "avail") /\ job' = [job EXCEPT ![t] = r]
    BY <1>2 DEF Undo, lists
  <2>2. r \in Jobs /\ r.size = job[t].size /\ r.n = job[t].n /\ r.at = job[t].at
    BY JobFields DEF Jobs
  <2> HIDE DEF r
  <2>3. OnlyJob(t) /\ JobTypeOK' /\ pc'[t] = "avail" /\ job'[t] = r
    BY <2>1, <2>2, Moves DEF Places, To
  <2>4. Own(t) = {}
    <3>1. job[t].j = 0
      BY <1>2, JobFields
    <3> QED
      BY <3>1, JobFields DEF Own
  <2>5. Own(t)' = Own(t) /\ ~Complete(t) /\ ~HasBlock(t)' /\ ~Complete(t)' /\ ~Reserving(t)'
    BY <2>1, <2>3, <2>4 DEF Own, Reserving, Complete, HasBlock
  <2>6. \A x : IsEnd(x) => IsEnd(x)'
    BY <2>1, <2>3, <2>5, EndsStay DEF PagesStay
  <2>7. IsEnd(job[t].at)'
    <3>1. PICK x : x = job[t].at
      OBVIOUS
    <3>2. IsEnd(x)'
      BY <2>1, <2>6, <3>1 DEF PagesOK, IInv
    <3> QED
      BY <2>2, <2>3, <3>1, <3>2 DEF IsEnd, AfterPage, AfterJob
  <2>8. PagesOK(t)
    BY DEF IInv
  <2>9. PagesOK(t)' /\ BlocksOK(t)'
    BY <2>1, <2>2, <2>3, <2>4, <2>5, <2>7, <2>8 DEF PagesOK, BlocksOK
  <2> QED
    BY <2>1, <2>3, <2>5, <2>9, ListsStep
<1> QED
  BY <1>1, <1>2

\* A block that is free when its word is swapped is nobody's.
LEMMA GrabBlockStep ==
  ASSUME HeapAssumption, IInv, NEW t \in Threads, GrabBlock(t)
  PROVE  IInv'
<1> DEFINE s == job[t].size
           p == job[t].ptr
           b == job[t].blk
<1>1. /\ pc[t] = "grab" /\ job' = job
      /\ UNCHANGED <<page, numPages, hint, list, nextPage, oom, held>>
  BY DEF GrabBlock, lists
<1>2. IsBlock(s, p, b) /\ s \in Sizes /\ s # None
  <2>1. IsBlock(s, p, b)
    BY <1>1 DEF IInv, BlocksOK
  <2> QED
    BY <2>1, WordFields DEF IInv, IsBlock, IsPage, HeapAssumption
<1>3. p \in PageNos /\ b \in 1..MaxBlocks
  <2>1. Blocks[s] \in 2..MaxBlocks /\ MaxBlocks \in Nat
    BY <1>2 DEF HeapAssumption
  <2>2. p \in PageNos /\ b \in 1..Blocks[s]
    BY <1>2 DEF IsBlock, IsPage
  <2> QED
    BY <2>1, <2>2
<1>4. PagesOK(t) /\ ~Reserving(t) /\ ~Complete(t) /\ ~HasBlock(t)
  BY <1>1 DEF IInv, Reserving, Complete, HasBlock
<1>5. ASSUME NEW to \in {"mine", "next"}, To(t, to)
      PROVE  /\ OnlyJob(t) /\ JobTypeOK' /\ pc'[t] = to /\ job'[t] = job[t]
             /\ ~Reserving(t)' /\ ~Complete(t)' /\ Own(t)' = {} /\ Own(t) = {}
             /\ PagesOK(t)' /\ (HasBlock(t)' <=> to = "mine")
  <2>1. OnlyJob(t) /\ JobTypeOK' /\ pc'[t] = to /\ job'[t] = job[t]
    BY <1>1, <1>5, Stays DEF Places
  <2>2. ~Reserving(t)' /\ ~Complete(t)' /\ Own(t)' = {} /\ Own(t) = {}
    BY <1>4, <2>1 DEF Reserving, Complete, Own
  <2>3. HasBlock(t)' <=> to = "mine"
    BY <1>2, <2>1 DEF HasBlock
  <2>4. PagesOK(t)'
    BY <1>1, <1>4, <2>1, <2>2 DEF PagesOK
  <2> QED
    BY <2>1, <2>2, <2>3, <2>4
<1>6. CASE block[p][b] = "free"
  <2>1. To(t, "mine") /\ block' = [block EXCEPT ![p][b] = "alloc"]
    BY <1>6 DEF GrabBlock
  <2>2. /\ OnlyJob(t) /\ JobTypeOK' /\ pc'[t] = "mine" /\ job'[t] = job[t]
        /\ ~Reserving(t)' /\ ~Complete(t)' /\ Own(t)' = {} /\ Own(t) = {}
        /\ PagesOK(t)' /\ HasBlock(t)'
    BY <1>5, <2>1
  <2>3. block \in [PageNos -> [1..MaxBlocks -> {"free", "alloc", "obj"}]]
    BY DEF IInv, HeapTypeOK
  <2>4. /\ block'[p][b] = "alloc"
        /\ \A q, c : <<q, c>> # <<p, b>> => block'[q][c] = block[q][c]
    BY <1>3, <2>1, <2>3
  <2>5. HeapTypeOK'
    BY <1>1, <1>3, <2>1, <2>3 DEF IInv, HeapTypeOK
  <2>6. PagesStay
    BY <1>1 DEF PagesStay
  <2>7. BlocksOK(t)'
    BY <1>1, <1>2, <2>2, <2>4 DEF BlocksOK, IsBlock, IsPage
  <2>8. ASSUME NEW u \in Threads \ {t}, HasBlock(u)
        PROVE  /\ <<job[u].ptr, job[u].blk>> # <<p, b>>
               /\ block'[job[u].ptr][job[u].blk] = "alloc"
    <3>1. block[job[u].ptr][job[u].blk] = "alloc"
      BY <2>8 DEF IInv, BlocksOK
    <3>2. <<job[u].ptr, job[u].blk>> # <<p, b>>
      BY <1>6, <3>1
    <3> QED
      BY <2>4, <3>1, <3>2
  <2>9. ObjectsOK'
    <3>1. \A q \in PageNos : \A c \in 1..MaxBlocks :
            IsBlock(page[q].size, q, c) /\ block[q][c] = "obj" => block'[q][c] = "obj"
      BY <1>6, <2>4
    <3> QED
      BY <1>1, <2>2, <2>6, <2>8, <3>1, ObjectsStay
  <2>10. Layout'
    <3>1. \A q : Extent(q)' = Extent(q)
      BY <1>1 DEF Extent
    <3>2. \A u \in Threads : Own(u)' = Own(u)
      BY <2>2, OwnStays
    <3> QED
      BY <1>1, <3>1, <3>2 DEF IInv, Layout
  <2>11. \A u \in Threads \ {t} : /\ \A q \in Own(u) : page'[q] = page[q]
                                  /\ HasBlock(u) => block'[job[u].ptr][job[u].blk] = "alloc"
    BY <1>1, <2>8
  <2> QED
    BY <1>1, <1>4, <2>2, <2>5, <2>6, <2>7, <2>9, <2>10, <2>11, WordsStep DEF lists
<1>7. CASE block[p][b] # "free"
  <2>1. To(t, "next") /\ block' = block
    BY <1>7 DEF GrabBlock
  <2>2. /\ OnlyJob(t) /\ JobTypeOK' /\ pc'[t] = "next" /\ job'[t] = job[t]
        /\ Own(t)' = {} /\ Own(t) = {} /\ PagesOK(t)' /\ ~HasBlock(t)'
    BY <1>5, <2>1
  <2>3. BlocksOK(t)'
    BY <1>1, <1>2, <2>2 DEF BlocksOK, IsBlock, IsPage
  <2> QED
    BY <1>1, <1>4, <2>1, <2>2, <2>3, ListsStep
<1> QED
  BY <1>6, <1>7

\* The page that a thread has reserved becomes one of blocks.
LEMMA FormatStep ==
  ASSUME HeapAssumption, IInv, NEW t \in Threads, Format(t)
  PROVE  IInv'
<1> DEFINE s == job[t].size
           p == job[t].ptr
           r == [job[t] EXCEPT !.blk = 1]
<1>1. /\ pc[t] = "format" /\ To(t, "hinted") /\ job' = [job EXCEPT ![t] = r]
      /\ block' = [block EXCEPT ![p] = [b \in 1..MaxBlocks |-> IF b = 1 THEN "alloc" ELSE "free"]]
      /\ page' = [page EXCEPT ![p] = Small(s, None)]
      /\ UNCHANGED <<numPages, hint, list, nextPage, oom, held>>
  BY DEF Format, Goto, lists
<1>2. PagesOK(t) /\ BlocksOK(t) /\ Complete(t) /\ ~HasBlock(t)
  BY <1>1 DEF IInv, Complete, HasBlock
<1>3. s \in Sizes /\ s # None
  BY <1>1, <1>2, JobFields DEF BlocksOK
<1>4. job[t].n = 1 /\ job[t].j = 1 /\ p \in Nat /\ p >= 1 /\ p <= numPages
  BY <1>1, <1>2, <1>3, JobFields DEF PagesOK, IInv, HeapTypeOK, HeapAssumption
<1>5. Own(t) = {p}
  <2>1. Own(t) = p..(p + 1 - 1)
    BY <1>2, <1>4 DEF Own
  <2> QED
    BY <1>4, <2>1
<1>6. page[p].t = "alloc"
  BY <1>1, <1>2, <1>5 DEF PagesOK, Alloc
<1>7. p \in PageNos
  <2>1. numPages \in Nat /\ numPages <= MaxPages /\ MaxPages \in Nat
    BY DEF IInv, HeapTypeOK, HeapAssumption
  <2> QED
    BY <1>4, <2>1 DEF PageNos
<1>8. r \in Jobs /\ r.size = s /\ r.n = 1 /\ r.ptr = p /\ r.blk = 1
  BY <1>4, JobFields DEF Jobs
<1> HIDE DEF r
<1>9. OnlyJob(t) /\ JobTypeOK' /\ pc'[t] = "hinted" /\ job'[t] = r
  BY <1>1, <1>8, Moves DEF Places, To
<1>10. page \in [PageNos -> Words] /\ block \in [PageNos -> [1..MaxBlocks -> {"free", "alloc", "obj"}]]
  BY DEF IInv, HeapTypeOK
<1>11. /\ page'[p].t = "small" /\ page'[p].size = s /\ page'[p].next = None /\ page'[p] \in Words
       /\ \A q : q # p => page'[q] = page[q] /\ block'[q] = block[q]
       /\ block'[p] = [b \in 1..MaxBlocks |-> IF b = 1 THEN "alloc" ELSE "free"]
  BY <1>1, <1>3, <1>7, <1>10, NewWords
<1>12. Blocks[s] \in Nat /\ Blocks[s] >= 2 /\ Blocks[s] <= MaxBlocks /\ MaxBlocks \in Nat
  BY <1>3 DEF HeapAssumption
<1>13. HeapTypeOK'
  <2>1. block' \in [PageNos -> [1..MaxBlocks -> {"free", "alloc", "obj"}]]
    BY <1>1, <1>10
  <2>2. page' \in [PageNos -> Words]
    BY <1>1, <1>10, <1>11
  <2> QED
    BY <1>1, <2>1, <2>2 DEF IInv, HeapTypeOK
<1>14. PagesStay
  BY <1>6, <1>11 DEF PagesStay
<1>15. \A x : x = job[t].ptr + job[t].n => IsEnd(x)'
  BY <1>4, <1>7, <1>11 DEF IsEnd, AfterPage
<1>16. Own(t)' = {} /\ ~Reserving(t)' /\ ~Complete(t)' /\ HasBlock(t)'
  BY <1>3, <1>8, <1>9 DEF Own, Reserving, Complete, HasBlock
<1>17. PagesOK(t)'
  BY <1>3, <1>8, <1>9, <1>16 DEF PagesOK
<1>18. BlocksOK(t)'
  <2>1. 1 \in 1..Blocks[s] /\ 1 \in 1..MaxBlocks
    BY <1>12
  <2>2. block'[p][1] = "alloc"
    BY <1>11, <2>1
  <2> QED
    BY <1>3, <1>7, <1>8, <1>9, <1>11, <2>1, <2>2 DEF BlocksOK, IsBlock, IsPage
<1>19. \A u \in Threads \ {t} : Own(u)' = Own(u)
  BY <1>9, OwnStays
<1>20. \A q \in PageNos : /\ q = p => Extent(q)' = {p}
                          /\ q # p => Extent(q)' = Extent(q) /\ p \notin Extent(q)
  <2>1. ASSUME NEW q \in PageNos, q = p PROVE Extent(q)' = {p}
    BY <1>11, <2>1 DEF Extent
  <2>2. ASSUME NEW q \in PageNos \ {p} PROVE Extent(q)' = Extent(q)
    BY <1>11, ExtentsStay
  <2>3. ASSUME NEW q \in PageNos PROVE p \notin Extent(q)
    BY <1>5 DEF IInv, Layout
  <2> QED
    BY <2>1, <2>2, <2>3
<1>21. Layout'
  <2>1. \A q1, q2 \in PageNos : q1 # q2 => Extent(q1)' \cap Extent(q2)' = {}
    BY <1>20 DEF IInv, Layout
  <2>2. \A q \in PageNos, u \in Threads : Extent(q)' \cap Own(u)' = {}
    <3>1. SUFFICES ASSUME NEW q \in PageNos, NEW u \in Threads \ {t}
                   PROVE  Extent(q)' \cap Own(u) = {}
      BY <1>16, <1>19
    <3>2. p \notin Own(u) /\ Extent(q) \cap Own(u) = {}
      BY <1>5 DEF IInv, Layout
    <3>3. CASE q = p
      BY <1>20, <3>2, <3>3
    <3>4. CASE q # p
      BY <1>20, <3>2, <3>4
    <3> QED
      BY <3>3, <3>4
  <2>3. \A u, v \in Threads : u # v => Own(u)' \cap Own(v)' = {}
    BY <1>16, <1>19 DEF IInv, Layout
  <2>4. \A q \in PageNos : page'[q].t = "alloc" => \E u \in Threads : q \in Own(u)'
    BY <1>5, <1>11, <1>19 DEF IInv, Layout
  <2>5. \A q \in PageNos : Extent(q)' \subseteq 1..numPages'
    <3>1. p \in 1..numPages
      BY <1>4 DEF IInv, HeapTypeOK, HeapAssumption
    <3> QED
      BY <1>1, <1>20, <3>1 DEF IInv, Layout
  <2> QED
    BY <2>1, <2>2, <2>3, <2>4, <2>5 DEF Layout
<1>22. ASSUME NEW u \in Threads \ {t}, HasBlock(u)
       PROVE  job[u].ptr # p /\ block'[job[u].ptr][job[u].blk] = "alloc"
  <2>1. IsBlock(job[u].size, job[u].ptr, job[u].blk) /\ block[job[u].ptr][job[u].blk] = "alloc"
    BY <1>22 DEF IInv, BlocksOK
  <2>2. job[u].ptr # p
    BY <1>6, <2>1 DEF IsBlock, IsPage
  <2> QED
    BY <1>11, <2>1, <2>2
<1>23. ObjectsOK'
  <2>1. \A q \in PageNos : \A c \in 1..MaxBlocks :
          IsBlock(page[q].size, q, c) /\ block[q][c] = "obj" => block'[q][c] = "obj"
    BY <1>6, <1>11 DEF IsBlock, IsPage
  <2>2. \A u \in Threads \ {t} : HasBlock(t)' /\ HasBlock(u) =>
          <<job'[t].ptr, job'[t].blk>> # <<job[u].ptr, job[u].blk>>
    BY <1>8, <1>9, <1>22
  <2> QED
    BY <1>1, <1>9, <1>14, <2>1, <2>2, ObjectsStay
<1>24. \A u \in Threads \ {t} : /\ \A q \in Own(u) : page'[q] = page[q]
                                /\ HasBlock(u) => block'[job[u].ptr][job[u].blk] = "alloc"
  BY <1>5, <1>11, <1>22 DEF IInv, Layout
<1>25. \A q \in PageNos : page'[q].t = "small" => page[q].t = "small" \/ page'[q].next = None
  BY <1>11
<1> QED
  BY <1>1, <1>9, <1>13, <1>14, <1>15, <1>17, <1>18, <1>21, <1>23, <1>24, <1>25, WordsStep DEF lists

\* The object in a block is there.
LEMMA BuildInBlock ==
  ASSUME HeapAssumption, IInv, NEW t \in Threads, Build(t), job[t].size # None
  PROVE  IInv'
<1> DEFINE s == job[t].size
           p == job[t].ptr
           b == job[t].blk
<1>1. /\ pc[t] = "build" /\ To(t, "idle") /\ job' = [job EXCEPT ![t] = NoJob]
      /\ block' = [block EXCEPT ![p][b] = "obj"]
      /\ held' = [held EXCEPT ![t] = @ \cup {<<p, b>>}]
      /\ UNCHANGED <<page, numPages, hint, list, nextPage, oom>>
  BY DEF Build, Goto, lists
<1>2. /\ OnlyJob(t) /\ JobTypeOK'
      /\ Own(t)' = {} /\ ~HasBlock(t)' /\ ~Complete(t)' /\ PagesOK(t)' /\ BlocksOK(t)'
  BY <1>1, EndOfJob
<1>3. HasBlock(t) /\ BlocksOK(t) /\ ~Complete(t) /\ Own(t) = {}
  BY <1>1 DEF HasBlock, IInv, Complete, Own, Reserving
<1>4. IsBlock(s, p, b) /\ block[p][b] = "alloc" /\ s \in Sizes
  <2>1. IsBlock(s, p, b) /\ block[p][b] = "alloc"
    BY <1>3 DEF BlocksOK
  <2> QED
    BY <2>1, JobFields
<1>5. p \in PageNos /\ b \in 1..MaxBlocks /\ b # 0
  <2>1. Blocks[s] \in 2..MaxBlocks /\ MaxBlocks \in Nat
    BY <1>4 DEF HeapAssumption
  <2>2. p \in PageNos /\ b \in 1..Blocks[s]
    BY <1>4 DEF IsBlock, IsPage
  <2> QED
    BY <2>1, <2>2
<1>6. /\ block \in [PageNos -> [1..MaxBlocks -> {"free", "alloc", "obj"}]]
      /\ held \in [Threads -> SUBSET Objects]
  BY DEF IInv, HeapTypeOK
<1>7. /\ block'[p][b] = "obj"
      /\ \A q, c : <<q, c>> # <<p, b>> => block'[q][c] = block[q][c]
  BY <1>1, <1>5, <1>6
<1>8. held'[t] = held[t] \cup {<<p, b>>} /\ \A u \in Threads \ {t} : held'[u] = held[u]
  BY <1>1, <1>6
<1>9. HeapTypeOK'
  <2>1. <<p, b>> \in Objects
    <3>1. b \in 0..MaxBlocks
      BY <1>5 DEF HeapAssumption
    <3> QED
      BY <1>5, <3>1 DEF Objects
  <2>2. held' \in [Threads -> SUBSET Objects]
    BY <1>1, <1>6, <2>1
  <2>3. block' \in [PageNos -> [1..MaxBlocks -> {"free", "alloc", "obj"}]]
    BY <1>1, <1>5, <1>6
  <2> QED
    BY <1>1, <2>2, <2>3 DEF IInv, HeapTypeOK
<1>10. PagesStay
  BY <1>1 DEF PagesStay
<1>11. \A u \in Threads \ {t} : HasBlock(u) =>
         /\ <<job[u].ptr, job[u].blk>> # <<p, b>>
         /\ block[job[u].ptr][job[u].blk] = "alloc"
  BY <1>3 DEF IInv, ObjectsOK, BlocksOK
<1>12. Layout'
  <2>1. \A q : Extent(q)' = Extent(q)
    BY <1>1 DEF Extent
  <2>2. \A u \in Threads : Own(u)' = Own(u)
    BY <1>2, <1>3, OwnStays
  <2> QED
    BY <1>1, <2>1, <2>2 DEF IInv, Layout
<1>13. \A q \in PageNos : \A c \in 1..MaxBlocks :
         IsBlock(page[q].size, q, c) /\ block[q][c] = "obj" => block'[q][c] = "obj"
  BY <1>4, <1>7
<1>14. \A u \in Threads : \A o \in held[u] :
         IF o[2] = 0 THEN page'[o[1]].t = "large"
         ELSE IsBlock(page[o[1]].size, o[1], o[2])' /\ block'[o[1]][o[2]] = "obj"
  BY <1>10, <1>13, HeldStay
<1>15. \A o : o = <<p, b>> =>
         o[2] # 0 /\ IsBlock(page[o[1]].size, o[1], o[2])' /\ block'[o[1]][o[2]] = "obj"
  <2>1. SUFFICES ASSUME NEW o, o = <<p, b>>
                 PROVE  o[2] # 0 /\ IsBlock(page[o[1]].size, o[1], o[2])' /\ block'[o[1]][o[2]] = "obj"
    OBVIOUS
  <2>2. o[1] = p /\ o[2] = b /\ page[p].t = "small" /\ page[p].size = s /\ b \in 1..Blocks[s]
    BY <1>4, <2>1 DEF IsBlock, IsPage
  <2> QED
    BY <1>1, <1>5, <1>7, <2>2 DEF IsBlock, IsPage
<1>16. \A u \in Threads \ {t} : <<p, b>> \notin held[u]
  <2>1. SUFFICES ASSUME NEW u \in Threads \ {t}, <<p, b>> \in held[u] PROVE FALSE
    OBVIOUS
  <2>2. PICK o \in held[u] : o = <<p, b>>
    BY <2>1
  <2>3. block[o[1]][o[2]] = "obj"
    BY <1>5, <2>2 DEF IInv, ObjectsOK
  <2> QED
    BY <1>4, <2>2, <2>3
<1>17. ObjectsOK'
  <2>1. \A u \in Threads : \A o \in held'[u] :
          IF o[2] = 0 THEN page'[o[1]].t = "large"
          ELSE IsBlock(page[o[1]].size, o[1], o[2])' /\ block'[o[1]][o[2]] = "obj"
    BY <1>8, <1>14, <1>15
  <2>2. \A u, v \in Threads : u # v => held'[u] \cap held'[v] = {}
    BY <1>8, <1>16 DEF IInv, ObjectsOK
  <2>3. \A u \in Threads \ {t} : (HasBlock(u)' <=> HasBlock(u)) /\ job'[u] = job[u]
    BY <1>2, OwnStays
  <2>4. \A u, v \in Threads : u # v /\ HasBlock(u)' /\ HasBlock(v)' =>
          <<job'[u].ptr, job'[u].blk>> # <<job'[v].ptr, job'[v].blk>>
    BY <1>2, <2>3 DEF IInv, ObjectsOK
  <2> QED
    BY <2>1, <2>2, <2>4 DEF ObjectsOK
<1>18. \A u \in Threads \ {t} : /\ \A q \in Own(u) : page'[q] = page[q]
                                /\ HasBlock(u) => block'[job[u].ptr][job[u].blk] = "alloc"
  BY <1>1, <1>7, <1>11
<1> QED
  BY <1>1, <1>2, <1>3, <1>9, <1>10, <1>12, <1>17, <1>18, WordsStep DEF lists

\* What a large object has.
LEMMA LargeJob ==
  ASSUME HeapAssumption, IInv, NEW t \in Threads, pc[t] \in {"build", "mark"}, job[t].size = None
  PROVE  /\ Complete(t) /\ ~HasBlock(t) /\ PagesOK(t)
         /\ job[t].n \in LargeSizes /\ job[t].n \in Nat /\ job[t].n > 0 /\ job[t].j = job[t].n
         /\ job[t].ptr \in Nat /\ job[t].ptr >= 1 /\ job[t].ptr \in PageNos
         /\ Own(t) = job[t].ptr..(job[t].ptr + job[t].n - 1)
         /\ Own(t) \subseteq PageNos /\ Own(t) \subseteq 1..numPages
         /\ \A q \in Own(t) : page[q].t \in {"alloc", "free"}
         /\ page[job[t].ptr] = Alloc(job[t].n)
<1>1. Complete(t) /\ ~HasBlock(t) /\ PagesOK(t)
  BY DEF Complete, HasBlock, IInv
<1>2. job[t].n \in LargeSizes /\ job[t].j = job[t].n
  BY <1>1 DEF PagesOK
<1>3. job[t].n \in Nat /\ job[t].n > 0
  <2>1. job[t].n \in Nat \ {0}
    BY <1>2 DEF HeapAssumption
  <2> QED
    BY <2>1
<1>4. job[t].ptr \in Nat /\ job[t].ptr >= 1 /\ job[t].ptr + job[t].n - 1 <= numPages
  BY <1>1, JobFields DEF PagesOK
<1>5. numPages \in Nat /\ numPages <= MaxPages /\ MaxPages \in Nat
  BY DEF IInv, HeapTypeOK, HeapAssumption
<1>6. Own(t) = job[t].ptr..(job[t].ptr + job[t].n - 1)
  BY <1>1, <1>2 DEF Own
<1>7. Own(t) \subseteq PageNos /\ Own(t) \subseteq 1..numPages /\ job[t].ptr \in Own(t)
  BY <1>3, <1>4, <1>5, <1>6 DEF PageNos
<1>8. page[job[t].ptr] = Alloc(job[t].n)
  <2>1. job[t].ptr + job[t].n - job[t].ptr = job[t].n
    BY <1>3, <1>4
  <2> QED
    BY <1>1, <1>7, <2>1 DEF PagesOK
<1>9. \A q \in Own(t) : page[q].t \in {"alloc", "free"}
  <2>1. (\A m : Alloc(m).t = "alloc") /\ Free.t = "free"
    BY DEF Alloc, Free
  <2> QED
    BY <1>1, <1>8, <2>1 DEF PagesOK
<1> QED
  BY <1>1, <1>2, <1>3, <1>4, <1>6, <1>7, <1>8, <1>9

\* The memory of a large object is zeroed.
LEMMA BuildLarge ==
  ASSUME HeapAssumption, IInv, NEW t \in Threads, Build(t), job[t].size = None
  PROVE  IInv'
<1> DEFINE p == job[t].ptr
           n == job[t].n
<1>1. /\ pc[t] = "build" /\ To(t, "mark") /\ job' = job
      /\ page' = [q \in PageNos |-> IF q > p /\ q < p + n THEN Free ELSE page[q]]
      /\ UNCHANGED <<block, numPages, hint, list, nextPage, oom, held>>
  BY DEF Build, Goto, lists
<1>2. /\ Complete(t) /\ ~HasBlock(t) /\ PagesOK(t)
      /\ n \in LargeSizes /\ n \in Nat /\ n > 0 /\ job[t].j = n
      /\ p \in Nat /\ p >= 1 /\ p \in PageNos
      /\ Own(t) = p..(p + n - 1)
      /\ Own(t) \subseteq PageNos /\ Own(t) \subseteq 1..numPages
      /\ \A q \in Own(t) : page[q].t \in {"alloc", "free"}
      /\ page[p] = Alloc(n)
  BY <1>1, LargeJob
<1>3. OnlyJob(t) /\ JobTypeOK' /\ pc'[t] = "mark" /\ job'[t] = job[t]
  BY <1>1, Stays DEF Places
<1>4. Complete(t)' /\ ~Reserving(t)' /\ Own(t)' = Own(t) /\ ~HasBlock(t)'
  BY <1>2, <1>3 DEF Complete, Reserving, Own, HasBlock
<1>5. page \in [PageNos -> Words]
  BY DEF IInv, HeapTypeOK
<1>6. \A q \in PageNos : q \in Nat
  BY DEF PageNos, HeapAssumption
<1>7. \A q \in PageNos : /\ q \in Own(t) /\ q # p => page'[q] = Free
                         /\ q \notin Own(t) \/ q = p => page'[q] = page[q]
  BY <1>1, <1>2, <1>6
<1>8. HeapTypeOK'
  <2>1. page' \in [PageNos -> Words]
    BY <1>1, <1>5, NewWords
  <2> QED
    BY <1>1, <2>1 DEF IInv, HeapTypeOK
<1>9. PagesStay
  BY <1>2, <1>7 DEF PagesStay
<1>10. \A x : x = p + n => IsEnd(x)'
  BY <1>3, <1>4 DEF IsEnd, AfterJob
<1>11. PagesOK(t)'
  <2>1. /\ IF job'[t].size = None THEN job'[t].n \in LargeSizes ELSE job'[t].n = 1
        /\ job'[t].j = job'[t].n
        /\ job'[t].ptr >= 1 /\ job'[t].ptr + job'[t].n - 1 <= numPages'
    BY <1>1, <1>2, <1>3 DEF PagesOK
  <2>2. page'[job'[t].ptr] = Alloc(job'[t].n)
    BY <1>2, <1>3, <1>7
  <2>3. \A q \in Own(t)' : q # job'[t].ptr => page'[q] = Free
    BY <1>2, <1>3, <1>4, <1>7
  <2> QED
    BY <1>3, <1>4, <2>1, <2>2, <2>3 DEF PagesOK
<1>12. BlocksOK(t)'
  BY <1>3, <1>4 DEF BlocksOK
<1>13. \A q \in PageNos : Extent(q)' = Extent(q)
  <2>1. SUFFICES ASSUME NEW q \in PageNos PROVE Extent(q)' = Extent(q)
    OBVIOUS
  <2>2. \/ page'[q] = page[q]
        \/ page[q].t \notin {"small", "large"} /\ page'[q].t \notin {"small", "large"}
    BY <1>2, <1>7, NewWords
  <2> QED
    BY <2>2, ExtentsStay
<1>14. \A u \in Threads : Own(u)' = Own(u)
  BY <1>3, <1>4, OwnStays
<1>15. Layout'
  <2>1. \A q \in PageNos : page'[q].t = "alloc" => page[q].t = "alloc"
    BY <1>7, NewWords
  <2> QED
    BY <1>1, <1>13, <1>14, <2>1 DEF IInv, Layout
<1>16. ObjectsOK'
  BY <1>1, <1>3, <1>4, <1>9, ObjectsStay
<1>17. \A u \in Threads \ {t} : /\ \A q \in Own(u) : page'[q] = page[q]
                                /\ HasBlock(u) => block'[job[u].ptr][job[u].blk] = "alloc"
  <2>1. SUFFICES ASSUME NEW u \in Threads \ {t}
                 PROVE  /\ \A q \in Own(u) : page'[q] = page[q]
                        /\ HasBlock(u) => block'[job[u].ptr][job[u].blk] = "alloc"
    OBVIOUS
  <2>2. Own(u) \cap Own(t) = {}
    BY DEF IInv, Layout
  <2>3. \A q : q \notin PageNos => page'[q] = page[q] \/ q \notin Own(u)
    <3>1. Own(u) \subseteq PageNos
      BY OwnArePages
    <3> QED
      BY <3>1
  <2> QED
    BY <1>1, <1>7, <2>2, <2>3 DEF IInv, BlocksOK
<1>18. \A q \in PageNos : page'[q].t = "small" => page[q].t = "small"
  BY <1>7, NewWords
<1> QED
  BY <1>1, <1>3, <1>8, <1>9, <1>10, <1>11, <1>12, <1>15, <1>16, <1>17, <1>18, WordsStep DEF lists

LEMMA BuildStep ==
  ASSUME HeapAssumption, IInv, NEW t \in Threads, Build(t)
  PROVE  IInv'
  BY BuildInBlock, BuildLarge

\* The first page of a large object speaks for all of them.
LEMMA MarkLargeStep ==
  ASSUME HeapAssumption, IInv, NEW t \in Threads, MarkLarge(t)
  PROVE  IInv'
<1> DEFINE p == job[t].ptr
           n == job[t].n
<1>1. /\ pc[t] = "mark" /\ To(t, "idle") /\ job' = [job EXCEPT ![t] = NoJob]
      /\ page' = [page EXCEPT ![p] = Large(n)]
      /\ held' = [held EXCEPT ![t] = @ \cup {<<p, 0>>}]
      /\ UNCHANGED <<block, numPages, hint, list, nextPage, oom>>
  BY DEF MarkLarge, Goto, lists
<1>2. /\ OnlyJob(t) /\ JobTypeOK'
      /\ Own(t)' = {} /\ ~HasBlock(t)' /\ ~Complete(t)' /\ PagesOK(t)' /\ BlocksOK(t)'
  BY <1>1, EndOfJob
<1>3. job[t].size = None
  BY <1>1 DEF IInv, BlocksOK
<1>4. /\ Complete(t) /\ ~HasBlock(t) /\ PagesOK(t)
      /\ n \in LargeSizes /\ n \in Nat /\ n > 0 /\ job[t].j = n
      /\ p \in Nat /\ p >= 1 /\ p \in PageNos
      /\ Own(t) = p..(p + n - 1)
      /\ Own(t) \subseteq PageNos /\ Own(t) \subseteq 1..numPages
      /\ \A q \in Own(t) : page[q].t \in {"alloc", "free"}
      /\ page[p] = Alloc(n)
  BY <1>1, <1>3, LargeJob
<1>5. page \in [PageNos -> Words] /\ held \in [Threads -> SUBSET Objects]
  BY DEF IInv, HeapTypeOK
<1>6. /\ page'[p] = Large(n) /\ \A q : q # p => page'[q] = page[q]
      /\ Large(n) \in Words /\ page'[p].t = "large" /\ page'[p].n = n
      /\ page[p].t = "alloc"
  BY <1>1, <1>4, <1>5, NewWords DEF Alloc
<1>7. held'[t] = held[t] \cup {<<p, 0>>} /\ \A u \in Threads \ {t} : held'[u] = held[u]
  BY <1>1, <1>5
<1>8. HeapTypeOK'
  <2>1. <<p, 0>> \in Objects
    <3>1. 0 \in 0..MaxBlocks
      BY DEF HeapAssumption
    <3> QED
      BY <1>4, <3>1 DEF Objects
  <2>2. held' \in [Threads -> SUBSET Objects]
    BY <1>1, <1>5, <2>1
  <2>3. page' \in [PageNos -> Words]
    BY <1>1, <1>5, <1>6
  <2> QED
    BY <1>1, <2>2, <2>3 DEF IInv, HeapTypeOK
<1>9. PagesStay
  BY <1>6 DEF PagesStay
<1>10. \A x : x = p + n => IsEnd(x)'
  BY <1>4, <1>6 DEF IsEnd, AfterPage
<1>11. \A q \in PageNos : /\ q = p => Extent(q)' = Own(t)
                          /\ q # p => Extent(q)' = Extent(q)
  <2>1. ASSUME NEW q \in PageNos, q = p PROVE Extent(q)' = Own(t)
    BY <1>4, <1>6, <2>1 DEF Extent
  <2>2. ASSUME NEW q \in PageNos, q # p PROVE Extent(q)' = Extent(q)
    BY <1>6, <2>2, ExtentsStay
  <2> QED
    BY <2>1, <2>2
<1>12. \A u \in Threads \ {t} : Own(u)' = Own(u)
  BY <1>2, OwnStays
<1>13. Layout'
  <2>1. ASSUME NEW q1 \in PageNos, NEW q2 \in PageNos, q1 # q2
        PROVE  Extent(q1)' \cap Extent(q2)' = {}
    <3>1. Extent(q1) \cap Extent(q2) = {} /\ Extent(q1) \cap Own(t) = {} /\ Extent(q2) \cap Own(t) = {}
      BY <2>1 DEF IInv, Layout
    <3>2. CASE q1 = p
      BY <1>11, <2>1, <3>1, <3>2
    <3>3. CASE q2 = p
      BY <1>11, <2>1, <3>1, <3>3
    <3>4. CASE q1 # p /\ q2 # p
      BY <1>11, <3>1, <3>4
    <3> QED
      BY <3>2, <3>3, <3>4
  <2>2. ASSUME NEW q \in PageNos, NEW u \in Threads PROVE Extent(q)' \cap Own(u)' = {}
    <3>1. CASE u = t
      BY <1>2, <3>1
    <3>2. CASE u # t
      <4>1. Own(u)' = Own(u) /\ Extent(q) \cap Own(u) = {} /\ Own(t) \cap Own(u) = {}
        BY <1>12, <3>2 DEF IInv, Layout
      <4> QED
        BY <1>11, <4>1
    <3> QED
      BY <3>1, <3>2
  <2>3. \A u, v \in Threads : u # v => Own(u)' \cap Own(v)' = {}
    BY <1>2, <1>12 DEF IInv, Layout
  <2>4. ASSUME NEW q \in PageNos, page'[q].t = "alloc" PROVE \E u \in Threads : q \in Own(u)'
    <3>1. q # p /\ page[q].t = "alloc"
      BY <1>6, <2>4
    <3>2. PICK u \in Threads : q \in Own(u)
      BY <3>1 DEF IInv, Layout
    <3>3. u # t
      <4>1. SUFFICES ASSUME u = t PROVE FALSE
        OBVIOUS
      <4>2. page[q] = Free
        BY <1>1, <1>4, <3>1, <3>2, <4>1 DEF PagesOK
      <4> QED
        BY <3>1, <4>2, NewWords
    <3> QED
      BY <1>12, <3>2, <3>3
  <2>5. ASSUME NEW q \in PageNos PROVE Extent(q)' \subseteq 1..numPages'
    <3>1. numPages' = numPages /\ Extent(q) \subseteq 1..numPages /\ Own(t) \subseteq 1..numPages
      BY <1>1, <1>4 DEF IInv, Layout
    <3>2. Extent(q)' = Own(t) \/ Extent(q)' = Extent(q)
      BY <1>11
    <3> QED
      BY <3>1, <3>2
  <2> QED
    BY <2>1, <2>2, <2>3, <2>4, <2>5 DEF Layout
<1>14. \A u \in Threads : \A o \in held[u] :
         IF o[2] = 0 THEN page'[o[1]].t = "large"
         ELSE IsBlock(page[o[1]].size, o[1], o[2])' /\ block'[o[1]][o[2]] = "obj"
  BY <1>1, <1>9, HeldStay
<1>15. \A u \in Threads \ {t} : <<p, 0>> \notin held[u]
  <2>1. SUFFICES ASSUME NEW u \in Threads \ {t}, <<p, 0>> \in held[u] PROVE FALSE
    OBVIOUS
  <2>2. PICK o \in held[u] : o = <<p, 0>>
    BY <2>1
  <2>3. page[p].t = "large"
    BY <2>2 DEF IInv, ObjectsOK
  <2> QED
    BY <1>6, <2>3
<1>16. ObjectsOK'
  <2>1. \A u \in Threads : \A o \in held'[u] :
          IF o[2] = 0 THEN page'[o[1]].t = "large"
          ELSE IsBlock(page[o[1]].size, o[1], o[2])' /\ block'[o[1]][o[2]] = "obj"
    BY <1>6, <1>7, <1>14
  <2>2. \A u, v \in Threads : u # v => held'[u] \cap held'[v] = {}
    BY <1>7, <1>15 DEF IInv, ObjectsOK
  <2>3. \A u \in Threads \ {t} : (HasBlock(u)' <=> HasBlock(u)) /\ job'[u] = job[u]
    BY <1>2, OwnStays
  <2>4. \A u, v \in Threads : u # v /\ HasBlock(u)' /\ HasBlock(v)' =>
          <<job'[u].ptr, job'[u].blk>> # <<job'[v].ptr, job'[v].blk>>
    BY <1>2, <2>3 DEF IInv, ObjectsOK
  <2> QED
    BY <2>1, <2>2, <2>4 DEF ObjectsOK
<1>17. \A u \in Threads \ {t} : /\ \A q \in Own(u) : page'[q] = page[q]
                                /\ HasBlock(u) => block'[job[u].ptr][job[u].blk] = "alloc"
  <2>1. p \in Own(t)
    BY <1>4
  <2>2. \A u \in Threads \ {t} : p \notin Own(u)
    BY <2>1 DEF IInv, Layout
  <2> QED
    BY <1>1, <1>6, <2>2 DEF IInv, BlocksOK
<1>18. \A q \in PageNos : page'[q].t = "small" => page[q].t = "small"
  BY <1>6
<1> QED
  BY <1>1, <1>2, <1>8, <1>9, <1>10, <1>13, <1>16, <1>17, <1>18, WordsStep DEF lists

\* The heap grows by pages that read as free already.
LEMMA ExtendStep ==
  ASSUME HeapAssumption, IInv, NEW t \in Threads, Extend(t)
  PROVE  IInv'
<1>1. /\ numPages' = Min({numPages + InitPages, MaxPages}) /\ numPages # MaxPages
      /\ page' = [p \in PageNos |-> IF p > numPages /\ p <= numPages' THEN Free ELSE page[p]]
      /\ UNCHANGED <<block, hint, list, nextPage, oom, pc, job, held>>
  BY DEF Extend, lists
<1>2. numPages \in Nat /\ numPages <= MaxPages /\ MaxPages \in Nat /\ InitPages \in Nat
  BY DEF IInv, HeapTypeOK, HeapAssumption
<1>3. numPages' \in 0..MaxPages /\ numPages' \in Nat /\ numPages <= numPages'
  <2>1. Min({numPages + InitPages, MaxPages}) \in {numPages + InitPages, MaxPages}
        /\ Min({numPages + InitPages, MaxPages}) <= MaxPages
    BY <1>2, LeastOfTwo
  <2> QED
    BY <1>1, <1>2, <2>1
<1>4. page \in [PageNos -> Words]
  BY DEF IInv, HeapTypeOK
<1>5. ASSUME NEW p \in PageNos, p > numPages PROVE page[p] = Free
  <2>1. p \in Nat /\ p >= 1
    BY DEF PageNos, HeapAssumption
  <2>2. page[p].t \notin {"small", "large"}
    <3>1. SUFFICES ASSUME page[p].t \in {"small", "large"} PROVE FALSE
      OBVIOUS
    <3>2. p \in Extent(p)
      <4>1. CASE page[p].t = "small"
        BY <4>1 DEF Extent
      <4>2. CASE page[p].t = "large"
        <5>1. page[p].n \in Nat \ {0}
          BY <4>2, WordFields DEF IInv
        <5>2. Extent(p) = p..(p + page[p].n - 1)
          BY <4>2 DEF Extent
        <5> QED
          BY <2>1, <5>1, <5>2
      <4> QED
        BY <3>1, <4>1, <4>2
    <3>3. p \in 1..numPages
      BY <3>2 DEF IInv, Layout
    <3> QED
      BY <1>2, <1>5, <2>1, <3>3
  <2>3. page[p].t # "alloc"
    <3>1. SUFFICES ASSUME page[p].t = "alloc" PROVE FALSE
      OBVIOUS
    <3>2. PICK u \in Threads : p \in Own(u)
      BY <3>1 DEF IInv, Layout
    <3>3. p \in 1..numPages
      BY <3>2, OwnArePages
    <3> QED
      BY <1>2, <1>5, <2>1, <3>3
  <2> QED
    BY <2>2, <2>3, WordFields DEF IInv
<1>6. page' = page
  BY <1>1, <1>4, <1>5
<1>7. HeapTypeOK' /\ JobTypeOK'
  BY <1>1, <1>3, <1>6 DEF IInv, HeapTypeOK, JobTypeOK
<1>8. ASSUME NEW u \in Threads PROVE PagesOK(u)' /\ BlocksOK(u)' /\ Own(u)' = Own(u)
  <2>1. Own(u)' = Own(u) /\ (Reserving(u)' <=> Reserving(u)) /\ (Complete(u)' <=> Complete(u))
    BY <1>1 DEF Own, Reserving, Complete
  <2>2. /\ IsEnd(job[u].at) => IsEnd(job[u].at)'
        /\ IsEnd(job[u].ptr) => IsEnd(job[u].ptr)'
    BY <1>1, <1>6 DEF IsEnd, AfterPage, AfterJob, Complete
  <2>3. PagesOK(u) /\ BlocksOK(u)
    BY DEF IInv
  <2>4. Reserving(u) \/ Complete(u) => job[u].ptr + job[u].n - 1 <= numPages'
    BY <1>2, <1>3, <2>3, JobFields DEF PagesOK
  <2>5. PagesOK(u)'
    BY <1>1, <1>6, <2>1, <2>2, <2>3, <2>4 DEF PagesOK
  <2>6. BlocksOK(u)'
    BY <1>1, <1>6, <2>3 DEF BlocksOK, HasBlock, IsBlock, IsPage
  <2> QED
    BY <2>1, <2>5, <2>6
<1>9. ListsOK'
  <2>0. ListsOK
    BY DEF IInv
  <2>1. \A s \in Sizes : /\ list'[s] # None => IsPage(s, list[s])'
                         /\ hint'[s] # None => IsBlock(s, hint[s][1], hint[s][2])'
    <3>1. \A s \in Sizes : list'[s] # None => IsPage(s, list[s])'
      BY <1>1, <1>6, <2>0 DEF ListsOK, IsPage
    <3>2. \A s \in Sizes : hint'[s] # None => IsBlock(s, hint[s][1], hint[s][2])
      BY <1>1, <2>0 DEF ListsOK
    <3>3. \A s, x, y : IsBlock(s, x, y)' <=> IsBlock(s, x, y)
      BY <1>6 DEF IsBlock, IsPage
    <3> QED
      BY <1>1, <3>1, <3>2, <3>3
  <2>2. \A p \in PageNos : page'[p].t = "small" /\ page'[p].next # None =>
                            IsPage(page[p].size, page[p].next)'
    BY <1>6, <2>0 DEF ListsOK, IsPage
  <2>3. IsEnd(nextPage)'
    <3>1. IsEnd(nextPage)
      BY DEF IInv, ListsOK
    <3> QED
      BY <1>1, <1>6, <3>1 DEF IsEnd, AfterPage, AfterJob, Complete
  <2> QED
    BY <2>1, <2>2, <2>3 DEF ListsOK
<1>10. Layout'
  <2>1. \A q : Extent(q)' = Extent(q)
    BY <1>6 DEF Extent
  <2>2. 1..numPages \subseteq 1..numPages'
    BY <1>2, <1>3
  <2>3. \A q \in PageNos : Extent(q)' \subseteq 1..numPages'
    BY <2>1, <2>2 DEF IInv, Layout
  <2> QED
    BY <1>6, <1>8, <2>1, <2>3 DEF IInv, Layout
<1>11. ObjectsOK'
  BY <1>1, <1>6 DEF IInv, ObjectsOK, IsBlock, IsPage, HasBlock
<1> QED
  BY <1>7, <1>8, <1>9, <1>10, <1>11 DEF IInv

\* While the world is stopped for a collection, nobody has anything in its hands.
LEMMA CollectStep ==
  ASSUME HeapAssumption, IInv, NEW t \in Threads, Collect(t)
  PROVE  IInv'
<1> DEFINE Live(kept, p) == {b \in 0..MaxBlocks : <<p, b>> \in kept}
           Heads == {o[1] : o \in AllObjects} \cup {p \in PageNos : page[p].t = "small"}
           InUse(kept, s) ==
             {p \in PageNos : page[p].t = "small" /\ page[p].size = s /\ Live(kept, p) # {}}
           Before(kept, p) == {q \in InUse(kept, page[p].size) : q < p}
           TopOf(S) == IF S = {} THEN None ELSE Max(S)
<1>1. PICK kept \in SUBSET AllObjects :
       /\ UNION Range(held) \subseteq kept
       /\ page' = [p \in PageNos |->
            IF p \notin Heads THEN page[p]
            ELSE IF Live(kept, p) = {} THEN Free
            ELSE IF page[p].t = "small" THEN Small(page[p].size, TopOf(Before(kept, p)))
            ELSE page[p]]
       /\ block' = [p \in PageNos |-> [b \in 1..MaxBlocks |->
            IF <<p, b>> \in AllObjects \ kept THEN "free" ELSE block[p][b]]]
       /\ list' = [s \in Sizes |-> TopOf(InUse(kept, s))]
  BY DEF Collect
<1>2. /\ \A u \in Threads : pc[u] \in {"idle", "gc"}
      /\ hint' = [s \in Sizes |-> None] /\ nextPage' = 1 /\ oom' = [u \in Threads |-> FALSE]
      /\ pc' = [u \in Threads |-> IF pc[u] = "gc" THEN "try" ELSE pc[u]]
      /\ job' = [u \in Threads |->
           IF pc[u] = "gc" THEN [job[u] EXCEPT !.cycles = @ + 1, !.at = 0] ELSE job[u]]
      /\ numPages' = numPages /\ held' = held
  BY DEF Collect, AtSafePoint
<1>3. /\ page \in [PageNos -> Words] /\ held \in [Threads -> SUBSET Objects]
      /\ block \in [PageNos -> [1..MaxBlocks -> {"free", "alloc", "obj"}]]
  BY DEF IInv, HeapTypeOK
<1>4. ASSUME NEW S \in SUBSET PageNos PROVE TopOf(S) = None \/ TopOf(S) \in S
  BY TopPage
<1>5. /\ \A s : InUse(kept, s) \subseteq PageNos
      /\ \A p : Before(kept, p) \subseteq InUse(kept, page[p].size)
  OBVIOUS
<1>6. ASSUME NEW p \in PageNos
      PROVE  /\ page[p].t = "small" /\ Live(kept, p) # {} =>
                  page'[p] = Small(page[p].size, TopOf(Before(kept, p)))
             /\ page[p].t = "small" /\ Live(kept, p) = {} => page'[p] = Free
             /\ page[p].t # "small" => page'[p] = page[p] \/ page'[p] = Free
             /\ page[p].t # "small" /\ Live(kept, p) # {} => page'[p] = page[p]
  BY <1>1
<1> HIDE DEF Live, Heads, InUse, Before, TopOf
<1>7. ASSUME NEW p \in PageNos
      PROVE  \/ page'[p] = Free
             \/ page[p].t # "small" /\ page'[p] = page[p]
             \/ /\ page[p].t = "small" /\ page[p].size \in Sizes
                /\ page'[p] = Small(page[p].size, TopOf(Before(kept, p)))
                /\ TopOf(Before(kept, p)) \in PageNos \cup {None}
                /\ TopOf(Before(kept, p)) # None =>
                     TopOf(Before(kept, p)) \in InUse(kept, page[p].size)
  <2>1. page[p].t = "small" => page[p].size \in Sizes
    BY WordFields DEF IInv
  <2>2. Before(kept, p) \in SUBSET PageNos /\ Before(kept, p) \subseteq InUse(kept, page[p].size)
    BY <1>5
  <2>3. TopOf(Before(kept, p)) = None \/ TopOf(Before(kept, p)) \in Before(kept, p)
    BY <1>4, <2>2
  <2> QED
    BY <1>6, <2>1, <2>2, <2>3
<1>8. ASSUME NEW s \in Sizes, NEW p \in InUse(kept, s)
      PROVE  p \in PageNos /\ page'[p].t = "small" /\ page'[p].size = s
  <2>1. p \in PageNos /\ page[p].t = "small" /\ page[p].size = s /\ Live(kept, p) # {}
    BY DEF InUse
  <2>2. page'[p] = Small(s, TopOf(Before(kept, p)))
    BY <1>6, <2>1
  <2> QED
    BY <2>1, <2>2 DEF Small
<1>9. ASSUME NEW p \in PageNos PROVE page'[p] \in Words
  BY <1>3, <1>7, NewWords
<1>10. \A s \in Sizes : list'[s] \in PageNos \cup {None} /\ (list'[s] # None => list'[s] \in InUse(kept, s))
  <2>1. SUFFICES ASSUME NEW s \in Sizes
                 PROVE  list'[s] \in PageNos \cup {None} /\ (list'[s] # None => list'[s] \in InUse(kept, s))
    OBVIOUS
  <2>2. InUse(kept, s) \in SUBSET PageNos
    BY <1>5
  <2>3. list'[s] = TopOf(InUse(kept, s))
    BY <1>1
  <2> QED
    BY <1>4, <2>2, <2>3
<1>11. HeapTypeOK'
  <2>1. page' \in [PageNos -> Words]
    BY <1>1, <1>9
  <2>2. block' \in [PageNos -> [1..MaxBlocks -> {"free", "alloc", "obj"}]]
    BY <1>1, <1>3
  <2>3. list' \in [Sizes -> PageNos \cup {None}]
    BY <1>1, <1>10
  <2>4. hint' \in [Sizes -> Hints]
    BY <1>2 DEF Hints
  <2>5. nextPage' \in 1..(MaxPages + 1)
    <3>1. MaxPages \in Nat
      BY DEF HeapAssumption
    <3>2. 1 \in 1..(MaxPages + 1)
      BY <3>1
    <3> QED
      BY <1>2, <3>2
  <2> QED
    BY <1>2, <1>3, <2>1, <2>2, <2>3, <2>4, <2>5 DEF IInv, HeapTypeOK
<1>12. ASSUME NEW u \in Threads
       PROVE  /\ pc'[u] \in {"idle", "try"} /\ (pc'[u] = "idle" <=> pc[u] = "idle")
              /\ job'[u] \in Jobs /\ job'[u].size = job[u].size /\ job'[u].n = job[u].n
  <2>1. CASE pc[u] = "gc"
    <3>1. job'[u] = [job[u] EXCEPT !.cycles = @ + 1, !.at = 0] /\ pc'[u] = "try"
      BY <1>2, <2>1
    <3>2. [job[u] EXCEPT !.cycles = @ + 1, !.at = 0] \in Jobs
      <4>1. job[u] \in Jobs /\ job[u].cycles \in Nat
        BY JobFields
      <4>2. PICK c : c = job[u].cycles + 1
        OBVIOUS
      <4>3. c \in Nat
        BY <4>1, <4>2
      <4>4. [job[u] EXCEPT !.cycles = c, !.at = 0] \in Jobs
        BY <4>1, <4>3 DEF Jobs
      <4> QED
        BY <4>2, <4>4
    <3> QED
      BY <2>1, <3>1, <3>2, JobFields DEF Jobs
  <2>2. CASE pc[u] = "idle"
    <3>1. job'[u] = job[u] /\ pc'[u] = "idle"
      BY <1>2, <2>2
    <3> QED
      BY <2>2, <3>1, JobFields
  <2> QED
    BY <1>2, <2>1, <2>2
<1>13. JobTypeOK'
  <2>1. pc' \in [Threads -> Places]
    BY <1>2, <1>12 DEF Places
  <2>2. job' \in [Threads -> Jobs]
    BY <1>2, <1>12
  <2> QED
    BY <2>1, <2>2 DEF JobTypeOK
<1>14. ASSUME NEW u \in Threads
       PROVE  /\ PagesOK(u)' /\ BlocksOK(u)' /\ Own(u)' = {} /\ ~HasBlock(u)'
              /\ Own(u) = {}
  <2>1. ~Reserving(u)' /\ ~Complete(u)' /\ Own(u)' = {} /\ ~HasBlock(u)'
    BY <1>12 DEF Reserving, Complete, Own, HasBlock
  <2>2. Own(u) = {}
    BY <1>2 DEF Reserving, Complete, Own
  <2>3. PagesOK(u)'
    BY <1>12, <2>1 DEF IInv, PagesOK
  <2> QED
    BY <1>12, <2>1, <2>2, <2>3 DEF BlocksOK
<1>15. ListsOK'
  <2>1. \A s \in Sizes : \A p : p \in InUse(kept, s) => IsPage(s, p)'
    BY <1>8 DEF IsPage
  <2>2. ASSUME NEW s \in Sizes, list'[s] # None PROVE IsPage(s, list[s])'
    BY <1>8, <1>10, <2>2 DEF IsPage
  <2>3. \A s \in Sizes : hint'[s] = None
    BY <1>2
  <2>4. ASSUME NEW p \in PageNos, page'[p].t = "small", page'[p].next # None
        PROVE  IsPage(page[p].size, page[p].next)'
    <3>1. /\ page[p].size \in Sizes
          /\ page'[p] = Small(page[p].size, TopOf(Before(kept, p)))
          /\ TopOf(Before(kept, p)) # None => TopOf(Before(kept, p)) \in InUse(kept, page[p].size)
      BY <1>7, <2>4, NewWords
    <3>2. page'[p].size = page[p].size /\ page'[p].next \in InUse(kept, page[p].size)
      BY <2>4, <3>1 DEF Small
    <3> QED
      BY <1>8, <3>1, <3>2 DEF IsPage
  <2>5. IsEnd(nextPage)'
    BY <1>2 DEF IsEnd
  <2> QED
    BY <2>2, <2>3, <2>4, <2>5 DEF ListsOK
<1>16. ASSUME NEW q \in PageNos PROVE Extent(q)' = {} \/ Extent(q)' = Extent(q)
  <2>1. CASE page'[q] = Free
    BY <2>1, NewWords DEF Extent
  <2>2. CASE page'[q] = page[q]
    BY <2>2 DEF Extent
  <2>3. CASE page[q].t = "small" /\ page'[q] = Small(page[q].size, TopOf(Before(kept, q)))
    BY <2>3 DEF Extent, Small
  <2> QED
    BY <1>7, <2>1, <2>2, <2>3
<1>17. Layout'
  <2>1. \A q \in PageNos : page'[q].t # "alloc"
    <3>1. SUFFICES ASSUME NEW q \in PageNos PROVE page'[q].t # "alloc"
      OBVIOUS
    <3>2. page[q].t # "alloc"
      BY <1>14 DEF IInv, Layout
    <3> QED
      BY <1>7, <3>2, NewWords
  <2>2. \A q \in PageNos : Extent(q)' \subseteq 1..numPages'
    BY <1>2, <1>16 DEF IInv, Layout
  <2>3. \A q1, q2 \in PageNos : q1 # q2 => Extent(q1)' \cap Extent(q2)' = {}
    BY <1>16 DEF IInv, Layout
  <2> QED
    BY <1>14, <2>1, <2>2, <2>3 DEF Layout
<1>18. ASSUME NEW u \in Threads, NEW o \in held[u]
       PROVE  IF o[2] = 0 THEN page'[o[1]].t = "large"
              ELSE IsBlock(page[o[1]].size, o[1], o[2])' /\ block'[o[1]][o[2]] = "obj"
  <2>1. o \in kept
    <3>1. held[u] \in Range(held)
      BY <1>3 DEF Range
    <3> QED
      BY <1>1, <3>1
  <2>2. o = <<o[1], o[2]>> /\ o[1] \in PageNos /\ o[2] \in 0..MaxBlocks
    BY <1>3 DEF Objects
  <2>3. o[2] \in Live(kept, o[1])
    BY <2>1, <2>2 DEF Live
  <2>4. IF o[2] = 0 THEN page[o[1]].t = "large"
        ELSE IsBlock(page[o[1]].size, o[1], o[2]) /\ block[o[1]][o[2]] = "obj"
    BY DEF IInv, ObjectsOK
  <2>5. CASE o[2] = 0
    BY <1>6, <2>2, <2>3, <2>4, <2>5
  <2>6. CASE o[2] # 0
    <3>1. page[o[1]].t = "small" /\ o[2] \in 1..Blocks[page[o[1]].size]
      BY <2>4, <2>6 DEF IsBlock, IsPage
    <3>2. page'[o[1]] = Small(page[o[1]].size, TopOf(Before(kept, o[1])))
      BY <1>6, <2>2, <2>3, <3>1
    <3>3. page'[o[1]].t = "small" /\ page'[o[1]].size = page[o[1]].size
      BY <3>2 DEF Small
    <3>4. block'[o[1]][o[2]] = block[o[1]][o[2]]
      <4>1. o[2] \in 1..MaxBlocks
        BY <2>2, <2>6 DEF HeapAssumption
      <4>2. <<o[1], o[2]>> \notin AllObjects \ kept
        BY <2>1, <2>2
      <4> QED
        BY <1>1, <2>2, <4>1, <4>2
    <3> QED
      BY <2>2, <2>4, <2>6, <3>1, <3>3, <3>4 DEF IsBlock, IsPage
  <2> QED
    BY <2>5, <2>6
<1>19. ObjectsOK'
  <2>1. \A u, v \in Threads : u # v => held'[u] \cap held'[v] = {}
    BY <1>2 DEF IInv, ObjectsOK
  <2> QED
    BY <1>2, <1>14, <1>18, <2>1 DEF ObjectsOK
<1> QED
  BY <1>11, <1>13, <1>14, <1>15, <1>17, <1>19 DEF IInv

-----------------------------------------------------------------------------
(* The theorems *)

LEMMA InitIInv == ASSUME HeapAssumption, Init PROVE IInv
<1>1. HeapTypeOK
  <2>1. page \in [PageNos -> Words]
    BY NewWords DEF Init
  <2>2. block \in [PageNos -> [1..MaxBlocks -> {"free", "alloc", "obj"}]]
    BY DEF Init
  <2>3. hint \in [Sizes -> Hints] /\ list \in [Sizes -> PageNos \cup {None}]
    BY DEF Init, Hints
  <2>4. nextPage \in 1..(MaxPages + 1) /\ numPages \in 0..MaxPages
    <3>1. MaxPages \in Nat
      BY DEF HeapAssumption
    <3>2. 1 \in 1..(MaxPages + 1) /\ 0 \in 0..MaxPages
      BY <3>1
    <3> QED
      BY <3>2 DEF Init
  <2>5. oom \in [Threads -> BOOLEAN] /\ held \in [Threads -> SUBSET Objects]
    BY DEF Init
  <2> QED
    BY <2>1, <2>2, <2>3, <2>4, <2>5 DEF HeapTypeOK
<1>2. JobTypeOK
  BY DEF Init, JobTypeOK, Jobs, Places, NoJob, HeapAssumption
<1>3. \A t \in Threads : pc[t] = "idle" /\ Own(t) = {} /\ ~HasBlock(t) /\ PagesOK(t) /\ BlocksOK(t)
  BY DEF Init, Own, Reserving, Complete, HasBlock, PagesOK, BlocksOK
<1>4. \A p \in PageNos : page[p].t = "free" /\ Extent(p) = {}
  BY DEF Init, Free, Extent
<1>5. ListsOK
  BY <1>4 DEF Init, ListsOK, IsEnd
<1>6. Layout
  BY <1>3, <1>4 DEF Layout
<1>7. ObjectsOK
  BY <1>3 DEF Init, ObjectsOK
<1> QED
  BY <1>1, <1>2, <1>3, <1>5, <1>6, <1>7 DEF IInv

\* A thread that was misled stays so.
LEMMA OnceMisled == ASSUME [Next]_vars, misled PROVE misled'
BY DEF Next, Look, vars

LEMMA NextIInv == ASSUME HeapAssumption, ~misled', IInv, [Next]_vars PROVE IInv'
<1>1. ASSUME NEW t \in Threads, Step(t) \/ Look(t) PROVE IInv'
  <2>1. CASE New(t) \/ Drop(t)
    BY <2>1, NewStep, DropStep
  <2>2. CASE ReadHint(t) \/ GrabBlock(t) \/ StoreHint(t)
    BY <2>2, ReadHintStep, GrabBlockStep, StoreHintStep
  <2>3. CASE ReadList(t) \/ PopPage(t) \/ HintAtPage(t)
    BY <2>3, ReadListStep, PopPageStep, HintAtPageStep
  <2>4. CASE TryAgain(t) \/ Avail(t) \/ Extend(t) \/ OutOfMemory(t)
    BY <2>4, TryAgainStep, AvailStep, ExtendStep, OutOfMemoryStep
  <2>5. CASE AskGc(t) \/ Collect(t) \/ GcFails(t)
    BY <2>5, AskGcStep, CollectStep, GcFailsStep
  <2>6. CASE GrabPage(t) \/ Look(t) \/ Undo(t) \/ StoreNextPage(t)
    BY <2>6, GrabPageStep, LookStep, UndoStep, StoreNextPageStep
  <2>7. CASE Format(t) \/ HintAtSecond(t) \/ Build(t) \/ MarkLarge(t)
    BY <2>7, FormatStep, HintAtSecondStep, BuildStep, MarkLargeStep
  <2> QED
    BY <1>1, <2>1, <2>2, <2>3, <2>4, <2>5, <2>6, <2>7 DEF Step
<1>2. CASE UNCHANGED vars
  <2>1. /\ page' = page /\ block' = block /\ hint' = hint /\ list' = list /\ nextPage' = nextPage
        /\ numPages' = numPages /\ oom' = oom /\ pc' = pc /\ job' = job /\ held' = held
    BY <1>2 DEF vars
  <2>2. HeapTypeOK' /\ JobTypeOK'
    BY <2>1 DEF IInv, HeapTypeOK, JobTypeOK
  <2>3. ASSUME NEW t \in Threads PROVE PagesOK(t)'
    <3>1. PagesOK(t)
      BY DEF IInv
    <3> QED
      BY <2>1, <3>1 DEF PagesOK, Own, Reserving, Complete, IsEnd, AfterPage, AfterJob
  <2>4. ASSUME NEW t \in Threads PROVE BlocksOK(t)'
    <3>1. BlocksOK(t)
      BY DEF IInv
    <3> QED
      BY <2>1, <3>1 DEF BlocksOK, HasBlock, IsBlock, IsPage
  <2>5. ListsOK'
    <3>1. ListsOK
      BY DEF IInv
    <3> QED
      BY <2>1, <3>1 DEF ListsOK, IsPage, IsBlock, IsEnd, AfterPage, AfterJob, Complete
  <2>6. Layout'
    <3>1. Layout
      BY DEF IInv
    <3> QED
      BY <2>1, <3>1 DEF Layout, Extent, Own, Reserving, Complete
  <2>7. ObjectsOK'
    <3>1. ObjectsOK
      BY DEF IInv
    <3> QED
      BY <2>1, <3>1 DEF ObjectsOK, HasBlock, IsBlock, IsPage
  <2> QED
    BY <2>2, <2>3, <2>4, <2>5, <2>6, <2>7 DEF IInv
<1> QED
  BY <1>1, <1>2 DEF Next

\* The inductive invariant holds for any number of threads, pages, sizes and lengths of
\* large objects, until a thread is misled.
THEOREM Invariance == ASSUME HeapAssumption PROVE Spec => [](~misled => IInv)
<1>1. Init => (~misled => IInv)
  BY InitIInv
<1>2. (~misled => IInv) /\ [Next]_vars => (~misled => IInv)'
  BY NextIInv, OnceMisled
<1> QED
  BY <1>1, <1>2, PTL DEF Spec

\* A claim to whole pages is to one that a large object's descriptor speaks for or that
\* was reserved; a claim to a block is to one of a page of blocks, which has an object
\* or is being given one.
LEMMA ClaimKinds ==
  ASSUME HeapAssumption, IInv, NEW t \in Threads, NEW x \in Claims(t)
  PROVE  \/ /\ x[2] = 0
            /\ \/ \E q \in PageNos : x[1] \in Extent(q) /\ page[q].t = "large" /\ <<q, 0>> \in held[t]
               \/ x[1] \in Own(t)
         \/ /\ x[2] # 0 /\ x[1] \in PageNos /\ page[x[1]].t = "small"
            /\ \/ x \in held[t] /\ block[x[1]][x[2]] = "obj"
               \/ /\ HasBlock(t) /\ x = <<job[t].ptr, job[t].blk>>
                  /\ block[x[1]][x[2]] = "alloc"
<1>1. CASE \E o \in held[t] : o[2] = 0 /\ x \in PagesOf(o)
  <2>1. PICK o \in held[t] : o[2] = 0 /\ x \in PagesOf(o)
    BY <1>1
  <2>2. o \in Objects /\ page[o[1]].t = "large"
    BY <2>1 DEF IInv, HeapTypeOK, ObjectsOK
  <2>3. o[1] \in PageNos /\ o = <<o[1], 0>>
    BY <2>1, <2>2 DEF Objects
  <2>4. PICK p \in o[1]..(o[1] + page[o[1]].n - 1) : x = <<p, 0>>
    BY <2>1 DEF PagesOf
  <2>5. x[1] \in Extent(o[1]) /\ x[2] = 0
    BY <2>2, <2>4 DEF Extent
  <2>6. <<o[1], 0>> \in held[t]
    BY <2>3
  <2> QED
    BY <2>2, <2>3, <2>5, <2>6
<1>2. CASE x \in held[t] /\ x[2] # 0
  <2>1. x \in Objects /\ IsBlock(page[x[1]].size, x[1], x[2]) /\ block[x[1]][x[2]] = "obj"
    BY <1>2 DEF IInv, HeapTypeOK, ObjectsOK
  <2> QED
    BY <1>2, <2>1 DEF IsBlock, IsPage
<1>3. CASE \E p \in Own(t) : x = <<p, 0>>
  BY <1>3
<1>4. CASE HasBlock(t) /\ x = <<job[t].ptr, job[t].blk>>
  <2>1. IsBlock(job[t].size, job[t].ptr, job[t].blk) /\ block[job[t].ptr][job[t].blk] = "alloc"
    BY <1>4 DEF IInv, BlocksOK
  <2>2. x[1] = job[t].ptr /\ x[2] = job[t].blk
    BY <1>4
  <2>3. x[1] \in PageNos /\ page[x[1]].t = "small"
    BY <2>1, <2>2 DEF IsBlock, IsPage
  <2>4. x[2] # 0
    <3>1. job[t].size \in Sizes
      BY <2>1, WordFields DEF IInv, IsBlock, IsPage
    <3>2. Blocks[job[t].size] \in Nat /\ job[t].blk \in 1..Blocks[job[t].size]
      BY <2>1, <3>1 DEF IsBlock, HeapAssumption
    <3> QED
      BY <2>2, <3>2
  <2> QED
    BY <1>4, <2>1, <2>2, <2>3, <2>4
<1>5. ASSUME NEW o \in held[t], x \in IF o[2] = 0 THEN PagesOf(o) ELSE {o}
      PROVE  (o[2] = 0 /\ x \in PagesOf(o)) \/ (x \in held[t] /\ x[2] # 0)
  <2>1. CASE o[2] = 0
    BY <1>5, <2>1
  <2>2. CASE o[2] # 0
    <3>1. x = o
      BY <1>5, <2>2
    <3> QED
      BY <2>2, <3>1
  <2> QED
    BY <2>1, <2>2
<1>6. \/ \E o \in held[t] : x \in IF o[2] = 0 THEN PagesOf(o) ELSE {o}
      \/ \E p \in Own(t) : x = <<p, 0>>
      \/ HasBlock(t) /\ x = <<job[t].ptr, job[t].blk>>
  <2> DEFINE S == {IF o[2] = 0 THEN PagesOf(o) ELSE {o} : o \in held[t]}
             P == {<<p, 0>> : p \in Own(t)}
             B == IF HasBlock(t) THEN {<<job[t].ptr, job[t].blk>>} ELSE {}
  <2>1. x \in UNION S \/ x \in P \/ x \in B
    <3>1. x \in Claims(t) /\ Claims(t) = (UNION S) \cup P \cup B
      BY DEF Claims
    <3> HIDE DEF S, P, B
    <3> QED
      BY <3>1
  <2>2. ASSUME x \in UNION S PROVE \E o \in held[t] : x \in IF o[2] = 0 THEN PagesOf(o) ELSE {o}
    <3>1. PICK A \in S : x \in A
      BY <2>2
    <3>2. PICK o \in held[t] : A = IF o[2] = 0 THEN PagesOf(o) ELSE {o}
      OBVIOUS
    <3> QED
      BY <3>1, <3>2
  <2>3. ASSUME x \in B PROVE HasBlock(t) /\ x = <<job[t].ptr, job[t].blk>>
    BY <2>3
  <2>4. ASSUME x \in P PROVE \E p \in Own(t) : x = <<p, 0>>
    BY <2>4
  <2> QED
    BY <2>1, <2>2, <2>3, <2>4
<1> QED
  BY <1>1, <1>2, <1>3, <1>4, <1>5, <1>6

\* What the invariant says of the memory that threads have.
LEMMA ApartByIInv ==
  ASSUME HeapAssumption, IInv PROVE MemoryApart
<1>1. SUFFICES ASSUME NEW t \in Threads, NEW u \in Threads, t # u,
                      NEW x \in Claims(t), NEW y \in Claims(u), x[1] = y[1]
               PROVE  x[2] # y[2] /\ x[2] # 0 /\ y[2] # 0
  BY DEF MemoryApart, Apart
<1>2. ASSUME NEW v \in Threads, NEW w \in Threads, v # w,
             NEW a \in Claims(v), NEW b \in Claims(w), a[1] = b[1], a[2] = 0
      PROVE  FALSE
  <2>1. \/ \E q \in PageNos : a[1] \in Extent(q) /\ page[q].t = "large" /\ <<q, 0>> \in held[v]
        \/ a[1] \in Own(v)
    BY <1>2, ClaimKinds
  <2>2. CASE b[2] = 0
    <3>1. \/ \E q \in PageNos : b[1] \in Extent(q) /\ page[q].t = "large" /\ <<q, 0>> \in held[w]
          \/ b[1] \in Own(w)
      BY <1>2, <2>2, ClaimKinds
    <3>2. held[v] \cap held[w] = {} /\ Own(v) \cap Own(w) = {}
      BY <1>2 DEF IInv, ObjectsOK, Layout
    <3>3. \A p, q \in PageNos : p # q => Extent(p) \cap Extent(q) = {}
      BY DEF IInv, Layout
    <3>4. \A p \in PageNos : Extent(p) \cap Own(v) = {} /\ Extent(p) \cap Own(w) = {}
      BY DEF IInv, Layout
    <3> QED
      BY <1>2, <2>1, <3>1, <3>2, <3>3, <3>4
  <2>3. CASE b[2] # 0
    <3>1. b[1] \in PageNos /\ page[b[1]].t = "small"
      BY <1>2, <2>3, ClaimKinds
    <3>2. b[1] \in Extent(b[1])
      BY <3>1 DEF Extent
    <3>3. \A p, q \in PageNos : p # q => Extent(p) \cap Extent(q) = {}
      BY DEF IInv, Layout
    <3>4. \A p \in PageNos : Extent(p) \cap Own(v) = {}
      BY DEF IInv, Layout
    <3>5. CASE a[1] \in Own(v)
      BY <1>2, <3>1, <3>2, <3>4, <3>5
    <3>6. CASE \E q \in PageNos : a[1] \in Extent(q) /\ page[q].t = "large"
      BY <1>2, <3>1, <3>2, <3>3, <3>6
    <3> QED
      BY <2>1, <3>5, <3>6
  <2> QED
    BY <2>2, <2>3
<1>3. x[2] # 0 /\ y[2] # 0
  BY <1>1, <1>2
<1>4. ASSUME x[2] = y[2] PROVE FALSE
  <2>1. \/ x \in held[t] /\ block[x[1]][x[2]] = "obj"
        \/ HasBlock(t) /\ x = <<job[t].ptr, job[t].blk>> /\ block[x[1]][x[2]] = "alloc"
    BY <1>3, ClaimKinds
  <2>2. \/ y \in held[u] /\ block[y[1]][y[2]] = "obj"
        \/ HasBlock(u) /\ y = <<job[u].ptr, job[u].blk>> /\ block[y[1]][y[2]] = "alloc"
    BY <1>3, ClaimKinds
  <2>3. block[x[1]][x[2]] = block[y[1]][y[2]]
    BY <1>1, <1>4
  <2>4. CASE x \in held[t] /\ y \in held[u]
    <3>1. x \in Objects /\ y \in Objects
      BY <2>4 DEF IInv, HeapTypeOK
    <3>2. x = y
      BY <1>1, <1>4, <3>1 DEF Objects
    <3> QED
      BY <1>1, <2>4, <3>2 DEF IInv, ObjectsOK
  <2>5. CASE /\ HasBlock(t) /\ x = <<job[t].ptr, job[t].blk>>
             /\ HasBlock(u) /\ y = <<job[u].ptr, job[u].blk>>
    <3>1. <<job[t].ptr, job[t].blk>> # <<job[u].ptr, job[u].blk>>
      BY <1>1, <2>5 DEF IInv, ObjectsOK
    <3> QED
      BY <1>1, <1>4, <2>5, <3>1
  <2> QED
    BY <2>1, <2>2, <2>3, <2>4, <2>5
<1> QED
  BY <1>3, <1>4

\* Threads that race for pages and blocks without a lock are never given memory that
\* overlaps: in alloc_pages() and alloc_small_block() of heap.c, whatever the number of
\* threads, pages and sizes, until one of them looks at a reservation in progress.
THEOREM AllocationsApart == ASSUME HeapAssumption PROVE Spec => []MemoryApart
<1>1. (~misled => IInv) => MemoryApart
  BY ApartByIInv DEF MemoryApart
<1> QED
  BY <1>1, Invariance, PTL

-----------------------------------------------------------------------------
(* What a walk over the heap finds *)

\* What the walk finds from page p on, from what it finds from later pages on.
SweepOf(f, p) ==
  IF p > numPages THEN {}
  ELSE LET w == page[p] IN
       CASE w.t = "small" ->
              {<<p, b>> : b \in {x \in 1..Blocks[w.size] : block[p][x] = "obj"}}
                \cup f[p + 1]
         [] w.t = "large" -> {<<p, 0>>} \cup f[p + w.n]
         [] OTHER -> f[p + 1]

\* The sweep is a function that goes from each page to later ones.
LEMMA SweepEquation ==
  ASSUME HeapAssumption, IInv
  PROVE  SweepFrom = [p \in 1..2*MaxPages |-> SweepOf(SweepFrom, p)]
<1> DEFINE K == 2 * MaxPages
           Solves(f, k) == f = [p \in (K - k + 1)..K |-> SweepOf(f, p)]
           Bad == {k \in 0..K : ~ \E f : Solves(f, k)}
<1>0. K \in Nat /\ numPages \in Nat /\ numPages < K /\ numPages <= MaxPages /\ MaxPages \in Nat
  BY DEF HeapAssumption, IInv, HeapTypeOK
<1>1. Bad \in SUBSET Nat
  BY <1>0
<1>2. ASSUME NEW p \in PageNos, page[p].t = "large", p <= numPages
      PROVE  p + page[p].n \in Nat /\ p + page[p].n > p /\ p + page[p].n <= K
  <2>1. page[p].n \in Nat \ {0}
    BY <1>2, WordFields DEF IInv
  <2>2. Extent(p) = p..(p + page[p].n - 1) /\ Extent(p) \subseteq 1..numPages
    BY <1>2 DEF Extent, IInv, Layout
  <2>3. p + page[p].n - 1 \in 1..numPages
    BY <2>1, <2>2 DEF PageNos
  <2> QED
    BY <1>0, <2>1, <2>3 DEF PageNos
<1>3. ASSUME NEW lo \in 1..K, NEW p \in lo..K, NEW f, NEW g,
             \A q \in lo..K : q > p => f[q] = g[q]
      PROVE  SweepOf(f, p) = SweepOf(g, p)
  <2>1. CASE p > numPages
    BY <2>1 DEF SweepOf
  <2>2. CASE p <= numPages
    <3>1. p \in PageNos /\ p + 1 \in lo..K /\ p + 1 > p /\ ~(p > numPages)
      BY <1>0, <2>2 DEF PageNos
    <3>2. f[p + 1] = g[p + 1]
      BY <1>3, <3>1
    <3>3. page[p].t = "large" => f[p + page[p].n] = g[p + page[p].n]
      BY <1>0, <1>2, <1>3, <2>2, <3>1
    <3> QED
      BY <3>1, <3>2, <3>3 DEF SweepOf
  <2> QED
    BY <1>0, <2>1, <2>2
<1>4. Bad = {}
  <2>1. SUFFICES ASSUME Bad # {} PROVE FALSE
    OBVIOUS
  <2>2. PICK k \in Bad : \A i \in Bad : k <= i
    <3> HIDE DEF Bad
    <3> QED
      BY <1>1, <2>1, Least
  <2>3. k \in 0..K /\ ~ \E f : Solves(f, k)
    OBVIOUS
  <2>4. k # 0
    <3>1. SUFFICES ASSUME k = 0 PROVE \E f : Solves(f, k)
      BY <2>3
    <3> DEFINE f == [p \in (K - k + 1)..K |-> {}]
    <3>2. (K - k + 1)..K = {}
      BY <1>0, <3>1
    <3>3. f = [p \in (K - k + 1)..K |-> SweepOf(f, p)]
      BY <3>2
    <3> QED
      BY <3>3
  <2>5. k - 1 \in 0..K /\ k - 1 \in Nat /\ k \in Nat /\ k - 1 < k
    BY <1>0, <2>3, <2>4
  <2>6. k - 1 \notin Bad
    <3>1. ~(k <= k - 1)
      BY <2>5
    <3> HIDE DEF Bad
    <3> QED
      BY <2>2, <3>1
  <2>7. PICK g : Solves(g, k - 1)
    BY <2>5, <2>6
  <2> DEFINE lo == K - k + 1
             h == [p \in lo..K |-> IF p = lo THEN SweepOf(g, lo) ELSE g[p]]
  <2>8. lo \in 1..K /\ K - (k - 1) + 1 = lo + 1
    BY <1>0, <2>3, <2>4
  <2>9. ASSUME NEW p \in lo..K PROVE h[p] = SweepOf(h, p)
    <3>1. \A q \in lo..K : q > p => h[q] = g[q]
      BY <2>8
    <3>2. SweepOf(h, p) = SweepOf(g, p)
      <4> HIDE DEF h, lo, K
      <4> QED
        BY <1>3, <2>8, <3>1
    <3>3. CASE p = lo
      BY <3>2, <3>3
    <3>4. CASE p # lo
      <4>1. p \in (lo + 1)..K
        BY <2>8, <3>4
      <4>2. g[p] = SweepOf(g, p)
        BY <2>7, <2>8, <4>1
      <4> QED
        BY <3>2, <3>4, <4>2
    <3> QED
      BY <3>3, <3>4
  <2>10. h = [p \in lo..K |-> SweepOf(h, p)]
    BY <2>9
  <2>11. Solves(h, k)
    BY <2>10
  <2> QED
    BY <2>3, <2>11
<1>5. PICK f : Solves(f, K)
  <2>1. K \in 0..K /\ K \notin Bad
    BY <1>0, <1>4
  <2> HIDE DEF Solves
  <2> QED
    BY <2>1
<1>6. f = [p \in 1..K |-> SweepOf(f, p)]
  <2>1. K - K + 1 = 1
    BY <1>0
  <2> QED
    BY <1>5, <2>1
<1>7. SweepFrom = CHOOSE r : r = [p \in 1..2*MaxPages |-> SweepOf(r, p)]
  BY DEF SweepFrom, SweepOf
<1> QED
  BY <1>6, <1>7

\* Where a large object goes on: after it, inside the heap.
LEMMA LargeEnds ==
  ASSUME HeapAssumption, IInv, NEW p \in PageNos, page[p].t = "large"
  PROVE  /\ page[p].n \in Nat \ {0} /\ p \in Extent(p) /\ p <= numPages
         /\ p + page[p].n \in Nat /\ p + page[p].n - 1 \in Extent(p)
         /\ p + page[p].n - 1 <= numPages
<1>1. page[p].n \in Nat \ {0} /\ p \in Nat
  BY WordFields DEF IInv, PageNos, HeapAssumption
<1>2. Extent(p) = p..(p + page[p].n - 1) /\ Extent(p) \subseteq 1..numPages
  BY DEF Extent, IInv, Layout
<1> QED
  BY <1>1, <1>2

\* All that the walk finds is there.
LEMMA WalkFindsWhatIs ==
  ASSUME HeapAssumption, IInv, NEW o \in AllObjects
  PROVE  /\ o = <<o[1], o[2]>> /\ o[1] \in PageNos
         /\ \/ o[2] = 0 /\ page[o[1]].t = "large"
            \/ IsBlock(page[o[1]].size, o[1], o[2]) /\ block[o[1]][o[2]] = "obj"
<1> DEFINE K == 2 * MaxPages
           IsThere(x) ==
             /\ x = <<x[1], x[2]>> /\ x[1] \in PageNos
             /\ \/ x[2] = 0 /\ page[x[1]].t = "large"
                \/ IsBlock(page[x[1]].size, x[1], x[2]) /\ block[x[1]][x[2]] = "obj"
           Bad == {p \in 1..K : \E x \in SweepFrom[p] : ~IsThere(x)}
<1>0. K \in Nat /\ numPages \in Nat /\ numPages < K /\ numPages <= MaxPages /\ MaxPages \in Nat
  BY DEF HeapAssumption, IInv, HeapTypeOK
<1>1. Bad = {}
  <2>1. SUFFICES ASSUME Bad # {} PROVE FALSE
    OBVIOUS
  <2>2. PICK p \in Bad : \A q \in Bad : q <= p
    <3>1. Bad \in SUBSET (0..K)
      OBVIOUS
    <3> HIDE DEF Bad, K
    <3> QED
      BY <1>0, <2>1, <3>1, Greatest
  <2>3. PICK x \in SweepFrom[p] : ~IsThere(x)
    OBVIOUS
  <2>4. SweepFrom[p] = SweepOf(SweepFrom, p)
    BY SweepEquation
  <2>5. p \in PageNos /\ ~(p > numPages) /\ p + 1 \in 1..K /\ p + 1 > p
    <3>1. ~(p > numPages)
      BY <2>3, <2>4 DEF SweepOf
    <3> QED
      BY <1>0, <3>1 DEF PageNos
  <2>6. ASSUME NEW q \in 1..K, q > p PROVE x \notin SweepFrom[q]
    BY <2>2, <2>3, <2>6
  <2>7. CASE page[p].t = "small"
    <3>1. SweepOf(SweepFrom, p)
            = {<<p, b>> : b \in {i \in 1..Blocks[page[p].size] : block[p][i] = "obj"}}
                \cup SweepFrom[p + 1]
      BY <2>5, <2>7 DEF SweepOf
    <3>2. PICK b \in 1..Blocks[page[p].size] : block[p][b] = "obj" /\ x = <<p, b>>
      BY <2>3, <2>4, <2>5, <2>6, <3>1
    <3> QED
      BY <2>3, <2>5, <2>7, <3>2 DEF IsBlock, IsPage
  <2>8. CASE page[p].t = "large"
    <3>1. SweepOf(SweepFrom, p) = {<<p, 0>>} \cup SweepFrom[p + page[p].n]
      BY <2>5, <2>8 DEF SweepOf
    <3>2. p + page[p].n \in 1..K /\ p + page[p].n > p
      BY <1>0, <2>5, <2>8, LargeEnds
    <3>3. x = <<p, 0>>
      BY <2>3, <2>4, <2>6, <3>1, <3>2
    <3> QED
      BY <2>3, <2>5, <2>8, <3>3
  <2>9. CASE page[p].t \notin {"small", "large"}
    <3>1. SweepOf(SweepFrom, p) = SweepFrom[p + 1]
      BY <2>5, <2>9 DEF SweepOf
    <3> QED
      BY <2>3, <2>4, <2>5, <2>6, <3>1
  <2> QED
    BY <2>7, <2>8, <2>9
<1>2. 1 \in 1..K
  BY <1>0
<1> QED
  BY <1>1, <1>2 DEF AllObjects

\* A page that no object begins before and goes on into.
Begins(q) == \A r \in PageNos : r < q => q \notin Extent(r)

\* The page after what is found at one where an object may begin is again one.
LEMMA BeginsAgain ==
  ASSUME HeapAssumption, IInv, NEW q \in PageNos, Begins(q), NEW n \in Nat \ {0},
         page[q].t = "large" => n = page[q].n, page[q].t # "large" => n = 1
  PROVE  Begins(q + n)
<1>1. SUFFICES ASSUME NEW r \in PageNos, r < q + n, q + n \in Extent(r) PROVE FALSE
  BY DEF Begins
<1>2. q \in Nat /\ r \in Nat
  BY DEF PageNos, HeapAssumption
<1>3. page[r].t = "large" /\ Extent(r) = r..(r + page[r].n - 1) /\ page[r].n \in Nat
  <2>1. page[r].t # "small"
    BY <1>1, <1>2 DEF Extent
  <2> QED
    BY <1>1, <2>1, LargeEnds DEF Extent
<1>4. r # q
  <2>1. SUFFICES ASSUME r = q PROVE FALSE
    OBVIOUS
  <2>2. n = page[r].n /\ q + n <= r + page[r].n - 1
    BY <1>1, <1>2, <1>3, <2>1
  <2> QED
    BY <1>2, <1>3, <2>1, <2>2
<1>5. r > q
  <2>1. SUFFICES ASSUME r < q PROVE FALSE
    BY <1>2, <1>4
  <2>2. q \in Extent(r)
    BY <1>1, <1>2, <1>3, <2>1
  <2> QED
    BY <2>1, <2>2 DEF Begins
<1>6. page[q].t = "large" /\ r \in Extent(q)
  <2>1. page[q].t = "large"
    BY <1>1, <1>2, <1>5
  <2>2. Extent(q) = q..(q + n - 1)
    BY <2>1 DEF Extent
  <2> QED
    BY <1>1, <1>2, <1>5, <2>1, <2>2
<1>7. r \in Extent(r)
  BY <1>3, LargeEnds
<1> QED
  BY <1>4, <1>6, <1>7 DEF IInv, Layout

\* The walk finds every large object, and every object in a block.
LEMMA WalkFindsAll ==
  ASSUME HeapAssumption, IInv, NEW p \in PageNos, NEW b,
         \/ page[p].t = "large" /\ b = 0
         \/ IsBlock(page[p].size, p, b) /\ block[p][b] = "obj"
  PROVE  <<p, b>> \in AllObjects
<1> DEFINE K == 2 * MaxPages
           Bad == {q \in 1..p : Begins(q) /\ <<p, b>> \notin SweepFrom[q]}
<1>0. /\ K \in Nat /\ numPages \in Nat /\ numPages < K /\ numPages <= MaxPages
      /\ MaxPages \in Nat /\ p \in Nat /\ p >= 1
  BY DEF HeapAssumption, IInv, HeapTypeOK, PageNos
<1>1. p <= numPages /\ p \in Extent(p)
  <2>1. CASE page[p].t = "large"
    BY <2>1, LargeEnds
  <2>2. CASE page[p].t = "small"
    <3>1. Extent(p) = {p} /\ Extent(p) \subseteq 1..numPages
      BY <2>2 DEF Extent, IInv, Layout
    <3> QED
      BY <1>0, <3>1
  <2> QED
    BY <2>1, <2>2 DEF IsBlock, IsPage
<1>2. Bad = {}
  <2>1. SUFFICES ASSUME Bad # {} PROVE FALSE
    OBVIOUS
  <2>2. PICK q \in Bad : \A r \in Bad : r <= q
    <3>1. Bad \in SUBSET (0..p)
      BY <1>0
    <3> HIDE DEF Bad
    <3> QED
      BY <1>0, <2>1, <3>1, Greatest
  <2>3. q \in 1..K /\ q \in PageNos /\ ~(q > numPages) /\ Begins(q) /\ <<p, b>> \notin SweepFrom[q]
    BY <1>0, <1>1 DEF PageNos
  <2>4. <<p, b>> \notin SweepOf(SweepFrom, q)
    <3>1. SweepFrom[q] = SweepOf(SweepFrom, q)
      BY <2>3, SweepEquation
    <3> QED
      BY <2>3, <3>1
  <2>5. ASSUME NEW n \in Nat \ {0}, q + n <= p,
               page[q].t = "large" => n = page[q].n, page[q].t # "large" => n = 1
        PROVE  <<p, b>> \in SweepFrom[q + n]
    <3>1. Begins(q + n)
      BY <2>3, <2>5, BeginsAgain
    <3>2. q + n \in 1..p /\ q + n > q
      BY <1>0, <2>3, <2>5
    <3> QED
      BY <2>2, <3>1, <3>2
  <2>6. CASE page[q].t = "small"
    <3>1. SweepOf(SweepFrom, q)
            = {<<q, i>> : i \in {x \in 1..Blocks[page[q].size] : block[q][x] = "obj"}}
                \cup SweepFrom[q + 1]
      BY <2>3, <2>6 DEF SweepOf
    <3>2. q # p
      <4>1. SUFFICES ASSUME q = p PROVE FALSE
        OBVIOUS
      <4>2. b \in 1..Blocks[page[q].size] /\ block[q][b] = "obj"
        BY <2>6, <4>1 DEF IsBlock
      <4> QED
        BY <2>4, <3>1, <4>1, <4>2
    <3>3. q + 1 <= p
      BY <1>0, <2>3, <3>2
    <3> QED
      BY <2>4, <2>5, <2>6, <3>1, <3>3
  <2>7. CASE page[q].t = "large"
    <3>1. SweepOf(SweepFrom, q) = {<<q, 0>>} \cup SweepFrom[q + page[q].n]
      BY <2>3, <2>7 DEF SweepOf
    <3>2. q # p
      <4>1. SUFFICES ASSUME q = p PROVE FALSE
        OBVIOUS
      <4>2. b = 0
        BY <2>7, <4>1 DEF IsBlock, IsPage
      <4> QED
        BY <2>4, <3>1, <4>1, <4>2
    <3>3. page[q].n \in Nat \ {0} /\ Extent(q) = q..(q + page[q].n - 1)
      BY <2>3, <2>7, LargeEnds DEF Extent
    <3>4. p \notin Extent(q)
      BY <1>1, <2>3, <3>2 DEF IInv, Layout
    <3>5. q + page[q].n <= p
      BY <1>0, <2>3, <3>3, <3>4
    <3> QED
      BY <2>4, <2>5, <2>7, <3>1, <3>3, <3>5
  <2>8. CASE page[q].t \notin {"small", "large"}
    <3>1. SweepOf(SweepFrom, q) = SweepFrom[q + 1]
      BY <2>3, <2>8 DEF SweepOf
    <3>2. q # p
      BY <2>8 DEF IsBlock, IsPage
    <3>3. q + 1 <= p
      BY <1>0, <2>3, <3>2
    <3> QED
      BY <2>4, <2>5, <2>8, <3>1, <3>3
  <2> QED
    BY <2>6, <2>7, <2>8
<1>3. Begins(1)
  BY <1>0 DEF Begins, PageNos
<1>4. 1 \in 1..p
  BY <1>0
<1> QED
  BY <1>2, <1>3, <1>4 DEF AllObjects

LEMMA WalkByIInv == ASSUME HeapAssumption, IInv PROVE WalkFindsObjects
<1>1. SUFFICES ASSUME NEW t \in Threads, NEW o \in held[t] PROVE o \in AllObjects
  BY DEF WalkFindsObjects
<1>2. o \in Objects
  BY DEF IInv, HeapTypeOK
<1>3. PICK p \in PageNos, b \in 0..MaxBlocks : o = <<p, b>>
  BY <1>2 DEF Objects
<1>4. IF b = 0 THEN page[p].t = "large" ELSE IsBlock(page[p].size, p, b) /\ block[p][b] = "obj"
  BY <1>3 DEF IInv, ObjectsOK
<1> QED
  BY <1>3, <1>4, WalkFindsAll

\* Every object that a program can reach is found by a walk over the heap, from the first
\* page on by the lengths in the descriptors: heap_sweep_next() of heap.c, at any moment
\* of the allocations that run without a lock, until a thread is misled.
THEOREM WalksFindObjects == ASSUME HeapAssumption PROVE Spec => []WalkFindsObjects
<1>1. (~misled => IInv) => WalkFindsObjects
  BY WalkByIInv DEF WalkFindsObjects
<1> QED
  BY <1>1, Invariance, PTL

-----------------------------------------------------------------------------
(* The heap at rest *)

\* A page of blocks has no more of them than there are words for.
LEMMA BlocksFit ==
  ASSUME HeapAssumption, IInv, NEW p \in PageNos, page[p].t = "small"
  PROVE  /\ page[p].size \in Sizes /\ Blocks[page[p].size] \in 2..MaxBlocks /\ MaxBlocks \in Nat
         /\ 1..Blocks[page[p].size] \subseteq 1..MaxBlocks
<1>1. page[p].size \in Sizes
  BY WordFields DEF IInv
<1>2. Blocks[page[p].size] \in 2..MaxBlocks /\ MaxBlocks \in Nat
  BY <1>1 DEF HeapAssumption
<1> QED
  BY <1>1, <1>2

\* A step that makes no page of blocks and frees none, after which a block that is being
\* filled is one that the thread that moved has, or that another one had.
LEMMA TidyStays ==
  ASSUME HeapAssumption, IInv, Tidy, NEW t \in Threads, OnlyJob(t),
         \A p \in PageNos : page'[p].t = "small" => page[p].t = "small" /\ page'[p] = page[p],
         \A p \in PageNos, b \in 1..MaxBlocks : page[p].t = "small" =>
           /\ block'[p][b] = "free" => block[p][b] = "free"
           /\ block'[p][b] = "alloc" =>
                \/ HasBlock(t)' /\ job'[t].ptr = p /\ job'[t].blk = b
                \/ block[p][b] = "alloc" /\ ~(HasBlock(t) /\ job[t].ptr = p /\ job[t].blk = b)
  PROVE  Tidy'
<1>1. SUFFICES ASSUME NEW p \in PageNos, page'[p].t = "small"
               PROVE  /\ page'[p].next # None => page'[p].next < p
                      /\ \A b \in 1..MaxBlocks : block'[p][b] = "alloc" =>
                           \E u \in Threads : HasBlock(u)' /\ job'[u].ptr = p /\ job'[u].blk = b
                      /\ \E b \in 1..Blocks[page'[p].size] : block'[p][b] # "free"
  BY DEF Tidy
<1>2. page[p].t = "small" /\ page'[p] = page[p]
  BY <1>1
<1>3. page'[p].next # None => page'[p].next < p
  BY <1>2 DEF Tidy
<1>4. ASSUME NEW b \in 1..MaxBlocks, block'[p][b] = "alloc"
      PROVE  \E u \in Threads : HasBlock(u)' /\ job'[u].ptr = p /\ job'[u].blk = b
  <2>1. CASE HasBlock(t)' /\ job'[t].ptr = p /\ job'[t].blk = b
    BY <2>1
  <2>2. CASE block[p][b] = "alloc" /\ ~(HasBlock(t) /\ job[t].ptr = p /\ job[t].blk = b)
    <3>1. PICK u \in Threads : HasBlock(u) /\ job[u].ptr = p /\ job[u].blk = b
      BY <1>2, <2>2 DEF Tidy
    <3>2. u # t
      BY <2>2, <3>1
    <3>3. pc'[u] = pc[u] /\ job'[u] = job[u]
      BY <3>2 DEF OnlyJob
    <3> QED
      BY <3>1, <3>3 DEF HasBlock
  <2> QED
    BY <1>2, <1>4, <2>1, <2>2
<1>5. \E b \in 1..Blocks[page'[p].size] : block'[p][b] # "free"
  <2>1. PICK b \in 1..Blocks[page[p].size] : block[p][b] # "free"
    BY <1>2 DEF Tidy
  <2>2. b \in 1..MaxBlocks
    BY <1>2, BlocksFit
  <2> QED
    BY <1>2, <2>1, <2>2
<1> QED
  BY <1>3, <1>4, <1>5

\* A step that changes no block, of a thread that has none or keeps the one it has.
LEMMA TidyIfNoBlock ==
  ASSUME HeapAssumption, IInv, Tidy, NEW t \in Threads, OnlyJob(t), block' = block,
         \A p \in PageNos : page'[p] = page[p] \/ page'[p].t # "small",
         HasBlock(t) => HasBlock(t)' /\ job'[t].ptr = job[t].ptr /\ job'[t].blk = job[t].blk
  PROVE  Tidy'
<1>1. \A p \in PageNos : page'[p].t = "small" => page[p].t = "small" /\ page'[p] = page[p]
  OBVIOUS
<1>2. ASSUME NEW p \in PageNos, NEW b \in 1..MaxBlocks, page[p].t = "small"
      PROVE  /\ block'[p][b] = "free" => block[p][b] = "free"
             /\ block'[p][b] = "alloc" =>
                  \/ HasBlock(t)' /\ job'[t].ptr = p /\ job'[t].blk = b
                  \/ block[p][b] = "alloc" /\ ~(HasBlock(t) /\ job[t].ptr = p /\ job[t].blk = b)
  OBVIOUS
<1> QED
  BY <1>1, <1>2, TidyStays

\* Where a thread that allocates goes when it keeps its hands off the heap's words.
LEMMA TidyQuiet ==
  ASSUME HeapAssumption, IInv, Tidy, NEW t \in Threads,
         \/ New(t) \/ Drop(t) \/ ReadHint(t) \/ ReadList(t) \/ PopPage(t) \/ HintAtPage(t)
         \/ TryAgain(t) \/ Avail(t) \/ OutOfMemory(t) \/ AskGc(t) \/ Look(t)
         \/ StoreNextPage(t)
  PROVE  Tidy'
<1>1. page' = page /\ block' = block
  BY DEF New, Drop, ReadHint, ReadList, PopPage, HintAtPage, TryAgain, Avail, OutOfMemory, AskGc,
         Look, StoreNextPage, pages
<1>2. ~HasBlock(t)
  BY DEF New, Drop, ReadHint, ReadList, PopPage, HintAtPage, TryAgain, Avail, OutOfMemory, AskGc,
         Look, StoreNextPage, Goto, HasBlock
<1>3. OnlyJob(t)
  <2>1. \A u \in Threads \ {t} : pc'[u] = pc[u]
    <3>1. pc \in [Threads -> Places]
      BY DEF IInv, JobTypeOK
    <3> QED
      BY <3>1 DEF New, Drop, ReadHint, ReadList, PopPage, HintAtPage, TryAgain, Avail, OutOfMemory,
         AskGc, Look, StoreNextPage, Goto, To
  <2>2. \A u \in Threads \ {t} : job'[u] = job[u]
    <3>1. job \in [Threads -> Jobs]
      BY DEF IInv, JobTypeOK
    <3>2. CASE job' = job
      BY <3>2
    <3>3. CASE \E r : job' = [job EXCEPT ![t] = r]
      BY <3>1, <3>3
    <3>4. job' = job \/ \E r : job' = [job EXCEPT ![t] = r]
      BY DEF New, Drop, ReadHint, ReadList, PopPage, HintAtPage, TryAgain, Avail, OutOfMemory,
         AskGc, Look, StoreNextPage
    <3> QED
      BY <3>2, <3>3, <3>4
  <2> QED
    BY <2>1, <2>2 DEF OnlyJob
<1> QED
  BY <1>1, <1>2, <1>3, TidyIfNoBlock

\* A collection that fails stops nobody who is filling a block, for nobody is, or concerns
\* nobody else.
LEMMA TidyGcFails ==
  ASSUME HeapAssumption, IInv, Tidy, NEW t \in Threads, GcFails(t)
  PROVE  Tidy'
<1>0. page' = page /\ block' = block /\ pc[t] = "gc" /\ pc \in [Threads -> Places]
      /\ job \in [Threads -> Jobs]
  BY DEF GcFails, pages, IInv, JobTypeOK
<1>1. ASSUME NEW u \in Threads, HasBlock(u) PROVE pc'[u] = pc[u] /\ job'[u] = job[u]
  <2>1. pc[u] \notin {"idle", "gc"} /\ u # t
    BY <1>0, <1>1 DEF HasBlock
  <2> QED
    BY <1>0, <2>1 DEF GcFails, AtSafePoint, Goto, To
<1>2. \A u \in Threads : HasBlock(u) => HasBlock(u)' /\ job'[u].ptr = job[u].ptr /\ job'[u].blk = job[u].blk
  BY <1>1 DEF HasBlock
<1>3. ASSUME NEW p \in PageNos, NEW b \in 1..MaxBlocks, page[p].t = "small", block[p][b] = "alloc"
      PROVE  \E u \in Threads : HasBlock(u)' /\ job'[u].ptr = p /\ job'[u].blk = b
  BY <1>2, <1>3 DEF Tidy
<1>4. \A p \in PageNos : page[p].t = "small" =>
        /\ page[p].next # None => page[p].next < p
        /\ \E b \in 1..Blocks[page[p].size] : block[p][b] # "free"
  BY DEF Tidy
<1> QED
  BY <1>0, <1>3, <1>4 DEF Tidy

LEMMA TidyHints ==
  ASSUME HeapAssumption, IInv, Tidy, NEW t \in Threads, StoreHint(t) \/ HintAtSecond(t)
  PROVE  Tidy'
<1>0. pc \in [Threads -> Places] /\ job \in [Threads -> Jobs]
  BY DEF IInv, JobTypeOK
<1>1. page' = page /\ block' = block
  BY DEF StoreHint, HintAtSecond, pages
<1>2. OnlyJob(t)
  BY <1>0 DEF StoreHint, HintAtSecond, Goto, To, OnlyJob
<1>3. HasBlock(t) => pc'[t] = "build" /\ job' = job
  <2>1. CASE HintAtSecond(t)
    BY <1>0, <2>1 DEF HintAtSecond, Goto, To
  <2>2. CASE StoreHint(t) /\ pc[t] = "mine"
    BY <1>0, <2>2 DEF StoreHint, Goto, To
  <2>3. CASE StoreHint(t) /\ pc[t] # "mine"
    <3>1. pc[t] = "next"
      BY <2>3 DEF StoreHint, Goto
    <3> QED
      BY <3>1 DEF HasBlock
  <2> QED
    BY <2>1, <2>2, <2>3
<1>4. HasBlock(t) => HasBlock(t)' /\ job'[t].ptr = job[t].ptr /\ job'[t].blk = job[t].blk
  BY <1>3 DEF HasBlock
<1> QED
  BY <1>1, <1>2, <1>4, TidyIfNoBlock

LEMMA TidyPages ==
  ASSUME HeapAssumption, IInv, Tidy, NEW t \in Threads,
         Extend(t) \/ GrabPage(t) \/ Undo(t) \/ MarkLarge(t)
  PROVE  Tidy'
<1>0. /\ pc \in [Threads -> Places] /\ job \in [Threads -> Jobs]
      /\ page \in [PageNos -> Words]
  BY DEF IInv, JobTypeOK, HeapTypeOK
<1>1. block' = block
  BY DEF Extend, GrabPage, Undo, MarkLarge
<1>2. OnlyJob(t)
  BY <1>0 DEF Extend, GrabPage, Undo, MarkLarge, Goto, To, OnlyJob
<1>3. ~HasBlock(t)
  <2>1. pc[t] \in {"avail", "pages", "undo", "mark"}
    BY DEF Extend, GrabPage, Undo, MarkLarge, Goto
  <2> QED
    BY <2>1 DEF HasBlock
<1>4. ASSUME NEW p \in PageNos PROVE page'[p] = page[p] \/ page'[p].t # "small"
  <2>1. CASE Extend(t)
    BY <2>1 DEF Extend, Free
  <2>2. CASE GrabPage(t)
    BY <1>0, <2>2 DEF GrabPage, Alloc
  <2>3. CASE Undo(t)
    BY <1>0, <2>3 DEF Undo, Free
  <2>4. CASE MarkLarge(t)
    BY <1>0, <2>4 DEF MarkLarge, Large
  <2> QED
    BY <2>1, <2>2, <2>3, <2>4
<1> QED
  BY <1>1, <1>2, <1>3, <1>4, TidyIfNoBlock

LEMMA TidyGrabBlock ==
  ASSUME HeapAssumption, IInv, Tidy, NEW t \in Threads, GrabBlock(t)
  PROVE  Tidy'
<1> DEFINE P == job[t].ptr
           B == job[t].blk
<1>0. /\ pc \in [Threads -> Places] /\ job \in [Threads -> Jobs]
      /\ block \in [PageNos -> [1..MaxBlocks -> {"free", "alloc", "obj"}]]
  BY DEF IInv, JobTypeOK, HeapTypeOK
<1>1. page' = page /\ job' = job /\ pc[t] = "grab" /\ OnlyJob(t) /\ ~HasBlock(t)
  BY <1>0 DEF GrabBlock, To, OnlyJob, HasBlock
<1>2. CASE block[P][B] # "free"
  <2>1. block' = block
    BY <1>2 DEF GrabBlock
  <2> QED
    BY <1>1, <2>1, TidyIfNoBlock
<1>3. CASE block[P][B] = "free"
  <2>1. block' = [block EXCEPT ![P][B] = "alloc"] /\ pc'[t] = "mine"
    BY <1>0, <1>3 DEF GrabBlock, To
  <2>2. job[t].size # None
    <3>1. BlocksOK(t)' /\ job'[t] = job[t]
      BY <1>1, GrabBlockStep DEF IInv
    <3> QED
      BY <2>1, <3>1 DEF BlocksOK
  <2>3. HasBlock(t)'
    BY <1>1, <2>1, <2>2 DEF HasBlock
  <2>4. ASSUME NEW p \in PageNos, NEW b \in 1..MaxBlocks
        PROVE  /\ block'[p][b] = "free" => block[p][b] = "free"
               /\ block'[p][b] = "alloc" =>
                    \/ HasBlock(t)' /\ job'[t].ptr = p /\ job'[t].blk = b
                    \/ block[p][b] = "alloc" /\ ~(HasBlock(t) /\ job[t].ptr = p /\ job[t].blk = b)
    <3>1. CASE p = P /\ b = B
      BY <1>0, <1>1, <2>1, <2>3, <3>1
    <3>2. CASE ~(p = P /\ b = B)
      <4>1. block'[p][b] = block[p][b]
        BY <1>0, <2>1, <3>2
      <4> QED
        BY <1>1, <4>1
    <3> QED
      BY <3>1, <3>2
  <2> QED
    BY <1>1, <2>4, TidyStays
<1> QED
  BY <1>2, <1>3

LEMMA TidyBuild ==
  ASSUME HeapAssumption, IInv, Tidy, NEW t \in Threads, Build(t)
  PROVE  Tidy'
<1> DEFINE P == job[t].ptr
           B == job[t].blk
<1>0. /\ pc \in [Threads -> Places] /\ job \in [Threads -> Jobs]
      /\ block \in [PageNos -> [1..MaxBlocks -> {"free", "alloc", "obj"}]]
      /\ page \in [PageNos -> Words]
  BY DEF IInv, JobTypeOK, HeapTypeOK
<1>1. pc[t] = "build" /\ OnlyJob(t)
  BY <1>0 DEF Build, Goto, To, OnlyJob
<1>2. CASE job[t].size # None
  <2>1. block' = [block EXCEPT ![P][B] = "obj"] /\ page' = page
    BY <1>2 DEF Build
  <2>3. ASSUME NEW p \in PageNos, NEW b \in 1..MaxBlocks
        PROVE  /\ block'[p][b] = "free" => block[p][b] = "free"
               /\ block'[p][b] = "alloc" =>
                    \/ HasBlock(t)' /\ job'[t].ptr = p /\ job'[t].blk = b
                    \/ block[p][b] = "alloc" /\ ~(HasBlock(t) /\ job[t].ptr = p /\ job[t].blk = b)
    <3>1. CASE p = P /\ b = B
      BY <1>0, <2>1, <3>1
    <3>2. CASE ~(p = P /\ b = B)
      <4>1. block'[p][b] = block[p][b]
        BY <1>0, <2>1, <3>2
      <4> QED
        BY <3>2, <4>1
    <3> QED
      BY <3>1, <3>2
  <2> QED
    BY <1>1, <2>1, <2>3, TidyStays
<1>3. CASE job[t].size = None
  <2>1. block' = block /\ ~HasBlock(t)
    BY <1>3 DEF Build, HasBlock
  <2>2. \A p \in PageNos : page'[p] = page[p] \/ page'[p].t # "small"
    BY <1>3 DEF Build, Free
  <2> QED
    BY <1>1, <2>1, <2>2, TidyIfNoBlock
<1> QED
  BY <1>2, <1>3

LEMMA TidyFormat ==
  ASSUME HeapAssumption, IInv, Tidy, NEW t \in Threads, Format(t)
  PROVE  Tidy'
<1> DEFINE P == job[t].ptr
<1>0. /\ pc \in [Threads -> Places] /\ job \in [Threads -> Jobs]
      /\ block \in [PageNos -> [1..MaxBlocks -> {"free", "alloc", "obj"}]]
      /\ page \in [PageNos -> Words]
  BY DEF IInv, JobTypeOK, HeapTypeOK
<1>1. /\ pc[t] = "format" /\ OnlyJob(t) /\ job[t].size # None /\ job[t].size \in Sizes
      /\ pc'[t] = "hinted" /\ job'[t] = [job[t] EXCEPT !.blk = 1]
  <2>1. BlocksOK(t)
    BY DEF IInv
  <2> QED
    BY <1>0, <2>1 DEF Format, Goto, To, OnlyJob, BlocksOK, Jobs
<1>2. HasBlock(t)' /\ job'[t].ptr = P /\ job'[t].blk = 1
  BY <1>0, <1>1 DEF HasBlock, Jobs
<1>3. /\ block' = [block EXCEPT ![P] = [b \in 1..MaxBlocks |-> IF b = 1 THEN "alloc" ELSE "free"]]
      /\ page' = [page EXCEPT ![P] = Small(job[t].size, None)]
  BY DEF Format
<1>4. SUFFICES ASSUME NEW p \in PageNos, page'[p].t = "small"
               PROVE  /\ page'[p].next # None => page'[p].next < p
                      /\ \A b \in 1..MaxBlocks : block'[p][b] = "alloc" =>
                           \E u \in Threads : HasBlock(u)' /\ job'[u].ptr = p /\ job'[u].blk = b
                      /\ \E b \in 1..Blocks[page'[p].size] : block'[p][b] # "free"
  BY DEF Tidy
<1>5. CASE p = P
  <2>1. page'[p].next = None /\ page'[p].size = job[t].size
    BY <1>0, <1>3, <1>5 DEF Small
  <2>2. \A b \in 1..MaxBlocks : block'[p][b] = IF b = 1 THEN "alloc" ELSE "free"
    BY <1>0, <1>3, <1>5
  <2>3. Blocks[job[t].size] \in 2..MaxBlocks /\ MaxBlocks \in Nat
    BY <1>1 DEF HeapAssumption
  <2>4. 1 \in 1..MaxBlocks /\ 1 \in 1..Blocks[job[t].size]
    BY <2>3
  <2>5. \E b \in 1..Blocks[page'[p].size] : block'[p][b] # "free"
    BY <2>1, <2>2, <2>4
  <2> QED
    BY <1>2, <1>5, <2>1, <2>2, <2>5
<1>6. CASE p # P
  <2>1. page'[p] = page[p] /\ block'[p] = block[p] /\ page[p].t = "small"
    BY <1>0, <1>3, <1>4, <1>6
  <2>2. ASSUME NEW b \in 1..MaxBlocks, block'[p][b] = "alloc"
        PROVE  \E u \in Threads : HasBlock(u)' /\ job'[u].ptr = p /\ job'[u].blk = b
    <3>1. PICK u \in Threads : HasBlock(u) /\ job[u].ptr = p /\ job[u].blk = b
      BY <2>1, <2>2 DEF Tidy
    <3>2. u # t
      BY <1>1, <3>1 DEF HasBlock
    <3> QED
      BY <3>1, <3>2 DEF OnlyJob, HasBlock, Format, Goto, To
  <2> QED
    BY <2>1, <2>2 DEF Tidy
<1> QED
  BY <1>5, <1>6

LEMMA TidyCollect ==
  ASSUME HeapAssumption, IInv, Tidy, NEW t \in Threads, Collect(t)
  PROVE  Tidy'
<1>0. page \in [PageNos -> Words]
  BY DEF IInv, HeapTypeOK
<1>1. \A u \in Threads : ~HasBlock(u)
  BY DEF Collect, AtSafePoint, HasBlock
<1> DEFINE Heads == {o[1] : o \in AllObjects} \cup {p \in PageNos : page[p].t = "small"}
           Live(kept, p) == {b \in 0..MaxBlocks : <<p, b>> \in kept}
           InUse(kept, s) ==
             {p \in PageNos : page[p].t = "small" /\ page[p].size = s /\ Live(kept, p) # {}}
           Before(kept, p) == {q \in InUse(kept, page[p].size) : q < p}
           TopOf(S) == IF S = {} THEN None ELSE Max(S)
<1>2. PICK kept \in SUBSET AllObjects :
        /\ page' = [p \in PageNos |->
             IF p \notin Heads THEN page[p]
             ELSE IF Live(kept, p) = {} THEN Free
             ELSE IF page[p].t = "small" THEN Small(page[p].size, TopOf(Before(kept, p)))
             ELSE page[p]]
        /\ block' = [p \in PageNos |-> [b \in 1..MaxBlocks |->
             IF <<p, b>> \in AllObjects \ kept THEN "free" ELSE block[p][b]]]
  BY DEF Collect
<1> SUFFICES ASSUME NEW p \in PageNos, page'[p].t = "small"
             PROVE  /\ page'[p].next # None => page'[p].next < p
                    /\ \A b \in 1..MaxBlocks : block'[p][b] = "alloc" =>
                         \E u \in Threads : HasBlock(u)' /\ job'[u].ptr = p /\ job'[u].blk = b
                    /\ \E b \in 1..Blocks[page'[p].size] : block'[p][b] # "free"
  BY DEF Tidy
<1>3. page[p].t = "small"
  BY <1>2 DEF Free
<1>4. /\ Live(kept, p) # {}
      /\ page'[p] = Small(page[p].size, TopOf(Before(kept, p)))
  <2>1. p \in Heads
    BY <1>3
  <2> HIDE DEF Heads, Before, Live, TopOf
  <2>2. Live(kept, p) # {}
    BY <1>2, <2>1 DEF Free
  <2> QED
    BY <1>2, <1>3, <2>1, <2>2
<1>5. page'[p].size = page[p].size /\ page'[p].next = TopOf(Before(kept, p))
  BY <1>4 DEF Small
<1>6. page'[p].next # None => page'[p].next < p
  <2>1. SUFFICES ASSUME Before(kept, p) # {} PROVE Max(Before(kept, p)) < p
    BY <1>5
  <2>2. Before(kept, p) \in SUBSET PageNos /\ \A q \in Before(kept, p) : q < p
    OBVIOUS
  <2> HIDE DEF Before
  <2> QED
    BY <2>1, <2>2, TopPage
<1>7. \A b \in 1..MaxBlocks : block'[p][b] # "alloc"
  <2>1. ASSUME NEW b \in 1..MaxBlocks PROVE block[p][b] # "alloc"
    BY <1>1, <1>3 DEF Tidy
  <2> QED
    BY <1>2, <2>1
<1>8. \E b \in 1..Blocks[page'[p].size] : block'[p][b] # "free"
  <2>1. PICK b \in 0..MaxBlocks : <<p, b>> \in kept
    BY <1>4
  <2>2. <<p, b>> \in AllObjects
    BY <2>1
  <2>3. IsBlock(page[p].size, p, b) /\ block[p][b] = "obj"
    BY <1>3, <2>2, WalkFindsWhatIs
  <2>4. b \in 1..Blocks[page[p].size] /\ b \in 1..MaxBlocks
    BY <1>3, <2>3, BlocksFit DEF IsBlock
  <2>5. block'[p][b] = block[p][b]
    <3>1. <<p, b>> \notin AllObjects \ kept
      BY <2>1
    <3> QED
      BY <1>2, <2>4, <3>1
  <2> QED
    BY <1>5, <2>3, <2>4, <2>5
<1> QED
  BY <1>6, <1>7, <1>8

LEMMA NextTidy == ASSUME HeapAssumption, IInv, Tidy, [Next]_vars PROVE Tidy'
<1>1. ASSUME NEW t \in Threads, Step(t) \/ Look(t) PROVE Tidy'
  BY <1>1, TidyQuiet, TidyGcFails, TidyHints, TidyPages, TidyGrabBlock, TidyBuild, TidyFormat, TidyCollect
     DEF Step
<1>2. CASE UNCHANGED vars
  BY <1>2 DEF vars, Tidy, HasBlock
<1> QED
  BY <1>1, <1>2 DEF Next

\* Both parts of the invariant, in every state, until a thread is misled.
THEOREM Tidiness == ASSUME HeapAssumption PROVE Spec => [](~misled => IInv /\ Tidy)
<1>1. Init => (~misled => IInv /\ Tidy)
  <2>1. Init => Tidy
    BY DEF Init, Tidy, Free
  <2> QED
    BY <2>1, InitIInv
<1>2. (~misled => IInv /\ Tidy) /\ [Next]_vars => (~misled => IInv /\ Tidy)'
  BY NextIInv, NextTidy, OnceMisled
<1> QED
  BY <1>1, <1>2, PTL DEF Spec

-----------------------------------------------------------------------------
(* heap_check() *)

\* What heap_check() says of the page at p, and of what comes after it.
CheckOf(f, p) ==
  \/ p > numPages
  \/ /\ p <= numPages
     /\ \/ page[p].t = "free" /\ f[p + 1]
        \/ /\ page[p].t = "small"
           /\ \A b \in 1..Blocks[page[p].size] : block[p][b] # "alloc"
           /\ \E b \in 1..Blocks[page[p].size] : block[p][b] # "free"
           /\ f[p + 1]
        \/ /\ page[p].t = "large" /\ page[p].n > 0 /\ p + page[p].n - 1 <= numPages
           /\ f[p + page[p].n]

\* What it says of a page of the list of size s, and how many there are before it.
ListOf(f, s, x) ==
  \/ x[2] = None
  \/ /\ x[2] # None /\ x[1] < MaxPages
     /\ page[x[2]].t = "small" /\ page[x[2]].size = s
     /\ f[<<x[1] + 1, page[x[2]].next>>]

CheckIs(f) == f = [p \in 1..2*MaxPages |-> CheckOf(f, p)]
ListIs(f, s) == f = [x \in (0..MaxPages) \X (PageNos \cup {None}) |-> ListOf(f, s, x)]

LEMMA HeapCheckIs ==
  HeapCheck <=> /\ (CHOOSE f : CheckIs(f))[1]
                /\ \A s \in Sizes : (CHOOSE f : ListIs(f, s))[<<0, list[s]>>]
  BY DEF HeapCheck, CheckIs, ListIs, CheckOf, ListOf

\* While no thread allocates, a page is free, of blocks that are all free or an object's, or
\* begins a large object that ends inside the heap.
LEMMA PagesAtRest ==
  ASSUME HeapAssumption, IInv, Tidy, \A t \in Threads : AtSafePoint(t), NEW p \in PageNos
  PROVE  /\ page[p].t \in {"free", "small", "large"}
         /\ page[p].t = "small" =>
              /\ \A b \in 1..Blocks[page[p].size] : block[p][b] # "alloc"
              /\ \E b \in 1..Blocks[page[p].size] : block[p][b] # "free"
         /\ page[p].t = "large" =>
              page[p].n > 0 /\ p + page[p].n - 1 <= numPages /\ p + page[p].n \in Nat
<1>1. \A t \in Threads : ~HasBlock(t) /\ Own(t) = {}
  BY DEF AtSafePoint, HasBlock, Own, Reserving, Complete
<1>2. page[p].t # "alloc"
  BY <1>1 DEF IInv, Layout
<1>3. page[p].t \in {"free", "small", "large"}
  BY <1>2, WordFields DEF IInv
<1>4. ASSUME page[p].t = "small"
      PROVE  /\ \A b \in 1..Blocks[page[p].size] : block[p][b] # "alloc"
             /\ \E b \in 1..Blocks[page[p].size] : block[p][b] # "free"
  BY <1>1, <1>4, BlocksFit DEF Tidy
<1>5. page[p].t = "large" =>
        page[p].n > 0 /\ p + page[p].n - 1 <= numPages /\ p + page[p].n \in Nat
  BY LargeEnds
<1> QED
  BY <1>3, <1>4, <1>5

LEMMA CheckPasses ==
  ASSUME HeapAssumption, IInv, Tidy, \A t \in Threads : AtSafePoint(t)
  PROVE  (CHOOSE f : CheckIs(f))[1]
<1> DEFINE K == 2 * MaxPages
           C == CHOOSE f : CheckIs(f)
           T == [p \in 1..K |-> TRUE]
<1>0. K \in Nat /\ numPages \in Nat /\ numPages < K /\ numPages <= MaxPages /\ MaxPages \in Nat
  BY DEF HeapAssumption, IInv, HeapTypeOK
<1>1. ASSUME NEW f, NEW p \in 1..K, \A q \in 1..K : q > p => f[q] = TRUE
      PROVE  CheckOf(f, p) = TRUE
  <2>1. CASE p > numPages
    BY <2>1 DEF CheckOf
  <2>2. CASE ~(p > numPages)
    <3>1. p \in PageNos /\ p + 1 \in 1..K /\ p + 1 > p /\ p <= numPages
      BY <1>0, <2>2 DEF PageNos
    <3>2. f[p + 1] = TRUE
      BY <1>1, <3>1
    <3>3. CASE page[p].t = "free"
      BY <3>1, <3>2, <3>3 DEF CheckOf
    <3>4. CASE page[p].t = "small"
      BY <3>1, <3>2, <3>4, PagesAtRest DEF CheckOf
    <3>5. CASE page[p].t = "large"
      <4>1. p + page[p].n \in 1..K /\ p + page[p].n > p
        BY <1>0, <3>1, <3>5, LargeEnds
      <4>2. f[p + page[p].n] = TRUE
        BY <1>1, <4>1
      <4> QED
        BY <3>1, <3>5, <4>2, PagesAtRest DEF CheckOf
    <3> QED
      BY <3>1, <3>3, <3>4, <3>5, PagesAtRest
  <2> QED
    BY <2>1, <2>2
<1>2. CheckIs(T)
  <2>1. \A p \in 1..K : CheckOf(T, p) = TRUE
    <3>1. \A q \in 1..K : T[q] = TRUE
      OBVIOUS
    <3> HIDE DEF T, K
    <3> QED
      BY <1>1, <3>1
  <2> QED
    BY <2>1 DEF CheckIs
<1>3. CheckIs(C)
  BY <1>2
<1> HIDE DEF C, T
<1>4. \A p \in 1..K : C[p] = CheckOf(C, p)
  BY <1>3 DEF CheckIs
<1> DEFINE Good == {p \in 1..K : C[p] = TRUE}
           Bad == (1..K) \ Good
<1>5. Bad = {}
  <2>1. SUFFICES ASSUME Bad # {} PROVE FALSE
    OBVIOUS
  <2>2. PICK p \in Bad : \A q \in Bad : q <= p
    <3> HIDE DEF Good
    <3>1. Bad \in SUBSET (0..K)
      BY <1>0
    <3> HIDE DEF Bad, K
    <3> QED
      BY <1>0, <2>1, <3>1, Greatest
  <2>3. \A q \in 1..K : q > p => C[q] = TRUE
    BY <2>2
  <2>4. p \in 1..K /\ p \notin Good
    OBVIOUS
  <2>5. CheckOf(C, p) = TRUE
    <3> HIDE DEF Bad, K
    <3> QED
      BY <1>1, <2>3, <2>4
  <2>6. C[p] = TRUE
    BY <1>4, <2>4, <2>5
  <2> QED
    BY <2>4, <2>6
<1>6. 1 \in 1..K
  BY <1>0
<1>7. C[1] = TRUE
  <2>1. 1 \in Good
    <3> HIDE DEF Good
    <3> QED
      BY <1>5, <1>6
  <2> QED
    BY <2>1
<1> QED
  BY <1>7 DEF C

LEMMA ListExists ==
  ASSUME HeapAssumption, IInv, NEW s PROVE \E f : ListIs(f, s)
<1> DEFINE Q == PageNos \cup {None}
           Solves(f, k) == f = [x \in ((MaxPages - k)..MaxPages) \X Q |-> ListOf(f, s, x)]
           Bad == {k \in 0..MaxPages : ~ \E f : Solves(f, k)}
<1>0. MaxPages \in Nat
  BY DEF HeapAssumption
<1>1. ASSUME NEW n \in Nat, NEW p \in Q, NEW f, NEW g,
             \A q \in Q : n < MaxPages => f[<<n + 1, q>>] = g[<<n + 1, q>>]
      PROVE  ListOf(f, s, <<n, p>>) = ListOf(g, s, <<n, p>>)
  <2>1. CASE p = None
    BY <2>1 DEF ListOf
  <2>2. CASE p # None /\ page[p].t = "small"
    <3>1. page[p].next \in Q
      BY <2>2, WordFields DEF IInv
    <3> QED
      BY <1>1, <2>2, <3>1 DEF ListOf
  <2>3. CASE p # None /\ page[p].t # "small"
    BY <2>3 DEF ListOf
  <2> QED
    BY <2>1, <2>2, <2>3
<1>2. Bad = {}
  <2>1. SUFFICES ASSUME Bad # {} PROVE FALSE
    OBVIOUS
  <2>2. PICK k \in Bad : \A i \in Bad : k <= i
    <3>1. Bad \in SUBSET Nat
      BY <1>0
    <3> HIDE DEF Bad
    <3> QED
      BY <2>1, <3>1, Least
  <2>3. k \in 0..MaxPages /\ ~ \E f : Solves(f, k)
    OBVIOUS
  <2> DEFINE lo == MaxPages - k
             D == (lo..MaxPages) \X Q
  <2>4. lo \in 0..MaxPages
    BY <1>0, <2>3
  <2>5. k # 0
    <3>1. SUFFICES ASSUME k = 0 PROVE \E f : Solves(f, k)
      BY <2>3
    <3> DEFINE g == [x \in D |-> {}]
               f == [x \in D |-> ListOf(g, s, x)]
    <3>2. \A n \in lo..MaxPages : n \in Nat /\ ~(n < MaxPages)
      BY <1>0, <3>1
    <3>3. ASSUME NEW x \in D PROVE ListOf(g, s, x) = ListOf(f, s, x)
      <4>1. PICK n \in lo..MaxPages, p \in Q : x = <<n, p>>
        OBVIOUS
      <4> HIDE DEF f, g, lo, Q
      <4> QED
        BY <1>1, <3>2, <4>1
    <3>4. Solves(f, k)
      BY <3>3
    <3> QED
      BY <3>4
  <2>6. k - 1 \in 0..MaxPages /\ ~(k <= k - 1) /\ MaxPages - (k - 1) = lo + 1
    BY <1>0, <2>3, <2>5
  <2>7. PICK g : Solves(g, k - 1)
    <3>1. k - 1 \notin Bad
      <4> HIDE DEF Bad
      <4> QED
        BY <2>2, <2>6
    <3> HIDE DEF Solves
    <3> QED
      BY <2>6, <3>1
  <2> DEFINE h == [x \in D |-> IF x[1] = lo THEN ListOf(g, s, x) ELSE g[x]]
  <2>8. ASSUME NEW x \in D PROVE h[x] = ListOf(h, s, x)
    <3>0. PICK n \in lo..MaxPages, p \in Q : x = <<n, p>>
      OBVIOUS
    <3>1. \A q \in Q : n < MaxPages => h[<<n + 1, q>>] = g[<<n + 1, q>>]
      <4>1. SUFFICES ASSUME NEW q \in Q, n < MaxPages PROVE h[<<n + 1, q>>] = g[<<n + 1, q>>]
        OBVIOUS
      <4>2. n + 1 \in lo..MaxPages /\ n + 1 # lo
        BY <1>0, <2>4, <4>1
      <4>3. <<n + 1, q>> \in D
        BY <4>2
      <4> QED
        BY <4>2, <4>3
    <3>2. n \in Nat
      BY <1>0, <2>4
    <3>3. ListOf(h, s, x) = ListOf(g, s, x)
      <4> HIDE DEF h, lo, Q
      <4> QED
        BY <1>1, <3>0, <3>1, <3>2
    <3>4. CASE n = lo
      <4>1. h[x] = ListOf(g, s, x)
        BY <3>0, <3>4
      <4> QED
        BY <3>3, <4>1
    <3>5. CASE n # lo
      <4>1. n \in (lo + 1)..MaxPages
        BY <1>0, <2>4, <3>5
      <4>2. x \in ((lo + 1)..MaxPages) \X Q
        BY <3>0, <4>1
      <4>3. g[x] = ListOf(g, s, x)
        BY <2>6, <2>7, <4>2
      <4>4. h[x] = g[x]
        BY <3>0, <3>5
      <4> QED
        BY <3>3, <4>3, <4>4
    <3> QED
      BY <3>4, <3>5
  <2>9. h = [x \in D |-> ListOf(h, s, x)]
    BY <2>8
  <2>10. Solves(h, k)
    BY <2>9
  <2> QED
    BY <2>3, <2>10
<1>3. PICK f : Solves(f, MaxPages)
  <2>1. MaxPages \in 0..MaxPages /\ MaxPages \notin Bad
    <3> HIDE DEF Bad
    <3> QED
      BY <1>0, <1>2
  <2> HIDE DEF Solves
  <2> QED
    BY <2>1
<1>4. MaxPages - MaxPages = 0
  BY <1>0
<1> QED
  BY <1>3, <1>4 DEF ListIs

\* The list of each size goes down through pages of that size, and so ends in time.
LEMMA ListPasses ==
  ASSUME HeapAssumption, IInv, Tidy, NEW s \in Sizes
  PROVE  (CHOOSE f : ListIs(f, s))[<<0, list[s]>>]
<1> DEFINE Q == PageNos \cup {None}
           R == CHOOSE f : ListIs(f, s)
           Fails(p) == \E n \in 0..(MaxPages - p) : ~R[<<n, p>>]
           Bad == {p \in PageNos : IsPage(s, p) /\ Fails(p)}
<1>0. MaxPages \in Nat /\ PageNos \subseteq Nat
  BY DEF HeapAssumption, PageNos
<1>1. ListIs(R, s)
  BY ListExists
<1> HIDE DEF R
<1>2. \A n \in 0..MaxPages, p \in Q : R[<<n, p>>] = ListOf(R, s, <<n, p>>)
  BY <1>1 DEF ListIs
<1>3. \A n \in 0..MaxPages : R[<<n, None>>]
  BY <1>2 DEF ListOf
<1>4. Bad = {}
  <2>1. SUFFICES ASSUME Bad # {} PROVE FALSE
    OBVIOUS
  <2>2. PICK p \in Bad : \A q \in Bad : p <= q
    <3>1. Bad \in SUBSET Nat
      BY <1>0
    <3> HIDE DEF Bad
    <3> QED
      BY <2>1, <3>1, Least
  <2>3. p \in PageNos /\ IsPage(s, p) /\ p \in Nat /\ p >= 1 /\ p <= MaxPages
    BY <1>0 DEF PageNos
  <2>4. PICK n \in 0..(MaxPages - p) : ~R[<<n, p>>]
    OBVIOUS
  <2>5. n \in 0..MaxPages /\ n + 1 \in 0..MaxPages /\ n < MaxPages
    BY <1>0, <2>3
  <2>6. ~ListOf(R, s, <<n, p>>)
    BY <1>2, <2>3, <2>4, <2>5
  <2>7. page[p].t = "small" /\ page[p].size = s
    BY <2>3 DEF IsPage
  <2>8. ~R[<<n + 1, page[p].next>>]
    BY <2>5, <2>6, <2>7 DEF ListOf
  <2>9. page[p].next # None
    BY <1>3, <2>5, <2>8
  <2>10. IsPage(s, page[p].next) /\ page[p].next < p
    BY <2>3, <2>7, <2>9 DEF Tidy, IInv, ListsOK
  <2> DEFINE q == page[p].next
  <2>11. q \in PageNos /\ q \in Nat /\ n + 1 \in 0..(MaxPages - q)
    <3>1. q \in PageNos
      BY <2>10 DEF IsPage
    <3>2. q \in Nat /\ q < p
      BY <1>0, <2>10, <3>1
    <3> HIDE DEF q
    <3> QED
      BY <1>0, <2>3, <2>4, <3>1, <3>2
  <2>12. q \in Bad
    BY <2>8, <2>10, <2>11
  <2>13. ~(p <= q)
    BY <2>3, <2>10, <2>11
  <2> HIDE DEF Bad, q
  <2> QED
    BY <2>2, <2>12, <2>13
<1>5. CASE list[s] = None
  <2>1. 0 \in 0..MaxPages
    BY <1>0
  <2> QED
    BY <1>3, <1>5, <2>1 DEF R
<1>6. CASE list[s] # None
  <2>1. IsPage(s, list[s])
    BY <1>6 DEF IInv, ListsOK
  <2>2. list[s] \in PageNos /\ list[s] <= MaxPages /\ 0 \in 0..(MaxPages - list[s])
    BY <1>0, <2>1 DEF IsPage, PageNos
  <2> QED
    BY <1>4, <2>1, <2>2 DEF R
<1> QED
  BY <1>5, <1>6

LEMMA ConsistentByIInv == ASSUME HeapAssumption, IInv, Tidy PROVE HeapConsistent
<1>1. HeapTypeOK
  BY DEF IInv
<1>2. ASSUME NEW s \in Sizes
      PROVE  /\ list[s] # None => page[list[s]].t = "small" /\ page[list[s]].size = s
             /\ hint[s] # None =>
                  /\ page[hint[s][1]].t = "small" /\ page[hint[s][1]].size = s
                  /\ hint[s][2] \in 1..Blocks[s]
  BY DEF IInv, ListsOK, IsBlock, IsPage
<1>3. ASSUME \A t \in Threads : AtSafePoint(t) PROVE HeapCheck
  BY <1>3, HeapCheckIs, CheckPasses, ListPasses
<1> QED
  BY <1>1, <1>2, <1>3 DEF HeapConsistent

\* Hints and lists lead to pages of their size, though every thread writes them without a
\* lock, and whenever no thread is inside an allocation heap_check() of heap.c passes: for
\* any number of threads, pages and sizes, until a thread is misled.
THEOREM HeapStaysConsistent ==
  ASSUME HeapAssumption PROVE Spec => []HeapConsistent
<1>1. (~misled => IInv /\ Tidy) => HeapConsistent
  BY ConsistentByIInv DEF HeapConsistent
<1> QED
  BY <1>1, Tidiness, PTL
=============================================================================
