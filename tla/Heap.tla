-------------------------------- MODULE Heap --------------------------------
(***************************************************************************)
(* Allocation from the heap of libjc/heap.c and libjc/new.c: pages that    *)
(* are free, split into blocks of one size, the first of a large object,   *)
(* or reserved; for each block size a hint at the next block to try and a  *)
(* list of pages to use first.  There is no lock: threads claim pages and  *)
(* blocks by compare-and-swap, and everything else (hints, next_page) is   *)
(* read and written at any moment.  A collection is one step, taken when   *)
(* no thread is in the middle of an allocation (module World).             *)
(*                                                                         *)
(* The pages of a large object after its first have no descriptor: what is *)
(* there is the object's data, zeroed at first, and zero reads as "free".  *)
(***************************************************************************)
EXTENDS Naturals, FiniteSets, Functions, FiniteSetsExt

CONSTANTS
  Threads, None,
  MaxPages,    \* heap->max_pages
  InitPages,   \* _JC_HEAP_INIT_PAGES, how many pages are added at a time
  Reserved,    \* _JC_HEAP_RESERVED_PAGES
  MaxCycles,   \* _JC_HEAP_MAX_GC_CYCLES
  Sizes,       \* the block sizes
  Blocks,      \* num_blocks of each
  MaxBlocks,   \* the most of them
  LargeSizes,  \* the lengths in pages of the large objects asked for
  MaxHeld      \* bound on the objects a thread keeps

ASSUME HeapAssumption ==
  /\ IsFiniteSet(Threads) /\ None \notin Threads
  /\ MaxPages \in Nat \ {0} /\ InitPages \in Nat \ {0}
  /\ Reserved \in Nat /\ MaxCycles \in Nat \ {0} /\ MaxHeld \in Nat
  /\ None \notin Sizes /\ Blocks \in [Sizes -> 2..MaxBlocks] /\ MaxBlocks \in Nat
  /\ LargeSizes \subseteq Nat \ {0}

VARIABLES
  page,     \* the descriptor word of each page
  block,    \* the first word of each block: "free", "alloc" or an object's
  hint,     \* heap->sizes[].hint
  list,     \* heap->sizes[].pages
  nextPage, \* heap->next_page
  numPages, \* heap->num_pages
  oom,      \* env->out_of_memory
  pc,
  job,      \* the allocation in progress
  held,     \* the objects that the program of each thread can reach
  misled    \* a history variable, which no step reads: whether some thread has
            \* gone on by a length it read in a reservation not yet complete

vars == <<page, block, hint, list, nextPage, numPages, oom, pc, job, held, misled>>
pages == <<page, block, numPages>>
lists == <<hint, list, nextPage>>

PageNos == 1..MaxPages

Free == [t |-> "free"]
Small(s, next) == [t |-> "small", size |-> s, next |-> next]
Large(n) == [t |-> "large", n |-> n]
Alloc(n) == [t |-> "alloc", n |-> n]

\* An object is known by its page and its block in it, 0 for a large one.
Objects == PageNos \X (0..MaxBlocks)

NoJob == [size |-> None, n |-> 0, res |-> Reserved, ptr |-> 0, at |-> 0, j |-> 0, blk |-> 0,
          cycles |-> 0]

-----------------------------------------------------------------------------
(* The words of the heap as a walk over it reads them. *)

\* heap_sweep_next(), called until it returns NULL: the objects from page p on.
SweepFrom ==
  LET Rest[p \in 1..2*MaxPages] ==
        IF p > numPages THEN {}
        ELSE LET w == page[p] IN
             CASE w.t = "small" ->
                    {<<p, b>> : b \in {x \in 1..Blocks[w.size] : block[p][x] = "obj"}}
                      \cup Rest[p + 1]
               [] w.t = "large" -> {<<p, 0>>} \cup Rest[p + w.n]
               [] OTHER -> Rest[p + 1]
  IN Rest

AllObjects == SweepFrom[1]

\* heap_check(): what must be true of the heap while the world is stopped.
\* A list that ends is one on which each page is listed once.
HeapCheck ==
  LET Listed(s) ==
        LET Rest[x \in (0..MaxPages) \X (PageNos \cup {None})] ==
              \/ x[2] = None
              \/ /\ x[2] # None /\ x[1] < MaxPages
                 /\ page[x[2]].t = "small" /\ page[x[2]].size = s
                 /\ Rest[<<x[1] + 1, page[x[2]].next>>]
        IN Rest[<<0, list[s]>>]
      Check[p \in 1..2*MaxPages] ==
        \/ p > numPages
        \/ /\ p <= numPages
           /\ \/ page[p].t = "free" /\ Check[p + 1]
              \/ /\ page[p].t = "small"
                 /\ \A b \in 1..Blocks[page[p].size] : block[p][b] # "alloc"
                 /\ \E b \in 1..Blocks[page[p].size] : block[p][b] # "free"
                 /\ Check[p + 1]
              \/ /\ page[p].t = "large" /\ page[p].n > 0 /\ p + page[p].n - 1 <= numPages
                 /\ Check[p + page[p].n]
  IN Check[1] /\ \A s \in Sizes : Listed(s)

-----------------------------------------------------------------------------
(* Actions *)

Init ==
  /\ page = [p \in PageNos |-> Free]
  /\ block = [p \in PageNos |-> [b \in 1..MaxBlocks |-> "free"]]
  /\ hint = [s \in Sizes |-> None]
  /\ list = [s \in Sizes |-> None]
  /\ nextPage = 1
  /\ numPages = 0
  /\ oom = [t \in Threads |-> FALSE]
  /\ pc = [t \in Threads |-> "idle"]
  /\ job = [t \in Threads |-> NoJob]
  /\ held = [t \in Threads |-> {}]
  /\ misled = FALSE

To(t, to) == pc' = [pc EXCEPT ![t] = to]
Goto(t, from, to) == pc[t] = from /\ To(t, to)

\* new_object(), new_array(): the size asks for a block or for whole pages.
New(t) ==
  /\ Cardinality(held[t]) < MaxHeld
  /\ \/ /\ Goto(t, "idle", "hint")
        /\ \E s \in Sizes : job' = [job EXCEPT ![t] = [NoJob EXCEPT !.size = s, !.n = 1]]
     \/ /\ Goto(t, "idle", "try")
        /\ \E n \in LargeSizes : job' = [job EXCEPT ![t] = [NoJob EXCEPT !.n = n]]
  /\ UNCHANGED <<pages, lists, oom, held>>

\* The program loses its last reference to an object.
Drop(t) ==
  /\ pc[t] = "idle"
  /\ \E o \in held[t] : held' = [held EXCEPT ![t] = @ \ {o}]
  /\ UNCHANGED <<pages, lists, oom, pc, job>>

\* alloc_small_block(): the hint is read, and used if there is one.
ReadHint(t) ==
  LET h == hint[job[t].size] IN
  /\ pc[t] = "hint"
  /\ IF h = None THEN To(t, "list") /\ UNCHANGED job
     ELSE To(t, "grab") /\ job' = [job EXCEPT ![t].ptr = h[1], ![t].blk = h[2]]
  /\ UNCHANGED <<pages, lists, oom, held>>

\* Mutant: the result of the compare-and-swap is not looked at.
GrabBlockBlindly(t) ==
  /\ Goto(t, "grab", "mine")
  /\ block' = [block EXCEPT ![job[t].ptr][job[t].blk] = "alloc"]
  /\ UNCHANGED <<page, numPages, lists, oom, job, held>>

GrabBlock(t) ==
  LET p == job[t].ptr
      b == job[t].blk IN
  /\ pc[t] = "grab"
  /\ IF block[p][b] = "free"
     THEN To(t, "mine") /\ block' = [block EXCEPT ![p][b] = "alloc"]
     ELSE To(t, "next") /\ UNCHANGED block
  /\ UNCHANGED <<page, numPages, lists, oom, job, held>>

\* Mutant: off by one, the hint may point past the last block.
HintPastEnd(t) ==
  /\ Goto(t, "mine", "build") \/ Goto(t, "next", "hint")
  /\ hint' = [hint EXCEPT ![job[t].size] =
       IF job[t].blk < MaxBlocks + 1 THEN <<job[t].ptr, job[t].blk + 1>> ELSE None]
  /\ job' = IF pc[t] = "next" THEN [job EXCEPT ![t].ptr = 0, ![t].blk = 0] ELSE job
  /\ UNCHANGED <<pages, list, nextPage, oom, held>>

\* The hint moves to the block after the one tried, whatever it is by now.
StoreHint(t) ==
  /\ Goto(t, "mine", "build") \/ Goto(t, "next", "hint")
  /\ LET s == job[t].size IN
     hint' = [hint EXCEPT ![s] = IF job[t].blk < Blocks[s]
                                 THEN <<job[t].ptr, job[t].blk + 1>> ELSE None]
  /\ job' = IF pc[t] = "next" THEN [job EXCEPT ![t].ptr = 0, ![t].blk = 0] ELSE job
  /\ UNCHANGED <<pages, list, nextPage, oom, held>>

ReadList(t) ==
  LET p == list[job[t].size] IN
  /\ pc[t] = "list"
  /\ IF p = None THEN To(t, "try") /\ UNCHANGED job
     ELSE To(t, "pop") /\ job' = [job EXCEPT ![t].ptr = p]
  /\ UNCHANGED <<pages, lists, oom, held>>

PopPage(t) ==
  LET s == job[t].size
      p == job[t].ptr IN
  /\ pc[t] = "pop"
  /\ IF list[s] = p
     THEN To(t, "popped") /\ list' = [list EXCEPT ![s] = page[p].next] /\ UNCHANGED job
     ELSE To(t, "hint") /\ job' = [job EXCEPT ![t].ptr = 0] /\ UNCHANGED list
  /\ UNCHANGED <<pages, hint, nextPage, oom, held>>

HintAtPage(t) ==
  /\ Goto(t, "popped", "hint")
  /\ hint' = [hint EXCEPT ![job[t].size] = <<job[t].ptr, 1>>]
  /\ job' = [job EXCEPT ![t].ptr = 0]
  /\ UNCHANGED <<pages, list, nextPage, oom, held>>

\* alloc_pages(): from the last page allocated on.
TryAgain(t) ==
  /\ Goto(t, "try", "avail")
  /\ job' = [job EXCEPT ![t].at = nextPage, ![t].res = IF oom[t] THEN 0 ELSE @]
  /\ UNCHANGED <<pages, lists, oom, held>>

TooFar(t) == job[t].at + job[t].n - 1 + job[t].res > numPages

Avail(t) ==
  /\ Goto(t, "avail", "pages")
  /\ ~TooFar(t)
  /\ job' = [job EXCEPT ![t].ptr = job[t].at, ![t].j = 0]
  /\ UNCHANGED <<pages, lists, oom, held>>

\* The first time through the heap, its pages are initialized bit by bit.
Extend(t) ==
  /\ pc[t] = "avail" /\ TooFar(t) /\ numPages # MaxPages
  /\ numPages' = Min({numPages + InitPages, MaxPages})
  /\ page' = [p \in PageNos |-> IF p > numPages /\ p <= numPages' THEN Free ELSE page[p]]
  /\ UNCHANGED <<block, lists, oom, pc, job, held>>

OutOfMemory(t) ==
  /\ TooFar(t) /\ numPages = MaxPages /\ job[t].cycles = MaxCycles
  /\ Goto(t, "avail", "idle")
  /\ oom' = [oom EXCEPT ![t] = TRUE]
  /\ job' = [job EXCEPT ![t] = NoJob]
  /\ UNCHANGED <<pages, lists, held>>

AskGc(t) ==
  /\ TooFar(t) /\ numPages = MaxPages /\ job[t].cycles < MaxCycles
  /\ Goto(t, "avail", "gc")
  /\ UNCHANGED <<pages, lists, oom, job, held>>

\* A thread that may be stopped: outside an allocation, or in its call of gc().
AtSafePoint(t) == pc[t] \in {"idle", "gc"}

\* gc(), as far as the heap goes: what nobody can reach is freed, or some of it
\* is kept because something on a stack looks like a reference to it.  Pages
\* with no object become free, the others are listed, all hints are forgotten.
\* The collection serves everyone who waits for one.
Collect(t) ==
  /\ pc[t] = "gc" /\ \A u \in Threads : AtSafePoint(u)
  /\ \E kept \in SUBSET AllObjects :
       LET Live(p) == {b \in 0..MaxBlocks : <<p, b>> \in kept}
           Heads == {o[1] : o \in AllObjects} \cup {p \in PageNos : page[p].t = "small"}
           InUse(s) == {p \in PageNos : page[p].t = "small" /\ page[p].size = s /\ Live(p) # {}}
           Before(p) == {q \in InUse(page[p].size) : q < p}
           TopOf(S) == IF S = {} THEN None ELSE Max(S)
       IN
       /\ UNION Range(held) \subseteq kept
       /\ page' = [p \in PageNos |->
            IF p \notin Heads THEN page[p]
            ELSE IF Live(p) = {} THEN Free
            ELSE IF page[p].t = "small" THEN Small(page[p].size, TopOf(Before(p)))
            ELSE page[p]]
       /\ block' = [p \in PageNos |-> [b \in 1..MaxBlocks |->
            IF <<p, b>> \in AllObjects \ kept THEN "free" ELSE block[p][b]]]
       /\ list' = [s \in Sizes |-> TopOf(InUse(s))]
  /\ hint' = [s \in Sizes |-> None]
  /\ nextPage' = 1
  /\ oom' = [u \in Threads |-> FALSE]
  /\ pc' = [u \in Threads |-> IF pc[u] = "gc" THEN "try" ELSE pc[u]]
  /\ job' = [u \in Threads |->
       IF pc[u] = "gc" THEN [job[u] EXCEPT !.cycles = @ + 1, !.at = 0] ELSE job[u]]
  /\ UNCHANGED <<numPages, held>>

\* gc() fails: while the VM is being initialized; or later, for want of memory, before
\* or after it has reset hints and lists, and by then it counts as a collection, and
\* whoever waits for one does without.
GcFails(t) ==
  LET Waiting == {u \in Threads \ {t} : pc[u] = "gc"} IN
  /\ pc[t] = "gc"
  /\ \/ /\ Goto(t, "gc", "idle")
        /\ job' = [job EXCEPT ![t] = NoJob]
        /\ UNCHANGED <<hint, list>>
     \/ /\ \A u \in Threads : AtSafePoint(u)
        /\ \/ UNCHANGED <<hint, list>>
           \/ hint' = [s \in Sizes |-> None] /\ list' = [s \in Sizes |-> None]
        /\ pc' = [u \in Threads |->
             IF u = t THEN "idle" ELSE IF u \in Waiting THEN "try" ELSE pc[u]]
        /\ job' = [u \in Threads |->
             IF u = t THEN NoJob
             ELSE IF u \in Waiting THEN [job[u] EXCEPT !.cycles = @ + 1, !.at = 0] ELSE job[u]]
  /\ UNCHANGED <<pages, nextPage, oom, held>>

\* The pages are reserved one after the other.
GrabPage(t) ==
  LET p == job[t].ptr + job[t].j IN
  /\ pc[t] = "pages"
  /\ IF page[p] = Free
     THEN /\ page' = [page EXCEPT ![p] = Alloc(job[t].n - job[t].j)]
          /\ job' = [job EXCEPT ![t].j = @ + 1]
          /\ To(t, IF job[t].j + 1 = job[t].n THEN "got" ELSE "pages")
     ELSE To(t, "look") /\ UNCHANGED <<page, job>>
  /\ UNCHANGED <<block, numPages, lists, oom, held>>

\* A page that some thread is still reserving the rest for.
Undecided(p) ==
  \E u \in Threads : pc[u] \in {"pages", "look", "undo"} /\ job[u].j > 0
                       /\ p \in job[u].ptr..(job[u].ptr + job[u].j - 1)

\* The descriptor is read once more, and says where to go on, even if that is the
\* length of a reservation that its thread is about to undo.
Look(t) ==
  LET p == job[t].ptr + job[t].j
      w == page[p]
      skip == CASE w.t = "free" -> 0
                [] w.t = "small" -> job[t].j + 1
                [] OTHER -> job[t].j + w.n
  IN
  /\ Goto(t, "look", "undo")
  /\ job' = [job EXCEPT ![t].at = @ + skip]
  /\ misled' = (misled \/ Undecided(p))
  /\ UNCHANGED <<pages, lists, oom, held>>

\* Mutant: off by one, "while (j >= 0)".
UndoOneMore(t) ==
  /\ Goto(t, "undo", "avail")
  /\ page' = [p \in PageNos |->
       IF p >= job[t].ptr /\ p <= job[t].ptr + job[t].j THEN Free ELSE page[p]]
  /\ job' = [job EXCEPT ![t].ptr = 0, ![t].j = 0]
  /\ UNCHANGED <<block, numPages, lists, oom, held>>

Undo(t) ==
  LET p == job[t].ptr + job[t].j - 1 IN
  /\ pc[t] = "undo"
  /\ IF job[t].j > 0
     THEN /\ UNCHANGED pc
          /\ page' = [page EXCEPT ![p] = Free]
          /\ job' = [job EXCEPT ![t].j = @ - 1]
     ELSE To(t, "avail") /\ job' = [job EXCEPT ![t].ptr = 0] /\ UNCHANGED page
  /\ UNCHANGED <<block, numPages, lists, oom, held>>

StoreNextPage(t) ==
  /\ Goto(t, "got", IF job[t].size = None THEN "build" ELSE "format")
  /\ nextPage' = job[t].ptr + job[t].n
  /\ job' = [job EXCEPT ![t].at = 0, ![t].cycles = 0, ![t].res = Reserved]
  /\ UNCHANGED <<pages, hint, list, oom, held>>

\* A new page of blocks, the first of them taken.
Format(t) ==
  LET p == job[t].ptr IN
  /\ Goto(t, "format", "hinted")
  /\ block' = [block EXCEPT ![p] = [b \in 1..MaxBlocks |-> IF b = 1 THEN "alloc" ELSE "free"]]
  /\ page' = [page EXCEPT ![p] = Small(job[t].size, None)]
  /\ job' = [job EXCEPT ![t].blk = 1]
  /\ UNCHANGED <<numPages, lists, oom, held>>

HintAtSecond(t) ==
  /\ Goto(t, "hinted", "build")
  /\ hint' = [hint EXCEPT ![job[t].size] = <<job[t].ptr, 2>>]
  /\ UNCHANGED <<pages, list, nextPage, oom, job, held>>

\* initialize_object(): the first word of the block last.  A large object's
\* memory is zeroed, then its first page is marked.
Build(t) ==
  LET p == job[t].ptr
      b == job[t].blk IN
  \/ /\ job[t].size # None
     /\ Goto(t, "build", "idle")
     /\ block' = [block EXCEPT ![p][b] = "obj"]
     /\ held' = [held EXCEPT ![t] = @ \cup {<<p, b>>}]
     /\ job' = [job EXCEPT ![t] = NoJob]
     /\ UNCHANGED <<page, numPages, lists, oom>>
  \/ /\ job[t].size = None
     /\ Goto(t, "build", "mark")
     /\ page' = [q \in PageNos |-> IF q > p /\ q < p + job[t].n THEN Free ELSE page[q]]
     /\ UNCHANGED <<block, numPages, lists, oom, job, held>>

MarkLarge(t) ==
  /\ Goto(t, "mark", "idle")
  /\ page' = [page EXCEPT ![job[t].ptr] = Large(job[t].n)]
  /\ held' = [held EXCEPT ![t] = @ \cup {<<job[t].ptr, 0>>}]
  /\ job' = [job EXCEPT ![t] = NoJob]
  /\ UNCHANGED <<block, numPages, lists, oom>>

Step(t) ==
  \/ New(t) \/ Drop(t)
  \/ ReadHint(t) \/ GrabBlock(t) \/ StoreHint(t)
  \/ ReadList(t) \/ PopPage(t) \/ HintAtPage(t)
  \/ TryAgain(t) \/ Avail(t) \/ Extend(t) \/ OutOfMemory(t)
  \/ AskGc(t) \/ Collect(t) \/ GcFails(t)
  \/ GrabPage(t) \/ Undo(t) \/ StoreNextPage(t)
  \/ Format(t) \/ HintAtSecond(t) \/ Build(t) \/ MarkLarge(t)

Next == \E t \in Threads : (Step(t) /\ UNCHANGED misled) \/ Look(t)

Spec == Init /\ [][Next]_vars

-----------------------------------------------------------------------------
(* Properties *)

Hints == {None} \cup (PageNos \X (1..MaxBlocks))
Words == {Free} \cup {Large(n) : n \in LargeSizes}
           \cup {Alloc(n) : n \in UNION {1..m : m \in LargeSizes \cup {1}}}
           \cup {Small(s, q) : s \in Sizes, q \in PageNos \cup {None}}

\* The values of the variables.
HeapTypeOK ==
  /\ page \in [PageNos -> Words]
  /\ block \in [PageNos -> [1..MaxBlocks -> {"free", "alloc", "obj"}]]
  /\ hint \in [Sizes -> Hints]
  /\ list \in [Sizes -> PageNos \cup {None}]
  /\ nextPage \in 1..(MaxPages + 1) /\ numPages \in 0..MaxPages
  /\ oom \in [Threads -> BOOLEAN]
  /\ held \in [Threads -> SUBSET Objects]

\* The pages that a thread's allocation in progress has reserved, and whether those are
\* all it wants.
Reserving(t) == pc[t] \in {"pages", "look", "undo"}
Complete(t) ==
  pc[t] \in {"got", "format"} \/ (pc[t] \in {"build", "mark"} /\ job[t].size = None)
Own(t) ==
  IF Reserving(t) \/ Complete(t) THEN job[t].ptr..(job[t].ptr + job[t].j - 1) ELSE {}

\* Whether it has a block.
HasBlock(t) == pc[t] \in {"mine", "build", "hinted"} /\ job[t].size # None

\* The blocks, <<p, b>>, and whole pages, <<p, 0>>, that a thread's objects and
\* its allocation in progress take up.
PagesOf(o) == {<<p, 0>> : p \in o[1]..(o[1] + page[o[1]].n - 1)}
Claims(t) ==
  (UNION {IF o[2] = 0 THEN PagesOf(o) ELSE {o} : o \in held[t]})
    \cup {<<p, 0>> : p \in Own(t)}
    \cup (IF HasBlock(t) THEN {<<job[t].ptr, job[t].blk>>} ELSE {})

\* No two threads have memory that overlaps.
Apart ==
  \A t, u \in Threads : t # u =>
    \A x \in Claims(t), y \in Claims(u) :
      x[1] # y[1] \/ (x[2] # y[2] /\ x[2] # 0 /\ y[2] # 0)

\* Threads that race for pages and blocks without a lock are given memory that is
\* apart, but for one race: until a thread looks at a reservation in progress.
MemoryApart == ~misled => Apart

\* Every object that a program can reach is found by a walk over the heap, at any
\* moment: the descriptors and first words lead to it.  The same race excepted.
WalkFindsObjects == ~misled => \A t \in Threads : held[t] \subseteq AllObjects

\* Hints and "use first" lists lead only to pages of their size, as
\* alloc_small_block() asserts, at any moment and not just when they are read; and
\* whenever the world can be stopped, the heap passes heap_check().  The same race
\* excepted.
HeapConsistent == ~misled =>
  /\ HeapTypeOK
  /\ \A s \in Sizes :
       /\ list[s] # None => page[list[s]].t = "small" /\ page[list[s]].size = s
       /\ hint[s] # None =>
            /\ page[hint[s][1]].t = "small" /\ page[hint[s][1]].size = s
            /\ hint[s][2] \in 1..Blocks[s]
  /\ (\A t \in Threads : AtSafePoint(t)) => HeapCheck

-----------------------------------------------------------------------------
(* The inductive invariant of the proofs *)

\* A page of blocks of size s, and one of its blocks.
IsPage(s, p) == p \in PageNos /\ page[p].t = "small" /\ page[p].size = s
IsBlock(s, p, b) == IsPage(s, p) /\ b \in 1..Blocks[s]

\* The pages that the descriptor of a page speaks for.
Extent(p) ==
  IF page[p].t = "large" THEN p..(p + page[p].n - 1)
  ELSE IF page[p].t = "small" THEN {p} ELSE {}

\* A page that comes after all of something, which a thread that goes through the heap
\* can therefore begin with: it is not in the middle of a large object.
AfterPage(x) ==
  \E p \in PageNos :
    \/ page[p].t = "small" /\ x = p + 1
    \/ page[p].t = "large" /\ x = p + page[p].n
AfterJob(x) == \E t \in Threads : Complete(t) /\ x = job[t].ptr + job[t].n
IsEnd(x) == x = 1 \/ AfterPage(x) \/ AfterJob(x)

Places == {"idle", "hint", "grab", "mine", "next", "list", "pop", "popped", "try", "avail", "gc",
           "pages", "look", "undo", "got", "format", "hinted", "build", "mark"}
Jobs == [size : Sizes \cup {None}, n : Nat, res : Nat, ptr : Nat, at : Nat, j : Nat, blk : Nat,
         cycles : Nat]
JobTypeOK == job \in [Threads -> Jobs] /\ pc \in [Threads -> Places]

\* What an allocation for whole pages has in its hands at each place.
PagesOK(t) ==
  /\ pc[t] # "idle" => IF job[t].size = None THEN job[t].n \in LargeSizes ELSE job[t].n = 1
  /\ pc[t] \in {"avail", "undo"} => IsEnd(job[t].at)
  /\ pc[t] \in {"pages", "look"} => IsEnd(job[t].ptr) /\ job[t].at = job[t].ptr
  /\ Reserving(t) => job[t].j < job[t].n
  /\ Complete(t) => job[t].j = job[t].n
  /\ Reserving(t) \/ Complete(t) => job[t].ptr >= 1 /\ job[t].ptr + job[t].n - 1 <= numPages
  /\ pc[t] # "mark" => \A p \in Own(t) : page[p] = Alloc(job[t].ptr + job[t].n - p)
  /\ pc[t] = "mark" =>
       /\ page[job[t].ptr] = Alloc(job[t].n)
       /\ \A p \in Own(t) : p # job[t].ptr => page[p] = Free

\* What an allocation for a block has.
BlocksOK(t) ==
  LET s == job[t].size
      p == job[t].ptr IN
  /\ pc[t] \in {"hint", "list", "format", "hinted", "mine"} => s # None
  /\ pc[t] = "mark" => s = None
  /\ pc[t] \in {"pop", "popped"} => IsPage(s, p)
  /\ pc[t] \in {"grab", "next"} \/ HasBlock(t) => IsBlock(s, p, job[t].blk)
  /\ HasBlock(t) => block[p][job[t].blk] = "alloc"

\* Hints, lists and next_page lead where they should.
ListsOK ==
  /\ \A s \in Sizes :
       /\ list[s] # None => IsPage(s, list[s])
       /\ hint[s] # None => IsBlock(s, hint[s][1], hint[s][2])
  /\ \A p \in PageNos :
       page[p].t = "small" /\ page[p].next # None => IsPage(page[p].size, page[p].next)
  /\ IsEnd(nextPage)

\* What descriptors speak for, and what threads have reserved, is apart.
Layout ==
  /\ \A p, q \in PageNos : p # q => Extent(p) \cap Extent(q) = {}
  /\ \A p \in PageNos, t \in Threads : Extent(p) \cap Own(t) = {}
  /\ \A t, u \in Threads : t # u => Own(t) \cap Own(u) = {}
  /\ \A p \in PageNos : page[p].t = "alloc" => \E t \in Threads : p \in Own(t)
  /\ \A p \in PageNos : Extent(p) \subseteq 1..numPages

\* Threads have objects that are there, each its own.
ObjectsOK ==
  /\ \A t \in Threads : \A o \in held[t] :
       IF o[2] = 0 THEN page[o[1]].t = "large"
       ELSE IsBlock(page[o[1]].size, o[1], o[2]) /\ block[o[1]][o[2]] = "obj"
  /\ \A t, u \in Threads : t # u => held[t] \cap held[u] = {}
  /\ \A t, u \in Threads : t # u /\ HasBlock(t) /\ HasBlock(u) =>
       <<job[t].ptr, job[t].blk>> # <<job[u].ptr, job[u].blk>>

\* The inductive invariant, as long as nobody is misled: pages and blocks are laid out
\* without overlap, and what each place in alloc_pages() and alloc_small_block() holds
\* in its local variables fits.
IInv ==
  /\ HeapTypeOK
  /\ JobTypeOK
  /\ \A t \in Threads : PagesOK(t) /\ BlocksOK(t)
  /\ ListsOK
  /\ Layout
  /\ ObjectsOK

\* What the allocations leave of a page of blocks, next to that: the lists of a collection
\* go down, and so end; a block that is neither free nor an object's is being filled by
\* the thread that took it; and no page of blocks is without any that is taken.
Tidy ==
  \A p \in PageNos : page[p].t = "small" =>
    /\ page[p].next # None => page[p].next < p
    /\ \A b \in 1..MaxBlocks : block[p][b] = "alloc" =>
         \E t \in Threads : HasBlock(t) /\ job[t].ptr = p /\ job[t].blk = b
    /\ \E b \in 1..Blocks[page[p].size] : block[p][b] # "free"
=============================================================================
