-------------------------------- MODULE Mem --------------------------------
(***************************************************************************)
(* The memory pools of Argobots (mem/malloc.c, abti_mem.h): the blocks of  *)
(* tasklets, which come from pages that belong to an ES, and the stacks of *)
(* ULTs, which come from stack pages.                                      *)
(*                                                                         *)
(* An ES takes blocks from the free list p_head of its pages without any   *)
(* lock; another ES that frees a block leaves it on the second list of the *)
(* page, p_free, and then counts it.  A page without used blocks is        *)
(* unmapped when its ES ends; any other goes to a global list, from which  *)
(* an ES that needs one adopts it.  A stack that is freed goes to the list *)
(* of the ES that frees it, or to a global list if that one is full.       *)
(*                                                                         *)
(* Every ES may allocate, free what any ES has allocated, end and start    *)
(* again.  A loop around a compare-and-swap is one step: an attempt that   *)
(* fails changes nothing that another ES reads.                            *)
(***************************************************************************)
EXTENDS Integers, Sequences, FiniteSets, SequencesExt

CONSTANTS
  MemXstream,  \* the execution streams
  NoXstream,   \* a NULL ES pointer
  Page,        \* the addresses at which a page of blocks can be mapped
  NoPage,      \* a NULL page pointer
  NumBlocks,   \* num_total_blks of a page
  Word,        \* the counters of a page are unsigned integers modulo Word
  StackPage,   \* the addresses at which a page of stacks can be mapped
  NumStacks,   \* the stacks of a stack page
  MaxStacks,   \* mem_max_stacks
  HeaderSize,  \* mem_sh_size
  ActualSize,  \* the size of a stack without its header
  Budgets      \* what the program does: allocations of blocks, of stacks, ends of ESs

ASSUME MemAssumption ==
  /\ NoXstream \notin MemXstream
  /\ NoPage \notin Page
  /\ NumBlocks \in Nat \ {0}
  /\ IsFiniteSet(MemXstream)
  /\ Word \in Nat /\ Word > NumBlocks + Cardinality(MemXstream)
  /\ NumStacks \in Nat \ {0}
  /\ MaxStacks \in Nat
  /\ HeaderSize \in Nat \ {0} /\ ActualSize \in Nat \ {0}
  /\ Budgets \subseteq [{"tasks", "threads", "ends"} -> Nat]

VARIABLES
  head,          \* p_head of every page, as the blocks linked in it
  free,          \* p_free
  numEmpty,      \* num_empty_blks
  numRemote,     \* num_remote_free
  owner,         \* p_owner
  pages,         \* p_mem_task_head of every ES: its pages, in the order of p_next
  globalPages,   \* gp_ABTI_global->p_mem_task
  used,          \* the blocks in use
  stacks,        \* p_mem_stack of every ES
  numStacks,     \* num_stacks of every ES
  globalStacks,  \* gp_ABTI_global->p_mem_stack
  usedStacks,    \* the stacks in use
  firstPos,      \* of every mapped stack page: the position of its headers
  spId,          \* g_sp_id
  alive,         \* the ESs that run
  mpc,            \* where in an operation every ES is
  cur,           \* the page it looks at
  blk,           \* the block it is freeing remotely
  taken,         \* the remotely freed blocks it is moving to num_empty_blks
  back,          \* where it goes on after that
  kept,          \* the pages an ES that ends hands to the global list
  budget         \* what the program may still do

pageVars == <<head, free, numEmpty, numRemote, owner>>
taskVars == <<pageVars, pages, globalPages, used>>
stackVars == <<stacks, numStacks, globalStacks, usedStacks, firstPos, spId>>
opVars == <<alive, mpc, cur, blk, taken, back, kept>>
memVars == <<taskVars, stackVars, opVars, budget>>

Block == Page \X (1 .. NumBlocks)
Stack == StackPage \X (1 .. NumStacks)
NoBlock == <<NoPage, 0>>
PageOf(b) == b[1]
Mapped == ToSet(globalPages)
            \cup UNION {ToSet(pages[e]) \cup ToSet(kept[e]) : e \in MemXstream}

MemPC == {"idle", "scan", "global", "adopt", "adopted", "ready", "new", "take",
       "take_sub", "take_head", "push", "count", "end", "end_free", "end_keep"}

MemGoto(e, l) == mpc' = [mpc EXCEPT ![e] = l]
Spend(what) == budget[what] > 0 /\ budget' = [budget EXCEPT ![what] = @ - 1]

MemInit ==
  /\ head = [p \in Page |-> <<>>]
  /\ free = [p \in Page |-> <<>>]
  /\ numEmpty = [p \in Page |-> 0]
  /\ numRemote = [p \in Page |-> 0]
  /\ owner = [p \in Page |-> NoXstream]
  /\ pages = [e \in MemXstream |-> <<>>]
  /\ globalPages = <<>>
  /\ used = {}
  /\ stacks = [e \in MemXstream |-> <<>>]
  /\ numStacks = [e \in MemXstream |-> 0]
  /\ globalStacks = <<>>
  /\ usedStacks = {}
  /\ firstPos = <<>>
  /\ spId = 0
  /\ alive = MemXstream
  /\ mpc = [e \in MemXstream |-> "idle"]
  /\ cur = [e \in MemXstream |-> NoPage]
  /\ blk = [e \in MemXstream |-> NoBlock]
  /\ taken = [e \in MemXstream |-> 0]
  /\ back = [e \in MemXstream |-> "ready"]
  /\ kept = [e \in MemXstream |-> <<>>]
  /\ budget \in Budgets

Idle(e) == e \in alive /\ mpc[e] = "idle"

(* Faulty variants of definitions below: what a small mistake in the code   *)
(* would make of them.  No specification uses them; they show that each    *)
(* property tells the code from such a mistake.                             *)

\* take_free sets the count of remote frees to zero instead of decreasing it by
\* what it has read: blocks that were freed in between are not counted.
TakeSubZero(e) ==
  /\ mpc[e] = "take_sub"
  /\ numRemote' = [numRemote EXCEPT ![cur[e]] = 0]
  /\ numEmpty' = [numEmpty EXCEPT ![cur[e]] = (@ + taken[e]) % Word]
  /\ MemGoto(e, "take_head")
  /\ UNCHANGED <<head, free, owner, pages, globalPages, used, stackVars, alive, cur,
                 blk, taken, back, kept, budget>>

\* take_free does not decrease it at all.
TakeSubNot(e) ==
  /\ mpc[e] = "take_sub"
  /\ numEmpty' = [numEmpty EXCEPT ![cur[e]] = (@ + taken[e]) % Word]
  /\ MemGoto(e, "take_head")
  /\ UNCHANGED <<head, free, numRemote, owner, pages, globalPages, used, stackVars,
                 alive, cur, blk, taken, back, kept, budget>>

\* Taking the list of remote frees leaves it in place.
TakeHeadCopies(e) ==
  /\ mpc[e] = "take_head"
  /\ head' = [head EXCEPT ![cur[e]] = free[cur[e]]]
  /\ MemGoto(e, back[e])
  /\ UNCHANGED <<free, numEmpty, numRemote, owner, pages, globalPages, used, stackVars,
                 alive, cur, blk, taken, back, kept, budget>>

\* The global list of stacks is counted whole, with the stack that is handed out.
TakeGlobalMiscounted(e) ==
  /\ stacks[e] = <<>> /\ globalStacks # <<>>
  /\ usedStacks' = usedStacks \cup {Head(globalStacks)}
  /\ stacks' = [stacks EXCEPT ![e] = Tail(globalStacks)]
  /\ globalStacks' = <<>>
  /\ numStacks' = [numStacks EXCEPT ![e] = Len(globalStacks)]
  /\ UNCHANGED <<firstPos, spId>>

(* Allocating the block of a tasklet: ABTI_mem_alloc_task *)

\* The first free block of page p is handed out.
HandOut(e, p) ==
  /\ used' = used \cup {Head(head[p])}
  /\ head' = [head EXCEPT ![p] = Tail(@)]
  /\ numEmpty' = [numEmpty EXCEPT ![p] = (@ - 1) % Word]
  /\ MemGoto(e, "idle")

\* The page becomes the first one of the ES.
AddPage(e, p) ==
  /\ pages' = [pages EXCEPT ![e] = <<p>> \o @]
  /\ cur' = [cur EXCEPT ![e] = p]

AllocTask(e) ==
  /\ Idle(e) /\ Spend("tasks")
  /\ \/ pages[e] = <<>> /\ MemGoto(e, "global") /\ cur' = cur
     \/ pages[e] # <<>> /\ MemGoto(e, "scan") /\ cur' = [cur EXCEPT ![e] = Head(pages[e])]
  /\ UNCHANGED <<taskVars, stackVars, alive, blk, taken, back, kept>>

\* The page after the one the ES looks at, if there is one.
HasNextPage(e, p) == \E i \in 2 .. Len(pages[e]) : pages[e][i - 1] = cur[e] /\ pages[e][i] = p

\* A page with a free block, or with a remotely freed one, is looked for.
Scan(e) ==
  /\ mpc[e] = "scan"
  /\ \/ /\ head[cur[e]] # <<>>
        /\ HandOut(e, cur[e])
        /\ UNCHANGED <<cur, back>>
     \/ /\ head[cur[e]] = <<>> /\ free[cur[e]] # <<>>
        /\ MemGoto(e, "take")
        /\ back' = [back EXCEPT ![e] = "ready"]
        /\ UNCHANGED <<head, numEmpty, used, cur>>
     \/ /\ head[cur[e]] = <<>> /\ free[cur[e]] = <<>>
        /\ \/ \E p \in Page : /\ HasNextPage(e, p)
                              /\ cur' = [cur EXCEPT ![e] = p]
                              /\ mpc' = mpc
           \/ (\A p \in Page : ~HasNextPage(e, p)) /\ MemGoto(e, "global") /\ cur' = cur
        /\ UNCHANGED <<head, numEmpty, used, back>>
  /\ UNCHANGED <<free, numRemote, owner, pages, globalPages, stackVars, alive, blk,
                 taken, kept, budget>>

\* The global list is looked at without its lock, ...
CheckGlobal(e) ==
  /\ mpc[e] = "global"
  /\ MemGoto(e, IF globalPages # <<>> THEN "adopt" ELSE "new")
  /\ UNCHANGED <<taskVars, stackVars, alive, cur, blk, taken, back, kept, budget>>

\* ... then its first page is taken with it, if it has not gone meanwhile, ...
TakeGlobalPage(e) ==
  /\ mpc[e] = "adopt"
  /\ \/ globalPages = <<>> /\ MemGoto(e, "new") /\ UNCHANGED <<globalPages, owner, pages, cur>>
     \/ /\ globalPages # <<>>
        /\ globalPages' = Tail(globalPages)
        /\ owner' = [owner EXCEPT ![Head(globalPages)] = e]
        /\ AddPage(e, Head(globalPages))
        /\ MemGoto(e, "adopted")
  /\ UNCHANGED <<head, free, numEmpty, numRemote, used, stackVars, alive, blk, taken,
                 back, kept, budget>>

\* ... and its remotely freed blocks are taken whether or not it has others.
Adopted(e) ==
  /\ mpc[e] = "adopted"
  /\ MemGoto(e, IF free[cur[e]] # <<>> THEN "take" ELSE "ready")
  /\ back' = [back EXCEPT ![e] = "ready"]
  /\ UNCHANGED <<taskVars, stackVars, alive, cur, blk, taken, kept, budget>>

Ready(e) ==
  /\ mpc[e] = "ready"
  /\ \/ head[cur[e]] # <<>> /\ HandOut(e, cur[e])
     \/ head[cur[e]] = <<>> /\ MemGoto(e, "new") /\ UNCHANGED <<head, numEmpty, used>>
  /\ UNCHANGED <<free, numRemote, owner, pages, globalPages, stackVars, alive, cur,
                 blk, taken, back, kept, budget>>

\* A new page is mapped wherever none is (the set Page bounds how many).
NewPage(e) == \E p \in Page \ Mapped :
  /\ mpc[e] = "new"
  /\ owner' = [owner EXCEPT ![p] = e]
  /\ head' = [head EXCEPT ![p] = [i \in 1 .. NumBlocks - 1 |-> <<p, i + 1>>]]
  /\ free' = [free EXCEPT ![p] = <<>>]
  /\ numEmpty' = [numEmpty EXCEPT ![p] = NumBlocks - 1]
  /\ numRemote' = [numRemote EXCEPT ![p] = 0]
  /\ used' = used \cup {<<p, 1>>}
  /\ AddPage(e, p)
  /\ MemGoto(e, "idle")
  /\ UNCHANGED <<globalPages, stackVars, alive, blk, taken, back, kept, budget>>

(* ABTI_mem_take_free: the remotely freed blocks become the free list *)

TakeRead(e) ==
  /\ mpc[e] = "take"
  /\ taken' = [taken EXCEPT ![e] = numRemote[cur[e]]]
  /\ MemGoto(e, "take_sub")
  /\ UNCHANGED <<taskVars, stackVars, alive, cur, blk, back, kept, budget>>

TakeSub(e) ==
  /\ mpc[e] = "take_sub"
  /\ numRemote' = [numRemote EXCEPT ![cur[e]] = (@ - taken[e]) % Word]
  /\ numEmpty' = [numEmpty EXCEPT ![cur[e]] = (@ + taken[e]) % Word]
  /\ MemGoto(e, "take_head")
  /\ UNCHANGED <<head, free, owner, pages, globalPages, used, stackVars, alive, cur,
                 blk, taken, back, kept, budget>>

\* Whatever p_head was is overwritten.
TakeHead(e) ==
  /\ mpc[e] = "take_head"
  /\ head' = [head EXCEPT ![cur[e]] = free[cur[e]]]
  /\ free' = [free EXCEPT ![cur[e]] = <<>>]
  /\ MemGoto(e, back[e])
  /\ UNCHANGED <<numEmpty, numRemote, owner, pages, globalPages, used, stackVars,
                 alive, cur, blk, taken, back, kept, budget>>

(* Freeing a block: ABTI_mem_free_task, ABTI_mem_free_remote *)

FreeTask(e) == \E b \in used :
  /\ Idle(e)
  /\ used' = used \ {b}
  /\ \/ /\ owner[PageOf(b)] = e
        /\ head' = [head EXCEPT ![PageOf(b)] = <<b>> \o @]
        /\ numEmpty' = [numEmpty EXCEPT ![PageOf(b)] = (@ + 1) % Word]
        /\ UNCHANGED <<mpc, blk>>
     \/ /\ owner[PageOf(b)] # e
        /\ blk' = [blk EXCEPT ![e] = b]
        /\ MemGoto(e, "push")
        /\ UNCHANGED <<head, numEmpty>>
  /\ UNCHANGED <<free, numRemote, owner, pages, globalPages, stackVars, alive, cur,
                 taken, back, kept, budget>>

FreePush(e) ==
  /\ mpc[e] = "push"
  /\ free' = [free EXCEPT ![PageOf(blk[e])] = <<blk[e]>> \o @]
  /\ MemGoto(e, "count")
  /\ UNCHANGED <<head, numEmpty, numRemote, owner, pages, globalPages, used, stackVars,
                 alive, cur, blk, taken, back, kept, budget>>

FreeCount(e) ==
  /\ mpc[e] = "count"
  /\ numRemote' = [numRemote EXCEPT ![PageOf(blk[e])] = (@ + 1) % Word]
  /\ blk' = [blk EXCEPT ![e] = NoBlock]
  /\ MemGoto(e, "idle")
  /\ UNCHANGED <<head, free, numEmpty, owner, pages, globalPages, used, stackVars,
                 alive, cur, taken, back, kept, budget>>

(* The end of an ES: ABTI_mem_finalize_local, and a new one *)

\* Its stacks are counted as empty in their stack pages but stay mapped there.
EndEs(e) ==
  /\ Idle(e) /\ Spend("ends")
  /\ stacks' = [stacks EXCEPT ![e] = <<>>]
  /\ numStacks' = [numStacks EXCEPT ![e] = 0]
  /\ MemGoto(e, "end")
  /\ UNCHANGED <<taskVars, globalStacks, usedStacks, firstPos, spId, alive, cur, blk,
                 taken, back, kept>>

Unused(p) == (numEmpty[p] + numRemote[p]) % Word = NumBlocks

\* A page without used blocks is unmapped.
EndPage(e) ==
  /\ mpc[e] = "end" /\ pages[e] # <<>>
  /\ cur' = [cur EXCEPT ![e] = Head(pages[e])]
  /\ \/ /\ Unused(Head(pages[e]))
        /\ pages' = [pages EXCEPT ![e] = Tail(@)]
        /\ mpc' = mpc
     \/ /\ ~Unused(Head(pages[e]))
        /\ pages' = pages
        /\ MemGoto(e, "end_free")
  /\ UNCHANGED <<pageVars, globalPages, used, stackVars, alive, blk, taken, back,
                 kept, budget>>

\* Any other is kept, again with its remotely freed blocks as its only free ones.
EndTake(e) ==
  /\ mpc[e] = "end_free"
  /\ MemGoto(e, IF free[cur[e]] # <<>> THEN "take" ELSE "end_keep")
  /\ back' = [back EXCEPT ![e] = "end_keep"]
  /\ UNCHANGED <<taskVars, stackVars, alive, cur, blk, taken, kept, budget>>

EndKeep(e) ==
  /\ mpc[e] = "end_keep"
  /\ owner' = [owner EXCEPT ![cur[e]] = NoXstream]
  /\ kept' = [kept EXCEPT ![e] = <<cur[e]>> \o @]
  /\ pages' = [pages EXCEPT ![e] = Tail(@)]
  /\ MemGoto(e, "end")
  /\ UNCHANGED <<head, free, numEmpty, numRemote, globalPages, used, stackVars, alive,
                 cur, blk, taken, back, budget>>

\* All that are kept go to the global list at once, under its lock.
Ended(e) ==
  /\ mpc[e] = "end" /\ pages[e] = <<>>
  /\ globalPages' = kept[e] \o globalPages
  /\ kept' = [kept EXCEPT ![e] = <<>>]
  /\ alive' = alive \ {e}
  /\ MemGoto(e, "idle")
  /\ UNCHANGED <<pageVars, pages, used, stackVars, cur, blk, taken, back, budget>>

Start(e) ==
  /\ e \notin alive
  /\ alive' = alive \cup {e}
  /\ UNCHANGED <<taskVars, stackVars, mpc, cur, blk, taken, back, kept, budget>>

(* The stacks of ULTs *)

TakeStack(e, list) ==
  /\ usedStacks' = usedStacks \cup {Head(list)}
  /\ stacks' = [stacks EXCEPT ![e] = Tail(list)]

\* ABTI_mem_alloc_thread takes a stack of the ES, ...
AllocLocal(e) ==
  /\ stacks[e] # <<>>
  /\ TakeStack(e, stacks[e])
  /\ numStacks' = [numStacks EXCEPT ![e] = @ - 1]
  /\ UNCHANGED <<globalStacks, firstPos, spId>>

\* ... or else takes over the global list, whose stacks it counts, ...
TakeGlobalStack(e) ==
  /\ stacks[e] = <<>> /\ globalStacks # <<>>
  /\ TakeStack(e, globalStacks)
  /\ globalStacks' = <<>>
  /\ numStacks' = [numStacks EXCEPT ![e] = Len(globalStacks) - 1]
  /\ UNCHANGED <<firstPos, spId>>

\* ... or else maps a stack page and divides it.
AllocStackPage(e) == \E sp \in StackPage \ DOMAIN firstPos :
  /\ stacks[e] = <<>> /\ globalStacks = <<>>
  /\ TakeStack(e, [i \in 1 .. NumStacks |-> <<sp, i>>])
  /\ numStacks' = [numStacks EXCEPT ![e] = NumStacks - 1]
  /\ firstPos' = [q \in DOMAIN firstPos \cup {sp} |->
                    IF q = sp THEN spId % NumStacks ELSE firstPos[q]]
  /\ spId' = spId + 1
  /\ UNCHANGED globalStacks

AllocThread(e) ==
  /\ Idle(e) /\ Spend("threads")
  /\ AllocLocal(e) \/ TakeGlobalStack(e) \/ AllocStackPage(e)
  /\ UNCHANGED <<taskVars, opVars>>

\* ABTI_mem_free_thread keeps the stack unless the ES has more than enough.
FreeThread(e) == \E s \in usedStacks :
  /\ Idle(e)
  /\ usedStacks' = usedStacks \ {s}
  /\ \/ /\ numStacks[e] <= MaxStacks
        /\ stacks' = [stacks EXCEPT ![e] = <<s>> \o @]
        /\ numStacks' = [numStacks EXCEPT ![e] = @ + 1]
        /\ UNCHANGED globalStacks
     \/ /\ numStacks[e] > MaxStacks
        /\ globalStacks' = <<s>> \o globalStacks
        /\ UNCHANGED <<stacks, numStacks>>
  /\ UNCHANGED <<taskVars, firstPos, spId, opVars, budget>>

(* Where the stacks of a page lie, relative to its start: the headers of all of *)
(* them are in one row, which starts at another position in every page.         *)

Headers(first) == ActualSize * first

\* A faulty variant: the stack at the position of the headers is put before them.
StackBaseOffByOne(first, k) ==
  IF 0 < first /\ k <= first THEN ActualSize * k
  ELSE Headers(first) + HeaderSize * NumStacks + ActualSize * (k - first)

StackBase(first, k) ==
  IF 0 < first /\ k < first THEN ActualSize * k
  ELSE Headers(first) + HeaderSize * NumStacks + ActualSize * (k - first)

(* The specification *)

Step(e) ==
  \/ AllocTask(e) \/ Scan(e) \/ CheckGlobal(e) \/ TakeGlobalPage(e) \/ Adopted(e)
  \/ Ready(e) \/ NewPage(e) \/ TakeRead(e) \/ TakeSub(e) \/ TakeHead(e)
  \/ FreeTask(e) \/ FreePush(e) \/ FreeCount(e)
  \/ EndEs(e) \/ EndPage(e) \/ EndTake(e) \/ EndKeep(e) \/ Ended(e) \/ Start(e)
  \/ AllocThread(e) \/ FreeThread(e)

\* The program has freed all it has allocated.
AllDone == used = {} /\ usedStacks = {} /\ \A e \in MemXstream : Idle(e)

MemNext == (\E e \in MemXstream : Step(e)) \/ (AllDone /\ UNCHANGED memVars)

MemSpec == MemInit /\ [][MemNext]_memVars

(* Properties *)

Blocks(p) == {p} \X (1 .. NumBlocks)
UsedOf(p) == used \cap Blocks(p)
Freeing(p, l) == {e \in MemXstream : mpc[e] = l /\ PageOf(blk[e]) = p}

BlockTypes ==
  /\ head \in [Page -> Seq(Block)] /\ free \in [Page -> Seq(Block)]
  /\ numEmpty \in [Page -> 0 .. Word - 1] /\ numRemote \in [Page -> 0 .. Word - 1]
  /\ owner \in [Page -> MemXstream \cup {NoXstream}]
  /\ pages \in [MemXstream -> Seq(Page)] /\ kept \in [MemXstream -> Seq(Page)]
  /\ globalPages \in Seq(Page)
  /\ used \subseteq Block

StackTypes ==
  /\ stacks \in [MemXstream -> Seq(Stack)] /\ globalStacks \in Seq(Stack)
  /\ numStacks \in [MemXstream -> Nat]
  /\ usedStacks \subseteq Stack
  /\ DOMAIN firstPos \subseteq StackPage
  /\ firstPos \in [DOMAIN firstPos -> 0 .. NumStacks - 1]
  /\ spId \in Nat

LocalTypes ==
  /\ alive \subseteq MemXstream
  /\ mpc \in [MemXstream -> MemPC]
  /\ cur \in [MemXstream -> Page \cup {NoPage}]
  /\ blk \in [MemXstream -> Block \cup {NoBlock}]
  /\ taken \in [MemXstream -> 0 .. Word - 1]
  /\ back \in [MemXstream -> {"ready", "end_keep"}]
  /\ budget \in [{"tasks", "threads", "ends"} -> Nat]

\* Every variable has its type.
MemTypeOK == BlockTypes /\ StackTypes /\ LocalTypes

\* A block is in use, or in the hands of the ES that frees it, or linked once in
\* one of the two lists of its page: it is never handed out twice, whatever
\* remote frees, adoptions and ends of ESs the lists go through.
BlocksOnce ==
  \A p \in Mapped :
    LET list == head[p] \o free[p]
        hands == {blk[e] : e \in Freeing(p, "push")}
    IN  /\ IsInjective(list)
        /\ ToSet(list) \subseteq Blocks(p) \ (used \cup hands)
        /\ used \cap hands = {}
        /\ \A e, f \in Freeing(p, "push") : blk[e] = blk[f] => e = f

\* A page is unmapped only when nobody uses a block of it, and nobody is between
\* the two steps of a remote free and would touch the page again.
NoDangling ==
  \A p \in Page \ Mapped :
    UsedOf(p) = {} /\ Freeing(p, "push") = {} /\ Freeing(p, "count") = {}

\* The two counters may each be off (num_empty_blks even wraps around), but their
\* sum is the number of free blocks, less those whose count is still to come:
\* the NOTE in ABTI_mem_take_free.
FreeBlocks ==
  \A p \in Mapped :
    (numEmpty[p] + numRemote[p]) % Word =
      (NumBlocks - Cardinality(UsedOf(p)) - Cardinality(Freeing(p, "push"))
                 - Cardinality(Freeing(p, "count"))) % Word

\* A stack is in use or in one list, and num_stacks counts the list of its ES.
StacksOnce ==
  /\ \A e \in MemXstream : numStacks[e] = Len(stacks[e]) /\ IsInjective(stacks[e])
  /\ IsInjective(globalStacks)
  /\ \A e \in MemXstream :
       /\ ToSet(stacks[e]) \cap (ToSet(globalStacks) \cup usedStacks) = {}
       /\ \A f \in MemXstream \ {e} : ToSet(stacks[e]) \cap ToSet(stacks[f]) = {}
  /\ ToSet(globalStacks) \cap usedStacks = {}

\* The stacks of a page, which lie on both sides of the row of headers, overlap
\* neither each other nor that row, and end within the page, wherever it starts.
StacksApart ==
  \A sp \in DOMAIN firstPos, k \in 0 .. NumStacks - 1 :
    LET first == firstPos[sp]
        base  == StackBase(first, k)
    IN  /\ 0 <= base /\ base + ActualSize <= NumStacks * (HeaderSize + ActualSize)
        /\ \/ base + ActualSize <= Headers(first)
           \/ Headers(first) + HeaderSize * NumStacks <= base
        /\ \A j \in k + 1 .. NumStacks - 1 : base + ActualSize <= StackBase(first, j)
=============================================================================
