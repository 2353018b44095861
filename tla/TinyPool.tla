------------------------------ MODULE TinyPool ------------------------------
(***************************************************************************)
(* The memory pool of third_party/tiny_pool.c, which csp_contain gives to   *)
(* the pages it serves and resets every reset_rate requests                 *)
(* (memo_pool.h:20).  Addresses are offsets in a block, in units of which   *)
(* TINY_ALIGNMENT is Align; the sizes of the headers and records are        *)
(* constants.  large and cleanup are lists with the newest entry first;     *)
(* each entry has the place of its record in the pool.                      *)
(***************************************************************************)
EXTENDS Integers, SequencesExt

CONSTANTS Block,        \* size of a block, the size given to tiny_create_pool
          Align,        \* TINY_ALIGNMENT
          DataHead,     \* sizeof(tiny_pool_data_t)
          PoolHead,     \* sizeof(tiny_pool_t)
          LargeRec, CleanRec,   \* sizes of the list entries
          MaxAlloc,     \* TINY_MAX_ALLOC_FROM_POOL
          FailedLimit,  \* 4: failures after which current moves on
          SlotLimit,    \* 3: used entries passed over for a free one
          Sizes,        \* the sizes asked for
          MaxBlocks, MaxLarge, MaxCleanup   \* bounds of the instance

Up(n) == ((n + Align - 1) \div Align) * Align
SmallMax == IF Block - PoolHead < MaxAlloc THEN Block - PoolHead ELSE MaxAlloc

\* The sizes are whole kilobytes (parse_conf.c:33) and the structures are
\* made of words, so blocks and headers are aligned.
ASSUME PoolAssumption ==
    /\ Align \in Nat \ {0} /\ Sizes \subseteq Nat
    /\ Block \in Nat /\ PoolHead \in Nat /\ DataHead \in Nat /\ MaxAlloc \in Nat
    /\ Block = Up(Block) /\ PoolHead = Up(PoolHead) /\ DataHead = Up(DataHead)
    /\ DataHead <= PoolHead
    /\ LargeRec \in 1 .. SmallMax /\ CleanRec \in 1 .. SmallMax

VARIABLES blocks,     \* sequence of [last, failed]
          current,    \* index of the block where a search starts
          large,      \* sequence of [alloc, at], alloc 0 after a free
          cleanup,    \* sequence of places
          given,      \* history: pieces handed out since the last reset
          heap,       \* what malloc gave out and free has not taken back
          serial      \* number of the last malloc

poolVars == <<blocks, current, large, cleanup, given, heap, serial>>

PoolInit ==   \* tiny_create_pool
    /\ blocks = <<[last |-> PoolHead, failed |-> 0]>>
    /\ current = 1
    /\ large = <<>> /\ cleanup = <<>>
    /\ given = {} /\ heap = {} /\ serial = 0

\* end - m is taken as an unsigned number: a start beyond the end has room.
Start(b, align) == IF align THEN Up(b.last) ELSE b.last
HasRoom(b, size, align) ==
    \/ Block - Start(b, align) >= size
    \/ Start(b, align) > Block

\* A pool in the middle of a call: its blocks, current and the pieces made.
Pool == [blocks |-> blocks, current |-> current, got |-> <<>>]

\* tiny_palloc_block: a block more; the walk from current to the last block
\* counts the failure and moves current behind the ones that failed too often.
WithBlock(p, size) ==
    LET lo == Up(DataHead)
        n == Len(p.blocks)
        passed == p.current .. n - 1
        worn == {i \in passed : p.blocks[i].failed > FailedLimit}
    IN [blocks |-> Append([i \in 1 .. n |->
                       IF i \in passed THEN [p.blocks[i] EXCEPT !.failed = @ + 1]
                                       ELSE p.blocks[i]],
                       [last |-> lo + size, failed |-> 0]),
        current |-> IF worn = {} THEN p.current
                    ELSE 1 + CHOOSE i \in worn : \A j \in worn : j <= i,
        got |-> Append(p.got, [block |-> n + 1, lo |-> lo, hi |-> lo + size])]

\* Mutant of Taken: the gap of the alignment is not passed.
TakenPacked(p, i, lo, size) ==
    [p EXCEPT !.blocks[i].last = @ + size,
              !.got = Append(@, [block |-> i, lo |-> lo, hi |-> lo + size])]

\* A piece from the block i: last moves behind it, past the gap of the alignment.
Taken(p, i, lo, size) ==
    [p EXCEPT !.blocks[i].last = lo + size,
              !.got = Append(@, [block |-> i, lo |-> lo, hi |-> lo + size])]

\* tiny_palloc_small: the first block from current on that has room.
Small(p, size, align) ==
    LET room == {i \in p.current .. Len(p.blocks) : HasRoom(p.blocks[i], size, align)}
    IN IF room = {} THEN WithBlock(p, size)
       ELSE LET i == CHOOSE j \in room : \A k \in room : j <= k
            IN Taken(p, i, Start(p.blocks[i], align), size)

\* A call that would need a block more and does not get it changes nothing.
Fits(p) == Len(p.blocks) <= MaxBlocks
Keep(p) == /\ blocks' = p.blocks /\ current' = p.current
           /\ given' = given \cup ToSet(p.got)

tiny_palloc(size, align) ==
    /\ size <= SmallMax
    /\ LET p == Small(Pool, size, align) IN Fits(p) /\ Keep(p)
    /\ UNCHANGED <<large, cleanup, heap, serial>>

\* The entries looked at for one whose memory was freed.
FreeSlots == {i \in DOMAIN large : i <= SlotLimit + 2 /\ large[i].alloc = 0}

\* malloc succeeded; the record goes to a free entry or to a new one.  When
\* there is no room for the record the memory is freed again.
NewEntry(id) ==
    LET p == Small(Pool, LargeRec, TRUE)
    IN \/ /\ Fits(p) /\ Keep(p)
          /\ large' = <<[alloc |-> id, at |-> Last(p.got)]>> \o large
          /\ heap' = heap \cup {id}
       \/ /\ Len(p.blocks) > Len(blocks)
          /\ UNCHANGED <<blocks, current, given, large, heap>>

Malloced == serial < MaxLarge /\ serial' = serial + 1

tiny_palloc_large(id) ==
    /\ Malloced
    /\ IF FreeSlots # {}
       THEN LET i == CHOOSE j \in FreeSlots : \A k \in FreeSlots : j <= k
            IN /\ large' = [large EXCEPT ![i].alloc = id]
               /\ heap' = heap \cup {id}
               /\ UNCHANGED <<blocks, current, given>>
       ELSE NewEntry(id)
    /\ UNCHANGED cleanup

tiny_pmemalign(id) == Malloced /\ NewEntry(id) /\ UNCHANGED cleanup

tiny_pfree(id) ==
    LET at == {i \in DOMAIN large : large[i].alloc = id}
    IN /\ at # {}
       /\ LET i == CHOOSE j \in at : \A k \in at : j <= k
          IN large' = [large EXCEPT ![i].alloc = 0]
       /\ heap' = heap \ {id}
       /\ UNCHANGED <<blocks, current, cleanup, given, serial>>

\* The record, then the data; without room for the data the record stays
\* allocated and is not linked.
tiny_pool_cleanup_add(size) ==
    /\ Len(cleanup) < MaxCleanup /\ size <= SmallMax
    /\ LET rec == Small(Pool, CleanRec, TRUE)
           all == IF size = 0 THEN rec ELSE Small(rec, size, TRUE)
       IN \/ /\ Fits(all) /\ Keep(all)
             /\ cleanup' = <<rec.got[1]>> \o cleanup
          \/ /\ Fits(rec) /\ Keep(rec)
             /\ Len(all.blocks) > Len(rec.blocks)
             /\ UNCHANGED cleanup
    /\ UNCHANGED <<large, heap, serial>>

\* Every block is emptied down to the header of the first, the large memory
\* is freed; the cleanup list stays as it is.
tiny_reset_pool ==
    /\ heap' = heap \ {large[i].alloc : i \in DOMAIN large}
    /\ blocks' = [i \in DOMAIN blocks |-> [last |-> PoolHead, failed |-> 0]]
    /\ current' = 1
    /\ large' = <<>>
    /\ given' = {}
    /\ UNCHANGED <<cleanup, serial>>

\* tiny_destroy_pool followed by a new pool; the instance starts counting anew.
tiny_destroy_pool ==
    /\ heap' = heap \ {large[i].alloc : i \in DOMAIN large}
    /\ blocks' = <<[last |-> PoolHead, failed |-> 0]>>
    /\ current' = 1
    /\ large' = <<>> /\ cleanup' = <<>> /\ given' = {}
    /\ UNCHANGED serial

PoolNext ==
    \/ \E size \in Sizes, align \in BOOLEAN : tiny_palloc(size, align)
    \/ tiny_palloc_large(serial + 1)
    \/ tiny_pmemalign(serial + 1)
    \/ \E id \in heap : tiny_pfree(id)
    \/ \E size \in Sizes \cup {0} : tiny_pool_cleanup_add(size)
    \/ tiny_reset_pool
    \/ tiny_destroy_pool

PoolSpec == PoolInit /\ [][PoolNext]_poolVars

-----------------------------------------------------------------------------
\* What the pool hands out lies inside a block, behind its header and below
\* last, and no two pieces overlap, whatever mixture of aligned and packed
\* sizes, skipped blocks and resets came before.
PiecesApart ==
    /\ \A g \in given : /\ g.block \in DOMAIN blocks
                        /\ (IF g.block = 1 THEN PoolHead ELSE DataHead) <= g.lo
                        /\ g.hi <= blocks[g.block].last
                        /\ blocks[g.block].last <= Block
    /\ \A g, h \in given : g # h /\ g.block = h.block => g.hi <= h.lo \/ h.hi <= g.lo

\* Each piece of large memory is held by exactly one entry of the list until
\* it is freed: none leaks and none would be freed twice.
LargeHeldOnce ==
    /\ heap = {large[i].alloc : i \in DOMAIN large} \ {0}
    /\ \A i, j \in DOMAIN large :
          i # j /\ large[i].alloc = large[j].alloc => large[i].alloc = 0

\* What the users of the pool rely on.
PoolSound == PiecesApart /\ LargeHeldOnce
=============================================================================
