-------------------------- MODULE PageServerProofs --------------------------
(***************************************************************************)
(* The page server.  The pieces of a pool never overlap and its large      *)
(* memory is neither lost nor freed twice: for any alignment, any sizes of *)
(* blocks and headers and any limits.  A map has one node for a key, finds *)
(* it, counts it and walks to it once: for any keys, hash and number of    *)
(* chains.  csp_contain resets the pool in time, for any rates that its    *)
(* configuration allows, and serves a path by the page that the            *)
(* configuration names first, from an open library, for any configuration. *)
(* spc generates, lists and saves a function for each page that it was     *)
(* asked for and for those it requires, for any pages and command lines.   *)
(***************************************************************************)
EXTENDS TinyPool, CspContain, Spc, SequenceTheorems, FiniteSetTheorems, WellFoundedInduction, TLAPS

-----------------------------------------------------------------------------
(* The pool *)

BlockRec == [last : Nat, failed : Nat]
Piece    == [block : Nat, lo : Nat, hi : Nat]
Entry    == [alloc : Nat, at : Piece]
PoolRec  == [blocks : Seq(BlockRec), current : Nat \ {0}, got : Seq(Piece)]

\* Where the data of a block start.
Header(i) == IF i = 1 THEN PoolHead ELSE DataHead

\* Every block is filled between its header and its end.
BlocksFit(bs) == \A i \in DOMAIN bs : Header(i) <= bs[i].last /\ bs[i].last <= Block

\* A piece lies in the part of its block that is filled.
Inside(bs, g) == /\ g \in Piece /\ g.block \in DOMAIN bs
                 /\ Header(g.block) <= g.lo /\ g.lo <= g.hi /\ g.hi <= bs[g.block].last
Apart(g, h) == g = h \/ g.block # h.block \/ g.hi <= h.lo \/ h.hi <= g.lo

PiecesFit(bs, G) == /\ \A g \in G : Inside(bs, g)
                    /\ \A g, h \in G : Apart(g, h)

\* A pool in the middle of a call, with what was handed out before it.
Fit(p) == p \in PoolRec /\ BlocksFit(p.blocks) /\ PiecesFit(p.blocks, given \cup ToSet(p.got))

\* The entries of the list hold what malloc gave out, each piece once.
LargeKept ==
    /\ large \in Seq(Entry)
    /\ serial \in Nat /\ \A i \in DOMAIN large : large[i].alloc <= serial
    /\ LargeHeldOnce

PoolKept ==
    /\ blocks \in Seq(BlockRec) /\ blocks # <<>> /\ current \in Nat \ {0}
    /\ BlocksFit(blocks) /\ PiecesFit(blocks, given)

PoolInv == PoolKept /\ LargeKept

-----------------------------------------------------------------------------
(* Sizes and alignment *)

LEMMA SizesFit ==
    /\ Align \in Nat \ {0} /\ Sizes \subseteq Nat
    /\ Block \in Nat /\ PoolHead \in Nat /\ DataHead \in Nat
    /\ DataHead <= PoolHead /\ PoolHead <= Block
    /\ SmallMax \in Nat /\ PoolHead + SmallMax <= Block
    /\ LargeRec \in Nat /\ LargeRec <= SmallMax
    /\ CleanRec \in Nat /\ CleanRec <= SmallMax
  BY PoolAssumption DEF SmallMax

\* A multiple of the alignment that is not below n is not below Up(n) either.
LEMMA UpIsLeast ==
    ASSUME NEW n \in Nat, NEW k \in Nat, n <= k * Align
    PROVE  Up(n) <= k * Align
<1> DEFINE q == (n + Align - 1) \div Align
<1>1. Align \in Nat /\ Align >= 1
  BY SizesFit
<1>2. q \in Int /\ q * Align <= n + Align - 1
  BY <1>1
<1>3. q * Align < (k + 1) * Align
  BY <1>1, <1>2
<1>4. q < k + 1
  BY <1>1, <1>2, <1>3
<1>5. q * Align <= k * Align
  BY <1>1, <1>2, <1>4
<1>6. QED
  BY <1>5 DEF Up

LEMMA UpBounds ==
    ASSUME NEW n \in Nat
    PROVE  Up(n) \in Nat /\ n <= Up(n)
<1> DEFINE q == (n + Align - 1) \div Align
<1>1. Align \in Nat /\ Align >= 1
  BY SizesFit
<1>2. q \in Nat /\ n + Align - 1 < (q + 1) * Align
  BY <1>1
<1>3. (q + 1) * Align = q * Align + Align /\ q * Align \in Nat
  BY <1>1, <1>2
<1>4. n <= q * Align
  BY <1>1, <1>2, <1>3
<1>5. QED
  BY <1>3, <1>4 DEF Up

\* A start is never moved beyond the end of its block.
LEMMA UpInBlock ==
    ASSUME NEW n \in Nat, n <= Block
    PROVE  Up(n) \in Nat /\ n <= Up(n) /\ Up(n) <= Block
<1> DEFINE k == (Block + Align - 1) \div Align
<1>1. Align \in Nat /\ Align >= 1 /\ Block \in Nat
  BY SizesFit
<1>2. k \in Nat /\ Block = k * Align
  BY <1>1, PoolAssumption DEF Up
<1>3. n <= k * Align
  BY <1>2
<1>4. HIDE DEF k
<1>5. Up(n) <= k * Align
  BY <1>2, <1>3, UpIsLeast
<1>6. QED
  BY <1>2, <1>5, UpBounds

\* A set of places of a sequence that is not empty has a first one.
LEMMA FirstPlace ==
    ASSUME NEW S \in SUBSET Nat, S # {}
    PROVE  \E n \in S : \A m \in S : n <= m
<1>1. PICK n \in S : \A m \in S : <<m, n>> \notin OpToRel(<, Nat)
  BY NatLessThanWellFounded, WFMin
<1>2. \A m \in S : ~(m < n)
  BY <1>1 DEF OpToRel
<1>3. QED
  BY <1>2

LEMMA LastPlace ==
    ASSUME NEW n \in Nat, NEW S \in SUBSET (0 .. n), S # {}
    PROVE  \E i \in S : \A j \in S : j <= i
<1> DEFINE T == {n - k : k \in S}
<1>1. T \in SUBSET Nat /\ T # {}
  <2>1. PICK k \in S : TRUE
    OBVIOUS
  <2>2. n - k \in T
    BY <2>1
  <2>3. QED
    BY <2>2
<1>2. PICK m \in T : \A l \in T : m <= l
  BY <1>1, FirstPlace
<1>3. PICK i \in S : m = n - i
  BY <1>2
<1>4. \A j \in S : n - j \in T
  OBVIOUS
<1>5. \A j \in S : j <= i
  BY <1>2, <1>3, <1>4
<1>6. QED
  BY <1>5

-----------------------------------------------------------------------------
(* One piece more *)

LEMMA GotMore ==
    ASSUME NEW s \in Seq(Piece), NEW g \in Piece
    PROVE  ToSet(Append(s, g)) = ToSet(s) \cup {g} /\ Append(s, g) \in Seq(Piece)
<1> DEFINE t == Append(s, g)
<1>1. /\ t \in Seq(Piece) /\ DOMAIN t = 1 .. Len(s) + 1 /\ DOMAIN s = 1 .. Len(s)
      /\ t[Len(s) + 1] = g /\ \A i \in 1 .. Len(s) : t[i] = s[i]
  OBVIOUS
<1>2. ToSet(t) = ToSet(s) \cup {g}
  BY <1>1 DEF ToSet
<1>3. QED
  BY <1>1, <1>2

\* Filling the block i from where it ends, or from a little later, up to hi
\* leaves the other pieces where they are.
LEMMA PieceAdded ==
    ASSUME NEW bs \in Seq(BlockRec), NEW G, BlocksFit(bs), PiecesFit(bs, G),
           NEW i \in DOMAIN bs, NEW lo \in Nat, NEW hi \in Nat,
           bs[i].last <= lo, lo <= hi, hi <= Block,
           NEW new, new = [bs EXCEPT ![i].last = hi]
    PROVE  /\ new \in Seq(BlockRec) /\ BlocksFit(new)
           /\ PiecesFit(new, G \cup {[block |-> i, lo |-> lo, hi |-> hi]})
<1> DEFINE g == [block |-> i, lo |-> lo, hi |-> hi]
<1>1. /\ new \in Seq(BlockRec) /\ DOMAIN new = DOMAIN bs
      /\ new[i].last = hi /\ \A k \in DOMAIN bs : k # i => new[k] = bs[k]
  <2>1. DOMAIN bs = 1 .. Len(bs) /\ Len(bs) \in Nat /\ bs \in [DOMAIN bs -> BlockRec]
    OBVIOUS
  <2>2. [bs[i] EXCEPT !.last = hi] \in BlockRec /\ [bs[i] EXCEPT !.last = hi].last = hi
    BY <2>1 DEF BlockRec
  <2>3. /\ new \in [DOMAIN bs -> BlockRec] /\ new[i] = [bs[i] EXCEPT !.last = hi]
        /\ \A k \in DOMAIN bs : k # i => new[k] = bs[k]
    BY <2>1, <2>2
  <2>4. QED
    BY <2>1, <2>2, <2>3
<1>2. Header(i) \in Nat /\ Header(i) <= bs[i].last /\ bs[i].last \in Nat
  <2>1. bs[i] \in BlockRec
    OBVIOUS
  <2>2. QED
    BY <2>1, SizesFit DEF BlocksFit, Header, BlockRec
<1>3. BlocksFit(new)
  <2>1. Header(i) <= new[i].last /\ new[i].last <= Block
    BY <1>1, <1>2
  <2>2. ASSUME NEW k \in DOMAIN bs, k # i
        PROVE  Header(k) <= new[k].last /\ new[k].last <= Block
    BY <1>1, <2>2 DEF BlocksFit
  <2>3. QED
    BY <1>1, <2>1, <2>2 DEF BlocksFit
<1>4. Inside(new, g)
  BY <1>1, <1>2 DEF Inside, Piece
<1>5. ASSUME NEW h \in G
      PROVE  Inside(new, h) /\ Apart(g, h) /\ Apart(h, g)
  <2>1. Inside(bs, h) /\ h \in Piece
    BY DEF PiecesFit, Inside
  <2>2. h.block # i \/ h.hi <= lo
    BY <1>2, <2>1 DEF Inside, Piece
  <2>3. CASE h.block # i
    BY <1>1, <2>1, <2>3 DEF Inside, Apart
  <2>4. CASE h.block = i
    BY <1>1, <1>2, <2>1, <2>2, <2>4 DEF Inside, Apart, Piece
  <2>5. QED
    BY <2>3, <2>4
<1>6. QED
  BY <1>1, <1>3, <1>4, <1>5 DEF PiecesFit, Apart

\* A block more, of which the first piece is handed out.
LEMMA BlockAdded ==
    ASSUME NEW bs \in Seq(BlockRec), NEW G, BlocksFit(bs), PiecesFit(bs, G), bs # <<>>,
           NEW old \in Seq(BlockRec), Len(old) = Len(bs),
           \A i \in DOMAIN bs : old[i].last = bs[i].last,
           NEW lo \in Nat, NEW hi \in Nat, DataHead <= lo, lo <= hi, hi <= Block
    PROVE  LET new == Append(old, [last |-> hi, failed |-> 0])
           IN  /\ new \in Seq(BlockRec) /\ BlocksFit(new)
               /\ PiecesFit(new, G \cup {[block |-> Len(bs) + 1, lo |-> lo, hi |-> hi]})
<1> DEFINE new == Append(old, [last |-> hi, failed |-> 0])
           n == Len(bs)
           g == [block |-> n + 1, lo |-> lo, hi |-> hi]
<1>1. /\ n \in Nat \ {0} /\ DOMAIN bs = 1 .. n /\ DOMAIN old = 1 .. n
      /\ [last |-> hi, failed |-> 0] \in BlockRec
  BY DEF BlockRec
<1>2. /\ new \in Seq(BlockRec) /\ DOMAIN new = 1 .. n + 1 /\ new[n + 1].last = hi
      /\ \A i \in 1 .. n : new[i].last = bs[i].last
  <2> DEFINE e == [last |-> hi, failed |-> 0]
  <2>1. e \in BlockRec /\ e.last = hi
    BY <1>1
  <2>2. HIDE DEF e
  <2>3. ASSUME NEW s, s = Append(old, e)
        PROVE  s \in Seq(BlockRec) /\ DOMAIN s = 1 .. n + 1 /\ s[n + 1] = e /\ \A i \in 1 .. n : s[i] = old[i]
    BY <1>1, <2>1, <2>3
  <2>4. new = Append(old, e)
    BY DEF e
  <2>5. QED
    BY <1>1, <2>1, <2>3, <2>4
<1>3. Header(n + 1) = DataHead
  BY <1>1 DEF Header
<1>4. BlocksFit(new)
  BY <1>1, <1>2, <1>3, SizesFit DEF BlocksFit
<1>5. Inside(new, g)
  BY <1>1, <1>2, <1>3 DEF Inside, Piece
<1>6. ASSUME NEW h \in G
      PROVE  Inside(new, h) /\ Apart(g, h) /\ Apart(h, g)
  <2>1. Inside(bs, h)
    BY DEF PiecesFit
  <2>2. h.block \in 1 .. n /\ h.block # n + 1
    BY <1>1, <2>1 DEF Inside
  <2>3. QED
    BY <1>1, <1>2, <2>1, <2>2 DEF Inside, Apart
<1>7. QED
  BY <1>2, <1>4, <1>5, <1>6 DEF PiecesFit, Apart

LEMMA FitMeans ==
    ASSUME NEW p, Fit(p)
    PROVE  /\ p.blocks \in Seq(BlockRec) /\ p.current \in Nat \ {0} /\ p.got \in Seq(Piece)
           /\ BlocksFit(p.blocks) /\ PiecesFit(p.blocks, given \cup ToSet(p.got))
  BY DEF Fit, PoolRec

\* A pool after a piece more.
LEMMA FitAgain ==
    ASSUME NEW p, Fit(p), NEW g \in Piece, NEW bs \in Seq(BlockRec), BlocksFit(bs),
           PiecesFit(bs, given \cup ToSet(p.got) \cup {g}),
           NEW r \in PoolRec, r.blocks = bs, r.got = Append(p.got, g)
    PROVE  Fit(r)
<1>1. p.got \in Seq(Piece)
  BY FitMeans
<1>2. ToSet(r.got) = ToSet(p.got) \cup {g} /\ r.got \in Seq(Piece)
  BY <1>1, GotMore
<1>3. given \cup ToSet(r.got) = given \cup ToSet(p.got) \cup {g}
  BY <1>2
<1>4. PiecesFit(r.blocks, given \cup ToSet(r.got))
  BY <1>3
<1>5. QED
  BY <1>4 DEF Fit

LEMMA TakenFits ==
    ASSUME NEW p, Fit(p), NEW i \in DOMAIN p.blocks, NEW lo \in Nat, NEW size \in Nat,
           p.blocks[i].last <= lo, lo + size <= Block
    PROVE  Fit(Taken(p, i, lo, size)) /\ Len(Taken(p, i, lo, size).blocks) = Len(p.blocks)
<1> DEFINE hi == lo + size
           g  == [block |-> i, lo |-> lo, hi |-> hi]
           bs == [p.blocks EXCEPT ![i].last = hi]
           r  == Taken(p, i, lo, size)
<1>1. /\ p.blocks \in Seq(BlockRec) /\ p.current \in Nat \ {0} /\ p.got \in Seq(Piece)
      /\ BlocksFit(p.blocks) /\ PiecesFit(p.blocks, given \cup ToSet(p.got)) /\ p \in PoolRec
  BY FitMeans DEF Fit
<1>2. r = [p EXCEPT !.blocks = bs, !.got = Append(p.got, g)]
  BY <1>1 DEF Taken, PoolRec
<1>3. g \in Piece /\ hi \in Nat /\ lo <= hi
  <2>1. i \in Nat
    BY <1>1
  <2>2. QED
    BY <2>1 DEF Piece
<1>4. bs \in Seq(BlockRec) /\ BlocksFit(bs) /\ PiecesFit(bs, given \cup ToSet(p.got) \cup {g})
  BY <1>1, <1>3, PieceAdded
<1>5. Len(bs) = Len(p.blocks)
  BY <1>1
<1>6. Append(p.got, g) \in Seq(Piece)
  BY <1>1, <1>3
<1>7. r \in PoolRec /\ r.blocks = bs /\ r.got = Append(p.got, g)
  <2>1. HIDE DEF r, bs, g
  <2>2. QED
    BY <1>1, <1>2, <1>4, <1>6 DEF PoolRec
<1>8. Fit(r)
  <2>1. HIDE DEF r, bs, g
  <2>2. QED
    BY <1>3, <1>4, <1>7, FitAgain
<1>9. QED
  BY <1>5, <1>7, <1>8

LEMMA WithBlockFits ==
    ASSUME NEW p, Fit(p), p.blocks # <<>>, NEW size \in Nat, size <= SmallMax
    PROVE  Fit(WithBlock(p, size)) /\ Len(WithBlock(p, size).blocks) = Len(p.blocks) + 1
<1> DEFINE lo == Up(DataHead)
           n  == Len(p.blocks)
           passed == p.current .. n - 1
           worn == {i \in passed : p.blocks[i].failed > FailedLimit}
           old == [i \in 1 .. n |-> IF i \in passed THEN [p.blocks[i] EXCEPT !.failed = @ + 1]
                                    ELSE p.blocks[i]]
           c  == IF worn = {} THEN p.current
                 ELSE 1 + CHOOSE i \in worn : \A j \in worn : j <= i
           g  == [block |-> n + 1, lo |-> lo, hi |-> lo + size]
           bs == Append(old, [last |-> lo + size, failed |-> 0])
           r  == [blocks |-> bs, current |-> c, got |-> Append(p.got, g)]
<1>1. /\ p.blocks \in Seq(BlockRec) /\ p.current \in Nat \ {0} /\ p.got \in Seq(Piece)
      /\ BlocksFit(p.blocks) /\ PiecesFit(p.blocks, given \cup ToSet(p.got))
  BY FitMeans
<1>2. n \in Nat /\ DOMAIN p.blocks = 1 .. n /\ \A i \in 1 .. n : p.blocks[i] \in BlockRec
  BY <1>1
<1>3. ASSUME NEW i \in 1 .. n
      PROVE  old[i] \in BlockRec /\ old[i].last = p.blocks[i].last
  <2>1. p.blocks[i] \in BlockRec
    BY <1>2
  <2>2. CASE i \in passed
    <3>1. old[i] = [p.blocks[i] EXCEPT !.failed = @ + 1]
      BY <2>2
    <3>2. QED
      BY <2>1, <3>1 DEF BlockRec
  <2>3. CASE i \notin passed
    BY <2>1, <2>3
  <2>4. QED
    BY <2>2, <2>3
<1>4. old \in Seq(BlockRec) /\ Len(old) = n
  <2>1. old \in [1 .. n -> BlockRec]
    BY <1>3
  <2>2. QED
    BY <1>2, <2>1
<1>5. lo = DataHead /\ lo \in Nat
  BY SizesFit, PoolAssumption
<1>6. lo + size \in Nat /\ lo + size <= Block
  BY <1>5, SizesFit
<1>7. g \in Piece
  BY <1>2, <1>5, <1>6 DEF Piece
<1>8. c \in Nat \ {0}
  <2>1. CASE worn = {}
    BY <1>1, <2>1
  <2>2. CASE worn # {}
    <3>1. worn \in SUBSET (0 .. n)
      BY <1>1, <1>2
    <3>2. \E i \in worn : \A j \in worn : j <= i
      BY <1>2, <2>2, <3>1, LastPlace
    <3>3. (CHOOSE i \in worn : \A j \in worn : j <= i) \in 0 .. n
      BY <3>1, <3>2
    <3>4. QED
      BY <1>2, <2>2, <3>3
  <2>3. QED
    BY <2>1, <2>2
<1>9. bs \in Seq(BlockRec) /\ BlocksFit(bs) /\ PiecesFit(bs, given \cup ToSet(p.got) \cup {g})
  <2>1. \A i \in DOMAIN p.blocks : old[i].last = p.blocks[i].last
    BY <1>2, <1>3
  <2>2. DataHead <= lo /\ lo <= lo + size
    BY <1>5, SizesFit
  <2>3. HIDE DEF old, lo
  <2>4. QED
    BY <1>1, <1>4, <1>5, <1>6, <2>1, <2>2, BlockAdded
<1>10. Len(bs) = n + 1
  BY <1>4
<1>11. WithBlock(p, size) = r
  BY DEF WithBlock
<1>12. Fit(r)
  <2>1. Append(p.got, g) \in Seq(Piece)
    BY <1>1, <1>7
  <2>2. HIDE DEF c, bs, g
  <2>3. r \in PoolRec /\ r.blocks = bs /\ r.got = Append(p.got, g)
    BY <1>8, <1>9, <2>1 DEF PoolRec
  <2>4. HIDE DEF r
  <2>5. QED
    BY <1>7, <1>9, <2>3, FitAgain
<1>13. QED
  BY <1>10, <1>11, <1>12

\* A piece of a size that is not large leaves the pool fit, whichever block has it.
LEMMA SmallFits ==
    ASSUME NEW p, Fit(p), p.blocks # <<>>, NEW size \in Nat, size <= SmallMax,
           NEW align \in BOOLEAN
    PROVE  Fit(Small(p, size, align)) /\ Small(p, size, align).blocks # <<>>
<1> DEFINE room == {i \in p.current .. Len(p.blocks) : HasRoom(p.blocks[i], size, align)}
           i == CHOOSE j \in room : \A k \in room : j <= k
<1>1. /\ p.blocks \in Seq(BlockRec) /\ p.current \in Nat \ {0} /\ BlocksFit(p.blocks)
      /\ Len(p.blocks) \in Nat \ {0}
  <2>1. p.blocks \in Seq(BlockRec) /\ p.current \in Nat \ {0} /\ BlocksFit(p.blocks)
    BY FitMeans
  <2>2. QED
    BY <2>1
<1>2. CASE room = {}
  <2>1. Small(p, size, align) = WithBlock(p, size)
    BY <1>2 DEF Small
  <2>2. QED
    BY <1>1, <2>1, WithBlockFits, FitMeans
<1>3. CASE room # {}
  <2> DEFINE lo == Start(p.blocks[i], align)
  <2>1. Small(p, size, align) = Taken(p, i, lo, size)
    BY <1>3 DEF Small
  <2>2. i \in room
    <3>1. room \in SUBSET Nat
      BY <1>1
    <3>2. \E j \in room : \A k \in room : j <= k
      BY <1>3, <3>1, FirstPlace
    <3>3. QED
      BY <3>2
  <2>3. i \in DOMAIN p.blocks /\ HasRoom(p.blocks[i], size, align)
    BY <1>1, <2>2
  <2>4. HIDE DEF i
  <2>5. p.blocks[i].last \in Nat /\ p.blocks[i].last <= Block
    <3>1. p.blocks[i] \in BlockRec
      BY <1>1, <2>3
    <3>2. QED
      BY <1>1, <2>3, <3>1 DEF BlockRec, BlocksFit
  <2>6. lo \in Nat /\ p.blocks[i].last <= lo /\ lo <= Block
    BY <2>5, UpInBlock DEF Start
  <2>7. lo + size <= Block
    BY <2>3, <2>6, SizesFit DEF HasRoom
  <2>8. /\ Fit(Taken(p, i, lo, size))
        /\ Len(Taken(p, i, lo, size).blocks) = Len(p.blocks)
    <3>1. HIDE DEF lo
    <3>2. QED
      BY <2>3, <2>5, <2>6, <2>7, TakenFits
  <2>9. Taken(p, i, lo, size).blocks \in Seq(BlockRec)
    BY <2>8, FitMeans
  <2>10. QED
    BY <1>1, <2>1, <2>8, <2>9
<1>4. QED
  BY <1>2, <1>3

\* The piece that a call has just made.
LEMMA SmallGot ==
    ASSUME NEW p, Fit(p), p.blocks # <<>>, NEW size \in Nat, size <= SmallMax,
           NEW align \in BOOLEAN
    PROVE  Last(Small(p, size, align).got) \in Piece
<1> DEFINE s == Small(p, size, align)
<1>1. s.got \in Seq(Piece)
  BY SmallFits, FitMeans
<1>2. s.got # <<>>
  <2>1. p.got \in Seq(Piece) /\ p \in PoolRec
    BY FitMeans DEF Fit
  <2>2. ASSUME NEW g PROVE Append(p.got, g) # <<>>
    BY <2>1
  <2>3. \A i, lo : Taken(p, i, lo, size).got # <<>>
    BY <2>1, <2>2 DEF Taken, PoolRec
  <2>4. WithBlock(p, size).got # <<>>
    BY <2>2 DEF WithBlock
  <2>5. QED
    BY <2>3, <2>4 DEF Small
<1>3. QED
  BY <1>1, <1>2 DEF Last

-----------------------------------------------------------------------------
(* The steps *)

LEMMA KeptFits == ASSUME PoolKept PROVE Fit(Pool) /\ Pool.blocks # <<>> /\ Pool.got = <<>>
<1>1. Pool \in PoolRec
  BY DEF Pool, PoolRec, PoolKept
<1>2. ToSet(Pool.got) = {} /\ Pool.blocks = blocks
  BY DEF Pool, ToSet
<1>3. given \cup ToSet(Pool.got) = given
  BY <1>2
<1>4. QED
  BY <1>1, <1>2, <1>3 DEF Fit, PoolKept, Pool

LEMMA KeepsPool ==
    ASSUME NEW p, Fit(p), p.blocks # <<>>, Keep(p)
    PROVE  PoolKept'
<1>1. /\ p.blocks \in Seq(BlockRec) /\ p.current \in Nat \ {0}
      /\ BlocksFit(p.blocks) /\ PiecesFit(p.blocks, given \cup ToSet(p.got))
  BY FitMeans
<1>2. blocks' = p.blocks /\ current' = p.current /\ given' = given \cup ToSet(p.got)
  BY DEF Keep
<1>3. BlocksFit(blocks') /\ PiecesFit(blocks', given')
  BY <1>1, <1>2
<1>4. BlocksFit(blocks)' /\ PiecesFit(blocks, given)'
  BY <1>3 DEF BlocksFit, PiecesFit, Inside, Apart, Header
<1>5. QED
  BY <1>1, <1>2, <1>4 DEF PoolKept

LEMMA StillKept ==
    ASSUME PoolKept, UNCHANGED <<blocks, current, given>>
    PROVE  PoolKept'
  BY DEF PoolKept, BlocksFit, PiecesFit, Inside, Apart, Header

LEMMA LargeMeans ==
    ASSUME LargeKept
    PROVE  /\ large \in Seq(Entry) /\ Len(large) \in Nat /\ DOMAIN large = 1 .. Len(large)
           /\ serial \in Nat
           /\ \A i \in DOMAIN large : /\ large[i] \in Entry /\ large[i].alloc \in Nat
                                      /\ large[i].alloc <= serial
<1>1. large \in Seq(Entry) /\ serial \in Nat /\ \A i \in DOMAIN large : large[i].alloc <= serial
  BY DEF LargeKept
<1>2. Len(large) \in Nat /\ DOMAIN large = 1 .. Len(large)
  BY <1>1
<1>3. \A i \in DOMAIN large : large[i] \in Entry
  BY <1>1
<1>4. \A i \in DOMAIN large : large[i].alloc \in Nat
  BY <1>3 DEF Entry
<1>5. QED
  BY <1>1, <1>2, <1>3, <1>4

\* The list with one entry more, or with another number in one entry.
LEMMA LargeAdded ==
    ASSUME LargeKept, NEW x \in Piece, serial' = serial + 1,
           large' = <<[alloc |-> serial + 1, at |-> x]>> \o large,
           heap' = heap \cup {serial + 1}
    PROVE  LargeKept'
<1> DEFINE e == [alloc |-> serial + 1, at |-> x]
           n == Len(large)
<1>1. /\ large \in Seq(Entry) /\ serial \in Nat /\ n \in Nat
      /\ DOMAIN large = 1 .. n
      /\ \A i \in 1 .. n : large[i].alloc \in Nat /\ large[i].alloc <= serial
  BY LargeMeans
<1>2. e \in Entry /\ e.alloc = serial + 1
  BY <1>1 DEF Entry
<1>3. /\ large' \in Seq(Entry) /\ DOMAIN large' = 1 .. n + 1
      /\ large'[1] = e /\ \A i \in 2 .. n + 1 : large'[i] = large[i - 1] /\ i - 1 \in 1 .. n
  <2>1. HIDE DEF e
  <2>2. large' = <<e>> \o large
    BY DEF e
  <2>3. QED
    BY <1>1, <1>2, <2>2
<1>4. \A i \in DOMAIN large' : large'[i].alloc <= serial'
  BY <1>1, <1>2, <1>3
<1>5. heap' = {large'[i].alloc : i \in DOMAIN large'} \ {0}
  <2>1. heap = {large[i].alloc : i \in 1 .. n} \ {0}
    BY <1>1 DEF LargeKept, LargeHeldOnce
  <2>2. \A i \in 1 .. n : i + 1 \in DOMAIN large' /\ large'[i + 1] = large[i]
    BY <1>1, <1>3
  <2>3. ASSUME NEW i \in DOMAIN large' PROVE large'[i].alloc \in {large[j].alloc : j \in 1 .. n} \cup {serial + 1}
    <3>1. CASE i = 1
      BY <1>2, <1>3, <3>1
    <3>2. CASE i \in 2 .. n + 1
      BY <1>3, <3>2
    <3>3. i = 1 \/ i \in 2 .. n + 1
      BY <1>1, <1>3
    <3>4. QED
      BY <3>1, <3>2, <3>3
  <2>4. serial + 1 # 0 /\ 1 \in DOMAIN large'
    BY <1>1, <1>3
  <2>5. {large'[i].alloc : i \in DOMAIN large'} = {large[j].alloc : j \in 1 .. n} \cup {serial + 1}
    <3>1. serial + 1 \in {large'[i].alloc : i \in DOMAIN large'}
      BY <1>2, <1>3, <2>4
    <3>2. \A j \in 1 .. n : large[j].alloc \in {large'[i].alloc : i \in DOMAIN large'}
      BY <2>2
    <3>3. {large'[i].alloc : i \in DOMAIN large'} \subseteq {large[j].alloc : j \in 1 .. n} \cup {serial + 1}
      BY <2>3
    <3>4. {large[j].alloc : j \in 1 .. n} \subseteq {large'[i].alloc : i \in DOMAIN large'}
      BY <3>2
    <3>5. QED
      BY <3>1, <3>3, <3>4
  <2> DEFINE was == {large[j].alloc : j \in 1 .. n}
             now == {large'[i].alloc : i \in DOMAIN large'}
  <2>6. heap = was \ {0} /\ now = was \cup {serial + 1}
    BY <2>1, <2>5
  <2>7. HIDE DEF was, now
  <2>8. heap' = now \ {0}
    BY <2>4, <2>6
  <2>9. QED
    BY <2>8 DEF now
<1>6. ASSUME NEW i \in DOMAIN large', NEW j \in DOMAIN large', i # j,
             large'[i].alloc = large'[j].alloc
      PROVE  large'[i].alloc = 0
  <2>1. CASE i = 1 \/ j = 1
    BY <1>1, <1>2, <1>3, <1>6, <2>1
  <2>2. CASE i # 1 /\ j # 1
    <3>1. i - 1 \in 1 .. n /\ j - 1 \in 1 .. n /\ i - 1 # j - 1
      <4>1. i \in 2 .. n + 1 /\ j \in 2 .. n + 1
        BY <1>1, <1>3, <2>2
      <4>2. QED
        BY <1>1, <1>6, <4>1
    <3>2. large'[i] = large[i - 1] /\ large'[j] = large[j - 1]
      BY <1>1, <1>3, <1>6, <2>2
    <3>3. QED
      BY <1>1, <1>6, <3>1, <3>2 DEF LargeKept, LargeHeldOnce
  <2>3. QED
    BY <2>1, <2>2
<1>7. serial' \in Nat
  BY <1>1
<1>8. QED
  BY <1>3, <1>4, <1>5, <1>6, <1>7 DEF LargeKept, LargeHeldOnce

LEMMA LargeSet ==
    ASSUME LargeKept, NEW i \in DOMAIN large, NEW id \in Nat,
           large' = [large EXCEPT ![i].alloc = id], serial' \in Nat, serial <= serial', id <= serial',
           id = 0 \/ id \notin heap, heap' = (heap \ {large[i].alloc}) \cup ({id} \ {0})
    PROVE  LargeKept'
<1>1. /\ large \in Seq(Entry) /\ serial \in Nat
      /\ \A j \in DOMAIN large : /\ large[j] \in Entry
                                 /\ large[j].alloc \in Nat /\ large[j].alloc <= serial
  BY LargeMeans
<1>2. /\ large' \in Seq(Entry) /\ DOMAIN large' = DOMAIN large
      /\ large'[i].alloc = id /\ \A j \in DOMAIN large : j # i => large'[j] = large[j]
  <2>1. /\ [large[i] EXCEPT !.alloc = id] \in Entry
        /\ [large[i] EXCEPT !.alloc = id].alloc = id
    BY <1>1 DEF Entry
  <2>2. /\ large' \in [DOMAIN large -> Entry] /\ large'[i] = [large[i] EXCEPT !.alloc = id]
        /\ \A j \in DOMAIN large : j # i => large'[j] = large[j]
    BY <1>1, <2>1
  <2>3. large' \in Seq(Entry)
    BY <2>2, LargeMeans
  <2>4. QED
    BY <2>1, <2>2, <2>3
<1>3. \A j \in DOMAIN large' : large'[j].alloc <= serial'
  BY <1>1, <1>2
<1>4. /\ heap = {large[j].alloc : j \in DOMAIN large} \ {0}
      /\ \A j, k \in DOMAIN large : j # k /\ large[j].alloc = large[k].alloc => large[j].alloc = 0
  BY DEF LargeKept, LargeHeldOnce
<1>5. heap' = {large'[j].alloc : j \in DOMAIN large'} \ {0}
  <2>1. ASSUME NEW x PROVE x \in heap' <=> x # 0 /\ \E j \in DOMAIN large : x = large'[j].alloc
    <3>1. x \in heap' <=> (x # 0 /\ x = id) \/ (x \in heap /\ x # large[i].alloc)
      OBVIOUS
    <3>2. x \in heap /\ x # large[i].alloc
             <=> x # 0 /\ \E j \in DOMAIN large : j # i /\ x = large[j].alloc
      BY <1>4
    <3>3. QED
      BY <1>2, <3>1, <3>2
  <2>2. \A x : x \in heap' <=> x \in {large'[j].alloc : j \in DOMAIN large'} \ {0}
    BY <1>2, <2>1
  <2>3. QED
    BY <2>2
<1>6. \A j, k \in DOMAIN large' : j # k /\ large'[j].alloc = large'[k].alloc => large'[j].alloc = 0
  <2>1. \A j \in DOMAIN large : large[j].alloc = id => id = 0
    BY <1>4
  <2>2. QED
    BY <1>2, <1>4, <2>1
<1>7. QED
  BY <1>2, <1>3, <1>5, <1>6 DEF LargeKept, LargeHeldOnce

LEMMA LargeStill ==
    ASSUME LargeKept, UNCHANGED <<large, heap>>, serial' \in Nat, serial <= serial'
    PROVE  LargeKept'
<1>1. \A i \in DOMAIN large : large[i].alloc <= serial'
  BY LargeMeans
<1>2. QED
  BY <1>1 DEF LargeKept, LargeHeldOnce

LEMMA NewEntryStep ==
    ASSUME PoolInv, NewEntry(serial + 1), serial' = serial + 1
    PROVE  PoolInv'
<1> DEFINE p == Small(Pool, LargeRec, TRUE)
<1>1. PoolKept /\ LargeKept /\ serial \in Nat /\ serial' \in Nat /\ serial <= serial'
  BY LargeMeans DEF PoolInv
<1>2. Fit(p) /\ p.blocks # <<>> /\ Last(p.got) \in Piece
  BY <1>1, KeptFits, SizesFit, SmallFits, SmallGot
<1>3. \/ /\ Keep(p) /\ large' = <<[alloc |-> serial + 1, at |-> Last(p.got)]>> \o large
         /\ heap' = heap \cup {serial + 1}
      \/ UNCHANGED <<blocks, current, given, large, heap>>
  BY DEF NewEntry
<1>4. HIDE DEF p
<1>5. PoolKept'
  BY <1>1, <1>2, <1>3, KeepsPool, StillKept
<1>6. LargeKept'
  BY <1>1, <1>2, <1>3, LargeAdded, LargeStill
<1>7. QED
  BY <1>5, <1>6 DEF PoolInv

LEMMA PallocStep ==
    ASSUME PoolInv, NEW size \in Sizes, NEW align \in BOOLEAN, tiny_palloc(size, align)
    PROVE  PoolInv'
<1> DEFINE p == Small(Pool, size, align)
<1>1. PoolKept /\ LargeKept /\ serial' = serial /\ serial \in Nat /\ UNCHANGED <<large, heap>>
  BY LargeMeans DEF PoolInv, tiny_palloc
<1>2. Keep(p) /\ size <= SmallMax /\ size \in Nat
  BY SizesFit DEF tiny_palloc
<1>3. Fit(p) /\ p.blocks # <<>>
  BY <1>1, <1>2, KeptFits, SmallFits
<1>4. HIDE DEF p
<1>5. QED
  BY <1>1, <1>2, <1>3, KeepsPool, LargeStill DEF PoolInv

LEMMA PallocLargeStep ==
    ASSUME PoolInv, tiny_palloc_large(serial + 1)
    PROVE  PoolInv'
<1>1. serial \in Nat /\ serial' = serial + 1 /\ PoolKept /\ LargeKept
  BY LargeMeans DEF PoolInv, tiny_palloc_large, Malloced
<1>2. CASE FreeSlots # {}
  <2> DEFINE i == CHOOSE j \in FreeSlots : \A k \in FreeSlots : j <= k
  <2>1. /\ large' = [large EXCEPT ![i].alloc = serial + 1] /\ heap' = heap \cup {serial + 1}
        /\ UNCHANGED <<blocks, current, given>>
    BY <1>2 DEF tiny_palloc_large
  <2>2. i \in FreeSlots
    <3>1. FreeSlots \in SUBSET Nat
      BY <1>1, LargeMeans DEF FreeSlots
    <3>2. \E j \in FreeSlots : \A k \in FreeSlots : j <= k
      BY <1>2, <3>1, FirstPlace
    <3>3. QED
      BY <3>2
  <2>3. i \in DOMAIN large /\ large[i].alloc = 0
    BY <2>2 DEF FreeSlots
  <2>4. serial + 1 \notin heap /\ 0 \notin heap
    <3>1. \A k \in DOMAIN large : large[k].alloc # serial + 1
      BY <1>1, LargeMeans
    <3>2. QED
      BY <1>1, <3>1 DEF LargeKept, LargeHeldOnce
  <2>5. heap' = (heap \ {large[i].alloc}) \cup ({serial + 1} \ {0})
    BY <1>1, <2>1, <2>3, <2>4
  <2>6. LargeKept'
    <3>1. HIDE DEF i
    <3>2. serial + 1 \in Nat /\ serial' \in Nat /\ serial <= serial' /\ serial + 1 <= serial'
      BY <1>1
    <3>3. QED
      BY <1>1, <2>1, <2>3, <2>4, <2>5, <3>2, LargeSet
  <2>7. QED
    BY <1>1, <2>1, <2>6, StillKept DEF PoolInv
<1>3. CASE FreeSlots = {}
  <2>1. NewEntry(serial + 1)
    BY <1>3 DEF tiny_palloc_large
  <2>2. QED
    BY <1>1, <2>1, NewEntryStep
<1>4. QED
  BY <1>2, <1>3

LEMMA PfreeStep ==
    ASSUME PoolInv, NEW id \in heap, tiny_pfree(id)
    PROVE  PoolInv'
<1> DEFINE there == {k \in DOMAIN large : large[k].alloc = id}
           i == CHOOSE j \in there : \A k \in there : j <= k
<1>1. serial \in Nat /\ serial' = serial /\ PoolKept /\ LargeKept
  BY LargeMeans DEF PoolInv, tiny_pfree
<1>2. /\ there # {} /\ large' = [large EXCEPT ![i].alloc = 0] /\ heap' = heap \ {id}
      /\ UNCHANGED <<blocks, current, given>>
  BY DEF tiny_pfree
<1>3. i \in there
  <2>1. there \in SUBSET Nat
    BY <1>1, LargeMeans
  <2>2. \E j \in there : \A k \in there : j <= k
    BY <1>2, <2>1, FirstPlace
  <2>3. QED
    BY <2>2
<1>4. i \in DOMAIN large /\ large[i].alloc = id
  BY <1>3
<1>5. LargeKept'
  <2>1. HIDE DEF i, there
  <2>2. heap' = (heap \ {large[i].alloc}) \cup ({0} \ {0})
    BY <1>2, <1>4
  <2>3. 0 \in Nat /\ serial' \in Nat /\ serial <= serial' /\ 0 <= serial'
    BY <1>1
  <2>4. QED
    BY <1>1, <1>2, <1>4, <2>2, <2>3, LargeSet
<1>6. QED
  BY <1>1, <1>2, <1>5, StillKept DEF PoolInv

LEMMA CleanupStep ==
    ASSUME PoolInv, NEW size \in Sizes \cup {0}, tiny_pool_cleanup_add(size)
    PROVE  PoolInv'
<1> DEFINE rec == Small(Pool, CleanRec, TRUE)
           all == IF size = 0 THEN rec ELSE Small(rec, size, TRUE)
<1>1. PoolKept /\ LargeKept /\ serial' = serial /\ serial \in Nat /\ UNCHANGED <<large, heap>>
  BY LargeMeans DEF PoolInv, tiny_pool_cleanup_add
<1>2. size \in Nat /\ size <= SmallMax
  BY SizesFit DEF tiny_pool_cleanup_add
<1>3. Keep(all) \/ Keep(rec)
  BY DEF tiny_pool_cleanup_add
<1>4. Fit(rec) /\ rec.blocks # <<>>
  BY <1>1, KeptFits, SizesFit, SmallFits
<1>5. Fit(all) /\ all.blocks # <<>>
  <2>1. HIDE DEF rec
  <2>2. QED
    BY <1>2, <1>4, SmallFits
<1>6. HIDE DEF rec, all
<1>7. QED
  BY <1>1, <1>3, <1>4, <1>5, KeepsPool, LargeStill DEF PoolInv

\* A block of a pool that was reset ends where its header does.
LEMMA EmptyBlocks ==
    ASSUME NEW n \in Nat \ {0},
           blocks' = [i \in 1 .. n |-> [last |-> PoolHead, failed |-> 0]],
           current' = 1, given' = {}
    PROVE  PoolKept'
<1>1. [last |-> PoolHead, failed |-> 0] \in BlockRec
  BY SizesFit DEF BlockRec
<1>2. /\ blocks' \in Seq(BlockRec) /\ DOMAIN blocks' = 1 .. n
      /\ \A i \in 1 .. n : blocks'[i].last = PoolHead
  BY <1>1
<1>3. BlocksFit(blocks)'
  BY <1>2, SizesFit DEF BlocksFit, Header
<1>4. PiecesFit(blocks, given)'
  BY DEF PiecesFit
<1>5. QED
  BY <1>2, <1>3, <1>4 DEF PoolKept

LEMMA LargeGone ==
    ASSUME LargeKept, large' = <<>>, heap' = heap \ {large[i].alloc : i \in DOMAIN large},
           serial' = serial
    PROVE  LargeKept'
<1>1. heap' = {} /\ DOMAIN large' = {} /\ large' \in Seq(Entry)
  BY DEF LargeKept, LargeHeldOnce
<1>2. QED
  BY <1>1 DEF LargeKept, LargeHeldOnce

LEMMA ResetStep ==
    ASSUME PoolInv, tiny_reset_pool \/ tiny_destroy_pool
    PROVE  PoolInv'
<1>1. PoolKept /\ LargeKept
  BY DEF PoolInv
<1>2. \E n \in Nat \ {0} : blocks' = [i \in 1 .. n |-> [last |-> PoolHead, failed |-> 0]]
  <2>1. CASE tiny_reset_pool
    <3>1. Len(blocks) \in Nat \ {0} /\ DOMAIN blocks = 1 .. Len(blocks)
      BY <1>1 DEF PoolKept
    <3>2. QED
      BY <2>1, <3>1 DEF tiny_reset_pool
  <2>2. CASE tiny_destroy_pool
    <3>1. blocks' = [i \in 1 .. 1 |-> [last |-> PoolHead, failed |-> 0]]
      BY <2>2 DEF tiny_destroy_pool
    <3>2. QED
      BY <3>1
  <2>3. QED
    BY <2>1, <2>2
<1>3. /\ current' = 1 /\ given' = {} /\ large' = <<>> /\ serial' = serial
      /\ heap' = heap \ {large[i].alloc : i \in DOMAIN large}
  BY DEF tiny_reset_pool, tiny_destroy_pool
<1>4. PoolKept'
  BY <1>2, <1>3, EmptyBlocks
<1>5. LargeKept'
  BY <1>1, <1>3, LargeGone
<1>6. QED
  BY <1>4, <1>5 DEF PoolInv

LEMMA PoolStarts ==
    ASSUME PoolInit
    PROVE  PoolInv
<1>1. /\ blocks = <<[last |-> PoolHead, failed |-> 0]>> /\ current = 1 /\ given = {}
      /\ large = <<>> /\ heap = {} /\ serial = 0
  BY DEF PoolInit
<1>2. [last |-> PoolHead, failed |-> 0] \in BlockRec
  BY SizesFit DEF BlockRec
<1>3. blocks \in Seq(BlockRec) /\ DOMAIN blocks = {1} /\ blocks[1].last = PoolHead
  BY <1>1, <1>2
<1>4. BlocksFit(blocks)
  BY <1>3, SizesFit DEF BlocksFit, Header
<1>5. PoolKept
  BY <1>1, <1>3, <1>4 DEF PoolKept, PiecesFit
<1>6. DOMAIN large = {} /\ large \in Seq(Entry)
  BY <1>1
<1>7. LargeKept
  BY <1>1, <1>6 DEF LargeKept, LargeHeldOnce
<1>8. QED
  BY <1>5, <1>7 DEF PoolInv

LEMMA PoolStep ==
    ASSUME PoolInv, [PoolNext]_poolVars
    PROVE  PoolInv'
<1>1. PoolKept /\ LargeKept /\ serial \in Nat
  BY LargeMeans DEF PoolInv
<1>2. CASE UNCHANGED poolVars
  BY <1>1, <1>2, StillKept, LargeStill DEF poolVars, PoolInv
<1>3. CASE tiny_pmemalign(serial + 1)
  BY <1>3, NewEntryStep DEF tiny_pmemalign, Malloced
<1>4. QED
  BY <1>2, <1>3, PallocStep, PallocLargeStep, PfreeStep, CleanupStep, ResetStep DEF PoolNext

LEMMA InvSound ==
    ASSUME PoolInv
    PROVE  PoolSound
<1>1. ASSUME NEW g \in given
      PROVE  /\ g.block \in DOMAIN blocks
             /\ (IF g.block = 1 THEN PoolHead ELSE DataHead) <= g.lo
             /\ g.hi <= blocks[g.block].last /\ blocks[g.block].last <= Block
  BY DEF PoolInv, PoolKept, PiecesFit, BlocksFit, Inside, Header
<1>2. \A g, h \in given : g # h /\ g.block = h.block => g.hi <= h.lo \/ h.hi <= g.lo
  BY DEF PoolInv, PoolKept, PiecesFit, Apart
<1>3. LargeHeldOnce
  BY DEF PoolInv, LargeKept
<1>4. QED
  BY <1>1, <1>2, <1>3 DEF PoolSound, PiecesApart

(* What a pool hands out lies behind the header of its block, below the     *)
(* block's end and apart from every other piece, and each piece of large    *)
(* memory is held by one entry until it is freed: for any sizes, limits and *)
(* alignment, and after any number of resets.                               *)
THEOREM PoolSoundAlways == PoolSpec => []PoolSound
<1>1. PoolInit => PoolInv
  BY PoolStarts
<1>2. PoolInv /\ [PoolNext]_poolVars => PoolInv'
  BY PoolStep
<1>3. PoolInv => PoolSound
  BY InvSound
<1>4. QED
  BY <1>1, <1>2, <1>3, PTL DEF PoolSpec

-----------------------------------------------------------------------------
(* The operator & and the mask of the requests *)

LEMMA Induction ==
    ASSUME NEW T, T \subseteq Nat, 0 \in T, \A n \in T : n + 1 \in T
    PROVE  T = Nat
<1> SUFFICES ASSUME Nat \ T # {} PROVE FALSE
  OBVIOUS
<1>1. PICK n \in Nat \ T : \A k \in Nat \ T : ~(<<k, n>> \in OpToRel(<, Nat))
  BY NatLessThanWellFounded, WFMin
<1>2. n # 0 /\ n - 1 \in Nat
  OBVIOUS
<1>3. n - 1 \notin T
  BY <1>2
<1>4. <<n - 1, n>> \in OpToRel(<, Nat)
  BY <1>2 DEF OpToRel
<1>5. QED
  BY <1>1, <1>2, <1>3, <1>4

AndOf(f, a) == [b \in Nat |-> IF a = 0 \/ b = 0 THEN 0
                              ELSE 2 * f[a \div 2][b \div 2] + (a % 2) * (b % 2)]

LEMMA HalfIsLess ==
    ASSUME NEW a \in Nat, a # 0
    PROVE  a \div 2 \in Nat /\ a \div 2 < a
  OBVIOUS

LEMMA AndUpTo ==
    ASSUME NEW n \in Nat
    PROVE  \E f : f = [a \in 0 .. n |-> AndOf(f, a)]
<1> DEFINE T == {k \in Nat : \E f : f = [a \in 0 .. k |-> AndOf(f, a)]}
<1>1. 0 \in T
  <2> DEFINE f == [a \in 0 .. 0 |-> [b \in Nat |-> 0]]
  <2>1. \A a \in 0 .. 0 : a = 0
    OBVIOUS
  <2>2. AndOf(f, 0) = [b \in Nat |-> 0]
    BY DEF AndOf
  <2>3. f = [a \in 0 .. 0 |-> AndOf(f, a)]
    BY <2>1, <2>2
  <2>4. QED
    BY <2>3
<1>2. ASSUME NEW k \in T
      PROVE  k + 1 \in T
  <2>1. PICK f : f = [a \in 0 .. k |-> AndOf(f, a)]
    OBVIOUS
  <2> DEFINE g == [a \in 0 .. k + 1 |-> IF a \in 0 .. k THEN f[a] ELSE AndOf(f, a)]
  <2>2. ASSUME NEW a \in 0 .. k + 1
        PROVE  AndOf(g, a) = AndOf(f, a)
    <3>1. CASE a = 0
      BY <3>1 DEF AndOf
    <3>2. CASE a # 0
      <4>1. a \div 2 \in 0 .. k
        BY <3>2, HalfIsLess
      <4>2. g[a \div 2] = f[a \div 2]
        BY <4>1
      <4>3. HIDE DEF g
      <4>4. QED
        BY <4>2 DEF AndOf
    <3>3. QED
      BY <3>1, <3>2
  <2>3. \A a \in 0 .. k : f[a] = AndOf(f, a)
    BY <2>1
  <2>4. g = [a \in 0 .. k + 1 |-> AndOf(g, a)]
    BY <2>2, <2>3
  <2>5. \E h : h = [a \in 0 .. k + 1 |-> AndOf(h, a)]
    <3> HIDE DEF g
    <3>1. QED
      BY <2>4
  <2>6. QED
    BY <2>5
<1>3. T = Nat
  <2>1. T \subseteq Nat
    OBVIOUS
  <2> HIDE DEF T
  <2>2. QED
    BY <1>1, <1>2, <2>1, Induction
<1>4. QED
  BY <1>3

LEMMA AndUnique ==
    ASSUME NEW m \in Nat, NEW n \in Nat, NEW f, NEW g,
           f = [a \in 0 .. m |-> AndOf(f, a)], g = [a \in 0 .. n |-> AndOf(g, a)]
    PROVE  \A a \in Nat : a <= m /\ a <= n => f[a] = g[a]
<1> DEFINE T == {k \in Nat : \A a \in 0 .. k : a <= m /\ a <= n => f[a] = g[a]}
<1>5. \A a \in 0 .. m : f[a] = AndOf(f, a)
  OBVIOUS
<1>6. \A a \in 0 .. n : g[a] = AndOf(g, a)
  OBVIOUS
<1>1. 0 \in T
  <2>1. AndOf(f, 0) = AndOf(g, 0)
    BY DEF AndOf
  <2>2. f[0] = g[0]
    BY <1>5, <1>6, <2>1
  <2>3. QED
    BY <2>2
<1>2. ASSUME NEW k \in T
      PROVE  k + 1 \in T
  <2>1. ASSUME k + 1 <= m, k + 1 <= n
        PROVE  f[k + 1] = g[k + 1]
    <3>1. (k + 1) \div 2 \in 0 .. k
      BY HalfIsLess
    <3>2. f[(k + 1) \div 2] = g[(k + 1) \div 2]
      BY <2>1, <3>1
    <3>3. AndOf(f, k + 1) = AndOf(g, k + 1)
      BY <3>2 DEF AndOf
    <3>4. QED
      BY <1>5, <1>6, <2>1, <3>3
  <2>2. \A a \in 0 .. k + 1 : a \in 0 .. k \/ a = k + 1
    OBVIOUS
  <2>3. QED
    BY <2>1, <2>2
<1>3. T = Nat
  <2>1. T \subseteq Nat
    OBVIOUS
  <2> HIDE DEF T
  <2>2. QED
    BY <1>1, <1>2, <2>1, Induction
<1>4. ASSUME NEW a \in Nat, a <= m, a <= n
      PROVE  f[a] = g[a]
  <2>1. a \in T
    BY <1>3
  <2>2. a \in 0 .. a
    OBVIOUS
  <2>3. QED
    BY <1>4, <2>1, <2>2
<1>7. QED
  BY <1>4

LEMMA AndIs == BitAnd = [a \in Nat |-> AndOf(BitAnd, a)]
<1> DEFINE below(n) == CHOOSE f : f = [a \in 0 .. n |-> AndOf(f, a)]
           h == [n \in Nat |-> below(n)[n]]
<1>1. ASSUME NEW n \in Nat
      PROVE  below(n) = [a \in 0 .. n |-> AndOf(below(n), a)]
  BY AndUpTo
<1> HIDE DEF below
<1>2. ASSUME NEW n \in Nat, NEW a \in 0 .. n
      PROVE  below(n)[a] = h[a]
  <2>1. a \in Nat /\ a <= a /\ a <= n
    OBVIOUS
  <2>2. below(n)[a] = below(a)[a]
    BY <1>1, <2>1, AndUnique
  <2>3. QED
    BY <2>1, <2>2
<1>3. ASSUME NEW n \in Nat
      PROVE  h[n] = AndOf(h, n)
  <2>1. h[n] = AndOf(below(n), n)
    BY <1>1
  <2>2. AndOf(below(n), n) = AndOf(h, n)
    <3>1. CASE n = 0
      BY <3>1 DEF AndOf
    <3>2. CASE n # 0
      <4>1. n \div 2 \in 0 .. n
        BY <3>2, HalfIsLess
      <4>2. below(n)[n \div 2] = h[n \div 2]
        BY <1>2, <4>1
      <4>3. HIDE DEF h
      <4>4. QED
        BY <4>2 DEF AndOf
    <3>3. QED
      BY <3>1, <3>2
  <2>3. QED
    BY <2>1, <2>2
<1>4. h = [n \in Nat |-> AndOf(h, n)]
  BY <1>3
<1>5. \E f : f = [n \in Nat |-> AndOf(f, n)]
  <2> HIDE DEF h
  <2>1. QED
    BY <1>4
<1>6. BitAnd = CHOOSE f : f = [n \in Nat |-> AndOf(f, n)]
  BY DEF BitAnd, AndOf
<1>7. QED
  BY <1>5, <1>6

LEMMA AndStep ==
    ASSUME NEW a \in Nat, NEW b \in Nat
    PROVE  BitAnd[a][b] = IF a = 0 \/ b = 0 THEN 0
                          ELSE 2 * BitAnd[a \div 2][b \div 2] + (a % 2) * (b % 2)
<1>1. BitAnd[a] = AndOf(BitAnd, a)
  BY AndIs
<1>2. QED
  BY <1>1 DEF AndOf

LEMMA AndType == \A a, b \in Nat : BitAnd[a][b] \in Nat
<1> DEFINE T == {k \in Nat : \A a \in 0 .. k : \A b \in Nat : BitAnd[a][b] \in Nat}
<1>1. 0 \in T
  BY AndStep
<1>2. ASSUME NEW k \in T
      PROVE  k + 1 \in T
  <2>1. ASSUME NEW b \in Nat
        PROVE  BitAnd[k + 1][b] \in Nat
    <3>1. (k + 1) \div 2 \in 0 .. k /\ b \div 2 \in Nat
      BY HalfIsLess
    <3>2. BitAnd[(k + 1) \div 2][b \div 2] \in Nat
      BY <3>1
    <3>3. ((k + 1) % 2) * (b % 2) \in Nat
      <4>1. (k + 1) % 2 \in {0, 1} /\ b % 2 \in {0, 1}
        OBVIOUS
      <4>2. QED
        BY <4>1
    <3>4. QED
      BY AndStep, <3>2, <3>3
  <2>2. \A a \in 0 .. k + 1 : a \in 0 .. k \/ a = k + 1
    OBVIOUS
  <2>3. QED
    BY <2>1, <2>2
<1>3. T = Nat
  <2>1. T \subseteq Nat
    OBVIOUS
  <2> HIDE DEF T
  <2>2. QED
    BY <1>1, <1>2, <2>1, Induction
<1>4. QED
  <2>1. ASSUME NEW a \in Nat
        PROVE  \A b \in Nat : BitAnd[a][b] \in Nat
    <3>1. a \in T /\ a \in 0 .. a
      BY <1>3
    <3>2. QED
      BY <3>1
  <2>2. QED
    BY <2>1

LEMMA Halves ==
    ASSUME NEW n \in Nat
    PROVE  n % 2 \in {0, 1} /\ n \div 2 \in Nat /\ n = 2 * (n \div 2) + (n % 2)
  OBVIOUS

\* Two numbers share no bit when their halves share none and one is even.
LEMMA NoBitShared ==
    ASSUME NEW a \in Nat, NEW b \in Nat
    PROVE  BitAnd[a][b] = 0 <=> BitAnd[a \div 2][b \div 2] = 0 /\ (a % 2 = 0 \/ b % 2 = 0)
<1>1. /\ a \div 2 \in Nat /\ b \div 2 \in Nat /\ BitAnd[a \div 2][b \div 2] \in Nat
      /\ a % 2 \in {0, 1} /\ b % 2 \in {0, 1}
  BY AndType, Halves
<1>2. CASE a = 0 \/ b = 0
  <2>1. (a \div 2 = 0 /\ a % 2 = 0) \/ (b \div 2 = 0 /\ b % 2 = 0)
    BY <1>2
  <2>2. QED
    BY <1>1, <1>2, <2>1, AndStep
<1>3. CASE a # 0 /\ b # 0
  <2>1. BitAnd[a][b] = 2 * BitAnd[a \div 2][b \div 2] + (a % 2) * (b % 2)
    BY <1>3, AndStep
  <2>2. (a % 2) * (b % 2) = IF a % 2 = 0 \/ b % 2 = 0 THEN 0 ELSE 1
    BY <1>1
  <2> DEFINE both == (a % 2) * (b % 2)
             half == BitAnd[a \div 2][b \div 2]
  <2>3. half \in Nat /\ BitAnd[a][b] = 2 * half + both
        /\ both = IF a % 2 = 0 \/ b % 2 = 0 THEN 0 ELSE 1
    BY <1>1, <2>1, <2>2
  <2> HIDE DEF both, half
  <2>4. BitAnd[a][b] = 0 <=> half = 0 /\ (a % 2 = 0 \/ b % 2 = 0)
    BY <2>3
  <2>5. QED
    BY <2>4 DEF half
<1>4. QED
  BY <1>2, <1>3

\* From a number that shares no bit with m the next one is at most m + 1 away.
LEMMA ClearAhead ==
    \A a, m \in Nat : BitAnd[a][m] = 0 => \E y \in a + 1 .. a + m + 1 : BitAnd[y][m] = 0
<1> DEFINE P(m) == \A a \in Nat : BitAnd[a][m] = 0 =>
                     \E y \in Nat : a < y /\ y <= a + m + 1 /\ BitAnd[y][m] = 0
           T == {k \in Nat : \A m \in 0 .. k : P(m)}
<1>1. 0 \in T
  <2>1. ASSUME NEW a \in Nat
        PROVE  BitAnd[a + 1][0] = 0
    BY AndStep
  <2>2. P(0)
    BY <2>1
  <2>3. \A m \in 0 .. 0 : m = 0
    OBVIOUS
  <2> HIDE DEF P
  <2>4. QED
    BY <2>2, <2>3
<1>2. ASSUME NEW k \in T
      PROVE  k + 1 \in T
  <2> DEFINE m == k + 1
             h == m \div 2
  <2>1. h \in 0 .. k /\ m % 2 \in {0, 1} /\ m = 2 * h + (m % 2) /\ m \in Nat
    BY HalfIsLess, Halves
  <2>2. P(h)
    <3> HIDE DEF P, h
    <3>1. QED
      BY <2>1
  <2>3. ASSUME NEW a \in Nat, BitAnd[a][m] = 0
        PROVE  \E y \in Nat : a < y /\ y <= a + m + 1 /\ BitAnd[y][m] = 0
    <3> DEFINE c == a \div 2
    <3> HIDE DEF m, h
    <3>1. /\ c \in Nat /\ a = 2 * c + (a % 2) /\ a % 2 \in {0, 1}
          /\ BitAnd[c][h] = 0 /\ (a % 2 = 0 \/ m % 2 = 0)
      BY <2>1, <2>3, Halves, NoBitShared DEF h
    <3>2. CASE a % 2 = 0 /\ m % 2 = 0
      <4>1. (a + 1) \div 2 = c /\ a + 1 \in Nat
        BY <3>1, <3>2
      <4>2. BitAnd[a + 1][m] = 0
        BY <2>1, <3>1, <3>2, <4>1, NoBitShared DEF h
      <4>3. QED
        BY <2>1, <4>1, <4>2
    <3>3. CASE a % 2 = 1 \/ m % 2 = 1
      <4>1. PICK y \in Nat : c < y /\ y <= c + h + 1 /\ BitAnd[y][h] = 0
        BY <2>2, <3>1
      <4>2. 2 * y \in Nat /\ (2 * y) \div 2 = y /\ (2 * y) % 2 = 0
        BY <4>1
      <4>3. BitAnd[2 * y][m] = 0
        BY <2>1, <4>1, <4>2, NoBitShared DEF h
      <4>4. a < 2 * y /\ 2 * y <= a + m + 1
        <5> DEFINE r == a % 2
                   s == m % 2
        <5>1. /\ r \in {0, 1} /\ s \in {0, 1} /\ a = 2 * c + r /\ m = 2 * h + s
              /\ ((r = 1 /\ s = 0) \/ (r = 0 /\ s = 1)) /\ c \in Nat /\ h \in Nat
          BY <2>1, <3>1, <3>3
        <5> HIDE DEF r, s
        <5>2. QED
          BY <4>1, <5>1
      <4>5. QED
        BY <4>2, <4>3, <4>4
    <3>4. QED
      BY <2>1, <3>1, <3>2, <3>3
  <2>4. P(k + 1)
    BY <2>3
  <2>5. \A i \in 0 .. k + 1 : i \in 0 .. k \/ i = k + 1
    OBVIOUS
  <2> HIDE DEF P
  <2>6. QED
    BY <2>4, <2>5
<1>3. T = Nat
  <2>1. T \subseteq Nat
    OBVIOUS
  <2> HIDE DEF T
  <2>2. QED
    BY <1>1, <1>2, <2>1, Induction
<1>4. ASSUME NEW m \in Nat
      PROVE  P(m)
  <2> HIDE DEF P
  <2>1. m \in T
    <3> HIDE DEF T
    <3>1. QED
      BY <1>3
  <2>2. m \in 0 .. m
    OBVIOUS
  <2>3. QED
    BY <2>1, <2>2
<1>5. QED
  BY <1>4

(* What the count of requests and the held ones have to do with the last     *)
(* reset r: the mask let none through since.                                 *)
SinceReset(r, m, n, h) ==
    /\ BitAnd[r][m] = 0
    /\ \A y \in r + 1 .. n : BitAnd[y][m] # 0
    /\ h <= n - r + 1

RateInv ==
    /\ config \in Configs /\ accap_loop \in Nat /\ held \in Nat
    /\ config.reset_rate # 0 =>
          \E r \in 0 .. accap_loop : SinceReset(r, config.reset_rate - 1, accap_loop, held)

LEMMA RateStarts == ContainInit => RateInv
<1> SUFFICES ASSUME ContainInit PROVE RateInv
  OBVIOUS
<1>1. config \in Configs /\ accap_loop = 0 /\ held = 0
  BY DEF ContainInit
<1>2. ASSUME config.reset_rate # 0
      PROVE  SinceReset(0, config.reset_rate - 1, accap_loop, held)
  <2>1. config.reset_rate - 1 \in Nat
    BY <1>1, <1>2, ContainAssumption
  <2>2. BitAnd[0][config.reset_rate - 1] = 0
    BY <2>1, AndStep
  <2>3. QED
    BY <1>1, <2>2 DEF SinceReset
<1>3. QED
  BY <1>1, <1>2 DEF RateInv

LEMMA RateServed ==
    ASSUME RateInv, NEW uri \in Key, Serve(uri)
    PROVE  RateInv'
<1> DEFINE rate == config.reset_rate
<1>1. /\ config \in Configs /\ rate \in Nat /\ accap_loop \in Nat /\ held \in Nat
      /\ config' = config /\ accap_loop' = accap_loop + 1
  BY ContainAssumption DEF RateInv, Serve
<1>2. CASE rate = 0
  <2>1. held' = 0
    BY <1>2 DEF Serve
  <2>2. QED
    BY <1>1, <1>2, <2>1 DEF RateInv
<1>3. CASE rate # 0 /\ BitAnd[accap_loop + 1][rate - 1] = 0
  <2>1. held' = 1
    BY <1>1, <1>3 DEF Serve, POW2N_MOD
  <2>2. SinceReset(accap_loop + 1, rate - 1, accap_loop + 1, 1)
    BY <1>1, <1>3, <2>1 DEF SinceReset
  <2>3. accap_loop + 1 \in 0 .. accap_loop'
    BY <1>1
  <2>4. QED
    BY <1>1, <2>1, <2>2, <2>3 DEF RateInv
<1>4. CASE rate # 0 /\ BitAnd[accap_loop + 1][rate - 1] # 0
  <2>1. held' = held + 1
    BY <1>1, <1>4 DEF Serve, POW2N_MOD
  <2>2. PICK r \in 0 .. accap_loop : SinceReset(r, rate - 1, accap_loop, held)
    BY <1>4 DEF RateInv
  <2>3. \A y \in r + 1 .. accap_loop + 1 : y \in r + 1 .. accap_loop \/ y = accap_loop + 1
    BY <1>1
  <2>4. \A y \in r + 1 .. accap_loop' : BitAnd[y][rate - 1] # 0
    BY <1>1, <1>4, <2>2, <2>3 DEF SinceReset
  <2>5. held' <= accap_loop' - r + 1 /\ r \in 0 .. accap_loop' /\ held' \in Nat
    BY <1>1, <2>1, <2>2 DEF SinceReset
  <2>6. SinceReset(r, rate - 1, accap_loop + 1, held + 1)
    BY <1>1, <2>2, <2>4, <2>5 DEF SinceReset
  <2>7. SinceReset(r, config'.reset_rate - 1, accap_loop', held')
    BY <1>1, <2>1, <2>6
  <2>8. QED
    BY <1>1, <2>5, <2>7 DEF RateInv
<1>5. QED
  BY <1>2, <1>3, <1>4

LEMMA RateStep ==
    ASSUME RateInv, [ContainNext]_containVars
    PROVE  RateInv'
<1>1. ASSUME UNCHANGED <<config, poolLoop>>
      PROVE  RateInv'
  BY <1>1 DEF RateInv, SinceReset, poolLoop
<1>2. CASE UNCHANGED containVars
  BY <1>1, <1>2 DEF containVars
<1>3. CASE ContainStep \/ DlopenFails \/ AcceptFails
  <2>1. UNCHANGED <<config, poolLoop>>
    BY <1>3 DEF ContainStep, LoadConfig, CreatePools, OpenEntry, OpenedAll, MapEntry, MappedAll,
                CloseEntry, ClosedAll, DlopenFails, AcceptFails
  <2>2. QED
    BY <1>1, <2>1
<1>4. CASE \E uri \in Key : Serve(uri)
  BY <1>4, RateServed
<1>5. QED
  BY <1>2, <1>3, <1>4 DEF ContainNext

LEMMA RateInvMeans == RateInv => PoolResetInTime
<1> SUFFICES ASSUME RateInv, config.reset_rate # 0
             PROVE  held <= config.reset_rate
  BY DEF PoolResetInTime
<1> DEFINE m == config.reset_rate - 1
<1>1. m \in Nat /\ config.reset_rate = m + 1 /\ accap_loop \in Nat /\ held \in Nat
  BY ContainAssumption DEF RateInv
<1>2. PICK r \in 0 .. accap_loop : SinceReset(r, m, accap_loop, held)
  BY <1>1 DEF RateInv
<1>3. PICK y \in r + 1 .. r + m + 1 : BitAnd[y][m] = 0
  BY <1>1, <1>2, ClearAhead DEF SinceReset
<1>4. y \notin r + 1 .. accap_loop
  BY <1>2, <1>3 DEF SinceReset
<1> HIDE DEF m
<1>5. accap_loop - r + 1 <= m + 1
  BY <1>1, <1>3, <1>4
<1>6. QED
  BY <1>1, <1>2, <1>5 DEF SinceReset

(* The pool never holds the memory of more requests than its rate, for any   *)
(* rate, also one that is no power of 2, and any number of requests.         *)
THEOREM PoolResetInTimeAlways == ContainSpec => []PoolResetInTime
<1>1. ContainInit => RateInv
  BY RateStarts
<1>2. RateInv /\ [ContainNext]_containVars => RateInv'
  BY RateStep
<1>3. RateInv => PoolResetInTime
  BY RateInvMeans
<1>4. QED
  BY <1>1, <1>2, <1>3, PTL DEF ContainSpec

-----------------------------------------------------------------------------
(* The map *)

Node == [key : Key, data : Data]

\* A chain has nodes of its own keys, each once.
ChainOf(c, chain) ==
    /\ chain \in Seq(Node)
    /\ \A i \in DOMAIN chain : hashinde(chain[i].key) = c
    /\ \A i, j \in DOMAIN chain : chain[i].key = chain[j].key => i = j

HmapInv == DOMAIN hmaplist = Chains /\ \A c \in Chains : ChainOf(c, hmaplist[c])

\* A look-up finds the key exactly when there is a node of it.
NodesFound ==
    \A k \in Key : phm_value(hmaplist, k) # NULL
                       <=> \E c \in Chains : \E i \in DOMAIN hmaplist[c] : hmaplist[c][i].key = k

LEMMA HashInRange == \A k \in Key : hashinde(k) \in Chains
<1>1. ASSUME NEW k \in Key PROVE Hash[k] \in Nat
  BY HashAssumption
<1>2. ASSUME NEW n \in Nat PROVE n % HashSize \in 0 .. HashSize - 1
  BY HashAssumption
<1>3. QED
  BY <1>1, <1>2 DEF hashinde, Chains

LEMMA ChainMeans ==
    ASSUME NEW c, NEW chain, ChainOf(c, chain)
    PROVE  /\ chain \in Seq(Node) /\ Len(chain) \in Nat /\ DOMAIN chain = 1 .. Len(chain)
           /\ \A i \in DOMAIN chain : /\ i \in Nat \ {0} /\ chain[i] \in Node
                                      /\ chain[i].key \in Key /\ chain[i].data \in Data
<1>1. chain \in Seq(Node) /\ Len(chain) \in Nat /\ DOMAIN chain = 1 .. Len(chain)
  BY DEF ChainOf
<1>2. \A i \in DOMAIN chain : i \in Nat \ {0} /\ chain[i] \in Node
  BY <1>1
<1>3. QED
  BY <1>1, <1>2 DEF Node

\* The place of a key: 0, or the only one.
LEMMA FirstIs ==
    ASSUME NEW c, NEW chain, ChainOf(c, chain), NEW key
    PROVE  \/ FirstOf(chain, key) = 0 /\ \A i \in DOMAIN chain : chain[i].key # key
           \/ FirstOf(chain, key) \in DOMAIN chain /\ chain[FirstOf(chain, key)].key = key
<1> DEFINE there == {i \in DOMAIN chain : chain[i].key = key}
<1>1. CASE there = {}
  BY <1>1 DEF FirstOf
<1>2. CASE there # {}
  <2>1. PICK i \in there : TRUE
    BY <1>2
  <2>2. \A j \in there : i <= j
    <3>1. \A j \in there : j = i
      BY <2>1 DEF ChainOf
    <3>2. i \in Nat
      BY <2>1, ChainMeans
    <3>3. QED
      BY <3>1, <3>2
  <2>3. (CHOOSE n \in there : \A j \in there : n <= j) \in there
    BY <2>1, <2>2
  <2>4. QED
    BY <1>2, <2>3 DEF FirstOf
<1>3. QED
  BY <1>1, <1>2

LEMMA InsertedIs ==
    ASSUME NEW c, NEW chain, ChainOf(c, chain), NEW key \in Key, NEW data \in Data,
           hashinde(key) = c
    PROVE  ChainOf(c, Inserted(chain, key, data))
<1> DEFINE i == FirstOf(chain, key)
           new == Inserted(chain, key, data)
<1>1. CASE i # 0
  <2>1. i \in DOMAIN chain /\ chain[i].key = key
    BY <1>1, FirstIs
  <2>2. new = [chain EXCEPT ![i].data = data]
    BY <1>1 DEF Inserted
  <2>3. chain[i] \in Node /\ chain \in Seq(Node) /\ \A j \in DOMAIN chain : chain[j] \in Node
    BY <2>1, ChainMeans
  <2>4. /\ [chain[i] EXCEPT !.data = data] \in Node
        /\ [chain[i] EXCEPT !.data = data].key = chain[i].key
    BY <2>3 DEF Node
  <2>5. HIDE DEF i
  <2>6. /\ new \in [DOMAIN chain -> Node] /\ new[i] = [chain[i] EXCEPT !.data = data]
        /\ \A j \in DOMAIN chain : j # i => new[j] = chain[j]
    BY <2>1, <2>2, <2>3, <2>4
  <2>7. \A j \in DOMAIN chain : new[j].key = chain[j].key
    BY <2>4, <2>6
  <2>8. new \in Seq(Node) /\ DOMAIN new = DOMAIN chain
    BY <2>6, ChainMeans
  <2>9. HIDE DEF new
  <2>10. ChainOf(c, new)
    BY <2>7, <2>8 DEF ChainOf
  <2>11. QED
    BY <2>10 DEF new
<1>2. CASE i = 0
  <2> DEFINE n == Len(chain)
             e == [key |-> key, data |-> data]
  <2>1. \A j \in DOMAIN chain : chain[j].key # key
    BY <1>2, FirstIs, ChainMeans
  <2>2. new = Append(chain, e)
    BY <1>2 DEF Inserted
  <2>3. e \in Node /\ e.key = key
    BY DEF Node
  <2>4. chain \in Seq(Node) /\ n \in Nat /\ DOMAIN chain = 1 .. n
    BY ChainMeans
  <2>5. HIDE DEF i, e
  <2>6. /\ new \in Seq(Node) /\ DOMAIN new = 1 .. n + 1 /\ new[n + 1] = e
        /\ \A j \in 1 .. n : new[j] = chain[j]
    BY <2>2, <2>3, <2>4
  <2>7. HIDE DEF new
  <2>8. \A j \in 1 .. n + 1 : j \in 1 .. n \/ j = n + 1
    BY <2>4
  <2>9. \A j \in DOMAIN new : hashinde(new[j].key) = c
    BY <2>3, <2>4, <2>6, <2>8 DEF ChainOf
  <2>10. \A j, k \in DOMAIN new : new[j].key = new[k].key => j = k
    BY <2>1, <2>3, <2>4, <2>6, <2>8 DEF ChainOf
  <2>11. ChainOf(c, new)
    BY <2>6, <2>9, <2>10 DEF ChainOf
  <2>12. QED
    BY <2>11 DEF new
<1>3. QED
  BY <1>1, <1>2

LEMMA RemovedIs ==
    ASSUME NEW c, NEW chain, ChainOf(c, chain), NEW i \in DOMAIN chain
    PROVE  ChainOf(c, RemoveAt(chain, i))
<1> DEFINE n == Len(chain)
           new == RemoveAt(chain, i)
           old(j) == IF j < i THEN j ELSE j + 1
<1>1. chain \in Seq(Node) /\ n \in Nat /\ DOMAIN chain = 1 .. n /\ i \in 1 .. n
  BY ChainMeans
<1> DEFINE front == SubSeq(chain, 1, i - 1)
           back  == SubSeq(chain, i + 1, n)
<1>2. new = front \o back
  BY DEF RemoveAt
<1>3. i \in Nat /\ 1 <= i /\ i <= n /\ n \in Nat /\ \A j \in 1 .. n : chain[j] \in Node
  BY <1>1
<1> HIDE DEF n, new, old
<1>4. /\ front \in Seq(Node) /\ Len(front) = i - 1
      /\ \A j \in 1 .. i - 1 : front[j] = chain[j]
  <2>1. \A j \in 1 .. i - 1 : chain[j] \in Node
    BY <1>1, <1>3
  <2>2. /\ front \in Seq(Node) /\ Len(front) = (IF 1 <= i - 1 THEN (i - 1) - 1 + 1 ELSE 0)
        /\ \A j \in 1 .. (i - 1) - 1 + 1 : front[j] = chain[1 + j - 1]
    BY <1>3, <2>1, SubSeqProperties
  <2>3. HIDE DEF front
  <2>4. QED
    BY <1>3, <2>2
<1>5. /\ back \in Seq(Node) /\ Len(back) = n - i
      /\ \A j \in 1 .. n - i : back[j] = chain[j + i]
  <2>1. \A j \in i + 1 .. n : chain[j] \in Node
    BY <1>1, <1>3
  <2>2. /\ back \in Seq(Node) /\ Len(back) = (IF i + 1 <= n THEN n - (i + 1) + 1 ELSE 0)
        /\ \A j \in 1 .. n - (i + 1) + 1 : back[j] = chain[(i + 1) + j - 1]
    BY <1>1, <1>3, <2>1, SubSeqProperties
  <2>3. HIDE DEF back
  <2>4. (IF i + 1 <= n THEN n - (i + 1) + 1 ELSE 0) = n - i /\ n - (i + 1) + 1 = n - i
    BY <1>3
  <2>5. \A j \in 1 .. n - i : (i + 1) + j - 1 = j + i
    BY <1>3
  <2>6. QED
    BY <2>2, <2>4, <2>5
<1>6. HIDE DEF front, back
<1>7. /\ new \in Seq(Node) /\ Len(new) = n - 1
      /\ \A j \in 1 .. n - 1 : new[j] = IF j <= i - 1 THEN front[j] ELSE back[j - (i - 1)]
  <2>1. /\ new \in Seq(Node) /\ Len(new) = Len(front) + Len(back)
        /\ \A j \in 1 .. Len(front) + Len(back) :
               new[j] = IF j <= Len(front) THEN front[j] ELSE back[j - Len(front)]
    BY <1>2, <1>4, <1>5, ConcatProperties
  <2>2. Len(front) + Len(back) = n - 1
    BY <1>3, <1>4, <1>5
  <2>3. QED
    BY <1>4, <2>1, <2>2
<1>8. \A j \in 1 .. n - 1 : new[j] = chain[old(j)] /\ old(j) \in 1 .. n
  <2>1. ASSUME NEW j \in 1 .. n - 1, j < i PROVE new[j] = chain[j] /\ j \in 1 .. n
    <3>1. j \in 1 .. i - 1 /\ j <= i - 1 /\ j \in 1 .. n
      BY <1>3, <2>1
    <3>2. QED
      BY <1>4, <1>7, <3>1
  <2>2. ASSUME NEW j \in 1 .. n - 1, ~(j < i) PROVE new[j] = chain[j + 1] /\ j + 1 \in 1 .. n
    <3>1. j - (i - 1) \in 1 .. n - i /\ ~(j <= i - 1)
      BY <1>3, <2>2
    <3>2. new[j] = back[j - (i - 1)] /\ back[j - (i - 1)] = chain[(j - (i - 1)) + i]
      BY <1>5, <1>7, <3>1
    <3>3. (j - (i - 1)) + i = j + 1 /\ j + 1 \in 1 .. n
      BY <1>3
    <3>4. QED
      BY <3>2, <3>3
  <2>3. QED
    BY <2>1, <2>2 DEF old
<1>9. \A j, k \in 1 .. n - 1 : old(j) = old(k) => j = k
  BY <1>3 DEF old
<1>10. DOMAIN new = 1 .. n - 1
  BY <1>7
<1>11. \A j \in DOMAIN new : hashinde(new[j].key) = c
  BY <1>1, <1>8, <1>10 DEF ChainOf
<1>12. \A j, k \in DOMAIN new : new[j].key = new[k].key => j = k
  BY <1>1, <1>8, <1>9, <1>10 DEF ChainOf
<1>13. ChainOf(c, new)
  BY <1>7, <1>11, <1>12 DEF ChainOf
<1>14. QED
  BY <1>13 DEF new

LEMMA HmapStarts ==
    ASSUME NEW list, list = [c \in Chains |-> <<>>]
    PROVE  DOMAIN list = Chains /\ \A c \in Chains : ChainOf(c, list[c])
<1>1. \A c : ChainOf(c, <<>>)
  BY DEF ChainOf
<1>2. QED
  BY <1>1

LEMMA HmapStep ==
    ASSUME HmapInv, [HmapNext]_hmapVars
    PROVE  HmapInv'
<1>1. CASE UNCHANGED hmapVars
  BY <1>1 DEF HmapInv, hmapVars, ChainOf
<1>2. ASSUME NEW c \in Chains, NEW new, ChainOf(c, new), hmaplist' = [hmaplist EXCEPT ![c] = new]
      PROVE  HmapInv'
  <2>1. DOMAIN hmaplist' = Chains /\ \A d \in Chains : hmaplist'[d] = IF d = c THEN new ELSE hmaplist[d]
    BY <1>2 DEF HmapInv
  <2>2. \A d \in Chains : ChainOf(d, hmaplist'[d])
    BY <1>2, <2>1 DEF HmapInv
  <2>3. QED
    BY <2>1, <2>2 DEF HmapInv, ChainOf
<1>3. ASSUME NEW key \in Key, NEW data \in Data, phm_insert(key, data)
      PROVE  HmapInv'
  <2>1. hashinde(key) \in Chains
    BY HashInRange
  <2>2. ChainOf(hashinde(key), Inserted(hmaplist[hashinde(key)], key, data))
    BY <2>1, InsertedIs DEF HmapInv
  <2>3. hmaplist' = [hmaplist EXCEPT ![hashinde(key)] = Inserted(hmaplist[hashinde(key)], key, data)]
    BY <1>3 DEF phm_insert
  <2>4. QED
    BY <1>2, <2>1, <2>2, <2>3
<1>4. ASSUME NEW key \in Key, phm_remove(key)
      PROVE  HmapInv'
  <2> DEFINE c == hashinde(key)
             i == FirstOf(hmaplist[c], key)
  <2>1. c \in Chains /\ ChainOf(c, hmaplist[c])
    BY HashInRange DEF HmapInv
  <2>2. CASE i = 0
    BY <1>1, <1>4, <2>2 DEF phm_remove
  <2>3. CASE i # 0
    <3>1. hmaplist' = [hmaplist EXCEPT ![c] = RemoveAt(hmaplist[c], i)]
      BY <1>4, <2>3 DEF phm_remove
    <3>2. ChainOf(c, RemoveAt(hmaplist[c], i))
      BY <2>1, <2>3, FirstIs, RemovedIs
    <3>3. QED
      BY <1>2, <2>1, <3>1, <3>2
  <2>4. QED
    BY <2>2, <2>3
<1>5. CASE phm_dele
  <2>1. DOMAIN hmaplist' = Chains /\ \A c \in Chains : ChainOf(c, hmaplist'[c])
    BY <1>5, HmapStarts DEF phm_dele
  <2>2. QED
    BY <2>1 DEF HmapInv, ChainOf
<1>6. QED
  BY <1>1, <1>3, <1>4, <1>5 DEF HmapNext

LEMMA HmapInvMeans ==
    ASSUME HmapInv
    PROVE  OneNode /\ NodesFound
<1>1. ASSUME NEW c \in Chains, NEW i \in DOMAIN hmaplist[c]
      PROVE  /\ hashinde(hmaplist[c][i].key) = c
             /\ FirstOf(hmaplist[c], hmaplist[c][i].key) = i
  <2>1. ChainOf(c, hmaplist[c])
    BY DEF HmapInv
  <2>2. QED
    BY <2>1, FirstIs DEF ChainOf
<1>2. ASSUME NEW k \in Key
      PROVE  phm_value(hmaplist, k) # NULL
                 <=> \E c \in Chains : \E i \in DOMAIN hmaplist[c] : hmaplist[c][i].key = k
  <2> DEFINE d == hashinde(k)
             i == FirstOf(hmaplist[d], k)
  <2>1. d \in Chains /\ ChainOf(d, hmaplist[d])
    BY HashInRange DEF HmapInv
  <2>2. phm_value(hmaplist, k) = IF i = 0 THEN NULL ELSE hmaplist[d][i].data
    BY DEF phm_value
  <2>3. CASE i = 0
    <3>1. \A j \in DOMAIN hmaplist[d] : hmaplist[d][j].key # k
      BY <2>1, <2>3, FirstIs, ChainMeans
    <3>2. \A c \in Chains : \A j \in DOMAIN hmaplist[c] : hmaplist[c][j].key # k
      BY <1>1, <3>1
    <3>3. QED
      BY <2>2, <2>3, <3>2
  <2>4. CASE i # 0
    <3>1. i \in DOMAIN hmaplist[d] /\ hmaplist[d][i].key = k
      BY <2>1, <2>4, FirstIs
    <3>2. hmaplist[d][i].data # NULL
      BY <2>1, <3>1, ChainMeans, HashAssumption
    <3>3. QED
      BY <2>1, <2>2, <2>4, <3>1, <3>2
  <2>5. QED
    BY <2>3, <2>4
<1>3. QED
  BY <1>1, <1>2 DEF OneNode, NodesFound

(* Whatever is inserted, replaced and removed, a key has one node at most,  *)
(* on the chain its hash names, and a look-up finds what is there.          *)
THEOREM OneNodeAlways == HmapSpec => [](OneNode /\ NodesFound)
<1>1. HmapInit => HmapInv
  BY HmapStarts DEF HmapInit, phm_create, HmapInv
<1>2. HmapInv /\ [HmapNext]_hmapVars => HmapInv'
  BY HmapStep
<1>3. HmapInv => OneNode /\ NodesFound
  BY HmapInvMeans
<1>4. QED
  BY <1>1, <1>2, <1>3, PTL DEF HmapSpec

-----------------------------------------------------------------------------
(* The walk over a map *)

\* f goes from c in n steps of G.
Goes(n, c, G, f) == f[0] = c /\ \A k \in 1 .. n : f[k] = G[k][f[k - 1]]

LEMMA Iterates ==
    ASSUME NEW n \in Nat, NEW X, NEW c \in X, NEW G \in [1 .. n -> [X -> X]]
    PROVE  \E f \in [0 .. n -> X] : Goes(n, c, G, f)
<1> DEFINE T == {k \in Nat : k <= n => \E f \in [0 .. k -> X] : Goes(k, c, G, f)}
<1>1. 0 \in T
  <2> DEFINE f == [k \in 0 .. 0 |-> c]
  <2>1. f \in [0 .. 0 -> X] /\ Goes(0, c, G, f)
    BY DEF Goes
  <2> HIDE DEF f
  <2>2. QED
    BY <2>1
<1>2. ASSUME NEW k \in T
      PROVE  k + 1 \in T
  <2>1. ASSUME k + 1 <= n
        PROVE  \E f \in [0 .. k + 1 -> X] : Goes(k + 1, c, G, f)
    <3>1. PICK f \in [0 .. k -> X] : Goes(k, c, G, f)
      <4>1. k <= n /\ k \in Nat
        BY <2>1
      <4>2. QED
        BY <4>1
    <3> DEFINE g == [j \in 0 .. k + 1 |-> IF j = k + 1 THEN G[k + 1][f[k]] ELSE f[j]]
    <3>2. k + 1 \in 1 .. n /\ k \in 0 .. k /\ f[k] \in X
      BY <2>1
    <3>3. G[k + 1] \in [X -> X]
      BY <3>2
    <3>4. G[k + 1][f[k]] \in X
      BY <3>2, <3>3
    <3>5. g \in [0 .. k + 1 -> X]
      <4>1. \A j \in 0 .. k + 1 : j = k + 1 \/ j \in 0 .. k
        OBVIOUS
      <4>2. QED
        BY <3>4, <4>1
    <3>6. \A j \in 1 .. k + 1 : j = k + 1 \/ (j \in 1 .. k /\ j - 1 \in 0 .. k)
      OBVIOUS
    <3>7. \A j \in 0 .. k : g[j] = f[j] /\ g[k + 1] = G[k + 1][f[k]]
      OBVIOUS
    <3> HIDE DEF g
    <3>8. g[0] = c
      BY <3>1, <3>7 DEF Goes
    <3>9. \A j \in 1 .. k + 1 : g[j] = G[j][g[j - 1]]
      <4>1. g[k + 1] = G[k + 1][g[(k + 1) - 1]]
        BY <3>2, <3>7
      <4>2. ASSUME NEW j \in 1 .. k
            PROVE  g[j] = G[j][g[j - 1]]
        <5>1. j \in 0 .. k /\ j - 1 \in 0 .. k
          OBVIOUS
        <5>2. QED
          BY <3>1, <3>7, <5>1 DEF Goes
      <4>3. QED
        BY <3>6, <4>1, <4>2
    <3>10. Goes(k + 1, c, G, g)
      BY <3>8, <3>9 DEF Goes
    <3>11. QED
      BY <3>5, <3>10
  <2>2. QED
    BY <2>1
<1>3. T = Nat
  <2>1. T \subseteq Nat
    OBVIOUS
  <2> HIDE DEF T
  <2>2. QED
    BY <1>1, <1>2, <2>1, Induction
<1>4. \E f \in [0 .. n -> X] : Goes(n, c, G, f)
  <2>1. n \in T
    <3> HIDE DEF T
    <3>1. QED
      BY <1>3
  <2>2. n <= n
    OBVIOUS
  <2>3. QED
    BY <2>1, <2>2
<1>5. QED
  BY <1>4

KeysOf(chain) == [i \in DOMAIN chain |-> chain[i].key]

\* The walk over the first chains of a map.
Walks(hmap, walk) ==
    /\ walk \in [0 .. HashSize -> Seq(Key)]
    /\ walk[0] = <<>>
    /\ \A c \in Chains : walk[c + 1] = walk[c] \o KeysOf(hmap[c])

LEMMA WalkIs ==
    ASSUME NEW hmap, \A c \in Chains : ChainOf(c, hmap[c])
    PROVE  \E walk : Walks(hmap, walk) /\ phm_for_each(hmap) = walk[HashSize]
<1> DEFINE n == HashSize
           G == [k \in 1 .. n |-> [s \in Seq(Key) |-> s \o KeysOf(hmap[k - 1])]]
           W(w) == [c \in 0 .. n |-> IF c = 0 THEN <<>>
                    ELSE w[c - 1] \o [i \in DOMAIN hmap[c - 1] |-> hmap[c - 1][i].key]]
<1>1. n \in Nat /\ n # 0
  BY HashAssumption
<1>2. \A c \in Chains : KeysOf(hmap[c]) \in Seq(Key)
  BY ChainMeans DEF KeysOf
<1>3. G \in [1 .. n -> [Seq(Key) -> Seq(Key)]]
  <2>1. \A k \in 1 .. n : k - 1 \in Chains
    BY <1>1 DEF Chains
  <2>2. \A k \in 1 .. n : \A s \in Seq(Key) : s \o KeysOf(hmap[k - 1]) \in Seq(Key)
    BY <1>2, <2>1
  <2>3. QED
    BY <2>2
<1>4. PICK f \in [0 .. n -> Seq(Key)] : Goes(n, <<>>, G, f)
  <2> HIDE DEF n, G
  <2>1. <<>> \in Seq(Key)
    OBVIOUS
  <2>2. QED
    BY <1>1, <1>3, <2>1, Iterates
<1>5. ASSUME NEW k \in 1 .. n
      PROVE  f[k] = f[k - 1] \o KeysOf(hmap[k - 1])
  <2>1. k - 1 \in 0 .. n /\ f[k - 1] \in Seq(Key)
    BY <1>1
  <2>2. f[k] = G[k][f[k - 1]]
    BY <1>4 DEF Goes
  <2>3. QED
    BY <2>1, <2>2
<1>6. f = W(f)
  <2>1. DOMAIN f = 0 .. n /\ DOMAIN W(f) = 0 .. n
    OBVIOUS
  <2>2. ASSUME NEW c \in 0 .. n
        PROVE  f[c] = W(f)[c]
    <3>1. CASE c = 0
      BY <1>4, <3>1 DEF Goes
    <3>2. CASE c # 0
      <4>1. c \in 1 .. n
        BY <1>1, <3>2
      <4>2. QED
        BY <1>5, <3>2, <4>1 DEF KeysOf
    <3>3. QED
      BY <3>1, <3>2
  <2>3. f = [c \in 0 .. n |-> f[c]]
    OBVIOUS
  <2>4. QED
    BY <2>2, <2>3
<1> DEFINE walk == CHOOSE w : w = W(w)
<1>7. walk = W(walk)
  BY <1>6
<1>8. phm_for_each(hmap) = walk[n]
  BY DEF phm_for_each
<1>9. DOMAIN walk = 0 .. n /\ walk[0] = <<>>
      /\ \A k \in 1 .. n : walk[k] = walk[k - 1] \o KeysOf(hmap[k - 1])
  <2> HIDE DEF walk
  <2>1. DOMAIN W(walk) = 0 .. n /\ W(walk)[0] = <<>>
        /\ \A k \in 1 .. n : W(walk)[k] = walk[k - 1] \o KeysOf(hmap[k - 1])
    BY <1>1 DEF KeysOf
  <2>2. QED
    BY <1>7, <2>1
<1> HIDE DEF walk, W, G
<1>10. \A k \in 0 .. n : walk[k] \in Seq(Key)
  <2> DEFINE T == {k \in Nat : k <= n => walk[k] \in Seq(Key)}
  <2>1. 0 \in T
    <3>1. walk[0] \in Seq(Key)
      <4>1. <<>> \in Seq(Key)
        OBVIOUS
      <4>2. QED
        BY <1>9, <4>1
    <3>2. QED
      BY <3>1
  <2>2. ASSUME NEW k \in T
        PROVE  k + 1 \in T
    <3>1. ASSUME k + 1 <= n
          PROVE  walk[k + 1] \in Seq(Key)
      <4>1. k \in Chains /\ k + 1 \in 1 .. n /\ (k + 1) - 1 = k /\ k <= n
        BY <1>1, <3>1 DEF Chains
      <4>2. walk[k + 1] = walk[k] \o KeysOf(hmap[k])
        BY <1>9, <4>1
      <4>3. walk[k] \in Seq(Key) /\ KeysOf(hmap[k]) \in Seq(Key)
        BY <1>2, <4>1
      <4>4. QED
        BY <4>2, <4>3
    <3>2. QED
      BY <3>1
  <2>3. T = Nat
    <3>1. T \subseteq Nat
      OBVIOUS
    <3> HIDE DEF T
    <3>2. QED
      BY <2>1, <2>2, <3>1, Induction
  <2>4. \A k \in 0 .. n : k \in T /\ k <= n
    <3> HIDE DEF T
    <3>1. QED
      BY <1>1, <2>3
  <2>5. QED
    BY <2>4
<1>11. Walks(hmap, walk)
  <2>1. \A c \in Chains : c + 1 \in 1 .. n /\ (c + 1) - 1 = c
    BY <1>1 DEF Chains
  <2>2. walk \in [0 .. n -> Seq(Key)]
    <3>1. walk = [c \in 0 .. n |-> walk[c]]
      <4>1. \E w : walk = [c \in 0 .. n |-> w[c]]
        BY <1>7 DEF W
      <4>2. QED
        BY <4>1
    <3>2. QED
      BY <1>10, <3>1
  <2>3. QED
    BY <1>9, <2>1, <2>2 DEF Walks
<1>12. QED
  BY <1>8, <1>11

ChainsOf(hmap) == \A c \in Chains : ChainOf(c, hmap[c])

LEMMA WalkMeans ==
    ASSUME NEW hmap, NEW walk, ChainsOf(hmap), Walks(hmap, walk)
    PROVE  /\ \A c \in 0 .. HashSize : walk[c] \in Seq(Key) /\ Len(walk[c]) \in Nat
           /\ Len(walk[0]) = 0
           /\ \A c \in Chains : Len(walk[c + 1]) = Len(walk[c]) + Len(hmap[c])
<1>1. HashSize \in Nat
  BY HashAssumption
<1>2. \A c \in 0 .. HashSize : walk[c] \in Seq(Key) /\ Len(walk[c]) \in Nat
  <2>1. \A c \in 0 .. HashSize : walk[c] \in Seq(Key)
    BY DEF Walks
  <2>2. QED
    BY <2>1
<1>3. ASSUME NEW c \in Chains
      PROVE  Len(walk[c + 1]) = Len(walk[c]) + Len(hmap[c])
  <2>1. c \in 0 .. HashSize /\ walk[c] \in Seq(Key)
    BY <1>1, <1>2 DEF Chains
  <2>2. KeysOf(hmap[c]) \in Seq(Key) /\ Len(KeysOf(hmap[c])) = Len(hmap[c])
    BY ChainMeans DEF ChainsOf, KeysOf
  <2>3. walk[c + 1] = walk[c] \o KeysOf(hmap[c])
    BY DEF Walks
  <2> DEFINE s == walk[c]
             t == KeysOf(hmap[c])
  <2>4. s \in Seq(Key) /\ t \in Seq(Key)
    BY <2>1, <2>2
  <2> HIDE DEF s, t
  <2>5. Len(s \o t) = Len(s) + Len(t)
    BY <2>4
  <2>6. QED
    BY <2>2, <2>3, <2>5 DEF s, t
<1>4. Len(walk[0]) = 0
  <2>1. walk[0] = <<>>
    BY DEF Walks
  <2>2. QED
    BY <2>1
<1>5. QED
  BY <1>2, <1>3, <1>4

\* One chain that grows by d makes the walk grow by d.
LEMMA WalkGrows ==
    ASSUME NEW hmap, NEW new, ChainsOf(hmap), ChainsOf(new), NEW c \in Chains, NEW d \in Int,
           \A e \in Chains : e # c => new[e] = hmap[e],
           Len(new[c]) = Len(hmap[c]) + d
    PROVE  Len(phm_for_each(new)) = Len(phm_for_each(hmap)) + d
<1>1. PICK w : Walks(hmap, w) /\ phm_for_each(hmap) = w[HashSize]
  BY WalkIs DEF ChainsOf
<1>2. PICK v : Walks(new, v) /\ phm_for_each(new) = v[HashSize]
  BY WalkIs DEF ChainsOf
<1>3. HashSize \in Nat /\ c \in Nat /\ c < HashSize
  BY HashAssumption DEF Chains
<1> DEFINE Off(k) == IF c < k THEN d ELSE 0
           T == {k \in Nat : k <= HashSize => Len(v[k]) = Len(w[k]) + Off(k)}
<1>4. 0 \in T
  <2>1. Len(w[0]) = 0 /\ Len(v[0]) = 0
    BY <1>1, <1>2, WalkMeans
  <2>2. Off(0) = 0
    BY <1>3
  <2> HIDE DEF Off
  <2>3. Len(v[0]) = Len(w[0]) + Off(0)
    BY <2>1, <2>2
  <2>4. QED
    BY <2>3
<1>5. ASSUME NEW k \in T
      PROVE  k + 1 \in T
  <2>1. ASSUME k + 1 <= HashSize
        PROVE  Len(v[k + 1]) = Len(w[k + 1]) + Off(k + 1)
    <3>1. k \in Chains /\ k \in Nat /\ k <= HashSize /\ k \in 0 .. HashSize
      BY <1>3, <2>1 DEF Chains
    <3>2. Len(w[k + 1]) = Len(w[k]) + Len(hmap[k]) /\ Len(w[k]) \in Nat
      BY <1>1, <3>1, WalkMeans
    <3>3. Len(v[k + 1]) = Len(v[k]) + Len(new[k]) /\ Len(v[k]) \in Nat
      BY <1>2, <3>1, WalkMeans
    <3>4. Len(v[k]) = Len(w[k]) + Off(k)
      BY <3>1
    <3>5. Len(hmap[k]) \in Nat /\ Len(new[k]) \in Nat
      BY <3>1, ChainMeans DEF ChainsOf
    <3>6. Len(new[k]) = Len(hmap[k]) + (IF k = c THEN d ELSE 0)
      <4>1. CASE k = c
        BY <4>1
      <4>2. CASE k # c
        <5>1. new[k] = hmap[k]
          BY <3>1, <4>2
        <5>2. QED
          BY <3>5, <4>2, <5>1
      <4>3. QED
        BY <4>1, <4>2
    <3>7. Off(k + 1) = Off(k) + (IF k = c THEN d ELSE 0)
      BY <1>3, <3>1
    <3>8. Off(k) \in Int /\ Off(k + 1) \in Int
      OBVIOUS
    <3> DEFINE x == Len(hmap[k])
               y == IF k = c THEN d ELSE 0
               z == Len(w[k])
    <3>9. x \in Nat /\ y \in Int /\ z \in Nat
      BY <3>2, <3>5
    <3>10. /\ Len(w[k + 1]) = z + x
           /\ Len(v[k + 1]) = (z + Off(k)) + (x + y)
           /\ Off(k + 1) = Off(k) + y
      BY <3>2, <3>3, <3>4, <3>6, <3>7
    <3> HIDE DEF x, y, z, Off
    <3>11. Len(v[k + 1]) = (z + x) + (Off(k) + y)
      BY <3>8, <3>9, <3>10
    <3>12. QED
      BY <3>10, <3>11
  <2> HIDE DEF Off
  <2>2. QED
    BY <2>1
<1>6. T = Nat
  <2>1. T \subseteq Nat
    OBVIOUS
  <2> HIDE DEF T
  <2>2. QED
    BY <1>4, <1>5, <2>1, Induction
<1>7. HashSize \in T
  <2> HIDE DEF T
  <2>1. QED
    BY <1>3, <1>6
<1>8. Len(v[HashSize]) = Len(w[HashSize]) + d
  BY <1>3, <1>7
<1>9. QED
  BY <1>1, <1>2, <1>8

\* The walk over a map without nodes is empty.
LEMMA WalkEmpty ==
    ASSUME NEW hmap, ChainsOf(hmap), \A c \in Chains : Len(hmap[c]) = 0
    PROVE  Len(phm_for_each(hmap)) = 0
<1>1. PICK w : Walks(hmap, w) /\ phm_for_each(hmap) = w[HashSize]
  BY WalkIs DEF ChainsOf
<1>2. HashSize \in Nat
  BY HashAssumption
<1> DEFINE T == {k \in Nat : k <= HashSize => Len(w[k]) = 0}
<1>3. 0 \in T
  BY <1>1, WalkMeans
<1>4. ASSUME NEW k \in T
      PROVE  k + 1 \in T
  <2>1. ASSUME k + 1 <= HashSize
        PROVE  Len(w[k + 1]) = 0
    <3>1. k \in Chains /\ k <= HashSize
      BY <1>2, <2>1 DEF Chains
    <3>2. Len(w[k + 1]) = Len(w[k]) + Len(hmap[k])
      BY <1>1, <3>1, WalkMeans
    <3>3. Len(w[k]) = 0 /\ Len(hmap[k]) = 0
      BY <3>1
    <3>4. QED
      BY <3>2, <3>3
  <2>2. QED
    BY <2>1
<1>5. T = Nat
  <2>1. T \subseteq Nat
    OBVIOUS
  <2> HIDE DEF T
  <2>2. QED
    BY <1>3, <1>4, <2>1, Induction
<1>6. HashSize \in T
  <2> HIDE DEF T
  <2>1. QED
    BY <1>2, <1>5
<1>7. QED
  BY <1>1, <1>2, <1>6

\* The walk meets the keys that have a node.
LEMMA WalkMeets ==
    ASSUME NEW hmap, ChainsOf(hmap)
    PROVE  \A key : key \in ToSet(phm_for_each(hmap))
                      <=> \E c \in Chains : \E i \in DOMAIN hmap[c] : hmap[c][i].key = key
<1>1. PICK w : Walks(hmap, w) /\ phm_for_each(hmap) = w[HashSize]
  BY WalkIs DEF ChainsOf
<1>2. HashSize \in Nat
  BY HashAssumption
<1> DEFINE Below(k, key) == \E c \in Chains : c < k /\ \E i \in DOMAIN hmap[c] : hmap[c][i].key = key
           Met(k) == \A key : (\E i \in DOMAIN w[k] : w[k][i] = key) <=> Below(k, key)
           T == {k \in Nat : k <= HashSize => Met(k)}
<1>3. 0 \in T
  <2>1. w[0] = <<>>
    BY <1>1 DEF Walks
  <2>2. \A c \in Chains : ~(c < 0)
    BY DEF Chains
  <2>3. Met(0)
    BY <2>1, <2>2
  <2> HIDE DEF Met
  <2>4. QED
    BY <2>3
<1>4. ASSUME NEW k \in T
      PROVE  k + 1 \in T
  <2>1. ASSUME k + 1 <= HashSize
        PROVE  Met(k + 1)
    <3>1. k \in Chains /\ k <= HashSize /\ k \in Nat /\ k \in 0 .. HashSize
      BY <1>2, <2>1 DEF Chains
    <3>2. Met(k)
      <4> HIDE DEF Met
      <4>1. QED
        BY <3>1
    <3>3. w[k] \in Seq(Key) /\ w[k + 1] = w[k] \o KeysOf(hmap[k])
      BY <1>1, <3>1, WalkMeans DEF Walks
    <3>4. /\ KeysOf(hmap[k]) \in Seq(Key) /\ DOMAIN KeysOf(hmap[k]) = DOMAIN hmap[k]
          /\ \A i \in DOMAIN hmap[k] : KeysOf(hmap[k])[i] = hmap[k][i].key
      BY <3>1, ChainMeans DEF ChainsOf, KeysOf
    <3> DEFINE s == w[k]
               t == KeysOf(hmap[k])
    <3>5. ASSUME NEW key
          PROVE  (\E i \in DOMAIN (s \o t) : (s \o t)[i] = key)
                   <=> (\E i \in DOMAIN s : s[i] = key) \/ (\E i \in DOMAIN t : t[i] = key)
      <4>1. s \in Seq(Key) /\ t \in Seq(Key) /\ DOMAIN s = 1 .. Len(s) /\ DOMAIN t = 1 .. Len(t)
            /\ Len(s) \in Nat /\ Len(t) \in Nat
        BY <3>3, <3>4
      <4> HIDE DEF s, t
      <4>2. DOMAIN (s \o t) = 1 .. Len(s) + Len(t)
        BY <4>1
      <4>3. \A i \in 1 .. Len(s) : (s \o t)[i] = s[i] /\ i \in DOMAIN (s \o t)
        BY <4>1, <4>2
      <4>4. \A i \in 1 .. Len(t) : (s \o t)[Len(s) + i] = t[i] /\ Len(s) + i \in DOMAIN (s \o t)
        BY <4>1, <4>2
      <4>5. \A i \in DOMAIN (s \o t) : i \in 1 .. Len(s) \/ \E j \in 1 .. Len(t) : i = Len(s) + j
        <5>1. ASSUME NEW i \in 1 .. Len(s) + Len(t), i \notin 1 .. Len(s)
              PROVE  i - Len(s) \in 1 .. Len(t) /\ i = Len(s) + (i - Len(s))
          BY <4>1, <5>1
        <5>2. QED
          BY <4>2, <5>1
      <4>6. ASSUME NEW i \in DOMAIN (s \o t), (s \o t)[i] = key
            PROVE  (\E j \in DOMAIN s : s[j] = key) \/ (\E j \in DOMAIN t : t[j] = key)
        <5>1. CASE i \in 1 .. Len(s)
          BY <4>1, <4>3, <4>6, <5>1
        <5>2. ASSUME NEW j \in 1 .. Len(t), i = Len(s) + j
              PROVE  t[j] = key /\ j \in DOMAIN t
          BY <4>1, <4>4, <4>6, <5>2
        <5>3. QED
          BY <4>5, <5>1, <5>2
      <4>7. ASSUME NEW j \in DOMAIN s, s[j] = key
            PROVE  (s \o t)[j] = key /\ j \in DOMAIN (s \o t)
        BY <4>1, <4>3, <4>7
      <4>8. ASSUME NEW j \in DOMAIN t, t[j] = key
            PROVE  (s \o t)[Len(s) + j] = key /\ Len(s) + j \in DOMAIN (s \o t)
        BY <4>1, <4>4, <4>8
      <4>9. QED
        BY <4>6, <4>7, <4>8
    <3>6. \A c \in Chains : c < k + 1 <=> c < k \/ c = k
      BY <3>1 DEF Chains
    <3>7. ASSUME NEW key
          PROVE  (\E i \in DOMAIN w[k + 1] : w[k + 1][i] = key) <=> Below(k + 1, key)
      <4>1. (\E i \in DOMAIN w[k + 1] : w[k + 1][i] = key)
              <=> Below(k, key) \/ \E i \in DOMAIN hmap[k] : hmap[k][i].key = key
        <5> HIDE DEF Below
        <5>1. QED
          BY <3>2, <3>3, <3>4, <3>5
      <4>2. Below(k + 1, key) <=> Below(k, key) \/ \E i \in DOMAIN hmap[k] : hmap[k][i].key = key
        BY <3>1, <3>6
      <4>3. QED
        BY <4>1, <4>2
    <3>8. QED
      BY <3>7
  <2> HIDE DEF Met
  <2>2. QED
    BY <2>1
<1>5. T = Nat
  <2>1. T \subseteq Nat
    OBVIOUS
  <2> HIDE DEF T
  <2>2. QED
    BY <1>3, <1>4, <2>1, Induction
<1>6. Met(HashSize)
  <2>1. HashSize \in T /\ HashSize <= HashSize
    <3> HIDE DEF T
    <3>1. QED
      BY <1>2, <1>5
  <2> HIDE DEF Met
  <2>2. QED
    BY <2>1
<1>7. \A c \in Chains : c < HashSize
  BY <1>2 DEF Chains
<1> DEFINE s == w[HashSize]
<1>8. \A key : (\E i \in DOMAIN s : s[i] = key)
                 <=> \E c \in Chains : \E i \in DOMAIN hmap[c] : hmap[c][i].key = key
  BY <1>6, <1>7
<1>9. phm_for_each(hmap) = s
  BY <1>1
<1> HIDE DEF s
<1>10. \A key : key \in ToSet(s) <=> \E i \in DOMAIN s : s[i] = key
  BY DEF ToSet
<1>11. QED
  BY <1>8, <1>9, <1>10

HmapCounted == HmapInv /\ mcount = Len(phm_for_each(hmaplist))

LEMMA InsertedLen ==
    ASSUME NEW c, NEW chain, ChainOf(c, chain), NEW key \in Key, NEW data \in Data
    PROVE  Len(Inserted(chain, key, data))
             = Len(chain) + (IF FirstOf(chain, key) = 0 THEN 1 ELSE 0)
<1> DEFINE i == FirstOf(chain, key)
           e == [key |-> key, data |-> data]
<1>1. chain \in Seq(Node) /\ Len(chain) \in Nat
  BY ChainMeans
<1>2. CASE i = 0
  <2>1. Inserted(chain, key, data) = Append(chain, e)
    BY <1>2 DEF Inserted
  <2>2. e \in Node
    BY DEF Node
  <2> HIDE DEF e
  <2>3. Len(Append(chain, e)) = Len(chain) + 1
    BY <1>1, <2>2
  <2>4. QED
    BY <1>2, <2>1, <2>3
<1>3. CASE i # 0
  <2>1. Inserted(chain, key, data) = [chain EXCEPT ![i].data = data]
    BY <1>3 DEF Inserted
  <2> HIDE DEF i
  <2>2. Len([chain EXCEPT ![i].data = data]) = Len(chain)
    BY <1>1
  <2>3. QED
    BY <1>1, <1>3, <2>1, <2>2 DEF i
<1>4. QED
  BY <1>2, <1>3

LEMMA RemovedLen ==
    ASSUME NEW c, NEW chain, ChainOf(c, chain), NEW i \in DOMAIN chain
    PROVE  Len(RemoveAt(chain, i)) = Len(chain) - 1
<1> DEFINE n == Len(chain)
           front == SubSeq(chain, 1, i - 1)
           back  == SubSeq(chain, i + 1, n)
<1>1. chain \in Seq(Node) /\ n \in Nat /\ i \in Nat /\ 1 <= i /\ i <= n
      /\ \A j \in 1 .. n : chain[j] \in Node
  BY ChainMeans
<1> HIDE DEF n
<1>2. front \in Seq(Node) /\ Len(front) = i - 1
  <2>1. \A j \in 1 .. i - 1 : chain[j] \in Node
    BY <1>1
  <2>2. front \in Seq(Node) /\ Len(front) = (IF 1 <= i - 1 THEN (i - 1) - 1 + 1 ELSE 0)
    BY <1>1, <2>1, SubSeqProperties
  <2> HIDE DEF front
  <2>3. QED
    BY <1>1, <2>2
<1>3. back \in Seq(Node) /\ Len(back) = n - i
  <2>1. \A j \in i + 1 .. n : chain[j] \in Node
    BY <1>1
  <2>2. back \in Seq(Node) /\ Len(back) = (IF i + 1 <= n THEN n - (i + 1) + 1 ELSE 0)
    BY <1>1, <2>1, SubSeqProperties
  <2> HIDE DEF back
  <2>3. QED
    BY <1>1, <2>2
<1>4. RemoveAt(chain, i) = front \o back
  BY DEF RemoveAt, n
<1> HIDE DEF front, back
<1>5. Len(front \o back) = Len(front) + Len(back)
  BY <1>2, <1>3, ConcatProperties
<1>6. QED
  BY <1>1, <1>2, <1>3, <1>4, <1>5 DEF n

LEMMA ChangeCounts ==
    ASSUME HmapCounted, HmapInv', NEW c \in Chains, NEW new, NEW d \in Int,
           hmaplist' = [hmaplist EXCEPT ![c] = new], Len(new) = Len(hmaplist[c]) + d,
           mcount' = mcount + d
    PROVE  HmapCounted'
<1> DEFINE old == hmaplist
           now == hmaplist'
<1>1. ChainsOf(old) /\ ChainsOf(now)
  BY DEF HmapCounted, HmapInv, ChainsOf, ChainOf
<1>2. (\A e \in Chains : e # c => now[e] = old[e]) /\ Len(now[c]) = Len(old[c]) + d
  BY DEF HmapCounted, HmapInv
<1>3. Len(phm_for_each(now)) = Len(phm_for_each(old)) + d
  <2> HIDE DEF old, now
  <2>1. QED
    BY <1>1, <1>2, WalkGrows
<1>4. mcount' = Len(phm_for_each(now))
  BY <1>3 DEF HmapCounted
<1>5. phm_for_each(hmaplist)' = phm_for_each(now)
  BY DEF phm_for_each
<1>6. QED
  BY <1>4, <1>5 DEF HmapCounted

LEMMA InsertCounts ==
    ASSUME HmapCounted, NEW key \in Key, NEW data \in Data, phm_insert(key, data)
    PROVE  HmapCounted'
<1> DEFINE c == hashinde(key)
           d == IF FirstOf(hmaplist[c], key) = 0 THEN 1 ELSE 0
           new == Inserted(hmaplist[c], key, data)
<1>1. c \in Chains /\ ChainOf(c, hmaplist[c])
  BY HashInRange DEF HmapCounted, HmapInv
<1>2. hmaplist' = [hmaplist EXCEPT ![c] = new]
  BY DEF phm_insert
<1>3. HmapInv'
  BY HmapStep DEF HmapCounted, HmapNext
<1>4. Len(new) = Len(hmaplist[c]) + d /\ d \in Int
  <2>1. d \in Int
    OBVIOUS
  <2> HIDE DEF c
  <2>2. Len(new) = Len(hmaplist[c]) + d
    BY <1>1, InsertedLen
  <2>3. QED
    BY <2>1, <2>2
<1>5. mcount' = mcount + d
  <2>1. PICK w : Walks(hmaplist, w) /\ phm_for_each(hmaplist) = w[HashSize]
    BY WalkIs DEF HmapCounted, HmapInv
  <2>2. mcount \in Nat
    <3>1. HashSize \in 0 .. HashSize /\ ChainsOf(hmaplist)
      BY HashAssumption DEF HmapCounted, HmapInv, ChainsOf
    <3>2. QED
      BY <2>1, <3>1, WalkMeans DEF HmapCounted
  <2>3. mcount' = IF FirstOf(hmaplist[c], key) = 0 THEN mcount + 1 ELSE mcount
    BY DEF phm_insert
  <2>4. QED
    BY <2>2, <2>3
<1> HIDE DEF c, d, new
<1>6. QED
  BY <1>1, <1>2, <1>3, <1>4, <1>5, ChangeCounts

LEMMA RemoveCounts ==
    ASSUME HmapCounted, NEW key \in Key, phm_remove(key)
    PROVE  HmapCounted'
<1> DEFINE c == hashinde(key)
           i == FirstOf(hmaplist[c], key)
           new == RemoveAt(hmaplist[c], i)
<1>1. c \in Chains /\ ChainOf(c, hmaplist[c])
  BY HashInRange DEF HmapCounted, HmapInv
<1>2. HmapInv'
  BY HmapStep DEF HmapCounted, HmapNext
<1>3. CASE i = 0
  <2>1. UNCHANGED hmapVars
    BY <1>3 DEF phm_remove
  <2>2. QED
    BY <1>2, <2>1 DEF HmapCounted, hmapVars, phm_for_each
<1>4. CASE i # 0
  <2>1. i \in DOMAIN hmaplist[c]
    BY <1>1, <1>4, FirstIs
  <2>2. hmaplist' = [hmaplist EXCEPT ![c] = new] /\ mcount' = mcount - 1
    BY <1>4 DEF phm_remove
  <2>3. Len(new) = Len(hmaplist[c]) - 1 /\ Len(hmaplist[c]) \in Nat
    BY <1>1, <2>1, RemovedLen, ChainMeans
  <2>4. mcount \in Nat
    <3>1. PICK w : Walks(hmaplist, w) /\ phm_for_each(hmaplist) = w[HashSize]
      BY WalkIs DEF HmapCounted, HmapInv
    <3>2. HashSize \in 0 .. HashSize /\ ChainsOf(hmaplist)
      BY HashAssumption DEF HmapCounted, HmapInv, ChainsOf
    <3>3. QED
      BY <3>1, <3>2, WalkMeans DEF HmapCounted
  <2> HIDE DEF c, i, new
  <2>5. Len(new) = Len(hmaplist[c]) + (-1) /\ mcount' = mcount + (-1) /\ -1 \in Int
    BY <2>2, <2>3, <2>4
  <2>6. QED
    BY <1>1, <1>2, <2>2, <2>5, ChangeCounts
<1>5. QED
  BY <1>3, <1>4

LEMMA EmptyCounts ==
    ASSUME NEW list, list = [c \in Chains |-> <<>>]
    PROVE  Len(phm_for_each(list)) = 0
<1>1. ChainsOf(list) /\ \A c \in Chains : Len(list[c]) = 0
  BY HmapStarts DEF ChainsOf
<1>2. QED
  BY <1>1, WalkEmpty

LEMMA CountStep ==
    ASSUME HmapCounted, [HmapNext]_hmapVars
    PROVE  HmapCounted'
<1>1. CASE UNCHANGED hmapVars
  <2>1. HmapInv'
    BY HmapStep DEF HmapCounted
  <2>2. QED
    BY <1>1, <2>1 DEF HmapCounted, hmapVars, phm_for_each
<1>2. CASE phm_dele
  <2>1. hmaplist' = [c \in Chains |-> <<>>] /\ mcount' = 0
    BY <1>2 DEF phm_dele
  <2>2. Len(phm_for_each(hmaplist')) = 0
    BY <2>1, EmptyCounts
  <2>3. phm_for_each(hmaplist)' = phm_for_each(hmaplist')
    BY DEF phm_for_each
  <2>4. HmapInv'
    BY HmapStep DEF HmapCounted
  <2>5. QED
    BY <2>1, <2>2, <2>3, <2>4 DEF HmapCounted
<1>3. QED
  BY <1>1, <1>2, InsertCounts, RemoveCounts DEF HmapNext

LEMMA CountedMeans == HmapCounted => HmapIsAFunction
<1> SUFFICES ASSUME HmapCounted PROVE HmapIsAFunction
  OBVIOUS
<1>1. HmapInv /\ ChainsOf(hmaplist) /\ mcount = Len(phm_for_each(hmaplist))
  BY DEF HmapCounted, HmapInv, ChainsOf
<1>2. OneNode /\ NodesFound
  BY <1>1, HmapInvMeans
<1> DEFINE Has(k) == \E c \in Chains : \E i \in DOMAIN hmaplist[c] : hmaplist[c][i].key = k
<1>3. \A k : k \in ToSet(phm_for_each(hmaplist)) <=> Has(k)
  BY <1>1, WalkMeets
<1>4. \A k : Has(k) => k \in Key
  BY <1>1, ChainMeans DEF ChainsOf
<1>5. \A k \in Key : phm_value(hmaplist, k) # NULL <=> Has(k)
  BY <1>2 DEF NodesFound
<1> HIDE DEF Has
<1>6. ToSet(phm_for_each(hmaplist)) = {k \in Key : phm_value(hmaplist, k) # NULL}
  BY <1>3, <1>4, <1>5
<1>7. QED
  BY <1>1, <1>2, <1>6 DEF HmapIsAFunction

(* Whatever is inserted, replaced and removed, the walk meets exactly the    *)
(* keys that are found, and the count is the length of the walk.             *)
THEOREM HmapIsAFunctionAlways == HmapSpec => []HmapIsAFunction
<1>1. HmapInit => HmapCounted
  <2> SUFFICES ASSUME HmapInit PROVE HmapCounted
    OBVIOUS
  <2>1. hmaplist = [c \in Chains |-> <<>>] /\ mcount = 0
    BY DEF HmapInit, phm_create
  <2>2. HmapInv
    BY <2>1, HmapStarts DEF HmapInv
  <2>3. QED
    BY <2>1, <2>2, EmptyCounts DEF HmapCounted
<1>2. HmapCounted /\ [HmapNext]_hmapVars => HmapCounted'
  BY CountStep
<1>3. HmapCounted => HmapIsAFunction
  BY CountedMeans
<1>4. QED
  BY <1>1, <1>2, <1>3, PTL DEF HmapSpec

-----------------------------------------------------------------------------
(* csp_contain: the document becomes the list of pages *)

LEMMA InductionUpTo ==
    ASSUME NEW n \in Nat, NEW T, 0 \in T, \A k \in 0 .. n - 1 : k \in T => k + 1 \in T
    PROVE  \A k \in 0 .. n : k \in T
<1> DEFINE S == {k \in Nat : k <= n => k \in T}
<1>1. 0 \in S
  OBVIOUS
<1>2. ASSUME NEW k \in S
      PROVE  k + 1 \in S
  <2>1. ASSUME k + 1 <= n PROVE k + 1 \in T
    <3>1. k \in 0 .. n - 1 /\ k <= n
      BY <2>1
    <3>2. QED
      BY <3>1
  <2>2. QED
    BY <2>1
<1>3. S = Nat
  <2>1. S \subseteq Nat
    OBVIOUS
  <2> HIDE DEF S
  <2>2. QED
    BY <1>1, <1>2, <2>1, Induction
<1>4. QED
  BY <1>3

(* The pages of a document and the order in which it names them.             *)
Doc(c) == {q \in Nat \X Nat : q[1] \in DOMAIN c.libs /\ q[2] \in DOMAIN c.libs[q[1]].pages}
Earlier(q, r) == Before(q[1], q[2], r[1], r[2])
DocUpTo(c, I, J) == {q \in Doc(c) : q[1] < I \/ (q[1] = I /\ q[2] <= J)}

PageOf(c, q) == c.libs[q[1]].pages[q[2]]
Names(c, e, q) ==
    e.lib = c.libs[q[1]].lib /\ e.name = PageOf(c, q).name /\ e.vir = PageOf(c, q).vir

\* The list has the pages of S, the one that the document names last first.
Lists(c, v, p, S) ==
    /\ p \in [DOMAIN v -> S]
    /\ \A k \in DOMAIN v : Names(c, v[k], p[k])
    /\ \A k, l \in DOMAIN v : k < l => Earlier(p[l], p[k])
    /\ \A q \in S : \E k \in DOMAIN v : p[k] = q

PageEntry(c, q) == NewPage(c.libs[q[1]].lib, PageOf(c, q))
PageEntries(c) == {PageEntry(c, q) : q \in Doc(c)}
Listed(c, v, S) == \E p : Lists(c, v, p, S)

LEMMA DocMeans ==
    ASSUME NEW c \in Configs
    PROVE  /\ Len(c.libs) \in Nat /\ DOMAIN c.libs = 1 .. Len(c.libs)
           /\ \A i \in DOMAIN c.libs :
                 /\ Len(c.libs[i].pages) \in Nat
                 /\ DOMAIN c.libs[i].pages = 1 .. Len(c.libs[i].pages)
                 /\ c.libs[i].lib \in Libs
           /\ \A q \in Doc(c) : PageOf(c, q).vir \in Key
<1>1. Len(c.libs) \in Nat /\ DOMAIN c.libs = 1 .. Len(c.libs)
  <2>1. c.libs \in Seq(ToSet(c.libs))
    BY ContainAssumption
  <2>2. QED
    BY <2>1
<1>2. ASSUME NEW i \in DOMAIN c.libs
      PROVE  /\ Len(c.libs[i].pages) \in Nat
             /\ DOMAIN c.libs[i].pages = 1 .. Len(c.libs[i].pages)
             /\ c.libs[i].lib \in Libs
  <2>1. c.libs[i].pages \in Seq(ToSet(c.libs[i].pages)) /\ c.libs[i].lib \in Libs
    BY ContainAssumption
  <2>2. QED
    BY <2>1
<1>3. \A q \in Doc(c) : PageOf(c, q).vir \in Key
  BY ContainAssumption DEF Doc, PageOf
<1>4. QED
  BY <1>1, <1>2, <1>3

\* One entry more at the head of the list.
LEMMA OneMore ==
    ASSUME NEW c \in Configs, NEW v \in Seq(PageEntries(c)), NEW q \in Doc(c), NEW S, S \subseteq Doc(c),
           Listed(c, v, S), \A r \in S : Earlier(r, q)
    PROVE  /\ vlist_newvpa(v, PageEntry(c, q)) \in Seq(PageEntries(c))
           /\ Listed(c, vlist_newvpa(v, PageEntry(c, q)), S \cup {q})
<1> DEFINE e == PageEntry(c, q)
           new == <<e>> \o v
           n == Len(v)
<1>1. e \in PageEntries(c) /\ Names(c, e, q)
  BY DEF PageEntries, PageEntry, Names, NewPage
<1> HIDE DEF e
<1>2. /\ n \in Nat /\ DOMAIN v = 1 .. n /\ new \in Seq(PageEntries(c)) /\ DOMAIN new = 1 .. n + 1
      /\ new[1] = e /\ \A k \in 1 .. n : new[k + 1] = v[k]
  <2>1. <<e>> \in Seq(PageEntries(c)) /\ Len(<<e>>) = 1 /\ <<e>>[1] = e
    BY <1>1
  <2>2. /\ new \in Seq(PageEntries(c)) /\ Len(new) = Len(<<e>>) + Len(v)
        /\ \A k \in 1 .. Len(<<e>>) + Len(v) :
               new[k] = IF k <= Len(<<e>>) THEN <<e>>[k] ELSE v[k - Len(<<e>>)]
    BY <2>1, ConcatProperties
  <2>3. n \in Nat /\ DOMAIN v = 1 .. n
    OBVIOUS
  <2> HIDE DEF new, n
  <2>4. Len(new) = n + 1 /\ \A k \in 1 .. n + 1 : new[k] = IF k <= 1 THEN <<e>>[k] ELSE v[k - 1]
    BY <2>1, <2>2, <2>3 DEF n
  <2>5. DOMAIN new = 1 .. n + 1
    BY <2>2, <2>4
  <2>6. new[1] = e
    BY <2>1, <2>3, <2>4
  <2>7. ASSUME NEW k \in 1 .. n
        PROVE  new[k + 1] = v[k]
    <3>1. k + 1 \in 1 .. n + 1 /\ ~(k + 1 <= 1) /\ (k + 1) - 1 = k
      BY <2>3
    <3>2. QED
      BY <2>4, <3>1
  <2>8. QED
    BY <2>2, <2>3, <2>5, <2>6, <2>7
<1>3. PICK p : Lists(c, v, p, S)
  BY DEF Listed
<1> DEFINE P == [k \in 1 .. n + 1 |-> IF k = 1 THEN q ELSE p[k - 1]]
<1> HIDE DEF new, n
<1>4. \A k \in 1 .. n + 1 : k = 1 \/ (k - 1 \in 1 .. n /\ (k - 1) + 1 = k /\ k # 1)
  BY <1>2
<1>5. \A k \in 1 .. n : p[k] \in S /\ Names(c, v[k], p[k])
  BY <1>2, <1>3 DEF Lists
<1>6. P \in [DOMAIN new -> S \cup {q}]
  BY <1>2, <1>4, <1>5
<1>7. P[1] = q /\ \A k \in 1 .. n : P[k + 1] = p[k]
  <2>1. 1 \in 1 .. n + 1 /\ \A k \in 1 .. n : k + 1 \in 1 .. n + 1 /\ k + 1 # 1 /\ (k + 1) - 1 = k
    BY <1>2
  <2>2. QED
    BY <2>1
<1> HIDE DEF P
<1>8. \A k \in DOMAIN new : Names(c, new[k], P[k])
  <2>1. \A k \in 1 .. n : Names(c, new[k + 1], P[k + 1])
    BY <1>2, <1>5, <1>7
  <2>2. Names(c, new[1], P[1])
    BY <1>1, <1>2, <1>7
  <2>3. QED
    BY <1>2, <1>4, <2>1, <2>2
<1>9. \A k, l \in DOMAIN new : k < l => Earlier(P[l], P[k])
  <2>1. ASSUME NEW k \in 1 .. n + 1, NEW l \in 1 .. n + 1, k < l
        PROVE  Earlier(P[l], P[k])
    <3>1. l - 1 \in 1 .. n /\ (l - 1) + 1 = l
      BY <1>2, <2>1
    <3>2. P[l] = p[l - 1] /\ p[l - 1] \in S
      BY <1>5, <1>7, <3>1
    <3>3. CASE k = 1
      BY <1>7, <3>2, <3>3
    <3>4. CASE k # 1
      <4>1. k - 1 \in 1 .. n /\ (k - 1) + 1 = k /\ k - 1 < l - 1
        BY <1>2, <2>1, <3>4
      <4>2. P[k] = p[k - 1]
        BY <1>7, <4>1
      <4>3. Earlier(p[l - 1], p[k - 1])
        BY <1>2, <1>3, <3>1, <4>1 DEF Lists
      <4>4. QED
        BY <3>2, <4>2, <4>3
    <3>5. QED
      BY <3>3, <3>4
  <2>2. QED
    BY <1>2, <2>1
<1>10. \A r \in S \cup {q} : \E k \in DOMAIN new : P[k] = r
  <2>1. 1 \in DOMAIN new /\ \A k \in 1 .. n : k + 1 \in DOMAIN new
    BY <1>2
  <2>2. ASSUME NEW r \in S
        PROVE  \E k \in DOMAIN new : P[k] = r
    <3>1. PICK k \in 1 .. n : p[k] = r
      BY <1>2, <1>3 DEF Lists
    <3>2. QED
      BY <1>7, <2>1, <3>1
  <2>3. QED
    BY <1>7, <2>1, <2>2
<1>11. Lists(c, new, P, S \cup {q})
  BY <1>6, <1>8, <1>9, <1>10 DEF Lists
<1>12. vlist_newvpa(v, PageEntry(c, q)) = new
  BY DEF vlist_newvpa, new, e
<1>13. QED
  BY <1>2, <1>11, <1>12 DEF Listed

\* The lists while the pages of one library are read.
ReadsPages(c, I, s, f) ==
    /\ f[0] = s
    /\ \A j \in 1 .. Len(c.libs[I].pages) :
          f[j] = vlist_newvpa(f[j - 1], PageEntry(c, <<I, j>>))

LEMMA LibParserIs ==
    ASSUME NEW c \in Configs, NEW I \in DOMAIN c.libs, NEW s \in Seq(PageEntries(c))
    PROVE  \E f : /\ \A j \in 0 .. Len(c.libs[I].pages) : f[j] \in Seq(PageEntries(c))
                  /\ ReadsPages(c, I, s, f)
                  /\ csp_lib_parser(s, c.libs[I]) = f[Len(c.libs[I].pages)]
<1> DEFINE elem == c.libs[I]
           m == Len(elem.pages)
           X == Seq(PageEntries(c))
           G == [j \in 1 .. m |-> [t \in X |-> <<PageEntry(c, <<I, j>>)>> \o t]]
           W(f) == [j \in 0 .. m |-> IF j = 0 THEN s
                    ELSE vlist_newvpa(f[j - 1], NewPage(elem.lib, elem.pages[j]))]
<1>1. m \in Nat /\ DOMAIN elem.pages = 1 .. m
  BY DocMeans
<1>2. ASSUME NEW j \in 1 .. m
      PROVE  /\ PageEntry(c, <<I, j>>) \in PageEntries(c)
             /\ NewPage(elem.lib, elem.pages[j]) = PageEntry(c, <<I, j>>)
  <2>1. <<I, j>> \in Doc(c)
    <3>1. I \in Nat /\ j \in Nat
      BY <1>1, DocMeans
    <3>2. QED
      BY <1>1, <3>1 DEF Doc
  <2>2. QED
    BY <2>1 DEF PageEntries, PageEntry, PageOf
<1>3. \A j \in 1 .. m : \A t \in X : <<PageEntry(c, <<I, j>>)>> \o t \in X
  BY <1>2
<1>4. G \in [1 .. m -> [X -> X]]
  BY <1>3
<1>5. PICK g \in [0 .. m -> X] : Goes(m, s, G, g)
  <2> HIDE DEF m, G, X
  <2>1. s \in X
    BY DEF X
  <2>2. QED
    BY <1>1, <1>4, <2>1, Iterates
<1>6. g = W(g)
  <2>1. ASSUME NEW j \in 1 .. m
        PROVE  g[j] = vlist_newvpa(g[j - 1], NewPage(elem.lib, elem.pages[j]))
    <3>1. j - 1 \in 0 .. m /\ g[j - 1] \in X
      BY <1>1
    <3>2. g[j] = G[j][g[j - 1]]
      BY <1>5 DEF Goes
    <3>3. QED
      BY <1>2, <3>1, <3>2 DEF vlist_newvpa
  <2>2. g[0] = s
    BY <1>5 DEF Goes
  <2>3. \A j \in 0 .. m : j = 0 \/ j \in 1 .. m
    BY <1>1
  <2>4. g = [j \in 0 .. m |-> g[j]]
    OBVIOUS
  <2>5. \A j \in 0 .. m : g[j] = W(g)[j]
    BY <2>1, <2>2, <2>3
  <2>6. QED
    BY <2>4, <2>5
<1> DEFINE f == CHOOSE h : h = W(h)
<1>7. f = W(f)
  BY <1>6
<1>8. csp_lib_parser(s, c.libs[I]) = f[m]
  BY DEF csp_lib_parser
<1>9. f[0] = s /\ \A j \in 1 .. m : f[j] = vlist_newvpa(f[j - 1], PageEntry(c, <<I, j>>))
  <2> HIDE DEF f
  <2>1. W(f)[0] = s
    BY <1>1
  <2>2. ASSUME NEW j \in 1 .. m
        PROVE  W(f)[j] = vlist_newvpa(f[j - 1], PageEntry(c, <<I, j>>))
    <3>1. j \in 0 .. m /\ j # 0
      BY <1>1
    <3>2. QED
      BY <1>2, <3>1
  <2>3. QED
    BY <1>7, <2>1, <2>2
<1> HIDE DEF f, W, G
<1>10. \A j \in 0 .. m : f[j] \in X
  <2> DEFINE T == {j \in 0 .. m : f[j] \in X}
  <2>1. 0 \in T
    BY <1>1, <1>9
  <2>2. ASSUME NEW j \in 0 .. m - 1, j \in T
        PROVE  j + 1 \in T
    <3>1. j + 1 \in 1 .. m /\ (j + 1) - 1 = j /\ j + 1 \in 0 .. m
      BY <1>1
    <3>2. f[j + 1] = <<PageEntry(c, <<I, j + 1>>)>> \o f[j]
      BY <1>9, <3>1 DEF vlist_newvpa
    <3>3. f[j] \in X
      BY <2>2
    <3>4. f[j + 1] \in X
      BY <1>3, <3>1, <3>2, <3>3
    <3>5. QED
      BY <3>1, <3>4
  <2> HIDE DEF T
  <2>3. \A j \in 0 .. m : j \in T
    BY <1>1, <2>1, <2>2, InductionUpTo
  <2>4. QED
    BY <2>3 DEF T
<1>11. ReadsPages(c, I, s, f)
  BY <1>9 DEF ReadsPages
<1>12. QED
  BY <1>8, <1>10, <1>11

LEMMA UpToMeans ==
    ASSUME NEW c \in Configs
    PROVE  /\ DocUpTo(c, 1, 0) = {}
           /\ DocUpTo(c, Len(c.libs) + 1, 0) = Doc(c)
           /\ \A I \in DOMAIN c.libs : /\ DocUpTo(c, I, Len(c.libs[I].pages)) = DocUpTo(c, I + 1, 0)
                                       /\ \A j \in 1 .. Len(c.libs[I].pages) :
                                             /\ <<I, j>> \in Doc(c)
                                             /\ DocUpTo(c, I, j) = DocUpTo(c, I, j - 1) \cup {<<I, j>>}
                                             /\ \A r \in DocUpTo(c, I, j - 1) : Earlier(r, <<I, j>>)
<1> DEFINE n == Len(c.libs)
<1>1. n \in Nat /\ DOMAIN c.libs = 1 .. n
  BY DocMeans
<1>2. ASSUME NEW q \in Doc(c)
      PROVE  /\ q[1] \in 1 .. n /\ q[2] \in 1 .. Len(c.libs[q[1]].pages)
             /\ Len(c.libs[q[1]].pages) \in Nat /\ q = <<q[1], q[2]>>
  BY <1>1, DocMeans DEF Doc
<1> HIDE DEF n
<1>3. DocUpTo(c, 1, 0) = {} /\ DocUpTo(c, n + 1, 0) = Doc(c)
  BY <1>1, <1>2 DEF DocUpTo
<1>4. ASSUME NEW I \in 1 .. n
      PROVE  /\ DocUpTo(c, I, Len(c.libs[I].pages)) = DocUpTo(c, I + 1, 0)
             /\ \A j \in 1 .. Len(c.libs[I].pages) :
                   /\ <<I, j>> \in Doc(c)
                   /\ DocUpTo(c, I, j) = DocUpTo(c, I, j - 1) \cup {<<I, j>>}
                   /\ \A r \in DocUpTo(c, I, j - 1) : Earlier(r, <<I, j>>)
  <2> DEFINE m == Len(c.libs[I].pages)
  <2>1. m \in Nat /\ DOMAIN c.libs[I].pages = 1 .. m /\ I \in Nat
    BY <1>1, DocMeans
  <2>2. DocUpTo(c, I, m) = DocUpTo(c, I + 1, 0)
    <3>1. ASSUME NEW q \in Doc(c)
          PROVE  (q[1] < I \/ (q[1] = I /\ q[2] <= m)) <=> (q[1] < I + 1 \/ (q[1] = I + 1 /\ q[2] <= 0))
      <4>1. q[1] \in Nat /\ q[2] \in Nat /\ 1 <= q[2] /\ (q[1] = I => q[2] <= m)
        BY <1>1, <1>2
      <4> HIDE DEF m
      <4>2. QED
        BY <2>1, <4>1
    <3>2. QED
      BY <3>1 DEF DocUpTo
  <2>3. ASSUME NEW j \in 1 .. m
        PROVE  /\ <<I, j>> \in Doc(c)
               /\ DocUpTo(c, I, j) = DocUpTo(c, I, j - 1) \cup {<<I, j>>}
               /\ \A r \in DocUpTo(c, I, j - 1) : Earlier(r, <<I, j>>)
    <3>1. <<I, j>> \in Doc(c)
      BY <1>1, <2>1 DEF Doc
    <3>2. ASSUME NEW q \in Doc(c)
          PROVE  q \in DocUpTo(c, I, j) <=> q \in DocUpTo(c, I, j - 1) \/ q = <<I, j>>
      <4>1. q[1] \in Nat /\ q[2] \in Nat /\ q = <<q[1], q[2]>>
        BY <1>1, <1>2
      <4> DEFINE a == q[1]
                 b == q[2]
      <4>2. a \in Nat /\ b \in Nat /\ j \in Nat /\ (q = <<I, j>> <=> a = I /\ b = j)
        BY <4>1
      <4> HIDE DEF a, b
      <4>3. a < I \/ (a = I /\ b <= j) <=> (a < I \/ (a = I /\ b <= j - 1)) \/ (a = I /\ b = j)
        BY <2>1, <4>2
      <4>4. QED
        BY <4>2, <4>3 DEF DocUpTo, a, b
    <3>3. DocUpTo(c, I, j) \subseteq Doc(c) /\ DocUpTo(c, I, j - 1) \subseteq Doc(c)
      BY DEF DocUpTo
    <3>4. ASSUME NEW r \in DocUpTo(c, I, j - 1) PROVE Earlier(r, <<I, j>>)
      <4>1. r[1] \in Nat /\ r[2] \in Nat /\ (r[1] < I \/ (r[1] = I /\ r[2] <= j - 1))
        BY <1>1, <1>2 DEF DocUpTo
      <4>2. QED
        BY <4>1 DEF Earlier, Before
    <3>5. QED
      BY <3>1, <3>2, <3>3, <3>4
  <2>4. QED
    BY <2>2, <2>3
<1>5. QED
  BY <1>1, <1>3, <1>4 DEF n

\* One library more.
LEMMA OneLibMore ==
    ASSUME NEW c \in Configs, NEW I \in DOMAIN c.libs, NEW s \in Seq(PageEntries(c)),
           Listed(c, s, DocUpTo(c, I, 0))
    PROVE  Listed(c, csp_lib_parser(s, c.libs[I]), DocUpTo(c, I + 1, 0))
<1> DEFINE m == Len(c.libs[I].pages)
<1>1. m \in Nat
  BY DocMeans
<1>2. PICK f : /\ \A j \in 0 .. m : f[j] \in Seq(PageEntries(c))
               /\ ReadsPages(c, I, s, f)
               /\ csp_lib_parser(s, c.libs[I]) = f[m]
  BY LibParserIs
<1> DEFINE T == {j \in 0 .. m : Listed(c, f[j], DocUpTo(c, I, j))}
<1>3. 0 \in T
  BY <1>1, <1>2 DEF ReadsPages
<1>4. ASSUME NEW j \in 0 .. m - 1, j \in T
      PROVE  j + 1 \in T
  <2>1. j + 1 \in 1 .. m /\ j + 1 \in 0 .. m /\ (j + 1) - 1 = j /\ j \in 0 .. m
    BY <1>1
  <2>2. f[j + 1] = vlist_newvpa(f[j], PageEntry(c, <<I, j + 1>>)) /\ f[j] \in Seq(PageEntries(c))
    BY <1>2, <2>1 DEF ReadsPages
  <2>3. /\ <<I, j + 1>> \in Doc(c) /\ DocUpTo(c, I, j + 1) = DocUpTo(c, I, j) \cup {<<I, j + 1>>}
        /\ \A r \in DocUpTo(c, I, j) : Earlier(r, <<I, j + 1>>)
    <3> DEFINE k == j + 1
    <3>1. k \in 1 .. m /\ k - 1 = j
      BY <2>1
    <3> HIDE DEF k
    <3>2. /\ <<I, k>> \in Doc(c) /\ DocUpTo(c, I, k) = DocUpTo(c, I, k - 1) \cup {<<I, k>>}
          /\ \A r \in DocUpTo(c, I, k - 1) : Earlier(r, <<I, k>>)
      BY <3>1, UpToMeans
    <3>3. QED
      BY <3>1, <3>2 DEF k
  <2>4. Listed(c, f[j], DocUpTo(c, I, j)) /\ DocUpTo(c, I, j) \subseteq Doc(c)
    BY <1>4 DEF DocUpTo
  <2>5. Listed(c, f[j + 1], DocUpTo(c, I, j + 1))
    <3> DEFINE S == DocUpTo(c, I, j)
               q == <<I, j + 1>>
               v == f[j]
    <3>1. /\ q \in Doc(c) /\ S \subseteq Doc(c) /\ v \in Seq(PageEntries(c))
          /\ Listed(c, v, S) /\ \A r \in S : Earlier(r, q)
      BY <2>2, <2>3, <2>4
    <3> HIDE DEF S, q, v
    <3>2. Listed(c, vlist_newvpa(v, PageEntry(c, q)), S \cup {q})
      BY <3>1, OneMore
    <3>3. QED
      BY <2>2, <2>3, <3>2 DEF S, q, v
  <2>6. QED
    BY <2>1, <2>5
<1>5. m \in T
  <2> HIDE DEF T, m
  <2>1. m \in 0 .. m /\ \A j \in 0 .. m : j \in T
    BY <1>1, <1>3, <1>4, InductionUpTo
  <2>2. QED
    BY <2>1
<1>6. Listed(c, f[m], DocUpTo(c, I, m))
  BY <1>5
<1>7. DocUpTo(c, I, m) = DocUpTo(c, I + 1, 0)
  BY UpToMeans
<1>8. QED
  BY <1>2, <1>6, <1>7

\* The lists while the libraries are read.
ReadsLibs(c, f) ==
    /\ f[0] = <<>>
    /\ \A i \in DOMAIN c.libs : f[i] = csp_lib_parser(f[i - 1], c.libs[i])

LEMMA LibParserType ==
    ASSUME NEW c \in Configs, NEW I \in DOMAIN c.libs, NEW s \in Seq(PageEntries(c))
    PROVE  csp_lib_parser(s, c.libs[I]) \in Seq(PageEntries(c))
<1> DEFINE m == Len(c.libs[I].pages)
<1>1. m \in Nat /\ m \in 0 .. m
  BY DocMeans
<1>2. QED
  BY <1>1, LibParserIs

LEMMA MapParserIs ==
    ASSUME NEW c \in Configs
    PROVE  \E f : /\ \A i \in 0 .. Len(c.libs) : f[i] \in Seq(PageEntries(c))
                  /\ ReadsLibs(c, f)
                  /\ path_map_parser(c.libs) = f[Len(c.libs)]
<1> DEFINE elems == c.libs
           n == Len(elems)
           X == Seq(PageEntries(c))
           G == [i \in 1 .. n |-> [t \in X |-> csp_lib_parser(t, elems[i])]]
           W(f) == [i \in 0 .. n |-> IF i = 0 THEN <<>>
                    ELSE csp_lib_parser(f[i - 1], elems[i])]
<1>1. n \in Nat /\ DOMAIN elems = 1 .. n
  BY DocMeans
<1>2. \A i \in 1 .. n : \A t \in X : csp_lib_parser(t, elems[i]) \in X
  BY <1>1, LibParserType
<1>3. <<>> \in X
  OBVIOUS
<1>4. G \in [1 .. n -> [X -> X]]
  <2> HIDE DEF n, X
  <2>1. QED
    BY <1>2
<1>5. PICK g \in [0 .. n -> X] : Goes(n, <<>>, G, g)
  <2> HIDE DEF n, G, X
  <2>1. QED
    BY <1>1, <1>3, <1>4, Iterates
<1>6. g = W(g)
  <2>1. ASSUME NEW i \in 1 .. n
        PROVE  g[i] = csp_lib_parser(g[i - 1], elems[i])
    <3>1. i - 1 \in 0 .. n /\ g[i - 1] \in X
      BY <1>1
    <3>2. g[i] = G[i][g[i - 1]]
      BY <1>5 DEF Goes
    <3>3. QED
      BY <3>1, <3>2
  <2>2. g[0] = <<>>
    BY <1>5 DEF Goes
  <2>3. \A i \in 0 .. n : i = 0 \/ i \in 1 .. n
    BY <1>1
  <2>4. g = [i \in 0 .. n |-> g[i]]
    OBVIOUS
  <2>5. \A i \in 0 .. n : g[i] = W(g)[i]
    BY <2>1, <2>2, <2>3
  <2>6. QED
    BY <2>4, <2>5
<1> DEFINE f == CHOOSE h : h = W(h)
<1>7. f = W(f)
  BY <1>6
<1>8. path_map_parser(c.libs) = f[n]
  BY DEF path_map_parser
<1>9. f[0] = <<>> /\ \A i \in 1 .. n : f[i] = csp_lib_parser(f[i - 1], elems[i])
  <2> HIDE DEF f
  <2>1. W(f)[0] = <<>>
    BY <1>1
  <2>2. ASSUME NEW i \in 1 .. n
        PROVE  W(f)[i] = csp_lib_parser(f[i - 1], elems[i])
    <3>1. i \in 0 .. n /\ i # 0
      BY <1>1
    <3>2. QED
      BY <3>1
  <2>3. QED
    BY <1>7, <2>1, <2>2
<1> HIDE DEF f, W, G
<1>10. \A i \in 0 .. n : f[i] \in X
  <2> DEFINE T == {i \in 0 .. n : f[i] \in X}
  <2>1. 0 \in T
    <3>1. 0 \in 0 .. n /\ f[0] \in X
      BY <1>1, <1>3, <1>9
    <3>2. QED
      BY <3>1
  <2>2. ASSUME NEW i \in 0 .. n - 1, i \in T
        PROVE  i + 1 \in T
    <3>1. i + 1 \in 1 .. n /\ (i + 1) - 1 = i /\ i + 1 \in 0 .. n
      BY <1>1
    <3>2. f[i + 1] = csp_lib_parser(f[i], elems[i + 1])
      BY <1>9, <3>1
    <3>3. f[i] \in X
      BY <2>2
    <3> HIDE DEF X
    <3>4. f[i + 1] \in X
      BY <1>2, <3>1, <3>2, <3>3
    <3>5. QED
      BY <3>1, <3>4
  <2> HIDE DEF T, n
  <2>3. \A i \in 0 .. n : i \in T
    BY <1>1, <2>1, <2>2, InductionUpTo
  <2>4. QED
    BY <2>3 DEF T
<1>11. ReadsLibs(c, f)
  BY <1>1, <1>9 DEF ReadsLibs
<1>12. QED
  BY <1>8, <1>10, <1>11

(* The document is read into the list of its pages, the last one first.      *)
LEMMA DocumentListed ==
    ASSUME NEW c \in Configs
    PROVE  /\ path_map_parser(c.libs) \in Seq(PageEntries(c))
           /\ Listed(c, path_map_parser(c.libs), Doc(c))
<1> DEFINE n == Len(c.libs)
<1>1. n \in Nat /\ DOMAIN c.libs = 1 .. n
  BY DocMeans
<1>2. PICK f : /\ \A i \in 0 .. n : f[i] \in Seq(PageEntries(c))
               /\ ReadsLibs(c, f)
               /\ path_map_parser(c.libs) = f[n]
  BY MapParserIs
<1> DEFINE T == {i \in 0 .. n : Listed(c, f[i], DocUpTo(c, i + 1, 0))}
<1>3. 0 \in T
  <2>1. f[0] = <<>> /\ DocUpTo(c, 0 + 1, 0) = {}
    <3>1. 0 + 1 = 1
      OBVIOUS
    <3>2. DocUpTo(c, 1, 0) = {} /\ f[0] = <<>>
      BY <1>2, UpToMeans DEF ReadsLibs
    <3>3. QED
      BY <3>1, <3>2
  <2>2. Lists(c, <<>>, <<>>, {})
    BY DEF Lists
  <2>3. Listed(c, <<>>, {})
    BY <2>2 DEF Listed
  <2>4. Listed(c, f[0], DocUpTo(c, 0 + 1, 0))
    BY <2>1, <2>3
  <2>5. QED
    BY <1>1, <2>4
<1>4. ASSUME NEW i \in 0 .. n - 1, i \in T
      PROVE  i + 1 \in T
  <2>1. i + 1 \in 1 .. n /\ i + 1 \in 0 .. n /\ (i + 1) - 1 = i /\ i \in 0 .. n
    BY <1>1
  <2>2. f[i + 1] = csp_lib_parser(f[i], c.libs[i + 1]) /\ f[i] \in Seq(PageEntries(c))
    BY <1>1, <1>2, <2>1 DEF ReadsLibs
  <2>3. Listed(c, f[i + 1], DocUpTo(c, (i + 1) + 1, 0))
    BY <1>1, <1>4, <2>1, <2>2, OneLibMore
  <2>4. QED
    BY <2>1, <2>3
<1>5. n \in T
  <2> HIDE DEF T, n
  <2>1. n \in 0 .. n /\ \A i \in 0 .. n : i \in T
    BY <1>1, <1>3, <1>4, InductionUpTo
  <2>2. QED
    BY <2>1
<1>6. Listed(c, f[n], Doc(c))
  BY <1>5, UpToMeans
<1>7. n \in 0 .. n
  BY <1>1
<1>8. QED
  BY <1>2, <1>6, <1>7

-----------------------------------------------------------------------------
(* csp_contain: libraries, map and answers *)

(* The list of pages, the libraries that are held for it, and the map.       *)
Fields == {"lib", "name", "dot", "vir", "handle", "funptr"}
Listing(c, v) ==
    /\ \E n \in Nat : DOMAIN v = 1 .. n
    /\ \A k \in DOMAIN v : DOMAIN v[k] = Fields
    /\ Listed(c, v, Doc(c))

Below(v, a)   == {k \in DOMAIN v : k < a}
FromOn(v, a)  == {k \in DOMAIN v : a <= k}
LastLib(v, a) == IF a = 1 THEN NULL ELSE v[a - 1].lib

\* The entries of S that have their function.
AllOpened(v, S) ==
    \A k \in S : /\ v[k].handle = v[k].lib /\ v[k].funptr = <<v[k].lib, v[k].name>>
                 /\ v[k].funptr \in Exported

\* A library is held once for each run of its entries.
RunStarts(v, k) == k = 1 \/ v[k - 1].lib # v[k].lib
Runs(v, S, l)   == {k \in S : v[k].lib = l /\ RunStarts(v, k)}
HeldFor(r, v, S) == DOMAIN r = Libs /\ \A l \in Libs : r[l] = Cardinality(Runs(v, S, l))

\* The map answers with the last entry of S that has the path.
MapsTo(hmap, v, S) ==
    \A uri \in Key :
        \/ phm_value(hmap, uri) = NULL /\ \A k \in S : v[k].vir # uri
        \/ \E k \in S : /\ v[k].vir = uri /\ phm_value(hmap, uri) = v[k].funptr
                        /\ \A l \in S : k < l => v[l].vir # uri

LEMMA ListingMeans ==
    ASSUME NEW c \in Configs, NEW v, Listing(c, v)
    PROVE  \A k \in DOMAIN v : /\ v[k].lib \in Libs /\ v[k].vir \in Key
                               /\ k \in Nat \ {0} /\ (k # 1 => k - 1 \in DOMAIN v)
<1>1. PICK p : Lists(c, v, p, Doc(c))
  BY DEF Listing, Listed
<1>2. PICK n \in Nat : DOMAIN v = 1 .. n
  BY DEF Listing
<1>3. ASSUME NEW k \in DOMAIN v
      PROVE  v[k].lib \in Libs /\ v[k].vir \in Key
  <2>1. p[k] \in Doc(c) /\ Names(c, v[k], p[k])
    BY <1>1 DEF Lists
  <2>2. p[k][1] \in DOMAIN c.libs
    BY <2>1 DEF Doc
  <2>3. QED
    BY <2>1, <2>2, DocMeans DEF Names
<1>4. QED
  BY <1>2, <1>3

\* What is done to the handles and functions leaves the list of pages.
SameNames(v, w) ==
    /\ DOMAIN w = DOMAIN v
    /\ \A k \in DOMAIN v : DOMAIN w[k] = DOMAIN v[k]
    /\ \A k \in DOMAIN v : w[k].lib = v[k].lib /\ w[k].name = v[k].name /\ w[k].vir = v[k].vir

LEMMA SameListing ==
    ASSUME NEW c \in Configs, NEW v, NEW w, Listing(c, v), SameNames(v, w)
    PROVE  Listing(c, w) /\ \A l : \A S \in SUBSET DOMAIN v : Runs(w, S, l) = Runs(v, S, l)
<1>1. PICK p : Lists(c, v, p, Doc(c))
  BY DEF Listing, Listed
<1>2. Lists(c, w, p, Doc(c))
  BY <1>1 DEF Lists, Names, SameNames
<1>3. \A k \in DOMAIN v : k # 1 => k - 1 \in DOMAIN v
  BY ListingMeans
<1>4. \A k \in DOMAIN v : RunStarts(w, k) <=> RunStarts(v, k)
  BY <1>3 DEF RunStarts, SameNames
<1>5. \A l : \A S \in SUBSET DOMAIN v : Runs(w, S, l) = Runs(v, S, l)
  BY <1>4 DEF Runs, SameNames
<1>6. QED
  BY <1>2, <1>5 DEF Listing, Listed, SameNames

LEMMA RunAdded ==
    ASSUME NEW c \in Configs, NEW v, Listing(c, v), NEW S \in SUBSET DOMAIN v, NEW a \in DOMAIN v,
           a \notin S, NEW l
    PROVE  /\ Cardinality(Runs(v, S, l)) \in Nat
           /\ Cardinality(Runs(v, S \cup {a}, l))
                = Cardinality(Runs(v, S, l)) + (IF v[a].lib = l /\ RunStarts(v, a) THEN 1 ELSE 0)
<1>1. IsFiniteSet(Runs(v, S, l))
  <2>1. PICK n \in Nat : DOMAIN v = 1 .. n
    BY DEF Listing
  <2>2. IsFiniteSet(1 .. n)
    BY FS_Interval
  <2>3. Runs(v, S, l) \subseteq 1 .. n
    BY <2>1 DEF Runs
  <2>4. QED
    BY <2>2, <2>3, FS_Subset
<1>2. Cardinality(Runs(v, S, l)) \in Nat
  BY <1>1, FS_CardinalityType
<1>3. CASE v[a].lib = l /\ RunStarts(v, a)
  <2>1. Runs(v, S \cup {a}, l) = Runs(v, S, l) \cup {a} /\ a \notin Runs(v, S, l)
    BY <1>3 DEF Runs
  <2>2. Cardinality(Runs(v, S, l) \cup {a}) = Cardinality(Runs(v, S, l)) + 1
    BY <1>1, <2>1, FS_AddElement
  <2>3. QED
    BY <1>2, <1>3, <2>1, <2>2
<1>4. CASE ~(v[a].lib = l /\ RunStarts(v, a))
  <2>1. Runs(v, S \cup {a}, l) = Runs(v, S, l)
    BY <1>4 DEF Runs
  <2>2. QED
    BY <1>2, <1>4, <2>1
<1>5. QED
  BY <1>3, <1>4

LEMMA OneAway ==
    ASSUME NEW c \in Configs, NEW v, Listing(c, v), NEW a \in DOMAIN v
    PROVE  /\ Below(v, a + 1) = Below(v, a) \cup {a} /\ a \notin Below(v, a)
           /\ FromOn(v, a) = FromOn(v, a + 1) \cup {a} /\ a \notin FromOn(v, a + 1)
           /\ Below(v, a) \in SUBSET DOMAIN v /\ FromOn(v, a + 1) \in SUBSET DOMAIN v
<1>1. \A k \in DOMAIN v : k \in Nat
  BY ListingMeans
<1>2. \A k \in DOMAIN v : (k < a + 1 <=> k < a \/ k = a) /\ (a <= k <=> a + 1 <= k \/ k = a)
  BY <1>1
<1>3. ~(a < a) /\ ~(a + 1 <= a)
  BY <1>1
<1>4. QED
  BY <1>2, <1>3 DEF Below, FromOn

LEMMA PastTheEnd ==
    ASSUME NEW c \in Configs, NEW v, Listing(c, v), NEW a \in Nat \ {0}, a \notin DOMAIN v
    PROVE  Below(v, a) = DOMAIN v /\ FromOn(v, a) = {}
<1>1. PICK n \in Nat : DOMAIN v = 1 .. n
  BY DEF Listing
<1>2. n < a
  BY <1>1
<1>3. QED
  BY <1>1, <1>2 DEF Below, FromOn

\* dlopen once more for an entry that starts a run.
LEMMA OpenedMore ==
    ASSUME NEW c \in Configs, NEW v, Listing(c, v), NEW a \in DOMAIN v, NEW r,
           HeldFor(r, v, Below(v, a))
    PROVE  HeldFor(IF RunStarts(v, a) THEN [r EXCEPT ![v[a].lib] = @ + 1] ELSE r, v, Below(v, a + 1))
<1> DEFINE new == IF RunStarts(v, a) THEN [r EXCEPT ![v[a].lib] = @ + 1] ELSE r
           S == Below(v, a)
<1>1. Below(v, a + 1) = S \cup {a} /\ a \notin S /\ S \in SUBSET DOMAIN v
  BY OneAway
<1>2. DOMAIN r = Libs /\ \A l \in Libs : r[l] = Cardinality(Runs(v, S, l))
  BY DEF HeldFor
<1> HIDE DEF S
<1>3. \A l : Cardinality(Runs(v, S, l)) \in Nat /\
             Cardinality(Runs(v, S \cup {a}, l))
               = Cardinality(Runs(v, S, l)) + (IF v[a].lib = l /\ RunStarts(v, a) THEN 1 ELSE 0)
  BY <1>1, RunAdded
<1>4. v[a].lib \in Libs
  BY ListingMeans
<1>5. DOMAIN new = Libs
  BY <1>2
<1>6. ASSUME NEW l \in Libs
      PROVE  new[l] = Cardinality(Runs(v, S \cup {a}, l))
  <2>1. new[l] = r[l] + (IF v[a].lib = l /\ RunStarts(v, a) THEN 1 ELSE 0)
    <3>1. r[l] \in Nat
      BY <1>2, <1>3
    <3>2. QED
      BY <1>2, <1>4, <3>1
  <2>2. QED
    BY <1>2, <1>3, <2>1
<1> HIDE DEF new
<1>7. HeldFor(new, v, S \cup {a})
  BY <1>5, <1>6 DEF HeldFor
<1>8. QED
  BY <1>1, <1>7 DEF new

\* dlclose for an entry that starts a run.
LEMMA ClosedMore ==
    ASSUME NEW c \in Configs, NEW v, Listing(c, v), NEW a \in DOMAIN v, NEW r,
           HeldFor(r, v, FromOn(v, a))
    PROVE  HeldFor(IF RunStarts(v, a) THEN [r EXCEPT ![v[a].lib] = @ - 1] ELSE r, v, FromOn(v, a + 1))
<1> DEFINE new == IF RunStarts(v, a) THEN [r EXCEPT ![v[a].lib] = @ - 1] ELSE r
           S == FromOn(v, a + 1)
<1>1. FromOn(v, a) = S \cup {a} /\ a \notin S /\ S \in SUBSET DOMAIN v
  BY OneAway
<1> HIDE DEF S
<1>2. DOMAIN r = Libs /\ \A l \in Libs : r[l] = Cardinality(Runs(v, S \cup {a}, l))
  BY <1>1 DEF HeldFor
<1>3. \A l : Cardinality(Runs(v, S, l)) \in Nat /\
             Cardinality(Runs(v, S \cup {a}, l))
               = Cardinality(Runs(v, S, l)) + (IF v[a].lib = l /\ RunStarts(v, a) THEN 1 ELSE 0)
  BY <1>1, RunAdded
<1>4. v[a].lib \in Libs
  BY ListingMeans
<1>5. DOMAIN new = Libs
  BY <1>2
<1>6. ASSUME NEW l \in Libs
      PROVE  new[l] = Cardinality(Runs(v, S, l))
  <2> DEFINE x == Cardinality(Runs(v, S, l))
  <2>1. x \in Nat /\ r[l] = x + (IF v[a].lib = l /\ RunStarts(v, a) THEN 1 ELSE 0)
    BY <1>2, <1>3
  <2> HIDE DEF x
  <2>2. new[l] = x
    BY <1>2, <1>4, <2>1
  <2>3. QED
    BY <2>2 DEF x
<1> HIDE DEF new
<1>7. HeldFor(new, v, S)
  BY <1>5, <1>6 DEF HeldFor
<1>8. QED
  BY <1>7 DEF new, S

\* While all runs are held, so is the library of each entry.
LEMMA LibHeld ==
    ASSUME NEW c \in Configs, NEW v, Listing(c, v), NEW r, HeldFor(r, v, DOMAIN v),
           NEW k \in DOMAIN v
    PROVE  r[v[k].lib] > 0
<1> DEFINE l == v[k].lib
           same == {j \in DOMAIN v : v[j].lib = l}
<1>1. k \in same /\ same \subseteq Nat /\ l \in Libs
  BY ListingMeans
<1>2. PICK j \in same : \A i \in same : ~(<<i, j>> \in OpToRel(<, Nat))
  BY <1>1, NatLessThanWellFounded, WFMin
<1>3. \A i \in same : ~(i < j)
  BY <1>1, <1>2 DEF OpToRel
<1>4. RunStarts(v, j)
  <2>1. j \in Nat \ {0} /\ (j # 1 => j - 1 \in DOMAIN v)
    BY ListingMeans
  <2>2. j # 1 => j - 1 \notin same
    BY <1>3, <2>1
  <2>3. v[j].lib = l
    OBVIOUS
  <2>4. QED
    BY <2>1, <2>2, <2>3 DEF RunStarts
<1>5. j \in Runs(v, DOMAIN v, l)
  BY <1>4 DEF Runs
<1>6. IsFiniteSet(Runs(v, DOMAIN v, l))
  <2>1. PICK n \in Nat : DOMAIN v = 1 .. n
    BY DEF Listing
  <2>2. IsFiniteSet(1 .. n)
    BY FS_Interval
  <2>3. Runs(v, DOMAIN v, l) \subseteq 1 .. n
    BY <2>1 DEF Runs
  <2>4. QED
    BY <2>2, <2>3, FS_Subset
<1>7. Cardinality(Runs(v, DOMAIN v, l)) \in Nat /\ Cardinality(Runs(v, DOMAIN v, l)) # 0
  BY <1>5, <1>6, FS_CardinalityType, FS_EmptySet
<1>8. r[l] = Cardinality(Runs(v, DOMAIN v, l))
  BY <1>1 DEF HeldFor
<1> HIDE DEF l
<1>9. QED
  BY <1>7, <1>8 DEF l

\* What the map answers after an insertion.
LEMMA ValueIs ==
    ASSUME NEW c, NEW chain, ChainOf(c, chain), NEW i \in DOMAIN chain
    PROVE  FirstOf(chain, chain[i].key) = i
  BY FirstIs DEF ChainOf

LEMMA InsertAnswers ==
    ASSUME HmapInv, NEW key \in Key, NEW data \in Data, phm_insert(key, data)
    PROVE  /\ HmapInv'
           /\ \A k \in Key : phm_value(hmaplist', k)
                               = IF k = key THEN data ELSE phm_value(hmaplist, k)
<1> DEFINE c == hashinde(key)
           old == hmaplist[c]
           new == Inserted(old, key, data)
<1>1. c \in Chains /\ ChainOf(c, old)
  BY HashInRange DEF HmapInv
<1>2. hmaplist' = [hmaplist EXCEPT ![c] = new]
  BY DEF phm_insert
<1>3. HmapInv'
  BY HmapStep DEF HmapNext
<1>4. ChainOf(c, new) /\ hmaplist'[c] = new /\ \A d \in Chains : d # c => hmaplist'[d] = hmaplist[d]
  <2>1. ChainOf(c, new)
    <3> HIDE DEF old
    <3>1. QED
      BY <1>1, InsertedIs
  <2>2. QED
    BY <1>1, <1>2, <2>1 DEF HmapInv
\* the nodes of the new chain
<1>5. /\ \E i \in DOMAIN new : new[i].key = key /\ new[i].data = data
      /\ \A i \in DOMAIN old : old[i].key # key =>
             i \in DOMAIN new /\ new[i].key = old[i].key /\ new[i].data = old[i].data
      /\ \A i \in DOMAIN new : new[i].key # key => i \in DOMAIN old /\ new[i].key = old[i].key
  <2> DEFINE f == FirstOf(old, key)
  <2>1. old \in Seq(Node) /\ Len(old) \in Nat /\ DOMAIN old = 1 .. Len(old)
        /\ \A i \in DOMAIN old : old[i] \in Node
    BY <1>1, ChainMeans
  <2>2. CASE f = 0
    <3> DEFINE e == [key |-> key, data |-> data]
    <3>1. new = Append(old, e)
      BY <2>2 DEF Inserted
    <3>2. e \in Node /\ e.key = key /\ e.data = data
      BY DEF Node
    <3> HIDE DEF e, old, f
    <3>3. /\ DOMAIN new = 1 .. Len(old) + 1 /\ new[Len(old) + 1] = e
          /\ \A i \in 1 .. Len(old) : new[i] = old[i]
      BY <2>1, <3>1, <3>2
    <3> HIDE DEF new
    <3>4. \A i \in 1 .. Len(old) + 1 : i \in 1 .. Len(old) \/ i = Len(old) + 1
      BY <2>1
    <3>5. Len(old) + 1 \in DOMAIN new /\ \A i \in 1 .. Len(old) : i \in DOMAIN new
      BY <2>1, <3>3
    <3>6. QED
      BY <2>1, <3>2, <3>3, <3>4, <3>5
  <2>3. CASE f # 0
    <3>1. f \in DOMAIN old /\ old[f].key = key
      BY <1>1, <2>3, FirstIs
    <3>2. new = [old EXCEPT ![f].data = data]
      BY <2>3 DEF Inserted
    <3> HIDE DEF f, old
    <3>3. old[f] \in Node
      BY <2>1, <3>1
    <3>4. [old[f] EXCEPT !.data = data].key = old[f].key /\ [old[f] EXCEPT !.data = data].data = data
      BY <3>3 DEF Node
    <3>5. /\ DOMAIN new = DOMAIN old /\ new[f] = [old[f] EXCEPT !.data = data]
          /\ \A i \in DOMAIN old : i # f => new[i] = old[i]
      BY <3>1, <3>2
    <3> HIDE DEF new
    <3>6. QED
      BY <3>1, <3>4, <3>5
  <2>4. QED
    BY <2>2, <2>3
<1>6. phm_value(hmaplist', key) = data
  <2>1. PICK i \in DOMAIN new : new[i].key = key /\ new[i].data = data
    BY <1>5
  <2> HIDE DEF new, c
  <2>2. FirstOf(new, key) = i /\ i # 0
    BY <1>4, <2>1, ValueIs, ChainMeans
  <2>3. QED
    BY <1>4, <2>1, <2>2 DEF phm_value, c
<1>7. ASSUME NEW k \in Key, k # key
      PROVE  phm_value(hmaplist', k) = phm_value(hmaplist, k)
  <2>1. hashinde(k) \in Chains
    BY HashInRange
  <2>2. CASE hashinde(k) # c
    <3>1. hmaplist'[hashinde(k)] = hmaplist[hashinde(k)]
      BY <1>4, <2>1, <2>2
    <3>2. QED
      BY <3>1 DEF phm_value
  <2>3. CASE hashinde(k) = c
    <3> HIDE DEF new, c, old
    <3>1. phm_value(hmaplist', k) = IF FirstOf(new, k) = 0 THEN NULL ELSE new[FirstOf(new, k)].data
      BY <1>4, <2>3 DEF phm_value
    <3>2. phm_value(hmaplist, k) = IF FirstOf(old, k) = 0 THEN NULL ELSE old[FirstOf(old, k)].data
      BY <2>3 DEF phm_value, old
    <3>3. CASE \E i \in DOMAIN old : old[i].key = k
      <4>1. PICK i \in DOMAIN old : old[i].key = k
        BY <3>3
      <4>2. i \in DOMAIN new /\ new[i].key = k /\ new[i].data = old[i].data
        BY <1>5, <1>7, <4>1
      <4>3. FirstOf(old, k) = i /\ FirstOf(new, k) = i
        BY <1>1, <1>4, <4>1, <4>2, ValueIs
      <4>4. QED
        BY <3>1, <3>2, <4>2, <4>3
    <3>4. CASE \A i \in DOMAIN old : old[i].key # k
      <4>1. \A i \in DOMAIN new : new[i].key # k
        BY <1>5, <1>7, <3>4
      <4>2. FirstOf(old, k) = 0 /\ FirstOf(new, k) = 0
        BY <1>1, <1>4, <3>4, <4>1, FirstIs
      <4>3. QED
        BY <3>1, <3>2, <4>2
    <3>5. QED
      BY <3>3, <3>4
  <2>4. QED
    BY <2>2, <2>3
<1>8. QED
  BY <1>3, <1>6, <1>7

LEMMA EmptyAnswers ==
    ASSUME NEW list, list = [c \in Chains |-> <<>>]
    PROVE  \A k \in Key : phm_value(list, k) = NULL
<1>1. ASSUME NEW k \in Key
      PROVE  phm_value(list, k) = NULL
  <2>1. list[hashinde(k)] = <<>>
    BY HashInRange
  <2>2. FirstOf(<<>>, k) = 0
    BY DEF FirstOf
  <2>3. QED
    BY <2>1, <2>2 DEF phm_value
<1>2. QED
  BY <1>1

Quiet == at = 1 /\ prevOpen = NULL /\ prevClose = NULL

\* What is so before the libraries are opened, while they are, while the map is
\* filled, while pages are served, and while the libraries are closed.
Fresh ==
    /\ Quiet /\ DOMAIN refs = Libs /\ \A l \in Libs : refs[l] = 0
    /\ \A uri \in Key : phm_value(hmaplist, uri) = NULL
Opening ==
    /\ HeldFor(refs, vlist, Below(vlist, at)) /\ AllOpened(vlist, Below(vlist, at))
    /\ prevOpen = LastLib(vlist, at) /\ prevClose = NULL
    /\ \A uri \in Key : phm_value(hmaplist, uri) = NULL
AllHeld ==
    /\ HeldFor(refs, vlist, DOMAIN vlist) /\ AllOpened(vlist, DOMAIN vlist) /\ prevClose = NULL
Closing ==
    /\ HeldFor(refs, vlist, FromOn(vlist, at)) /\ AllOpened(vlist, DOMAIN vlist)
    /\ prevClose = LastLib(vlist, at)

ContainKept ==
    /\ phase \in {"config", "pools"} => Fresh
    /\ phase \in {"pools", "open", "map", "serve", "close"} => Listing(config, vlist)
    /\ phase = "open" => Opening
    /\ phase \in {"map", "serve"} => AllHeld
    /\ phase = "map" => MapsTo(hmaplist, vlist, Below(vlist, at))
    /\ phase = "serve" => MapsTo(hmaplist, vlist, DOMAIN vlist)
    /\ phase = "close" => Closing
    /\ phase = "ended" => \A l \in Libs : refs[l] = 0

ContainInv ==
    /\ config \in Configs /\ at \in Nat \ {0} /\ HmapInv
    /\ ContainKept /\ FirstPageAnswers

LEMMA ContainStarts == ContainInit => ContainInv
<1> SUFFICES ASSUME ContainInit PROVE ContainInv
  OBVIOUS
<1>1. /\ config \in Configs /\ phase = "config" /\ at = 1 /\ prevOpen = NULL /\ prevClose = NULL
      /\ refs = [l \in Libs |-> 0] /\ answered = {} /\ hmaplist = [c \in Chains |-> <<>>]
  BY DEF ContainInit, phm_create
<1>2. HmapInv /\ \A uri \in Key : phm_value(hmaplist, uri) = NULL
  BY <1>1, HmapStarts, EmptyAnswers DEF HmapInv
<1>3. Fresh
  BY <1>1, <1>2 DEF Fresh, Quiet
<1>4. ContainKept
  BY <1>1, <1>3 DEF ContainKept
<1>5. FirstPageAnswers
  BY <1>1 DEF FirstPageAnswers
<1>6. QED
  BY <1>1, <1>2, <1>4, <1>5 DEF ContainInv

\* A step that leaves the answers and the map.
LEMMA AnswersKept ==
    ASSUME ContainInv, UNCHANGED <<config, answered>>
    PROVE  FirstPageAnswers' /\ config' \in Configs /\ config \in Configs
  BY DEF ContainInv, FirstPageAnswers, DocPage

LEMMA MapKept ==
    ASSUME ContainInv, UNCHANGED hmapVars
    PROVE  HmapInv' /\ \A k : phm_value(hmaplist', k) = phm_value(hmaplist, k)
  BY HmapStep DEF ContainInv, hmapVars

LEMMA LoadConfigStep == ASSUME ContainInv, LoadConfig PROVE ContainInv'
<1>1. /\ phase = "config" /\ UNCHANGED hmapVars /\ UNCHANGED <<config, answered>>
      /\ UNCHANGED <<at, prevOpen, prevClose, refs>> /\ UNCHANGED hmaplist
  BY DEF LoadConfig, loader, hmapVars
<1>2. config \in Configs /\ FirstPageAnswers' /\ HmapInv' /\ config' \in Configs
  BY <1>1, AnswersKept, MapKept
<1>3. Fresh
  BY <1>1 DEF ContainInv, ContainKept
<1>4. Fresh'
  BY <1>1, <1>3 DEF Fresh, Quiet, phm_value
<1>5. CASE config.well
  <2>1. vlist' = path_map_parser(config.libs) /\ phase' = "pools"
    BY <1>5 DEF LoadConfig
  <2>2. Listing(config, vlist')
    <3> DEFINE v == path_map_parser(config.libs)
    <3>1. v \in Seq(PageEntries(config)) /\ Listed(config, v, Doc(config))
      BY <1>2, DocumentListed
    <3> HIDE DEF v
    <3>2. Len(v) \in Nat /\ DOMAIN v = 1 .. Len(v) /\ \A k \in DOMAIN v : v[k] \in PageEntries(config)
      BY <3>1
    <3>3. \A e \in PageEntries(config) : DOMAIN e = Fields
      BY DEF PageEntries, PageEntry, NewPage, Fields
    <3>4. Listing(config, v)
      BY <3>1, <3>2, <3>3 DEF Listing
    <3>5. QED
      BY <2>1, <3>4 DEF v
  <2>3. Listing(config', vlist')
    BY <1>1, <2>2
  <2>4. ContainKept'
    BY <1>4, <2>1, <2>3 DEF ContainKept
  <2>5. QED
    BY <1>1, <1>2, <2>4 DEF ContainInv
<1>6. CASE ~config.well
  <2>1. phase' = "crashed"
    BY <1>6 DEF LoadConfig
  <2>2. ContainKept'
    BY <2>1 DEF ContainKept
  <2>3. QED
    BY <1>1, <1>2, <2>2 DEF ContainInv
<1>7. QED
  BY <1>5, <1>6

LEMMA CreatePoolsStep == ASSUME ContainInv, CreatePools PROVE ContainInv'
<1>1. /\ phase = "pools" /\ phase' \in {"open", "nopool"}
      /\ UNCHANGED hmapVars /\ UNCHANGED <<config, answered>>
      /\ UNCHANGED <<vlist, at, prevOpen, prevClose, refs>> /\ UNCHANGED hmaplist
  BY DEF CreatePools, loader, hmapVars
<1>2. config \in Configs /\ FirstPageAnswers' /\ HmapInv' /\ config' \in Configs
  BY <1>1, AnswersKept, MapKept
<1>3. Fresh /\ Listing(config, vlist)
  BY <1>1 DEF ContainInv, ContainKept
<1>4. Below(vlist, at) = {}
  <2>1. \A k \in DOMAIN vlist : k \in Nat \ {0} /\ at = 1
    BY <1>2, <1>3, ListingMeans DEF Fresh, Quiet
  <2>2. QED
    BY <2>1 DEF Below
<1>5. Opening
  <2>1. HeldFor(refs, vlist, {})
    <3>1. \A l \in Libs : Runs(vlist, {}, l) = {}
      BY DEF Runs
    <3>2. QED
      BY <1>3, <3>1, FS_EmptySet DEF HeldFor, Fresh
  <2>2. AllOpened(vlist, {}) /\ LastLib(vlist, at) = NULL
    BY <1>3 DEF AllOpened, LastLib, Fresh, Quiet
  <2>3. QED
    BY <1>3, <1>4, <2>1, <2>2 DEF Opening, Fresh, Quiet
<1>6. Opening' /\ Listing(config', vlist')
  BY <1>1, <1>3, <1>5 DEF Opening, phm_value
<1>7. ContainKept'
  BY <1>1, <1>6 DEF ContainKept
<1>8. QED
  BY <1>1, <1>2, <1>7 DEF ContainInv

LEMMA OpenEntryStep == ASSUME ContainInv, OpenEntry PROVE ContainInv'
<1> DEFINE e == vlist[at]
<1>1. /\ phase = "open" /\ at \in DOMAIN vlist
      /\ UNCHANGED hmapVars /\ UNCHANGED <<config, answered>> /\ UNCHANGED prevClose
      /\ UNCHANGED hmaplist
  BY DEF OpenEntry, hmapVars
<1>2. /\ config \in Configs /\ FirstPageAnswers' /\ HmapInv' /\ config' \in Configs
      /\ at \in Nat \ {0}
  BY <1>1, AnswersKept, MapKept DEF ContainInv
<1>3. Listing(config, vlist) /\ Opening
  BY <1>1 DEF ContainInv, ContainKept
<1>4. CASE phase' = "failed"
  <2>1. at' = at
    BY <1>1, <1>4 DEF OpenEntry
  <2>2. ContainKept'
    BY <1>4 DEF ContainKept
  <2>3. QED
    BY <1>2, <2>1, <2>2 DEF ContainInv
<1>5. CASE phase' # "failed"
  <2>1. /\ refs' = IF opens(e) THEN [refs EXCEPT ![e.lib] = @ + 1] ELSE refs
        /\ prevOpen' = e.lib
        /\ <<e.lib, e.name>> \in Exported
        /\ vlist' = [vlist EXCEPT ![at].handle = Handle(e.lib), ![at].funptr = <<e.lib, e.name>>]
        /\ at' = at + 1 /\ phase' = "open"
    BY <1>1, <1>5 DEF OpenEntry
  <2> DEFINE new == vlist'
  <2>2. /\ DOMAIN new = DOMAIN vlist /\ SameNames(vlist, new)
        /\ new[at].handle = e.lib /\ new[at].funptr = <<e.lib, e.name>>
        /\ \A k \in DOMAIN vlist : k # at => new[k] = vlist[k]
    <3>1. DOMAIN new = DOMAIN vlist /\ \A k \in DOMAIN vlist : k # at => new[k] = vlist[k]
      BY <2>1
    <3>2. new[at] = [[e EXCEPT !.handle = Handle(e.lib)] EXCEPT !.funptr = <<e.lib, e.name>>]
      BY <1>1, <2>1
    <3>3. {"lib", "name", "vir", "handle", "funptr"} \subseteq DOMAIN e
      BY <1>1, <1>3 DEF Listing, Fields
    <3> DEFINE x == [e EXCEPT !.handle = Handle(e.lib)]
    <3>4. /\ DOMAIN x = DOMAIN e /\ x.handle = e.lib /\ x.lib = e.lib
          /\ x.name = e.name /\ x.vir = e.vir
      BY <3>3 DEF Handle
    <3>5. new[at] = [x EXCEPT !.funptr = <<e.lib, e.name>>]
      BY <3>2
    <3> HIDE DEF x, e
    <3>6. /\ DOMAIN new[at] = DOMAIN e /\ new[at].handle = e.lib /\ new[at].funptr = <<e.lib, e.name>>
          /\ new[at].lib = e.lib /\ new[at].name = e.name /\ new[at].vir = e.vir
      BY <3>3, <3>4, <3>5
    <3> HIDE DEF new
    <3>7. SameNames(vlist, new)
      BY <3>1, <3>6 DEF SameNames, e
    <3>8. QED
      BY <3>1, <3>6, <3>7
  <2>3. Listing(config, new) /\ \A S \in SUBSET DOMAIN vlist : \A l : Runs(new, S, l) = Runs(vlist, S, l)
    <3> HIDE DEF new
    <3>1. QED
      BY <1>2, <1>3, <2>2, SameListing
  <2>4. opens(e) <=> RunStarts(vlist, at)
    <3>1. prevOpen = IF at = 1 THEN NULL ELSE vlist[at - 1].lib
      BY <1>3 DEF Opening, LastLib
    <3>2. e.lib \in Libs /\ NULL \notin Libs
      BY <1>1, <1>2, <1>3, ListingMeans, ContainAssumption
    <3>3. QED
      BY <3>1, <3>2 DEF opens, RunStarts
  <2>5. HeldFor(refs', new, Below(new, at + 1))
    <3> DEFINE r == IF RunStarts(vlist, at) THEN [refs EXCEPT ![vlist[at].lib] = @ + 1] ELSE refs
    <3>1. HeldFor(refs, vlist, Below(vlist, at))
      BY <1>3 DEF Opening
    <3>2. HeldFor(r, vlist, Below(vlist, at + 1))
      <4> HIDE DEF e, r
      <4>1. QED
        BY <1>1, <1>2, <1>3, <3>1, OpenedMore DEF r
    <3>3. refs' = r
      BY <2>1, <2>4
    <3> HIDE DEF r, new, e
    <3>4. Below(new, at + 1) = Below(vlist, at + 1) /\ Below(vlist, at + 1) \in SUBSET DOMAIN vlist
      BY <2>2 DEF Below
    <3>5. QED
      BY <2>3, <3>2, <3>3, <3>4 DEF HeldFor
  <2>6. AllOpened(new, Below(new, at + 1))
    <3> HIDE DEF new
    <3>1. Below(new, at + 1) = Below(vlist, at) \cup {at} /\ at \notin Below(vlist, at)
      <4>1. Below(new, at + 1) = Below(vlist, at + 1)
        BY <2>2 DEF Below
      <4>2. QED
        BY <1>1, <1>2, <1>3, <4>1, OneAway
    <3>2. AllOpened(vlist, Below(vlist, at)) /\ Below(vlist, at) \subseteq DOMAIN vlist
      BY <1>3 DEF Opening, Below
    <3>3. \A k \in Below(vlist, at) : new[k] = vlist[k]
      BY <2>2, <3>1, <3>2
    <3>4. AllOpened(new, {at})
      BY <2>1, <2>2, <1>1 DEF AllOpened, SameNames
    <3>5. QED
      BY <3>1, <3>2, <3>3, <3>4 DEF AllOpened
  <2>7. prevOpen' = LastLib(new, at + 1)
    <3> HIDE DEF new
    <3>1. at + 1 # 1 /\ (at + 1) - 1 = at
      BY <1>2
    <3>2. new[at].lib = e.lib
      BY <1>1, <2>2 DEF SameNames
    <3>3. QED
      BY <2>1, <3>1, <3>2 DEF LastLib
  <2>8. Opening'
    <3>1. prevClose' = NULL /\ \A uri \in Key : phm_value(hmaplist, uri)' = NULL
      BY <1>1, <1>3 DEF Opening, phm_value
    <3>2. QED
      BY <2>1, <2>5, <2>6, <2>7, <3>1 DEF Opening
  <2>9. Listing(config', vlist')
    BY <1>1, <2>3
  <2>10. ContainKept'
    BY <2>1, <2>8, <2>9 DEF ContainKept
  <2>11. QED
    BY <1>2, <2>1, <2>10 DEF ContainInv
<1>6. QED
  BY <1>4, <1>5

LEMMA DlopenFailsStep == ASSUME ContainInv, DlopenFails PROVE ContainInv'
<1>1. /\ phase' = "nolib" /\ UNCHANGED hmapVars /\ UNCHANGED <<config, answered>> /\ at' = at
  BY DEF DlopenFails
<1>2. FirstPageAnswers' /\ HmapInv' /\ config' \in Configs /\ at \in Nat \ {0}
  BY <1>1, AnswersKept, MapKept DEF ContainInv
<1>3. ContainKept'
  BY <1>1 DEF ContainKept
<1>4. QED
  BY <1>1, <1>2, <1>3 DEF ContainInv

LEMMA OpenedAllStep == ASSUME ContainInv, OpenedAll PROVE ContainInv'
<1>1. /\ phase = "open" /\ phase' = "map" /\ at \notin DOMAIN vlist /\ at' = 1
      /\ UNCHANGED hmapVars /\ UNCHANGED <<config, answered>> /\ UNCHANGED hmaplist
      /\ UNCHANGED <<vlist, prevOpen, prevClose, refs>>
  BY DEF OpenedAll, loader, hmapVars
<1>2. /\ FirstPageAnswers' /\ HmapInv' /\ config' \in Configs /\ config \in Configs
      /\ at \in Nat \ {0}
  BY <1>1, AnswersKept, MapKept DEF ContainInv
<1>3. Listing(config, vlist) /\ Opening
  BY <1>1 DEF ContainInv, ContainKept
<1>4. Below(vlist, at) = DOMAIN vlist
  BY <1>1, <1>2, <1>3, PastTheEnd
<1>5. AllHeld
  BY <1>3, <1>4 DEF Opening, AllHeld
<1>6. AllHeld'
  BY <1>1, <1>5 DEF AllHeld
<1>7. MapsTo(hmaplist, vlist, Below(vlist, 1))
  <2>1. \A k \in DOMAIN vlist : k \in Nat \ {0}
    BY <1>2, <1>3, ListingMeans
  <2>2. Below(vlist, 1) = {}
    BY <2>1 DEF Below
  <2>3. \A uri \in Key : phm_value(hmaplist, uri) = NULL
    BY <1>3 DEF Opening
  <2>4. QED
    BY <2>2, <2>3 DEF MapsTo
<1>8. MapsTo(hmaplist', vlist', Below(vlist', at')) /\ Listing(config', vlist')
  BY <1>1, <1>3, <1>7
<1>9. ContainKept'
  BY <1>1, <1>6, <1>8 DEF ContainKept
<1>10. QED
  BY <1>1, <1>2, <1>9 DEF ContainInv

LEMMA MapEntryStep == ASSUME ContainInv, MapEntry PROVE ContainInv'
<1> DEFINE key == vlist[at].vir
           data == vlist[at].funptr
           S == Below(vlist, at)
<1>1. /\ phase = "map" /\ phase' = "map" /\ at \in DOMAIN vlist /\ at' = at + 1
      /\ phm_insert(key, data) /\ UNCHANGED <<config, answered>>
      /\ UNCHANGED <<vlist, prevOpen, prevClose, refs>>
  BY DEF MapEntry, loader
<1>2. /\ config' \in Configs /\ config \in Configs /\ FirstPageAnswers'
      /\ at \in Nat \ {0} /\ HmapInv
  BY <1>1, AnswersKept DEF ContainInv
<1>3. Listing(config, vlist) /\ AllHeld /\ MapsTo(hmaplist, vlist, S)
  BY <1>1 DEF ContainInv, ContainKept
<1>4. key \in Key /\ data \in Data
  <2>1. data \in Exported
    BY <1>1, <1>3 DEF AllHeld, AllOpened
  <2>2. QED
    BY <1>1, <1>2, <1>3, <2>1, ListingMeans, ContainAssumption
<1>5. /\ HmapInv'
      /\ \A k \in Key : phm_value(hmaplist', k) = IF k = key THEN data ELSE phm_value(hmaplist, k)
  <2> HIDE DEF key, data
  <2>1. QED
    BY <1>1, <1>2, <1>4, InsertAnswers
<1>6. Below(vlist, at + 1) = S \cup {at} /\ at \notin S
  BY <1>1, <1>2, <1>3, OneAway
<1>7. \A k \in S : k < at /\ k \in Nat
  BY <1>2, <1>3, ListingMeans DEF Below
<1>8. MapsTo(hmaplist', vlist, S \cup {at})
  <2> SUFFICES ASSUME NEW uri \in Key
               PROVE  \/ /\ phm_value(hmaplist', uri) = NULL
                         /\ \A k \in S \cup {at} : vlist[k].vir # uri
                      \/ \E k \in S \cup {at} :
                            /\ vlist[k].vir = uri /\ phm_value(hmaplist', uri) = vlist[k].funptr
                            /\ \A l \in S \cup {at} : k < l => vlist[l].vir # uri
    BY DEF MapsTo
  <2>1. CASE uri = key
    <3>1. phm_value(hmaplist', uri) = vlist[at].funptr /\ vlist[at].vir = uri
      BY <1>5, <2>1
    <3>2. \A l \in S \cup {at} : ~(at < l)
      BY <1>2, <1>7
    <3>3. QED
      BY <3>1, <3>2
  <2>2. CASE uri # key
    <3>1. phm_value(hmaplist', uri) = phm_value(hmaplist, uri) /\ vlist[at].vir # uri
      BY <1>5, <2>2
    <3>2. \/ phm_value(hmaplist, uri) = NULL /\ \A k \in S : vlist[k].vir # uri
          \/ \E k \in S : /\ vlist[k].vir = uri /\ phm_value(hmaplist, uri) = vlist[k].funptr
                          /\ \A l \in S : k < l => vlist[l].vir # uri
      BY <1>3 DEF MapsTo
    <3> HIDE DEF S
    <3>3. QED
      BY <3>1, <3>2
  <2>3. QED
    BY <2>1, <2>2
<1>9. MapsTo(hmaplist', vlist', Below(vlist', at')) /\ Listing(config', vlist')
  BY <1>1, <1>3, <1>6, <1>8
<1>10. AllHeld'
  BY <1>1, <1>3 DEF AllHeld
<1>11. ContainKept'
  BY <1>1, <1>9, <1>10 DEF ContainKept
<1>12. QED
  BY <1>1, <1>2, <1>5, <1>11 DEF ContainInv

LEMMA MappedAllStep == ASSUME ContainInv, MappedAll PROVE ContainInv'
<1>1. /\ phase = "map" /\ phase' = "serve" /\ at \notin DOMAIN vlist /\ at' = at
      /\ UNCHANGED hmapVars /\ UNCHANGED <<config, answered>> /\ UNCHANGED hmaplist
      /\ UNCHANGED <<vlist, prevOpen, prevClose, refs>>
  BY DEF MappedAll, loader, hmapVars
<1>2. /\ FirstPageAnswers' /\ HmapInv' /\ config' \in Configs /\ config \in Configs
      /\ at \in Nat \ {0}
  BY <1>1, AnswersKept, MapKept DEF ContainInv
<1>3. Listing(config, vlist) /\ AllHeld /\ MapsTo(hmaplist, vlist, Below(vlist, at))
  BY <1>1 DEF ContainInv, ContainKept
<1>4. Below(vlist, at) = DOMAIN vlist
  BY <1>1, <1>2, <1>3, PastTheEnd
<1>5. MapsTo(hmaplist', vlist', DOMAIN vlist') /\ Listing(config', vlist')
  BY <1>1, <1>3, <1>4
<1>6. AllHeld'
  BY <1>1, <1>3 DEF AllHeld
<1>7. ContainKept'
  BY <1>1, <1>5, <1>6 DEF ContainKept
<1>8. QED
  BY <1>1, <1>2, <1>7 DEF ContainInv

\* The last entry with a path is the page that the document names first.
LEMMA LastIsFirst ==
    ASSUME NEW c \in Configs, NEW v, Listing(c, v), NEW uri, NEW k \in DOMAIN v,
           AllOpened(v, DOMAIN v), v[k].vir = uri, \A l \in DOMAIN v : k < l => v[l].vir # uri
    PROVE  \E q \in Doc(c) : /\ PageOf(c, q).vir = uri
                             /\ v[k].funptr = <<c.libs[q[1]].lib, PageOf(c, q).name>>
                             /\ \A r \in Doc(c) : Earlier(r, q) => PageOf(c, r).vir # uri
<1>1. PICK p : Lists(c, v, p, Doc(c))
  BY DEF Listing, Listed
<1>2. p[k] \in Doc(c) /\ Names(c, v[k], p[k])
  BY <1>1 DEF Lists
<1>3. PageOf(c, p[k]).vir = uri /\ v[k].funptr = <<c.libs[p[k][1]].lib, PageOf(c, p[k]).name>>
  BY <1>2 DEF Names, AllOpened
<1>4. ASSUME NEW r \in Doc(c), Earlier(r, p[k])
      PROVE  PageOf(c, r).vir # uri
  <2>1. PICK l \in DOMAIN v : p[l] = r
    BY <1>1 DEF Lists
  <2>2. k \in Nat /\ l \in Nat
    BY ListingMeans
  <2>3. \A q, s \in Doc(c) : Earlier(q, s) => ~Earlier(s, q)
    <3>1. \A q \in Doc(c) : q[1] \in Nat /\ q[2] \in Nat
      BY DEF Doc
    <3>2. QED
      BY <3>1 DEF Earlier, Before
  <2>4. ~(l < k)
    <3>1. l < k => Earlier(p[k], p[l])
      BY <1>1 DEF Lists
    <3>2. QED
      BY <1>2, <1>4, <2>1, <2>3, <3>1
  <2>5. l # k
    BY <1>2, <1>4, <2>1, <2>3
  <2>6. k < l
    BY <2>2, <2>4, <2>5
  <2>7. Names(c, v[l], r)
    BY <1>1, <2>1 DEF Lists
  <2>8. QED
    BY <2>6, <2>7 DEF Names
<1>5. QED
  BY <1>2, <1>3, <1>4

LEMMA ServeStep == ASSUME ContainInv, NEW uri \in Key, Serve(uri) PROVE ContainInv'
<1> DEFINE fun == phm_value(hmaplist, uri)
<1>1. /\ phase = "serve" /\ UNCHANGED hmapVars /\ UNCHANGED hmaplist /\ config' = config
      /\ UNCHANGED <<vlist, at, prevOpen, prevClose, refs>>
  BY DEF Serve, loader, hmapVars
<1>2. /\ HmapInv' /\ config \in Configs /\ at \in Nat \ {0} /\ FirstPageAnswers
  BY <1>1, MapKept DEF ContainInv
<1>3. Listing(config, vlist) /\ AllHeld /\ MapsTo(hmaplist, vlist, DOMAIN vlist)
  BY <1>1 DEF ContainInv, ContainKept
<1>4. CASE fun = NULL
  <2>1. phase' = "crashed" /\ answered' = answered
    BY <1>4 DEF Serve
  <2>2. FirstPageAnswers'
    BY <1>1, <2>1, AnswersKept
  <2>3. ContainKept'
    BY <2>1 DEF ContainKept
  <2>4. QED
    BY <1>1, <1>2, <2>2, <2>3 DEF ContainInv
<1>5. CASE fun # NULL
  <2>1. phase' = "serve" /\ answered' = answered \cup {[uri |-> uri, fun |-> fun]}
    BY <1>1, <1>5 DEF Serve
  <2>2. PICK k \in DOMAIN vlist : /\ vlist[k].vir = uri /\ fun = vlist[k].funptr
                                  /\ \A l \in DOMAIN vlist : k < l => vlist[l].vir # uri
    BY <1>3, <1>5 DEF MapsTo
  <2> HIDE DEF fun
  <2>3. PICK q \in Doc(config) :
            /\ PageOf(config, q).vir = uri
            /\ fun = <<config.libs[q[1]].lib, PageOf(config, q).name>>
            /\ \A r \in Doc(config) : Earlier(r, q) => PageOf(config, r).vir # uri
    BY <1>2, <1>3, <2>2, LastIsFirst DEF AllHeld
  <2>4. q[1] \in DOMAIN config.libs /\ q[2] \in DOMAIN config.libs[q[1]].pages
    BY DEF Doc
  <2>5. ASSUME NEW i \in DOMAIN config.libs, NEW j \in DOMAIN config.libs[i].pages,
               Before(i, j, q[1], q[2])
        PROVE  DocPage(i, j).vir # uri
    <3>1. <<i, j>> \in Doc(config)
      <4>1. i \in Nat /\ j \in Nat
        BY <1>2, DocMeans
      <4>2. QED
        BY <4>1 DEF Doc
    <3>2. Earlier(<<i, j>>, q)
      BY <2>5 DEF Earlier
    <3>3. QED
      BY <2>3, <3>1, <3>2 DEF DocPage, PageOf
  <2> DEFINE a == [uri |-> uri, fun |-> fun]
             Right(b) == \E m \in DOMAIN config.libs : \E l \in DOMAIN config.libs[m].pages :
                           /\ DocPage(m, l).vir = b.uri /\ b.fun = <<config.libs[m].lib, DocPage(m, l).name>>
                           /\ \A i \in DOMAIN config.libs : \A j \in DOMAIN config.libs[i].pages :
                                 Before(i, j, m, l) => DocPage(i, j).vir # b.uri
  <2>6. Right(a)
    BY <2>3, <2>4, <2>5 DEF DocPage, PageOf
  <2>7. \A b \in answered : Right(b)
    BY <1>2 DEF FirstPageAnswers
  <2>8. \A b \in answered' : Right(b)
    <3> HIDE DEF Right, a
    <3>1. answered' = answered \cup {a}
      BY <2>1 DEF a
    <3>2. QED
      BY <2>6, <2>7, <3>1
  <2>9. FirstPageAnswers'
    BY <1>1, <2>8 DEF FirstPageAnswers, DocPage
  <2>10. AllHeld' /\ MapsTo(hmaplist', vlist', DOMAIN vlist') /\ Listing(config', vlist')
    BY <1>1, <1>3 DEF AllHeld
  <2>11. ContainKept'
    BY <2>1, <2>10 DEF ContainKept
  <2>12. QED
    BY <1>1, <1>2, <2>9, <2>11 DEF ContainInv
<1>6. QED
  BY <1>4, <1>5

LEMMA AcceptFailsStep == ASSUME ContainInv, AcceptFails PROVE ContainInv'
<1>1. /\ phase = "serve" /\ phase' = "close" /\ at' = 1 /\ phm_dele
      /\ UNCHANGED <<config, answered>> /\ UNCHANGED <<vlist, prevOpen, prevClose, refs>>
  BY DEF AcceptFails, loader
<1>2. config' \in Configs /\ config \in Configs /\ FirstPageAnswers' /\ HmapInv
  BY <1>1, AnswersKept DEF ContainInv
<1>3. HmapInv'
  BY <1>1, <1>2, HmapStep DEF HmapNext
<1>4. Listing(config, vlist) /\ AllHeld
  BY <1>1 DEF ContainInv, ContainKept
<1>5. FromOn(vlist, 1) = DOMAIN vlist
  <2>1. \A k \in DOMAIN vlist : k \in Nat \ {0}
    BY <1>2, <1>4, ListingMeans
  <2>2. QED
    BY <2>1 DEF FromOn
<1>6. Closing'
  BY <1>1, <1>4, <1>5 DEF AllHeld, Closing, LastLib
<1>7. ContainKept'
  BY <1>1, <1>4, <1>6 DEF ContainKept
<1>8. QED
  BY <1>1, <1>2, <1>3, <1>7 DEF ContainInv

LEMMA CloseEntryStep == ASSUME ContainInv, CloseEntry PROVE ContainInv'
<1> DEFINE e == vlist[at]
<1>1. /\ phase = "close" /\ phase' = "close" /\ at \in DOMAIN vlist /\ at' = at + 1
      /\ refs' = (IF closes(e) THEN [refs EXCEPT ![e.handle] = @ - 1] ELSE refs)
      /\ prevClose' = (IF closes(e) THEN e.handle ELSE prevClose)
      /\ UNCHANGED hmapVars /\ UNCHANGED <<config, answered>> /\ UNCHANGED vlist
  BY DEF CloseEntry, hmapVars
<1>2. /\ FirstPageAnswers' /\ HmapInv' /\ config' \in Configs /\ config \in Configs
      /\ at \in Nat \ {0}
  BY <1>1, AnswersKept, MapKept DEF ContainInv
<1>3. Listing(config, vlist) /\ Closing
  BY <1>1 DEF ContainInv, ContainKept
<1>4. e.handle = e.lib /\ e.lib \in Libs /\ NULL \notin Libs
  BY <1>1, <1>2, <1>3, ListingMeans, ContainAssumption DEF Closing, AllOpened
<1>5. closes(e) <=> RunStarts(vlist, at)
  BY <1>3, <1>4 DEF closes, Closing, LastLib, RunStarts
<1>6. HeldFor(refs', vlist, FromOn(vlist, at + 1))
  <2> DEFINE r == IF RunStarts(vlist, at) THEN [refs EXCEPT ![vlist[at].lib] = @ - 1] ELSE refs
  <2>1. HeldFor(refs, vlist, FromOn(vlist, at))
    BY <1>3 DEF Closing
  <2>2. HeldFor(r, vlist, FromOn(vlist, at + 1))
    <3> HIDE DEF e, r
    <3>1. QED
      BY <1>1, <1>2, <1>3, <2>1, ClosedMore DEF r
  <2>3. refs' = r
    BY <1>1, <1>4, <1>5
  <2>4. QED
    BY <2>2, <2>3
<1>7. prevClose' = LastLib(vlist, at + 1)
  <2>1. at + 1 # 1 /\ (at + 1) - 1 = at
    BY <1>2
  <2>2. prevClose' = e.lib
    BY <1>1, <1>4 DEF closes
  <2>3. QED
    BY <2>1, <2>2 DEF LastLib
<1>8. Closing'
  BY <1>1, <1>3, <1>6, <1>7 DEF Closing
<1>9. ContainKept'
  BY <1>1, <1>3, <1>8 DEF ContainKept
<1>10. QED
  BY <1>1, <1>2, <1>9 DEF ContainInv

LEMMA ClosedAllStep == ASSUME ContainInv, ClosedAll PROVE ContainInv'
<1>1. /\ phase = "close" /\ phase' = "ended" /\ at \notin DOMAIN vlist
      /\ UNCHANGED hmapVars /\ UNCHANGED <<config, answered>> /\ UNCHANGED <<at, refs>>
  BY DEF ClosedAll, loader
<1>2. /\ FirstPageAnswers' /\ HmapInv' /\ config' \in Configs /\ config \in Configs
      /\ at \in Nat \ {0}
  BY <1>1, AnswersKept, MapKept DEF ContainInv
<1>3. Listing(config, vlist) /\ Closing
  BY <1>1 DEF ContainInv, ContainKept
<1>4. FromOn(vlist, at) = {}
  BY <1>1, <1>2, <1>3, PastTheEnd
<1>5. \A l \in Libs : refs[l] = 0
  <2>1. \A l : Runs(vlist, {}, l) = {}
    BY DEF Runs
  <2>2. QED
    BY <1>3, <1>4, <2>1, FS_EmptySet DEF Closing, HeldFor
<1>6. ContainKept'
  BY <1>1, <1>5 DEF ContainKept
<1>7. QED
  BY <1>1, <1>2, <1>6 DEF ContainInv

LEMMA ContainKeeps ==
    ASSUME ContainInv, [ContainNext]_containVars
    PROVE  ContainInv'
<1>1. CASE UNCHANGED containVars
  <2>1. /\ UNCHANGED hmapVars /\ UNCHANGED <<config, answered>> /\ UNCHANGED hmaplist
        /\ UNCHANGED <<phase, vlist, at, prevOpen, prevClose, refs>>
    BY <1>1 DEF containVars, loader, hmapVars
  <2>2. /\ FirstPageAnswers' /\ HmapInv' /\ config' \in Configs
    BY <2>1, AnswersKept, MapKept
  <2>3. ContainKept'
    BY <2>1 DEF ContainInv, ContainKept, Fresh, Quiet, Opening, AllHeld, Closing, phm_value
  <2>4. QED
    BY <2>1, <2>2, <2>3 DEF ContainInv
<1>2. CASE ContainStep
  BY <1>2, LoadConfigStep, CreatePoolsStep, OpenEntryStep, OpenedAllStep, MapEntryStep,
     MappedAllStep, CloseEntryStep, ClosedAllStep DEF ContainStep
<1>3. QED
  BY <1>1, <1>2, DlopenFailsStep, AcceptFailsStep, ServeStep DEF ContainNext

LEMMA ContainInvMeans == ContainInv => PagesServed
<1> SUFFICES ASSUME ContainInv PROVE PagesServed
  OBVIOUS
<1>1. config \in Configs /\ ContainKept /\ FirstPageAnswers
  BY DEF ContainInv
<1>2. ASSUME phase = "serve", NEW uri \in Key, phm_value(hmaplist, uri) # NULL
      PROVE  refs[phm_value(hmaplist, uri)[1]] > 0
  <2>1. Listing(config, vlist) /\ AllHeld /\ MapsTo(hmaplist, vlist, DOMAIN vlist)
    BY <1>1, <1>2 DEF ContainKept
  <2>2. PICK k \in DOMAIN vlist : phm_value(hmaplist, uri) = vlist[k].funptr
    BY <1>2, <2>1 DEF MapsTo
  <2>3. vlist[k].funptr[1] = vlist[k].lib
    BY <2>1 DEF AllHeld, AllOpened
  <2>4. refs[vlist[k].lib] > 0
    BY <1>1, <2>1, LibHeld DEF AllHeld
  <2>5. QED
    BY <2>2, <2>3, <2>4
<1>3. phase = "ended" => \A l \in Libs : refs[l] = 0
  BY <1>1 DEF ContainKept
<1>4. QED
  BY <1>1, <1>2, <1>3 DEF PagesServed, LibrariesHeld

(* The page that the document names first for a path answers it, its         *)
(* library is open, and every library is closed at the end: for any          *)
(* documents, libraries, functions and hash.                                 *)
THEOREM PagesServedAlways == ContainSpec => []PagesServed
<1>1. ContainInit => ContainInv
  BY ContainStarts
<1>2. ContainInv /\ [ContainNext]_containVars => ContainInv'
  BY ContainKeeps
<1>3. ContainInv => PagesServed
  BY ContainInvMeans
<1>4. QED
  BY <1>1, <1>2, <1>3, PTL DEF ContainSpec

-----------------------------------------------------------------------------
(* The page compiler: sequences of lines and items *)

IsSeq(s) == \E S : s \in Seq(S)

LEMMA SeqIs ==
    ASSUME NEW s, IsSeq(s)
    PROVE  Len(s) \in Nat /\ DOMAIN s = 1 .. Len(s)
<1>1. PICK S : s \in Seq(S)
  BY DEF IsSeq
<1>2. QED
  BY <1>1

LEMMA ListIs ==
    ASSUME NEW n \in Nat, NEW s, DOMAIN s = 1 .. n, s = [i \in 1 .. n |-> s[i]]
    PROVE  IsSeq(s) /\ Len(s) = n
<1> DEFINE S == {s[i] : i \in 1 .. n}
<1>1. s \in [1 .. n -> S]
  OBVIOUS
<1>2. s \in Seq(S)
  <2> HIDE DEF S
  <2>1. QED
    BY <1>1
<1>3. Len(s) \in Nat /\ 1 .. Len(s) = 1 .. n
  BY <1>2
<1>4. ~(Len(s) < n) /\ ~(n < Len(s))
  <2> DEFINE m == Len(s)
  <2> HIDE DEF m
  <2>1. m \in Nat /\ \A i \in Int : i \in 1 .. m <=> i \in 1 .. n
    BY <1>3 DEF m
  <2>2. (m \in 1 .. m <=> m \in 1 .. n) /\ (n \in 1 .. m <=> n \in 1 .. n)
    BY <2>1
  <2>3. ~(m < n) /\ ~(n < m)
    BY <2>1, <2>2
  <2>4. QED
    BY <2>3 DEF m
<1>5. QED
  BY <1>2, <1>3, <1>4 DEF IsSeq

Joined(s, t, u) ==
    /\ IsSeq(u) /\ Len(u) = Len(s) + Len(t)
    /\ \A i \in 1 .. Len(s) : u[i] = s[i]
    /\ \A i \in 1 .. Len(t) : u[Len(s) + i] = t[i]

LEMMA JoinIs ==
    ASSUME NEW s, NEW t, IsSeq(s), IsSeq(t)
    PROVE  Joined(s, t, s \o t)
<1>1. PICK S : s \in Seq(S)
  BY DEF IsSeq
<1>2. PICK T : t \in Seq(T)
  BY DEF IsSeq
<1> DEFINE U == S \cup T
<1>3. s \in Seq(U) /\ t \in Seq(U)
  BY <1>1, <1>2
<1> HIDE DEF U
<1>4. s \o t \in Seq(U)
  BY <1>3
<1>5. IsSeq(s \o t)
  BY <1>4 DEF IsSeq
<1>6. QED
  BY <1>3, <1>5 DEF Joined

\* The elements of a sequence.
Has(s, x) == \E i \in DOMAIN s : s[i] = x

LEMMA AppendedIs ==
    ASSUME NEW s, IsSeq(s), NEW x
    PROVE  /\ IsSeq(Append(s, x)) /\ Len(Append(s, x)) = Len(s) + 1
           /\ \A i \in 1 .. Len(s) : Append(s, x)[i] = s[i]
           /\ Append(s, x)[Len(s) + 1] = x
<1>1. PICK S : s \in Seq(S)
  BY DEF IsSeq
<1> DEFINE U == S \cup {x}
<1>2. s \in Seq(U) /\ x \in U
  BY <1>1
<1> HIDE DEF U
<1>3. Append(s, x) \in Seq(U)
  BY <1>2
<1>4. QED
  BY <1>2, <1>3 DEF IsSeq

\* The smallest of a set of numbers is in it.
LEMMA SmallestIn ==
    ASSUME NEW S, S \subseteq Nat, S # {}
    PROVE  Min(S) \in S /\ \A k \in S : Min(S) <= k
<1>1. \E i \in S : \A k \in S : i <= k
  <2>1. PICK i \in S : \A k \in S : ~(<<k, i>> \in OpToRel(<, Nat))
    BY NatLessThanWellFounded, WFMin
  <2>2. ASSUME NEW k \in S PROVE i <= k
    <3>1. k \in Nat /\ i \in Nat /\ ~(<<k, i>> \in OpToRel(<, Nat))
      BY <2>1
    <3>2. ASSUME k < i PROVE FALSE
      <4>1. <<k, i>> \in OpToRel(<, Nat)
        BY <3>1, <3>2 DEF OpToRel
      <4>2. QED
        BY <3>1, <4>1
    <3>3. k \in Nat /\ i \in Nat
      BY <3>1
    <3>4. QED
      BY <3>2, <3>3
  <2>3. QED
    BY <2>2
<1>2. QED
  BY <1>1 DEF Min

\* The first items, up to one of a kind.
LEMMA UpToIs ==
    ASSUME NEW items, IsSeq(items), NEW what
    PROVE  /\ IsSeq(UpTo(items, what)) /\ Len(UpTo(items, what)) <= Len(items)
           /\ \A i \in 1 .. Len(UpTo(items, what)) :
                UpTo(items, what)[i] = items[i] /\ items[i].is # what
<1> DEFINE I == {i \in 1 .. Len(items) : items[i].is = what}
           here == IF I # {} THEN Min(I) ELSE 0
<1>1. Len(items) \in Nat
  BY SeqIs
<1>2. UpTo(items, what) = IF here = 0 THEN items ELSE SubSeq(items, 1, here - 1)
  BY DEF UpTo, SelectInSeq
<1>3. CASE I = {}
  BY <1>1, <1>2, <1>3
<1>4. CASE I # {}
  <2>1. here \in I /\ \A k \in I : here <= k
    <3>1. I \subseteq Nat
      BY <1>1
    <3> HIDE DEF I
    <3>2. QED
      BY <1>4, <3>1, SmallestIn
  <2>2. here \in 1 .. Len(items)
    BY <2>1
  <2>3. \A i \in 1 .. here - 1 : i \in 1 .. Len(items) /\ i \notin I
    <3> HIDE DEF I, here
    <3>1. QED
      BY <1>1, <2>1, <2>2
  <2>4. UpTo(items, what) = SubSeq(items, 1, here - 1)
    <3>1. here # 0
      BY <1>1, <2>2
    <3> HIDE DEF here
    <3>2. QED
      BY <1>2, <3>1
  <2>5. \A i \in 1 .. here - 1 : items[i].is # what
    BY <2>3
  <2> HIDE DEF I, here
  <2>6. PICK S : items \in Seq(S)
    BY DEF IsSeq
  <2>7. /\ SubSeq(items, 1, here - 1) \in Seq(S) /\ Len(SubSeq(items, 1, here - 1)) = here - 1
        /\ \A i \in 1 .. here - 1 : SubSeq(items, 1, here - 1)[i] = items[i]
    <3> DEFINE n == here - 1
    <3>1. n \in Int /\ 0 <= n /\ 1 \in Int /\ \A i \in 1 .. n : items[i] \in S
      BY <1>1, <2>2, <2>6
    <3>2. here - 1 = n
      OBVIOUS
    <3> HIDE DEF n
    <3>3. /\ SubSeq(items, 1, n) \in Seq(S)
          /\ Len(SubSeq(items, 1, n)) = IF 1 <= n THEN n - 1 + 1 ELSE 0
          /\ \A i \in 1 .. n - 1 + 1 : SubSeq(items, 1, n)[i] = items[1 + i - 1]
      BY <3>1, SubSeqProperties
    <3>4. n - 1 + 1 = n /\ \A i \in 1 .. n : 1 + i - 1 = i
      BY <3>1
    <3>5. Len(SubSeq(items, 1, n)) = n
      BY <3>1, <3>3, <3>4
    <3>6. QED
      BY <3>2, <3>3, <3>4, <3>5
  <2>8. IsSeq(SubSeq(items, 1, here - 1))
    BY <2>7 DEF IsSeq
  <2> DEFINE t == SubSeq(items, 1, here - 1)
  <2>9. IsSeq(t) /\ Len(t) = here - 1 /\ \A i \in 1 .. here - 1 : t[i] = items[i]
    BY <2>7, <2>8
  <2>10. UpTo(items, what) = t
    BY <2>4
  <2> HIDE DEF t
  <2>11. Len(t) <= Len(items)
    BY <1>1, <2>2, <2>9
  <2>12. QED
    BY <2>5, <2>9, <2>10, <2>11
<1>5. QED
  BY <1>3, <1>4

-----------------------------------------------------------------------------
(* The lines of a page and of those that it requires *)

HasText  == {"require", "done", "start"}
LineKind(line) == "is" \in DOMAIN line /\ (line.is \in HasText => "text" \in DOMAIN line)

\* There is a line of one of the kinds for the file.
HasFile(lines, kinds, f) == \E i \in DOMAIN lines : lines[i].is \in kinds /\ lines[i].text.file = f

Asked == {"require", "done"}

LEMMA UndoIs ==
    ASSUME NEW lines, IsSeq(lines)
    PROVE  \/ find_require_undo(lines) = 0 /\ \A i \in DOMAIN lines : lines[i].is # "require"
           \/ find_require_undo(lines) \in DOMAIN lines /\ find_require_undo(lines) # 0
              /\ lines[find_require_undo(lines)].is = "require"
<1> DEFINE I == {i \in 1 .. Len(lines) : lines[i].is = "require"}
<1>1. Len(lines) \in Nat /\ DOMAIN lines = 1 .. Len(lines)
  BY SeqIs
<1>2. find_require_undo(lines) = IF I # {} THEN Min(I) ELSE 0
  BY DEF find_require_undo, SelectInSeq
<1>3. CASE I = {}
  BY <1>1, <1>2, <1>3
<1>4. CASE I # {}
  <2>1. Min(I) \in I
    <3>1. I \subseteq Nat
      BY <1>1
    <3> HIDE DEF I
    <3>2. QED
      BY <1>4, <3>1, SmallestIn
  <2> DEFINE m == Min(I)
  <2>2. m \in 1 .. Len(lines) /\ lines[m].is = "require"
    BY <2>1
  <2>3. find_require_undo(lines) = m
    BY <1>2, <1>4
  <2> HIDE DEF m
  <2>4. m # 0
    BY <1>1, <2>2
  <2>5. QED
    BY <1>1, <2>2, <2>3, <2>4
<1>5. QED
  BY <1>3, <1>4

\* The requires of one text that are marked as done.
Marks(lines, m, text) ==
    /\ IsSeq(m) /\ Len(m) = Len(lines)
    /\ \A i \in 1 .. Len(lines) :
          \/ m[i] = lines[i]
          \/ /\ lines[i].is = "require" /\ m[i].is = "done" /\ lines[i].text = text
             /\ m[i].text = text /\ LineKind(m[i])

LEMMA DoneIs ==
    ASSUME NEW line, LineKind(line), line.is = "require"
    PROVE  Done(line).is = "done" /\ Done(line).text = line.text /\ LineKind(Done(line))
BY DEF Done, LineKind, HasText

LEMMA MarkedIs ==
    ASSUME NEW lines, IsSeq(lines), \A i \in DOMAIN lines : LineKind(lines[i]),
           NEW a \in DOMAIN lines, lines[a].is = "require"
    PROVE  Marks(lines, [LaterMarked(lines, a) EXCEPT ![a] = Done(@)], lines[a].text)
<1> DEFINE n == Len(lines)
           u == LaterMarked(lines, a)
           m == [u EXCEPT ![a] = Done(@)]
           text == lines[a].text
<1>1. n \in Nat /\ DOMAIN lines = 1 .. n
  BY SeqIs
<1>2. /\ u = [i \in 1 .. n |-> u[i]]
      /\ \A i \in 1 .. n : u[i] = IF i > a /\ lines[i].is = "require" /\ lines[i].text = text
                                  THEN Done(lines[i]) ELSE lines[i]
  BY <1>1 DEF LaterMarked
<1> HIDE DEF u
<1>3. u[a] = lines[a]
  <2>1. a \in 1 .. n /\ ~(a > a)
    BY <1>1
  <2>2. QED
    BY <1>2, <2>1
<1>4. /\ m = [i \in 1 .. n |-> m[i]] /\ DOMAIN m = 1 .. n
      /\ \A i \in 1 .. n : m[i] = IF i = a THEN Done(lines[a]) ELSE u[i]
  BY <1>1, <1>2, <1>3
<1> HIDE DEF m
<1>5. IsSeq(m) /\ Len(m) = n
  <2> HIDE DEF n
  <2>1. QED
    BY <1>1, <1>4, ListIs
<1>6. ASSUME NEW i \in 1 .. n
      PROVE  \/ m[i] = lines[i]
             \/ /\ lines[i].is = "require" /\ m[i].is = "done" /\ lines[i].text = text
                /\ m[i].text = text /\ LineKind(m[i])
  <2>1. LineKind(lines[i])
    BY <1>1
  <2>2. lines[i].is = "require" => Done(lines[i]).is = "done" /\ Done(lines[i]).text = lines[i].text
                                   /\ LineKind(Done(lines[i]))
    BY <2>1, DoneIs
  <2>3. m[i] = lines[i] \/ (m[i] = Done(lines[i]) /\ lines[i].is = "require" /\ lines[i].text = text)
    BY <1>2, <1>4
  <2>4. QED
    BY <2>2, <2>3
<1>7. QED
  BY <1>5, <1>6 DEF Marks, m, u

LEMMA ItemsAre ==
    ASSUME NEW items, ItemsOfPage(items)
    PROVE  IsSeq(items)
BY DEF ItemsOfPage, IsSeq

Kept(items) == UpTo(UpTo(items, "badhead"), "badcomment")

LEMMA ParsedIs ==
    ASSUME NEW items, ItemsOfPage(items)
    PROVE  /\ IsSeq(parse_cspla_data(items)) /\ Len(parse_cspla_data(items)) = Len(Kept(items))
           /\ \A i \in 1 .. Len(Kept(items)) :
                 /\ LineKind(parse_cspla_data(items)[i])
                 /\ parse_cspla_data(items)[i].is \in {"require", "html", "line"}
                 /\ Kept(items)[i].is = "require" =>
                       /\ parse_cspla_data(items)[i].is = "require"
                       /\ parse_cspla_data(items)[i].text.file = Kept(items)[i].file
<1> DEFINE k == Kept(items)
           p == parse_cspla_data(items)
           n == Len(k)
<1>1. IsSeq(UpTo(items, "badhead")) /\ IsSeq(items)
  BY ItemsAre, UpToIs
<1>2. IsSeq(k)
  BY <1>1, UpToIs DEF Kept
<1>3. n \in Nat /\ DOMAIN k = 1 .. n
  BY <1>2, SeqIs
<1>4. \A i \in 1 .. n : k[i].is \in {"require", "html", "code"}
  <2> DEFINE t == UpTo(items, "badhead")
  <2>1. /\ n <= Len(t) /\ \A i \in 1 .. n : k[i] = t[i] /\ t[i].is # "badcomment"
        /\ Len(t) <= Len(items) /\ \A i \in 1 .. Len(t) : t[i] = items[i] /\ items[i].is # "badhead"
    BY <1>1, UpToIs DEF Kept
  <2>2. Len(t) \in Nat /\ Len(items) \in Nat /\ DOMAIN items = 1 .. Len(items)
    BY <1>1, SeqIs
  <2>3. \A i \in 1 .. Len(items) : items[i].is \in {"require", "html", "code", "badcomment", "badhead"}
    BY <2>2 DEF ItemsOfPage
  <2> HIDE DEF t, n, k
  <2>4. \A i \in 1 .. n : i \in 1 .. Len(t) /\ i \in 1 .. Len(items)
    BY <1>3, <2>1, <2>2
  <2>5. QED
    BY <2>1, <2>3, <2>4
<1>5. p = [i \in 1 .. n |-> LineOf(k[i])]
  BY <1>3 DEF parse_cspla_data, Kept
<1> HIDE DEF k, p
<1>6. IsSeq(p) /\ Len(p) = n
  <2>1. DOMAIN p = 1 .. n /\ p = [i \in 1 .. n |-> p[i]]
    BY <1>5
  <2> HIDE DEF n
  <2>2. QED
    BY <1>3, <2>1, ListIs
<1>7. ASSUME NEW i \in 1 .. n
      PROVE  /\ LineKind(p[i]) /\ p[i].is \in {"require", "html", "line"}
             /\ k[i].is = "require" => p[i].is = "require" /\ p[i].text.file = k[i].file
  <2>1. p[i] = LineOf(k[i])
    BY <1>5
  <2>2. CASE k[i].is = "require"
    <3>1. p[i] = [is |-> "require", text |-> [file |-> k[i].file, arg |-> k[i].arg]]
      BY <2>1, <2>2 DEF LineOf, Require
    <3>2. QED
      BY <3>1 DEF LineKind
  <2>3. CASE k[i].is = "html"
    BY <2>1, <2>3 DEF LineOf, LineKind, HasText
  <2>4. CASE k[i].is = "code"
    BY <2>1, <2>4 DEF LineOf, LineKind, HasText
  <2>5. QED
    BY <1>4, <2>2, <2>3, <2>4
<1>8. QED
  BY <1>6, <1>7 DEF k, p

\* The section of a page.
IsSection(sec, text, items) ==
    /\ IsSeq(sec) /\ \A i \in 1 .. Len(sec) : LineKind(sec[i]) /\ sec[i].is # "done"
    /\ \A i \in 1 .. Len(sec) : sec[i].is = "start" => sec[i].text = text
    /\ HasFile(sec, {"start"}, text.file)
    /\ Good(items) => \A j \in 1 .. Len(UpTo(items, "badhead")) :
         items[j].is = "require" => HasFile(sec, {"require"}, items[j].file)

LEMMA SectionIs ==
    ASSUME NEW items, ItemsOfPage(items), NEW text
    PROVE  IsSection(Section(text, items), text, items)
<1> DEFINE one == <<[is |-> "cfile", text |-> text], [is |-> "start", text |-> text]>>
           p   == parse_cspla_data(items)
           end == <<[is |-> "end"]>>
           n   == Len(p)
           two == one \o p
           sec == two \o end
<1>1. /\ IsSeq(one) /\ Len(one) = 2 /\ one[1] = [is |-> "cfile", text |-> text]
      /\ one[2] = [is |-> "start", text |-> text]
  <2> DEFINE S == {[is |-> "cfile", text |-> text], [is |-> "start", text |-> text]}
  <2>1. one \in Seq(S)
    OBVIOUS
  <2>2. QED
    BY <2>1 DEF IsSeq
<1>2. IsSeq(end) /\ Len(end) = 1 /\ end[1] = [is |-> "end"]
  <2>1. end \in Seq({[is |-> "end"]})
    OBVIOUS
  <2>2. QED
    BY <2>1 DEF IsSeq
<1>3. /\ IsSeq(p) /\ n = Len(Kept(items)) /\ n \in Nat
      /\ \A i \in 1 .. n : /\ LineKind(p[i]) /\ p[i].is \in {"require", "html", "line"}
                           /\ Kept(items)[i].is = "require" =>
                                p[i].is = "require" /\ p[i].text.file = Kept(items)[i].file
  BY ParsedIs, SeqIs
<1>4. Section(text, items) = sec
  BY DEF Section
<1> HIDE DEF one, end, p
<1>5. /\ IsSeq(two) /\ Len(two) = 2 + n /\ two[1] = one[1] /\ two[2] = one[2]
      /\ \A i \in 1 .. n : two[2 + i] = p[i]
  <2>1. /\ IsSeq(two) /\ Len(two) = Len(one) + n
        /\ \A i \in 1 .. Len(one) : two[i] = one[i]
        /\ \A i \in 1 .. n : two[Len(one) + i] = p[i]
    <3>1. Joined(one, p, two)
      BY <1>1, <1>3, JoinIs
    <3> HIDE DEF two
    <3>2. QED
      BY <3>1 DEF Joined
  <2> HIDE DEF two
  <2>2. QED
    BY <1>1, <2>1
<1> HIDE DEF two
<1>6. /\ IsSeq(sec) /\ Len(sec) = n + 3 /\ sec[1] = one[1] /\ sec[2] = one[2]
      /\ \A i \in 1 .. n : sec[2 + i] = p[i]
      /\ sec[n + 3] = end[1]
  <2>1. /\ IsSeq(sec) /\ Len(sec) = Len(two) + Len(end)
        /\ \A i \in 1 .. Len(two) : sec[i] = two[i]
        /\ \A i \in 1 .. Len(end) : sec[Len(two) + i] = end[i]
    <3>1. Joined(two, end, sec)
      BY <1>2, <1>5, JoinIs
    <3> HIDE DEF sec
    <3>2. QED
      BY <3>1 DEF Joined
  <2> HIDE DEF sec, n
  <2>2. Len(sec) = n + 3 /\ sec[n + 3] = end[1]
    <3>1. Len(two) + 1 = n + 3 /\ 1 \in 1 .. Len(end)
      BY <1>2, <1>3, <1>5
    <3>2. sec[Len(two) + 1] = end[1]
      BY <2>1, <3>1
    <3>3. QED
      BY <1>2, <2>1, <3>1, <3>2
  <2>3. 1 \in 1 .. Len(two) /\ 2 \in 1 .. Len(two) /\ \A i \in 1 .. n : 2 + i \in 1 .. Len(two)
    BY <1>3, <1>5
  <2>4. QED
    BY <1>5, <2>1, <2>2, <2>3
<1> HIDE DEF sec, n
<1>7. \A i \in 1 .. Len(sec) : i = 1 \/ i = 2 \/ i = n + 3 \/ \E j \in 1 .. n : i = 2 + j
  <2>1. ASSUME NEW i \in 1 .. n + 3, i # 1, i # 2, i # n + 3
        PROVE  \E j \in 1 .. n : i = 2 + j
    <3>1. i - 2 \in 1 .. n /\ i = 2 + (i - 2)
      BY <1>3, <2>1
    <3>2. QED
      BY <3>1
  <2>2. QED
    BY <1>6, <2>1
<1>8. ASSUME NEW i \in 1 .. Len(sec)
      PROVE  LineKind(sec[i]) /\ sec[i].is # "done" /\ (sec[i].is = "start" => sec[i].text = text)
  <2>1. CASE i = 1
    BY <1>1, <1>6, <2>1 DEF LineKind, HasText
  <2>2. CASE i = 2
    BY <1>1, <1>6, <2>2 DEF LineKind, HasText
  <2>3. CASE i = n + 3
    BY <1>2, <1>6, <2>3 DEF LineKind, HasText
  <2>4. CASE \E j \in 1 .. n : i = 2 + j
    BY <1>3, <1>6, <2>4
  <2>5. QED
    BY <1>7, <2>1, <2>2, <2>3, <2>4
<1>9. DOMAIN sec = 1 .. Len(sec)
  BY <1>6, SeqIs
<1>10. HasFile(sec, {"start"}, text.file)
  <2>1. 2 \in DOMAIN sec /\ sec[2].is = "start" /\ sec[2].text.file = text.file
    BY <1>1, <1>3, <1>6, <1>9
  <2>2. QED
    BY <2>1 DEF HasFile
<1>11. ASSUME Good(items), NEW j \in 1 .. Len(UpTo(items, "badhead")), items[j].is = "require"
       PROVE  HasFile(sec, {"require"}, items[j].file)
  <2>1. Kept(items) = UpTo(items, "badhead")
    BY <1>11 DEF Good, Kept
  <2>2. j \in 1 .. n /\ Kept(items)[j] = items[j]
    <3>1. IsSeq(items)
      BY ItemsAre
    <3>2. UpTo(items, "badhead")[j] = items[j]
      BY <3>1, UpToIs
    <3>3. QED
      BY <1>3, <2>1, <3>2
  <2>3. p[j].is = "require" /\ p[j].text.file = items[j].file
    BY <1>3, <1>11, <2>2
  <2>4. 2 + j \in DOMAIN sec /\ sec[2 + j] = p[j]
    BY <1>3, <1>6, <1>9, <2>2
  <2>5. QED
    BY <2>3, <2>4 DEF HasFile
<1>12. QED
  BY <1>4, <1>6, <1>8, <1>10, <1>11 DEF IsSection

\* The lines of the list: what is required is there, and what is done has its
\* section, with all that its page requires.
LinesKept(lines, f) ==
    /\ IsSeq(lines) /\ \A i \in DOMAIN lines : LineKind(lines[i])
    /\ HasFile(lines, Asked, f)
    /\ \A i \in DOMAIN lines : lines[i].is = "done" => HasFile(lines, {"start"}, lines[i].text.file)
    /\ \A i \in DOMAIN lines : lines[i].is = "start" =>
          /\ lines[i].text.file \in DOMAIN pages
          /\ \A g \in RequiredBy(lines[i].text.file) : HasFile(lines, Asked, g)

PagesKept == DOMAIN pages \subseteq File /\ \A f \in DOMAIN pages : ItemsOfPage(pages[f])

LEMMA RequiredIs ==
    ASSUME PagesKept, NEW f \in DOMAIN pages, NEW g \in RequiredBy(f)
    PROVE  /\ g \in File
           /\ \E j \in 1 .. Len(UpTo(pages[f], "badhead")) :
                 pages[f][j].is = "require" /\ pages[f][j].file = g
<1> DEFINE items == pages[f]
           t == UpTo(items, "badhead")
<1>1. ItemsOfPage(items) /\ IsSeq(items)
  BY ItemsAre DEF PagesKept
<1>2. IsSeq(t) /\ Len(t) <= Len(items) /\ \A i \in 1 .. Len(t) : t[i] = items[i]
  BY <1>1, UpToIs
<1>3. DOMAIN t = 1 .. Len(t) /\ Len(t) \in Nat /\ DOMAIN items = 1 .. Len(items) /\ Len(items) \in Nat
  BY <1>1, <1>2, SeqIs
<1>4. PICK j \in DOMAIN t : t[j].is = "require" /\ t[j].file = g
  BY DEF RequiredBy
<1> HIDE DEF t, items
<1>5. j \in 1 .. Len(t) /\ j \in DOMAIN items /\ items[j].is = "require" /\ items[j].file = g
  BY <1>2, <1>3, <1>4
<1>6. g \in File
  BY <1>1, <1>5 DEF ItemsOfPage
<1>7. QED
  BY <1>5, <1>6 DEF t, items

LEMMA MarkedHas ==
    ASSUME NEW lines, NEW m, NEW text, IsSeq(lines), Marks(lines, m, text), NEW g
    PROVE  /\ HasFile(lines, Asked, g) => HasFile(m, Asked, g)
           /\ HasFile(lines, {"start"}, g) => HasFile(m, {"start"}, g)
<1>1. DOMAIN lines = 1 .. Len(lines) /\ DOMAIN m = 1 .. Len(lines)
  BY SeqIs DEF Marks
<1>2. \A i \in 1 .. Len(lines) : \/ m[i] = lines[i]
                                 \/ m[i].is = "done" /\ lines[i].is = "require" /\ m[i].text = lines[i].text
  BY DEF Marks
<1>3. HasFile(lines, Asked, g) => HasFile(m, Asked, g)
  BY <1>1, <1>2 DEF HasFile, Asked
<1>4. HasFile(lines, {"start"}, g) => HasFile(m, {"start"}, g)
  BY <1>1, <1>2 DEF HasFile
<1>5. QED
  BY <1>3, <1>4

LEMMA JoinedHas ==
    ASSUME NEW s, NEW t, NEW u, IsSeq(s), IsSeq(t), Joined(s, t, u)
    PROVE  /\ \A kinds, g : HasFile(s, kinds, g) \/ HasFile(t, kinds, g) => HasFile(u, kinds, g)
           /\ \A i \in DOMAIN u : (i \in DOMAIN s /\ u[i] = s[i]) \/ \E k \in DOMAIN t : u[i] = t[k]
<1>1. /\ DOMAIN s = 1 .. Len(s) /\ DOMAIN t = 1 .. Len(t) /\ DOMAIN u = 1 .. Len(u)
      /\ Len(s) \in Nat /\ Len(t) \in Nat /\ Len(u) = Len(s) + Len(t)
      /\ \A i \in 1 .. Len(s) : u[i] = s[i]
      /\ \A i \in 1 .. Len(t) : u[Len(s) + i] = t[i]
  BY SeqIs DEF Joined
<1>2. \A i \in 1 .. Len(s) : i \in DOMAIN u
  BY <1>1
<1>3. \A i \in 1 .. Len(t) : Len(s) + i \in DOMAIN u
  BY <1>1
<1>4. ASSUME NEW i \in DOMAIN u
      PROVE  (i \in DOMAIN s /\ u[i] = s[i]) \/ \E k \in DOMAIN t : u[i] = t[k]
  <2>1. CASE i <= Len(s)
    BY <1>1, <2>1
  <2>2. CASE ~(i <= Len(s))
    <3>1. i - Len(s) \in 1 .. Len(t) /\ Len(s) + (i - Len(s)) = i
      BY <1>1, <2>2
    <3>2. QED
      BY <1>1, <3>1
  <2>3. QED
    BY <2>1, <2>2
<1>5. ASSUME NEW kinds, NEW g, HasFile(s, kinds, g) \/ HasFile(t, kinds, g)
      PROVE  HasFile(u, kinds, g)
  <2>1. CASE HasFile(s, kinds, g)
    <3>1. PICK i \in 1 .. Len(s) : s[i].is \in kinds /\ s[i].text.file = g
      BY <1>1, <2>1 DEF HasFile
    <3>2. u[i] = s[i] /\ i \in DOMAIN u
      BY <1>1, <1>2
    <3>3. QED
      BY <3>1, <3>2 DEF HasFile
  <2>2. CASE HasFile(t, kinds, g)
    <3>1. PICK i \in 1 .. Len(t) : t[i].is \in kinds /\ t[i].text.file = g
      BY <1>1, <2>2 DEF HasFile
    <3>2. u[Len(s) + i] = t[i] /\ Len(s) + i \in DOMAIN u
      BY <1>1, <1>3
    <3>3. QED
      BY <3>1, <3>2 DEF HasFile
  <2>3. QED
    BY <1>5, <2>1, <2>2
<1>6. QED
  BY <1>4, <1>5

\* A turn of recursive_parse that goes on.
LEMMA ParseKeeps ==
    ASSUME PagesKept, NEW lines, NEW f, LinesKept(lines, f),
           NEW a \in DOMAIN lines, lines[a].is = "require",
           NEW items, lines[a].text.file \in DOMAIN pages, items = pages[lines[a].text.file], Good(items)
    PROVE  LinesKept([LaterMarked(lines, a) EXCEPT ![a] = Done(@)] \o Section(lines[a].text, items), f)
<1> DEFINE text == lines[a].text
           h == text.file
           m == [LaterMarked(lines, a) EXCEPT ![a] = Done(@)]
           sec == Section(text, items)
           new == m \o sec
<1>1. /\ IsSeq(lines) /\ \A i \in DOMAIN lines : LineKind(lines[i])
      /\ HasFile(lines, Asked, f)
      /\ \A i \in DOMAIN lines : lines[i].is = "done" => HasFile(lines, {"start"}, lines[i].text.file)
      /\ \A i \in DOMAIN lines : lines[i].is = "start" =>
            /\ lines[i].text.file \in DOMAIN pages
            /\ \A g \in RequiredBy(lines[i].text.file) : HasFile(lines, Asked, g)
  BY DEF LinesKept
<1>2. Marks(lines, m, text)
  BY <1>1, MarkedIs
<1>3. ItemsOfPage(items)
  BY DEF PagesKept
<1>4. IsSection(sec, text, items)
  BY <1>3, SectionIs
<1>5. IsSeq(m) /\ IsSeq(sec) /\ h \in DOMAIN pages /\ items = pages[h]
  BY <1>2, <1>4 DEF Marks, IsSection
<1>6. Joined(m, sec, new)
  BY <1>5, JoinIs
<1> HIDE DEF m, sec, new, text
<1>7. /\ \A kinds, g : HasFile(m, kinds, g) \/ HasFile(sec, kinds, g) => HasFile(new, kinds, g)
      /\ \A i \in DOMAIN new : (i \in DOMAIN m /\ new[i] = m[i]) \/ \E k \in DOMAIN sec : new[i] = sec[k]
  BY <1>5, <1>6, JoinedHas
<1>8. \A g : /\ HasFile(lines, Asked, g) => HasFile(new, Asked, g)
             /\ HasFile(lines, {"start"}, g) => HasFile(new, {"start"}, g)
  BY <1>1, <1>2, <1>7, MarkedHas
<1>9. HasFile(new, {"start"}, h)
  BY <1>4, <1>7 DEF IsSection
<1>10. DOMAIN m = DOMAIN lines /\ DOMAIN sec = 1 .. Len(sec)
  BY <1>1, <1>2, <1>5, SeqIs DEF Marks
<1>11. \A i \in DOMAIN lines :
          \/ m[i] = lines[i]
          \/ m[i].is = "done" /\ m[i].text = text /\ LineKind(m[i])
  BY <1>1, <1>2, SeqIs DEF Marks
<1>12. \A g \in RequiredBy(h) : HasFile(new, Asked, g)
  <2>1. ASSUME NEW g \in RequiredBy(h)
        PROVE  HasFile(new, Asked, g)
    <3>1. PICK j \in 1 .. Len(UpTo(items, "badhead")) : items[j].is = "require" /\ items[j].file = g
      BY <1>5, RequiredIs
    <3>2. HasFile(sec, {"require"}, g)
      BY <1>4, <3>1 DEF IsSection
    <3>3. HasFile(sec, Asked, g)
      BY <3>2 DEF HasFile, Asked
    <3>4. QED
      BY <1>7, <3>3
  <2>2. QED
    BY <2>1
<1>13. ASSUME NEW i \in DOMAIN new
       PROVE  /\ LineKind(new[i])
              /\ new[i].is = "done" => HasFile(new, {"start"}, new[i].text.file)
              /\ new[i].is = "start" => /\ new[i].text.file \in DOMAIN pages
                                        /\ \A g \in RequiredBy(new[i].text.file) : HasFile(new, Asked, g)
  <2>1. CASE i \in DOMAIN m /\ new[i] = m[i]
    <3>1. CASE m[i] = lines[i]
      BY <1>1, <1>8, <1>10, <2>1, <3>1
    <3>2. CASE m[i].is = "done" /\ m[i].text = text /\ LineKind(m[i])
      BY <1>9, <2>1, <3>2
    <3>3. QED
      BY <1>10, <1>11, <2>1, <3>1, <3>2
  <2>2. CASE \E k \in DOMAIN sec : new[i] = sec[k]
    <3>1. PICK k \in DOMAIN sec : new[i] = sec[k]
      BY <2>2
    <3>2. LineKind(sec[k]) /\ sec[k].is # "done" /\ (sec[k].is = "start" => sec[k].text = text)
      BY <1>4, <1>10 DEF IsSection
    <3>3. QED
      BY <1>5, <1>12, <3>1, <3>2
  <2>3. QED
    BY <1>7, <2>1, <2>2
<1>14. HasFile(new, Asked, f) /\ IsSeq(new)
  BY <1>1, <1>6, <1>8 DEF Joined
<1>15. LinesKept(new, f)
  BY <1>13, <1>14 DEF LinesKept
<1>16. QED
  BY <1>15 DEF new, m, sec, text

\* What is left undone at the end: nothing.
LEMMA AllDone ==
    ASSUME PagesKept, NEW lines, NEW f \in File, LinesKept(lines, f),
           \A i \in DOMAIN lines : lines[i].is # "require", NEW g \in Reached(f)
    PROVE  HasFile(lines, {"start"}, g)
<1> DEFINE S == {h \in File : HasFile(lines, {"start"}, h)}
<1>1. ASSUME NEW h, HasFile(lines, Asked, h)
      PROVE  HasFile(lines, {"start"}, h)
  <2>1. PICK i \in DOMAIN lines : lines[i].is \in Asked /\ lines[i].text.file = h
    BY <1>1 DEF HasFile
  <2>2. lines[i].is = "done"
    BY <2>1 DEF Asked
  <2>3. QED
    BY <2>1, <2>2 DEF LinesKept
<1>2. f \in S
  BY <1>1 DEF LinesKept
<1>3. HoldsRequired(S)
  <2>1. ASSUME NEW h \in S \cap DOMAIN pages, NEW r \in RequiredBy(h)
        PROVE  r \in S
    <3>1. r \in File
      BY <2>1, RequiredIs
    <3>2. PICK i \in DOMAIN lines : lines[i].is = "start" /\ lines[i].text.file = h
      BY <2>1 DEF HasFile
    <3>3. HasFile(lines, Asked, r)
      BY <2>1, <3>2 DEF LinesKept
    <3>4. QED
      BY <1>1, <3>1, <3>3
  <2> HIDE DEF S
  <2>2. QED
    BY <2>1 DEF HoldsRequired
<1>4. S \in SUBSET File
  OBVIOUS
<1>5. g \in S
  <2> HIDE DEF S
  <2>1. QED
    BY <1>2, <1>3, <1>4 DEF Reached
<1>6. QED
  BY <1>5

-----------------------------------------------------------------------------
(* What is listed and saved *)

\* A name is twice only if it was appended without having been read.
NoneTwice(names) ==
    \A i, j \in DOMAIN names : names[i] = names[j] => i = j \/ names[i] \in relisted

\* The names begin with those of another list.
Extends(names, old) == Len(old) <= Len(names) /\ \A i \in 1 .. Len(old) : names[i] = old[i]

\* The listed names are generated but for what cannot be written.
NamesKept(names, files) ==
    /\ IsSeq(names) /\ NoneTwice(names)
    /\ \A i \in DOMAIN names : names[i] \in Unwritable \cup files

OutFields == {"names", "cpp", "pages"}

\* The lists and files after the first k lines.
OutKept(o, lines, k) ==
    /\ OutFields \subseteq DOMAIN o
    /\ NamesKept(o.names, DOMAIN o.cpp) /\ Extends(o.names, clanFiles)
    /\ DOMAIN cpp \subseteq DOMAIN o.cpp
    /\ DOMAIN o.pages = DOMAIN pages
    /\ \A f \in DOMAIN pages : o.pages[f] \in {pages[f], <<[is |-> "html"]>>}
    /\ \A i \in 1 .. k : lines[i].is = "start" /\ lines[i].text.file \in CspFiles
                           => Has(o.names, lines[i].text.file)

PutIsOf(o, p, file) ==
    /\ OutFields \subseteq DOMAIN p
    /\ \/ /\ file \in CspFiles /\ p.pages = o.pages
          /\ \/ Has(o.names, file) /\ p.names = o.names /\ p.cpp = o.cpp
             \/ /\ ~Has(o.names, file) /\ p.names = Append(o.names, file)
                /\ DOMAIN o.cpp \subseteq DOMAIN p.cpp
                /\ file \in Unwritable \cup DOMAIN p.cpp
       \/ /\ file \notin CspFiles /\ p.names = o.names /\ p.cpp = o.cpp
          /\ p.pages = [o.pages EXCEPT ![file] = <<[is |-> "html"]>>]

LEMMA PutIs ==
    ASSUME NEW o, OutFields \subseteq DOMAIN o, IsSeq(o.names), NEW file, NEW fun
    PROVE  PutIsOf(o, PutMidd(o, file, fun), file)
<1> DEFINE p == PutMidd(o, file, fun)
<1>1. Contains(o.names, file) <=> Has(o.names, file)
  BY SeqIs DEF Contains, Has
<1>2. CASE file \in CspFiles /\ Has(o.names, file)
  BY <1>1, <1>2 DEF PutMidd, PutIsOf
<1>3. CASE file \in CspFiles /\ ~Has(o.names, file)
  <2> DEFINE c == IF file \in Unwritable THEN o.cpp
                  ELSE [f \in DOMAIN o.cpp \cup {file} |-> IF f = file THEN fun ELSE o.cpp[f]]
  <2>1. p = [o EXCEPT !.names = Append(@, file), !.cpp = c]
    BY <1>1, <1>3 DEF PutMidd
  <2>2. DOMAIN o.cpp \subseteq DOMAIN c /\ file \in Unwritable \cup DOMAIN c
    OBVIOUS
  <2> HIDE DEF c, p
  <2>3. p.names = Append(o.names, file) /\ p.cpp = c /\ p.pages = o.pages /\ OutFields \subseteq DOMAIN p
    BY <2>1 DEF OutFields
  <2>4. QED
    BY <1>3, <2>2, <2>3 DEF PutIsOf, p
<1>4. CASE file \notin CspFiles
  <2> DEFINE q == [o.pages EXCEPT ![file] = <<[is |-> "html"]>>]
  <2>1. p = [o EXCEPT !.pages = q]
    BY <1>4 DEF PutMidd
  <2> HIDE DEF q, p
  <2>2. p.names = o.names /\ p.cpp = o.cpp /\ p.pages = q /\ OutFields \subseteq DOMAIN p
    BY <2>1 DEF OutFields
  <2>3. QED
    BY <1>4, <2>2 DEF PutIsOf, p, q
<1>5. QED
  BY <1>2, <1>3, <1>4

\* A name that is added.
LEMMA AddedIs ==
    ASSUME NEW names, NEW old, NEW files, NEW more, NEW x, NamesKept(names, files),
           Extends(names, old), IsSeq(old), ~Has(names, x), files \subseteq more,
           x \in Unwritable \cup more
    PROVE  /\ NamesKept(Append(names, x), more) /\ Extends(Append(names, x), old)
           /\ Has(Append(names, x), x)
           /\ \A y : Has(names, y) => Has(Append(names, x), y)
<1> DEFINE n == Len(names)
           new == Append(names, x)
<1>1. IsSeq(names) /\ n \in Nat /\ DOMAIN names = 1 .. n /\ Len(old) \in Nat
  BY SeqIs DEF NamesKept
<1>2. IsSeq(new) /\ Len(new) = n + 1 /\ (\A i \in 1 .. n : new[i] = names[i]) /\ new[n + 1] = x
  BY <1>1, AppendedIs
<1> HIDE DEF new, n
<1>3. DOMAIN new = 1 .. n + 1 /\ \A i \in 1 .. n + 1 : i \in 1 .. n \/ i = n + 1
  BY <1>1, <1>2, SeqIs
<1>4. n + 1 \in 1 .. n + 1 /\ \A i \in 1 .. n : i \in 1 .. n + 1
  BY <1>1
<1>5. \A i \in 1 .. n : names[i] # x
  BY <1>1 DEF Has
<1>6. NoneTwice(new)
  <2>1. \A i, j \in 1 .. n : names[i] = names[j] => i = j \/ names[i] \in relisted
    BY <1>1 DEF NamesKept, NoneTwice
  <2>2. QED
    BY <1>2, <1>3, <1>5, <2>1 DEF NoneTwice
<1>7. \A i \in DOMAIN new : new[i] \in Unwritable \cup more
  <2>1. \A i \in 1 .. n : names[i] \in Unwritable \cup more
    BY <1>1 DEF NamesKept
  <2>2. QED
    BY <1>2, <1>3, <2>1
<1>8. Extends(new, old)
  <2>1. Len(old) <= n /\ \A i \in 1 .. Len(old) : names[i] = old[i]
    BY DEF Extends, n
  <2>2. \A i \in 1 .. Len(old) : i \in 1 .. n
    BY <1>1, <2>1
  <2>3. Len(old) <= Len(new)
    BY <1>1, <1>2, <2>1
  <2>4. QED
    BY <1>2, <2>1, <2>2, <2>3 DEF Extends
<1>9. Has(new, x) /\ \A y : Has(names, y) => Has(new, y)
  BY <1>1, <1>2, <1>3, <1>4 DEF Has
<1>10. QED
  BY <1>2, <1>6, <1>7, <1>8, <1>9 DEF NamesKept, new

LEMMA OutMade ==
    ASSUME NEW p, NEW lines, NEW k, OutFields \subseteq DOMAIN p, NEW names, names = p.names,
           NEW c, c = p.cpp, NEW pp, pp = p.pages,
           NamesKept(names, DOMAIN c), Extends(names, clanFiles),
           DOMAIN cpp \subseteq DOMAIN c, DOMAIN pp = DOMAIN pages,
           \A f \in DOMAIN pages : pp[f] \in {pages[f], <<[is |-> "html"]>>},
           \A i \in 1 .. k : lines[i].is = "start" /\ lines[i].text.file \in CspFiles
                           => Has(names, lines[i].text.file)
    PROVE  OutKept(p, lines, k)
BY DEF OutKept

LEMMA PutKeeps ==
    ASSUME NEW o, NEW lines, NEW k \in Nat, OutKept(o, lines, k), IsSeq(clanFiles),
           lines[k + 1].is = "start", NEW fun
    PROVE  OutKept(PutMidd(o, lines[k + 1].text.file, fun), lines, k + 1)
<1> DEFINE file == lines[k + 1].text.file
           p == PutMidd(o, file, fun)
<1>1. /\ OutFields \subseteq DOMAIN o
      /\ NamesKept(o.names, DOMAIN o.cpp) /\ Extends(o.names, clanFiles)
      /\ DOMAIN cpp \subseteq DOMAIN o.cpp
      /\ DOMAIN o.pages = DOMAIN pages
      /\ \A f \in DOMAIN pages : o.pages[f] \in {pages[f], <<[is |-> "html"]>>}
      /\ \A i \in 1 .. k : lines[i].is = "start" /\ lines[i].text.file \in CspFiles
                           => Has(o.names, lines[i].text.file)
  BY DEF OutKept
<1>2. PutIsOf(o, p, file)
  BY <1>1, PutIs DEF NamesKept
<1>3. \A i \in 1 .. k + 1 : i \in 1 .. k \/ i = k + 1
  OBVIOUS
<1> HIDE DEF p, file
<1>4. OutFields \subseteq DOMAIN p
  BY <1>2 DEF PutIsOf
<1> DEFINE Entered(names) == \A i \in 1 .. k + 1 : lines[i].is = "start" /\ lines[i].text.file \in CspFiles
                           => Has(names, lines[i].text.file)
<1>5. ASSUME file \in CspFiles, p.pages = o.pages, Has(o.names, file), p.names = o.names, p.cpp = o.cpp
      PROVE  OutKept(p, lines, k + 1)
  <2>1. Entered(p.names)
    BY <1>1, <1>3, <1>5 DEF file
  <2>2. QED
    BY <1>1, <1>4, <1>5, <2>1, OutMade
<1>6. ASSUME file \in CspFiles, p.pages = o.pages, ~Has(o.names, file),
             p.names = Append(o.names, file),
             DOMAIN o.cpp \subseteq DOMAIN p.cpp, file \in Unwritable \cup DOMAIN p.cpp
      PROVE  OutKept(p, lines, k + 1)
  <2> DEFINE old == o.names
             oc == DOMAIN o.cpp
             pc == DOMAIN p.cpp
  <2>1. NamesKept(old, oc) /\ Extends(old, clanFiles) /\ IsSeq(clanFiles) /\ ~Has(old, file)
        /\ oc \subseteq pc /\ file \in Unwritable \cup pc
    BY <1>1, <1>6
  <2>2. p.names = Append(old, file)
    BY <1>6
  <2> HIDE DEF old, oc, pc
  <2>3. /\ NamesKept(Append(old, file), pc) /\ Extends(Append(old, file), clanFiles)
        /\ Has(Append(old, file), file)
        /\ \A y : Has(old, y) => Has(Append(old, file), y)
    BY <2>1, AddedIs
  <2>4. /\ NamesKept(p.names, pc) /\ Extends(p.names, clanFiles)
        /\ Has(p.names, file)
        /\ \A y : Has(old, y) => Has(p.names, y)
    BY <2>2, <2>3
  <2>5. DOMAIN cpp \subseteq DOMAIN p.cpp
    BY <1>1, <1>6
  <2>6. Entered(p.names)
    BY <1>1, <1>3, <2>4 DEF file, old
  <2>7. QED
    BY <1>1, <1>4, <1>6, <2>4, <2>5, <2>6, OutMade DEF pc
<1>7. ASSUME file \notin CspFiles, p.names = o.names, p.cpp = o.cpp,
             p.pages = [o.pages EXCEPT ![file] = <<[is |-> "html"]>>]
      PROVE  OutKept(p, lines, k + 1)
  <2>1. DOMAIN p.pages = DOMAIN pages
        /\ \A f \in DOMAIN pages : p.pages[f] \in {pages[f], <<[is |-> "html"]>>}
    BY <1>1, <1>7
  <2>2. Entered(p.names)
    BY <1>1, <1>3, <1>7 DEF file
  <2>3. QED
    BY <1>1, <1>4, <1>7, <2>1, <2>2, OutMade
<1>8. OutKept(p, lines, k + 1)
  BY <1>2, <1>5, <1>6, <1>7 DEF PutIsOf
<1>9. QED
  BY <1>8 DEF p, file

\* The function that Saved reads its result from.
OutOf(lines, nodes, out, k) ==
    IF k = 0 THEN [names |-> clanFiles, cpp |-> cpp, pages |-> pages]
    ELSE IF lines[k].is # "start" THEN out[k - 1]
    ELSE PutMidd(out[k - 1], lines[k].text.file, Function(lines, nodes, k))

OutAll(lines, nodes, out, m) == [k \in 0 .. m |-> OutOf(lines, nodes, out, k)]

LEMMA OutUpTo ==
    ASSUME NEW lines, NEW nodes, NEW m \in Nat
    PROVE  \E p : p = OutAll(lines, nodes, p, m)
<1> DEFINE W(p, k) == OutOf(lines, nodes, p, k)
           T == {k \in Nat : \E p : p = [j \in 0 .. k |-> W(p, j)]}
<1>1. 0 \in T
  <2> DEFINE p == [j \in 0 .. 0 |-> [names |-> clanFiles, cpp |-> cpp, pages |-> pages]]
  <2>1. \A j \in 0 .. 0 : j = 0
    OBVIOUS
  <2>2. p = [j \in 0 .. 0 |-> W(p, j)]
    BY <2>1 DEF OutOf
  <2> HIDE DEF p, W
  <2>3. QED
    BY <2>2
<1>2. ASSUME NEW k \in T
      PROVE  k + 1 \in T
  <2>1. PICK p : p = [j \in 0 .. k |-> W(p, j)]
    OBVIOUS
  <2> DEFINE q == [j \in 0 .. k + 1 |-> IF j \in 0 .. k THEN p[j] ELSE W(p, j)]
  <2>2. ASSUME NEW j \in 0 .. k + 1
        PROVE  W(q, j) = W(p, j)
    <3>1. CASE j = 0
      BY <3>1 DEF OutOf
    <3>2. CASE j # 0
      <4>1. j - 1 \in 0 .. k /\ j - 1 \in 0 .. k + 1
        BY <3>2
      <4>2. q[j - 1] = p[j - 1]
        BY <4>1
      <4>3. HIDE DEF q
      <4>4. QED
        BY <4>2 DEF OutOf
    <3>3. QED
      BY <3>1, <3>2
  <2>3. \A j \in 0 .. k : p[j] = W(p, j)
    BY <2>1
  <2>4. q = [j \in 0 .. k + 1 |-> W(q, j)]
    <3> HIDE DEF W
    <3>1. QED
      BY <2>2, <2>3
  <2> HIDE DEF q, W
  <2>5. QED
    BY <2>4
<1>3. T = Nat
  <2>1. T \subseteq Nat
    OBVIOUS
  <2> HIDE DEF T
  <2>2. QED
    BY <1>1, <1>2, <2>1, Induction
<1>4. m \in T
  <2> HIDE DEF T
  <2>1. QED
    BY <1>3
<1>5. QED
  BY <1>4 DEF OutAll

LEMMA SavedIs ==
    ASSUME NEW lines, IsSeq(lines), NamesKept(clanFiles, DOMAIN cpp)
    PROVE  OutKept(Saved(lines), lines, Len(lines))
<1> DEFINE m == Len(lines)
           nodes == create_invoke(lines)
           W(p) == OutAll(lines, nodes, p, m)
           out == CHOOSE p : p = W(p)
<1>1. m \in Nat /\ IsSeq(clanFiles)
  BY SeqIs DEF NamesKept
<1>2. Saved(lines) = out[m]
  BY DEF Saved, OutOf, OutAll
<1> HIDE DEF nodes
<1>3. out = W(out)
  <2>1. \E p : p = W(p)
    <3> HIDE DEF m
    <3>1. QED
      BY <1>1, OutUpTo
  <2> HIDE DEF W
  <2>2. QED
    BY <2>1
<1> HIDE DEF out
<1>4. \A k \in 0 .. m : out[k] = OutOf(lines, nodes, out, k)
  BY <1>3 DEF OutAll
<1> DEFINE T == {k \in 0 .. m : OutKept(out[k], lines, k)}
<1>5. 0 \in T
  <2> DEFINE o == [names |-> clanFiles, cpp |-> cpp, pages |-> pages]
  <2>1. 0 \in 0 .. m /\ out[0] = o
    BY <1>1, <1>4 DEF OutOf
  <2>2. Extends(clanFiles, clanFiles)
    BY <1>1, SeqIs DEF Extends
  <2>3. OutKept(o, lines, 0)
    BY <2>2 DEF OutKept, OutFields
  <2>4. QED
    BY <2>1, <2>3
<1>6. ASSUME NEW k \in 0 .. m - 1, k \in T
      PROVE  k + 1 \in T
  <2>1. k \in Nat /\ k + 1 \in 0 .. m /\ k + 1 # 0 /\ (k + 1) - 1 = k
    BY <1>1
  <2>2. OutKept(out[k], lines, k)
    BY <1>6
  <2>3. CASE lines[k + 1].is # "start"
    <3>1. out[k + 1] = out[k]
      BY <1>4, <2>1, <2>3 DEF OutOf
    <3>2. \A i \in 1 .. k + 1 : i \in 1 .. k \/ i = k + 1
      BY <2>1
    <3>3. OutKept(out[k], lines, k + 1)
      BY <2>2, <2>3, <3>2 DEF OutKept
    <3>4. QED
      BY <2>1, <3>1, <3>3
  <2>4. CASE lines[k + 1].is = "start"
    <3>1. out[k + 1] = PutMidd(out[k], lines[k + 1].text.file, Function(lines, nodes, k + 1))
      BY <1>4, <2>1, <2>4 DEF OutOf
    <3>2. OutKept(out[k + 1], lines, k + 1)
      BY <1>1, <2>1, <2>2, <2>4, <3>1, PutKeeps
    <3>3. QED
      BY <2>1, <3>2
  <2>5. QED
    BY <2>3, <2>4
<1>7. \A k \in 0 .. m : k \in T
  <2> HIDE DEF T, m
  <2>1. QED
    BY <1>1, <1>5, <1>6, InductionUpTo
<1>8. m \in 0 .. m
  BY <1>1
<1>9. QED
  BY <1>2, <1>7, <1>8

-----------------------------------------------------------------------------
(* The compiler *)

Compiling == stage \in {"parse", "build"} =>
                /\ args # <<>> /\ LinesKept(plist, Head(args))
                /\ stage = "build" => \A i \in DOMAIN plist : plist[i].is # "require"
\* The names that were read are a beginning of the middle file, and the list
\* begins with them.
Begins(names, old, k) ==
    /\ k \in Nat /\ k <= Len(old) /\ k <= Len(names)
    /\ \A i \in 1 .. k : names[i] = old[i]
MiddleFirst == stage # "idle" /\ command.middle => Begins(clanFiles, midFile, lastClan)
Entries == \A f \in compiled : \A g \in Reached(f) \cap CspFiles : Has(clanFiles, g)

SpcInv ==
    /\ PagesKept /\ args \in Seq(CspFiles)
    /\ NamesKept(midFile, DOMAIN cpp) /\ NamesKept(clanFiles, DOMAIN cpp)
    /\ Compiling /\ MiddleFirst /\ Entries

LEMMA EmptyKept ==
    ASSUME NEW files
    PROVE  NamesKept(<<>>, files)
<1>1. <<>> \in Seq({})
  OBVIOUS
<1>2. DOMAIN <<>> = 1 .. 0
  OBVIOUS
<1>3. \A i \in 1 .. 0 : FALSE
  OBVIOUS
<1>4. QED
  BY <1>1, <1>2, <1>3 DEF NamesKept, NoneTwice, IsSeq

LEMMA NamesStay ==
    ASSUME NEW names, NEW files, NEW more, NamesKept(names, files), files \subseteq more
    PROVE  NamesKept(names, more)
BY DEF NamesKept

LEMMA BeginsThrough ==
    ASSUME NEW a, NEW b, NEW c, NEW k, IsSeq(b), IsSeq(c), Begins(b, a, k), Extends(c, b)
    PROVE  Begins(c, a, k)
<1>1. Len(b) \in Nat /\ Len(c) \in Nat
  BY SeqIs
<1>2. k \in Nat /\ k <= Len(b) /\ Len(b) <= Len(c)
  BY DEF Begins, Extends
<1>3. k <= Len(c) /\ \A i \in 1 .. k : i \in 1 .. Len(b)
  BY <1>1, <1>2
<1>4. QED
  BY <1>2, <1>3 DEF Begins, Extends

LEMMA ExtendsHas ==
    ASSUME NEW old, NEW names, IsSeq(old), IsSeq(names), Extends(names, old), NEW x, Has(old, x)
    PROVE  Has(names, x)
<1>1. /\ DOMAIN old = 1 .. Len(old) /\ DOMAIN names = 1 .. Len(names)
      /\ Len(old) \in Nat /\ Len(names) \in Nat
  BY SeqIs
<1>2. PICK i \in 1 .. Len(old) : old[i] = x
  BY <1>1 DEF Has
<1>3. i \in 1 .. Len(names) /\ names[i] = x
  BY <1>1, <1>2 DEF Extends
<1>4. QED
  BY <1>1, <1>3 DEF Has

\* The rest of a sequence and its beginning.
PieceIs(p, s, from, to) ==
    /\ IsSeq(p) /\ Len(p) = to - from
    /\ \A i \in 1 .. to - from : p[i] = s[from + i]

LEMMA PieceMade ==
    ASSUME NEW s, IsSeq(s), NEW from \in Nat, NEW to \in Nat, from <= to, to <= Len(s)
    PROVE  PieceIs(SubSeq(s, from + 1, to), s, from, to)
<1> DEFINE p == SubSeq(s, from + 1, to)
<1>1. PICK S : s \in Seq(S)
  BY DEF IsSeq
<1>2. Len(s) \in Nat
  BY SeqIs
<1>3. \A i \in from + 1 .. to : i \in 1 .. Len(s)
  BY <1>2
<1>4. \A i \in from + 1 .. to : s[i] \in S
  BY <1>1, <1>3
<1>5. from + 1 \in Int /\ to \in Int
  OBVIOUS
<1>6. /\ p \in Seq(S)
      /\ Len(p) = IF from + 1 <= to THEN to - (from + 1) + 1 ELSE 0
      /\ \A i \in 1 .. to - (from + 1) + 1 : p[i] = s[(from + 1) + i - 1]
  BY <1>1, <1>4, <1>5, SubSeqProperties
<1> HIDE DEF p
<1>7. Len(p) = to - from
  BY <1>6
<1>8. \A i \in 1 .. to - from : i \in 1 .. to - (from + 1) + 1 /\ (from + 1) + i - 1 = from + i
  OBVIOUS
<1>9. \A i \in 1 .. to - from : p[i] = s[from + i]
  BY <1>6, <1>8
<1>10. IsSeq(p)
  BY <1>6 DEF IsSeq
<1>11. QED
  BY <1>7, <1>9, <1>10 DEF PieceIs, p

\* What was read of a list of names.
LEMMA ReadKept ==
    ASSUME NEW names, NEW files, NamesKept(names, files), NEW k \in 0 .. Len(names)
    PROVE  /\ NamesKept(SubSeq(names, 1, k), files)
           /\ Len(SubSeq(names, 1, k)) = k
           /\ Begins(SubSeq(names, 1, k), names, k)
<1> DEFINE p == SubSeq(names, 1, k)
           n == Len(names)
<1>1. IsSeq(names) /\ n \in Nat /\ DOMAIN names = 1 .. n
  BY SeqIs DEF NamesKept
<1>2. k \in Nat /\ k <= n /\ 0 <= k
  BY <1>1
<1> HIDE DEF n
<1>3. PieceIs(p, names, 0, k)
  BY <1>1, <1>2, PieceMade DEF n
<1> HIDE DEF p
<1>4. IsSeq(p) /\ Len(p) = k /\ \A i \in 1 .. k : p[i] = names[i]
  BY <1>2, <1>3 DEF PieceIs
<1>5. DOMAIN p = 1 .. k /\ \A i \in 1 .. k : i \in 1 .. n
  <2>1. DOMAIN p = 1 .. k
    BY <1>4, SeqIs
  <2>2. \A i \in 1 .. k : i \in 1 .. n
    BY <1>1, <1>2
  <2>3. QED
    BY <2>1, <2>2
<1>6. NoneTwice(p)
  <2>1. \A i, j \in 1 .. n : names[i] = names[j] => i = j \/ names[i] \in relisted
    BY <1>1 DEF NamesKept, NoneTwice
  <2>2. QED
    BY <1>4, <1>5, <2>1 DEF NoneTwice
<1>7. \A i \in DOMAIN p : p[i] \in Unwritable \cup files
  BY <1>1, <1>4, <1>5 DEF NamesKept
<1>8. NamesKept(p, files)
  BY <1>4, <1>6, <1>7 DEF NamesKept
<1>9. Begins(p, names, k)
  BY <1>2, <1>4 DEF Begins, n
<1>10. QED
  BY <1>4, <1>8, <1>9 DEF p

\* What the sequence of names is after the new ones were appended.
FlushedIs(new, files, again) ==
    /\ IsSeq(new)
    /\ \A i, j \in DOMAIN new : new[i] = new[j] => i = j \/ new[i] \in again
    /\ \A i \in DOMAIN new : new[i] \in Unwritable \cup files

LEMMA FlushedKept ==
    ASSUME NEW old, NEW names, NEW files, NEW k, NamesKept(names, files), NamesKept(old, files),
           Begins(names, old, k), NEW rest, NEW unread, NEW again,
           rest = SubSeq(names, k + 1, Len(names)), unread = SubSeq(old, k + 1, Len(old)),
           relisted \subseteq again,
           \A x : (\E i \in DOMAIN rest : rest[i] = x) /\ (\E i \in DOMAIN unread : unread[i] = x)
                     => x \in again
    PROVE  FlushedIs(old \o rest, files, again)
<1> DEFINE n == Len(names)
           m == Len(old)
           new == old \o rest
<1>1. /\ IsSeq(names) /\ n \in Nat /\ DOMAIN names = 1 .. n
      /\ IsSeq(old) /\ m \in Nat /\ DOMAIN old = 1 .. m
  BY SeqIs DEF NamesKept
<1>2. k \in Nat /\ k <= n /\ k <= m /\ \A i \in 1 .. k : names[i] = old[i]
  BY DEF Begins
<1> HIDE DEF n, m
<1>3. PieceIs(rest, names, k, n) /\ PieceIs(unread, old, k, m)
  BY <1>1, <1>2, PieceMade DEF n, m
<1>4. /\ IsSeq(rest) /\ Len(rest) = n - k /\ \A i \in 1 .. n - k : rest[i] = names[k + i]
      /\ IsSeq(unread) /\ Len(unread) = m - k /\ \A i \in 1 .. m - k : unread[i] = old[k + i]
  BY <1>3 DEF PieceIs
<1>5. DOMAIN rest = 1 .. n - k /\ DOMAIN unread = 1 .. m - k
  BY <1>4, SeqIs
<1>6. Joined(old, rest, new)
  BY <1>1, <1>4, JoinIs
<1> HIDE DEF new
<1>7. IsSeq(new) /\ Len(new) = m + (n - k) /\ (\A i \in 1 .. m : new[i] = old[i])
      /\ \A i \in 1 .. n - k : new[m + i] = rest[i]
  BY <1>4, <1>6 DEF Joined, m
<1>8. DOMAIN new = 1 .. m + (n - k)
  BY <1>7, SeqIs
<1>9. /\ \A i, j \in 1 .. n : names[i] = names[j] => i = j \/ names[i] \in again
      /\ \A i, j \in 1 .. m : old[i] = old[j] => i = j \/ old[i] \in again
      /\ \A i \in 1 .. n : names[i] \in Unwritable \cup files
      /\ \A i \in 1 .. m : old[i] \in Unwritable \cup files
  BY <1>1 DEF NamesKept, NoneTwice
<1>10. ASSUME NEW i \in DOMAIN new, ~(i \in 1 .. m)
       PROVE  /\ i - m \in 1 .. n - k /\ k + (i - m) \in 1 .. n
              /\ new[i] = rest[i - m] /\ new[i] = names[k + (i - m)]
  <2>1. i - m \in 1 .. n - k /\ m + (i - m) = i /\ k + (i - m) \in 1 .. n
    <3>1. m \in Nat /\ n \in Nat /\ k \in Nat /\ k <= n /\ i \in 1 .. m + (n - k) /\ ~(i \in 1 .. m)
      BY <1>1, <1>2, <1>8, <1>10
    <3>2. i \in Int /\ i > m /\ i <= m + (n - k)
      BY ONLY <3>1
    <3>3. i - m \in 1 .. n - k /\ m + (i - m) = i
      BY ONLY <3>1, <3>2
    <3>4. k + (i - m) \in 1 .. n
      BY ONLY <3>1, <3>2
    <3>5. QED
      BY <3>3, <3>4
  <2>2. new[i] = rest[i - m]
    BY <1>7, <2>1
  <2>3. QED
    BY <1>4, <2>1, <2>2
<1>11. ASSUME NEW i \in 1 .. m, NEW j \in DOMAIN new, ~(j \in 1 .. m), new[i] = new[j]
       PROVE  new[i] \in again
  <2>1. /\ j - m \in 1 .. n - k /\ k + (j - m) \in 1 .. n
        /\ new[j] = rest[j - m] /\ new[j] = names[k + (j - m)]
    BY <1>10, <1>11
  <2>2. new[i] = old[i]
    BY <1>7
  <2>3. CASE i <= k
    <3>1. i \in 1 .. k /\ i \in 1 .. n /\ i # k + (j - m)
      BY <1>1, <1>2, <2>1, <2>3
    <3>2. names[i] = names[k + (j - m)]
      BY <1>2, <1>11, <2>1, <2>2, <3>1
    <3>3. names[i] \in again
      BY <1>9, <2>1, <3>1, <3>2
    <3>4. QED
      BY <1>2, <2>2, <3>1, <3>3
  <2>4. CASE ~(i <= k)
    <3>1. i - k \in 1 .. m - k /\ k + (i - k) = i
      BY <1>1, <1>2, <2>4
    <3>2. unread[i - k] = new[i]
      BY <1>4, <2>2, <3>1
    <3>3. QED
      BY <1>5, <1>11, <2>1, <3>1, <3>2
  <2>5. QED
    BY <2>3, <2>4
<1>12. ASSUME NEW i \in DOMAIN new, NEW j \in DOMAIN new, new[i] = new[j], i # j
       PROVE  new[i] \in again
  <2>1. CASE i \in 1 .. m /\ j \in 1 .. m
    BY <1>7, <1>9, <1>12, <2>1
  <2>2. CASE i \in 1 .. m /\ ~(j \in 1 .. m)
    BY <1>11, <1>12, <2>2
  <2>3. CASE ~(i \in 1 .. m) /\ j \in 1 .. m
    BY <1>11, <1>12, <2>3
  <2>4. CASE ~(i \in 1 .. m) /\ ~(j \in 1 .. m)
    <3> DEFINE a == k + (i - m)
               b == k + (j - m)
    <3>1. a \in 1 .. n /\ b \in 1 .. n /\ new[i] = names[a] /\ new[j] = names[b]
      BY <1>10, <2>4
    <3>2. a # b
      <4>1. i \in Int /\ j \in Int
        BY <1>1, <1>2, <1>8
      <4>2. QED
        BY <1>1, <1>2, <1>12, <4>1
    <3> HIDE DEF a, b
    <3>3. QED
      BY <1>9, <1>12, <3>1, <3>2
  <2>5. QED
    BY <2>1, <2>2, <2>3, <2>4
<1>13. ASSUME NEW i \in DOMAIN new
       PROVE  new[i] \in Unwritable \cup files
  <2>1. CASE i \in 1 .. m
    BY <1>7, <1>9, <2>1
  <2>2. CASE ~(i \in 1 .. m)
    BY <1>9, <1>10, <2>2
  <2>3. QED
    BY <2>1, <2>2
<1>14. FlushedIs(new, files, again)
  BY <1>7, <1>12, <1>13 DEF FlushedIs
<1>15. QED
  BY <1>14 DEF new

\* A file without requires.
LEMMA HtmlPage ==
    /\ ItemsOfPage(<<[is |-> "html"]>>)
    /\ \A i \in DOMAIN UpTo(<<[is |-> "html"]>>, "badhead") :
          UpTo(<<[is |-> "html"]>>, "badhead")[i].is = "html"
<1> DEFINE x == [is |-> "html"]
           s == <<x>>
           t == UpTo(s, "badhead")
<1>1. x.is = "html"
  OBVIOUS
<1> HIDE DEF x
<1>2. s \in Seq({x}) /\ Len(s) = 1 /\ DOMAIN s = 1 .. 1 /\ s[1] = x
  OBVIOUS
<1>3. \A i \in 1 .. 1 : i = 1
  OBVIOUS
<1> HIDE DEF s
<1>4. {s[i] : i \in DOMAIN s} = {x}
  BY <1>2, <1>3
<1>5. ItemsOfPage(s)
  BY <1>1, <1>2, <1>3, <1>4 DEF ItemsOfPage
<1>6. IsSeq(s)
  BY <1>2 DEF IsSeq
<1>7. IsSeq(t) /\ Len(t) <= 1 /\ \A i \in 1 .. Len(t) : t[i] = s[i]
  BY <1>2, <1>6, UpToIs
<1>8. DOMAIN t = 1 .. Len(t) /\ Len(t) \in Nat
  BY <1>7, SeqIs
<1> HIDE DEF t
<1>9. \A i \in DOMAIN t : t[i].is = "html"
  <2>1. ASSUME NEW i \in DOMAIN t
        PROVE  t[i].is = "html"
    <3>1. i \in 1 .. Len(t) /\ i = 1
      BY <1>7, <1>8
    <3>2. QED
      BY <1>1, <1>2, <1>7, <3>1
  <2>2. QED
    BY <2>1
<1>10. QED
  BY <1>5, <1>9 DEF t, s, x

LEMMA SpcInitKept ==
    ASSUME SpcInit
    PROVE  SpcInv
<1>1. PagesKept
  BY SpcAssumption DEF SpcInit, PagesKept
<1>2. args \in Seq(CspFiles)
  BY DEF SpcInit
<1>3. NamesKept(midFile, DOMAIN cpp) /\ NamesKept(clanFiles, DOMAIN cpp)
  BY EmptyKept DEF SpcInit
<1>4. Compiling /\ MiddleFirst /\ Entries
  BY DEF SpcInit, Compiling, MiddleFirst, Entries
<1>5. QED
  BY <1>1, <1>2, <1>3, <1>4 DEF SpcInv

\* The pages and what they require are as they were.
LEMMA ReachedStays ==
    ASSUME UNCHANGED pages
    PROVE  /\ PagesKept' <=> PagesKept
           /\ \A f : Reached(f)' = Reached(f)
           /\ \A lines, f : LinesKept(lines, f)' <=> LinesKept(lines, f)
<1>1. PagesKept' <=> PagesKept
  BY DEF PagesKept
<1>2. \A f : RequiredBy(f)' = RequiredBy(f)
  BY DEF RequiredBy
<1>3. \A f : Reached(f)' = Reached(f)
  BY <1>2 DEF Reached, HoldsRequired
<1>4. \A lines, f : LinesKept(lines, f)' <=> LinesKept(lines, f)
  BY <1>2 DEF LinesKept
<1>5. QED
  BY <1>1, <1>3, <1>4

\* The names are what they were.
LEMMA NamesAlike ==
    ASSUME UNCHANGED relisted
    PROVE  \A names, files : NamesKept(names, files)' <=> NamesKept(names, files)
BY DEF NamesKept, NoneTwice

LEMMA StartKeeps ==
    ASSUME SpcInv, NEW c \in Commands, SpcStart(c), stage = "idle"
    PROVE  SpcInv'
<1>1. UNCHANGED <<pages, cpp, midFile, plist, relisted>>
  BY DEF SpcStart, store
<1>2. PagesKept'
  BY <1>1, ReachedStays DEF SpcInv
<1>3. NamesKept(midFile, DOMAIN cpp)'
  BY <1>1, NamesAlike DEF SpcInv
<1>4. Entries'
  BY DEF SpcStart, Entries
<1>5. CASE c.args = <<>> \/ \E i \in DOMAIN c.args : c.args[i] \notin DOMAIN pages
  <2>1. UNCHANGED <<stage, args, clanFiles, lastClan>>
    BY <1>5 DEF SpcStart, midd_list
  <2>2. NamesKept(clanFiles, DOMAIN cpp)' /\ args' \in Seq(CspFiles)
    BY <1>1, <2>1, NamesAlike DEF SpcInv
  <2>3. Compiling' /\ MiddleFirst'
    BY <2>1 DEF Compiling, MiddleFirst
  <2>4. QED
    BY <1>2, <1>3, <1>4, <2>2, <2>3 DEF SpcInv
<1>6. CASE ~(c.args = <<>> \/ \E i \in DOMAIN c.args : c.args[i] \notin DOMAIN pages)
  <2>1. /\ stage' = "next" /\ args' = c.args /\ command' = c
        /\ clanFiles' \in open_middle_file(c) /\ lastClan' = Len(clanFiles')
    BY <1>6 DEF SpcStart
  <2>2. NamesKept(clanFiles, DOMAIN cpp)' /\ MiddleFirst'
    <3>1. CASE c.middle
      <4>1. PICK k \in 0 .. Len(midFile) : clanFiles' = SubSeq(midFile, 1, k)
        BY <2>1, <3>1 DEF open_middle_file
      <4>2. NamesKept(midFile, DOMAIN cpp)
        BY DEF SpcInv
      <4>3. NamesKept(clanFiles', DOMAIN cpp) /\ Len(clanFiles') = k /\ Begins(clanFiles', midFile, k)
        BY <4>1, <4>2, ReadKept
      <4>4. MiddleFirst'
        BY <1>1, <2>1, <4>3 DEF MiddleFirst
      <4>5. QED
        BY <1>1, <4>3, <4>4, NamesAlike
    <3>2. CASE ~c.middle
      <4>1. clanFiles' = <<>>
        BY <2>1, <3>2 DEF open_middle_file
      <4>2. NamesKept(clanFiles', DOMAIN cpp)
        BY <4>1, EmptyKept
      <4>3. MiddleFirst'
        BY <2>1, <3>2 DEF MiddleFirst
      <4>4. QED
        BY <1>1, <4>2, <4>3, NamesAlike
    <3>3. QED
      BY <3>1, <3>2
  <2>3. args' \in Seq(CspFiles)
    BY <2>1, SpcAssumption
  <2>4. Compiling'
    BY <2>1 DEF Compiling
  <2>5. QED
    BY <1>2, <1>3, <1>4, <2>2, <2>3, <2>4 DEF SpcInv
<1>7. QED
  BY <1>5, <1>6

\* What a step keeps that changes the list of lines at most.
LEMMA ListsStay ==
    ASSUME SpcInv, UNCHANGED <<pages, cpp, midFile, command, args, clanFiles, lastClan, compiled, relisted>>,
           stage # "idle", Compiling'
    PROVE  SpcInv'
<1>1. PagesKept' /\ Entries'
  BY ReachedStays DEF SpcInv, Entries
<1>2. MiddleFirst'
  BY DEF SpcInv, MiddleFirst
<1>3. NamesKept(midFile, DOMAIN cpp)' /\ NamesKept(clanFiles, DOMAIN cpp)'
  BY NamesAlike DEF SpcInv
<1>4. QED
  BY <1>1, <1>2, <1>3 DEF SpcInv

LEMMA NextFileKeeps ==
    ASSUME SpcInv, NextFile
    PROVE  SpcInv'
<1> DEFINE f == Head(args)
           line == Require(f, NoArg)
<1>1. /\ UNCHANGED <<pages, cpp, midFile, command, args, clanFiles, lastClan, compiled, relisted>>
      /\ plist' = <<line>> /\ stage' = "parse" /\ stage # "idle" /\ args # <<>>
  BY DEF NextFile, store, midd_list, ilist_req
<1>2. LineKind(line) /\ line.is = "require" /\ line.text.file = f
  BY DEF Require, LineKind, HasText
<1> HIDE DEF line
<1>3. plist' \in Seq({line}) /\ DOMAIN plist' = 1 .. 1 /\ plist'[1] = line
  BY <1>1
<1>4. \A i \in 1 .. 1 : i = 1
  OBVIOUS
<1>5. IsSeq(plist') /\ HasFile(plist', Asked, f)
  BY <1>2, <1>3 DEF IsSeq, HasFile, Asked
<1> HIDE DEF f
<1>6. LinesKept(plist', f)
  BY <1>2, <1>3, <1>4, <1>5 DEF LinesKept
<1>7. LinesKept(plist, Head(args))'
  BY <1>1, <1>6, ReachedStays DEF f
<1>8. Compiling'
  BY <1>1, <1>7 DEF Compiling
<1>9. QED
  BY <1>1, <1>8, ListsStay

LEMMA ParseOneKeeps ==
    ASSUME SpcInv, ParseOne
    PROVE  SpcInv'
<1> DEFINE a == find_require_undo(plist)
           text == plist[a].text
           marked == LaterMarked(plist, a)
           new == [marked EXCEPT ![a] = Done(@)] \o Section(text, pages[text.file])
<1>1. /\ UNCHANGED <<pages, cpp, midFile, command, args, clanFiles, lastClan, compiled, relisted>>
      /\ stage = "parse" /\ stage # "idle"
  BY DEF ParseOne, store, midd_list
<1>2. PagesKept /\ args # <<>> /\ LinesKept(plist, Head(args))
  BY <1>1 DEF SpcInv, Compiling
<1>3. CASE a = 0
  <2>1. stage' = "build" /\ plist' = plist
    BY <1>3 DEF ParseOne
  <2>2. \A i \in DOMAIN plist : plist[i].is # "require"
    BY <1>2, <1>3, UndoIs DEF LinesKept
  <2>3. LinesKept(plist, Head(args))'
    BY <1>1, <1>2, <2>1, ReachedStays
  <2>4. Compiling'
    BY <1>1, <1>2, <2>1, <2>2, <2>3 DEF Compiling
  <2>5. QED
    BY <1>1, <2>4, ListsStay
<1>4. CASE a # 0 /\ text.file \in DOMAIN pages /\ Good(pages[text.file])
  <2>1. stage' = "parse" /\ plist' = new
    BY <1>4 DEF ParseOne
  <2>2. a \in DOMAIN plist /\ plist[a].is = "require"
    BY <1>2, <1>4, UndoIs DEF LinesKept
  <2> HIDE DEF a
  <2>3. LinesKept(new, Head(args))
    BY <1>2, <1>4, <2>2, ParseKeeps
  <2> HIDE DEF new
  <2>4. LinesKept(plist, Head(args))'
    BY <1>1, <2>1, <2>3, ReachedStays
  <2>5. Compiling'
    BY <1>1, <1>2, <2>1, <2>4 DEF Compiling
  <2>6. QED
    BY <1>1, <2>5, ListsStay
<1>5. CASE a # 0 /\ ~(text.file \in DOMAIN pages /\ Good(pages[text.file]))
  <2>1. stage' = "flush"
    BY <1>5 DEF ParseOne
  <2>2. QED
    BY <1>1, <2>1, ListsStay DEF Compiling
<1>6. QED
  BY <1>3, <1>4, <1>5

\* A build makes no page require more.
LEMMA ReachesLess ==
    ASSUME DOMAIN pages' = DOMAIN pages,
           \A h \in DOMAIN pages : pages'[h] \in {pages[h], <<[is |-> "html"]>>},
           NEW f, NEW g \in Reached(f)'
    PROVE  g \in Reached(f)
<1>1. ASSUME NEW h \in DOMAIN pages, NEW r \in RequiredBy(h)'
      PROVE  r \in RequiredBy(h)
  <2>1. CASE pages'[h] = pages[h]
    BY <1>1, <2>1 DEF RequiredBy
  <2>2. CASE pages'[h] = <<[is |-> "html"]>>
    <3>1. PICK j \in DOMAIN UpTo(<<[is |-> "html"]>>, "badhead") :
             UpTo(<<[is |-> "html"]>>, "badhead")[j].is = "require"
      BY <1>1, <2>2 DEF RequiredBy
    <3>2. QED
      BY <3>1, HtmlPage
  <2>3. QED
    BY <2>1, <2>2
<1>2. ASSUME NEW S, HoldsRequired(S)
      PROVE  HoldsRequired(S)'
  BY <1>1, <1>2 DEF HoldsRequired
<1>3. g \in File /\ \A S \in SUBSET File : f \in S /\ HoldsRequired(S)' => g \in S
  BY DEF Reached
<1>4. QED
  BY <1>2, <1>3 DEF Reached

LEMMA BuildKeeps ==
    ASSUME SpcInv, Build
    PROVE  SpcInv'
<1> DEFINE o == Saved(plist)
           f == Head(args)
<1>1. /\ clanFiles' = o.names /\ cpp' = o.cpp /\ pages' = o.pages
      /\ compiled' = compiled \cup {f} /\ args' = Tail(args) /\ stage' = "next"
      /\ UNCHANGED <<midFile, command, lastClan, relisted>> /\ stage = "build" /\ stage # "idle"
  BY DEF Build
<1>2. /\ PagesKept /\ args \in Seq(CspFiles) /\ args # <<>> /\ LinesKept(plist, f)
      /\ \A i \in DOMAIN plist : plist[i].is # "require"
      /\ NamesKept(midFile, DOMAIN cpp) /\ NamesKept(clanFiles, DOMAIN cpp)
      /\ MiddleFirst /\ Entries
  BY <1>1 DEF SpcInv, Compiling
<1>3. OutKept(o, plist, Len(plist))
  BY <1>2, SavedIs DEF LinesKept
<1> HIDE DEF o
<1>4. /\ NamesKept(clanFiles', DOMAIN cpp') /\ Extends(clanFiles', clanFiles)
      /\ DOMAIN cpp \subseteq DOMAIN cpp' /\ DOMAIN pages' = DOMAIN pages
      /\ \A h \in DOMAIN pages : pages'[h] \in {pages[h], <<[is |-> "html"]>>}
      /\ \A i \in 1 .. Len(plist) : plist[i].is = "start" /\ plist[i].text.file \in CspFiles
                                       => Has(clanFiles', plist[i].text.file)
  BY <1>1, <1>3 DEF OutKept
<1>5. PagesKept'
  BY <1>2, <1>4, HtmlPage DEF PagesKept
<1>6. f \in CspFiles /\ args' \in Seq(CspFiles) /\ f \in File
  BY <1>1, <1>2, SpcAssumption
<1>7. NamesKept(midFile, DOMAIN cpp)' /\ NamesKept(clanFiles, DOMAIN cpp)'
  <2>1. NamesKept(midFile, DOMAIN cpp')
    BY <1>2, <1>4, NamesStay
  <2>2. QED
    BY <1>1, <1>4, <2>1, NamesAlike
<1>8. Compiling'
  BY <1>1 DEF Compiling
<1>9. IsSeq(clanFiles) /\ IsSeq(clanFiles') /\ IsSeq(midFile)
  BY <1>2, <1>4 DEF NamesKept
<1>10. MiddleFirst'
  <2>1. CASE command.middle
    <3>1. Begins(clanFiles, midFile, lastClan)
      BY <1>1, <1>2, <2>1 DEF MiddleFirst
    <3>2. Begins(clanFiles', midFile, lastClan)
      BY <1>4, <1>9, <3>1, BeginsThrough
    <3>3. QED
      BY <1>1, <3>2 DEF MiddleFirst
  <2>2. CASE ~command.middle
    BY <1>1, <2>2 DEF MiddleFirst
  <2>3. QED
    BY <2>1, <2>2
<1>11. Entries'
  <2>1. ASSUME NEW h \in compiled', NEW g \in Reached(h)' \cap CspFiles
        PROVE  Has(clanFiles', g)
    <3>1. g \in Reached(h)
      BY <1>4, ReachesLess
    <3>2. CASE h \in compiled
      <4>1. Has(clanFiles, g)
        BY <1>2, <3>1, <3>2 DEF Entries
      <4>2. QED
        BY <1>4, <1>9, <4>1, ExtendsHas
    <3>3. CASE h = f
      <4>1. HasFile(plist, {"start"}, g)
        BY <1>2, <1>6, <3>1, <3>3, AllDone
      <4>2. PICK i \in DOMAIN plist : plist[i].is = "start" /\ plist[i].text.file = g
        BY <4>1 DEF HasFile
      <4>3. i \in 1 .. Len(plist)
        BY <1>2, SeqIs DEF LinesKept
      <4>4. QED
        BY <1>4, <4>2, <4>3
    <3>4. QED
      BY <1>1, <3>2, <3>3
  <2>2. QED
    BY <2>1 DEF Entries
<1>12. QED
  BY <1>5, <1>6, <1>7, <1>8, <1>10, <1>11 DEF SpcInv

LEMMA FlushKeeps ==
    ASSUME SpcInv, Flush
    PROVE  SpcInv'
<1>1. /\ UNCHANGED <<pages, cpp, command, args, clanFiles, lastClan, compiled>>
      /\ stage' = "idle" /\ stage = "flush" /\ stage # "idle"
      /\ \/ midFile' = midFile /\ relisted' = relisted
         \/ /\ command.middle /\ midFile' = midFile \o NewNames
            /\ relisted' = relisted \cup (ToSet(NewNames) \cap ToSet(Unread))
  BY DEF Flush, midd_list
<1>2. PagesKept' /\ Entries'
  BY <1>1, ReachedStays DEF SpcInv, Entries
<1>3. Compiling' /\ MiddleFirst'
  BY <1>1 DEF Compiling, MiddleFirst
<1>4. NamesKept(midFile, DOMAIN cpp)' /\ NamesKept(clanFiles, DOMAIN cpp)'
  <2>1. CASE midFile' = midFile /\ relisted' = relisted
    BY <1>1, <2>1, NamesAlike DEF SpcInv
  <2>2. CASE /\ command.middle /\ midFile' = midFile \o NewNames
             /\ relisted' = relisted \cup (ToSet(NewNames) \cap ToSet(Unread))
    <3> DEFINE rest == NewNames
               unread == Unread
    <3>1. Begins(clanFiles, midFile, lastClan)
      BY <1>1, <2>2 DEF SpcInv, MiddleFirst
    <3>2. NamesKept(clanFiles, DOMAIN cpp) /\ NamesKept(midFile, DOMAIN cpp)
      BY DEF SpcInv
    <3>3. /\ rest = SubSeq(clanFiles, lastClan + 1, Len(clanFiles))
          /\ unread = SubSeq(midFile, lastClan + 1, Len(midFile))
      BY DEF NewNames, Unread
    <3>4. relisted' = relisted \cup (ToSet(rest) \cap ToSet(unread)) /\ midFile' = midFile \o rest
      BY <2>2
    <3> HIDE DEF rest, unread
    <3>5. relisted \subseteq relisted'
          /\ \A x : (\E i \in DOMAIN rest : rest[i] = x) /\ (\E i \in DOMAIN unread : unread[i] = x)
                     => x \in relisted'
      BY <3>4 DEF ToSet
    <3>6. FlushedIs(midFile', DOMAIN cpp, relisted')
      BY <3>1, <3>2, <3>3, <3>4, <3>5, FlushedKept
    <3>7. NamesKept(midFile, DOMAIN cpp)'
      BY <1>1, <3>6 DEF FlushedIs, NamesKept, NoneTwice
    <3>8. NamesKept(clanFiles, DOMAIN cpp)'
      BY <1>1, <3>2, <3>5 DEF NamesKept, NoneTwice
    <3>9. QED
      BY <3>7, <3>8
  <2>3. QED
    BY <1>1, <2>1, <2>2
<1>5. args' \in Seq(CspFiles)
  BY <1>1 DEF SpcInv
<1>6. QED
  BY <1>2, <1>3, <1>4, <1>5 DEF SpcInv

LEMMA SpcStep ==
    ASSUME SpcInv, [SpcNext]_spcVars
    PROVE  SpcInv'
<1>1. CASE stage = "idle" /\ runs < MaxRuns /\ \E c \in Commands : SpcStart(c)
  BY <1>1, StartKeeps
<1>2. CASE NextFile
  BY <1>2, NextFileKeeps
<1>3. CASE ParseOne
  BY <1>3, ParseOneKeeps
<1>4. CASE Build
  BY <1>4, BuildKeeps
<1>5. CASE AllFiles
  <2>1. /\ UNCHANGED <<pages, cpp, midFile, command, args, clanFiles, lastClan, compiled, relisted>>
        /\ stage' = "flush" /\ stage # "idle"
    BY <1>5 DEF AllFiles, store, midd_list
  <2>2. QED
    BY <2>1, ListsStay DEF Compiling
<1>6. CASE Flush
  BY <1>6, FlushKeeps
<1>7. CASE Killed
  <2>1. /\ UNCHANGED <<pages, cpp, midFile, command, args, clanFiles, lastClan, compiled, relisted>>
        /\ stage' = "idle" /\ stage # "idle"
    BY <1>7 DEF Killed, store, midd_list
  <2>2. QED
    BY <2>1, ListsStay DEF Compiling
<1>8. CASE UNCHANGED spcVars
  <2>1. UNCHANGED <<pages, cpp, midFile, command, stage, args, plist, clanFiles, lastClan, compiled, relisted>>
    BY <1>8 DEF spcVars, store, midd_list
  <2>2. PagesKept' /\ Entries' /\ Compiling' /\ MiddleFirst'
    BY <2>1, ReachedStays DEF SpcInv, Entries, Compiling, MiddleFirst
  <2>3. NamesKept(midFile, DOMAIN cpp)' /\ NamesKept(clanFiles, DOMAIN cpp)'
    BY <2>1, NamesAlike DEF SpcInv
  <2>4. QED
    BY <2>1, <2>2, <2>3 DEF SpcInv
<1>9. QED
  BY <1>1, <1>2, <1>3, <1>4, <1>5, <1>6, <1>7, <1>8 DEF SpcNext

LEMMA SpcInvBuilt ==
    ASSUME SpcInv
    PROVE  AllBuilt /\ MiddleOnce
<1>1. AllBuilt
  <2>1. ASSUME NEW f \in compiled, NEW g \in Reached(f) \cap CspFiles
        PROVE  Contains(clanFiles, g) /\ (g \in Unwritable \/ g \in DOMAIN cpp)
    <3>1. Has(clanFiles, g) /\ NamesKept(clanFiles, DOMAIN cpp)
      BY DEF SpcInv, Entries
    <3>2. DOMAIN clanFiles = 1 .. Len(clanFiles)
      BY <3>1, SeqIs DEF NamesKept
    <3>3. PICK i \in DOMAIN clanFiles : clanFiles[i] = g
      BY <3>1 DEF Has
    <3>4. g \in Unwritable \cup DOMAIN cpp
      BY <3>1, <3>3 DEF NamesKept
    <3>5. QED
      BY <3>2, <3>3, <3>4 DEF Contains
  <2>2. QED
    BY <2>1 DEF AllBuilt
<1>2. MiddleOnce
  BY DEF SpcInv, NamesKept, NoneTwice, MiddleOnce
<1>3. QED
  BY <1>1, <1>2

\* Whatever the pages, the command lines and the files that cannot be written: a
\* page of the command line that spc has compiled has, with all the pages that it
\* requires directly or through others, a generated function that is listed and, if
\* it can be written, on the disk; and a name is twice in the middle file only if a
\* run that failed to read it there compiled its page again, through runs that are
\* killed, that end at a wrong page or that cannot append to the file
\* (recursive_parse, find_require_undo, put_midd_file, fill_middle, flush_midd_file).
THEOREM SpcBuiltAlways == SpcSpec => [](AllBuilt /\ MiddleOnce)
<1>1. SpcInit => SpcInv
  BY SpcInitKept
<1>2. SpcInv /\ [SpcNext]_spcVars => SpcInv'
  BY SpcStep
<1>3. SpcInv => AllBuilt /\ MiddleOnce
  BY SpcInvBuilt
<1>4. QED
  BY <1>1, <1>2, <1>3, PTL DEF SpcSpec
=============================================================================
