---------------------------- MODULE ChunkerProofs ----------------------------
(***************************************************************************)
(* Chunker for every chunk size, every number of pages and every length.   *)
(***************************************************************************)
EXTENDS Chunker, SequenceTheorems, TLAPS

(* What the formulas of the sizes give. *)
LEMMA SizeFacts ==
  ASSUME size \in Nat
  PROVE  /\ CHUNK_OVERLAP \in Nat
         /\ CHUNK_STRIDE \in Int
         /\ MIN_CHUNK_TOKENS \in Nat
         /\ MIN_CHUNK_TOKENS >= 16
         /\ CHUNK_OVERLAP + CHUNK_STRIDE = size
         /\ size >= 16 => CHUNK_STRIDE >= 8
         /\ NoGap => MIN_CHUNK_TOKENS <= CHUNK_OVERLAP + 1 /\ MIN_CHUNK_TOKENS <= size
<1>1. size \div 4 \in Nat /\ size \div 6 \in Nat
  OBVIOUS
<1>2. 2 * (size \div 4) <= size /\ size \div 6 <= size
  OBVIOUS
<1>3. size >= 60 => size \div 4 >= 15 /\ size \div 6 <= size \div 4
  OBVIOUS
<1> QED BY <1>1, <1>2, <1>3 DEF CHUNK_OVERLAP, CHUNK_STRIDE, MIN_CHUNK_TOKENS, NoGap, Larger

(* Where the window at i ends. *)
LEMMA WindowFacts ==
  ASSUME TypeOK, page <= Len(pages)
  PROVE  /\ TokenCount \in Nat
         /\ size \in Nat
         /\ WindowEnd \in Nat
         /\ WindowEnd <= TokenCount
         /\ WindowEnd <= i + size
         /\ WindowEnd = TokenCount \/ WindowEnd = i + size
<1>1. page \in 1 .. Len(pages)
  BY DEF TypeOK
<1>2. TokenCount \in Lengths
  BY <1>1, ElementOfSeq DEF TypeOK, TokenCount
<1>3. size \in Nat /\ TokenCount \in Nat /\ i \in Nat
  BY <1>2, ChunkerAssumption DEF TypeOK
<1> QED BY <1>3 DEF WindowEnd, Smaller

(* A new chunk takes no token from the chunks that are there. *)
LEMMA HeldOnAppend ==
  ASSUME chunks \in Seq(Chunk), NEW c \in Chunk, chunks' = Append(chunks, c)
  PROVE  /\ \A p, t : Held(p, t) => Held(p, t)'
         /\ \A t : c.from <= t /\ t < c.to => Held(c.page, t)'
<1>1. Len(chunks') = Len(chunks) + 1 /\ Len(chunks) \in Nat
  OBVIOUS
<1>2. \A k \in 1 .. Len(chunks) : chunks'[k] = chunks[k]
  OBVIOUS
<1>3. chunks'[Len(chunks')] = c /\ Len(chunks') \in 1 .. Len(chunks')
  OBVIOUS
<1> QED BY <1>1, <1>2, <1>3 DEF Held, Holds
-----------------------------------------------------------------------------
(* The loop has held every token before i and the overlap behind it.  *)
PageHeld ==
  NoGap /\ page <= Len(pages) =>
    \A t \in 0 .. TokenCount - 1 :
      t < i \/ (i > 0 /\ t < i + CHUNK_OVERLAP) => Held(page, t)

(* The last chunk, while the loop is on its page. *)
LastChunk ==
  Len(chunks) > 0 =>
    LET c == chunks[Len(chunks)] IN
    /\ c.page <= page
    /\ c.page = page => /\ i = c.from + CHUNK_STRIDE
                        /\ c.to = Smaller(i + CHUNK_OVERLAP, TokenCount)

IInv ==
  /\ TypeOK
  /\ WithinLimits
  /\ NeighboursOverlap
  /\ LastChunk
  /\ EveryTokenHeld
  /\ PageHeld
-----------------------------------------------------------------------------
LEMMA Initially == Init => IInv
<1> SUFFICES ASSUME Init PROVE IInv
  OBVIOUS
<1>1. PICK k \in 0 .. MaxPages : pages \in [1 .. k -> Lengths]
  BY DEF Init
<1>2. pages \in Seq(Lengths) /\ Len(pages) = k
  BY <1>1, ChunkerAssumption
<1>3. chunks = <<>> /\ Len(chunks) = 0 /\ page = 1 /\ i = 0 /\ size \in Sizes
  BY DEF Init
<1>4. TypeOK
  BY <1>2, <1>3 DEF TypeOK
<1>5. WithinLimits /\ NeighboursOverlap /\ LastChunk
  BY <1>3 DEF WithinLimits, NeighboursOverlap, LastChunk
<1>6. EveryTokenHeld
  BY <1>3 DEF EveryTokenHeld
<1>7. PageHeld
  <2>1. size \in Nat
    BY <1>3, ChunkerAssumption
  <2> QED BY <1>3, <1>4 DEF PageHeld
<1> QED BY <1>4, <1>5, <1>6, <1>7 DEF IInv

LEMMA EmitKeeps == IInv /\ EmitChunk => IInv'
<1> SUFFICES ASSUME IInv, EmitChunk PROVE IInv'
  OBVIOUS
<1> DEFINE c == [index |-> Len(chunks), page |-> page, from |-> i, to |-> WindowEnd]
           n == Len(chunks)
<1>1. /\ page \in Nat \ {0} /\ page <= Len(pages) /\ i \in Nat
      /\ chunks \in Seq(Chunk) /\ n \in Nat
      /\ WindowEnd - i >= MIN_CHUNK_TOKENS
      /\ chunks' = Append(chunks, c)
      /\ i' = i + CHUNK_STRIDE
      /\ UNCHANGED <<size, pages, page>>
  BY DEF IInv, TypeOK, EmitChunk, PageGoesOn
<1>2. /\ TokenCount \in Nat /\ size \in Nat /\ WindowEnd \in Nat
      /\ WindowEnd <= TokenCount /\ WindowEnd <= i + size
      /\ WindowEnd = TokenCount \/ WindowEnd = i + size
  BY <1>1, WindowFacts DEF IInv
<1>3. /\ CHUNK_OVERLAP \in Nat /\ MIN_CHUNK_TOKENS >= 16 /\ MIN_CHUNK_TOKENS \in Nat
      /\ CHUNK_STRIDE \in Int /\ CHUNK_STRIDE >= 8
      /\ CHUNK_OVERLAP + CHUNK_STRIDE = size
  BY <1>1, <1>2, SizeFacts
<1>4. /\ CHUNK_OVERLAP' = CHUNK_OVERLAP /\ CHUNK_STRIDE' = CHUNK_STRIDE
      /\ MIN_CHUNK_TOKENS' = MIN_CHUNK_TOKENS /\ TokenCount' = TokenCount /\ NoGap' = NoGap
  BY <1>1 DEF CHUNK_OVERLAP, CHUNK_STRIDE, MIN_CHUNK_TOKENS, TokenCount, NoGap, Larger
<1>5. c \in Chunk
  BY <1>1, <1>2 DEF Chunk
<1>6. /\ Len(chunks') = n + 1
      /\ \A k \in 1 .. n : chunks'[k] = chunks[k]
      /\ chunks'[n + 1] = c
  BY <1>1, <1>5
<1>7. TypeOK'
  BY <1>1, <1>3, <1>5 DEF IInv, TypeOK
<1>8. WithinLimits'
  <2>1. \A k \in 1 .. n : chunks'[k].page <= Len(pages) /\ chunks'[k].to <= pages[chunks'[k].page]
                          /\ chunks'[k].to - chunks'[k].from <= size
                          /\ chunks'[k].to - chunks'[k].from >= MIN_CHUNK_TOKENS
    BY <1>6 DEF IInv, WithinLimits
  <2>2. c.page <= Len(pages) /\ c.to <= pages[c.page] /\ c.to - c.from <= size
        /\ c.to - c.from >= MIN_CHUNK_TOKENS
    BY <1>1, <1>2 DEF TokenCount
  <2>3. \A k \in 1 .. n + 1 : k \in 1 .. n \/ k = n + 1
    BY <1>1
  <2> QED BY <2>1, <2>2, <2>3, <1>1, <1>4, <1>6 DEF WithinLimits
<1>9. NeighboursOverlap'
  <2> SUFFICES ASSUME NEW k \in 1 .. n, chunks'[k].page = chunks'[k + 1].page
               PROVE  /\ chunks'[k].from < chunks'[k + 1].from
                      /\ chunks'[k + 1].from = chunks'[k].from + CHUNK_STRIDE
                      /\ chunks'[k].to = Smaller(chunks'[k + 1].from + CHUNK_OVERLAP,
                                                 pages[chunks'[k].page])
    <3>1. Len(chunks') - 1 = n /\ pages' = pages
      BY <1>1, <1>6
    <3> QED BY <3>1, <1>4 DEF NeighboursOverlap, Smaller
  <2>1. CASE k \in 1 .. n - 1
    <3>1. k + 1 \in 1 .. n /\ chunks'[k] = chunks[k] /\ chunks'[k + 1] = chunks[k + 1]
      BY <2>1, <1>1, <1>6
    <3> QED BY <2>1, <3>1 DEF IInv, NeighboursOverlap
  <2>2. CASE k = n
    <3>1. chunks'[k] = chunks[n] /\ chunks'[k + 1] = c /\ chunks[n].page = page
      BY <2>2, <1>6
    <3>2. /\ i = chunks[n].from + CHUNK_STRIDE
          /\ chunks[n].to = Smaller(i + CHUNK_OVERLAP, TokenCount)
      BY <3>1, <2>2, <1>1 DEF IInv, LastChunk
    <3>3. chunks[n] \in Chunk
      BY <2>2, <1>1, ElementOfSeq
    <3> QED BY <3>1, <3>2, <3>3, <1>3 DEF TokenCount, Chunk
  <2> QED BY <2>1, <2>2, <1>1
<1>10. LastChunk'
  <2>1. WindowEnd = Smaller(i + size, TokenCount)
    BY DEF WindowEnd
  <2>2. (i + CHUNK_STRIDE) + CHUNK_OVERLAP = i + size
    BY <1>1, <1>2, <1>3
  <2> QED BY <2>1, <2>2, <1>1, <1>4, <1>6 DEF LastChunk, Smaller
<1>11. EveryTokenHeld'
  <2>1. \A p, t : Held(p, t) => Held(p, t)'
    BY <1>1, <1>5, HeldOnAppend
  <2> QED BY <2>1, <1>1, <1>4 DEF IInv, EveryTokenHeld
<1>12. PageHeld'
  <2> SUFFICES ASSUME NoGap, NEW t \in 0 .. TokenCount - 1, t < i' + CHUNK_OVERLAP
               PROVE  Held(page, t)'
    BY <1>1, <1>3, <1>4 DEF PageHeld
  <2>1. CASE t < i
    <3>1. Held(page, t)
      BY <2>1, <1>1 DEF IInv, PageHeld
    <3> QED BY <3>1, <1>1, <1>5, HeldOnAppend
  <2>2. CASE t >= i
    <3>1. t < WindowEnd
      BY <1>1, <1>2, <1>3
    <3>2. c.from <= t /\ t < c.to /\ c.page = page
      BY <2>2, <3>1
    <3> QED BY <3>2, <1>1, <1>5, HeldOnAppend
  <2> QED BY <2>1, <2>2, <1>1
<1> QED BY <1>7, <1>8, <1>9, <1>10, <1>11, <1>12 DEF IInv

LEMMA NextPageKeeps == IInv /\ NextPage => IInv'
<1> SUFFICES ASSUME IInv, NextPage PROVE IInv'
  OBVIOUS
<1>1. /\ page \in Nat \ {0} /\ page <= Len(pages) /\ i \in Nat /\ Len(pages) \in Nat
      /\ chunks \in Seq(Chunk) /\ Len(chunks) \in Nat
      /\ page' = page + 1 /\ i' = 0
      /\ UNCHANGED <<size, pages, chunks>>
  BY DEF IInv, TypeOK, NextPage
<1>2. i >= TokenCount \/ WindowEnd - i < MIN_CHUNK_TOKENS
  <2>1. TokenCount \in Nat /\ WindowEnd \in Nat /\ MIN_CHUNK_TOKENS \in Nat
    BY <1>1, WindowFacts, SizeFacts DEF IInv
  <2> QED BY <2>1, <1>1 DEF NextPage, PageGoesOn
<1>3. /\ CHUNK_OVERLAP' = CHUNK_OVERLAP /\ CHUNK_STRIDE' = CHUNK_STRIDE
      /\ MIN_CHUNK_TOKENS' = MIN_CHUNK_TOKENS /\ NoGap' = NoGap
      /\ \A p, t : Held(p, t)' = Held(p, t)
  BY <1>1 DEF CHUNK_OVERLAP, CHUNK_STRIDE, MIN_CHUNK_TOKENS, NoGap, Larger, Held, Holds
<1>4. TypeOK'
  BY <1>1 DEF IInv, TypeOK
<1>5. WithinLimits' /\ NeighboursOverlap'
  BY <1>1, <1>3 DEF IInv, WithinLimits, NeighboursOverlap
<1>6. LastChunk'
  <2>1. Len(chunks) > 0 => chunks[Len(chunks)] \in Chunk
    BY <1>1, ElementOfSeq
  <2> QED BY <2>1, <1>1 DEF IInv, LastChunk, Chunk
<1>7. EveryTokenHeld'
  <2> SUFFICES ASSUME NoGap, NEW p \in 1 .. page, pages[p] >= MIN_CHUNK_TOKENS,
                      NEW t \in 0 .. pages[p] - 1
               PROVE  Held(p, t)
    BY <1>1, <1>3 DEF EveryTokenHeld
  <2>1. CASE p \in 1 .. page - 1
    BY <2>1 DEF IInv, EveryTokenHeld
  <2>2. CASE p = page
    <3>1. /\ TokenCount \in Nat /\ size \in Nat /\ WindowEnd \in Nat
          /\ WindowEnd = TokenCount \/ WindowEnd = i + size
      BY <1>1, WindowFacts DEF IInv
    <3>2. /\ CHUNK_OVERLAP \in Nat /\ MIN_CHUNK_TOKENS \in Nat
          /\ MIN_CHUNK_TOKENS <= CHUNK_OVERLAP + 1 /\ MIN_CHUNK_TOKENS <= size
      BY <3>1, SizeFacts
    <3>3. pages[p] = TokenCount
      BY <2>2 DEF TokenCount
    <3>4. t < i \/ (i > 0 /\ t < i + CHUNK_OVERLAP)
      BY <1>1, <1>2, <3>1, <3>2, <3>3
    <3> QED BY <2>2, <3>3, <3>4, <1>1 DEF IInv, PageHeld
  <2> QED BY <2>1, <2>2, <1>1
<1>8. PageHeld'
  <2>1. page' <= Len(pages') => pages[page + 1] \in Lengths
    BY <1>1, ElementOfSeq DEF IInv, TypeOK
  <2> QED BY <2>1, <1>1, ChunkerAssumption DEF PageHeld, TokenCount
<1> QED BY <1>4, <1>5, <1>6, <1>7, <1>8 DEF IInv

LEMMA Invariance == Spec => []IInv
<1>1. IInv /\ UNCHANGED vars => IInv'
  BY DEF vars, IInv, TypeOK, WithinLimits, NeighboursOverlap, LastChunk, EveryTokenHeld, PageHeld,
         CHUNK_OVERLAP, CHUNK_STRIDE, MIN_CHUNK_TOKENS, NoGap, TokenCount, Held, Holds
<1>2. IInv /\ [Next]_vars => IInv'
  BY <1>1, EmitKeeps, NextPageKeeps DEF Next
<1> QED BY Initially, <1>2, PTL DEF Spec
-----------------------------------------------------------------------------
(* The state is well typed for every chunk size, although the stride is not     *)
(* positive for small ones (chunker.py:20-23).                                  *)
THEOREM ChunkerTypes == Spec => []TypeOK
BY Invariance, PTL DEF IInv

(* Chunks stay within their page and the embedding model's limit (_sliding_window). *)
THEOREM ChunksWithinLimits == Spec => []WithinLimits
BY Invariance, PTL DEF IInv

(* Neighbouring chunks share exactly CHUNK_OVERLAP tokens, or the page's end    *)
(* (_sliding_window).                                                           *)
THEOREM ChunksOverlap == Spec => []NeighboursOverlap
BY Invariance, PTL DEF IInv

(* With a chunk size of at least 60 the early end of _sliding_window loses no   *)
(* token of a page that is long enough for one chunk.                           *)
THEOREM NoTokenLost == Spec => []EveryTokenHeld
BY Invariance, PTL DEF IInv
=============================================================================
