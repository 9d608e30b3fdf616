------------------------------- MODULE Chunker -------------------------------
(***************************************************************************)
(* ingestion/chunker.py: cutting the pages of a document into chunks of    *)
(* tokens.  A text without pages is one page.  A token is known by its     *)
(* page and its place there; a chunk is the range of tokens it holds.      *)
(***************************************************************************)
EXTENDS Integers, Sequences

CONSTANTS
  Sizes,         \* values of EMBEDDING_MAX_TOKENS
  Lengths,       \* how many tokens a page has
  MaxPages       \* bound: pages of a document

ASSUME ChunkerAssumption ==
  /\ Sizes \subseteq Nat
  /\ Lengths \subseteq Nat
  /\ MaxPages \in Nat

VARIABLES
  size,          \* CHUNK_SIZE, fixed when the module is loaded
  pages,         \* the number of tokens of each page
  page, i,       \* the loops' counters
  chunks         \* what has been cut

vars == <<size, pages, page, i, chunks>>

Larger(a, b)  == IF a >= b THEN a ELSE b
Smaller(a, b) == IF a <= b THEN a ELSE b

CHUNK_OVERLAP == Larger(8, size \div 4)

\* A mutant: windows that do not overlap.
StrideOfSize == size

CHUNK_STRIDE == size - CHUNK_OVERLAP
MIN_CHUNK_TOKENS == Larger(16, size \div 6)

Init ==
  /\ size \in Sizes
  /\ pages \in UNION {[1 .. k -> Lengths] : k \in 0 .. MaxPages}
  /\ page = 1
  /\ i = 0
  /\ chunks = <<>>

\* The window at i of the current page ends before token WindowEnd.
TokenCount == pages[page]

\* A mutant: one token too many.
WindowEndPast == Smaller(i + size + 1, TokenCount)

WindowEnd  == Smaller(i + size, TokenCount)

PageGoesOn ==
  /\ i < TokenCount
  /\ WindowEnd - i >= MIN_CHUNK_TOKENS

\* One round of _sliding_window.  The index runs through all pages.
EmitChunk ==
  /\ page <= Len(pages)
  /\ PageGoesOn
  /\ chunks' = Append(chunks, [index |-> Len(chunks), page |-> page, from |-> i, to |-> WindowEnd])
  /\ i' = i + CHUNK_STRIDE
  /\ UNCHANGED <<size, pages, page>>

\* A mutant: a loop that waits at a short window instead of ending there.
NextPageAtEnd ==
  /\ page <= Len(pages)
  /\ i >= TokenCount
  /\ page' = page + 1
  /\ i' = 0
  /\ UNCHANGED <<size, pages, chunks>>

\* The loop of _sliding_window ends at the end of the page, or at a window with
\* too few tokens; _chunk_with_pages takes the next page.
NextPage ==
  /\ page <= Len(pages)
  /\ ~PageGoesOn
  /\ page' = page + 1
  /\ i' = 0
  /\ UNCHANGED <<size, pages, chunks>>

Next == EmitChunk \/ NextPage

Spec     == Init /\ [][Next]_vars
FairSpec == Spec /\ WF_vars(Next)
-----------------------------------------------------------------------------
Chunk == [index : Nat, page : Nat \ {0}, from : Nat, to : Nat]

\* The types of the state.
TypeOK ==
  /\ size \in Sizes
  /\ pages \in Seq(Lengths)
  /\ page \in 1 .. Len(pages) + 1
  /\ i \in Nat
  /\ chunks \in Seq(Chunk)

\* Chunk k holds token t of page p.
Holds(k, p, t) == chunks[k].page = p /\ chunks[k].from <= t /\ t < chunks[k].to

Held(p, t) == \E k \in 1 .. Len(chunks) : Holds(k, p, t)

\* From 60 tokens on, a window that is too short to be cut lies in the overlap
\* with the window before it.  Below that it may not, and the last tokens of a
\* page are in no chunk.
NoGap == size >= 60

\* The loop's early end (len(window) < MIN_CHUNK_TOKENS, chunker.py:144) loses no
\* text: every token of a page that has been cut is in some chunk, provided that
\* the page has enough tokens for one chunk and the chunk size leaves no gap.
EveryTokenHeld ==
  NoGap =>
    \A p \in 1 .. page - 1 :
      pages[p] >= MIN_CHUNK_TOKENS => \A t \in 0 .. pages[p] - 1 : Held(p, t)

\* A chunk stays on its page and within the token limit of the embedding model,
\* and is no noise (chunker.py:3-5, 19).
WithinLimits ==
  \A k \in 1 .. Len(chunks) :
    LET c == chunks[k] IN
    /\ c.page <= Len(pages)
    /\ c.to <= pages[c.page]
    /\ c.to - c.from <= size
    /\ c.to - c.from >= MIN_CHUNK_TOKENS

\* The chunks of a page come in its order, and neighbours share CHUNK_OVERLAP
\* tokens, or all that is left of the page: no two chunks start at the same token,
\* whatever the size is (CHUNK_STRIDE is not positive for small ones).
NeighboursOverlap ==
  \A k \in 1 .. Len(chunks) - 1 :
    LET c == chunks[k]  d == chunks[k + 1] IN
    c.page = d.page =>
      /\ c.from < d.from
      /\ d.from = c.from + CHUNK_STRIDE
      /\ c.to = Smaller(d.from + CHUNK_OVERLAP, pages[c.page])

\* The loops end, also for sizes whose stride is zero or negative.
Terminates == <>(page = Len(pages) + 1)
=============================================================================
