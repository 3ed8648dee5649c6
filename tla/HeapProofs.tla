----------------------------- MODULE HeapProofs -----------------------------
(***************************************************************************)
(* Proofs about module Heap, for every heap size, every request and every  *)
(* thing a client may write into its memory.                               *)
(*                                                                         *)
(* The argument: each primitive store (Shrink, Absorb, SetStatus, ...)     *)
(* preserves the chain of blocks; malloc, calloc, free and realloc are     *)
(* compositions of them; so every step preserves the inductive invariant.  *)
(***************************************************************************)
EXTENDS Heap, WellFoundedInduction, TLAPS

\* The chain invariant with the bounds that make it inductive: a heap not yet
\* initialised is empty, and the blocks lie below last_alloc.
Good(h) ==
  /\ h \in HeapState
  /\ h.heap_end <= MAPPED_LIMIT
  /\ h.last_alloc % ALLOC_ALIGN = 0
  /\ \/ h.heap_beginning = 0 /\ h.last_alloc = 0 /\ h.hdrs = {}
     \/ /\ HEAP_MIN <= h.heap_beginning /\ h.heap_beginning <= h.last_alloc
        /\ h.heap_beginning % ALLOC_ALIGN = 0
        /\ h.last_alloc <= MAPPED_LIMIT
  /\ \A b \in h.hdrs : BlockEnd(h, b) <= h.last_alloc
  /\ Chain(h)

\* A block that no client holds covers address a, and a free header or zeroes
\* stand there.
FreeAt(h, a) ==
  /\ a \in Cells /\ h.mem[a].status = 0
  /\ \E b \in h.hdrs : h.mem[b].status = 0 /\ b <= a /\ a < BlockEnd(h, b)

\* The inductive invariant.
IInv ==
  /\ TypeOK
  /\ Good(heap)
  /\ UsedAreHeld
  /\ stale # NULL => FreeAt(heap, Header(stale))

-----------------------------------------------------------------------------
(* Arithmetic *)

LEMMA AlignUp ==
  ASSUME NEW x \in Nat, x > 0
  PROVE  ALIGN_UP(x) \in Nat /\ ALIGN_UP(x) % ALLOC_ALIGN = 0 /\ ALIGN_UP(x) >= x
BY DEF ALIGN_UP, ALLOC_ALIGN

LEMMA CellFacts ==
  /\ \A a \in Cells : a \in Nat /\ a >= HEAP_MIN /\ a <= MAPPED_LIMIT /\ a % ALLOC_ALIGN = 0
  /\ \A a \in Int : a >= HEAP_MIN /\ a <= MAPPED_LIMIT /\ a % ALLOC_ALIGN = 0 => a \in Cells
  /\ HEAP_MIN \in Nat /\ HEAP_MIN >= 16 /\ MAPPED_LIMIT \in Nat
BY HeapConstants DEF Cells, ALLOC_ALIGN

LEMMA ModFacts ==
  ASSUME NEW a \in Int, NEW b \in Int, a % ALLOC_ALIGN = 0, b % ALLOC_ALIGN = 0
  PROVE  /\ (a + b) % ALLOC_ALIGN = 0 /\ (a - b) % ALLOC_ALIGN = 0
         /\ (a + SIZEOF_ALLOC) % ALLOC_ALIGN = 0 /\ (a - SIZEOF_ALLOC) % ALLOC_ALIGN = 0
         /\ a < b => a + SIZEOF_ALLOC <= b
BY DEF ALLOC_ALIGN, SIZEOF_ALLOC

LEMMA MergedSize ==
  ASSUME NEW x \in Nat, NEW y \in Nat, x % ALLOC_ALIGN = 0, y % ALLOC_ALIGN = 0
  PROVE  (x + 16 + y) % ALLOC_ALIGN = 0
BY DEF ALLOC_ALIGN

\* A nonempty set of naturals has a smallest element.
LEMMA MinExists ==
  ASSUME NEW T \in SUBSET Nat, T # {}
  PROVE  \E x \in T : \A y \in T : x <= y
<1>1. PICK x \in T : \A y \in T : ~(<<y, x>> \in OpToRel(<, Nat))
  BY NatLessThanWellFounded, WFMin
<1>2. \A y \in T : y < x => <<y, x>> \in OpToRel(<, Nat)
  BY DEF OpToRel
<1>3. \A y \in T : ~ (y < x)
  BY <1>1, <1>2, Zenon
<1>4. \A y \in T : x <= y
  BY <1>3
<1>. QED
  BY <1>4

\* A bounded nonempty set of naturals has a largest element.
LEMMA MaxExists ==
  ASSUME NEW T \in SUBSET Nat, T # {}, NEW m \in Nat, \A x \in T : x <= m
  PROVE  \E x \in T : \A y \in T : y <= x
<1>. DEFINE U == {m - x : x \in T}
<1>1. U \in SUBSET Nat
  <2>. SUFFICES ASSUME NEW x \in T PROVE m - x \in Nat
    BY Zenon
  <2>1. x <= m /\ x \in Nat
    OBVIOUS
  <2>. QED
    BY <2>1
<1>2. U # {}
  BY Zenon
<1>3. PICK u \in U : \A v \in U : u <= v
  <2>. HIDE DEF U
  <2>. QED
    BY <1>1, <1>2, MinExists
<1>4. PICK x \in T : u = m - x
  BY Zenon
<1>5. \A y \in T : m - x <= m - y
  BY <1>3, <1>4, Zenon
<1>6. \A y \in T : y <= x
  BY <1>5
<1>. QED
  BY <1>6

\* What Good says of one header.
LEMMA HeaderFacts ==
  ASSUME NEW h, Good(h), NEW b \in h.hdrs
  PROVE  /\ b \in Cells /\ b \in Nat /\ b % ALLOC_ALIGN = 0
         /\ h.mem[b] \in alloc_t /\ h.mem[b].size \in Nat /\ h.mem[b].status \in {0, 1}
         /\ h.mem[b].size > 0 /\ h.mem[b].size % ALLOC_ALIGN = 0
         /\ h.heap_beginning >= HEAP_MIN /\ h.heap_beginning <= b
         /\ BlockEnd(h, b) = b + 16 + h.mem[b].size
         /\ BlockEnd(h, b) <= h.last_alloc
         /\ BlockEnd(h, b) \in h.hdrs \cup {h.last_alloc}
         /\ h.last_alloc \in Nat /\ h.last_alloc <= MAPPED_LIMIT
         /\ \A c \in h.hdrs : b < c => BlockEnd(h, b) <= c
BY CellFacts DEF Good, Chain, HeapState, alloc_t, BlockEnd, SIZEOF_ALLOC

-----------------------------------------------------------------------------
(* The primitive stores *)

\* The heap g has the bounds of h.
SameBounds(g, h) ==
  /\ g.heap_beginning = h.heap_beginning /\ g.heap_end = h.heap_end
  /\ g.last_alloc = h.last_alloc

\* A heap whose headers read as those of a good heap, and whose memory has its
\* type, is good.
LEMMA SameHeaders ==
  ASSUME NEW h, Good(h), NEW g \in HeapState, SameBounds(g, h), g.hdrs = h.hdrs,
         \A b \in h.hdrs : g.mem[b].size = h.mem[b].size /\ g.mem[b].status \in {0, 1}
  PROVE  Good(g) /\ \A b \in h.hdrs : BlockEnd(g, b) = BlockEnd(h, b)
<1>1. \A b \in h.hdrs : BlockEnd(g, b) = BlockEnd(h, b)
  BY DEF BlockEnd
<1>2. Chain(g)
  BY <1>1 DEF Good, Chain, SameBounds
<1>. QED
  BY <1>1, <1>2 DEF Good, SameBounds

LEMMA AccountGood ==
  ASSUME NEW h, Good(h), NEW n \in Int
  PROVE  /\ Good(Account(h, n)) /\ SameBounds(Account(h, n), h)
         /\ Account(h, n).mem = h.mem /\ Account(h, n).hdrs = h.hdrs
<1>. DEFINE g == Account(h, n)
<1>1. g \in HeapState /\ SameBounds(g, h) /\ g.mem = h.mem /\ g.hdrs = h.hdrs
  BY DEF Good, HeapState, Account, SameBounds
<1>2. \A b \in h.hdrs : g.mem[b].size = h.mem[b].size /\ g.mem[b].status \in {0, 1}
  BY <1>1, HeaderFacts
<1>. HIDE DEF g
<1>3. Good(g)
  BY <1>1, <1>2, SameHeaders
<1>. QED
  BY <1>1, <1>3 DEF g

LEMMA SetStatusGood ==
  ASSUME NEW h, Good(h), NEW b \in h.hdrs, NEW s \in {0, 1}
  PROVE  /\ Good(SetStatus(h, b, s)) /\ SameBounds(SetStatus(h, b, s), h)
         /\ SetStatus(h, b, s).hdrs = h.hdrs
         /\ SetStatus(h, b, s).mem[b] = Alloc(s, h.mem[b].size)
         /\ \A a \in Cells : a # b => SetStatus(h, b, s).mem[a] = h.mem[a]
<1>. DEFINE g == SetStatus(h, b, s)
<1>1. b \in Cells /\ h.mem[b].size \in Nat /\ h \in HeapState
  BY HeaderFacts DEF Good
<1>2. Alloc(s, h.mem[b].size) \in alloc_t
  BY <1>1 DEF Alloc, alloc_t
<1>3. /\ g \in HeapState /\ SameBounds(g, h) /\ g.hdrs = h.hdrs
      /\ g.mem[b] = Alloc(s, h.mem[b].size)
      /\ \A a \in Cells : a # b => g.mem[a] = h.mem[a]
  BY <1>1, <1>2 DEF HeapState, SetStatus, SameBounds
<1>4. \A c \in h.hdrs : g.mem[c].size = h.mem[c].size /\ g.mem[c].status \in {0, 1}
  BY <1>3, HeaderFacts DEF Alloc
<1>. HIDE DEF g
<1>5. Good(g)
  BY <1>3, <1>4, SameHeaders
<1>. QED
  BY <1>3, <1>5 DEF g

\* Clearing within a block's payload changes no header.
LEMMA ClearPayloadGood ==
  ASSUME NEW h, Good(h), NEW b \in h.hdrs, NEW n \in Nat, n <= h.mem[b].size
  PROVE  /\ Good(ClearPayload(h, b, n)) /\ SameBounds(ClearPayload(h, b, n), h)
         /\ ClearPayload(h, b, n).hdrs = h.hdrs
         /\ \A c \in h.hdrs : ClearPayload(h, b, n).mem[c] = h.mem[c]
         /\ \A a \in Cells : ClearPayload(h, b, n).mem[a] =
              IF b + 16 <= a /\ a < b + 16 + n THEN Alloc(0, 0) ELSE h.mem[a]
<1>. DEFINE g == ClearPayload(h, b, n)
<1>1. Alloc(0, 0) \in alloc_t /\ h \in HeapState
  BY DEF Alloc, alloc_t, Good
<1>2. /\ g \in HeapState /\ SameBounds(g, h) /\ g.hdrs = h.hdrs
      /\ \A a \in Cells : g.mem[a] =
              IF b + 16 <= a /\ a < b + 16 + n THEN Alloc(0, 0) ELSE h.mem[a]
  BY <1>1 DEF HeapState, ClearPayload, Clear, SameBounds, SIZEOF_ALLOC
<1>3. \A c \in h.hdrs : g.mem[c] = h.mem[c]
  <2>. SUFFICES ASSUME NEW c \in h.hdrs
                PROVE  g.mem[c] = h.mem[c]
    OBVIOUS
  <2>1. c \in Cells /\ c \in Nat /\ b \in Nat /\ h.mem[b].size \in Nat
    BY HeaderFacts
  <2>2. b < c => b + 16 + h.mem[b].size <= c
    BY HeaderFacts
  <2>3. ~ (b + 16 <= c /\ c < b + 16 + n)
    BY <2>1, <2>2
  <2>. QED
    BY <1>2, <2>1, <2>3
<1>4. \A c \in h.hdrs : g.mem[c].size = h.mem[c].size /\ g.mem[c].status \in {0, 1}
  BY <1>3, HeaderFacts
<1>. HIDE DEF g
<1>5. Good(g)
  BY <1>2, <1>4, SameHeaders
<1>. QED
  BY <1>2, <1>3, <1>5 DEF g

\* Splitting a block leaves a good heap: the rest is a free block of its own.
LEMMA ShrinkGood ==
  ASSUME NEW h, Good(h), NEW b \in h.hdrs,
         NEW n \in Nat, n > 0, n % ALLOC_ALIGN = 0, n <= h.mem[b].size
  PROVE  /\ Good(Shrink(h, b, n)) /\ SameBounds(Shrink(h, b, n), h)
         /\ b \in Shrink(h, b, n).hdrs
         /\ Shrink(h, b, n).mem[b].size >= n
         /\ Shrink(h, b, n).mem[b].status = h.mem[b].status
         /\ UsedBlocks(Shrink(h, b, n)) = UsedBlocks(h)
         /\ \A c \in h.hdrs : c # b => Shrink(h, b, n).mem[c] = h.mem[c]
<1>. DEFINE g    == Shrink(h, b, n)
            rest == b + SIZEOF_ALLOC + n
            size == h.mem[b].size
<1>1. CASE ~ Splits(h, b, n)
  <2>1. g = h
    BY <1>1 DEF Shrink
  <2>. QED
    BY <2>1, HeaderFacts DEF SameBounds
<1>2. CASE Splits(h, b, n)
  <2>1. /\ b \in Cells /\ b \in Nat /\ b % ALLOC_ALIGN = 0 /\ size \in Nat
        /\ size % ALLOC_ALIGN = 0 /\ h.mem[b].status \in {0, 1}
        /\ b + 16 + size <= h.last_alloc /\ h.last_alloc \in Nat
        /\ h.last_alloc <= MAPPED_LIMIT /\ h \in HeapState
        /\ b + 16 + size \in h.hdrs \cup {h.last_alloc}
    BY HeaderFacts DEF Good
  <2>2. /\ size - n - 16 \in Nat /\ size - n - 16 > 0 /\ rest = b + 16 + n
        /\ (size - n - 16) % ALLOC_ALIGN = 0
    <3>1. size - n > 16 /\ rest = b + 16 + n
      BY <1>2 DEF Splits, SIZEOF_ALLOC
    <3>. HIDE DEF size, rest
    <3>. QED
      BY <2>1, <3>1 DEF ALLOC_ALIGN
  <2>3. rest \in Cells /\ b < rest /\ rest \in Nat
    BY <2>1, <2>2, CellFacts, ModFacts DEF SIZEOF_ALLOC, ALLOC_ALIGN
  <2>4. rest \notin h.hdrs
    <3>. SUFFICES ASSUME rest \in h.hdrs
                  PROVE  FALSE
      OBVIOUS
    <3>1. b + 16 + size <= rest
      BY <2>3, HeaderFacts
    <3>. QED
      BY <3>1, <2>1, <2>2
  <2>5. Alloc(0, size - n - 16) \in alloc_t /\ Alloc(h.mem[b].status, n) \in alloc_t
    BY <2>1, <2>2 DEF Alloc, alloc_t
  <2>6. /\ g \in HeapState /\ SameBounds(g, h) /\ g.hdrs = h.hdrs \cup {rest}
        /\ g.mem[b] = Alloc(h.mem[b].status, n)
        /\ g.mem[rest] = Alloc(0, size - n - 16)
        /\ \A a \in Cells : a # b /\ a # rest => g.mem[a] = h.mem[a]
    <3>1. g = [h EXCEPT !.mem = [h.mem EXCEPT ![rest] = Alloc(0, size - n - 16),
                                              ![b] = Alloc(h.mem[b].status, n)],
                        !.hdrs = @ \cup {rest}]
      BY <1>2 DEF Shrink, SIZEOF_ALLOC
    <3>2. b # rest
      BY <2>1, <2>3
    <3>. HIDE DEF g, rest, size
    <3>. QED
      BY <2>1, <2>3, <2>5, <3>1, <3>2 DEF HeapState, SameBounds
  <2>. HIDE DEF g, rest, size
  <2>7. /\ BlockEnd(g, b) = rest /\ BlockEnd(g, rest) = b + 16 + size
        /\ \A c \in h.hdrs : c # b => g.mem[c] = h.mem[c] /\ BlockEnd(g, c) = BlockEnd(h, c)
    <3>1. BlockEnd(g, b) = rest /\ BlockEnd(g, rest) = b + 16 + size
      BY <2>1, <2>2, <2>6 DEF BlockEnd, Alloc, SIZEOF_ALLOC
    <3>2. \A c \in h.hdrs : c # b => g.mem[c] = h.mem[c] /\ BlockEnd(g, c) = BlockEnd(h, c)
      BY <2>4, <2>6, HeaderFacts DEF BlockEnd
    <3>. QED
      BY <3>1, <3>2
  <2>8. ASSUME NEW c \in g.hdrs
        PROVE  /\ g.heap_beginning <= c
               /\ g.mem[c].status \in {0, 1}
               /\ g.mem[c].size > 0 /\ g.mem[c].size % ALLOC_ALIGN = 0
               /\ BlockEnd(g, c) \in g.hdrs \cup {g.last_alloc}
               /\ BlockEnd(g, c) <= g.last_alloc
    <3>1. CASE c = b
      BY <3>1, <2>1, <2>2, <2>6, <2>7, HeaderFacts DEF SameBounds, Alloc
    <3>2. CASE c = rest
      BY <3>2, <2>1, <2>2, <2>3, <2>6, <2>7, HeaderFacts DEF SameBounds, Alloc, HeapState
    <3>3. CASE c \in h.hdrs /\ c # b
      BY <3>3, <2>6, <2>7, HeaderFacts DEF SameBounds
    <3>. QED
      BY <3>1, <3>2, <3>3, <2>6
  <2>9. ASSUME NEW c \in g.hdrs, NEW d \in g.hdrs, c < d
        PROVE  BlockEnd(g, c) <= d
    <3>0. \A x, y \in h.hdrs : x < y => x + 16 + h.mem[x].size <= y
      BY HeaderFacts
    <3>00. \A x \in h.hdrs : x \in Nat /\ h.mem[x].size \in Nat /\ BlockEnd(h, x) = x + 16 + h.mem[x].size
      BY HeaderFacts
    <3>1. CASE c = b
      <4>1. CASE d = rest
        BY <2>9, <3>1, <4>1, <2>3, <2>7
      <4>2. CASE d \in h.hdrs
        BY <2>9, <3>0, <3>00, <3>1, <4>2, <2>1, <2>2, <2>7 DEF size
      <4>. QED
        BY <4>1, <4>2, <2>6
    <3>2. CASE c = rest
      <4>1. CASE d = rest
        BY <2>9, <3>2, <4>1, <2>3
      <4>2. CASE d \in h.hdrs
        BY <2>9, <3>0, <3>00, <3>2, <4>2, <2>1, <2>3, <2>7 DEF size
      <4>. QED
        BY <4>1, <4>2, <2>6
    <3>3. CASE c \in h.hdrs /\ c # b
      <4>1. CASE d = rest
        <5>1. c < b
          BY <2>9, <3>0, <3>00, <3>3, <4>1, <2>1, <2>2 DEF size
        <5>. QED
          BY <2>9, <5>1, <3>0, <3>00, <3>3, <4>1, <2>1, <2>3, <2>7
      <4>2. CASE d \in h.hdrs
        BY <2>9, <3>0, <3>00, <3>3, <4>2, <2>7
      <4>. QED
        BY <4>1, <4>2, <2>6
    <3>. QED
      BY <3>1, <3>2, <3>3, <2>6
  <2>10. Chain(g)
    <3>1. g.last_alloc = g.heap_beginning \/ g.heap_beginning \in g.hdrs
      BY <2>6 DEF Good, Chain, SameBounds
    <3>2. g.last_alloc = g.heap_beginning \/ g.last_alloc < g.heap_end
      BY <2>6 DEF Good, Chain, SameBounds
    <3>. QED
      BY <3>1, <3>2, <2>8, <2>9 DEF Chain
  <2>11. Good(g)
    <3>1. g.heap_end <= MAPPED_LIMIT /\ g.last_alloc % ALLOC_ALIGN = 0
      BY <2>6 DEF Good, SameBounds
    <3>2. /\ HEAP_MIN <= g.heap_beginning /\ g.heap_beginning <= g.last_alloc
          /\ g.heap_beginning % ALLOC_ALIGN = 0
          /\ g.last_alloc <= MAPPED_LIMIT
      BY <2>6 DEF Good, SameBounds
    <3>. QED
      BY <2>6, <2>8, <2>10, <3>1, <3>2 DEF Good
  <2>12. UsedBlocks(g) = UsedBlocks(h)
    BY <2>1, <2>6, <2>7, <2>4 DEF UsedBlocks, Alloc
  <2>. QED
    BY <2>1, <2>6, <2>7, <2>11, <2>12 DEF Alloc, g
<1>. QED
  BY <1>1, <1>2

\* The next block, absorbed while it is free, leaves a good heap.
LEMMA AbsorbGood ==
  ASSUME NEW h, Good(h), NEW b \in h.hdrs, NEW c \in h.hdrs,
         c = BlockEnd(h, b), h.mem[c].status = 0
  PROVE  /\ Good(Absorb(h, b, c)) /\ SameBounds(Absorb(h, b, c), h)
         /\ Absorb(h, b, c).hdrs = h.hdrs \ {c} /\ b \in Absorb(h, b, c).hdrs
         /\ Absorb(h, b, c).mem[b] = Alloc(h.mem[b].status, h.mem[b].size + 16 + h.mem[c].size)
         /\ BlockEnd(Absorb(h, b, c), b) = BlockEnd(h, c)
         /\ \A a \in Cells : a # b => Absorb(h, b, c).mem[a] = h.mem[a]
         /\ UsedBlocks(Absorb(h, b, c)) = UsedBlocks(h)
<1>. DEFINE g    == Absorb(h, b, c)
            size == h.mem[b].size + 16 + h.mem[c].size
<1>1. /\ b \in Cells /\ b \in Nat /\ h.mem[b].size \in Nat /\ h.mem[b].size > 0
      /\ h.mem[b].size % ALLOC_ALIGN = 0 /\ h.mem[b].status \in {0, 1}
      /\ c = b + 16 + h.mem[b].size
  BY HeaderFacts
<1>2. /\ c \in Cells /\ c \in Nat /\ h.mem[c].size \in Nat /\ h.mem[c].size > 0
      /\ h.mem[c].size % ALLOC_ALIGN = 0
      /\ BlockEnd(h, c) = c + 16 + h.mem[c].size
  BY HeaderFacts
<1>3. size \in Nat /\ size > 0 /\ size % ALLOC_ALIGN = 0
  <2>1. size % ALLOC_ALIGN = 0
    BY <1>1, <1>2, MergedSize
  <2>. QED
    BY <1>1, <1>2, <2>1
<1>4. Alloc(h.mem[b].status, size) \in alloc_t /\ b # c /\ h \in HeapState
  <2>1. b # c
    BY <1>1, <1>2
  <2>2. h \in HeapState
    BY DEF Good
  <2>3. Alloc(h.mem[b].status, size) \in alloc_t
    <3>. HIDE DEF size
    <3>1. h.mem[b].status \in 0 .. 255
      BY <1>1
    <3>. QED
      BY <1>3, <3>1 DEF Alloc, alloc_t
  <2>. QED
    BY <2>1, <2>2, <2>3
<1>5. /\ g \in HeapState /\ SameBounds(g, h) /\ g.hdrs = h.hdrs \ {c}
      /\ g.mem[b] = Alloc(h.mem[b].status, size)
      /\ \A a \in Cells : a # b => g.mem[a] = h.mem[a]
  <2>1. g = [h EXCEPT !.mem = [h.mem EXCEPT ![b] = Alloc(h.mem[b].status, size)],
                      !.hdrs = @ \ {c}]
    BY DEF Absorb, SIZEOF_ALLOC
  <2>. HIDE DEF g, size
  <2>. QED
    BY <1>1, <1>4, <2>1 DEF HeapState, SameBounds
<1>. HIDE DEF g
<1>6. BlockEnd(g, b) = BlockEnd(h, c)
  <2>1. g.mem[b].size = size
    BY <1>5 DEF Alloc
  <2>. QED
    BY <1>1, <1>2, <2>1 DEF BlockEnd, SIZEOF_ALLOC
<1>. HIDE DEF size
<1>7. \A d \in h.hdrs : d # b => g.mem[d] = h.mem[d] /\ BlockEnd(g, d) = BlockEnd(h, d)
  BY <1>5, HeaderFacts DEF BlockEnd
<1>8. \A x, y \in h.hdrs : x < y => x + 16 + h.mem[x].size <= y
  BY HeaderFacts
<1>9. \A x \in h.hdrs : /\ x \in Nat /\ h.mem[x].size \in Nat /\ h.mem[x].size > 0
                        /\ BlockEnd(h, x) = x + 16 + h.mem[x].size
  BY HeaderFacts
<1>10. ASSUME NEW d \in g.hdrs
       PROVE  /\ g.heap_beginning <= d
              /\ g.mem[d].status \in {0, 1}
              /\ g.mem[d].size > 0 /\ g.mem[d].size % ALLOC_ALIGN = 0
              /\ BlockEnd(g, d) \in g.hdrs \cup {g.last_alloc}
              /\ BlockEnd(g, d) <= g.last_alloc
  <2>1. CASE d = b
    <3>1. BlockEnd(h, c) \in h.hdrs \cup {h.last_alloc} /\ BlockEnd(h, c) <= h.last_alloc
      BY HeaderFacts
    <3>2. BlockEnd(h, c) # c
      BY <1>2
    <3>. QED
      BY <2>1, <3>1, <3>2, <1>1, <1>3, <1>5, <1>6, HeaderFacts DEF SameBounds, Alloc
  <2>2. CASE d # b
    <3>1. /\ d \in h.hdrs /\ d # c /\ BlockEnd(h, d) \in h.hdrs \cup {h.last_alloc}
          /\ BlockEnd(h, d) <= h.last_alloc
      BY <1>5, HeaderFacts
    <3>2. BlockEnd(h, d) # c
      <4>1. CASE d < b
        BY <4>1, <3>1, <1>1, <1>8, <1>9
      <4>2. CASE b < d
        BY <4>2, <3>1, <1>1, <1>8, <1>9
      <4>. QED
        BY <4>1, <4>2, <2>2, <3>1, <1>1, <1>9
    <3>. QED
      BY <2>2, <3>1, <3>2, <1>5, <1>7, HeaderFacts DEF SameBounds
  <2>. QED
    BY <2>1, <2>2
<1>11. ASSUME NEW x \in g.hdrs, NEW y \in g.hdrs, x < y
       PROVE  BlockEnd(g, x) <= y
  <2>1. x \in h.hdrs /\ y \in h.hdrs /\ x # c /\ y # c
    BY <1>5
  <2>2. CASE x = b
    <3>1. c < y
      BY <1>11, <2>1, <2>2, <1>1, <1>8, <1>9
    <3>. QED
      BY <2>1, <2>2, <3>1, <1>2, <1>6, <1>8
  <2>3. CASE x # b
    BY <1>11, <2>1, <2>3, <1>7, <1>8, <1>9
  <2>. QED
    BY <2>2, <2>3
<1>12. Chain(g)
  <2>1. g.last_alloc = g.heap_beginning \/ g.heap_beginning \in g.hdrs
    <3>1. h.heap_beginning <= b
      BY HeaderFacts
    <3>2. h.heap_beginning # c
      BY <3>1, <1>1 DEF Good, HeapState
    <3>. QED
      BY <3>2, <1>5 DEF Good, Chain, SameBounds
  <2>2. g.last_alloc = g.heap_beginning \/ g.last_alloc < g.heap_end
    BY <1>5 DEF Good, Chain, SameBounds
  <2>. QED
    BY <2>1, <2>2, <1>10, <1>11 DEF Chain
<1>13. Good(g)
  BY <1>5, <1>10, <1>12 DEF Good, SameBounds
<1>14. UsedBlocks(g) = UsedBlocks(h)
  BY <1>5, <1>7 DEF UsedBlocks, Alloc
<1>. QED
  BY <1>4, <1>5, <1>6, <1>13, <1>14 DEF g, size

-----------------------------------------------------------------------------
(* malloc and calloc *)

\* What allocating n bytes does: either nothing, or it hands out one block that
\* was not in use and leaves the blocks in use alone.
Allocated(h, n, r) ==
  \/ r.ptr = NULL /\ r.heap = h
  \/ /\ Good(r.heap)
     /\ r.heap.heap_beginning = h.heap_beginning /\ r.heap.heap_end = h.heap_end
     /\ r.ptr \in Cells /\ Header(r.ptr) \in Cells
     /\ Header(r.ptr) \notin UsedBlocks(h)
     /\ UsedBlocks(r.heap) = UsedBlocks(h) \cup {Header(r.ptr)}
     /\ r.heap.mem[Header(r.ptr)].size >= n
     /\ \A c \in UsedBlocks(h) : r.heap.mem[c] = h.mem[c]

\* An allocation of more bytes serves a request for fewer.
LEMMA AllocatedMore ==
  ASSUME NEW h, NEW k \in Nat, NEW n \in Nat, k >= n, NEW r, Allocated(h, k, r)
  PROVE  Allocated(h, n, r)
<1>1. CASE r.ptr = NULL /\ r.heap = h
  BY <1>1 DEF Allocated
<1>2. CASE ~ (r.ptr = NULL /\ r.heap = h)
  <2>. DEFINE g == r.heap
              b == Header(r.ptr)
  <2>1. /\ Good(g) /\ g.heap_beginning = h.heap_beginning /\ g.heap_end = h.heap_end
        /\ r.ptr \in Cells /\ b \in Cells /\ b \notin UsedBlocks(h)
        /\ UsedBlocks(g) = UsedBlocks(h) \cup {b} /\ g.mem[b].size >= k
        /\ \A c \in UsedBlocks(h) : g.mem[c] = h.mem[c]
    BY <1>2, Zenon DEF Allocated
  <2>2. g.mem[b].size >= n
    <3>. HIDE DEF g, b
    <3>1. b \in g.hdrs
      BY <2>1 DEF UsedBlocks
    <3>2. g.mem[b].size \in Nat
      BY <2>1, <3>1, HeaderFacts
    <3>. QED
      BY <2>1, <3>2
  <2>. QED
    BY <2>1, <2>2, Zenon DEF Allocated
<1>. QED
  BY <1>1, <1>2

LEMMA FirstFitExists ==
  ASSUME NEW h, Good(h), NEW n, Fits(h, n) # {}
  PROVE  FirstFit(h, n) \in Fits(h, n)
<1>1. Fits(h, n) \in SUBSET Nat
  BY HeaderFacts DEF Fits
<1>2. \E b \in Fits(h, n) : \A c \in Fits(h, n) : b <= c
  BY <1>1, MinExists
<1>. QED
  BY <1>2 DEF FirstFit

\* The pointer to a block's payload is a cell, and Header leads back to the block.
LEMMA PayloadCell ==
  ASSUME NEW h, Good(h), NEW b \in h.hdrs
  PROVE  b + SIZEOF_ALLOC \in Cells /\ Header(b + SIZEOF_ALLOC) = b
<1>1. /\ b \in Nat /\ b >= HEAP_MIN /\ b % ALLOC_ALIGN = 0 /\ h.mem[b].size \in Nat
      /\ b + 16 + h.mem[b].size <= MAPPED_LIMIT
  BY HeaderFacts, CellFacts
<1>. QED
  BY <1>1, CellFacts DEF Header, SIZEOF_ALLOC, ALLOC_ALIGN

LEMMA ReuseAllocates ==
  ASSUME NEW h, Good(h), NEW n \in Nat, n > 0, n % ALLOC_ALIGN = 0,
         NEW b \in Fits(h, n), NEW wholeBlock \in BOOLEAN
  PROVE  Allocated(h, n, [heap |-> Reuse(h, b, n, wholeBlock), ptr |-> b + SIZEOF_ALLOC])
<1>. DEFINE g1   == Shrink(h, b, n)
            g2   == SetStatus(g1, b, 1)
            size == g2.mem[b].size
            z    == IF wholeBlock THEN size ELSE n
            g3   == ClearPayload(g2, b, z)
            g4   == Account(g3, size + SIZEOF_ALLOC)
<1>1. b \in h.hdrs /\ h.mem[b].status # 1 /\ n <= h.mem[b].size
  BY HeaderFacts DEF Fits
<1>2. /\ Good(g1) /\ SameBounds(g1, h) /\ b \in g1.hdrs /\ g1.mem[b].size >= n
      /\ UsedBlocks(g1) = UsedBlocks(h)
      /\ \A c \in h.hdrs : c # b => g1.mem[c] = h.mem[c]
  BY <1>1, ShrinkGood
<1>. HIDE DEF g1
<1>3. /\ Good(g2) /\ SameBounds(g2, g1) /\ g2.hdrs = g1.hdrs
      /\ g2.mem[b] = Alloc(1, g1.mem[b].size)
      /\ \A a \in Cells : a # b => g2.mem[a] = g1.mem[a]
  BY <1>2, SetStatusGood
<1>. HIDE DEF g2
<1>4. size \in Nat /\ size >= n /\ z \in Nat /\ z <= g2.mem[b].size
  BY <1>2, <1>3, HeaderFacts DEF Alloc
<1>. HIDE DEF z
<1>5. /\ Good(g3) /\ SameBounds(g3, g2) /\ g3.hdrs = g2.hdrs
      /\ \A c \in g2.hdrs : g3.mem[c] = g2.mem[c]
  BY <1>2, <1>3, <1>4, ClearPayloadGood
<1>. HIDE DEF g3, size
<1>6. /\ Good(g4) /\ SameBounds(g4, g3) /\ g4.mem = g3.mem /\ g4.hdrs = g3.hdrs
  <2>1. size + SIZEOF_ALLOC \in Int
    BY <1>4 DEF SIZEOF_ALLOC
  <2>. QED
    BY <1>5, <2>1, AccountGood
<1>7. g4 = Reuse(h, b, n, wholeBlock)
  BY DEF g1, g2, g3, size, z, Reuse
<1>. HIDE DEF g4
<1>8. \A c \in g1.hdrs : c # b => g4.mem[c] = g1.mem[c]
  BY <1>2, <1>3, <1>5, <1>6, HeaderFacts
<1>9. g4.hdrs = g1.hdrs /\ g4.mem[b] = Alloc(1, g1.mem[b].size)
  BY <1>2, <1>3, <1>5, <1>6
<1>10. UsedBlocks(g4) = UsedBlocks(h) \cup {b}
  <2>1. UsedBlocks(g4) = UsedBlocks(g1) \cup {b}
    BY <1>2, <1>8, <1>9 DEF UsedBlocks, Alloc
  <2>. QED
    BY <2>1, <1>2
<1>11. \A c \in UsedBlocks(h) : g4.mem[c] = h.mem[c]
  <2>. SUFFICES ASSUME NEW c \in UsedBlocks(h)
                PROVE  g4.mem[c] = h.mem[c]
    OBVIOUS
  <2>1. c \in h.hdrs /\ c # b /\ c \in g1.hdrs
    BY <1>1, <1>2 DEF UsedBlocks
  <2>. QED
    BY <2>1, <1>2, <1>8
<1>12. b + SIZEOF_ALLOC \in Cells /\ Header(b + SIZEOF_ALLOC) = b /\ b \in Cells
  BY <1>1, PayloadCell, HeaderFacts
<1>13. b \notin UsedBlocks(h) /\ g4.mem[b].size >= n
  BY <1>1, <1>2, <1>9 DEF UsedBlocks, Alloc
<1>14. g4.heap_beginning = h.heap_beginning /\ g4.heap_end = h.heap_end
  BY <1>2, <1>3, <1>5, <1>6 DEF SameBounds
<1>. QED
  BY <1>6, <1>7, <1>10, <1>11, <1>12, <1>13, <1>14 DEF Allocated

LEMMA ExtendAllocates ==
  ASSUME NEW h, Good(h), h.heap_beginning # 0, NEW n \in Nat, n > 0, n % ALLOC_ALIGN = 0,
         HasRoom(h, n)
  PROVE  Allocated(h, n, [heap |-> Extend(h, n), ptr |-> h.last_alloc + SIZEOF_ALLOC])
<1>. DEFINE b  == h.last_alloc
            e  == [h EXCEPT !.mem[b] = Alloc(1, n), !.hdrs = @ \cup {b},
                            !.last_alloc = @ + n + SIZEOF_ALLOC]
            g1 == ClearPayload(e, b, n)
            g2 == Account(g1, n + SIZEOF_ALLOC)
<1>1. /\ b \in Nat /\ b % ALLOC_ALIGN = 0 /\ h.heap_end \in Nat
      /\ b + n + 16 < h.heap_end /\ h.heap_end <= MAPPED_LIMIT
      /\ h.heap_beginning \in Nat /\ HEAP_MIN <= h.heap_beginning /\ h.heap_beginning <= b
      /\ h.heap_beginning % ALLOC_ALIGN = 0
      /\ h \in HeapState /\ MAPPED_LIMIT \in Nat
  BY CellFacts DEF Good, HeapState, HasRoom, SIZEOF_ALLOC
<1>2. b \in Cells /\ Alloc(1, n) \in alloc_t
  BY <1>1, CellFacts DEF Alloc, alloc_t
<1>3. \A c \in h.hdrs : /\ c \in Cells /\ c \in Nat /\ c < b /\ h.mem[c].size \in Nat
                        /\ BlockEnd(h, c) <= b
  BY HeaderFacts
<1>4. /\ e \in HeapState /\ e.hdrs = h.hdrs \cup {b} /\ e.last_alloc = b + n + 16
      /\ e.heap_beginning = h.heap_beginning /\ e.heap_end = h.heap_end
      /\ e.mem[b] = Alloc(1, n)
      /\ \A a \in Cells : a # b => e.mem[a] = h.mem[a]
  <2>1. e = [h EXCEPT !.mem = [h.mem EXCEPT ![b] = Alloc(1, n)], !.hdrs = h.hdrs \cup {b},
                      !.last_alloc = b + n + 16]
    BY DEF SIZEOF_ALLOC
  <2>2. b + n + 16 \in Nat
    BY <1>1
  <2>. HIDE DEF e, b
  <2>. QED
    BY <1>1, <1>2, <2>1, <2>2 DEF HeapState
<1>. HIDE DEF e, b
<1>5. /\ BlockEnd(e, b) = e.last_alloc
      /\ \A c \in h.hdrs : e.mem[c] = h.mem[c] /\ BlockEnd(e, c) = BlockEnd(h, c)
  <2>1. BlockEnd(e, b) = e.last_alloc
    BY <1>1, <1>4 DEF BlockEnd, Alloc, SIZEOF_ALLOC
  <2>2. \A c \in h.hdrs : e.mem[c] = h.mem[c] /\ BlockEnd(e, c) = BlockEnd(h, c)
    BY <1>3, <1>4, <1>1 DEF BlockEnd
  <2>. QED
    BY <2>1, <2>2
<1>6. Good(e)
  <2>1. ASSUME NEW c \in e.hdrs
        PROVE  /\ e.heap_beginning <= c
               /\ e.mem[c].status \in {0, 1}
               /\ e.mem[c].size > 0 /\ e.mem[c].size % ALLOC_ALIGN = 0
               /\ BlockEnd(e, c) \in e.hdrs \cup {e.last_alloc}
               /\ BlockEnd(e, c) <= e.last_alloc
    <3>1. CASE c = b
      BY <3>1, <1>1, <1>4, <1>5 DEF Alloc
    <3>2. CASE c \in h.hdrs
      <4>1. BlockEnd(h, c) \in h.hdrs \cup {b} /\ BlockEnd(h, c) \in Nat
        BY <3>2, <1>3, HeaderFacts DEF b
      <4>. QED
        BY <3>2, <4>1, <1>1, <1>3, <1>4, <1>5, HeaderFacts
    <3>. QED
      BY <3>1, <3>2, <1>4
  <2>2. ASSUME NEW c \in e.hdrs, NEW d \in e.hdrs, c < d
        PROVE  BlockEnd(e, c) <= d
    <3>1. c \in h.hdrs
      BY <2>2, <1>1, <1>3, <1>4
    <3>2. CASE d = b
      BY <3>1, <3>2, <1>3, <1>5
    <3>3. CASE d \in h.hdrs
      BY <2>2, <3>1, <3>3, <1>5, HeaderFacts
    <3>. QED
      BY <3>2, <3>3, <1>4
  <2>3. e.heap_beginning \in e.hdrs
    BY <1>4 DEF Good, Chain, b
  <2>4. Chain(e)
    BY <1>1, <1>4, <2>1, <2>2, <2>3 DEF Chain
  <2>5. e.last_alloc % ALLOC_ALIGN = 0 /\ e.last_alloc \in Nat
    BY <1>1, <1>4 DEF ALLOC_ALIGN
  <2>. QED
    BY <1>1, <1>4, <2>1, <2>4, <2>5 DEF Good
<1>7. /\ Good(g1) /\ SameBounds(g1, e) /\ g1.hdrs = e.hdrs
      /\ \A c \in e.hdrs : g1.mem[c] = e.mem[c]
  <2>1. b \in e.hdrs /\ n <= e.mem[b].size
    BY <1>4 DEF Alloc
  <2>. QED
    BY <1>6, <2>1, ClearPayloadGood
<1>. HIDE DEF g1
<1>8. Good(g2) /\ SameBounds(g2, g1) /\ g2.mem = g1.mem /\ g2.hdrs = g1.hdrs
  <2>1. n + SIZEOF_ALLOC \in Int
    BY DEF SIZEOF_ALLOC
  <2>. QED
    BY <1>7, <2>1, AccountGood
<1>9. g2 = Extend(h, n)
  BY DEF g1, g2, e, b, Extend
<1>. HIDE DEF g2
<1>10. b \notin h.hdrs
  BY <1>1, <1>3
<1>11. UsedBlocks(g2) = UsedBlocks(h) \cup {b}
  BY <1>4, <1>5, <1>7, <1>8 DEF UsedBlocks, Alloc
<1>12. b + SIZEOF_ALLOC \in Cells /\ Header(b + SIZEOF_ALLOC) = b
  <2>1. b \in g2.hdrs
    BY <1>4, <1>7, <1>8
  <2>. QED
    BY <2>1, <1>8, PayloadCell
<1>13. b \notin UsedBlocks(h) /\ g2.mem[b].size >= n
  BY <1>10, <1>4, <1>7, <1>8 DEF UsedBlocks, Alloc
<1>14. \A c \in UsedBlocks(h) : g2.mem[c] = h.mem[c]
  BY <1>4, <1>5, <1>7, <1>8 DEF UsedBlocks
<1>15. g2.heap_beginning = h.heap_beginning /\ g2.heap_end = h.heap_end
  BY <1>4, <1>7, <1>8 DEF SameBounds
<1>. QED
  BY <1>2, <1>8, <1>9, <1>11, <1>12, <1>13, <1>14, <1>15 DEF Allocated, b

LEMMA AllocBlockAllocates ==
  ASSUME NEW h, Good(h), h.heap_beginning # 0, NEW n \in Nat, n > 0, n % ALLOC_ALIGN = 0,
         NEW wholeBlock \in BOOLEAN
  PROVE  Allocated(h, n, AllocBlock(h, n, wholeBlock))
<1>1. CASE Fits(h, n) # {}
  BY <1>1, FirstFitExists, ReuseAllocates DEF AllocBlock
<1>2. CASE Fits(h, n) = {} /\ HasRoom(h, n)
  BY <1>2, ExtendAllocates DEF AllocBlock
<1>3. CASE Fits(h, n) = {} /\ ~ HasRoom(h, n)
  BY <1>3 DEF AllocBlock, Fail, Allocated
<1>. QED
  BY <1>1, <1>2, <1>3

\* What both functions promise for a request of n bytes, n > 0.
LEMMA MallocAllocates ==
  ASSUME NEW h, Good(h), NEW n \in Nat
  PROVE  /\ Allocated(h, n, mallocOp(h, n))
         /\ n = 0 => mallocOp(h, n) = Fail(h)
<1>1. CASE n = 0 \/ h.heap_beginning = 0 \/ TooBig(n)
  BY <1>1 DEF mallocOp, Fail, Allocated
<1>2. CASE ~ (n = 0 \/ h.heap_beginning = 0 \/ TooBig(n))
  <2>1. /\ ALIGN_UP(n) \in Nat /\ ALIGN_UP(n) > 0 /\ ALIGN_UP(n) % ALLOC_ALIGN = 0
        /\ ALIGN_UP(n) >= n
    BY <1>2, AlignUp
  <2>2. Allocated(h, ALIGN_UP(n), mallocOp(h, n))
    BY <1>2, <2>1, AllocBlockAllocates DEF mallocOp
  <2>. QED
    BY <1>2, <2>1, <2>2, AllocatedMore
<1>. QED
  BY <1>1, <1>2

LEMMA CallocAllocates ==
  ASSUME NEW h, Good(h), NEW amount \in Nat, NEW n \in Nat
  PROVE  /\ Allocated(h, amount * n, callocOp(h, amount, n))
         /\ amount = 0 \/ n = 0 => callocOp(h, amount, n) = Fail(h)
<1>. DEFINE m      == amount * n
            refuse == \/ n = 0 \/ amount = 0
                      \/ n > SIZE_MAX \div amount \/ TooBig(amount * n)
                      \/ h.heap_beginning = 0
<1>1. CASE refuse
  BY <1>1 DEF callocOp, Fail, Allocated
<1>2. CASE ~ refuse
  <2>1. m \in Nat /\ m > 0
    BY <1>2
  <2>2. callocOp(h, amount, n) = AllocBlock(h, ALIGN_UP(m), FALSE) /\ h.heap_beginning # 0
    BY <1>2 DEF callocOp
  <2>. HIDE DEF m
  <2>3. /\ ALIGN_UP(m) \in Nat /\ ALIGN_UP(m) > 0 /\ ALIGN_UP(m) % ALLOC_ALIGN = 0
        /\ ALIGN_UP(m) >= m
    BY <2>1, AlignUp
  <2>4. Allocated(h, ALIGN_UP(m), callocOp(h, amount, n))
    BY <2>2, <2>3, AllocBlockAllocates
  <2>5. Allocated(h, m, callocOp(h, amount, n))
    BY <2>1, <2>3, <2>4, AllocatedMore
  <2>. QED
    BY <1>2, <2>5 DEF m
<1>. QED
  BY <1>1, <1>2

-----------------------------------------------------------------------------
(* free *)

\* What freeing block b does: it takes b, and only b, out of use.
Released(h, b, g) ==
  /\ Good(g) /\ SameBounds(g, h)
  /\ UsedBlocks(g) = UsedBlocks(h) \ {b}
  /\ \A c \in UsedBlocks(h) \ {b} : g.mem[c] = h.mem[c]
  /\ FreeAt(g, b)

\* find_before returns the block that ends where b starts.
LEMMA FindBefore ==
  ASSUME NEW h, Good(h), NEW b \in h.hdrs, Before(h, b) # {}
  PROVE  /\ find_before(h, b) \in h.hdrs /\ find_before(h, b) < b
         /\ BlockEnd(h, find_before(h, b)) = b
<1>. DEFINE c == find_before(h, b)
<1>0. \A x \in h.hdrs : /\ x \in Nat /\ h.mem[x].size \in Nat
                        /\ x + 16 + h.mem[x].size <= h.last_alloc
  BY HeaderFacts
<1>1. Before(h, b) \in SUBSET Nat /\ b \in Nat /\ \A x \in Before(h, b) : x <= b
  BY <1>0 DEF Before
<1>2. \E x \in Before(h, b) : \A y \in Before(h, b) : y <= x
  BY <1>1, MaxExists
<1>3. c \in Before(h, b) /\ \A y \in Before(h, b) : y <= c
  BY <1>2 DEF find_before
<1>. HIDE DEF c
<1>4. c \in h.hdrs /\ c < b /\ c \in Nat
  BY <1>3, HeaderFacts DEF Before
<1>5. /\ BlockEnd(h, c) \in h.hdrs \cup {h.last_alloc} /\ BlockEnd(h, c) <= b
      /\ BlockEnd(h, c) = c + 16 + h.mem[c].size /\ h.mem[c].size \in Nat
  BY <1>4, HeaderFacts
<1>6. b < h.last_alloc /\ h.last_alloc \in Nat
  BY <1>0, HeaderFacts
<1>7. BlockEnd(h, c) \in h.hdrs
  BY <1>1, <1>4, <1>5, <1>6
<1>8. ~ (BlockEnd(h, c) < b)
  <2>. SUFFICES ASSUME BlockEnd(h, c) < b
                PROVE  FALSE
    OBVIOUS
  <2>1. BlockEnd(h, c) <= c
    BY <1>3, <1>7 DEF Before
  <2>. QED
    BY <2>1, <1>4, <1>5
<1>. QED
  BY <1>1, <1>4, <1>5, <1>8 DEF c

LEMMA MergeNextGood ==
  ASSUME NEW h, Good(h), NEW b \in h.hdrs
  PROVE  /\ Good(MergeNext(h, b)) /\ SameBounds(MergeNext(h, b), h)
         /\ b \in MergeNext(h, b).hdrs
         /\ MergeNext(h, b).mem[b].status = h.mem[b].status
         /\ UsedBlocks(MergeNext(h, b)) = UsedBlocks(h)
         /\ \A a \in Cells : a # b => MergeNext(h, b).mem[a] = h.mem[a]
<1>1. CASE ~ MergesNext(h, b)
  BY <1>1 DEF MergeNext, SameBounds
<1>2. CASE MergesNext(h, b)
  <2>1. BlockEnd(h, b) \in h.hdrs /\ h.mem[BlockEnd(h, b)].status = 0
    BY <1>2, HeaderFacts DEF MergesNext
  <2>. DEFINE c == BlockEnd(h, b)
  <2>2. MergeNext(h, b) = Absorb(h, b, c)
    BY <1>2 DEF MergeNext
  <2>3. c \in h.hdrs /\ c = BlockEnd(h, b) /\ h.mem[c].status = 0
    BY <2>1
  <2>. HIDE DEF c
  <2>. DEFINE g == Absorb(h, b, c)
  <2>4. /\ Good(g) /\ SameBounds(g, h) /\ b \in g.hdrs
        /\ g.mem[b] = Alloc(h.mem[b].status, h.mem[b].size + 16 + h.mem[c].size)
        /\ \A a \in Cells : a # b => g.mem[a] = h.mem[a]
        /\ UsedBlocks(g) = UsedBlocks(h)
    BY <2>3, AbsorbGood
  <2>. HIDE DEF g
  <2>5. g.mem[b].status = h.mem[b].status
    BY <2>4 DEF Alloc
  <2>6. MergeNext(h, b) = g
    BY <2>2 DEF g
  <2>. QED
    BY <2>4, <2>5, <2>6
<1>. QED
  BY <1>1, <1>2

LEMMA MergeBackGood ==
  ASSUME NEW h, Good(h), NEW b \in h.hdrs, h.mem[b].status = 0
  PROVE  /\ Good(MergeBack(h, b)) /\ SameBounds(MergeBack(h, b), h)
         /\ Kept(h, b) \in MergeBack(h, b).hdrs
         /\ MergeBack(h, b).mem[Kept(h, b)].status = 0
         /\ UsedBlocks(MergeBack(h, b)) = UsedBlocks(h)
         /\ \A c \in UsedBlocks(h) : MergeBack(h, b).mem[c] = h.mem[c]
         /\ Kept(h, b) = b \/ Kept(h, b) + 16 <= b
         /\ b < BlockEnd(MergeBack(h, b), Kept(h, b))
<1>1. CASE ~ MergesBack(h, b)
  <2>1. b < BlockEnd(h, b)
    BY HeaderFacts
  <2>. QED
    BY <1>1, <2>1 DEF MergeBack, Kept, SameBounds
<1>2. CASE MergesBack(h, b)
  <2>. DEFINE c == find_before(h, b)
              g == Absorb(h, c, b)
  <2>1. /\ c \in h.hdrs /\ c < b /\ BlockEnd(h, c) = b /\ h.mem[c].status = 0
        /\ MergeBack(h, b) = g /\ Kept(h, b) = c
    BY <1>2, FindBefore DEF MergesBack, MergeBack, Kept
  <2>. HIDE DEF c
  <2>2. /\ Good(g) /\ SameBounds(g, h) /\ c \in g.hdrs
        /\ g.mem[c] = Alloc(h.mem[c].status, h.mem[c].size + 16 + h.mem[b].size)
        /\ BlockEnd(g, c) = BlockEnd(h, b)
        /\ \A a \in Cells : a # c => g.mem[a] = h.mem[a]
        /\ UsedBlocks(g) = UsedBlocks(h)
    BY <2>1, AbsorbGood
  <2>. HIDE DEF g
  <2>3. b < BlockEnd(h, b) /\ c + 16 <= b
    <3>1. BlockEnd(h, c) = c + 16 + h.mem[c].size /\ c \in Nat /\ h.mem[c].size \in Nat
      BY <2>1, HeaderFacts
    <3>. QED
      BY <2>1, <3>1, HeaderFacts
  <2>4. \A d \in UsedBlocks(h) : g.mem[d] = h.mem[d]
    <3>1. \A d \in UsedBlocks(h) : d \in Cells /\ d # c
      BY <2>1, HeaderFacts DEF UsedBlocks
    <3>. QED
      BY <2>2, <3>1
  <2>. QED
    BY <2>1, <2>2, <2>3, <2>4 DEF Alloc
<1>. QED
  BY <1>1, <1>2

LEMMA ReleaseReleases ==
  ASSUME NEW h, Good(h), NEW b \in h.hdrs
  PROVE  Released(h, b, Release(h, b))
<1>. DEFINE f0   == SetStatus(h, b, 0)
            n    == - (SIZEOF_ALLOC + h.mem[b].size)
            f    == Account(f0, n)
            m1   == MergeNext(f, b)
            m2   == MergeBack(m1, b)
            keep == Kept(m1, b)
            g    == ClearPayload(m2, keep, m2.mem[keep].size)
<1>0. n \in Int /\ b \in Cells /\ b \in Nat
  <2>1. h.mem[b].size \in Nat /\ b \in Cells /\ b \in Nat
    BY HeaderFacts
  <2>. QED
    BY <2>1 DEF SIZEOF_ALLOC
<1>. HIDE DEF n
<1>1. /\ Good(f0) /\ SameBounds(f0, h) /\ f0.hdrs = h.hdrs
      /\ f0.mem[b] = Alloc(0, h.mem[b].size)
      /\ \A a \in Cells : a # b => f0.mem[a] = h.mem[a]
  BY SetStatusGood
<1>. HIDE DEF f0
<1>2. Good(f) /\ SameBounds(f, f0) /\ f.mem = f0.mem /\ f.hdrs = f0.hdrs
  BY <1>0, <1>1, AccountGood
<1>. HIDE DEF f
<1>3. \A c \in h.hdrs : c \in Cells
  BY HeaderFacts
<1>4. UsedBlocks(f) = UsedBlocks(h) \ {b} /\ f.mem[b].status = 0
  BY <1>1, <1>2, <1>3 DEF UsedBlocks, Alloc
<1>5. /\ Good(m1) /\ SameBounds(m1, f) /\ b \in m1.hdrs /\ m1.mem[b].status = 0
      /\ UsedBlocks(m1) = UsedBlocks(f)
      /\ \A a \in Cells : a # b => m1.mem[a] = f.mem[a]
  BY <1>1, <1>2, <1>4, MergeNextGood
<1>. HIDE DEF m1
<1>6. /\ Good(m2) /\ SameBounds(m2, m1) /\ keep \in m2.hdrs /\ m2.mem[keep].status = 0
      /\ UsedBlocks(m2) = UsedBlocks(m1)
      /\ \A c \in UsedBlocks(m1) : m2.mem[c] = m1.mem[c]
      /\ keep = b \/ keep + 16 <= b
      /\ b < BlockEnd(m2, keep)
  BY <1>5, MergeBackGood
<1>. HIDE DEF m2, keep
<1>7. /\ m2.mem[keep].size \in Nat /\ BlockEnd(m2, keep) = keep + 16 + m2.mem[keep].size
      /\ keep \in Nat /\ keep \in Cells
  BY <1>6, HeaderFacts
<1>8. /\ Good(g) /\ SameBounds(g, m2) /\ g.hdrs = m2.hdrs
      /\ \A c \in m2.hdrs : g.mem[c] = m2.mem[c]
      /\ \A a \in Cells : g.mem[a] = IF keep + 16 <= a /\ a < keep + 16 + m2.mem[keep].size
                                     THEN Alloc(0, 0) ELSE m2.mem[a]
  BY <1>6, <1>7, ClearPayloadGood
<1>9. g = Release(h, b)
  BY DEF g, m2, keep, m1, f, f0, n, Release
<1>. HIDE DEF g
<1>10. UsedBlocks(g) = UsedBlocks(h) \ {b}
  <2>1. UsedBlocks(g) = UsedBlocks(m2)
    BY <1>8 DEF UsedBlocks
  <2>. QED
    BY <2>1, <1>4, <1>5, <1>6
<1>11. \A c \in UsedBlocks(h) \ {b} : g.mem[c] = h.mem[c]
  <2>. SUFFICES ASSUME NEW c \in UsedBlocks(h) \ {b}
                PROVE  g.mem[c] = h.mem[c]
    OBVIOUS
  <2>1. c \in Cells /\ c # b
    BY <1>3 DEF UsedBlocks
  <2>2. c \in UsedBlocks(m1) /\ c \in m2.hdrs
    BY <1>4, <1>5, <1>6 DEF UsedBlocks
  <2>. QED
    BY <2>1, <2>2, <1>1, <1>2, <1>5, <1>6, <1>8
<1>12. FreeAt(g, b)
  <2>1. g.mem[keep].status = 0 /\ keep \in g.hdrs /\ keep <= b
    BY <1>0, <1>6, <1>7, <1>8
  <2>2. BlockEnd(g, keep) = BlockEnd(m2, keep)
    BY <1>6, <1>8 DEF BlockEnd
  <2>3. g.mem[b].status = 0
    <3>1. CASE keep = b
      BY <3>1, <2>1
    <3>2. CASE keep + 16 <= b
      BY <3>2, <1>0, <1>6, <1>7, <1>8 DEF Alloc
    <3>. QED
      BY <3>1, <3>2, <1>6
  <2>. QED
    BY <2>1, <2>2, <2>3, <1>0, <1>6 DEF FreeAt
<1>13. SameBounds(g, h)
  BY <1>1, <1>2, <1>5, <1>6, <1>8 DEF SameBounds
<1>. QED
  BY <1>8, <1>9, <1>10, <1>11, <1>12, <1>13 DEF Released

-----------------------------------------------------------------------------
(* realloc *)

LEMMA ShrinkInPlaceGood ==
  ASSUME NEW h, Good(h), NEW b \in h.hdrs,
         NEW n \in Nat, n > 0, n % ALLOC_ALIGN = 0, n <= h.mem[b].size
  PROVE  /\ Good(ShrinkInPlace(h, b, n))
         /\ UsedBlocks(ShrinkInPlace(h, b, n)) = UsedBlocks(h)
         /\ ShrinkInPlace(h, b, n).mem[b].size >= n
         /\ \A c \in UsedBlocks(h) : c # b => ShrinkInPlace(h, b, n).mem[c] = h.mem[c]
<1>1. CASE ~ Splits(h, b, n)
  BY <1>1, HeaderFacts DEF ShrinkInPlace
<1>2. CASE Splits(h, b, n)
  <2>. DEFINE g == Shrink(h, b, n)
              m == - (h.mem[b].size - n)
              r == Account(g, m)
  <2>1. /\ Good(g) /\ g.mem[b].size >= n /\ UsedBlocks(g) = UsedBlocks(h)
        /\ \A c \in h.hdrs : c # b => g.mem[c] = h.mem[c]
    BY ShrinkGood
  <2>. HIDE DEF g
  <2>2. m \in Int
    <3>1. h.mem[b].size \in Nat
      BY HeaderFacts
    <3>. QED
      BY <3>1
  <2>. HIDE DEF m
  <2>3. Good(r) /\ r.mem = g.mem /\ r.hdrs = g.hdrs
    BY <2>1, <2>2, AccountGood
  <2>4. ShrinkInPlace(h, b, n) = r
    BY <1>2 DEF ShrinkInPlace, r, g, m
  <2>. HIDE DEF r
  <2>5. UsedBlocks(r) = UsedBlocks(g)
    BY <2>3 DEF UsedBlocks
  <2>. QED
    BY <2>1, <2>3, <2>4, <2>5 DEF UsedBlocks
<1>. QED
  BY <1>1, <1>2

\* Copying one block's payload into another that is as large changes no header.
LEMMA CopyGood ==
  ASSUME NEW h, Good(h), NEW b \in h.hdrs, NEW to \in Cells, Header(to) \in h.hdrs,
         NEW from, from = b + SIZEOF_ALLOC,
         h.mem[b].size <= h.mem[Header(to)].size
  PROVE  LET g == [h EXCEPT !.mem = Copy(@, to, from, h.mem[b].size)]
         IN  /\ Good(g) /\ SameBounds(g, h) /\ g.hdrs = h.hdrs
             /\ \A c \in h.hdrs : g.mem[c] = h.mem[c]
<1>. DEFINE size == h.mem[b].size
            t    == Header(to)
            m    == Copy(h.mem, to, from, size)
            g    == [h EXCEPT !.mem = m]
<1>1. /\ b \in Nat /\ b % ALLOC_ALIGN = 0 /\ size \in Nat /\ b >= HEAP_MIN
      /\ b + 16 + size <= MAPPED_LIMIT /\ h \in HeapState
  BY HeaderFacts, CellFacts DEF Good
<1>2. /\ t \in Nat /\ h.mem[t].size \in Nat /\ size <= h.mem[t].size
      /\ \A c \in h.hdrs : t < c => t + 16 + h.mem[t].size <= c
  BY HeaderFacts
<1>3. to \in Nat /\ to % ALLOC_ALIGN = 0 /\ to = t + 16 /\ from = b + 16
  BY CellFacts DEF Header, SIZEOF_ALLOC
<1>. HIDE DEF size, t
<1>4. \A a \in Cells : to <= a /\ a < to + size => from + (a - to) \in Cells
  <2>. SUFFICES ASSUME NEW a \in Cells, to <= a, a < to + size
                PROVE  from + (a - to) \in Cells
    OBVIOUS
  <2>1. a \in Nat /\ a % ALLOC_ALIGN = 0
    BY CellFacts
  <2>2. (from + (a - to)) % ALLOC_ALIGN = 0
    BY <2>1, <1>1, <1>3 DEF ALLOC_ALIGN
  <2>3. from + (a - to) \in Int /\ from + (a - to) >= HEAP_MIN /\ from + (a - to) <= MAPPED_LIMIT
    BY <2>1, <1>1, <1>3, CellFacts
  <2>. QED
    BY <2>2, <2>3, CellFacts
<1>5. m \in [Cells -> alloc_t]
  BY <1>1, <1>4 DEF Copy, HeapState
<1>6. \A c \in h.hdrs : m[c] = h.mem[c]
  <2>. SUFFICES ASSUME NEW c \in h.hdrs
                PROVE  m[c] = h.mem[c]
    OBVIOUS
  <2>1. c \in Nat /\ c \in Cells
    BY HeaderFacts
  <2>2. ~ (to <= c /\ c < to + size)
    BY <2>1, <1>1, <1>2, <1>3
  <2>. QED
    BY <2>1, <2>2 DEF Copy
<1>. HIDE DEF m
<1>7. g \in HeapState /\ g.mem = m /\ g.hdrs = h.hdrs /\ SameBounds(g, h)
  BY <1>1, <1>5 DEF HeapState, SameBounds
<1>. HIDE DEF g
<1>8. \A c \in h.hdrs : g.mem[c].size = h.mem[c].size /\ g.mem[c].status \in {0, 1}
  BY <1>6, <1>7, HeaderFacts
<1>9. Good(g)
  BY <1>7, <1>8, SameHeaders
<1>10. g = [h EXCEPT !.mem = Copy(@, to, from, h.mem[b].size)]
  BY DEF g, m, size
<1>. QED
  BY <1>6, <1>7, <1>9, <1>10

\* What growing a block does: nothing, or the block in use at p is replaced by a
\* larger one and no other block in use is touched.
Moved(h, p, n, r) ==
  \/ r.ptr = NULL /\ r.heap = h
  \/ /\ Good(r.heap)
     /\ r.ptr \in Cells /\ Header(r.ptr) \notin UsedBlocks(h)
     /\ UsedBlocks(r.heap) = (UsedBlocks(h) \ {Header(p)}) \cup {Header(r.ptr)}
     /\ r.heap.mem[Header(r.ptr)].size >= n
     /\ \A c \in UsedBlocks(h) \ {Header(p)} : r.heap.mem[c] = h.mem[c]

LEMMA MoveMoves ==
  ASSUME NEW h, Good(h), NEW p \in Cells, Header(p) \in UsedBlocks(h),
         NEW n \in Nat, h.mem[Header(p)].size < n
  PROVE  Moved(h, p, n, Move(h, p, n))
<1>. DEFINE b   == Header(p)
            new == mallocOp(h, n)
            h1  == new.heap
            to  == new.ptr
            size == h1.mem[b].size
            g   == [h1 EXCEPT !.mem = Copy(@, to, p, size)]
            r   == freeOp(g, p)
<1>1. Allocated(h, n, new)
  BY MallocAllocates
<1>. HIDE DEF new
<1>2. CASE to = NULL
  BY <1>2 DEF Move, Moved, Fail, new
<1>3. CASE to # NULL
  <2>1. /\ Good(h1) /\ to \in Cells /\ Header(to) \notin UsedBlocks(h)
        /\ UsedBlocks(h1) = UsedBlocks(h) \cup {Header(to)}
        /\ h1.mem[Header(to)].size >= n
        /\ \A c \in UsedBlocks(h) : h1.mem[c] = h.mem[c]
    BY <1>1, <1>3 DEF Allocated
  <2>2. Move(h, p, n) = [heap |-> r, ptr |-> to]
    BY <1>3 DEF Move, new
  <2>. HIDE DEF h1, to, r
  <2>3. /\ b \in h.hdrs /\ b \in h1.hdrs /\ Header(to) \in h1.hdrs /\ size = h.mem[b].size
        /\ h1.mem[b] = h.mem[b] /\ b \in UsedBlocks(h1)
    BY <2>1 DEF UsedBlocks
  <2>4. p \in Nat /\ p = b + SIZEOF_ALLOC
    BY CellFacts DEF Header, SIZEOF_ALLOC
  <2>5. size \in Nat /\ h1.mem[Header(to)].size \in Nat /\ size <= h1.mem[Header(to)].size
    BY <2>1, <2>3, HeaderFacts
  <2>. HIDE DEF b
  <2>6. Good(g) /\ g.hdrs = h1.hdrs /\ \A c \in h1.hdrs : g.mem[c] = h1.mem[c]
    BY <2>1, <2>3, <2>4, <2>5, CopyGood
  <2>. HIDE DEF g
  <2>7. UsedBlocks(g) = UsedBlocks(h1)
    BY <2>6 DEF UsedBlocks
  <2>8. r = Release(g, b)
    <3>1. g.mem[b].status = 1
      BY <2>3, <2>6 DEF UsedBlocks
    <3>2. p # NULL
      BY CellFacts DEF NULL
    <3>. QED
      BY <3>1, <3>2 DEF r, freeOp, b
  <2>9. Released(g, b, r)
    BY <2>3, <2>6, <2>8, ReleaseReleases
  <2>10. Header(to) # b
    BY <2>1 DEF b
  <2>11. UsedBlocks(r) = (UsedBlocks(h) \ {b}) \cup {Header(to)}
    BY <2>1, <2>7, <2>9, <2>10 DEF Released
  <2>12. r.mem[Header(to)] = h1.mem[Header(to)]
    BY <2>1, <2>3, <2>6, <2>7, <2>9, <2>10 DEF Released
  <2>13. \A c \in UsedBlocks(h) \ {b} : r.mem[c] = h.mem[c]
    BY <2>1, <2>6, <2>7, <2>9 DEF Released, UsedBlocks
  <2>. QED
    BY <2>1, <2>2, <2>9, <2>11, <2>12, <2>13 DEF Moved, Released, b
<1>. QED
  BY <1>2, <1>3

-----------------------------------------------------------------------------
(* The steps *)

LEMMA InitInv == Init => IInv
<1>. SUFFICES ASSUME Init
              PROVE  IInv
  OBVIOUS
<1>1. PICK g \in Junk :
        heap = [mem |-> [a \in Cells |-> g], hdrs |-> {}, heap_beginning |-> 0,
                heap_end |-> 0, last_alloc |-> 0, memory_used |-> 0]
  BY DEF Init
<1>2. g \in alloc_t
  BY HeapConstants DEF alloc_t
<1>3. heap \in HeapState /\ heap.hdrs = {} /\ heap.heap_beginning = 0
      /\ heap.heap_end = 0 /\ heap.last_alloc = 0
  BY <1>1, <1>2 DEF HeapState
<1>4. DOMAIN live = {} /\ stale = NULL
  BY DEF Init
<1>5. Good(heap)
  BY <1>3, CellFacts DEF Good, Chain, ALLOC_ALIGN
<1>. QED
  BY <1>3, <1>4, <1>5 DEF IInv, TypeOK, UsedAreHeld, UsedBlocks

\* A pointer that a client holds points behind the header of a block in use.
LEMMA LivePointer ==
  ASSUME IInv, NEW p \in DOMAIN live
  PROVE  /\ p \in Cells /\ p \in Nat /\ p # NULL /\ p = Header(p) + 16 /\ Header(p) = p - 16
         /\ Header(p) \in UsedBlocks(heap) /\ Header(p) \in heap.hdrs
         /\ heap.mem[Header(p)].status = 1
         /\ live[p] \in Nat /\ live[p] > 0 /\ live[p] <= heap.mem[Header(p)].size
<1>1. p \in Cells /\ Header(p) \in UsedBlocks(heap)
  BY DEF IInv, TypeOK, UsedAreHeld
<1>2. p \in Nat /\ p # NULL /\ p = Header(p) + 16 /\ Header(p) = p - 16
  BY <1>1, CellFacts DEF Header, SIZEOF_ALLOC, NULL
<1>3. live[p] \in Nat /\ live[p] > 0 /\ live[p] <= heap.mem[Header(p)].size
  BY DEF IInv, TypeOK, UsedAreHeld
<1>. QED
  BY <1>1, <1>2, <1>3 DEF UsedBlocks

\* Header is injective on cells.
LEMMA HeaderInjective ==
  ASSUME NEW p \in Cells, NEW q \in Cells, Header(p) = Header(q)
  PROVE  p = q
BY CellFacts DEF Header, SIZEOF_ALLOC

LEMMA MemoryInitStep == IInv /\ memory_init => IInv'
<1>. SUFFICES ASSUME IInv, memory_init
              PROVE  IInv'
  OBVIOUS
<1>1. PICK r \in HeapRanges :
        heap' = [heap EXCEPT !.heap_beginning = r[1], !.heap_end = r[2],
                             !.last_alloc = r[1], !.memory_used = 0]
  BY DEF memory_init
<1>2. /\ r[1] \in Nat /\ r[1] >= HEAP_MIN /\ r[1] <= MAPPED_LIMIT /\ r[1] % ALLOC_ALIGN = 0
      /\ r[2] \in Nat /\ r[2] <= MAPPED_LIMIT
  BY HeapConstants
<1>3. heap \in HeapState /\ heap.hdrs = {} /\ heap.heap_beginning = 0
  BY CellFacts DEF IInv, Good, memory_init
<1>4. /\ heap' \in HeapState /\ heap'.hdrs = {} /\ heap'.heap_beginning = r[1]
      /\ heap'.heap_end = r[2] /\ heap'.last_alloc = r[1]
  <2>. DEFINE lo == r[1]
              hi == r[2]
  <2>1. heap' = [heap EXCEPT !.heap_beginning = lo, !.heap_end = hi,
                             !.last_alloc = lo, !.memory_used = 0]
    BY <1>1
  <2>2. lo \in Nat /\ hi \in Nat
    BY <1>2
  <2>. HIDE DEF lo, hi
  <2>3. /\ heap' \in HeapState /\ heap'.hdrs = {} /\ heap'.heap_beginning = lo
        /\ heap'.heap_end = hi /\ heap'.last_alloc = lo
    <3>. DEFINE h1 == [heap EXCEPT !.heap_beginning = lo, !.heap_end = hi]
                h2 == [h1 EXCEPT !.last_alloc = lo]
                h3 == [h2 EXCEPT !.memory_used = 0]
    <3>1. /\ h1 \in HeapState /\ h1.hdrs = heap.hdrs
          /\ h1.heap_beginning = lo /\ h1.heap_end = hi
      BY <2>2, <1>3 DEF HeapState
    <3>. HIDE DEF h1
    <3>2. /\ h2 \in HeapState /\ h2.hdrs = h1.hdrs /\ h2.last_alloc = lo
          /\ h2.heap_beginning = h1.heap_beginning /\ h2.heap_end = h1.heap_end
      BY <2>2, <3>1 DEF HeapState
    <3>. HIDE DEF h2
    <3>3. /\ h3 \in HeapState /\ h3.hdrs = h2.hdrs /\ h3.last_alloc = h2.last_alloc
          /\ h3.heap_beginning = h2.heap_beginning /\ h3.heap_end = h2.heap_end
      BY <3>2 DEF HeapState
    <3>4. heap' = h3
      BY <2>1, <1>3, Zenon DEF HeapState, h1, h2
    <3>. HIDE DEF h3
    <3>. QED
      BY <3>1, <3>2, <3>3, <3>4, <1>3
  <2>. QED
    BY <2>3 DEF lo, hi
<1>5. Good(heap')
  BY <1>2, <1>4 DEF Good, Chain
<1>6. stale = NULL /\ DOMAIN live = {}
  <2>1. stale = NULL
    BY <1>3 DEF IInv, FreeAt
  <2>2. DOMAIN live = {}
    BY <1>3, LivePointer
  <2>. QED
    BY <2>1, <2>2
<1>7. stale' = NULL /\ DOMAIN live' = {} /\ live' = live
  BY <1>6 DEF memory_init
<1>8. UsedBlocks(heap') = {}
  BY <1>4 DEF UsedBlocks
<1>. QED
  BY <1>4, <1>5, <1>7, <1>8 DEF IInv, TypeOK, UsedAreHeld

\* The step of a call that allocates n bytes.
LEMMA ReturnedStep ==
  ASSUME IInv, NEW r, NEW n \in Nat, Allocated(heap, n, r), Returned(r, n),
         n = 0 => r.ptr = NULL
  PROVE  IInv'
<1>1. CASE r.ptr = NULL
  <2>1. r.heap = heap
    BY <1>1, CellFacts DEF Allocated, NULL
  <2>. QED
    BY <1>1, <2>1 DEF Returned, IInv, TypeOK, UsedAreHeld
<1>2. CASE r.ptr # NULL
  <2>1. /\ Good(r.heap) /\ r.ptr \in Cells /\ Header(r.ptr) \notin UsedBlocks(heap)
        /\ UsedBlocks(r.heap) = UsedBlocks(heap) \cup {Header(r.ptr)}
        /\ r.heap.mem[Header(r.ptr)].size >= n
        /\ \A c \in UsedBlocks(heap) : r.heap.mem[c] = heap.mem[c]
    BY <1>2 DEF Allocated
  <2>2. heap' = r.heap /\ live' = Hold(live, r.ptr, n) /\ stale' = NULL
    BY <1>2 DEF Returned
  <2>3. /\ DOMAIN live' = DOMAIN live \cup {r.ptr} /\ live'[r.ptr] = n
        /\ \A q \in DOMAIN live : q # r.ptr => live'[q] = live[q]
    BY <2>2 DEF Hold
  <2>4. r.ptr \notin DOMAIN live
    BY <2>1, LivePointer
  <2>5. TypeOK'
    BY <2>1, <2>2, <2>3 DEF TypeOK, IInv, Good
  <2>6. UsedAreHeld'
    <3>1. UsedBlocks(heap') = {Header(p) : p \in DOMAIN live'}
      BY <2>1, <2>2, <2>3 DEF IInv, UsedAreHeld
    <3>2. ASSUME NEW p \in DOMAIN live'
          PROVE  live'[p] > 0 /\ live'[p] <= heap'.mem[Header(p)].size
      <4>1. CASE p = r.ptr
        BY <4>1, <2>1, <2>2, <2>3, <1>2
      <4>2. CASE p \in DOMAIN live /\ p # r.ptr
        BY <4>2, <2>1, <2>2, <2>3, LivePointer
      <4>. QED
        BY <4>1, <4>2, <2>3
    <3>. QED
      BY <3>1, <3>2 DEF UsedAreHeld
  <2>. QED
    BY <2>1, <2>2, <2>5, <2>6 DEF IInv
<1>. QED
  BY <1>1, <1>2

\* The step of a call that releases the block at p.
LEMMA ReleasedStep ==
  ASSUME IInv, NEW p \in DOMAIN live, Released(heap, Header(p), heap'),
         live' = Drop(live, p), stale' = p
  PROVE  IInv'
<1>1. /\ DOMAIN live' = DOMAIN live \ {p}
      /\ \A q \in DOMAIN live \ {p} : live'[q] = live[q]
  BY DEF Drop
<1>2. p \in Cells
  BY LivePointer
<1>3. \A q \in DOMAIN live \ {p} : Header(q) \in UsedBlocks(heap) \ {Header(p)}
  BY <1>2, LivePointer, HeaderInjective
<1>4. TypeOK'
  BY <1>1, <1>2 DEF TypeOK, IInv, Released, Good
<1>5. UsedAreHeld'
  <2>1. UsedBlocks(heap') = {Header(q) : q \in DOMAIN live'}
    BY <1>1, <1>3 DEF IInv, UsedAreHeld, Released
  <2>2. ASSUME NEW q \in DOMAIN live'
        PROVE  live'[q] > 0 /\ live'[q] <= heap'.mem[Header(q)].size
    BY <1>1, <1>3, LivePointer DEF Released
  <2>. QED
    BY <2>1, <2>2 DEF UsedAreHeld
<1>. QED
  BY <1>4, <1>5 DEF IInv, Released

LEMMA FreeStep ==
  ASSUME IInv, NEW p \in DOMAIN live \cup {NULL, stale}, free(p)
  PROVE  /\ IInv'
         /\ p \notin DOMAIN live => heap' = heap
<1>1. CASE p \in DOMAIN live
  <2>1. heap' = Release(heap, Header(p)) /\ live' = Drop(live, p) /\ stale' = p
    BY <1>1, LivePointer DEF free, freeOp
  <2>2. Released(heap, Header(p), heap')
    BY <1>1, <2>1, LivePointer, ReleaseReleases DEF IInv
  <2>. QED
    BY <1>1, <2>1, <2>2, ReleasedStep
<1>2. CASE p \notin DOMAIN live
  <2>1. heap' = heap
    <3>1. p = NULL \/ heap.mem[Header(p)].status = 0
      BY <1>2 DEF IInv, FreeAt
    <3>. QED
      BY <3>1 DEF free, freeOp
  <2>2. DOMAIN live' = DOMAIN live /\ \A q \in DOMAIN live : live'[q] = live[q]
    BY <1>2 DEF free, Drop
  <2>3. stale' = stale
    BY <1>2 DEF free
  <2>4. TypeOK'
    BY <2>1, <2>2, <2>3 DEF IInv, TypeOK
  <2>5. UsedAreHeld'
    BY <2>1, <2>2 DEF IInv, UsedAreHeld
  <2>. QED
    BY <2>1, <2>3, <2>4, <2>5 DEF IInv
<1>. QED
  BY <1>1, <1>2

LEMMA ReallocStep ==
  ASSUME IInv, NEW p \in DOMAIN live \cup {NULL}, NEW n \in Nat, realloc(p, n)
  PROVE  IInv'
<1>. DEFINE b == Header(p)
            r == reallocOp(heap, p, n)
<1>1. CASE p = NULL
  <2>1. r = Fail(heap)
    BY <1>1 DEF reallocOp
  <2>2. heap' = heap /\ stale' = stale
    BY <1>1, <2>1 DEF realloc, Fail
  <2>3. DOMAIN live' = DOMAIN live /\ \A q \in DOMAIN live : live'[q] = live[q]
    <3>1. NULL \notin DOMAIN live
      BY LivePointer
    <3>2. live' = IF n = 0 THEN Drop(live, NULL) ELSE live
      BY <1>1, <2>1 DEF realloc, Fail
    <3>. QED
      BY <3>1, <3>2 DEF Drop
  <2>4. TypeOK'
    BY <2>2, <2>3 DEF IInv, TypeOK
  <2>5. UsedAreHeld'
    BY <2>2, <2>3 DEF IInv, UsedAreHeld
  <2>. QED
    BY <2>2, <2>4, <2>5 DEF IInv
<1>2. CASE p \in DOMAIN live /\ n = 0
  <2>1. r = Fail(Release(heap, b)) /\ p # NULL
    BY <1>2, LivePointer DEF reallocOp, freeOp
  <2>2. heap' = Release(heap, b) /\ live' = Drop(live, p) /\ stale' = p
    BY <1>2, <2>1 DEF realloc, Fail
  <2>3. Released(heap, b, heap')
    BY <1>2, <2>2, LivePointer, ReleaseReleases DEF IInv
  <2>. QED
    BY <1>2, <2>2, <2>3, ReleasedStep
<1>3. CASE p \in DOMAIN live /\ n # 0
  <2>. DEFINE m == ALIGN_UP(n)
  <2>1. m \in Nat /\ m % ALLOC_ALIGN = 0 /\ m >= n /\ m > 0
    BY <1>3, AlignUp
  <2>2. p \in Cells /\ p # NULL /\ b \in heap.hdrs /\ b \in UsedBlocks(heap) /\ Good(heap)
    BY <1>3, LivePointer DEF IInv
  <2>3. heap.mem[b].size \in Nat
    BY <2>2, HeaderFacts
  <2>4. Moved(heap, p, n, r)
        \/ (/\ r = [heap |-> ShrinkInPlace(heap, b, m), ptr |-> p]
            /\ heap.mem[b].size >= m)
    <3>1. CASE TooBig(n)
      BY <1>3, <2>2, <3>1 DEF reallocOp, Fail, Moved
    <3>2. CASE ~ TooBig(n) /\ heap.mem[b].size >= m
      BY <1>3, <2>2, <3>2 DEF reallocOp
    <3>3. CASE ~ TooBig(n) /\ ~ (heap.mem[b].size >= m)
      <4>1. r = Move(heap, p, m)
        BY <1>3, <2>2, <3>3 DEF reallocOp
      <4>. HIDE DEF m, r
      <4>2. Moved(heap, p, m, r)
        BY <4>1, <2>1, <2>2, <2>3, <3>3, MoveMoves
      <4>3. CASE r.ptr = NULL /\ r.heap = heap
        BY <4>3 DEF Moved
      <4>4. CASE ~ (r.ptr = NULL /\ r.heap = heap)
        <5>1. /\ Good(r.heap) /\ r.ptr \in Cells /\ Header(r.ptr) \notin UsedBlocks(heap)
              /\ UsedBlocks(r.heap) = (UsedBlocks(heap) \ {Header(p)}) \cup {Header(r.ptr)}
              /\ r.heap.mem[Header(r.ptr)].size >= m
              /\ \A c \in UsedBlocks(heap) \ {Header(p)} : r.heap.mem[c] = heap.mem[c]
          BY <4>2, <4>4 DEF Moved
        <5>2. Header(r.ptr) \in r.heap.hdrs
          BY <5>1 DEF UsedBlocks
        <5>3. r.heap.mem[Header(r.ptr)].size \in Nat
          BY <5>1, <5>2, HeaderFacts
        <5>4. r.heap.mem[Header(r.ptr)].size >= n
          BY <5>1, <5>3, <2>1
        <5>. QED
          BY <5>1, <5>4 DEF Moved
      <4>. QED
        BY <4>3, <4>4
    <3>. QED
      BY <3>1, <3>2, <3>3
  <2>. HIDE DEF m
  <2>5. CASE r.ptr = NULL
    <3>1. r.heap = heap
      BY <2>2, <2>4, <2>5, CellFacts DEF Moved, NULL
    <3>2. heap' = heap /\ live' = live /\ stale' = stale
      BY <1>3, <2>5, <3>1 DEF realloc
    <3>. QED
      BY <3>2 DEF IInv, TypeOK, UsedAreHeld
  <2>6. CASE r.ptr # NULL
    <3>1. /\ Good(r.heap) /\ r.ptr \in Cells /\ r.heap.mem[Header(r.ptr)].size >= n
          /\ UsedBlocks(r.heap) = (UsedBlocks(heap) \ {b}) \cup {Header(r.ptr)}
          /\ \A c \in UsedBlocks(heap) \ {b} : r.heap.mem[c] = heap.mem[c]
          /\ r.ptr = p \/ Header(r.ptr) \notin UsedBlocks(heap)
      <4>1. CASE Moved(heap, p, n, r)
        BY <4>1, <2>6 DEF Moved
      <4>2. CASE /\ r = [heap |-> ShrinkInPlace(heap, b, m), ptr |-> p]
                 /\ heap.mem[b].size >= m
        <5>. DEFINE g == ShrinkInPlace(heap, b, m)
        <5>1. /\ Good(g) /\ UsedBlocks(g) = UsedBlocks(heap) /\ g.mem[b].size >= m
              /\ \A c \in UsedBlocks(heap) : c # b => g.mem[c] = heap.mem[c]
          BY <4>2, <2>1, <2>2, <2>3, ShrinkInPlaceGood
        <5>2. r.heap = g /\ r.ptr = p
          BY <4>2
        <5>. HIDE DEF g, r, b
        <5>3. b \in g.hdrs /\ g.mem[b].size \in Nat
          BY <2>2, <5>1, HeaderFacts DEF UsedBlocks
        <5>. QED
          BY <5>1, <5>2, <5>3, <2>1, <2>2 DEF b
      <4>. QED
        BY <4>1, <4>2, <2>4
    <3>2. heap' = r.heap /\ live' = Hold(Drop(live, p), r.ptr, n) /\ stale' = NULL
      BY <2>6 DEF realloc
    <3>. HIDE DEF r
    <3>3. /\ DOMAIN live' = (DOMAIN live \ {p}) \cup {r.ptr} /\ live'[r.ptr] = n
          /\ \A q \in DOMAIN live \ {p} : q # r.ptr => live'[q] = live[q]
      BY <3>2 DEF Hold, Drop
    <3>4. \A q \in DOMAIN live \ {p} : /\ q # r.ptr
                                       /\ Header(q) \in UsedBlocks(heap) \ {b}
      BY <2>2, <3>1, LivePointer, HeaderInjective
    <3>5. TypeOK'
      BY <3>1, <3>2, <3>3 DEF TypeOK, IInv, Good
    <3>6. UsedAreHeld'
      <4>1. UsedBlocks(heap') = {Header(q) : q \in DOMAIN live'}
        BY <3>1, <3>2, <3>3, <3>4 DEF IInv, UsedAreHeld
      <4>2. ASSUME NEW q \in DOMAIN live'
            PROVE  live'[q] > 0 /\ live'[q] <= heap'.mem[Header(q)].size
        <5>1. CASE q = r.ptr
          <6>1. r.ptr \in Cells /\ r.heap.mem[Header(r.ptr)].size >= n
            BY <3>1
          <6>. QED
            BY <5>1, <6>1, <1>3, <3>2, <3>3
        <5>2. CASE q \in DOMAIN live \ {p}
          BY <5>2, <3>1, <3>2, <3>3, <3>4, LivePointer
        <5>. QED
          BY <5>1, <5>2, <3>3
      <4>. QED
        BY <4>1, <4>2 DEF UsedAreHeld
    <3>. QED
      BY <3>1, <3>2, <3>5, <3>6 DEF IInv
  <2>. QED
    BY <2>5, <2>6
<1>. QED
  BY <1>1, <1>2, <1>3

LEMMA ClientWriteStep ==
  ASSUME IInv, NEW p \in DOMAIN live, NEW a \in Cells, NEW v \in Junk, client_write(p, a, v)
  PROVE  IInv'
<1>. DEFINE b == Header(p)
            g == [heap EXCEPT !.mem[a] = v]
<1>1. /\ b \in heap.hdrs /\ b \in UsedBlocks(heap) /\ p = b + 16 /\ live[p] \in Nat
      /\ live[p] <= heap.mem[b].size /\ heap.mem[b].status = 1
  BY LivePointer
<1>2. b \in Nat /\ heap.mem[b].size \in Nat /\ BlockEnd(heap, b) = b + 16 + heap.mem[b].size
  BY <1>1, HeaderFacts DEF IInv
<1>3. b + 16 <= a /\ a < b + 16 + heap.mem[b].size /\ a \in Nat
  BY <1>1, <1>2, CellFacts DEF client_write
<1>4. \A c \in heap.hdrs : /\ c \in Nat /\ c \in Cells /\ heap.mem[c].size \in Nat
                           /\ heap.mem[c].status \in {0, 1}
                           /\ BlockEnd(heap, c) = c + 16 + heap.mem[c].size
  BY HeaderFacts DEF IInv
<1>5. \A c, d \in heap.hdrs : c < d => BlockEnd(heap, c) <= d
  BY HeaderFacts DEF IInv
<1>. HIDE DEF b
<1>6. \A c \in heap.hdrs : a # c
  BY <1>1, <1>2, <1>3, <1>4, <1>5
<1>7. v \in alloc_t /\ heap \in HeapState
  BY HeapConstants DEF alloc_t, IInv, Good
<1>8. /\ g \in HeapState /\ g.hdrs = heap.hdrs /\ SameBounds(g, heap)
      /\ \A c \in Cells : c # a => g.mem[c] = heap.mem[c]
  BY <1>7 DEF HeapState, SameBounds
<1>. HIDE DEF g
<1>9. \A c \in heap.hdrs : g.mem[c] = heap.mem[c]
  BY <1>4, <1>6, <1>8
<1>10. Good(g) /\ \A c \in heap.hdrs : BlockEnd(g, c) = BlockEnd(heap, c)
  BY <1>4, <1>8, <1>9, SameHeaders DEF IInv
<1>11. UsedBlocks(g) = UsedBlocks(heap)
  BY <1>8, <1>9 DEF UsedBlocks
<1>12. heap' = g /\ live' = live /\ stale' = stale
  BY DEF client_write, g
<1>13. UsedAreHeld'
  <2>1. ASSUME NEW q \in DOMAIN live
        PROVE  live[q] > 0 /\ live[q] <= g.mem[Header(q)].size
    BY <1>9, LivePointer
  <2>. QED
    BY <2>1, <1>11, <1>12 DEF UsedAreHeld, IInv
<1>14. ASSUME stale # NULL
       PROVE  FreeAt(g, Header(stale))
  <2>. DEFINE s == Header(stale)
  <2>1. s \in Cells /\ s \in Nat /\ heap.mem[s].status = 0
    BY <1>14, CellFacts DEF IInv, FreeAt
  <2>2. PICK c \in heap.hdrs : heap.mem[c].status = 0 /\ c <= s /\ s < BlockEnd(heap, c)
    BY <1>14 DEF IInv, FreeAt
  <2>. HIDE DEF s
  <2>3. c # b /\ c \in Nat
    BY <2>2, <1>1, <1>4
  <2>4. s # a
    <3>1. CASE c < b
      BY <3>1, <2>1, <2>2, <1>1, <1>2, <1>3, <1>4, <1>5
    <3>2. CASE b < c
      BY <3>2, <2>1, <2>2, <1>1, <1>2, <1>3, <1>4, <1>5
    <3>. QED
      BY <3>1, <3>2, <2>3, <1>2
  <2>5. g.mem[s].status = 0 /\ g.mem[c].status = 0 /\ BlockEnd(g, c) = BlockEnd(heap, c)
    BY <2>1, <2>2, <2>4, <1>8, <1>9, <1>10
  <2>. QED
    BY <2>1, <2>2, <2>5, <1>8 DEF FreeAt, s
<1>15. TypeOK'
  BY <1>8, <1>12 DEF IInv, TypeOK
<1>. QED
  BY <1>10, <1>12, <1>13, <1>14, <1>15 DEF IInv

LEMMA NextInv == IInv /\ [Next]_vars => IInv'
<1>. SUFFICES ASSUME IInv, [Next]_vars
              PROVE  IInv'
  OBVIOUS
<1>. USE HeapConstants
<1>1. CASE memory_init
  BY <1>1, MemoryInitStep
<1>2. ASSUME NEW n \in Requests, malloc(n)
      PROVE  IInv'
  BY <1>2, MallocAllocates, ReturnedStep DEF malloc, IInv, Fail
<1>3. ASSUME NEW amount \in Amounts, NEW n \in Requests, calloc(amount, n)
      PROVE  IInv'
  <2>. DEFINE m == amount * n
              r == callocOp(heap, amount, n)
  <2>1. amount \in Nat /\ n \in Nat
    OBVIOUS
  <2>2. m \in Nat /\ (m = 0 => amount = 0 \/ n = 0)
    BY <2>1
  <2>3. Allocated(heap, m, r) /\ (amount = 0 \/ n = 0 => r = Fail(heap))
    BY <2>1, CallocAllocates DEF IInv
  <2>4. Returned(r, m)
    BY <1>3 DEF calloc
  <2>. HIDE DEF m, r
  <2>. QED
    BY <2>2, <2>3, <2>4, ReturnedStep DEF Fail
<1>4. ASSUME NEW p \in DOMAIN live \cup {NULL, stale}, free(p)
      PROVE  IInv'
  BY <1>4, FreeStep
<1>5. ASSUME NEW p \in DOMAIN live \cup {NULL}, NEW n \in Requests, realloc(p, n)
      PROVE  IInv'
  BY <1>5, ReallocStep
<1>6. ASSUME NEW p \in DOMAIN live, NEW a \in Cells, NEW v \in Junk, client_write(p, a, v)
      PROVE  IInv'
  BY <1>6, ClientWriteStep
<1>7. CASE UNCHANGED vars
  BY <1>7 DEF vars, IInv, TypeOK, UsedAreHeld
<1>. QED
  BY <1>1, <1>2, <1>3, <1>4, <1>5, <1>6, <1>7 DEF Next

-----------------------------------------------------------------------------
(* The theorems *)

\* The inductive invariant holds in every reachable state of the heap.
THEOREM Invariant == Spec => []IInv
<1>1. Init => IInv
  BY InitInv
<1>2. IInv /\ [Next]_vars => IInv'
  BY NextInv
<1>. QED
  BY <1>1, <1>2, PTL DEF Spec

\* Every store of malloc.c, calloc.c, realloc.c and free.c stays inside the mapped
\* memory and leaves the allocator's globals with their types.
THEOREM TypeCorrect == Spec => []TypeOK
<1>1. IInv => TypeOK
  BY DEF IInv
<1>. QED
  BY <1>1, Invariant, PTL

\* The blocks always tile [heap_beginning, last_alloc), so the loops of malloc,
\* calloc and find_before step from header to header whatever clients write.
THEOREM ChainIsTiled == Spec => []Tiled
<1>1. IInv => Tiled
  BY DEF IInv, Good, Tiled
<1>. QED
  BY <1>1, Invariant, PTL

\* No call of the allocator leaks a block, hands out one that is held or gives
\* back one that is still held.
THEOREM NoLeak == Spec => []UsedAreHeld
<1>1. IInv => UsedAreHeld
  BY DEF IInv
<1>. QED
  BY <1>1, Invariant, PTL

\* What clients hold never overlaps, never covers a header and lies in the heap,
\* for every heap size and every sequence of calls.
THEOREM AllocationsDisjoint == Spec => []LiveDisjoint
<1>1. ASSUME IInv
      PROVE  LiveDisjoint
  <2>1. \A c \in heap.hdrs : /\ c \in Nat /\ heap.mem[c].size \in Nat /\ heap.mem[c].size > 0
                             /\ BlockEnd(heap, c) = c + 16 + heap.mem[c].size
                             /\ BlockEnd(heap, c) <= heap.last_alloc
                             /\ heap.heap_beginning <= c
    BY <1>1, HeaderFacts DEF IInv
  <2>2. \A c, d \in heap.hdrs : c < d => BlockEnd(heap, c) <= d
    BY <1>1, HeaderFacts DEF IInv
  <2>3. heap.heap_beginning \in Nat /\ heap.heap_end \in Nat /\ heap.last_alloc \in Nat
    BY <1>1 DEF IInv, Good, HeapState
  <2>4. heap.last_alloc = heap.heap_beginning \/ heap.last_alloc < heap.heap_end
    BY <1>1 DEF IInv, Good, Chain
  <2>. SUFFICES ASSUME NEW p \in DOMAIN live
                PROVE  /\ heap.heap_beginning < p /\ p + live[p] < heap.heap_end
                       /\ \A q \in DOMAIN live : p < q => p + live[p] <= Header(q)
                       /\ \A b \in heap.hdrs : ~ (p <= b /\ b < p + live[p])
    BY DEF LiveDisjoint
  <2>5. /\ Header(p) \in heap.hdrs /\ p = Header(p) + 16 /\ live[p] \in Nat
        /\ live[p] <= heap.mem[Header(p)].size
    BY <1>1, LivePointer
  <2>6. heap.heap_beginning < p /\ p + live[p] < heap.heap_end
    BY <2>1, <2>3, <2>4, <2>5
  <2>7. ASSUME NEW q \in DOMAIN live, p < q
        PROVE  p + live[p] <= Header(q)
    <3>1. Header(q) \in heap.hdrs /\ q = Header(q) + 16
      BY <1>1, LivePointer
    <3>2. Header(p) < Header(q)
      BY <2>1, <2>5, <2>7, <3>1
    <3>. QED
      BY <2>1, <2>2, <2>5, <3>1, <3>2
  <2>8. ASSUME NEW b \in heap.hdrs
        PROVE  ~ (p <= b /\ b < p + live[p])
    BY <2>1, <2>2, <2>5
  <2>. QED
    BY <2>6, <2>7, <2>8
<1>. QED
  BY <1>1, Invariant, PTL

\* A second free of the pointer that was freed last finds a free header at the
\* place of the old one and returns without a change.
THEOREM DoubleFreeIgnored == Spec => SecondFreeIsIgnored
<1>. DEFINE A == \A p \in {stale} \ (DOMAIN live \cup {NULL}) : free(p) => heap' = heap
<1>1. IInv /\ [Next]_vars => [A]_vars
  BY FreeStep
<1>. QED
  BY <1>1, Invariant, PTL DEF Spec, SecondFreeIsIgnored
=============================================================================
