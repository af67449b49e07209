---------------------------- MODULE PackedProofs ----------------------------
(***************************************************************************)
(* The packed words of PackedSets implement the sets of Dataflow, for      *)
(* every set of well-formed bodies and every word size.                    *)
(***************************************************************************)
EXTENDS PackedSets, MirProofs

(***************************************************************************)
(* Arithmetic.                                                             *)
(***************************************************************************)
LEMMA Multiples ==
  ASSUME NEW a \in Nat, NEW b \in Nat, NEW k \in Nat, a < b
  PROVE  a * k \in Nat /\ b * k \in Nat /\ a * k + k <= b * k
<1> DEFINE d == b - a - 1
<1>1. d \in Nat /\ b = a + 1 + d BY SMT
<1> HIDE DEF d
<1>2. a * k \in Nat /\ d * k \in Nat BY <1>1, SMT
<1>3. b * k = a * k + k + d * k BY <1>1, SMT
<1> QED BY <1>2, <1>3

LEMMA Quotient ==
  ASSUME NEW n \in Nat, NEW k \in Nat \ {0}
  PROVE  n \div k \in Nat
<1>1. n \div k \in Int /\ n % k \in 0..(k - 1) /\ n = k * (n \div k) + (n % k) BY SMT
<1> QED BY <1>1, SMT

\* Quotient and remainder are unique.
LEMMA UniqueDivision ==
  ASSUME NEW k \in Nat, NEW q \in Nat, NEW s \in Nat, NEW r \in 0..(k - 1), NEW t \in 0..(k - 1),
         q * k + r = s * k + t
  PROVE  q = s /\ r = t
<1>0. q * k \in Nat /\ s * k \in Nat BY SMT
<1>1. ~(q < s) BY <1>0, Multiples
<1>2. ~(s < q) BY <1>0, Multiples
<1>3. q = s BY <1>1, <1>2
<1> QED BY <1>0, <1>3

(***************************************************************************)
(* Where a bit is: division by the word size.                              *)
(***************************************************************************)

\* The bits of n words fill them, each in one place.
LEMMA Lookup ==
  ASSUME NEW n \in Nat, NEW e \in 1..(n * WordBits)
  PROVE  /\ bit_lookup(e).word \in 0..(n - 1)
         /\ bit_lookup(e).bit \in Filled
         /\ e = bit_lookup(e).word * WordBits + bit_lookup(e).bit + 1
<1> DEFINE q == (e - 1) \div WordBits
           r == (e - 1) % WordBits
<1>0. WordBits \in Nat \ {0} /\ n * WordBits \in Nat BY WordBitsAssumption
<1>1. q \in Int /\ r \in 0..(WordBits - 1) /\ e - 1 = WordBits * q + r
  BY <1>0, SMT
<1>2. q >= 0 BY <1>0, <1>1, SMT
<1>3. q < n BY <1>0, <1>1, SMT
<1> QED BY <1>0, <1>1, <1>2, <1>3 DEF bit_lookup, Filled

LEMMA LookupOnto ==
  ASSUME NEW n \in Nat, NEW w \in 0..(n - 1), NEW r \in Filled
  PROVE  \E e \in 1..(n * WordBits) : bit_lookup(e).word = w /\ bit_lookup(e).bit = r
<1> DEFINE e == w * WordBits + r + 1
<1>0. WordBits \in Nat \ {0} BY WordBitsAssumption
<1>1. w \in Nat /\ n \in Nat /\ w < n /\ r \in 0..(WordBits - 1) BY DEF Filled
<1>2. /\ w * WordBits \in Nat /\ n * WordBits \in Nat
      /\ w * WordBits + WordBits <= n * WordBits
  BY <1>0, <1>1, Multiples
<1>3. e \in 1..(n * WordBits) BY <1>0, <1>1, <1>2
<1>4. /\ bit_lookup(e).word \in Nat
      /\ bit_lookup(e).bit \in 0..(WordBits - 1)
      /\ e = bit_lookup(e).word * WordBits + bit_lookup(e).bit + 1
  BY <1>3, Lookup DEF Filled
<1>5. bit_lookup(e).word * WordBits + bit_lookup(e).bit = w * WordBits + r
  <2>1. bit_lookup(e).word * WordBits \in Nat BY <1>0, <1>4, SMT
  <2> QED BY <1>1, <1>2, <1>4, <2>1
<1> DEFINE q == bit_lookup(e).word
           s == bit_lookup(e).bit
<1> HIDE DEF q, s
<1>6. q \in Nat /\ s \in 0..(WordBits - 1) /\ q * WordBits + s = w * WordBits + r
  BY <1>4, <1>5 DEF q, s
<1>7. q = w /\ s = r BY <1>0, <1>1, <1>6, UniqueDivision
<1> QED BY <1>3, <1>7 DEF q, s

\* The ranges of two blocks have no word in common, and lie in the vector.
LEMMA Ranges ==
  ASSUME NEW m, IsBody(m), NEW b \in Blocks(m), NEW c \in Blocks(m),
         NEW w \in SliceWords(m), NEW v \in SliceWords(m)
  PROVE  /\ words_per_block(m) \in Nat
         /\ offset(m, b) + w \in 0..(Len(m.blocks) * words_per_block(m) - 1)
         /\ offset(m, b) + w = offset(m, c) + v => b = c /\ w = v
<1>0. /\ m.nlocals \in Nat /\ Len(m.blocks) \in Nat /\ WordBits \in Nat \ {0}
  BY WordBitsAssumption DEF IsBody
<1>1. words_per_block(m) \in Int BY <1>0 DEF words_per_block
<1> DEFINE n == words_per_block(m)
<1>2. n \in Nat /\ n >= 1 /\ w \in 0..(n - 1) /\ v \in 0..(n - 1)
  BY <1>1 DEF SliceWords
<1>3. b \in 1..Len(m.blocks) /\ c \in 1..Len(m.blocks) BY DEF Blocks
<1> HIDE DEF n
<1>4. /\ (b - 1) * n \in Nat /\ (b - 1) * n + n <= Len(m.blocks) * n
      /\ Len(m.blocks) * n \in Nat
  <2>1. b - 1 \in Nat /\ b - 1 < Len(m.blocks) BY <1>0, <1>3
  <2> QED BY <1>0, <1>2, <2>1, Multiples
<1>5. (b - 1) * n + w = (c - 1) * n + v => b = c /\ w = v
  <2>1. b - 1 \in Nat /\ c - 1 \in Nat BY <1>0, <1>3
  <2>2. (b - 1) * n + w = (c - 1) * n + v => b - 1 = c - 1 /\ w = v
    BY <1>2, <2>1, UniqueDivision
  <2> QED BY <1>3, <2>2
<1>6. (b - 1) * n + w \in 0..(Len(m.blocks) * n - 1) BY <1>2, <1>4
<1>7. offset(m, b) = (b - 1) * n /\ offset(m, c) = (c - 1) * n
  BY <1>2, <1>3, SMT DEF offset, n
<1>8. words_per_block(m) = n BY DEF n
<1> QED BY <1>2, <1>5, <1>6, <1>7, <1>8

-----------------------------------------------------------------------------
(***************************************************************************)
(* What the operations on words do to the sets of paths they stand for.    *)
(***************************************************************************)
LEMMA WordsPerBlock ==
  ASSUME NEW m, IsBody(m)
  PROVE  /\ words_per_block(m) \in Nat
         /\ Bits(m) = 1..(words_per_block(m) * WordBits)
         /\ Locals(m) \subseteq Bits(m)
<1>0. m.nlocals \in Nat /\ WordBits \in Nat \ {0} /\ START_BLOCK \in Blocks(m)
  BY WordBitsAssumption, Starts DEF IsBody
<1>1. m.nlocals <= words_per_block(m) * WordBits
  BY <1>0, RoundUp DEF words_per_block
<1>2. words_per_block(m) \in Nat
  <2>1. m.nlocals + WordBits - 1 \in Nat BY <1>0
  <2> QED BY <1>0, <2>1, Quotient DEF words_per_block
<1>3. words_per_block(m) * WordBits \in Nat BY <1>0, <1>2, SMT
<1> QED BY <1>0, <1>1, <1>2, <1>3 DEF Bits, bits_per_block, Locals

\* A path has its own bit, within the slice.
LEMMA InSlice ==
  ASSUME NEW m, IsBody(m), NEW e \in Bits(m)
  PROVE  /\ bit_lookup(e).word \in SliceWords(m)
         /\ bit_lookup(e).bit \in Filled
         /\ \A f \in Bits(m) : bit_lookup(f) = bit_lookup(e) => f = e
<1>1. words_per_block(m) \in Nat /\ Bits(m) = 1..(words_per_block(m) * WordBits)
  BY WordsPerBlock
<1>2. \A f \in Bits(m) :
        /\ bit_lookup(f).word \in 0..(words_per_block(m) - 1)
        /\ bit_lookup(f).bit \in Filled
        /\ f = bit_lookup(f).word * WordBits + bit_lookup(f).bit + 1
  BY <1>1, Lookup
<1> QED BY <1>2 DEF SliceWords

\* A word index and a position in a word are those of some path.
LEMMA SliceBit ==
  ASSUME NEW m, IsBody(m), NEW w \in SliceWords(m), NEW r \in Filled
  PROVE  \E e \in Bits(m) : bit_lookup(e).word = w /\ bit_lookup(e).bit = r
<1>1. words_per_block(m) \in Nat /\ Bits(m) = 1..(words_per_block(m) * WordBits)
  BY WordsPerBlock
<1> DEFINE n == words_per_block(m)
<1>2. w \in 0..(n - 1) BY DEF SliceWords
<1> HIDE DEF n
<1>3. n \in Nat BY <1>1 DEF n
<1>4. PICK e \in 1..(n * WordBits) : bit_lookup(e).word = w /\ bit_lookup(e).bit = r
  BY <1>2, <1>3, LookupOnto
<1>5. e \in Bits(m) BY <1>1 DEF n
<1> QED BY <1>4, <1>5

\* mask picks exactly the bits of the given paths.
LEMMA MaskBit ==
  ASSUME NEW m, IsBody(m), NEW e \in Bits(m), NEW paths \in SUBSET Bits(m)
  PROVE  bit_lookup(e).bit \in mask(paths, bit_lookup(e).word) <=> e \in paths
<1>1. ASSUME bit_lookup(e).bit \in mask(paths, bit_lookup(e).word)
      PROVE  e \in paths
  <2>1. PICK f \in paths : /\ bit_lookup(f).word = bit_lookup(e).word
                           /\ bit_lookup(f).bit = bit_lookup(e).bit
    BY <1>1 DEF mask
  <2>2. bit_lookup(f) = bit_lookup(e) BY <2>1 DEF bit_lookup
  <2>3. f \in Bits(m) OBVIOUS
  <2>4. f = e BY <2>2, <2>3, InSlice
  <2> QED BY <2>4
<1>2. ASSUME e \in paths
      PROVE  bit_lookup(e).bit \in mask(paths, bit_lookup(e).word)
  BY <1>2 DEF mask
<1> QED BY <1>1, <1>2

LEMMA MaskWord ==
  ASSUME NEW m, IsBody(m), NEW paths \in SUBSET Bits(m), NEW w
  PROVE  mask(paths, w) \in Words
BY InSlice DEF mask, Words

LEMMA AddRemove ==
  ASSUME NEW m, IsBody(m), NEW slice \in Slices(m), NEW paths \in SUBSET Bits(m)
  PROVE  /\ add(slice, paths) \in Slices(m)
         /\ remove(slice, paths) \in Slices(m)
         /\ BitsOf(m, add(slice, paths)) = BitsOf(m, slice) \union paths
         /\ BitsOf(m, remove(slice, paths)) = BitsOf(m, slice) \ paths
<1>1. \A w \in SliceWords(m) : mask(paths, w) \in Words BY MaskWord
<1>2. add(slice, paths) \in Slices(m) /\ remove(slice, paths) \in Slices(m)
  BY <1>1 DEF add, remove, Slices, Words
<1>3. \A e \in Bits(m) :
        /\ bit_lookup(e).word \in SliceWords(m)
        /\ bit_lookup(e).bit \in mask(paths, bit_lookup(e).word) <=> e \in paths
  BY InSlice, MaskBit
<1>4. DOMAIN slice = SliceWords(m) BY DEF Slices
<1> QED BY <1>2, <1>3, <1>4 DEF add, remove, BitsOf

LEMMA Bitwise ==
  ASSUME NEW m, IsBody(m), NEW slice \in Slices(m), NEW other \in Slices(m)
  PROVE  /\ union(slice, other) \in Slices(m)
         /\ subtract(slice, other) \in Slices(m)
         /\ join(slice, other) \in Slices(m)
         /\ BitsOf(m, union(slice, other)) = BitsOf(m, slice) \union BitsOf(m, other)
         /\ BitsOf(m, subtract(slice, other)) = BitsOf(m, slice) \ BitsOf(m, other)
         /\ BitsOf(m, join(slice, other)) = BitsOf(m, slice) \intersect BitsOf(m, other)
<1>1. /\ union(slice, other) \in Slices(m)
      /\ subtract(slice, other) \in Slices(m)
      /\ join(slice, other) \in Slices(m)
  BY DEF union, subtract, join, Slices, Words
<1>2. \A e \in Bits(m) : bit_lookup(e).word \in SliceWords(m) BY InSlice
<1>3. DOMAIN slice = SliceWords(m) BY DEF Slices
<1> QED BY <1>1, <1>2, <1>3 DEF union, subtract, join, BitsOf

\* Two slices that stand for the same set are the same words.
LEMMA SameWords ==
  ASSUME NEW m, IsBody(m), NEW slice \in Slices(m), NEW other \in Slices(m),
         BitsOf(m, slice) = BitsOf(m, other)
  PROVE  slice = other
<1>1. SUFFICES ASSUME NEW w \in SliceWords(m) PROVE slice[w] = other[w]
  BY DEF Slices
<1>2. slice[w] \subseteq Filled /\ other[w] \subseteq Filled BY DEF Slices, Words
<1>3. \A r \in Filled : r \in slice[w] <=> r \in other[w]
  <2> TAKE r \in Filled
  <2>1. PICK e \in Bits(m) : bit_lookup(e).word = w /\ bit_lookup(e).bit = r
    BY SliceBit
  <2> QED BY <2>1 DEF BitsOf
<1> QED BY <1>2, <1>3

\* Storing the slice of one block changes the slice of no other.
LEMMA StoreSlice ==
  ASSUME NEW m, IsBody(m), NEW words \in Vectors(m), NEW b \in Blocks(m), NEW slice \in Slices(m)
  PROVE  /\ Store(m, words, b, slice) \in Vectors(m)
         /\ \A c \in Blocks(m) :
              SliceOf(m, Store(m, words, b, slice), c) = IF c = b THEN slice ELSE SliceOf(m, words, c)
<1>0. \A d \in Blocks(m) : offset(m, d) \in Int
  <2>1. \A d \in Blocks(m) : d \in Int BY DEF Blocks
  <2> QED BY <2>1, WordsPerBlock DEF offset
<1>1. Store(m, words, b, slice) \in Vectors(m)
  BY DEF Store, Vectors, Slices
<1>2. ASSUME NEW c \in Blocks(m), NEW w \in SliceWords(m)
      PROVE  Store(m, words, b, slice)[offset(m, c) + w]
               = IF c = b THEN slice[w] ELSE words[offset(m, c) + w]
  <2>0. w \in Int BY DEF SliceWords
  <2> DEFINE i == offset(m, c) + w
             j == i - offset(m, b)
  <2>1. i \in DOMAIN words BY Ranges DEF Vectors
  <2>4. Store(m, words, b, slice)[i] = IF j \in SliceWords(m) THEN slice[j] ELSE words[i]
    BY <2>1 DEF Store
  <2>5. offset(m, b) + j = i BY <1>0, <2>0
  <2> SUFFICES Store(m, words, b, slice)[i] = IF c = b THEN slice[w] ELSE words[i]
    OBVIOUS
  <2>2. CASE c = b
    <3>1. j = w BY <1>0, <2>0, <2>2
    <3> HIDE DEF i, j
    <3> QED BY <2>2, <2>4, <3>1
  <2>3. CASE c # b
    <3>1. j \notin SliceWords(m) BY <2>3, <2>5, Ranges
    <3> HIDE DEF i, j
    <3> QED BY <2>3, <2>4, <3>1
  <2> QED BY <2>2, <2>3
<1>3. ASSUME NEW c \in Blocks(m)
      PROVE  SliceOf(m, Store(m, words, b, slice), c) = IF c = b THEN slice ELSE SliceOf(m, words, c)
  <2>1. CASE c = b
    BY <1>2, <2>1 DEF SliceOf, Slices
  <2>2. CASE c # b
    BY <1>2, <2>2 DEF SliceOf
  <2> QED BY <2>1, <2>2
<1> QED BY <1>1, <1>3

LEMMA SliceType ==
  ASSUME NEW m, IsBody(m), NEW words \in Vectors(m), NEW b \in Blocks(m)
  PROVE  SliceOf(m, words, b) \in Slices(m)
<1>1. \A w \in SliceWords(m) : offset(m, b) + w \in DOMAIN words BY Ranges DEF Vectors
<1> QED BY <1>1 DEF SliceOf, Slices, Vectors
\* What storing a slice does to the sets of all the blocks.
LEMMA StoreSet ==
  ASSUME NEW m, IsBody(m), NEW words \in Vectors(m), NEW b \in Blocks(m), NEW slice \in Slices(m),
         NEW after, after = Store(m, words, b, slice), NEW set, BitsOf(m, slice) = set
  PROVE  [c \in Blocks(m) |-> BitsOf(m, SliceOf(m, after, c))]
           = [[c \in Blocks(m) |-> BitsOf(m, SliceOf(m, words, c))] EXCEPT ![b] = set]
<1>1. \A c \in Blocks(m) :
        BitsOf(m, SliceOf(m, after, c))
          = IF c = b THEN set ELSE BitsOf(m, SliceOf(m, words, c))
  BY StoreSlice
<1> QED BY <1>1

-----------------------------------------------------------------------------
(***************************************************************************)
(* Type correctness.                                                       *)
(***************************************************************************)

\* A vector of the size that DataflowAnalysis::new asks for.
LEMMA NewVector ==
  ASSUME NEW m, IsBody(m), NEW word \in Words, NEW n \in Nat
  PROVE  NewSet(word, n * WordBits) \in [0..(n - 1) -> Words]
<1>0. WordBits \in Nat \ {0} BY WordBitsAssumption
<1>1. n * WordBits \in Nat BY <1>0, SMT
<1> DEFINE u == n * WordBits + (WordBits - 1)
           q == u \div WordBits
           r == u % WordBits
<1>2. u \in Nat BY <1>0, <1>1
<1>3. q \in Nat BY <1>0, <1>2, Quotient
<1>4. r \in 0..(WordBits - 1) /\ u = WordBits * q + r BY <1>0, <1>2, SMT
<1>5. q * WordBits + r = n * WordBits + (WordBits - 1) BY <1>0, <1>1, <1>3, <1>4, SMT
<1> HIDE DEF q, r
<1>6. q = n
  <2>1. WordBits - 1 \in 0..(WordBits - 1) /\ WordBits \in Nat BY <1>0
  <2> QED BY <1>3, <1>4, <1>5, <2>1, UniqueDivision
<1> QED BY <1>6 DEF NewSet, q

LEMMA PackedTypeInit == Init => PackedTypeOK
<1> SUFFICES ASSUME NEW m \in Mirs, NewAnalysis(m) PROVE PackedTypeOK
  BY DEF Init
<1>1. IsBody(m) BY MirsAssumption
<1>2. Len(m.blocks) \in Nat /\ Len(m.blocks) >= 1 BY <1>1 DEF IsBody
<1>3. words_per_block(m) \in Nat BY <1>1, WordsPerBlock
<1>4. {} \in Words /\ Filled \in Words BY DEF Words
<1>5. Len(m.blocks) * words_per_block(m) \in Nat BY <1>2, <1>3, SMT
<1>6. Len(m.blocks) * bits_per_block(m) = (Len(m.blocks) * words_per_block(m)) * WordBits
  BY <1>2, <1>3, WordBitsAssumption, SMT DEF bits_per_block
<1>7. /\ gen_sets \in Vectors(m)
      /\ kill_sets \in Vectors(m)
      /\ on_entry_sets \in Vectors(m)
  BY <1>1, <1>4, <1>5, <1>6, NewVector DEF NewAnalysis, Vectors
<1>8. in_out \in Slices(m)
  BY <1>1, <1>3, <1>4, NewVector DEF NewAnalysis, Slices, SliceWords, bits_per_block
<1> QED BY <1>2, <1>7, <1>8 DEF NewAnalysis, PackedTypeOK, START_BLOCK, Blocks

\* What holds of the body in every state.
LEMMA Body ==
  ASSUME PackedTypeOK
  PROVE  /\ IsBody(mir)
         /\ Len(mir.blocks) \in Nat /\ Len(mir.blocks) >= 1
         /\ \A b \in Blocks(mir) :
              /\ TermIndex(mir, b) \in Nat \ {0}
              /\ Len(successors(Term(mir, b))) \in Nat
              /\ \A k \in Edges(b) : /\ successors(Term(mir, b))[k] \in Blocks(mir)
                                     /\ EdgeFills(b, k) \subseteq Bits(mir)
<1>1. IsBody(mir) BY MirsAssumption DEF PackedTypeOK
<1>2. Len(mir.blocks) \in Nat /\ Len(mir.blocks) >= 1 BY <1>1 DEF IsBody
<1>3. Locals(mir) \subseteq Bits(mir) BY <1>1, WordsPerBlock
<1> QED BY <1>1, <1>2, <1>3, Successors DEF Edges, EdgeFills

\* The sets that a location and the start of the analysis work on.
LEMMA Effects ==
  ASSUME PackedTypeOK
  PROVE  /\ args_iter(mir) \subseteq Bits(mir)
         /\ phase = "build" /\ bb \in Blocks(mir) =>
              /\ Absent(mir, bb, j_stmt) \subseteq Bits(mir)
              /\ Present(mir, bb, j_stmt) \subseteq Bits(mir)
<1>1. IsBody(mir) /\ Locals(mir) \subseteq Bits(mir) BY Body, WordsPerBlock
<1> QED BY <1>1, Starts, EffectsAreLocals DEF PackedTypeOK

\* A slice that is cleared and then filled.
LEMMA AddCleared ==
  ASSUME NEW m, IsBody(m), NEW paths, paths \subseteq Bits(m)
  PROVE  /\ add([w \in SliceWords(m) |-> {}], paths) \in Slices(m)
         /\ BitsOf(m, add([w \in SliceWords(m) |-> {}], paths)) = paths
<1> DEFINE cleared == [w \in SliceWords(m) |-> {}]
<1>1. cleared \in Slices(m) /\ BitsOf(m, cleared) = {}
  BY InSlice DEF Slices, Words, BitsOf
<1>2. paths \in SUBSET Bits(m) OBVIOUS
<1> HIDE DEF cleared
<1>3. add(cleared, paths) \in Slices(m) /\ BitsOf(m, add(cleared, paths)) = BitsOf(m, cleared) \union paths
  BY <1>1, <1>2, AddRemove
<1> QED BY <1>1, <1>3 DEF cleared

LEMMA PackedTypeStep == PackedTypeOK /\ [Next]_vars => PackedTypeOK'
<1> SUFFICES ASSUME PackedTypeOK, [Next]_vars PROVE PackedTypeOK'
  OBVIOUS
<1>0. /\ IsBody(mir)
      /\ Len(mir.blocks) \in Nat /\ Len(mir.blocks) >= 1
      /\ \A b \in Blocks(mir) : TermIndex(mir, b) \in Nat \ {0}
  BY Body
<1>1. CASE StartBlockEffect
  <2>1. add([w \in SliceWords(mir) |-> {}], args_iter(mir)) \in Slices(mir)
    BY <1>0, Effects, AddCleared
  <2>2. on_entry_sets' \in Vectors(mir)
    BY <1>0, <1>1, <2>1, Starts, StoreSlice DEF StartBlockEffect, PackedTypeOK
  <2> QED BY <1>0, <1>1, <2>2 DEF StartBlockEffect, PackedTypeOK
<1>2. CASE LocationEffect
  <2>0. bb \in Blocks(mir) /\ phase = "build" BY <1>2 DEF LocationEffect
  <2> DEFINE absent == Absent(mir, bb, j_stmt)
             present == Present(mir, bb, j_stmt)
             gen == SliceOf(mir, gen_sets, bb)
             kill == SliceOf(mir, kill_sets, bb)
  <2>1. absent \in SUBSET Bits(mir) /\ present \in SUBSET Bits(mir) BY <2>0, Effects
  <2>2. gen \in Slices(mir) /\ kill \in Slices(mir)
    BY <1>0, <2>0, SliceType DEF PackedTypeOK
  <2> HIDE DEF absent, present, gen, kill
  <2>3. add(remove(gen, absent), present) \in Slices(mir)
    BY <1>0, <2>1, <2>2, AddRemove
  <2>4. remove(add(kill, absent), present) \in Slices(mir)
    BY <1>0, <2>1, <2>2, AddRemove
  <2>5. /\ gen_sets' = Store(mir, gen_sets, bb, add(remove(gen, absent), present))
        /\ kill_sets' = Store(mir, kill_sets, bb, remove(add(kill, absent), present))
    BY <1>2 DEF LocationEffect, update_bits, absent, present, gen, kill
  <2>6. gen_sets' \in Vectors(mir) /\ kill_sets' \in Vectors(mir)
    BY <1>0, <2>0, <2>3, <2>4, <2>5, StoreSlice DEF PackedTypeOK
  <2>7. /\ bb' \in 1..(Len(mir.blocks) + 1)
        /\ j_stmt' \in IF bb' \in Blocks(mir) THEN 1..TermIndex(mir, bb') ELSE {1}
    <3>0. j_stmt \in 1..TermIndex(mir, bb) BY <2>0 DEF PackedTypeOK
    <3>1. CASE AtTerm(mir, bb, j_stmt)
      BY <1>0, <1>2, <2>0, <3>1 DEF LocationEffect, Blocks
    <3>2. CASE ~AtTerm(mir, bb, j_stmt)
      BY <1>0, <1>2, <2>0, <3>0, <3>2 DEF LocationEffect, Blocks, AtTerm
    <3> QED BY <3>1, <3>2
  <2> QED BY <1>0, <1>2, <2>0, <2>6, <2>7 DEF LocationEffect, PackedTypeOK
<1>3. ASSUME BeginPass, phase # "edges", phase' = "walk", bb \notin Blocks(mir) \/ phase # "build"
      PROVE  PackedTypeOK'
  <2>1. in_out' \in Slices(mir) BY <1>3 DEF BeginPass, PackedTypeOK, Slices, Words
  <2>2. j_stmt = 1 BY <1>3 DEF PackedTypeOK
  <2>3. /\ mir' = mir /\ j_stmt' = j_stmt /\ edge' = edge
        /\ gen_sets' = gen_sets /\ kill_sets' = kill_sets /\ on_entry_sets' = on_entry_sets
        /\ bb' = 1 /\ changed' = FALSE
    BY <1>3 DEF BeginPass, sets, START_BLOCK
  <2>4. bb' \in 1..(Len(mir.blocks) + 1) BY <1>0, <2>3
  <2> QED BY <1>3, <2>1, <2>2, <2>3, <2>4 DEF PackedTypeOK
<1>4. CASE EndBuild
  BY <1>3, <1>4 DEF EndBuild
<1>5. CASE NextPass
  BY <1>3, <1>5 DEF NextPass
<1>6. CASE LoadBlock
  <2>0. bb \in Blocks(mir) BY <1>6 DEF LoadBlock
  <2>1. /\ SliceOf(mir, on_entry_sets, bb) \in Slices(mir)
        /\ SliceOf(mir, gen_sets, bb) \in Slices(mir)
        /\ SliceOf(mir, kill_sets, bb) \in Slices(mir)
    BY <1>0, <2>0, SliceType DEF PackedTypeOK
  <2>2. in_out' \in Slices(mir)
    BY <1>0, <1>6, <2>1, Bitwise DEF LoadBlock
  <2> QED BY <1>0, <1>6, <2>0, <2>2 DEF LoadBlock, PackedTypeOK, sets
<1>7. CASE PropagateEdge
  <2>0. bb \in Blocks(mir) /\ edge \in Edges(bb)
    BY <1>7 DEF PropagateEdge, PackedTypeOK
  <2> DEFINE target == successors(Term(mir, bb))[edge]
  <2>1. target \in Blocks(mir) /\ EdgeFills(bb, edge) \subseteq Bits(mir)
    BY <2>0, Body
  <2>2. in_out' \in Slices(mir)
    BY <1>0, <1>7, <2>1, AddRemove DEF PropagateEdge, PackedTypeOK
  <2>3. SliceOf(mir, on_entry_sets, target) \in Slices(mir)
    BY <1>0, <2>1, SliceType DEF PackedTypeOK
  <2>4. join(SliceOf(mir, on_entry_sets, target), in_out') \in Slices(mir)
    BY <1>0, <2>2, <2>3, Bitwise
  <2>5. on_entry_sets' \in Vectors(mir)
    BY <1>0, <1>7, <2>1, <2>4, StoreSlice DEF PropagateEdge, PackedTypeOK
  <2> QED BY <1>0, <1>7, <2>0, <2>2, <2>5 DEF PropagateEdge, PackedTypeOK
<1>8. CASE NextBlock
  BY <1>0, <1>8 DEF NextBlock, PackedTypeOK, sets, Blocks
<1>9. CASE Finish
  BY <1>0, <1>9 DEF Finish, PackedTypeOK, sets
<1>10. CASE UNCHANGED vars
  BY <1>10 DEF vars, PackedTypeOK
<1> QED BY <1>1, <1>2, <1>4, <1>5, <1>6, <1>7, <1>8, <1>9, <1>10 DEF Next

\* Every vector keeps its size and every word its width.
THEOREM PackedTypeInvariant == Spec => []PackedTypeOK
BY PackedTypeInit, PackedTypeStep, PTL DEF Spec

\* No step of the analysis looks a bit up, or takes the range of a block, that
\* is not there: the guards InBounds stop nothing.
THEOREM LookupsCorrect == Spec => []LookupsInBounds
<1>1. ASSUME PackedTypeOK PROVE LookupsInBounds
  <2>0. IsBody(mir) /\ START_BLOCK \in Blocks(mir) BY <1>1, Body, Starts
  <2>1. ASSUME NEW b \in Blocks(mir), NEW w \in SliceWords(mir)
        PROVE  offset(mir, b) + w
                 \in DOMAIN gen_sets \intersect DOMAIN kill_sets \intersect DOMAIN on_entry_sets
    BY <1>1, <2>0, Ranges DEF PackedTypeOK, Vectors
  <2>2. DOMAIN in_out = SliceWords(mir) BY <1>1 DEF PackedTypeOK, Slices
  <2>3. ASSUME NEW slice, DOMAIN slice = SliceWords(mir), NEW paths, paths \subseteq Bits(mir)
        PROVE  InBounds(slice, paths)
    BY <2>0, <2>3, InSlice DEF InBounds
  <2>4. \A words, b : DOMAIN SliceOf(mir, words, b) = SliceWords(mir) BY DEF SliceOf
  <2>5. phase = "start" => InBounds(SliceOf(mir, on_entry_sets, START_BLOCK), args_iter(mir))
    BY <1>1, <2>3, <2>4, Effects
  <2>6. phase = "build" /\ bb \in Blocks(mir) =>
          InBounds(SliceOf(mir, gen_sets, bb), Absent(mir, bb, j_stmt) \union Present(mir, bb, j_stmt))
    BY <1>1, <2>3, <2>4, Effects
  <2>7. ASSUME phase = "edges" PROVE \A k \in Edges(bb) : InBounds(in_out, EdgeFills(bb, k))
    <3>1. bb \in Blocks(mir) BY <1>1, <2>7 DEF PackedTypeOK
    <3> QED BY <1>1, <2>2, <2>3, <3>1, Body
  <2> QED BY <2>1, <2>2, <2>5, <2>6, <2>7 DEF LookupsInBounds
<1> QED BY <1>1, PackedTypeInvariant, PTL

-----------------------------------------------------------------------------
(***************************************************************************)
(* The refinement.  While the edges of a block are propagated the mapping  *)
(* already shows the block as done, so the step of Dataflow happens when   *)
(* in_out is loaded, and the edges stutter.                                *)
(***************************************************************************)

\* The instance has its own copy of the operators on bodies.
LEMMA SameMir ==
  ASSUME NEW m
  PROVE  /\ Sets!START_BLOCK = START_BLOCK
         /\ Sets!Blocks(m) = Blocks(m)
         /\ Sets!Bits(m) = Bits(m)
         /\ Sets!args_iter(m) = args_iter(m)
         /\ \A t : Sets!successors(t) = successors(t)
         /\ \A b : Sets!Term(m, b) = Term(m, b)
         /\ \A b, i : /\ Sets!AtTerm(m, b, i) <=> AtTerm(m, b, i)
                      /\ Sets!Absent(m, b, i) = Absent(m, b, i)
                      /\ Sets!Present(m, b, i) = Present(m, b, i)
<1>1. \A b, i : Sets!AtTerm(m, b, i) <=> AtTerm(m, b, i)
  BY DEF Sets!AtTerm, AtTerm, Sets!TermIndex, TermIndex, Sets!Stmts, Stmts
<1>2. \A b, i : Sets!Absent(m, b, i) = Absent(m, b, i)
  BY DEF Sets!Absent, Absent, Sets!AtTerm, AtTerm, Sets!TermIndex, TermIndex, Sets!Stmts, Stmts,
         Sets!TermMoves, TermMoves, Sets!StmtMoves, StmtMoves, Sets!Term, Term,
         Sets!RETURN_POINTER, RETURN_POINTER
<1>3. \A b, i : Sets!Present(m, b, i) = Present(m, b, i)
  BY DEF Sets!Present, Present, Sets!AtTerm, AtTerm, Sets!TermIndex, TermIndex, Sets!Stmts, Stmts
<1>4. /\ Sets!START_BLOCK = START_BLOCK
      /\ Sets!Blocks(m) = Blocks(m)
      /\ Sets!Bits(m) = Bits(m)
      /\ Sets!args_iter(m) = args_iter(m)
      /\ \A t : Sets!successors(t) = successors(t)
      /\ \A b : Sets!Term(m, b) = Term(m, b)
  BY DEF Sets!START_BLOCK, START_BLOCK, Sets!Blocks, Blocks, Sets!args_iter, args_iter,
         Sets!successors, successors, Sets!Term, Term,
         Sets!Bits, Bits, bits_per_block, words_per_block, Sets!words_per_block
<1> QED BY <1>1, <1>2, <1>3, <1>4

\* Between two blocks the mapping is plain.
LEMMA Quiet ==
  ASSUME phase # "edges"
  PROVE  /\ Settled = SetFor(on_entry_sets)
         /\ LoopPhase = phase /\ LoopBlock = bb
         /\ changed \in BOOLEAN => LoopChanged = changed
<1>1. \A s : Pending(s) = {} BY DEF Pending
<1>2. Settled = SetFor(on_entry_sets) BY <1>1 DEF Settled, SetFor
<1> QED BY <1>2 DEF LoopPhase, LoopBlock, LoopChanged

LEMMA QuietNext ==
  ASSUME phase' # "edges"
  PROVE  /\ Settled' = SetFor(on_entry_sets)'
         /\ LoopPhase' = phase' /\ LoopBlock' = bb'
         /\ changed' \in BOOLEAN => LoopChanged' = changed'
<1>1. \A s : Pending(s)' = {} BY DEF Pending
<1>2. Settled' = SetFor(on_entry_sets)' BY <1>1 DEF Settled, SetFor
<1> QED BY <1>2 DEF LoopPhase, LoopBlock, LoopChanged

\* The sets that the words of the vectors stand for stay as they are when the
\* vectors do.
LEMMA SameSets ==
  ASSUME mir' = mir
  PROVE  /\ gen_sets' = gen_sets => SetFor(gen_sets)' = SetFor(gen_sets)
         /\ kill_sets' = kill_sets => SetFor(kill_sets)' = SetFor(kill_sets)
         /\ on_entry_sets' = on_entry_sets => SetFor(on_entry_sets)' = SetFor(on_entry_sets)
BY DEF SetFor

\* New vectors stand for empty sets, and for full ones.
LEMMA NewSets ==
  ASSUME NEW m, IsBody(m), NEW word \in Words, NEW b \in Blocks(m)
  PROVE  BitsOf(m, SliceOf(m, NewSet(word, Len(m.blocks) * bits_per_block(m)), b))
           = {e \in Bits(m) : bit_lookup(e).bit \in word}
<1>1. Len(m.blocks) \in Nat /\ words_per_block(m) \in Nat BY WordsPerBlock DEF IsBody
<1> DEFINE n == Len(m.blocks) * words_per_block(m)
           v == NewSet(word, Len(m.blocks) * bits_per_block(m))
<1>2. n \in Nat BY <1>1, SMT
<1>3. Len(m.blocks) * bits_per_block(m) = n * WordBits
  BY <1>1, WordBitsAssumption, SMT DEF bits_per_block
<1>4. DOMAIN v = 0..(n - 1) BY <1>2, <1>3, NewVector
<1>5. \A i \in DOMAIN v : v[i] = word BY DEF NewSet
<1>6. \A w \in SliceWords(m) : offset(m, b) + w \in 0..(n - 1) BY Ranges
<1> HIDE DEF n, v
<1>7. \A w \in SliceWords(m) : SliceOf(m, v, b)[w] = word
  BY <1>4, <1>5, <1>6 DEF SliceOf
<1>8. \A e \in Bits(m) : bit_lookup(e).word \in SliceWords(m) BY InSlice
<1> QED BY <1>7, <1>8 DEF BitsOf, v

LEMMA RefinesInit == Init => Sets!Init
<1> SUFFICES ASSUME NEW m \in Mirs, NewAnalysis(m) PROVE Sets!NewAnalysis(m)
  BY DEF Init, Sets!Init
<1>1. IsBody(m) BY MirsAssumption
<1>2. mir = m /\ phase = "start" /\ bb = START_BLOCK /\ j_stmt = 1 /\ changed = TRUE
  BY DEF NewAnalysis
<1>3. {} \in Words /\ Filled \in Words BY DEF Words
<1>4. SetFor(gen_sets) = [b \in Blocks(m) |-> {}] /\ SetFor(kill_sets) = [b \in Blocks(m) |-> {}]
  <2>1. \A b \in Blocks(m) : /\ BitsOf(m, SliceOf(m, gen_sets, b)) = {}
                            /\ BitsOf(m, SliceOf(m, kill_sets, b)) = {}
    <3> TAKE b \in Blocks(m)
    <3> DEFINE empty == {}
    <3>1. empty \in Words BY DEF Words
    <3>2. {e \in Bits(m) : bit_lookup(e).bit \in empty} = {} OBVIOUS
    <3>3. /\ gen_sets = NewSet(empty, Len(m.blocks) * bits_per_block(m))
          /\ kill_sets = NewSet(empty, Len(m.blocks) * bits_per_block(m))
      BY DEF NewAnalysis
    <3> HIDE DEF empty
    <3>4. /\ BitsOf(m, SliceOf(m, gen_sets, b)) = {e \in Bits(m) : bit_lookup(e).bit \in empty}
          /\ BitsOf(m, SliceOf(m, kill_sets, b)) = {e \in Bits(m) : bit_lookup(e).bit \in empty}
      BY <1>1, <3>1, <3>3, NewSets
    <3> QED BY <3>2, <3>4
  <2> QED BY <1>2, <2>1 DEF SetFor
<1>5. SetFor(on_entry_sets) = [b \in Blocks(m) |-> Bits(m)]
  <2>1. \A e \in Bits(m) : bit_lookup(e).bit \in Filled BY <1>1, InSlice
  <2>2. \A b \in Blocks(m) :
          BitsOf(m, SliceOf(m, on_entry_sets, b)) = {e \in Bits(m) : bit_lookup(e).bit \in Filled}
    BY <1>1, <1>3, NewSets DEF NewAnalysis
  <2>3. \A b \in Blocks(m) : BitsOf(m, SliceOf(m, on_entry_sets, b)) = Bits(m)
    BY <2>1, <2>2
  <2> QED BY <1>2, <2>3 DEF SetFor
<1> QED BY <1>2, <1>4, <1>5, Quiet, SameMir DEF Sets!NewAnalysis

LEMMA RefinesStart ==
  ASSUME PackedTypeOK, StartBlockEffect
  PROVE  Sets!StartBlockEffect
<1>0. IsBody(mir) /\ START_BLOCK \in Blocks(mir) BY Body, Starts
<1>1. /\ phase = "start" /\ phase' = "build" /\ mir' = mir /\ bb' = bb /\ j_stmt' = j_stmt
      /\ gen_sets' = gen_sets /\ kill_sets' = kill_sets /\ changed' = changed
  BY DEF StartBlockEffect
<1> DEFINE filled == add([w \in SliceWords(mir) |-> {}], args_iter(mir))
<1>2. filled \in Slices(mir) /\ BitsOf(mir, filled) = args_iter(mir)
  BY <1>0, Effects, AddCleared
<1>3. on_entry_sets' = Store(mir, on_entry_sets, START_BLOCK, filled)
  BY DEF StartBlockEffect
<1> HIDE DEF filled
<1>4. SetFor(on_entry_sets)' = [SetFor(on_entry_sets) EXCEPT ![START_BLOCK] = args_iter(mir)]
  <2> DEFINE words == on_entry_sets'
             set == args_iter(mir)
  <2>1. words = Store(mir, on_entry_sets, START_BLOCK, filled) /\ on_entry_sets \in Vectors(mir)
    BY <1>3 DEF PackedTypeOK
  <2> HIDE DEF words, set
  <2>2. [c \in Blocks(mir) |-> BitsOf(mir, SliceOf(mir, words, c))]
          = [[c \in Blocks(mir) |-> BitsOf(mir, SliceOf(mir, on_entry_sets, c))] EXCEPT ![START_BLOCK] = set]
    BY <1>0, <1>2, <2>1, StoreSet DEF set
  <2> QED BY <1>1, <2>2 DEF SetFor, words, set
<1>5. changed \in BOOLEAN BY DEF PackedTypeOK
<1> QED BY <1>1, <1>4, <1>5, Quiet, QuietNext, SameSets, SameMir DEF Sets!StartBlockEffect

LEMMA RefinesLocation ==
  ASSUME PackedTypeOK, LocationEffect
  PROVE  Sets!LocationEffect
<1>0. /\ IsBody(mir) /\ bb \in Blocks(mir) /\ phase = "build" /\ phase' = phase /\ mir' = mir
      /\ on_entry_sets' = on_entry_sets /\ changed' = changed /\ changed \in BOOLEAN
      /\ gen_sets \in Vectors(mir) /\ kill_sets \in Vectors(mir)
  BY Body DEF LocationEffect, PackedTypeOK
<1> DEFINE absent == Absent(mir, bb, j_stmt)
           present == Present(mir, bb, j_stmt)
           gen == SliceOf(mir, gen_sets, bb)
           kill == SliceOf(mir, kill_sets, bb)
<1>1. absent \in SUBSET Bits(mir) /\ present \in SUBSET Bits(mir) BY <1>0, Effects
<1>2. gen \in Slices(mir) /\ kill \in Slices(mir) BY <1>0, SliceType
<1>3. /\ gen_sets' = Store(mir, gen_sets, bb, add(remove(gen, absent), present))
      /\ kill_sets' = Store(mir, kill_sets, bb, remove(add(kill, absent), present))
  BY DEF LocationEffect, update_bits
<1>4. SetFor(gen_sets)[bb] = BitsOf(mir, gen) /\ SetFor(kill_sets)[bb] = BitsOf(mir, kill)
  BY <1>0 DEF SetFor
<1> HIDE DEF absent, present, gen, kill
<1>5. /\ add(remove(gen, absent), present) \in Slices(mir)
      /\ BitsOf(mir, add(remove(gen, absent), present)) = (BitsOf(mir, gen) \ absent) \union present
  BY <1>0, <1>1, <1>2, AddRemove
<1>6. /\ remove(add(kill, absent), present) \in Slices(mir)
      /\ BitsOf(mir, remove(add(kill, absent), present)) = (BitsOf(mir, kill) \union absent) \ present
  BY <1>0, <1>1, <1>2, AddRemove
<1>7. SetFor(gen_sets)' =
        [SetFor(gen_sets) EXCEPT ![bb] = (BitsOf(mir, gen) \ absent) \union present]
  <2> DEFINE stored == add(remove(gen, absent), present)
             set == (BitsOf(mir, gen) \ absent) \union present
             after == gen_sets'
  <2>1. stored \in Slices(mir) /\ BitsOf(mir, stored) = set /\ after = Store(mir, gen_sets, bb, stored)
    BY <1>3, <1>5
  <2> HIDE DEF stored, set, after
  <2>2. [c \in Blocks(mir) |-> BitsOf(mir, SliceOf(mir, after, c))]
          = [[c \in Blocks(mir) |-> BitsOf(mir, SliceOf(mir, gen_sets, c))] EXCEPT ![bb] = set]
    BY <1>0, <2>1, StoreSet
  <2> QED BY <1>0, <2>2 DEF SetFor, after, set
<1>8. SetFor(kill_sets)' =
        [SetFor(kill_sets) EXCEPT ![bb] = (BitsOf(mir, kill) \union absent) \ present]
  <2> DEFINE stored == remove(add(kill, absent), present)
             set == (BitsOf(mir, kill) \union absent) \ present
             after == kill_sets'
  <2>1. stored \in Slices(mir) /\ BitsOf(mir, stored) = set /\ after = Store(mir, kill_sets, bb, stored)
    BY <1>3, <1>6
  <2> HIDE DEF stored, set, after
  <2>2. [c \in Blocks(mir) |-> BitsOf(mir, SliceOf(mir, after, c))]
          = [[c \in Blocks(mir) |-> BitsOf(mir, SliceOf(mir, kill_sets, c))] EXCEPT ![bb] = set]
    BY <1>0, <2>1, StoreSet
  <2> QED BY <1>0, <2>2 DEF SetFor, after, set
<1>9. Sets!update_bits(bb, j_stmt)
  BY <1>4, <1>7, <1>8, SameMir DEF Sets!update_bits, absent, present
<1>10. IF AtTerm(mir, bb, j_stmt)
       THEN bb' = bb + 1 /\ j_stmt' = 1
       ELSE bb' = bb /\ j_stmt' = j_stmt + 1
  BY DEF LocationEffect
<1> QED BY <1>0, <1>9, <1>10, Quiet, QuietNext, SameSets, SameMir DEF Sets!LocationEffect

LEMMA RefinesPass ==
  ASSUME PackedTypeOK, BeginPass, phase # "edges", phase' # "edges"
  PROVE  Sets!BeginPass
<1>1. /\ mir' = mir /\ j_stmt' = j_stmt /\ changed' = FALSE /\ bb' = START_BLOCK
      /\ gen_sets' = gen_sets /\ kill_sets' = kill_sets /\ on_entry_sets' = on_entry_sets
  BY DEF BeginPass, sets
<1> QED BY <1>1, Quiet, QuietNext, SameSets, SameMir DEF Sets!BeginPass

LEMMA RefinesLoad ==
  ASSUME PackedTypeOK, LoadBlock
  PROVE  Sets!WalkBlock
<1>0. /\ IsBody(mir) /\ bb \in Blocks(mir) /\ phase = "walk" /\ phase' = "edges" /\ edge' = 1
      /\ mir' = mir /\ bb' = bb /\ j_stmt' = j_stmt /\ changed' = changed
      /\ gen_sets' = gen_sets /\ kill_sets' = kill_sets /\ on_entry_sets' = on_entry_sets
      /\ changed \in BOOLEAN
  BY Body DEF LoadBlock, PackedTypeOK, sets
<1> DEFINE entry == SliceOf(mir, on_entry_sets, bb)
           gen == SliceOf(mir, gen_sets, bb)
           kill == SliceOf(mir, kill_sets, bb)
<1>1. entry \in Slices(mir) /\ gen \in Slices(mir) /\ kill \in Slices(mir)
  BY <1>0, SliceType DEF PackedTypeOK
<1>2. in_out' = subtract(union(entry, gen), kill) BY DEF LoadBlock
<1>3. /\ SetFor(on_entry_sets)[bb] = BitsOf(mir, entry)
      /\ SetFor(gen_sets)[bb] = BitsOf(mir, gen)
      /\ SetFor(kill_sets)[bb] = BitsOf(mir, kill)
  BY <1>0 DEF SetFor
<1> HIDE DEF entry, gen, kill
<1>4. BitsOf(mir, in_out') = (BitsOf(mir, entry) \union BitsOf(mir, gen)) \ BitsOf(mir, kill)
  BY <1>0, <1>1, <1>2, Bitwise
<1>5. BitsOf(mir, in_out') = Sets!out(bb)
  BY <1>0, <1>3, <1>4, Quiet DEF Sets!out
<1>6. \A s \in Blocks(mir) : Pending(s)' = Sets!EdgesTo(bb, s)
  BY <1>0, SameMir DEF Pending, Edges, Sets!EdgesTo, Sets!Edges
<1>7. \A k \in Edges(bb) : Carried(k)' = Sets!EdgeBits(bb, k)
  BY <1>0, <1>5, SameMir DEF Carried, EdgeFills, Sets!EdgeBits
<1>8. Settled' = [s \in Blocks(mir) |->
                    {e \in SetFor(on_entry_sets)[s] :
                       \A k \in Sets!EdgesTo(bb, s) : e \in Sets!EdgeBits(bb, k)}]
  <2>1. \A s \in Blocks(mir) : Sets!EdgesTo(bb, s) \subseteq Edges(bb)
    BY SameMir DEF Sets!EdgesTo, Sets!Edges, Edges
  <2>2. SetFor(on_entry_sets)' = SetFor(on_entry_sets) BY <1>0, SameSets
  <2>3. Settled' = [s \in Blocks(mir) |->
                      {e \in SetFor(on_entry_sets)'[s] : \A k \in Pending(s)' : e \in Carried(k)'}]
    BY <1>0 DEF Settled
  <2>4. \A s \in Blocks(mir) :
          {e \in SetFor(on_entry_sets)'[s] : \A k \in Pending(s)' : e \in Carried(k)'}
            = {e \in SetFor(on_entry_sets)[s] :
                 \A k \in Sets!EdgesTo(bb, s) : e \in Sets!EdgeBits(bb, k)}
    BY <1>6, <1>7, <2>1, <2>2
  <2> QED BY <2>3, <2>4
<1>9. LoopChanged' = (LoopChanged \/ Settled' # Settled)
  BY <1>0, Quiet, SameSets DEF LoopChanged
<1>10. LoopBlock' = LoopBlock + 1 /\ LoopPhase = "walk" /\ LoopPhase' = LoopPhase /\ LoopBlock = bb
  BY <1>0 DEF LoopBlock, LoopPhase
<1> QED BY <1>0, <1>8, <1>9, <1>10, Quiet, SameSets, SameMir DEF Sets!WalkBlock

LEMMA RefinesEdge ==
  ASSUME PackedTypeOK, PropagateEdge
  PROVE  UNCHANGED Sets!vars
<1>0. /\ IsBody(mir) /\ bb \in Blocks(mir) /\ phase = "edges" /\ phase' = phase
      /\ edge \in Edges(bb) /\ edge' = edge + 1 /\ edge \in Nat
      /\ mir' = mir /\ bb' = bb /\ j_stmt' = j_stmt
      /\ gen_sets' = gen_sets /\ kill_sets' = kill_sets /\ changed \in BOOLEAN
  BY Body DEF PropagateEdge, PackedTypeOK
<1> DEFINE target == successors(Term(mir, bb))[edge]
           fills == EdgeFills(bb, edge)
           entry == SliceOf(mir, on_entry_sets, target)
           joined == join(entry, in_out')
<1>1. target \in Blocks(mir) /\ fills \in SUBSET Bits(mir) BY <1>0, Body
<1>2. in_out' \in Slices(mir) /\ BitsOf(mir, in_out') = BitsOf(mir, in_out) \union fills
  BY <1>0, <1>1, AddRemove DEF PropagateEdge, PackedTypeOK
<1>3. entry \in Slices(mir) BY <1>0, <1>1, SliceType DEF PackedTypeOK
<1>4. joined \in Slices(mir) /\ BitsOf(mir, joined) = BitsOf(mir, entry) \intersect BitsOf(mir, in_out')
  BY <1>0, <1>2, <1>3, Bitwise
<1>5. on_entry_sets' = Store(mir, on_entry_sets, target, joined) /\ changed' = (changed \/ joined # entry)
  BY DEF PropagateEdge
<1> DEFINE before == SetFor(on_entry_sets)
           after == SetFor(on_entry_sets)'
<1>6. before[target] = BitsOf(mir, entry) BY <1>1 DEF SetFor
<1>7. DOMAIN before = Blocks(mir) /\ DOMAIN after = Blocks(mir) BY <1>0 DEF SetFor
<1> HIDE DEF fills, entry, joined
<1> HIDE DEF target
<1>8. after = [before EXCEPT ![target] = BitsOf(mir, joined)]
  <2> DEFINE words == on_entry_sets'
             set == BitsOf(mir, joined)
  <2>1. /\ words = Store(mir, on_entry_sets, target, joined)
        /\ on_entry_sets \in Vectors(mir)
        /\ joined \in Slices(mir) /\ BitsOf(mir, joined) = set
    BY <1>4, <1>5 DEF PackedTypeOK
  <2> HIDE DEF words, set
  <2>2. [c \in Blocks(mir) |-> BitsOf(mir, SliceOf(mir, words, c))]
          = [[c \in Blocks(mir) |-> BitsOf(mir, SliceOf(mir, on_entry_sets, c))] EXCEPT ![target] = set]
    BY <1>0, <1>1, <2>1, StoreSet
  <2> QED BY <1>0, <2>2 DEF SetFor, words, set
<1>9. Carried(edge) = BitsOf(mir, in_out') BY <1>2 DEF Carried, fills
<1>10. \A k \in Edges(bb) : k > edge => Carried(k)' = Carried(k)
  <2>1. CASE Term(mir, bb).op = "Suspend"
    <3>1. IsTerminator(Term(mir, bb), mir.nlocals, Len(mir.blocks)) BY <1>0 DEF IsBody
    <3>2. Len(successors(Term(mir, bb))) = 1 BY <2>1, <3>1 DEF IsTerminator, successors
    <3>3. Edges(bb) = {1} BY <3>2 DEF Edges
    <3> QED BY <1>0, <3>3
  <2>2. CASE Term(mir, bb).op # "Suspend"
    BY <1>0, <1>2, <2>2 DEF Carried, EdgeFills, fills
  <2> QED BY <2>1, <2>2
<1>11. \A s \in Blocks(mir) :
         /\ Pending(s) = Pending(s)' \union (IF s = target THEN {edge} ELSE {})
         /\ \A k \in Pending(s)' : k \in Edges(bb) /\ k > edge
  <2>1. \A k \in Edges(bb) : k \in Int BY DEF Edges
  <2> QED BY <1>0, <2>1 DEF Pending, Edges, target
<1>12. \A s \in Blocks(mir) :
         {e \in after[s] : \A k \in Pending(s)' : e \in Carried(k)'}
           = {e \in before[s] : \A k \in Pending(s) : e \in Carried(k)}
  <2> TAKE s \in Blocks(mir)
  <2>1. \A k \in Pending(s)' : Carried(k)' = Carried(k) BY <1>10, <1>11
  <2>2. CASE s = target
    <3>1. after[s] = before[s] \intersect Carried(edge)
      BY <1>4, <1>6, <1>7, <1>8, <1>9, <2>2
    <3>2. Pending(s) = Pending(s)' \union {edge} BY <1>11, <2>2
    <3> HIDE DEF before, after
    <3> QED BY <2>1, <3>1, <3>2
  <2>3. CASE s # target
    <3>1. after[s] = before[s] BY <1>7, <1>8, <2>3
    <3>2. Pending(s) = Pending(s)' BY <1>11, <2>3
    <3> HIDE DEF before, after
    <3> QED BY <2>1, <3>1, <3>2
  <2> QED BY <2>2, <2>3
<1>13. Settled' = Settled
  <2>1. Settled' = [s \in Blocks(mir) |->
                      {e \in after[s] : \A k \in Pending(s)' : e \in Carried(k)'}]
    BY <1>0 DEF Settled
  <2> QED BY <1>12, <2>1 DEF Settled
<1>14. LoopChanged' = LoopChanged
  <2>1. CASE joined = entry
    <3>0. before = [before EXCEPT ![target] = before[target]]
      BY DEF SetFor
    <3>1. after = before
      <4> HIDE DEF before, after
      <4> QED BY <1>6, <1>8, <2>1, <3>0
    <3>2. changed' = changed BY <1>0, <1>5, <2>1
    <3> QED BY <1>13, <3>1, <3>2 DEF LoopChanged
  <2>2. CASE joined # entry
    <3>1. BitsOf(mir, joined) # BitsOf(mir, entry) BY <1>0, <1>3, <1>4, <2>2, SameWords
    <3>2. PICK e : e \in before[target] /\ e \notin Carried(edge)
      BY <1>4, <1>6, <1>9, <3>1
    <3>3. edge \in Pending(target) BY <1>0, <1>1, <1>11
    <3>4. e \notin Settled[target] BY <1>1, <3>2, <3>3 DEF Settled
    <3>5. Settled # before BY <3>2, <3>4
    <3>6. changed' = TRUE BY <1>5, <2>2
    <3> QED BY <3>5, <3>6 DEF LoopChanged
  <2> QED BY <2>1, <2>2
<1>15. LoopPhase' = LoopPhase /\ LoopBlock' = LoopBlock
  BY <1>0 DEF LoopPhase, LoopBlock
<1> QED BY <1>0, <1>13, <1>14, <1>15, SameSets DEF Sets!vars

LEMMA RefinesNextBlock ==
  ASSUME PackedTypeOK, NextBlock
  PROVE  UNCHANGED Sets!vars
<1>0. /\ bb \in Blocks(mir) /\ phase = "edges" /\ phase' = "walk" /\ bb' = bb + 1
      /\ edge \notin Edges(bb) /\ edge \in Nat \ {0} /\ mir' = mir /\ j_stmt' = j_stmt
      /\ gen_sets' = gen_sets /\ kill_sets' = kill_sets /\ on_entry_sets' = on_entry_sets
      /\ changed' = changed /\ changed \in BOOLEAN
  BY DEF NextBlock, PackedTypeOK, sets
<1>1. Len(successors(Term(mir, bb))) \in Nat BY <1>0, Body
<1>2. \A s \in Blocks(mir) : Pending(s) = {}
  BY <1>0, <1>1 DEF Pending, Edges
<1>3. Settled = SetFor(on_entry_sets) BY <1>2 DEF Settled, SetFor
<1>4. Settled' = Settled BY <1>0, <1>3, QuietNext, SameSets
<1>5. LoopChanged' = LoopChanged BY <1>0, <1>3, QuietNext DEF LoopChanged
<1>6. LoopPhase' = LoopPhase /\ LoopBlock' = LoopBlock
  BY <1>0 DEF LoopPhase, LoopBlock
<1> QED BY <1>0, <1>4, <1>5, <1>6, SameSets DEF Sets!vars

LEMMA RefinesStep == PackedTypeOK /\ [Next]_vars => [Sets!Next]_(Sets!vars)
<1> SUFFICES ASSUME PackedTypeOK, [Next]_vars PROVE [Sets!Next]_(Sets!vars)
  OBVIOUS
<1>1. CASE StartBlockEffect BY <1>1, RefinesStart DEF Sets!Next
<1>2. CASE LocationEffect BY <1>2, RefinesLocation DEF Sets!Next
<1>3. CASE EndBuild
  <2>1. phase = "build" /\ phase' = "walk" /\ bb \notin Blocks(mir) /\ BeginPass
    BY <1>3 DEF EndBuild
  <2>2. Sets!EndBuild
    BY <2>1, RefinesPass, Quiet, QuietNext, SameMir DEF Sets!EndBuild
  <2> QED BY <2>2 DEF Sets!Next
<1>4. CASE LoadBlock BY <1>4, RefinesLoad DEF Sets!Next
<1>5. CASE PropagateEdge BY <1>5, RefinesEdge
<1>6. CASE NextBlock BY <1>6, RefinesNextBlock
<1>7. CASE NextPass
  <2>1. phase = "walk" /\ phase' = "walk" /\ bb \notin Blocks(mir) /\ changed /\ BeginPass
    BY <1>7 DEF NextPass
  <2>2. changed \in BOOLEAN BY DEF PackedTypeOK
  <2>3. Sets!NextPass
    BY <2>1, <2>2, RefinesPass, Quiet, QuietNext, SameMir DEF Sets!NextPass
  <2> QED BY <2>3 DEF Sets!Next
<1>8. CASE Finish
  <2>1. /\ phase = "walk" /\ phase' = "done" /\ bb \notin Blocks(mir) /\ ~changed
        /\ mir' = mir /\ bb' = bb /\ j_stmt' = j_stmt /\ changed' = changed
        /\ gen_sets' = gen_sets /\ kill_sets' = kill_sets /\ on_entry_sets' = on_entry_sets
    BY <1>8 DEF Finish, sets
  <2>2. changed \in BOOLEAN BY DEF PackedTypeOK
  <2>3. Sets!Finish
    BY <2>1, <2>2, Quiet, QuietNext, SameSets, SameMir DEF Sets!Finish
  <2> QED BY <2>3 DEF Sets!Next
<1>9. CASE UNCHANGED vars
  BY <1>9 DEF vars, Sets!vars, SetFor, Settled, Pending, Carried, LoopPhase, LoopBlock, LoopChanged,
              Edges, EdgeFills
<1> QED BY <1>1, <1>2, <1>3, <1>4, <1>5, <1>6, <1>7, <1>8, <1>9 DEF Next

\* The packed words implement the sets, whatever the bodies and the word size:
\* every theorem about the sets of Dataflow holds of what the words stand for.
THEOREM PackedImplements == Spec => ImplementsDataflow
BY RefinesInit, RefinesStep, PackedTypeInvariant, PTL DEF Spec, ImplementsDataflow, Sets!Spec
=============================================================================
