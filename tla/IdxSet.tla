------------------------------- MODULE IdxSet -------------------------------
(***************************************************************************)
(* The iterator over a set of bits (src/src/data_structures): a set is a   *)
(* sequence of machine words, and IdxSet::iter is asked for its elements   *)
(* one by one.  elaborate_assignments reads the sets of the analysis only  *)
(* through it.                                                             *)
(***************************************************************************)
EXTENDS Integers, SequencesExt

CONSTANTS
  WordBytes,  \* size_of::<usize>()
  ByteBits,   \* the bits of a byte
  Words       \* how many words the set has

ASSUME SizesAssumption ==
  /\ WordBytes \in Nat \ {0}
  /\ ByteBits \in Nat \ {0}
  /\ Words \in Nat

VARIABLES
  bits,      \* the words of the set
  rest,      \* Iter::iter: the words not looked at yet
  current,   \* what is left of the current word, shifted down
  idx,
  returned,  \* the elements returned so far
  ended      \* next() has returned None

vars == <<bits, rest, current, idx, returned, ended>>

WordBits == WordBytes * ByteBits

trailing_zeros(word) ==
  CHOOSE z \in 0..(WordBits - 1) : (word \div 2^z) % 2 = 1 /\ word % 2^z = 0

usizes(elements) == (elements + WordBytes - 1) \div WordBytes

Init ==
  /\ bits \in [1..Words -> 0..(2^WordBits - 1)]
  /\ rest = bits
  /\ current = 0
  /\ idx = 0
  /\ returned = << >>
  /\ ended = FALSE

\* The words that are passed over: all zero, up to the next that is not.
Zeros == SelectInSeq(rest, LAMBDA word : word # 0) - 1

\* Return the lowest bit of a word that starts at index `base'.
Return(word, base) ==
  LET offset == trailing_zeros(word)
  IN /\ current' = (word \div 2^offset) \div 2
     /\ idx' = base + offset + 1
     /\ returned' = Append(returned, idx' - 1)
     /\ UNCHANGED <<bits, ended>>

\* Mutant: the bit that is returned is not shifted out.
NextInWord_Kept ==
  /\ current # 0
  /\ LET offset == trailing_zeros(current)
     IN /\ current' = current \div 2^offset
        /\ idx' = idx + offset + 1
        /\ returned' = Append(returned, idx' - 1)
  /\ UNCHANGED <<bits, rest, ended>>

NextInWord ==
  /\ current # 0
  /\ Return(current, idx)
  /\ UNCHANGED rest

NextWord ==
  /\ current = 0
  /\ Zeros >= 0
  /\ Return(rest[Zeros + 1], usizes(idx + Zeros * WordBytes) * WordBytes)
  /\ rest' = SubSeq(rest, Zeros + 2, Len(rest))

NextNone ==
  /\ current = 0
  /\ Zeros < 0
  /\ ~ended
  /\ idx' = idx + Len(rest) * WordBytes
  /\ rest' = << >>
  /\ ended' = TRUE
  /\ UNCHANGED <<bits, current, returned>>

Next == NextInWord \/ NextWord \/ NextNone

Spec == Init /\ [][Next]_vars

-----------------------------------------------------------------------------
\* The elements of the set, as IdxSet::contains and add number them.
Elements ==
  {e \in 0..(Words * WordBits - 1) : (bits[e \div WordBits + 1] \div 2^(e % WordBits)) % 2 = 1}

\* The iterator returns every element of the set, in sorted order, and
\* nothing else: never one twice or late, and None only after the last.
IterSorted ==
  /\ \A i \in 1..Len(returned) : \E e \in Elements :
       returned[i] = e /\ Cardinality({k \in Elements : k < e}) = i - 1
  /\ ended => Len(returned) = Cardinality(Elements)
=============================================================================
