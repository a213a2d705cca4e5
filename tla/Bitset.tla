---------------------------------- MODULE Bitset --------------------------------
(***************************************************************************)
(* porcupine/bitset.go: a set of numbers as the bits of an array of words. *)
(* WordBits is 64 in the code.                                             *)
(***************************************************************************)
EXTENDS Integers, FiniteSets, Functions, Bitwise

CONSTANT WordBits

\* No bit is set.
newBitset(bits) == [c \in 0..(bits \div WordBits + (IF bits % WordBits # 0 THEN 1 ELSE 0) - 1) |-> 0]

bit(pos) == 2 ^ (pos % WordBits)

setBit(b, pos) == [b EXCEPT ![pos \div WordBits] = @ | bit(pos)]

clearBit(b, pos) == [b EXCEPT ![pos \div WordBits] = @ - (@ & bit(pos))]

popcnt(b) == Cardinality({<<c, k>> \in (DOMAIN b) \X (0..(WordBits - 1)) : (b[c] \div 2^k) % 2 = 1})

\* The bucket of the cache that a set of operations is in.
hash(b) == FoldFunction(LAMBDA v, h : h ^^ v, popcnt(b), b)
=================================================================================
