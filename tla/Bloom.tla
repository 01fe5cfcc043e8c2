-------------------------------- MODULE Bloom --------------------------------
(***************************************************************************)
(* The filter of bloomfilter/bloom.go as operators on the set of bits that *)
(* are 1.  The two FNV hashes of a key are any two words; the bits a key   *)
(* has are HashCount sums of them, taken in machine words.                 *)
(***************************************************************************)
EXTENDS Naturals

CONSTANTS
  Keys,
  Hash1, Hash2,   \* hashPair: Hash1[k] and Hash2[k]
  WordSize,       \* 2^64
  BitCount,       \* bf.m
  HashCount       \* bf.k

ASSUME BloomAssumption ==
  /\ WordSize \in Nat \ {0} /\ BitCount \in Nat \ {0} /\ HashCount \in Nat \ {0}
  /\ Hash1 \in [Keys -> 0..(WordSize - 1)]
  /\ Hash2 \in [Keys -> 0..(WordSize - 1)]

Rounds == 0..(HashCount - 1)

(* The bit of round i: uint64 arithmetic wraps before the remainder.       *)
Position(k, i) == ((Hash1[k] + i * Hash2[k]) % WordSize) % BitCount

(* FAULTY: add stops one round early.                                      *)
AddTo_OneShort(bits, k) ==
  bits \cup {Position(k, i) : i \in 0..(HashCount - 2)}

AddTo(bits, k) == bits \cup {Position(k, i) : i \in Rounds}

Contains(bits, k) == \A i \in Rounds : Position(k, i) \in bits
=============================================================================
