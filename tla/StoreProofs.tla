----------------------------- MODULE StoreProofs -----------------------------
(***************************************************************************)
(* The two stores, for any keys, values and limits.                        *)
(*                                                                         *)
(* What a bucket of the two-level store gives back (TwoLevel): first, what *)
(* the operators of Recency do to a list: which entries it holds           *)
(* afterwards, each key once.  Then the invariant CacheInv: what is live   *)
(* in level 0 is what the last Set wrote, what is live in level 1 was set  *)
(* and not deleted since, and belongs to the last Set too when level 0     *)
(* holds that key's newest entry no more.                                  *)
(*                                                                         *)
(* That the map, the list and the byte count of lruCache agree, and that a *)
(* Set survives its own eviction (LruList): first sums, then circles, then *)
(* the invariant LruInv.                                                   *)
(***************************************************************************)
EXTENDS TwoLevel, LruList, SequenceTheorems, FiniteSetTheorems,
        WellFoundedInduction, TLAPS

(* Each key is in the list once.                                           *)
Unique(s) == \A i, j \in 1..Len(s) : s[i].k = s[j].k => i = j

(* A key of the list has a place, and EntryOf is what is there.            *)
LEMMA FoundAtPlace ==
  ASSUME NEW E, NEW s \in Seq(E), NEW k, k \in KeysIn(s)
  PROVE  /\ PlaceOf(s, k) \in 1..Len(s) /\ s[PlaceOf(s, k)].k = k
         /\ EntryOf(s, k) = s[PlaceOf(s, k)] /\ EntryOf(s, k) \in E
<1>1. \E i \in DOMAIN s : s[i].k = k
  BY DEF KeysIn
<1>2. PlaceOf(s, k) \in DOMAIN s /\ s[PlaceOf(s, k)].k = k
  BY <1>1 DEF PlaceOf
<1> QED
  BY <1>2, LenProperties DEF EntryOf

(* When keys are there once, each entry is the one EntryOf finds.          *)
LEMMA PlaceIsUnique ==
  ASSUME NEW E, NEW s \in Seq(E), Unique(s), NEW i \in 1..Len(s)
  PROVE  /\ s[i].k \in KeysIn(s)
         /\ PlaceOf(s, s[i].k) = i
         /\ EntryOf(s, s[i].k) = s[i]
<1>1. s[i].k \in KeysIn(s)
  BY LenProperties DEF KeysIn
<1> QED
  BY <1>1, FoundAtPlace DEF Unique, EntryOf

(* The elements of a list with one taken out.                              *)
LEMMA RemoveAtElements ==
  ASSUME NEW E, NEW s \in Seq(E), NEW p \in 1..Len(s)
  PROVE  LET r == RemoveAt(s, p) IN
         /\ r \in Seq(E) /\ Len(r) = Len(s) - 1
         /\ \A i \in 1..Len(s) - 1 : r[i] = IF i < p THEN s[i] ELSE s[i + 1]
<1> DEFINE a == SubSeq(s, 1, p - 1)
           b == SubSeq(s, p + 1, Len(s))
<1>0. Len(s) \in Nat /\ \A i \in 1..Len(s) : s[i] \in E
  BY LenProperties
<1>1. a \in Seq(E) /\ Len(a) = p - 1 /\ \A i \in 1..p - 1 : a[i] = s[i]
  <2>1. 1 \in Int /\ p - 1 \in Int /\ \A i \in 1..p - 1 : s[i] \in E
    BY <1>0
  <2>2. /\ a \in Seq(E) /\ Len(a) = IF 1 <= p - 1 THEN (p - 1) - 1 + 1 ELSE 0
        /\ \A i \in 1..(p - 1) - 1 + 1 : a[i] = s[1 + i - 1]
    BY <2>1, SubSeqProperties
  <2> HIDE DEF a
  <2>3. Len(a) = p - 1 /\ (p - 1) - 1 + 1 = p - 1
    BY <1>0, <2>2
  <2>4. ASSUME NEW i \in 1..p - 1 PROVE a[i] = s[i]
    <3>1. 1 + i - 1 = i /\ i \in 1..(p - 1) - 1 + 1
      BY <1>0
    <3>2. a[i] = s[1 + i - 1]
      BY <2>2, <3>1
    <3> QED BY <3>1, <3>2
  <2> QED BY <2>2, <2>3, <2>4
<1>2. b \in Seq(E) /\ Len(b) = Len(s) - p /\ \A i \in 1..Len(s) - p : b[i] = s[p + i]
  <2>1. p + 1 \in Int /\ Len(s) \in Int /\ \A i \in p + 1..Len(s) : s[i] \in E
    BY <1>0
  <2>2. /\ b \in Seq(E)
        /\ Len(b) = IF p + 1 <= Len(s) THEN Len(s) - (p + 1) + 1 ELSE 0
        /\ \A i \in 1..Len(s) - (p + 1) + 1 : b[i] = s[(p + 1) + i - 1]
    BY <2>1, SubSeqProperties
  <2> HIDE DEF b
  <2>3. Len(b) = Len(s) - p /\ Len(s) - (p + 1) + 1 = Len(s) - p
    BY <1>0, <2>2
  <2>4. ASSUME NEW i \in 1..Len(s) - p PROVE b[i] = s[p + i]
    <3>1. (p + 1) + i - 1 = p + i /\ i \in 1..Len(s) - (p + 1) + 1
      BY <1>0
    <3>2. b[i] = s[(p + 1) + i - 1]
      BY <2>2, <3>1
    <3> QED BY <3>1, <3>2
  <2> QED BY <2>2, <2>3, <2>4
<1>3. RemoveAt(s, p) = a \o b
  BY DEF RemoveAt
<1> HIDE DEF a, b
<1>4. /\ a \o b \in Seq(E) /\ Len(a \o b) = Len(a) + Len(b)
      /\ \A i \in 1..Len(a) + Len(b) :
           (a \o b)[i] = IF i <= Len(a) THEN a[i] ELSE b[i - Len(a)]
  BY <1>1, <1>2, ConcatProperties
<1>5. ASSUME NEW i \in 1..Len(s) - 1
      PROVE  (a \o b)[i] = IF i < p THEN s[i] ELSE s[i + 1]
  <2>1. CASE i < p
    BY <2>1, <1>0, <1>1, <1>2, <1>4
  <2>2. CASE ~(i < p)
    <3>1. (a \o b)[i] = b[i - (p - 1)]
      BY <2>2, <1>0, <1>1, <1>2, <1>4
    <3>2. i - (p - 1) \in 1..Len(s) - p /\ p + (i - (p - 1)) = i + 1
      BY <2>2, <1>0
    <3> QED BY <3>1, <3>2, <1>2, <2>2
  <2> QED BY <2>1, <2>2
<1> QED
  BY <1>0, <1>1, <1>2, <1>3, <1>4, <1>5

(* The entries of a list, without their order.                             *)
Entries(s) == {s[i] : i \in 1..Len(s)}
Holds(s, x) == x \in Entries(s)

(* Without takes out the entry of its key and no other.                    *)
LEMMA WithoutKey ==
  ASSUME NEW E, NEW s \in Seq(E), Unique(s), NEW k
  PROVE  LET r == Without(s, k) IN
         /\ r \in Seq(E) /\ Unique(r) /\ k \notin KeysIn(r)
         /\ Len(r) = IF k \in KeysIn(s) THEN Len(s) - 1 ELSE Len(s)
         /\ \A x : Holds(r, x) <=> Holds(s, x) /\ x.k # k
<1> DEFINE r == Without(s, k)
<1>0. Len(s) \in Nat /\ DOMAIN s = 1..Len(s)
  BY LenProperties
<1>1. CASE k \notin KeysIn(s)
  <2>1. r = s
    BY <1>1 DEF Without
  <2>2. \A i \in 1..Len(s) : s[i].k # k
    BY <1>0, <1>1 DEF KeysIn
  <2> QED BY <1>1, <2>1, <2>2 DEF Holds, Entries
<1>2. CASE k \in KeysIn(s)
  <2> DEFINE p == PlaceOf(s, k)
  <2>1. p \in 1..Len(s) /\ s[p].k = k
    BY <1>2, FoundAtPlace
  <2>2. r = RemoveAt(s, p)
    BY <1>2 DEF Without
  <2> HIDE DEF p, r
  <2>3. /\ r \in Seq(E) /\ Len(r) = Len(s) - 1
        /\ \A i \in 1..Len(s) - 1 : r[i] = IF i < p THEN s[i] ELSE s[i + 1]
    BY <2>1, <2>2, RemoveAtElements
  <2>4. DOMAIN r = 1..Len(r)
    BY <2>3, LenProperties
  <2> DEFINE f(i) == IF i < p THEN i ELSE i + 1
  <2>5. \A i \in 1..Len(r) : r[i] = s[f(i)] /\ f(i) \in 1..Len(s) /\ f(i) # p
    BY <1>0, <2>1, <2>3
  <2>6. \A i, j \in 1..Len(r) : f(i) = f(j) => i = j
    BY <1>0, <2>1, <2>3
  <2>7. \A j \in 1..Len(s) : j # p => \E i \in 1..Len(r) : f(i) = j
    <3> TAKE j \in 1..Len(s)
    <3> HAVE j # p
    <3>1. CASE j < p
      BY <3>1, <1>0, <2>1, <2>3
    <3>2. CASE j > p
      <4>1. j - 1 \in 1..Len(r) /\ f(j - 1) = j
        BY <3>2, <1>0, <2>1, <2>3
      <4> QED BY <4>1
    <3> QED BY <3>1, <3>2, <2>1
  <2> HIDE DEF f
  <2>8. \A i \in 1..Len(s) : s[i].k = k => i = p
    BY <2>1 DEF Unique
  <2>9. k \notin KeysIn(r)
    BY <2>4, <2>5, <2>8 DEF KeysIn
  <2>10. Unique(r)
    BY <2>5, <2>6 DEF Unique
  <2>11. ASSUME NEW x, Holds(r, x) PROVE Holds(s, x) /\ x.k # k
    BY <2>5, <2>8, <2>11 DEF Holds, Entries
  <2>12. ASSUME NEW x, Holds(s, x), x.k # k PROVE Holds(r, x)
    <3>1. PICK j \in 1..Len(s) : s[j] = x
      BY <2>12 DEF Holds, Entries
    <3>2. PICK i \in 1..Len(r) : f(i) = j
      BY <3>1, <2>1, <2>7, <2>12
    <3> QED BY <3>1, <3>2, <2>5 DEF Holds, Entries
  <2> QED BY <1>2, <2>3, <2>9, <2>10, <2>11, <2>12 DEF r
<1> QED BY <1>1, <1>2

(* KeysIn, in terms of Holds.                                              *)
LEMMA KeyInHolds ==
  ASSUME NEW E, NEW s \in Seq(E), NEW k
  PROVE  k \in KeysIn(s) <=> \E x : Holds(s, x) /\ x.k = k
BY LenProperties DEF KeysIn, Holds, Entries

(* x at the head of a list that does not have its key.                     *)
LEMMA Prepended ==
  ASSUME NEW E, NEW s \in Seq(E), Unique(s), NEW x \in E, x.k \notin KeysIn(s)
  PROVE  LET r == <<x>> \o s IN
         /\ r \in Seq(E) /\ Unique(r) /\ Len(r) = Len(s) + 1
         /\ \A y : Holds(r, y) <=> y = x \/ Holds(s, y)
<1> DEFINE r == <<x>> \o s
<1>0. Len(s) \in Nat /\ DOMAIN s = 1..Len(s) /\ <<x>> \in Seq(E) /\ Len(<<x>>) = 1 /\ <<x>>[1] = x
  BY LenProperties
<1>1. /\ r \in Seq(E) /\ Len(r) = 1 + Len(s)
      /\ \A i \in 1..1 + Len(s) : r[i] = IF i <= 1 THEN <<x>>[i] ELSE s[i - 1]
  BY <1>0, ConcatProperties
<1> HIDE DEF r
<1>2. Len(r) = Len(s) + 1 /\ r[1] = x /\ \A i \in 2..Len(r) : r[i] = s[i - 1] /\ i - 1 \in 1..Len(s)
  BY <1>0, <1>1
<1>3. \A i \in 1..Len(s) : r[i + 1] = s[i] /\ s[i].k # x.k /\ i + 1 \in 1..Len(r)
  <2> TAKE i \in 1..Len(s)
  <2>1. i + 1 \in 2..Len(r) /\ (i + 1) - 1 = i /\ i + 1 \in 1..Len(r)
    BY <1>0, <1>2
  <2>2. s[i].k # x.k
    BY <1>0 DEF KeysIn
  <2> QED BY <1>2, <2>1, <2>2
<1>4. Unique(r)
  <2> SUFFICES ASSUME NEW i \in 1..Len(r), NEW j \in 1..Len(r), r[i].k = r[j].k
               PROVE  i = j
    BY DEF Unique
  <2>1. i \in Nat /\ j \in Nat /\ (i # 1 => i \in 2..Len(r)) /\ (j # 1 => j \in 2..Len(r))
    BY <1>0, <1>2
  <2>2. CASE i = 1 /\ j # 1
    BY <2>1, <2>2, <1>2, <1>3
  <2>3. CASE i # 1 /\ j = 1
    BY <2>1, <2>3, <1>2, <1>3
  <2>4. CASE i # 1 /\ j # 1
    <3>1. i - 1 = j - 1
      BY <2>1, <2>4, <1>2 DEF Unique
    <3> QED BY <2>1, <3>1
  <2> QED BY <2>2, <2>3, <2>4
<1>5. ASSUME NEW y, Holds(r, y) PROVE y = x \/ Holds(s, y)
  <2>1. PICK i \in 1..Len(r) : r[i] = y
    BY <1>5 DEF Holds, Entries
  <2>2. i = 1 \/ i \in 2..Len(r)
    BY <1>0, <1>2
  <2> QED BY <1>2, <2>1, <2>2 DEF Holds, Entries
<1>6. ASSUME NEW y, y = x \/ Holds(s, y) PROVE Holds(r, y)
  <2>1. CASE y = x
    <3>1. 1 \in 1..Len(r)
      BY <1>0, <1>2
    <3> QED BY <2>1, <1>2, <3>1 DEF Holds, Entries
  <2>2. CASE Holds(s, y)
    BY <2>2, <1>3 DEF Holds, Entries
  <2> QED BY <1>6, <2>1, <2>2
<1> QED
  BY <1>1, <1>2, <1>4, <1>5, <1>6 DEF r

(* And at the tail.                                                        *)
LEMMA Appended ==
  ASSUME NEW E, NEW s \in Seq(E), Unique(s), NEW x \in E, x.k \notin KeysIn(s)
  PROVE  LET r == Append(s, x) IN
         /\ r \in Seq(E) /\ Unique(r) /\ Len(r) = Len(s) + 1
         /\ \A y : Holds(r, y) <=> y = x \/ Holds(s, y)
<1> DEFINE r == Append(s, x) 
           n == Len(s)
<1>0. n \in Nat /\ DOMAIN s = 1..n
  BY LenProperties
<1>1. r \in Seq(E) /\ Len(r) = n + 1 /\ r[n + 1] = x /\ \A i \in 1..n : r[i] = s[i]
  BY AppendProperties
<1> HIDE DEF r
<1>2. \A i \in 1..n : s[i].k # x.k
  BY <1>0 DEF KeysIn
<1>3. Unique(r)
  <2> SUFFICES ASSUME NEW i \in 1..n + 1, NEW j \in 1..n + 1, r[i].k = r[j].k
               PROVE  i = j
    BY <1>1 DEF Unique
  <2>1. (i = n + 1 \/ i \in 1..n) /\ (j = n + 1 \/ j \in 1..n)
    BY <1>0
  <2> QED BY <2>1, <1>1, <1>2 DEF Unique
<1>4. \A y : Holds(r, y) <=> y = x \/ Holds(s, y)
  <2>1. n + 1 \in 1..n + 1 /\ \A i \in 1..n + 1 : i = n + 1 \/ i \in 1..n
    BY <1>0
  <2>2. \A i \in 1..n : i \in 1..n + 1
    BY <1>0
  <2> QED BY <1>1, <2>1, <2>2 DEF Holds, Entries
<1> QED
  BY <1>1, <1>3, <1>4 DEF r

(* A list without its last entry.                                          *)
LEMMA LastDropped ==
  ASSUME NEW E, NEW s \in Seq(E), Unique(s), Len(s) > 0
  PROVE  LET r == SubSeq(s, 1, Len(s) - 1) IN
         /\ r \in Seq(E) /\ Unique(r) /\ Len(r) = Len(s) - 1
         /\ \A y : Holds(r, y) <=> Holds(s, y) /\ y # PushedOut(s)
<1> DEFINE n == Len(s) 
           r == SubSeq(s, 1, n - 1)
<1>0. n \in Nat /\ n > 0 /\ \A i \in 1..n : s[i] \in E
  BY LenProperties
<1>1. r \in Seq(E) /\ Len(r) = n - 1 /\ \A i \in 1..n - 1 : r[i] = s[i]
  <2>1. 1 \in Int /\ n - 1 \in Int /\ \A i \in 1..n - 1 : s[i] \in E
    BY <1>0
  <2>2. /\ r \in Seq(E) /\ Len(r) = IF 1 <= n - 1 THEN (n - 1) - 1 + 1 ELSE 0
        /\ \A i \in 1..(n - 1) - 1 + 1 : r[i] = s[1 + i - 1]
    BY <2>1, SubSeqProperties
  <2> HIDE DEF r, n
  <2> QED BY <1>0, <2>2
<1> HIDE DEF r
<1>2. /\ \A i \in 1..n - 1 : i \in 1..n /\ i # n
      /\ \A i \in 1..n : i # n => i \in 1..n - 1
      /\ n \in 1..n
  BY <1>0
<1>3. Unique(r)
  BY <1>1, <1>2 DEF Unique
<1>4. \A i, j \in 1..n : s[i] = s[j] => i = j
  BY DEF Unique
<1>5. \A y : Holds(r, y) <=> Holds(s, y) /\ y # s[n]
  BY <1>1, <1>2, <1>4 DEF Holds, Entries
<1> QED
  BY <1>1, <1>3, <1>5 DEF r, PushedOut

(* What put leaves in the list: its entry, and what was there but for the  *)
(* key's old entry and the one it pushes out.                              *)
LEMMA PutInHolds ==
  ASSUME NEW E, NEW s \in Seq(E), Unique(s), NEW x \in E,
         NEW cap \in Nat \ {0}, Len(s) <= cap
  PROVE  LET r == PutIn(s, cap, x) IN
         /\ r \in Seq(E) /\ Unique(r) /\ Len(r) <= cap
         /\ \A y : Holds(r, y) <=>
              \/ y = x
              \/ /\ Holds(s, y) /\ y.k # x.k
                 /\ Pushes(s, cap, x.k) => y # PushedOut(s)
<1>0. Len(s) \in Nat
  BY LenProperties
<1>1. CASE Pushes(s, cap, x.k)
  <2> DEFINE t == SubSeq(s, 1, Len(s) - 1)
  <2>1. x.k \notin KeysIn(s) /\ Len(s) = cap /\ Len(s) > 0
    BY <1>0, <1>1 DEF Pushes, Full
  <2>2. /\ t \in Seq(E) /\ Unique(t) /\ Len(t) = Len(s) - 1
        /\ \A y : Holds(t, y) <=> Holds(s, y) /\ y # PushedOut(s)
    BY <2>1, LastDropped
  <2>3. PutIn(s, cap, x) = <<x>> \o t
    BY <1>1 DEF PutIn
  <2> HIDE DEF t
  <2>4. \A y : Holds(s, y) => y.k # x.k
    BY <2>1, KeyInHolds
  <2>5. x.k \notin KeysIn(t)
    BY <2>2, <2>4, KeyInHolds
  <2>6. LET r == <<x>> \o t IN
        /\ r \in Seq(E) /\ Unique(r) /\ Len(r) = Len(t) + 1
        /\ \A y : Holds(r, y) <=> y = x \/ Holds(t, y)
    BY <2>2, <2>5, Prepended
  <2> QED BY <1>0, <1>1, <2>1, <2>2, <2>3, <2>4, <2>6
<1>2. CASE ~Pushes(s, cap, x.k)
  <2> DEFINE t == Without(s, x.k)
  <2>2. /\ t \in Seq(E) /\ Unique(t) /\ x.k \notin KeysIn(t)
        /\ Len(t) = IF x.k \in KeysIn(s) THEN Len(s) - 1 ELSE Len(s)
        /\ \A y : Holds(t, y) <=> Holds(s, y) /\ y.k # x.k
    BY WithoutKey
  <2>3. PutIn(s, cap, x) = <<x>> \o t
    BY <1>2 DEF PutIn
  <2> HIDE DEF t
  <2>4. LET r == <<x>> \o t IN
        /\ r \in Seq(E) /\ Unique(r) /\ Len(r) = Len(t) + 1
        /\ \A y : Holds(r, y) <=> y = x \/ Holds(t, y)
    BY <2>2, Prepended
  <2>5. Len(t) + 1 <= cap
    BY <1>0, <1>2, <2>2 DEF Pushes, Full
  <2> QED BY <1>2, <2>2, <2>3, <2>4, <2>5
<1> QED BY <1>1, <1>2

(* get moves an entry, and leaves the list with the same entries.          *)
LEMMA GetFromHolds ==
  ASSUME NEW E, NEW s \in Seq(E), Unique(s), NEW k
  PROVE  LET r == GetFrom(s, k) IN
         /\ r \in Seq(E) /\ Unique(r) /\ Len(r) = Len(s)
         /\ \A y : Holds(r, y) <=> Holds(s, y)
<1>0. Len(s) \in Nat
  BY LenProperties
<1>1. CASE k \in KeysIn(s)
  <2> DEFINE t == Without(s, k) 
             x == EntryOf(s, k)
  <2>1. x \in E /\ x.k = k /\ Holds(s, x)
    BY <1>1, FoundAtPlace DEF Holds, Entries
  <2>2. /\ t \in Seq(E) /\ Unique(t) /\ k \notin KeysIn(t) /\ Len(t) = Len(s) - 1
        /\ \A y : Holds(t, y) <=> Holds(s, y) /\ y.k # k
    BY <1>1, WithoutKey
  <2>3. GetFrom(s, k) = <<x>> \o t
    BY <1>1 DEF GetFrom
  <2>4. \A y : Holds(s, y) /\ y.k = k => y = x
    BY <2>1 DEF Holds, Entries, Unique
  <2> HIDE DEF t, x
  <2>5. LET r == <<x>> \o t IN
        /\ r \in Seq(E) /\ Unique(r) /\ Len(r) = Len(t) + 1
        /\ \A y : Holds(r, y) <=> y = x \/ Holds(t, y)
    BY <2>1, <2>2, Prepended
  <2> QED BY <1>0, <2>1, <2>2, <2>3, <2>4, <2>5
<1>2. CASE k \notin KeysIn(s)
  BY <1>2 DEF GetFrom
<1> QED BY <1>1, <1>2

(* del leaves no live entry of the key, and every other entry as it was.   *)
LEMMA DelFromHolds ==
  ASSUME NEW E, NEW s \in Seq(E), Unique(s), NEW k,
         \A x \in E : [x EXCEPT !.e = Deleted] \in E /\ [x EXCEPT !.e = Deleted].k = x.k
                       /\ [x EXCEPT !.e = Deleted].e = Deleted
  PROVE  LET r == DelFrom(s, k) IN
         /\ r \in Seq(E) /\ Unique(r) /\ Len(r) = Len(s)
         /\ \A y : y.k # k => (Holds(r, y) <=> Holds(s, y))
         /\ \A y : Holds(r, y) /\ y.k = k => ~Live(y)
<1>0. Len(s) \in Nat
  BY LenProperties
<1>1. CASE HasLive(s, k)
  <2> DEFINE t == Without(s, k) 
             x == [EntryOf(s, k) EXCEPT !.e = Deleted]
  <2>0. k \in KeysIn(s)
    BY <1>1 DEF HasLive
  <2>1. x \in E /\ x.k = k /\ x.e = Deleted
    BY <2>0, FoundAtPlace
  <2>2. /\ t \in Seq(E) /\ Unique(t) /\ k \notin KeysIn(t) /\ Len(t) = Len(s) - 1
        /\ \A y : Holds(t, y) <=> Holds(s, y) /\ y.k # k
    BY <2>0, WithoutKey
  <2>3. DelFrom(s, k) = Append(t, x)
    BY <1>1 DEF DelFrom
  <2> HIDE DEF t, x
  <2>5. LET r == Append(t, x) IN
        /\ r \in Seq(E) /\ Unique(r) /\ Len(r) = Len(t) + 1
        /\ \A y : Holds(r, y) <=> y = x \/ Holds(t, y)
    BY <2>1, <2>2, Appended
  <2> QED BY <1>0, <2>1, <2>2, <2>3, <2>5 DEF Live
<1>2. CASE ~HasLive(s, k)
  <2>1. DelFrom(s, k) = s
    BY <1>2 DEF DelFrom
  <2>2. ASSUME NEW y, Holds(s, y), y.k = k PROVE ~Live(y)
    <3>1. PICK i \in 1..Len(s) : s[i] = y
      BY <2>2 DEF Holds, Entries
    <3>2. k \in KeysIn(s) /\ EntryOf(s, k) = y
      BY <3>1, <2>2, PlaceIsUnique
    <3> QED BY <1>2, <3>2 DEF HasLive
  <2> QED BY <2>1, <2>2
<1> QED BY <1>1, <1>2

(* HasLive, in terms of Holds.                                             *)
LEMMA HasLiveHolds ==
  ASSUME NEW E, NEW s \in Seq(E), Unique(s), NEW k
  PROVE  /\ HasLive(s, k) => /\ Holds(s, EntryOf(s, k)) /\ EntryOf(s, k) \in E
                             /\ EntryOf(s, k).k = k /\ Live(EntryOf(s, k))
         /\ \A x : Holds(s, x) /\ x.k = k => EntryOf(s, k) = x
         /\ \A x : Holds(s, x) /\ x.k = k /\ Live(x) => HasLive(s, k)
<1>1. HasLive(s, k) => /\ Holds(s, EntryOf(s, k)) /\ EntryOf(s, k) \in E
                       /\ EntryOf(s, k).k = k /\ Live(EntryOf(s, k))
  BY FoundAtPlace DEF HasLive, Holds, Entries
<1>2. ASSUME NEW x, Holds(s, x), x.k = k
      PROVE  k \in KeysIn(s) /\ EntryOf(s, k) = x
  BY <1>2, PlaceIsUnique DEF Holds, Entries
<1> QED BY <1>1, <1>2 DEF HasLive

-----------------------------------------------------------------------------
Entry == [k : Keys, v : Nat, e : Nat]

(* A level: entries, each key once, no more than its capacity.             *)
ListInv(l, cap) == l \in Seq(Entry) /\ Unique(l) /\ Len(l) <= cap

TypeInv ==
  /\ ListInv(l0, Cap0) /\ ListInv(l1, Cap1)
  /\ now \in Nat /\ sets \in Nat
  /\ latest \in [Keys -> [v : Nat, e : Nat] \cup {None}]
  /\ clearing \in SUBSET Keys /\ cleaning \in SUBSET Keys
  /\ begun \subseteq {x \in Entry : Live(x)}

(* What is live in level 0 is what the last Set of its key wrote.          *)
FirstIsLatest ==
  \A x \in Entries(l0) : Live(x) =>
    x.k \notin pushed /\ latest[x.k] = [v |-> x.v, e |-> x.e]

(* A key live in level 1 has been set and not deleted since.               *)
SecondIsKnown == \A y \in Entries(l1) : Live(y) => latest[y.k] # None

(* Without a copy in level 0, and unless level 0 has pushed it out, what is*)
(* live in level 1 is what the last Set wrote.                             *)
SecondIsLatest ==
  \A y \in Entries(l1) :
    Live(y) /\ y.k \notin pushed /\ ~HasLive(l0, y.k) => latest[y.k].v = y.v

(* What the cleaner is about to delete has expired.                        *)
CleaningExpired == \A k \in cleaning : HoldsExpired(k)

(* The inductive invariant.                                                *)
CacheInv ==
  /\ TypeInv /\ FirstIsLatest /\ SecondIsKnown /\ SecondIsLatest
  /\ CleaningExpired

-----------------------------------------------------------------------------
(* The same facts for the two levels of the store.                         *)
LEMMA PutInList ==
  ASSUME NEW s, NEW cap \in Nat \ {0}, ListInv(s, cap), NEW x \in Entry
  PROVE  LET r == PutIn(s, cap, x) IN
         /\ ListInv(r, cap)
         /\ \A y : y \in Entries(r) <=>
              \/ y = x
              \/ /\ y \in Entries(s) /\ y.k # x.k
                 /\ Pushes(s, cap, x.k) => y # PushedOut(s)
<1>1. s \in Seq(Entry) /\ Unique(s) /\ Len(s) <= cap
  BY DEF ListInv
<1> QED
  BY <1>1, PutInHolds DEF ListInv, Holds

LEMMA GetFromList ==
  ASSUME NEW s, NEW cap, ListInv(s, cap), NEW k
  PROVE  ListInv(GetFrom(s, k), cap) /\ Entries(GetFrom(s, k)) = Entries(s)
<1>1. s \in Seq(Entry) /\ Unique(s) /\ Len(s) <= cap
  BY DEF ListInv
<1>2. \A y : y \in Entries(GetFrom(s, k)) <=> y \in Entries(s)
  BY <1>1, GetFromHolds DEF Holds
<1> QED
  BY <1>1, <1>2, GetFromHolds DEF ListInv

LEMMA DelFromList ==
  ASSUME NEW s, NEW cap, ListInv(s, cap), NEW k
  PROVE  LET r == DelFrom(s, k) IN
         /\ ListInv(r, cap)
         /\ \A y : y.k # k => (y \in Entries(r) <=> y \in Entries(s))
         /\ \A y \in Entries(r) : Live(y) => y.k # k
<1>1. s \in Seq(Entry) /\ Unique(s) /\ Len(s) <= cap
  BY DEF ListInv
<1>2. \A x \in Entry : /\ [x EXCEPT !.e = Deleted] \in Entry
                        /\ [x EXCEPT !.e = Deleted].k = x.k
                        /\ [x EXCEPT !.e = Deleted].e = Deleted
  BY DEF Entry, Deleted
<1>3. LET r == DelFrom(s, k) IN
         /\ r \in Seq(Entry) /\ Unique(r) /\ Len(r) = Len(s)
         /\ \A y : y.k # k => (Holds(r, y) <=> Holds(s, y))
         /\ \A y : Holds(r, y) /\ y.k = k => ~Live(y)
  BY <1>1, <1>2, DelFromHolds
<1> QED
  BY <1>1, <1>3 DEF ListInv, Holds

LEMMA LiveList ==
  ASSUME NEW s, NEW cap, ListInv(s, cap)
  PROVE  /\ \A x \in Entries(s) : x \in Entry /\ EntryOf(s, x.k) = x
         /\ \A k : HasLive(s, k) <=> \E x \in Entries(s) : x.k = k /\ Live(x)
         /\ \A k : HasLive(s, k) => /\ EntryOf(s, k) \in Entries(s)
                                   /\ EntryOf(s, k).k = k /\ Live(EntryOf(s, k))
         /\ \A x, y \in Entries(s) : x.k = y.k => x = y
<1>1. s \in Seq(Entry) /\ Unique(s) /\ Len(s) <= cap
  BY DEF ListInv
<1>2. ASSUME NEW k
      PROVE /\ HasLive(s, k) => /\ EntryOf(s, k) \in Entries(s) /\ EntryOf(s, k) \in Entry
                                /\ EntryOf(s, k).k = k /\ Live(EntryOf(s, k))
            /\ \A x : x \in Entries(s) /\ x.k = k => EntryOf(s, k) = x
            /\ \A x : x \in Entries(s) /\ x.k = k /\ Live(x) => HasLive(s, k)
  BY <1>1, HasLiveHolds DEF Holds
<1>3. \A x \in Entries(s) : x \in Entry
  BY <1>1, LenProperties DEF Entries
<1> QED
  BY <1>2, <1>3

-----------------------------------------------------------------------------
(* An empty bucket.                                                        *)
LEMMA InitCacheInv == Init => CacheInv
<1> SUFFICES ASSUME Init PROVE CacheInv
  OBVIOUS
<1>1. /\ l0 = <<>> /\ l1 = <<>> /\ now = 1 /\ sets = 0
      /\ clearing = {} /\ cleaning = {} /\ begun = {} /\ latest = [k \in Keys |-> None]
  BY DEF Init
<1>2. ListInv(<<>>, Cap0) /\ ListInv(<<>>, Cap1) /\ Entries(<<>>) = {}
  BY CapAssumption DEF ListInv, Unique, Entries
<1> QED
  BY <1>1, <1>2 DEF CacheInv, TypeInv, FirstIsLatest, SecondIsKnown, SecondIsLatest,
                    CleaningExpired

LEMMA SetBeginKeepsInv ==
  ASSUME CacheInv, NEW k \in Keys, NEW ttl \in TTLs, SetBegin(k, ttl)
  PROVE  CacheInv'
<1> DEFINE x == [k |-> k, v |-> sets + 1, e |-> now + ttl]
<1>1. /\ sets' = sets + 1 /\ begun' = begun \cup {x}
      /\ UNCHANGED <<l0, l1, now, clearing, cleaning, latest, pushed>>
  BY DEF SetBegin
<1>2. /\ sets \in Nat /\ now \in Nat /\ ttl \in Nat \ {0}
  BY TTLAssumption DEF CacheInv, TypeInv
<1>3. x \in Entry /\ Live(x)
  BY <1>2 DEF Entry, Live, Deleted
<1> HIDE DEF x
<1>4. TypeInv'
  BY <1>1, <1>2, <1>3 DEF CacheInv, TypeInv
<1> QED
  BY <1>1, <1>4 DEF CacheInv, FirstIsLatest, SecondIsKnown, SecondIsLatest,
                    CleaningExpired, HoldsExpired, HoldsExpiredAt

LEMMA SetKeepsInv ==
  ASSUME CacheInv, NEW x \in begun, Set(x)
  PROVE  CacheInv'
<1> DEFINE k == x.k
<1>1. /\ ListInv(l0, Cap0) /\ ListInv(l1, Cap1) /\ now \in Nat /\ sets \in Nat
      /\ latest \in [Keys -> [v : Nat, e : Nat] \cup {None}]
      /\ clearing \in SUBSET Keys /\ cleaning = {}
  BY DEF CacheInv, TypeInv, Set, Unlocked
<1>2. /\ x \in Entry /\ k \in Keys /\ Live(x)
      /\ Cap0 \in Nat \ {0} /\ [v |-> x.v, e |-> x.e] \in [v : Nat, e : Nat]
  BY CapAssumption DEF CacheInv, TypeInv, Entry
<1>3. /\ l0' = PutIn(l0, Cap0, x)
      /\ latest' = [latest EXCEPT ![k] = [v |-> x.v, e |-> x.e]]
      /\ pushed' = IF Pushes(l0, Cap0, k) /\ Live(PushedOut(l0))
                     THEN (pushed \cup {PushedOut(l0).k}) \ {k}
                     ELSE pushed \ {k}
      /\ begun' = begun \ {x}
      /\ UNCHANGED <<l1, now, sets, clearing, cleaning>>
  BY DEF Set
<1>k. k = x.k
  OBVIOUS
<1> HIDE DEF k
<1>4. /\ ListInv(l0', Cap0)
      /\ \A y : y \in Entries(l0') <=>
              \/ y = x
              \/ /\ y \in Entries(l0) /\ y.k # k
                 /\ Pushes(l0, Cap0, k) => y # PushedOut(l0)
  BY <1>1, <1>2, <1>3, <1>k, PutInList
<1>5. TypeInv'
  BY <1>1, <1>2, <1>3, <1>4 DEF TypeInv, CacheInv
<1>6. Pushes(l0, Cap0, k) => PushedOut(l0) \in Entries(l0)
  BY <1>1, <1>2, LenProperties DEF Pushes, Full, PushedOut, Entries, ListInv
<1>7. FirstIsLatest'
  <2> SUFFICES ASSUME NEW y \in Entries(l0'), Live(y)
               PROVE  y.k \notin pushed' /\ latest'[y.k] = [v |-> y.v, e |-> y.e]
    BY DEF FirstIsLatest
  <2>1. CASE y = x
    BY <2>1, <1>1, <1>2, <1>3, <1>k
  <2>2. CASE y # x
    <3>1. y \in Entries(l0) /\ y.k # k /\ (Pushes(l0, Cap0, k) => y # PushedOut(l0))
      BY <2>2, <1>4
    <3>2. y.k \in Keys /\ (Pushes(l0, Cap0, k) => y.k # PushedOut(l0).k)
      BY <3>1, <1>1, <1>6, LiveList DEF Entry
    <3>3. y.k \notin pushed /\ latest[y.k] = [v |-> y.v, e |-> y.e]
      BY <3>1 DEF CacheInv, FirstIsLatest
    <3> QED BY <3>1, <3>2, <3>3, <1>1, <1>3
  <2> QED BY <2>1, <2>2
<1>8. \A y \in Entries(l1) : y \in Entry
  BY <1>1, LiveList
<1>9. SecondIsKnown'
  <2>1. \A y \in Entries(l1) : Live(y) => latest[y.k] # None
    BY DEF CacheInv, SecondIsKnown
  <2> QED BY <2>1, <1>1, <1>2, <1>3, <1>8, NoneAssumption DEF SecondIsKnown, Entry
<1>10. SecondIsLatest'
  <2> SUFFICES ASSUME NEW y \in Entries(l1), Live(y), y.k \notin pushed', ~HasLive(l0', y.k)
               PROVE  latest'[y.k].v = y.v
    BY <1>3 DEF SecondIsLatest
  <2>1. HasLive(l0', k)
    BY <1>2, <1>4, <1>k, LiveList
  <2>2. y.k # k /\ y.k \in Keys
    BY <2>1, <1>8 DEF Entry
  <2>3. y.k \notin pushed
    BY <2>2, <1>3
  <2>4. ~HasLive(l0, y.k)
    <3> SUFFICES ASSUME NEW z \in Entries(l0), z.k = y.k, Live(z) PROVE FALSE
      BY <1>1, LiveList
    <3>1. z \notin Entries(l0')
      BY <1>4, LiveList
    <3>2. Pushes(l0, Cap0, k) /\ z = PushedOut(l0)
      BY <3>1, <1>4, <2>2
    <3> QED BY <3>2, <2>2, <1>3
  <2>5. latest[y.k].v = y.v
    BY <2>3, <2>4 DEF CacheInv, SecondIsLatest
  <2> QED BY <2>2, <2>5, <1>1, <1>3
<1>11. CleaningExpired'
  BY <1>1, <1>3 DEF CleaningExpired
<1> QED
  BY <1>5, <1>7, <1>9, <1>10, <1>11 DEF CacheInv

(* del leaves the other keys alone.                                        *)
LEMMA DelFromSpares ==
  ASSUME NEW s, NEW cap, ListInv(s, cap), NEW k, NEW j, j # k
  PROVE  /\ HasLive(DelFrom(s, k), j) <=> HasLive(s, j)
         /\ HasLive(s, j) => EntryOf(DelFrom(s, k), j) = EntryOf(s, j)
         /\ ~HasLive(DelFrom(s, k), k)
<1> DEFINE r == DelFrom(s, k)
<1>1. /\ ListInv(r, cap)
      /\ \A y : y.k # k => (y \in Entries(r) <=> y \in Entries(s))
      /\ \A y \in Entries(r) : Live(y) => y.k # k
  BY DelFromList
<1> HIDE DEF r
<1>2. HasLive(r, j) <=> HasLive(s, j)
  BY <1>1, LiveList
<1>3. ASSUME HasLive(s, j) PROVE EntryOf(r, j) = EntryOf(s, j)
  <2>1. EntryOf(s, j) \in Entries(s) /\ EntryOf(s, j).k = j
    BY <1>3, LiveList
  <2>2. EntryOf(s, j) \in Entries(r)
    BY <2>1, <1>1
  <2> QED BY <2>1, <2>2, <1>1, LiveList
<1>4. ~HasLive(r, k)
  BY <1>1, LiveList
<1> QED BY <1>2, <1>3, <1>4 DEF r

LEMMA DeleteKeepsInv ==
  ASSUME CacheInv, NEW k \in Keys, delete(k), UNCHANGED <<now, sets, begun, pushed>>,
         latest' = latest \/ latest' = [latest EXCEPT ![k] = None],
         clearing' \in SUBSET Keys, cleaning' \subseteq cleaning \ {k}
  PROVE  CacheInv'
<1>1. /\ ListInv(l0, Cap0) /\ ListInv(l1, Cap1) /\ now \in Nat /\ sets \in Nat
      /\ latest \in [Keys -> [v : Nat, e : Nat] \cup {None}] /\ cleaning \in SUBSET Keys
      /\ begun \subseteq {x \in Entry : Live(x)}
  BY DEF CacheInv, TypeInv
<1>2. l0' = DelFrom(l0, k) /\ l1' = DelFrom(l1, k)
  BY DEF delete
<1>3. /\ ListInv(l0', Cap0)
      /\ \A y : y.k # k => (y \in Entries(l0') <=> y \in Entries(l0))
      /\ \A y \in Entries(l0') : Live(y) => y.k # k
  BY <1>1, <1>2, DelFromList
<1>4. /\ ListInv(l1', Cap1)
      /\ \A y : y.k # k => (y \in Entries(l1') <=> y \in Entries(l1))
      /\ \A y \in Entries(l1') : Live(y) => y.k # k
  BY <1>1, <1>2, DelFromList
<1>5. TypeInv'
  BY <1>1, <1>3, <1>4 DEF TypeInv
<1>6. \A j \in Keys : j # k => latest'[j] = latest[j]
  BY <1>1
<1>7. /\ \A y \in Entries(l0') : y.k \in Keys
      /\ \A y \in Entries(l1') : y.k \in Keys
  BY <1>3, <1>4, LiveList DEF Entry
<1>8. FirstIsLatest'
  BY <1>3, <1>6, <1>7 DEF CacheInv, FirstIsLatest
<1>9. SecondIsKnown'
  BY <1>4, <1>6, <1>7 DEF CacheInv, SecondIsKnown
<1>10. SecondIsLatest'
  <2> SUFFICES ASSUME NEW y \in Entries(l1'), Live(y), y.k \notin pushed, ~HasLive(l0', y.k)
               PROVE  latest'[y.k].v = y.v
    BY DEF SecondIsLatest
  <2>1. y.k # k /\ y \in Entries(l1) /\ y.k \in Keys
    BY <1>4, <1>7
  <2>2. ~HasLive(l0, y.k)
    BY <2>1, <1>1, <1>2, DelFromSpares
  <2> QED BY <2>1, <2>2, <1>6 DEF CacheInv, SecondIsLatest
<1>11. CleaningExpired'
  <2> SUFFICES ASSUME NEW j \in cleaning', j # k PROVE HoldsExpired(j)'
    BY DEF CleaningExpired
  <2>1. HoldsExpired(j)
    BY DEF CacheInv, CleaningExpired
  <2>2. /\ HasLive(l0', j) <=> HasLive(l0, j)
        /\ HasLive(l0, j) => EntryOf(l0', j) = EntryOf(l0, j)
    BY <1>1, <1>2, DelFromSpares
  <2>3. /\ HasLive(l1', j) <=> HasLive(l1, j)
        /\ HasLive(l1, j) => EntryOf(l1', j) = EntryOf(l1, j)
    BY <1>1, <1>2, DelFromSpares
  <2> QED BY <2>1, <2>2, <2>3 DEF HoldsExpired, HoldsExpiredAt, Expired
<1> QED
  BY <1>5, <1>8, <1>9, <1>10, <1>11 DEF CacheInv

(* A Get that finds the key in level 0 moves the newest copy to level 1.   *)
LEMMA PromotionKeepsInv ==
  ASSUME CacheInv, NEW k \in Keys, HasLive(l0, k), l0' = DelFrom(l0, k),
         l1' = PutIn(l1, Cap1, EntryOf(l0, k)), Unlocked,
         UNCHANGED <<now, sets, begun, clearing, cleaning, latest, pushed>>
  PROVE  CacheInv'
<1> DEFINE x == EntryOf(l0, k)
<1>1. /\ ListInv(l0, Cap0) /\ ListInv(l1, Cap1) /\ now \in Nat /\ sets \in Nat
      /\ latest \in [Keys -> [v : Nat, e : Nat] \cup {None}] /\ cleaning = {}
      /\ clearing \in SUBSET Keys /\ begun \subseteq {z \in Entry : Live(z)}
  BY DEF CacheInv, TypeInv, Unlocked
<1>2. x \in Entries(l0) /\ x \in Entry /\ x.k = k /\ Live(x)
  BY <1>1, LiveList
<1>3. /\ ListInv(l0', Cap0)
      /\ \A y : y.k # k => (y \in Entries(l0') <=> y \in Entries(l0))
      /\ \A y \in Entries(l0') : Live(y) => y.k # k
  BY <1>1, DelFromList
<1> HIDE DEF x
<1>4. /\ ListInv(l1', Cap1)
      /\ \A y \in Entries(l1') : y = x \/ (y \in Entries(l1) /\ y.k # k)
  BY <1>1, <1>2, CapAssumption, PutInList DEF x
<1>5. TypeInv'
  BY <1>1, <1>3, <1>4 DEF TypeInv
<1>6. k \notin pushed /\ latest[k] = [v |-> x.v, e |-> x.e]
  BY <1>2 DEF CacheInv, FirstIsLatest
<1>7. FirstIsLatest'
  BY <1>3 DEF CacheInv, FirstIsLatest
<1>8. SecondIsKnown'
  <2>1. [v |-> x.v, e |-> x.e] \in [v : Nat, e : Nat]
    BY <1>2 DEF Entry
  <2>2. latest[k] # None
    BY <1>6, <2>1, NoneAssumption
  <2> QED BY <2>2, <1>2, <1>4 DEF CacheInv, SecondIsKnown
<1>9. SecondIsLatest'
  <2> SUFFICES ASSUME NEW y \in Entries(l1'), Live(y), y.k \notin pushed, ~HasLive(l0', y.k)
               PROVE  latest[y.k].v = y.v
    BY DEF SecondIsLatest
  <2>1. CASE y = x
    BY <2>1, <1>2, <1>6
  <2>2. CASE y \in Entries(l1) /\ y.k # k
    <3>1. ~HasLive(l0, y.k)
      BY <2>2, <1>1, DelFromSpares
    <3> QED BY <2>2, <3>1 DEF CacheInv, SecondIsLatest
  <2> QED BY <2>1, <2>2, <1>4
<1>10. CleaningExpired'
  BY <1>1 DEF CleaningExpired
<1> QED
  BY <1>5, <1>7, <1>8, <1>9, <1>10 DEF CacheInv

LEMMA GetKeepsInv ==
  ASSUME CacheInv, NEW k \in Keys, Get(k)
  PROVE  CacheInv'
<1>1. Unlocked /\ UNCHANGED <<now, sets, begun, clears, clearing, cleaning, latest, pushed>>
  BY DEF Get
<1>2. CASE GetFirst(k)
  <2>1. HasLive(l0, k) /\ l0' = DelFrom(l0, k)
    BY <1>2 DEF GetFirst
  <2>2. CASE Expired(EntryOf(l0, k))
    <3>1. delete(k)
      BY <1>2, <2>1, <2>2 DEF GetFirst, delete
    <3>2. clearing' \in SUBSET Keys /\ cleaning' \subseteq cleaning \ {k}
      BY <1>1 DEF CacheInv, TypeInv, Unlocked
    <3> QED BY <1>1, <3>1, <3>2, DeleteKeepsInv
  <2>3. CASE ~Expired(EntryOf(l0, k))
    <3>1. l1' = PutIn(l1, Cap1, EntryOf(l0, k))
      BY <1>2, <2>3 DEF GetFirst
    <3> QED BY <1>1, <2>1, <3>1, PromotionKeepsInv
  <2> QED BY <2>2, <2>3
<1>3. CASE GetSecond(k)
  <2>1. ~HasLive(l0, k) /\ l1' = GetFrom(l1, k) /\ l0' = l0
    BY <1>3 DEF GetSecond
  <2>2. ListInv(l1', Cap1) /\ Entries(l1') = Entries(l1)
    BY <2>1, GetFromList DEF CacheInv, TypeInv
  <2>3. TypeInv'
    BY <1>1, <2>1, <2>2 DEF CacheInv, TypeInv
  <2>4. FirstIsLatest' /\ SecondIsKnown' /\ SecondIsLatest'
    BY <1>1, <2>1, <2>2 DEF CacheInv, FirstIsLatest, SecondIsKnown, SecondIsLatest
  <2>5. CleaningExpired'
    BY <1>1 DEF CleaningExpired, Unlocked
  <2> QED BY <2>3, <2>4, <2>5 DEF CacheInv
<1> QED
  BY <1>2, <1>3 DEF Get

LEMMA CleanerKeepsInv ==
  ASSUME CacheInv, CleanupFind \/ \E k \in Keys : CleanupDelete(k)
  PROVE  CacheInv'
<1>1. CASE CleanupFind
  <2>1. PICK t \in 1 .. now :
        /\ cleaning' = ExpiredKeys(t)
        /\ UNCHANGED <<l0, l1, now, sets, begun, clears, clearing, latest, pushed>>
    BY <1>1 DEF CleanupFind
  <2>2. TypeInv'
    BY <2>1 DEF CacheInv, TypeInv, ExpiredKeys
  <2>3. FirstIsLatest' /\ SecondIsKnown' /\ SecondIsLatest'
    BY <2>1 DEF CacheInv, FirstIsLatest, SecondIsKnown, SecondIsLatest
  <2>4. CleaningExpired'
    <3> SUFFICES ASSUME NEW k \in ExpiredKeys(t) PROVE HoldsExpired(k)
      BY <2>1 DEF CleaningExpired, HoldsExpired, HoldsExpiredAt
    <3>1. ListInv(l0, Cap0) /\ ListInv(l1, Cap1) /\ now \in Nat
      BY DEF CacheInv, TypeInv
    <3>2. ASSUME NEW e \in Nat, t >= e PROVE now >= e
      BY <3>1, <3>2
    <3>3. /\ HasLive(l0, k) => EntryOf(l0, k).e \in Nat
          /\ HasLive(l1, k) => EntryOf(l1, k).e \in Nat
      BY <3>1, LiveList DEF Entry
    <3>4. HoldsExpiredAt(k, t)
      BY DEF ExpiredKeys
    <3> QED BY <3>2, <3>3, <3>4 DEF HoldsExpired, HoldsExpiredAt
  <2> QED BY <2>2, <2>3, <2>4 DEF CacheInv
<1>2. CASE \E k \in Keys : CleanupDelete(k)
  <2>1. PICK k \in Keys : CleanupDelete(k)
    BY <1>2
  <2>2. /\ delete(k) /\ cleaning' = cleaning \ {k} /\ latest' = latest
        /\ UNCHANGED <<now, sets, begun, clearing, pushed>>
    BY <2>1 DEF CleanupDelete
  <2>3. clearing' \in SUBSET Keys
    BY <2>2 DEF CacheInv, TypeInv
  <2> QED BY <2>2, <2>3, DeleteKeepsInv
<1> QED
  BY <1>1, <1>2

LEMMA TickKeepsInv == CacheInv /\ Tick => CacheInv'
<1> SUFFICES ASSUME CacheInv, Tick PROVE CacheInv'
  OBVIOUS
<1>1. now' = now + 1 /\ UNCHANGED <<l0, l1, sets, begun, clears, clearing, cleaning, latest, pushed>>
  BY DEF Tick
<1>2. ListInv(l0, Cap0) /\ ListInv(l1, Cap1) /\ now \in Nat
  BY DEF CacheInv, TypeInv
<1>3. TypeInv'
  BY <1>1 DEF CacheInv, TypeInv
<1>4. FirstIsLatest' /\ SecondIsKnown' /\ SecondIsLatest'
  BY <1>1 DEF CacheInv, FirstIsLatest, SecondIsKnown, SecondIsLatest
<1>5. CleaningExpired'
  <2> SUFFICES ASSUME NEW k \in cleaning PROVE HoldsExpired(k)'
    BY <1>1 DEF CleaningExpired
  <2>1. HoldsExpired(k)
    BY DEF CacheInv, CleaningExpired
  <2>2. CASE HasLive(l0, k) /\ Expired(EntryOf(l0, k))
    <3>1. EntryOf(l0, k).e \in Nat /\ now >= EntryOf(l0, k).e
      BY <2>2, <1>2, LiveList DEF Entry, Expired
    <3>2. now' >= EntryOf(l0, k).e
      BY <3>1, <1>1, <1>2
    <3> QED BY <2>2, <3>2, <1>1 DEF HoldsExpired, HoldsExpiredAt, Expired
  <2>3. CASE HasLive(l1, k) /\ Expired(EntryOf(l1, k))
    <3>1. EntryOf(l1, k).e \in Nat /\ now >= EntryOf(l1, k).e
      BY <2>3, <1>2, LiveList DEF Entry, Expired
    <3>2. now' >= EntryOf(l1, k).e
      BY <3>1, <1>1, <1>2
    <3> QED BY <2>3, <3>2, <1>1 DEF HoldsExpired, HoldsExpiredAt, Expired
  <2> QED BY <2>1, <2>2, <2>3 DEF HoldsExpired, HoldsExpiredAt, Expired
<1> QED BY <1>3, <1>4, <1>5 DEF CacheInv

LEMMA NextKeepsCacheInv == CacheInv /\ [Next]_vars => CacheInv'
<1> SUFFICES ASSUME CacheInv, [Next]_vars PROVE CacheInv'
  OBVIOUS
<1>1. ASSUME NEW x \in begun, Set(x) PROVE CacheInv'
  BY <1>1, SetKeepsInv
<1>2. ASSUME NEW k \in Keys, Get(k) PROVE CacheInv'
  BY <1>2, GetKeepsInv
<1>3. ASSUME UNCHANGED <<l0, l1, now, sets, begun, clearing, cleaning, latest, pushed>>
      PROVE CacheInv'
  BY <1>3 DEF CacheInv, TypeInv, FirstIsLatest, SecondIsKnown, SecondIsLatest,
              CleaningExpired, HoldsExpired, HoldsExpiredAt, Expired
<1>4. ASSUME NEW k \in Keys, Delete(k) \/ ClearDelete(k) PROVE CacheInv'
  <2>1. /\ delete(k) /\ latest' = [latest EXCEPT ![k] = None]
        /\ UNCHANGED <<now, sets, begun, pushed>> /\ cleaning = {} /\ cleaning' = cleaning
        /\ clearing' \subseteq clearing
    BY <1>4 DEF Delete, ClearDelete, Unlocked
  <2>2. clearing' \in SUBSET Keys /\ cleaning' \subseteq cleaning \ {k}
    BY <2>1 DEF CacheInv, TypeInv
  <2> QED BY <2>1, <2>2, DeleteKeepsInv
<1>5. ASSUME ClearCollect PROVE CacheInv'
  <2>1. clearing' \in SUBSET Keys /\ UNCHANGED <<l0, l1, now, sets, begun, cleaning, latest, pushed>>
    BY <1>5 DEF ClearCollect, LiveKeys
  <2> QED BY <2>1 DEF CacheInv, TypeInv, FirstIsLatest, SecondIsKnown, SecondIsLatest,
                      CleaningExpired, HoldsExpired, HoldsExpiredAt, Expired
<1>6. CASE (\E k \in Keys, ttl \in TTLs : SetBegin(k, ttl)) \/ \E x \in begun : Set(x)
  BY <1>1, <1>6, SetBeginKeepsInv
<1>7. CASE \E k \in Keys : Get(k)
  BY <1>2, <1>7
<1>8. CASE \E k \in Keys : GetValue(k)
  BY <1>3, <1>8 DEF GetValue
<1>9. CASE \E k \in Keys : Delete(k) \/ ClearDelete(k)
  BY <1>4, <1>9
<1>10. CASE CleanupFind \/ \E k \in Keys : CleanupDelete(k)
  BY <1>10, CleanerKeepsInv
<1>11. CASE ClearCollect
  BY <1>5, <1>11
<1>12. CASE Tick
  BY <1>12, TickKeepsInv
<1>13. CASE UNCHANGED vars
  BY <1>3, <1>13 DEF vars
<1> QED
  BY <1>6, <1>7, <1>8, <1>9, <1>10, <1>11, <1>12, <1>13 DEF Next

(* The two levels agree with the last Set and the last Delete of each key  *)
(* after every sequence of operations, with cleaning and Clear between     *)
(* (lru2.go:53-117, 399-456).                                              *)
THEOREM CacheInvariance == Spec => []CacheInv
<1> QED
  BY InitCacheInv, NextKeepsCacheInv, PTL DEF Spec

(* After Delete of a key neither level has it live, and no promotion, no   *)
(* copy left in level 1 and no read brings it back: only a Set does        *)
(* (lru2.go:93-101, 399-417).                                              *)
THEOREM DeletedStaysGone == Spec => []NoResurrection
<1>1. CacheInv => NoResurrection
  <2> SUFFICES ASSUME CacheInv, NEW k \in Keys, latest[k] = None, k \in LiveKeys
               PROVE  FALSE
    BY DEF NoResurrection
  <2>1. ListInv(l0, Cap0) /\ ListInv(l1, Cap1)
    BY DEF CacheInv, TypeInv
  <2>2. CASE HasLive(l0, k)
    <3>1. PICK x \in Entries(l0) : x.k = k /\ Live(x) /\ x \in Entry
      BY <2>1, <2>2, LiveList
    <3>2. latest[k] = [v |-> x.v, e |-> x.e] /\ x.v \in Nat /\ x.e \in Nat
      BY <3>1 DEF CacheInv, FirstIsLatest, Entry
    <3> QED BY <3>2, NoneAssumption
  <2>3. CASE HasLive(l1, k)
    <3>1. PICK x \in Entries(l1) : x.k = k /\ Live(x)
      BY <2>1, <2>3, LiveList
    <3> QED BY <3>1 DEF CacheInv, SecondIsKnown
  <2> QED BY <2>2, <2>3 DEF LiveKeys
<1> QED
  BY <1>1, CacheInvariance, PTL

-----------------------------------------------------------------------------
(* What a read returns is live and has not expired.                        *)
LEMMA ReadIsValid ==
  ASSUME CacheInv, NEW k \in Keys, Get(k) \/ GetValue(k), got' # None
  PROVE  \E read :
         \/ /\ HasLive(l0, k) /\ ~Expired(EntryOf(l0, k))
            /\ got' = Found(EntryOf(l0, k), read)
         \/ /\ HasLive(l1, k) /\ ~Expired(EntryOf(l1, k))
            /\ got' = Found(EntryOf(l1, k), read)
            /\ HasLive(l0, k) => Expired(EntryOf(l0, k)) /\ read = "GetValue"
<1>1. CASE GetFirst(k)
  BY <1>1 DEF GetFirst
<1>2. CASE GetSecond(k)
  BY <1>2 DEF GetSecond
<1>3. CASE GetValue(k)
  BY <1>3 DEF GetValue
<1> QED
  BY <1>1, <1>2, <1>3 DEF Get

(* No other operation returns anything.                                    *)
LEMMA OnlyReadsReturn ==
  ASSUME [Next]_vars, got' # None,
         ~ \E k \in Keys : Get(k) \/ GetValue(k)
  PROVE  UNCHANGED vars
<1>1. ASSUME \/ \E k \in Keys, ttl \in TTLs : SetBegin(k, ttl)
             \/ \E x \in begun : Set(x)
      PROVE  got' = None
  BY <1>1 DEF SetBegin, Set
<1>2. ASSUME NEW k \in Keys, Delete(k) \/ ClearDelete(k) \/ CleanupDelete(k) PROVE got' = None
  BY <1>2 DEF Delete, ClearDelete, CleanupDelete
<1>3. ASSUME CleanupFind \/ ClearCollect \/ Tick PROVE got' = None
  BY <1>3 DEF CleanupFind, ClearCollect, Tick
<1> QED
  BY <1>1, <1>2, <1>3 DEF Next

(* No read returns an entry whose time is over, in level 0, in level 1 or  *)
(* on the way from one to the other (lru2.go:53-91, 336-351).              *)
THEOREM NothingExpiredServed == Spec => []ExpiredNotServed
<1>1. Init => ExpiredNotServed
  BY DEF Init, ExpiredNotServed
<1>2. CacheInv /\ ExpiredNotServed /\ [Next]_vars => ExpiredNotServed'
  <2> SUFFICES ASSUME CacheInv, ExpiredNotServed, [Next]_vars, got' # None
               PROVE  now' < got'.e
    BY DEF ExpiredNotServed
  <2>1. ASSUME NEW k \in Keys, Get(k) \/ GetValue(k) PROVE now' < got'.e
    <3>1. now' = now /\ now \in Nat /\ ListInv(l0, Cap0) /\ ListInv(l1, Cap1)
      BY <2>1 DEF Get, GetValue, CacheInv, TypeInv
    <3>2. PICK x \in Entry : ~Expired(x) /\ \E read : got' = Found(x, read)
      BY <2>1, <3>1, ReadIsValid, LiveList
    <3>3. x.e \in Nat /\ ~(now >= x.e) /\ got'.e = x.e
      BY <3>2 DEF Expired, Found, Entry
    <3> QED BY <3>1, <3>3
  <2>2. CASE UNCHANGED vars
    BY <2>2 DEF vars, ExpiredNotServed
  <2> QED BY <2>1, <2>2, OnlyReadsReturn
<1> QED
  BY <1>1, <1>2, CacheInvariance, PTL DEF Spec

(* A Get returns what the last Set of its key wrote, unless level 0 has    *)
(* pushed that out, whatever expirations the Sets have and in whatever     *)
(* order they get the lock: an entry that level 0 gives up takes the older *)
(* copy in level 1 with it (lru2.go:53-91).  A GetValue, which deletes     *)
(* nothing, does so until the last Set's entry expires (lru2.go:208-230).  *)
THEOREM ReadsReturnLastWrite == Spec => []ReadsLastWrite
<1>1. Init => ReadsLastWrite
  BY DEF Init, ReadsLastWrite
<1>2. CacheInv /\ ReadsLastWrite /\ [Next]_vars => ReadsLastWrite'
  <2> SUFFICES ASSUME CacheInv, ReadsLastWrite, [Next]_vars,
                      got' # None, got'.k \notin pushed'
               PROVE  /\ latest'[got'.k] # None
                      /\ \/ got'.v = latest'[got'.k].v
                         \/ got'.by = "GetValue" /\ now' >= latest'[got'.k].e
    BY DEF ReadsLastWrite
  <2>1. ASSUME NEW k \in Keys, Get(k) \/ GetValue(k)
        PROVE  /\ latest'[got'.k] # None
               /\ \/ got'.v = latest'[got'.k].v
                  \/ got'.by = "GetValue" /\ now' >= latest'[got'.k].e
    <3>0. /\ pushed' = pushed /\ latest' = latest /\ now' = now
          /\ ListInv(l0, Cap0) /\ ListInv(l1, Cap1)
      BY <2>1 DEF Get, GetValue, CacheInv, TypeInv
    <3>1. ASSUME HasLive(l0, k)
          PROVE  LET x == EntryOf(l0, k) IN
                 latest[k] # None /\ latest[k].v = x.v /\ latest[k].e = x.e
      <4>1. PICK x \in Entries(l0) : x = EntryOf(l0, k) /\ x.k = k /\ Live(x) /\ x \in Entry
        BY <3>0, <3>1, LiveList
      <4>2. latest[k] = [v |-> x.v, e |-> x.e]
        BY <4>1 DEF CacheInv, FirstIsLatest
      <4>3. latest[k] # None
        BY <4>1, <4>2, NoneAssumption DEF Entry
      <4> QED BY <4>1, <4>2, <4>3
    <3>2. PICK read :
         \/ /\ HasLive(l0, k) /\ ~Expired(EntryOf(l0, k))
            /\ got' = Found(EntryOf(l0, k), read)
         \/ /\ HasLive(l1, k) /\ ~Expired(EntryOf(l1, k))
            /\ got' = Found(EntryOf(l1, k), read)
            /\ HasLive(l0, k) => Expired(EntryOf(l0, k)) /\ read = "GetValue"
      BY <2>1, ReadIsValid
    <3>3. CASE HasLive(l0, k) /\ got' = Found(EntryOf(l0, k), read)
      <4>1. EntryOf(l0, k).k = k
        BY <3>0, <3>3, LiveList
      <4> QED BY <3>0, <3>1, <3>3, <4>1 DEF Found
    <3>4. CASE /\ HasLive(l1, k) /\ got' = Found(EntryOf(l1, k), read)
               /\ HasLive(l0, k) => Expired(EntryOf(l0, k)) /\ read = "GetValue"
      <4>1. PICK y \in Entries(l1) : y = EntryOf(l1, k) /\ y.k = k /\ Live(y)
        BY <3>0, <3>4, LiveList
      <4>2. got'.k = k /\ got'.v = y.v /\ got'.by = read
        BY <3>4, <4>1 DEF Found
      <4>3. CASE HasLive(l0, k)
        BY <3>0, <3>1, <3>4, <4>2, <4>3 DEF Expired
      <4>4. CASE ~HasLive(l0, k)
        BY <3>0, <4>1, <4>2, <4>4 DEF CacheInv, SecondIsKnown, SecondIsLatest
      <4> QED BY <4>3, <4>4
    <3> QED BY <3>2, <3>3, <3>4
  <2>2. CASE UNCHANGED vars
    BY <2>2 DEF vars, ReadsLastWrite
  <2> QED BY <2>1, <2>2, OnlyReadsReturn
<1> QED
  BY <1>1, <1>2, CacheInvariance, PTL DEF Spec

(* The cleaner deletes nothing of a key neither of whose copies has expired*)
(* (lru2.go:426-456), also when the clock has moved on since it looked:    *)
(* what it found expired stays expired.                                    *)
THEOREM CleanupSpares == Spec => CleanupSparesFresh
<1>1. ASSUME CacheInv, NEW j \in Keys, CleanupDelete(j), NEW k \in Keys, ~HoldsExpired(k)
      PROVE  /\ HasLive(l0, k) => HasLive(l0', k)
             /\ HasLive(l1, k) => HasLive(l1', k)
  <2>1. j # k
    BY <1>1 DEF CleanupDelete, CacheInv, CleaningExpired
  <2>2. ListInv(l0, Cap0) /\ ListInv(l1, Cap1)
    BY <1>1 DEF CacheInv, TypeInv
  <2>3. l0' = DelFrom(l0, j) /\ l1' = DelFrom(l1, j)
    BY <1>1 DEF CleanupDelete, delete
  <2> QED BY <2>1, <2>2, <2>3, DelFromSpares
<1>2. CacheInv /\ [Next]_vars =>
        [(\E k \in Keys : CleanupDelete(k)) =>
           \A k \in Keys : ~HoldsExpired(k) =>
             /\ HasLive(l0, k) => HasLive(l0', k)
             /\ HasLive(l1, k) => HasLive(l1', k)]_vars
  BY <1>1
<1> QED
  BY <1>2, CacheInvariance, PTL DEF Spec, CleanupSparesFresh

-----------------------------------------------------------------------------
(* Sums.  A set of numbers has a least one, which stands in for induction: *)
(* a claim wrong for some number is wrong for a least one.                 *)
LEMMA LeastOf ==
  ASSUME NEW T \in SUBSET Nat, T # {}
  PROVE  \E x \in T : \A y \in T : x <= y
<1>1. IsWellFoundedOn(OpToRel(<, Nat), Nat)
  BY NatLessThanWellFounded
<1>2. OpToRel(<, Nat) = {ss \in Nat \X Nat : ss[1] < ss[2]}
  BY DEF OpToRel
<1>3. PICK x \in T : \A y \in T : ~(<<y, x>> \in OpToRel(<, Nat))
  BY <1>1, WFMin
<1>4. ASSUME NEW y \in T PROVE x <= y
  <2>1. x \in Nat /\ y \in Nat
    OBVIOUS
  <2>2. ~(y < x)
    BY <1>2, <1>3, <2>1
  <2> QED BY <2>1, <2>2
<1> QED BY <1>3, <1>4

(* The sum of w[x] over the x of a set, taken as FoldSet does: T[s] is the *)
(* sum over s.                                                             *)
Pick(s) == CHOOSE x \in s : TRUE

Adds(T, w, S) ==
  \A s \in SUBSET S : T[s] = IF s = {} THEN 0 ELSE T[s \ {Pick(s)}] + w[Pick(s)]

(* What FoldSet takes first is of the set.                                 *)
LEMMA PickIn == ASSUME NEW s, s # {} PROVE Pick(s) \in s
BY DEF Pick

(* The numbers over a finite set have sums: else there would be a least    *)
(* size of subset without one, and it has a sum from those a size smaller. *)
LEMMA SumExists ==
  ASSUME NEW S, IsFiniteSet(S), NEW w, \A x \in S : w[x] \in Nat
  PROVE  \E T \in [SUBSET S -> Nat] : Adds(T, w, S)
<1> DEFINE Small(n) == {s \in SUBSET S : Cardinality(s) <= n}
           Has(n) == \E T \in [Small(n) -> Nat] : \A s \in Small(n) :
                       T[s] = IF s = {} THEN 0 ELSE T[s \ {Pick(s)}] + w[Pick(s)]
           Bad == {n \in Nat : ~Has(n)}
<1>1. \A s \in SUBSET S : IsFiniteSet(s) /\ Cardinality(s) \in Nat
                          /\ Cardinality(s) <= Cardinality(S)
  BY FS_Subset, FS_CardinalityType
<1>2. Has(0)
  <2>1. \A s \in Small(0) : s = {}
    BY <1>1, FS_EmptySet
  <2>2. [s \in Small(0) |-> 0] \in [Small(0) -> Nat]
    OBVIOUS
  <2> QED BY <2>1, <2>2
<1>3. ASSUME NEW n \in Nat, Has(n) PROVE Has(n + 1)
  <2>1. PICK T \in [Small(n) -> Nat] : \A s \in Small(n) :
               T[s] = IF s = {} THEN 0 ELSE T[s \ {Pick(s)}] + w[Pick(s)]
    BY <1>3
  <2> DEFINE U == [s \in Small(n + 1) |->
                     IF s = {} THEN 0 ELSE T[s \ {Pick(s)}] + w[Pick(s)]]
  <2>2. ASSUME NEW s \in Small(n + 1), s # {}
        PROVE  s \ {Pick(s)} \in Small(n) /\ w[Pick(s)] \in Nat
    <3>1. Pick(s) \in s /\ IsFiniteSet(s)
      BY <2>2, <1>1, PickIn
    <3>2. Cardinality(s \ {Pick(s)}) = Cardinality(s) - 1
      BY <3>1, FS_RemoveElement
    <3> QED BY <1>1, <2>2, <3>1, <3>2
  <2>3. U \in [Small(n + 1) -> Nat]
    BY <2>1, <2>2
  <2>4. ASSUME NEW s \in Small(n) PROVE s \in Small(n + 1) /\ U[s] = T[s]
    <3>1. s \in Small(n + 1)
      BY <1>1
    <3> QED BY <2>1, <3>1
  <2>5. ASSUME NEW s \in Small(n + 1)
        PROVE  U[s] = IF s = {} THEN 0 ELSE U[s \ {Pick(s)}] + w[Pick(s)]
    <3>1. CASE s = {}
      BY <3>1
    <3>2. CASE s # {}
      BY <2>2, <2>4, <3>2
    <3> QED BY <3>1, <3>2
  <2> HIDE DEF U
  <2> QED BY <2>3, <2>5
<1>4. Bad = {}
  <2> SUFFICES ASSUME Bad # {} PROVE FALSE
    OBVIOUS
  <2>1. PICK n \in Bad : \A y \in Bad : n <= y
    <3> HIDE DEF Bad
    <3>1. Bad \in SUBSET Nat
      BY DEF Bad
    <3> QED BY <3>1, LeastOf
  <2> HIDE DEF Has
  <2>2. n \in Nat /\ n # 0 /\ ~Has(n)
    BY <1>2
  <2>3. n - 1 \in Nat /\ ~(n <= n - 1) /\ (n - 1) + 1 = n
    BY <2>2
  <2>4. Has(n - 1)
    BY <2>1, <2>3
  <2> QED BY <1>3, <2>2, <2>3, <2>4
<1>5. Has(Cardinality(S)) /\ Small(Cardinality(S)) = SUBSET S
  <2> HIDE DEF Has
  <2>1. Has(Cardinality(S))
    BY <1>4, FS_CardinalityType
  <2> QED BY <1>1, <2>1
<1> QED BY <1>5 DEF Adds

(* Two sums of the same numbers are the same.                              *)
LEMMA SumSame ==
  ASSUME NEW S, NEW R, NEW s, s \subseteq S, s \subseteq R, IsFiniteSet(s),
         NEW T, NEW U, NEW w, NEW v, Adds(T, w, S), Adds(U, v, R),
         \A x \in s : w[x] = v[x]
  PROVE  T[s] = U[s]
<1> DEFINE Bad == {n \in Nat : \E r \in SUBSET s : Cardinality(r) = n /\ T[r] # U[r]}
<1>1. \A r \in SUBSET s : IsFiniteSet(r) /\ Cardinality(r) \in Nat
  BY FS_Subset, FS_CardinalityType
<1>2. Bad = {}
  <2> SUFFICES ASSUME Bad # {} PROVE FALSE
    OBVIOUS
  <2>1. PICK n \in Bad : \A y \in Bad : n <= y
    <3> HIDE DEF Bad
    <3>1. Bad \in SUBSET Nat
      BY DEF Bad
    <3> QED BY <3>1, LeastOf
  <2>2. PICK r \in SUBSET s : Cardinality(r) = n /\ T[r] # U[r]
    OBVIOUS
  <2>3. r # {}
    BY <2>2 DEF Adds
  <2>4. Pick(r) \in r /\ Cardinality(r \ {Pick(r)}) = n - 1
    BY <1>1, <2>2, <2>3, PickIn, FS_RemoveElement
  <2>5. n \in Nat /\ n - 1 \in Nat
    BY <1>1, <2>4
  <2>6. ~(n <= n - 1) /\ r \ {Pick(r)} \in SUBSET s
    BY <2>5
  <2>7. n - 1 \notin Bad
    <3> HIDE DEF Bad
    <3> QED BY <2>1, <2>6
  <2>8. T[r \ {Pick(r)}] = U[r \ {Pick(r)}]
    BY <2>4, <2>5, <2>6, <2>7
  <2>9. T[r] = T[r \ {Pick(r)}] + w[Pick(r)] /\ U[r] = U[r \ {Pick(r)}] + v[Pick(r)]
    BY <2>3 DEF Adds
  <2> QED BY <2>2, <2>4, <2>8, <2>9
<1> QED BY <1>1, <1>2

AnyOrder(T, w, S) == \A b \in S : T[S] = T[S \ {b}] + w[b]

(* The order in which a sum takes its numbers does not matter.             *)
LEMMA SumAnyOrder ==
  ASSUME NEW S, IsFiniteSet(S), NEW w, \A x \in S : w[x] \in Nat,
         NEW T, T \in [SUBSET S -> Nat], Adds(T, w, S)
  PROVE  AnyOrder(T, w, S)
<1> DEFINE Wrong(r) == \E a \in r : T[r] # T[r \ {a}] + w[a]
           Bad == {n \in Nat : \E r \in SUBSET S : Cardinality(r) = n /\ Wrong(r)}
<1>1. \A r \in SUBSET S : IsFiniteSet(r) /\ Cardinality(r) \in Nat
  BY FS_Subset, FS_CardinalityType
<1>2. Bad = {}
  <2> SUFFICES ASSUME Bad # {} PROVE FALSE
    OBVIOUS
  <2>1. PICK n \in Bad : \A y \in Bad : n <= y
    <3> HIDE DEF Bad
    <3>1. Bad \in SUBSET Nat
      BY DEF Bad
    <3> QED BY <3>1, LeastOf
  <2>2. PICK r \in SUBSET S : Cardinality(r) = n /\ Wrong(r)
    OBVIOUS
  <2>3. PICK a \in r : T[r] # T[r \ {a}] + w[a]
    BY <2>2
  <2>4. PICK c : c = Pick(r)
    OBVIOUS
  <2>5. c \in r /\ T[r] = T[r \ {c}] + w[c]
    BY <2>3, <2>4, PickIn DEF Adds
  <2>6. a # c
    BY <2>3, <2>5
  <2>7. ASSUME NEW x \in r, NEW y \in r \ {x}
        PROVE  T[r \ {x}] = T[(r \ {x}) \ {y}] + w[y]
    <3>1. Cardinality(r \ {x}) = n - 1
      BY <1>1, <2>2, FS_RemoveElement
    <3>2. n \in Nat /\ n - 1 \in Nat /\ r \ {x} \in SUBSET S
      BY <1>1, <3>1
    <3>3. ~(n <= n - 1)
      BY <3>2
    <3>4. n - 1 \notin Bad
      <4> HIDE DEF Bad
      <4> QED BY <2>1, <3>3
    <3> QED BY <2>7, <3>1, <3>2, <3>4
  <2>8. T[r \ {c}] = T[(r \ {c}) \ {a}] + w[a] /\ T[r \ {a}] = T[(r \ {a}) \ {c}] + w[c]
    BY <2>5, <2>6, <2>7
  <2>9. (r \ {c}) \ {a} = (r \ {a}) \ {c}
    OBVIOUS
  <2>10. PICK t \in Nat, x \in Nat, y \in Nat :
           t = T[(r \ {a}) \ {c}] /\ x = w[a] /\ y = w[c]
    BY <2>5
  <2>11. T[r] = (t + x) + y /\ T[r \ {a}] = t + y
    BY <2>5, <2>8, <2>9, <2>10
  <2>12. (t + x) + y = (t + y) + x
    BY <2>10
  <2> QED BY <2>3, <2>10, <2>11, <2>12
<1>3. ~Wrong(S)
  BY <1>1, <1>2
<1> QED BY <1>3 DEF AnyOrder

(* The sum of w[x] over the x of S.                                        *)
Total(w, S) == (CHOOSE T : T \in [SUBSET S -> Nat] /\ Adds(T, w, S))[S]

(* A Total is taken in some function of sums, ...                          *)
LEMMA TotalAdds ==
  ASSUME NEW S, IsFiniteSet(S), NEW w, \A x \in S : w[x] \in Nat
  PROVE  \E T \in [SUBSET S -> Nat] : Adds(T, w, S) /\ Total(w, S) = T[S]
BY SumExists DEF Total

(* ... is 0 over nothing, ...                                              *)
LEMMA TotalEmpty == ASSUME NEW w PROVE Total(w, {}) = 0
<1>1. PICK T \in [SUBSET {} -> Nat] : Adds(T, w, {}) /\ Total(w, {}) = T[{}]
  BY TotalAdds, FS_EmptySet
<1> QED BY <1>1 DEF Adds

(* ... depends on the numbers of its set only, ...                         *)
LEMMA TotalSame ==
  ASSUME NEW S, IsFiniteSet(S), NEW w, NEW v,
         \A x \in S : w[x] \in Nat /\ v[x] = w[x]
  PROVE  Total(w, S) = Total(v, S)
<1>1. \A x \in S : w[x] \in Nat
  OBVIOUS
<1>2. \A x \in S : v[x] \in Nat
  OBVIOUS
<1>3. PICK T \in [SUBSET S -> Nat] : Adds(T, w, S) /\ Total(w, S) = T[S]
  BY <1>1, TotalAdds
<1>4. PICK U \in [SUBSET S -> Nat] : Adds(U, v, S) /\ Total(v, S) = U[S]
  BY <1>2, TotalAdds
<1>5. T[S] = U[S]
  BY <1>3, <1>4, SumSame
<1> QED BY <1>3, <1>4, <1>5

(* ... and loses w[a] with any a of the set.                               *)
LEMMA TotalWithout ==
  ASSUME NEW S, IsFiniteSet(S), NEW w, \A x \in S : w[x] \in Nat, NEW a \in S
  PROVE  Total(w, S) = Total(w, S \ {a}) + w[a] /\ Total(w, S \ {a}) \in Nat
<1>1. PICK T \in [SUBSET S -> Nat] : Adds(T, w, S) /\ Total(w, S) = T[S]
  BY TotalAdds
<1>2. PICK R : R = S \ {a}
  OBVIOUS
<1>3. IsFiniteSet(R) /\ (\A x \in R : w[x] \in Nat) /\ R \subseteq S
  BY <1>2, FS_RemoveElement
<1>4. PICK U \in [SUBSET R -> Nat] : Adds(U, w, R) /\ Total(w, R) = U[R]
  BY <1>3, TotalAdds
<1>5. T[R] = U[R]
  <2>1. R \subseteq R /\ \A x \in R : w[x] = w[x]
    OBVIOUS
  <2> QED BY <1>1, <1>3, <1>4, <2>1, SumSame
<1>6. T[S] = T[R] + w[a]
  <2>1. T \in [SUBSET S -> Nat] /\ Adds(T, w, S)
    BY <1>1
  <2>2. AnyOrder(T, w, S)
    BY <2>1, SumAnyOrder
  <2> QED BY <1>2, <2>2 DEF AnyOrder
<1> QED BY <1>1, <1>2, <1>4, <1>5, <1>6

-----------------------------------------------------------------------------
(* What the entries take, in bytes.                                        *)
Cost == [k \in Present |-> KeyLen + entry[items[k]].v]

(* BytesAreExact, which folds, is about their Total.                       *)
LEMMA FoldIsTotal ==
  ASSUME IsFiniteSet(Present), KeyLen \in Nat,
         \A k \in Present : entry[items[k]].v \in Nat
  PROVE  BytesAreExact <=> usedBytes = Total(Cost, Present)
<1> DEFINE F(T) == T = [s \in SUBSET Present |->
                     IF s = {} THEN 0 ELSE T[s \ {CHOOSE x \in s : TRUE}] + KeyLen
                                             + entry[items[CHOOSE x \in s : TRUE]].v]
           fold == CHOOSE T : F(T)
<1>1. BytesAreExact <=> usedBytes = fold[Present]
  BY DEF BytesAreExact, FoldSet, MapThenFoldSet
<1>2. \A x \in Present : Cost[x] \in Nat
  BY DEF Cost
<1>3. PICK T \in [SUBSET Present -> Nat] : Adds(T, Cost, Present) /\ Total(Cost, Present) = T[Present]
  BY <1>2, TotalAdds
<1>4. ASSUME NEW s \in SUBSET Present, s # {}
      PROVE  T[s] = T[s \ {Pick(s)}] + KeyLen + entry[items[Pick(s)]].v
  <2>1. T[s] = T[s \ {Pick(s)}] + Cost[Pick(s)]
    BY <1>3, <1>4 DEF Adds
  <2>2. Pick(s) \in Present /\ s \ {Pick(s)} \in SUBSET Present
    BY <1>4, PickIn
  <2>3. Cost[Pick(s)] = KeyLen + entry[items[Pick(s)]].v
    BY <2>2 DEF Cost
  <2>4. T[s \ {Pick(s)}] \in Nat /\ entry[items[Pick(s)]].v \in Nat
    BY <2>2
  <2> QED BY <2>1, <2>3, <2>4
<1>5. F(T)
  <2>1. \A s \in SUBSET Present : T[s] =
          IF s = {} THEN 0 ELSE T[s \ {CHOOSE x \in s : TRUE}] + KeyLen
                                  + entry[items[CHOOSE x \in s : TRUE]].v
    BY <1>3, <1>4 DEF Pick, Adds
  <2> QED BY <2>1
<1>6. F(fold)
  <2> HIDE DEF F
  <2> QED BY <1>5
<1>7. \A s \in SUBSET Present : fold[s] = T[s]
  <2> DEFINE Bad == {n \in Nat : \E r \in SUBSET Present : Cardinality(r) = n /\ fold[r] # T[r]}
  <2>0. \A s \in SUBSET Present : fold[s] =
          IF s = {} THEN 0 ELSE fold[s \ {CHOOSE x \in s : TRUE}] + KeyLen
                                  + entry[items[CHOOSE x \in s : TRUE]].v
    <3> HIDE DEF fold
    <3> QED BY <1>6
  <2> HIDE DEF fold
  <2>1. \A r \in SUBSET Present : IsFiniteSet(r) /\ Cardinality(r) \in Nat
    BY FS_Subset, FS_CardinalityType
  <2>2. Bad = {}
    <3> SUFFICES ASSUME Bad # {} PROVE FALSE
      OBVIOUS
    <3>1. PICK n \in Bad : \A y \in Bad : n <= y
      <4> HIDE DEF Bad
      <4>1. Bad \in SUBSET Nat
        BY DEF Bad
      <4> QED BY <4>1, LeastOf
    <3>2. PICK r \in SUBSET Present : Cardinality(r) = n /\ fold[r] # T[r]
      OBVIOUS
    <3>3. r # {}
      BY <1>3, <2>0, <3>2 DEF Adds
    <3>4. Pick(r) \in r /\ Cardinality(r \ {Pick(r)}) = n - 1
      BY <2>1, <3>2, <3>3, PickIn, FS_RemoveElement
    <3>5. n \in Nat /\ n - 1 \in Nat /\ r \ {Pick(r)} \in SUBSET Present
      BY <2>1, <3>4
    <3>6. ~(n <= n - 1)
      BY <3>5
    <3>7. n - 1 \notin Bad
      <4> HIDE DEF Bad
      <4> QED BY <3>1, <3>6
    <3>8. fold[r \ {Pick(r)}] = T[r \ {Pick(r)}]
      BY <3>4, <3>5, <3>7
    <3>9. fold[r] = fold[r \ {Pick(r)}] + KeyLen + entry[items[Pick(r)]].v
      BY <2>0, <3>3 DEF Pick
    <3>10. T[r] = T[r \ {Pick(r)}] + KeyLen + entry[items[Pick(r)]].v
      BY <1>4, <3>3
    <3> QED BY <3>2, <3>8, <3>9, <3>10
  <2> QED BY <2>1, <2>2
<1>8. fold[Present] = T[Present]
  <2> HIDE DEF fold
  <2> QED BY <1>7
<1> QED BY <1>1, <1>3, <1>8

-----------------------------------------------------------------------------
(* Circles.  A Set and a removal change the links in four places at most:  *)
(* Unlink and LinkAfter are the links afterwards.                          *)
Around == [p : Elems \cup {Root}, n : Elems \cup {Root}]
InList == {items[k] : k \in Present} \cup {Root}

(* Links l join the elements of S both ways, ...                           *)
Linked(l, S) ==
  \A e \in S : /\ l[e].n \in S /\ l[e].p \in S
               /\ l[l[e].n].p = e /\ l[l[e].p].n = e

(* ... and those alone that are reached from the root.                     *)
Circle(l, S) ==
  /\ Linked(l, S)
  /\ \A T \in SUBSET S : (Root \in T /\ \A e \in T : l[e].n \in T) => T = S

Unlink(l, e) ==
  [f \in Elems \cup {Root} |-> [p |-> IF f = l[e].n THEN l[e].p ELSE l[f].p,
                                n |-> IF f = l[e].p THEN l[e].n ELSE l[f].n]]

(* Unlinked, which writes link by link, gives Unlink.                      *)
LEMMA UnlinkedIs ==
  ASSUME NEW l \in [Elems \cup {Root} -> Around], NEW e \in Elems \cup {Root}
  PROVE  Unlinked(l, e) = Unlink(l, e) /\ Unlinked(l, e) \in [Elems \cup {Root} -> Around]
<1> DEFINE U == Elems \cup {Root}
<1>1. PICK a \in U, b \in U : a = l[e].p /\ b = l[e].n
  BY DEF Around
<1> DEFINE h1 == [l EXCEPT ![a].n = b]
<1>2. h1 \in [U -> Around] /\ h1[e].n = b /\ h1[e].p = a
      /\ \A f \in U : h1[f].p = l[f].p /\ h1[f].n = IF f = a THEN b ELSE l[f].n
  BY <1>1 DEF Around
<1>3. Unlinked(l, e) = [h1 EXCEPT ![h1[e].n].p = h1[e].p]
  BY <1>1 DEF Unlinked
<1> HIDE DEF h1
<1>4. Unlinked(l, e) = [h1 EXCEPT ![b].p = a]
  BY <1>2, <1>3
<1>5. Unlinked(l, e) \in [U -> Around]
  BY <1>2, <1>4 DEF Around
<1>6. \A f \in U : Unlinked(l, e)[f] = Unlink(l, e)[f]
  <2> TAKE f \in U
  <2>1. Unlinked(l, e)[f] = [p |-> IF f = b THEN a ELSE h1[f].p, n |-> h1[f].n]
    BY <1>2, <1>4 DEF Around
  <2>2. h1[f].p = l[f].p /\ h1[f].n = IF f = a THEN b ELSE l[f].n
    BY <1>2
  <2>3. Unlink(l, e)[f] = [p |-> IF f = b THEN a ELSE l[f].p,
                          n |-> IF f = a THEN b ELSE l[f].n]
    BY <1>1 DEF Unlink
  <2> QED BY <2>1, <2>2, <2>3
<1>7. Unlink(l, e) \in [U -> Around]
  BY DEF Unlink, Around
<1> QED BY <1>5, <1>6, <1>7

LinkAfter(l, e, x) ==
  [f \in Elems \cup {Root} |-> [p |-> IF f = l[x].n THEN e ELSE IF f = e THEN x ELSE l[f].p,
                                n |-> IF f = e THEN l[x].n ELSE IF f = x THEN e ELSE l[f].n]]

(* LinkedAfter gives LinkAfter, for an element that is not among the two.  *)
LEMMA LinkedAfterIs ==
  ASSUME NEW l \in [Elems \cup {Root} -> Around], NEW e \in Elems \cup {Root},
         NEW x \in Elems \cup {Root}, e # x, e # l[x].n
  PROVE  LinkedAfter(l, e, x) = LinkAfter(l, e, x)
         /\ LinkedAfter(l, e, x) \in [Elems \cup {Root} -> Around]
<1> DEFINE U == Elems \cup {Root}
<1>1. PICK y \in U : y = l[x].n
  BY DEF Around
<1> DEFINE h1 == [l EXCEPT ![e] = [p |-> x, n |-> y]]
           h2 == [h1 EXCEPT ![x].n = e]
<1>2. h1 \in [U -> Around] /\ h1[e].p = x /\ h1[e].n = y
      /\ \A f \in U : f # e => h1[f] = l[f]
  BY DEF Around
<1>3. LinkedAfter(l, e, x) = [h2 EXCEPT ![h2[e].n].p = e]
  BY <1>1 DEF LinkedAfter
<1> HIDE DEF h1
<1>4. h2 \in [U -> Around] /\ h2[e].n = y
      /\ \A f \in U : h2[f].p = h1[f].p /\ h2[f].n = IF f = x THEN e ELSE h1[f].n
  BY <1>2 DEF Around
<1> HIDE DEF h2
<1>5. LinkedAfter(l, e, x) = [h2 EXCEPT ![y].p = e]
  BY <1>3, <1>4
<1>6. LinkedAfter(l, e, x) \in [U -> Around]
  BY <1>4, <1>5 DEF Around
<1>7. \A f \in U : LinkedAfter(l, e, x)[f] = LinkAfter(l, e, x)[f]
  <2> TAKE f \in U
  <2>1. LinkedAfter(l, e, x)[f] = [p |-> IF f = y THEN e ELSE h2[f].p, n |-> h2[f].n]
    BY <1>4, <1>5 DEF Around
  <2>2. h2[f].p = (IF f = e THEN x ELSE l[f].p)
        /\ h2[f].n = (IF f = x THEN e ELSE IF f = e THEN y ELSE l[f].n)
    <3>1. h2[f].p = h1[f].p /\ h2[f].n = (IF f = x THEN e ELSE h1[f].n)
      BY <1>4
    <3>2. CASE f = e
      BY <1>2, <3>1, <3>2
    <3>3. CASE f # e
      BY <1>2, <3>1, <3>3
    <3> QED BY <3>2, <3>3
  <2> QED BY <1>1, <2>1, <2>2 DEF LinkAfter
<1>8. LinkAfter(l, e, x) \in [U -> Around]
  BY <1>1 DEF LinkAfter, Around
<1> QED BY <1>6, <1>7, <1>8

(* list.Remove leaves a circle of the others.                              *)
LEMMA UnlinkedCircle ==
  ASSUME NEW l \in [Elems \cup {Root} -> Around], NEW S \in SUBSET (Elems \cup {Root}),
         Circle(l, S), Root \in S, NEW e \in S, e # Root
  PROVE  Circle(Unlinked(l, e), S \ {e})
<1>1. PICK a \in S, b \in S : a = l[e].p /\ b = l[e].n
  BY DEF Circle, Linked
<1>2. PICK d : d = Unlinked(l, e)
  OBVIOUS
<1>3. \A f \in S : d[f].p = (IF f = b THEN a ELSE l[f].p)
                   /\ d[f].n = (IF f = a THEN b ELSE l[f].n)
  BY <1>1, <1>2, UnlinkedIs DEF Unlink
<1>4. a # e /\ b # e
  <2>1. ASSUME a = e \/ b = e PROVE FALSE
    <3>1. l[e].n = e /\ l[e].p = e
      BY <1>1, <2>1 DEF Circle, Linked
    <3>2. \A f \in S \ {e} : l[f].n \in S \ {e}
      BY <3>1 DEF Circle, Linked
    <3>3. S \ {e} \in SUBSET S /\ Root \in S \ {e}
      OBVIOUS
    <3>4. S \ {e} = S
      BY <3>2, <3>3 DEF Circle
    <3> QED BY <3>4
  <2> QED BY <2>1
<1>5. Linked(d, S \ {e})
  <2> SUFFICES ASSUME NEW f \in S \ {e}
               PROVE  /\ d[f].n \in S \ {e} /\ d[f].p \in S \ {e}
                      /\ d[d[f].n].p = f /\ d[d[f].p].n = f
    BY DEF Linked
  <2>1. l[f].n \in S /\ l[f].p \in S /\ l[l[f].n].p = f /\ l[l[f].p].n = f
    BY DEF Circle, Linked
  <2>2. l[a].n = e /\ l[b].p = e
    BY <1>1 DEF Circle, Linked
  <2> QED BY <1>1, <1>3, <1>4, <2>1, <2>2
<1>6. ASSUME NEW T \in SUBSET (S \ {e}), Root \in T, \A f \in T : d[f].n \in T
      PROVE  T = S \ {e}
  <2>1. ASSUME a \notin T PROVE FALSE
    <3>1. \A f \in T : l[f].n \in T
      BY <1>3, <1>6, <2>1
    <3>2. T = S
      BY <1>6, <3>1 DEF Circle
    <3> QED BY <3>2
  <2>2. b \in T
    BY <1>3, <1>6, <2>1
  <2>3. \A f \in T \cup {e} : l[f].n \in T \cup {e}
    <3>1. l[a].n = e /\ l[e].n = b
      BY <1>1 DEF Circle, Linked
    <3> QED BY <1>3, <1>6, <2>2, <3>1
  <2>4. T \cup {e} = S
    <3>1. T \cup {e} \in SUBSET S /\ Root \in T \cup {e}
      BY <1>6
    <3> QED BY <2>3, <3>1 DEF Circle
  <2> QED BY <2>4
<1> QED BY <1>2, <1>5, <1>6 DEF Circle

(* An insertion, or the second half of a move, makes a circle with e.      *)
LEMMA LinkedAfterCircle ==
  ASSUME NEW l \in [Elems \cup {Root} -> Around], NEW S \in SUBSET (Elems \cup {Root}),
         Circle(l, S), Root \in S, NEW e \in Elems \ S, NEW x \in S
  PROVE  Circle(LinkedAfter(l, e, x), S \cup {e})
         /\ LinkedAfter(l, e, x) \in [Elems \cup {Root} -> Around]
<1>1. PICK y \in S : y = l[x].n
  BY DEF Circle, Linked
<1>2. PICK d : d = LinkedAfter(l, e, x)
  OBVIOUS
<1>3. d = LinkAfter(l, e, x) /\ d \in [Elems \cup {Root} -> Around]
  BY <1>1, <1>2, LinkedAfterIs
<1>4. \A f \in S : d[f].p = (IF f = y THEN e ELSE l[f].p)
                   /\ d[f].n = (IF f = x THEN e ELSE l[f].n)
  BY <1>1, <1>3 DEF LinkAfter
<1>5. d[e].p = x /\ d[e].n = y
  BY <1>1, <1>3 DEF LinkAfter
<1>6. l[y].p = x
  BY <1>1 DEF Circle, Linked
<1>7. Linked(d, S \cup {e})
  <2> SUFFICES ASSUME NEW f \in S \cup {e}
               PROVE  /\ d[f].n \in S \cup {e} /\ d[f].p \in S \cup {e}
                      /\ d[d[f].n].p = f /\ d[d[f].p].n = f
    BY DEF Linked
  <2>1. CASE f = e
    BY <1>1, <1>4, <1>5, <2>1
  <2>2. CASE f \in S
    <3>1. l[f].n \in S /\ l[f].p \in S /\ l[l[f].n].p = f /\ l[l[f].p].n = f
      BY <2>2 DEF Circle, Linked
    <3> QED BY <1>1, <1>4, <1>5, <1>6, <2>2, <3>1
  <2> QED BY <2>1, <2>2
<1>8. ASSUME NEW T \in SUBSET (S \cup {e}), Root \in T, \A f \in T : d[f].n \in T
      PROVE  T = S \cup {e}
  <2>1. \A f \in T \ {e} : l[f].n \in T \ {e}
    <3> TAKE f \in T \ {e}
    <3>1. f \in S /\ l[f].n \in S
      BY DEF Circle, Linked
    <3>2. CASE f = x
      BY <1>1, <1>4, <1>5, <1>8, <3>1, <3>2
    <3>3. CASE f # x
      BY <1>4, <1>8, <3>1, <3>3
    <3> QED BY <3>2, <3>3
  <2>2. T \ {e} = S
    BY <1>8, <2>1 DEF Circle
  <2>3. e \in T
    BY <1>4, <1>8, <2>2
  <2> QED BY <2>2, <2>3
<1> QED BY <1>2, <1>3, <1>7, <1>8 DEF Circle

(* What is linked in after the last is the last.                           *)
LEMMA LinkedAfterLast ==
  ASSUME NEW l \in [Elems \cup {Root} -> Around], NEW S \in SUBSET (Elems \cup {Root}),
         Circle(l, S), Root \in S, NEW e \in Elems \ S
  PROVE  LinkedAfter(l, e, l[Root].p)[Root].p = e
<1>1. PICK x \in S : x = l[Root].p /\ l[x].n = Root
  BY DEF Circle, Linked
<1>2. e # x /\ e # l[x].n /\ e \in Elems \cup {Root} /\ x \in Elems \cup {Root}
  BY <1>1
<1>3. LinkedAfter(l, e, x) = LinkAfter(l, e, x)
  BY <1>2, LinkedAfterIs
<1>4. LinkAfter(l, e, x)[Root].p = e
  BY <1>1 DEF LinkAfter
<1> QED BY <1>1, <1>3, <1>4

-----------------------------------------------------------------------------
(* The invariant.  Map, list, byte count and expiration times belong       *)
(* together, with the lock free or held by evict; the elements of the list *)
(* are the map's and no others, so that a Get can tell by an element's     *)
(* list whether it is still linked.                                        *)
Consistent ==
  /\ link \in [Elems \cup {Root} -> Around]
  /\ mine \in [Elems -> BOOLEAN]
  /\ entry \in [Elems -> [k : Keys, v : Vals] \cup {NoEntry}]
  /\ items \in [Keys -> Elems \cup {Absent}]
  /\ expires \in [Keys -> {"never", "later", "past"}]
  /\ IsFiniteSet(Present)
  /\ Circle(link, InList)
  /\ \A e \in Elems : mine[e] <=> e \in InList
  /\ \A k \in Present : entry[items[k]].k = k
  /\ count = Cardinality(Present)
  /\ usedBytes = Total(Cost, Present)
  /\ ExpiryHasEntry

(* The Set that evicts has put its entry at the back.                      *)
NewestIsLast ==
  \A k \in Present : evictor = k => link[Root].p = items[k]

(* The rest of the state; the root is never taken for an entry.            *)
RestOK ==
  /\ reading \in [Getters -> [k : Keys, e : Elems] \cup {Idle}]
  /\ deleting \in [Keys -> 0..MaxDeletes]
  /\ evictor \in Keys \cup {"cleaner", "none"}
  /\ closed \in BOOLEAN /\ crashed = FALSE

LruInv == Consistent /\ RestOK /\ NewestIsLast

(* The elements of the keys are distinct, none of them the root.           *)
LEMMA ElementsDistinct ==
  ASSUME Consistent
  PROVE  /\ \A k \in Present : items[k] \in Elems /\ items[k] # Root /\ k \in Keys
         /\ \A j, k \in Present : items[j] = items[k] => j = k
         /\ Root \notin Elems /\ InList \in SUBSET (Elems \cup {Root}) /\ Root \in InList
         /\ \A k \in Present : items[k] \in InList
         /\ \A e \in InList : e # Root => \E k \in Present : e = items[k]
         /\ \A k \in Present : KeyLen + entry[items[k]].v \in Nat /\ entry[items[k]].v \in Nat
         /\ \A k \in Present : Cost[k] = KeyLen + entry[items[k]].v /\ Cost[k] \in Nat
<1>1. Root \notin Elems
  BY BoundAssumption DEF Root
<1>2. \A k \in Present : items[k] \in Elems /\ items[k] # Root /\ k \in Keys
  BY <1>1 DEF Consistent, Present
<1>3. \A k \in Present : entry[items[k]].v \in Nat
  <2>1. ASSUME NEW r \in [k : Keys, v : Vals] \cup {NoEntry} PROVE r.v \in Nat
    <3>1. NoEntry.v = 0
      BY DEF NoEntry
    <3>2. CASE r \in [k : Keys, v : Vals]
      <4>1. r.v \in Vals
        BY <3>2
      <4> QED BY <4>1, SizeAssumption
    <3>3. CASE r = NoEntry
      BY <3>1, <3>3
    <3> QED BY <3>2, <3>3
  <2>2. \A e \in Elems : entry[e] \in [k : Keys, v : Vals] \cup {NoEntry}
    BY DEF Consistent
  <2> QED BY <1>2, <2>1, <2>2
<1>4. \A k \in Present : KeyLen + entry[items[k]].v \in Nat
  BY <1>3, SizeAssumption
<1>5. \A k \in Present : Cost[k] = KeyLen + entry[items[k]].v
  BY DEF Cost
<1>6. \A j, k \in Present : items[j] = items[k] => j = k
  BY DEF Consistent
<1> QED BY <1>1, <1>2, <1>3, <1>4, <1>5, <1>6 DEF InList

(* lru.go:131-140: removeElement takes one key out of all four.            *)
LEMMA RemovedConsistent ==
  ASSUME Consistent, NEW k \in Present, removeElement(items[k])
  PROVE  Consistent' /\ Present' = Present \ {k}
         /\ (\A j \in Present' : items'[j] = items[j] /\ expires'[j] = expires[j])
         /\ (link[Root].p # items[k] => link'[Root].p = link[Root].p)
<1>1. PICK e : e = items[k]
  OBVIOUS
<1>2. e \in Elems /\ e # Root /\ mine[e] /\ entry[e].k = k /\ e \in InList /\ k \in Keys
  BY <1>1, ElementsDistinct DEF Consistent
<1>3. /\ link' = [Unlinked(link, e) EXCEPT ![e] = [p |-> Root, n |-> Root]]
      /\ count' = count - 1
      /\ mine' = [mine EXCEPT ![e] = FALSE]
      /\ entry' = [entry EXCEPT ![e] = NoEntry]
      /\ items' = [items EXCEPT ![k] = Absent]
      /\ expires' = [expires EXCEPT ![k] = "never"]
      /\ usedBytes' = usedBytes - (KeyLen + entry[e].v)
  BY <1>1, <1>2 DEF removeElement
<1>4. /\ mine' \in [Elems -> BOOLEAN]
      /\ entry' \in [Elems -> [k : Keys, v : Vals] \cup {NoEntry}]
      /\ items' \in [Keys -> Elems \cup {Absent}]
      /\ expires' \in [Keys -> {"never", "later", "past"}]
  BY <1>3 DEF Consistent
<1>5. Present' = Present \ {k} /\ \A j \in Present' : items'[j] = items[j] /\ expires'[j] = expires[j]
  BY <1>3, <1>2 DEF Present, Consistent
<1>6. InList' = InList \ {e}
  <2>1. InList' = {items[j] : j \in Present \ {k}} \cup {Root}
    BY <1>5 DEF InList
  <2>2. \A j \in Present : j # k => items[j] # e
    BY <1>1, ElementsDistinct
  <2>3. InList = {items[j] : j \in Present \ {k}} \cup {e, Root}
    BY <1>1 DEF InList
  <2>4. e \notin {items[j] : j \in Present \ {k}}
    BY <2>2
  <2> QED BY <1>2, <2>1, <2>3, <2>4
<1>7. /\ link' \in [Elems \cup {Root} -> Around]
      /\ \A f \in (Elems \cup {Root}) \ {e} : link'[f] = Unlinked(link, e)[f]
      /\ Circle(Unlinked(link, e), InList')
  <2>1. link \in [Elems \cup {Root} -> Around] /\ Circle(link, InList)
    BY DEF Consistent
  <2>2. Unlinked(link, e) \in [Elems \cup {Root} -> Around]
    BY <1>2, <2>1, UnlinkedIs
  <2>3. Circle(Unlinked(link, e), InList')
    BY <1>2, <1>6, <2>1, ElementsDistinct, UnlinkedCircle
  <2>4. [p |-> Root, n |-> Root] \in Around
    BY DEF Around
  <2> QED BY <1>3, <2>2, <2>3, <2>4
<1>8. Circle(link', InList')
  <2>1. \A f \in InList' : link'[f] = Unlinked(link, e)[f]
    BY <1>6, <1>7, ElementsDistinct
  <2> QED BY <1>7, <2>1 DEF Circle, Linked
<1>9. \A f \in Elems : mine'[f] <=> f \in InList'
  BY <1>3, <1>6 DEF Consistent
<1>10. \A j \in Present' : items[j] # e /\ entry'[items'[j]] = entry[items[j]]
  <2>1. \A j \in Present' : items[j] # e /\ items[j] \in Elems
    BY <1>1, <1>5, ElementsDistinct
  <2> QED BY <1>3, <1>5, <2>1 DEF Consistent
<1>11. count' = Cardinality(Present') /\ IsFiniteSet(Present')
  BY <1>3, <1>5, FS_RemoveElement DEF Consistent
<1>12. usedBytes' = Total(Cost', Present')
  <2>1. Total(Cost, Present) = Total(Cost, Present \ {k}) + Cost[k]
        /\ Total(Cost, Present \ {k}) \in Nat
    BY ElementsDistinct, TotalWithout DEF Consistent
  <2>2. usedBytes' = Total(Cost, Present')
    <3>1. usedBytes = Total(Cost, Present \ {k}) + Cost[k] /\ Cost[k] \in Nat
          /\ Cost[k] = KeyLen + entry[e].v
      BY <1>1, <2>1, ElementsDistinct DEF Consistent
    <3> HIDE DEF Cost
    <3> QED BY <1>3, <1>5, <2>1, <3>1
  <2>3. \A j \in Present' : Cost'[j] = Cost[j] /\ Cost[j] \in Nat
    <3>1. \A j \in Present' : Cost'[j] = KeyLen + entry'[items'[j]].v
      BY DEF Cost
    <3> QED BY <1>5, <1>10, <3>1, ElementsDistinct
  <2>4. Total(Cost, Present') = Total(Cost', Present')
    BY <1>11, <2>3, TotalSame
  <2> QED BY <2>2, <2>4
<1>13. ExpiryHasEntry'
  BY <1>3, <1>5 DEF ExpiryHasEntry, Consistent
<1>14. link[Root].p # e => link'[Root].p = link[Root].p
  <2>1. link[e].n \in InList /\ link[link[e].n].p = e
    BY <1>2 DEF Consistent, Circle, Linked
  <2>2. link[Root].p # e => link[e].n # Root
    BY <2>1
  <2>3. Unlinked(link, e) = Unlink(link, e)
    BY <1>2, UnlinkedIs DEF Consistent
  <2>4. link'[Root] = Unlink(link, e)[Root]
    BY <1>2, <1>7, <2>3
  <2> QED BY <2>2, <2>4 DEF Unlink
<1>15. \A j \in Present' : entry'[items'[j]].k = j
  BY <1>5, <1>10 DEF Consistent
<1>16. Consistent'
  BY <1>4, <1>7, <1>8, <1>9, <1>11, <1>12, <1>13, <1>15 DEF Consistent
<1> QED BY <1>1, <1>5, <1>14, <1>16

(* container/list MoveToBack: the same elements, in a circle still.        *)
LEMMA MovedCircle ==
  ASSUME Consistent, NEW e \in Elems, link' = MoveToBack(e)
  PROVE  link' \in [Elems \cup {Root} -> Around] /\ Circle(link', InList)
<1>0. link \in [Elems \cup {Root} -> Around] /\ Circle(link, InList)
  BY DEF Consistent
<1>1. CASE ~mine[e] \/ link[Root].p = e
  BY <1>0, <1>1 DEF MoveToBack
<1>2. CASE mine[e] /\ link[Root].p # e
  <2>1. PICK x \in InList : x = link[Root].p
    BY <1>0, ElementsDistinct DEF Circle, Linked
  <2>2. e \in InList /\ e # Root /\ x # e
    BY <1>2, <2>1, ElementsDistinct DEF Consistent
  <2>3. PICK d : d = Unlinked(link, e)
    OBVIOUS
  <2>4. d \in [Elems \cup {Root} -> Around] /\ Circle(d, InList \ {e})
    BY <1>0, <2>2, <2>3, UnlinkedIs, UnlinkedCircle, ElementsDistinct
  <2>5. link' = LinkedAfter(d, e, x)
    BY <1>2, <2>1, <2>3 DEF MoveToBack
  <2>6. InList \ {e} \in SUBSET (Elems \cup {Root}) /\ Root \in InList \ {e}
        /\ e \in Elems \ (InList \ {e}) /\ x \in InList \ {e}
    BY <2>1, <2>2, ElementsDistinct
  <2>7. Circle(LinkedAfter(d, e, x), (InList \ {e}) \cup {e})
        /\ LinkedAfter(d, e, x) \in [Elems \cup {Root} -> Around]
    BY <2>4, <2>6, LinkedAfterCircle
  <2>8. (InList \ {e}) \cup {e} = InList
    BY <2>2
  <2> QED BY <2>5, <2>7, <2>8
<1> QED BY <1>1, <1>2 DEF Consistent


(* lru.go:90-118: another value for a key, and its bytes.                  *)
LEMMA SetExistingConsistent ==
  ASSUME Consistent, NEW k \in Keys, NEW v \in Vals, NEW x \in {"never", "later"},
         SetExisting(k, v, x)
  PROVE  Consistent'
<1>1. k \in Present /\ Present' = Present /\ InList' = InList
  BY DEF SetExisting, Present, InList
<1>2. PICK e \in Elems : e = items[k]
  BY <1>1, ElementsDistinct
<1>3. /\ entry' = [entry EXCEPT ![e].v = v]
      /\ usedBytes' = usedBytes + v - entry[e].v
      /\ link' = MoveToBack(e)
      /\ expires' = [expires EXCEPT ![k] = x]
      /\ mine' = mine /\ count' = count /\ items' = items
  BY <1>2 DEF SetExisting
<1>4. link' \in [Elems \cup {Root} -> Around] /\ Circle(link', InList')
  BY <1>1, <1>3, MovedCircle
<1>5. entry[e].k = k /\ entry[e] \in [k : Keys, v : Vals]
  BY <1>1, <1>2, KeyAssumption DEF Consistent, NoEntry
<1>6. /\ entry' \in [Elems -> [k : Keys, v : Vals] \cup {NoEntry}]
      /\ entry'[e].v = v /\ entry'[e].k = k
      /\ \A f \in Elems : f # e => entry'[f] = entry[f]
  BY <1>3, <1>5 DEF Consistent
<1>7. expires' \in [Keys -> {"never", "later", "past"}] /\ ExpiryHasEntry'
  BY <1>1, <1>3 DEF Consistent, ExpiryHasEntry
<1>8. \A j \in Present : j # k => entry'[items[j]] = entry[items[j]]
  BY <1>1, <1>2, <1>6, ElementsDistinct
<1>9. \A j \in Present : entry'[items[j]].k = j
  BY <1>2, <1>6, <1>8 DEF Consistent
<1>10. usedBytes' = Total(Cost', Present')
  <2>1. \A j \in Present : Cost'[j] = KeyLen + entry'[items[j]].v
    BY <1>1, <1>3 DEF Cost
  <2>2. \A j \in Present : Cost'[j] \in Nat /\ (j # k => Cost'[j] = Cost[j])
    <3>1. Cost'[k] = KeyLen + v /\ v \in Nat /\ KeyLen \in Nat
      BY <1>1, <1>2, <1>6, <2>1, SizeAssumption
    <3>2. ASSUME NEW j \in Present, j # k PROVE Cost'[j] = Cost[j] /\ Cost[j] \in Nat
      BY <1>8, <2>1, <3>2, ElementsDistinct
    <3> QED BY <3>1, <3>2
  <2>3. Total(Cost, Present) = Total(Cost, Present \ {k}) + Cost[k]
        /\ Total(Cost, Present \ {k}) \in Nat
    BY <1>1, ElementsDistinct, TotalWithout DEF Consistent
  <2>4. Total(Cost', Present) = Total(Cost', Present \ {k}) + Cost'[k]
        /\ Total(Cost', Present \ {k}) \in Nat
    BY <1>1, <2>2, TotalWithout DEF Consistent
  <2>5. Total(Cost, Present \ {k}) = Total(Cost', Present \ {k})
    <3>1. IsFiniteSet(Present \ {k})
      BY FS_RemoveElement DEF Consistent
    <3>2. \A j \in Present \ {k} : Cost[j] \in Nat /\ Cost'[j] = Cost[j]
      BY <2>2, ElementsDistinct
    <3> QED BY <3>1, <3>2, TotalSame
  <2>6. Cost'[k] = KeyLen + v /\ Cost[k] = KeyLen + entry[e].v
        /\ entry[e].v \in Nat /\ v \in Nat /\ KeyLen \in Nat
    BY <1>1, <1>2, <1>6, <2>1, SizeAssumption, ElementsDistinct
  <2>7. PICK t \in Nat : t = Total(Cost, Present \ {k})
    BY <2>3
  <2>8. usedBytes = t + (KeyLen + entry[e].v)
    <3> HIDE DEF Cost
    <3> QED BY <2>3, <2>6, <2>7 DEF Consistent
  <2>9. Total(Cost', Present') = t + (KeyLen + v)
    <3> HIDE DEF Cost
    <3> QED BY <1>1, <2>4, <2>5, <2>6, <2>7
  <2> QED BY <1>3, <2>6, <2>8, <2>9
<1>11. \A f \in Elems : mine'[f] <=> f \in InList'
  BY <1>1, <1>3 DEF Consistent
<1> QED BY <1>1, <1>3, <1>4, <1>6, <1>7, <1>9, <1>10, <1>11 DEF Consistent

(* lru.go:119-128: a new element goes to the back.                         *)
LEMMA SetNewConsistent ==
  ASSUME Consistent, NEW k \in Keys, NEW v \in Vals, NEW x \in {"never", "later", "past"},
         SetNew(k, v, x)
  PROVE  Consistent' /\ Present' = Present \cup {k} /\ link'[Root].p = items'[k]
<1>1. k \notin Present
  BY DEF SetNew, Present
<1>2. PICK e \in Spare :
         /\ link' = LinkedAfter(link, e, link[Root].p)
         /\ mine' = [mine EXCEPT ![e] = TRUE]
         /\ entry' = [entry EXCEPT ![e] = [k |-> k, v |-> v]]
         /\ items' = [items EXCEPT ![k] = e]
  BY DEF SetNew
<1>3. e \in Elems /\ e # Root /\ e \notin InList /\ \A j \in Keys : items[j] # e
  <2>1. e \in Elems /\ \A j \in Keys : items[j] # e
    BY <1>2 DEF Spare, Held
  <2> QED BY <2>1, ElementsDistinct
<1>4. Present' = Present \cup {k} /\ (\A j \in Present : items'[j] = items[j] /\ j # k)
      /\ items'[k] = e /\ items' \in [Keys -> Elems \cup {Absent}]
  BY <1>1, <1>2, <1>3 DEF Consistent, Present, Root, Absent
<1>5. InList' = InList \cup {e}
  BY <1>4 DEF InList
<1>6. link' \in [Elems \cup {Root} -> Around] /\ Circle(link', InList') /\ link'[Root].p = e
  <2>1. link \in [Elems \cup {Root} -> Around] /\ Circle(link, InList)
    BY DEF Consistent
  <2>2. PICK b \in InList : b = link[Root].p
    BY <2>1, ElementsDistinct DEF Circle, Linked
  <2>3. e \in Elems \ InList /\ InList \in SUBSET (Elems \cup {Root}) /\ Root \in InList
    BY <1>3, ElementsDistinct
  <2>4. link' = LinkedAfter(link, e, b)
    BY <1>2, <2>2
  <2>5. /\ Circle(LinkedAfter(link, e, b), InList \cup {e})
        /\ LinkedAfter(link, e, b) \in [Elems \cup {Root} -> Around]
        /\ LinkedAfter(link, e, b)[Root].p = e
    <3>1. PICK S \in SUBSET (Elems \cup {Root}), l \in [Elems \cup {Root} -> Around] :
                 S = InList /\ l = link
      BY <2>1, <2>3
    <3>2. Circle(l, S) /\ Root \in S /\ e \in Elems \ S /\ b \in S
      BY <2>1, <2>3, <3>1
    <3>3. /\ Circle(LinkedAfter(l, e, b), S \cup {e})
          /\ LinkedAfter(l, e, b) \in [Elems \cup {Root} -> Around]
      BY <3>2, LinkedAfterCircle
    <3>4. b = l[Root].p
      BY <2>2, <3>1
    <3>5. LinkedAfter(l, e, b)[Root].p = e
      BY <3>2, <3>4, LinkedAfterLast
    <3> QED BY <3>1, <3>3, <3>5
  <2> QED BY <1>5, <2>4, <2>5
<1>7. mine' \in [Elems -> BOOLEAN] /\ \A f \in Elems : mine'[f] <=> f \in InList'
  BY <1>2, <1>3, <1>5 DEF Consistent
<1>8. /\ entry' \in [Elems -> [k : Keys, v : Vals] \cup {NoEntry}]
      /\ entry'[e] = [k |-> k, v |-> v]
      /\ \A j \in Present : entry'[items'[j]] = entry[items[j]]
  <2>1. \A j \in Present : items'[j] = items[j] /\ items[j] # e /\ items[j] \in Elems
    BY <1>3, <1>4, ElementsDistinct
  <2> QED BY <1>2, <1>3, <2>1 DEF Consistent
<1>9. expires' \in [Keys -> {"never", "later", "past"}] /\ ExpiryHasEntry'
  BY <1>4 DEF Consistent, ExpiryHasEntry, SetNew
<1>10. \A j \in Present' : entry'[items'[j]].k = j
  BY <1>4, <1>8 DEF Consistent
<1>11. IsFiniteSet(Present') /\ count' = Cardinality(Present')
  BY <1>1, <1>4, FS_AddElement DEF Consistent, SetNew
<1>12. usedBytes' = Total(Cost', Present')
  <2>1. \A j \in Present' : Cost'[j] = KeyLen + entry'[items'[j]].v
    BY DEF Cost
  <2>2. Cost'[k] = KeyLen + v /\ v \in Nat /\ KeyLen \in Nat
    BY <1>4, <1>8, <2>1, SizeAssumption
  <2>3. \A j \in Present : Cost[j] \in Nat /\ Cost'[j] = Cost[j]
    BY <1>4, <1>8, <2>1, ElementsDistinct
  <2>4. Present' \ {k} = Present /\ k \in Present'
    BY <1>1, <1>4
  <2>5. \A j \in Present' : Cost'[j] \in Nat
    BY <1>4, <2>2, <2>3
  <2>6. Total(Cost', Present') = Total(Cost', Present) + Cost'[k]
        /\ Total(Cost', Present) \in Nat
    BY <1>11, <2>4, <2>5, TotalWithout
  <2>7. Total(Cost, Present) = Total(Cost', Present)
    BY <2>3, TotalSame DEF Consistent
  <2>8. PICK t \in Nat : t = Total(Cost', Present)
    BY <2>6
  <2>9. usedBytes = t /\ usedBytes' = usedBytes + KeyLen + v
    BY <2>7, <2>8 DEF Consistent, SetNew
  <2>10. Total(Cost', Present') = t + (KeyLen + v)
    <3> HIDE DEF Cost
    <3> QED BY <2>2, <2>6, <2>8
  <2> QED BY <2>2, <2>9, <2>10
<1>13. Consistent'
  BY <1>4, <1>6, <1>7, <1>8, <1>9, <1>10, <1>11, <1>12 DEF Consistent
<1> QED BY <1>4, <1>6, <1>13

(* A new store, and one after Clear.                                       *)
Empty ==
  /\ link = [e \in Elems \cup {Root} |-> [p |-> Root, n |-> Root]]
  /\ mine = [e \in Elems |-> FALSE]
  /\ entry = [e \in Elems |-> NoEntry]
  /\ count = 0 /\ usedBytes = 0
  /\ items = [k \in Keys |-> Absent]
  /\ expires = [k \in Keys |-> "never"]

(* Nothing agrees with nothing.                                            *)
LEMMA EmptyConsistent == Empty => Consistent /\ Present = {}
<1> SUFFICES ASSUME Empty PROVE Consistent /\ Present = {}
  OBVIOUS
<1> USE DEF Empty
<1>1. Present = {} /\ InList = {Root}
  BY DEF Present, InList
<1>2. link \in [Elems \cup {Root} -> Around]
  BY DEF Around
<1>3. Circle(link, InList)
  BY <1>1 DEF Circle, Linked
<1>4. count = Cardinality(Present) /\ IsFiniteSet(Present)
  BY <1>1, FS_EmptySet
<1>5. usedBytes = Total(Cost, Present)
  BY <1>1, TotalEmpty
<1>6. \A e \in Elems : mine[e] <=> e \in InList
  BY <1>1, BoundAssumption DEF Root
<1>7. ExpiryHasEntry
  BY DEF ExpiryHasEntry
<1> QED BY <1>1, <1>2, <1>3, <1>4, <1>5, <1>6, <1>7 DEF Consistent, Absent

(* The same after a step.                                                  *)
LEMMA ClearedConsistent == Empty' => Consistent'
BY EmptyConsistent, PTL

(* A step that leaves the entries alone.                                   *)
LEMMA SameEntriesConsistent ==
  ASSUME Consistent, UNCHANGED <<mine, entry, count, items, usedBytes>>,
         link' \in [Elems \cup {Root} -> Around], Circle(link', InList),
         expires' \in [Keys -> {"never", "later", "past"}],
         \A k \in Keys : expires'[k] # "never" => expires[k] # "never"
  PROVE  Consistent' /\ Present' = Present
<1>1. Present' = Present /\ InList' = InList /\ Cost' = Cost
  BY DEF Present, InList, Cost
<1>2. ExpiryHasEntry'
  BY <1>1 DEF Consistent, ExpiryHasEntry
<1>3. usedBytes' = Total(Cost', Present')
  BY <1>1 DEF Consistent
<1> QED BY <1>1, <1>2, <1>3 DEF Consistent

(* A new store.                                                            *)
LEMMA LruInitially == LruInit => LruInv
<1> SUFFICES ASSUME LruInit PROVE LruInv
  OBVIOUS
<1>1. Consistent /\ Present = {}
  BY EmptyConsistent DEF LruInit, Empty
<1>2. RestOK
  <2>1. reading = [p \in Getters |-> Idle] /\ deleting = [k \in Keys |-> 0]
        /\ evictor = "none" /\ closed = FALSE /\ crashed = FALSE
    BY DEF LruInit
  <2>2. 0 \in 0..MaxDeletes
    BY BoundAssumption
  <2> QED BY <2>1, <2>2 DEF RestOK
<1> QED BY <1>1, <1>2 DEF LruInv, NewestIsLast

(* A list with keys has a front; the front is the back only when it is the *)
(* one element of the list.                                                *)
LEMMA FrontAndBack ==
  ASSUME Consistent
  PROVE  /\ count > 0 => link[Root].n # Root
         /\ link[Root].n # Root => \E k \in Present : link[Root].n = items[k]
         /\ \A k \in Present : link[Root].n = items[k] /\ link[Root].p = items[k]
              => Present = {k}
<1>0. Circle(link, InList) /\ Root \in InList
  BY ElementsDistinct DEF Consistent
<1>1. ASSUME link[Root].n = Root PROVE ~(count > 0)
  <2>1. InList = {Root}
    <3>1. {Root} \in SUBSET InList /\ \A e \in {Root} : link[e].n \in {Root}
      BY <1>0, <1>1
    <3> QED BY <1>0, <3>1 DEF Circle
  <2>2. Present = {}
    BY <2>1, ElementsDistinct
  <2> QED BY <2>2, FS_EmptySet DEF Consistent
<1>2. link[Root].n # Root => \E k \in Present : link[Root].n = items[k]
  BY <1>0, ElementsDistinct DEF Circle, Linked
<1>3. ASSUME NEW k \in Present, link[Root].n = items[k], link[Root].p = items[k]
      PROVE  Present = {k}
  <2>1. link[items[k]].n = Root
    BY <1>0, <1>3 DEF Circle, Linked
  <2>2. {Root, items[k]} \in SUBSET InList
    BY <1>0, ElementsDistinct
  <2>3. \A e \in {Root, items[k]} : link[e].n \in {Root, items[k]}
    BY <1>3, <2>1
  <2>4. InList = {Root, items[k]}
    BY <1>0, <2>2, <2>3 DEF Circle
  <2> QED BY <2>4, ElementsDistinct
<1> QED BY <1>1, <1>2, <1>3

(* One step, each operation in turn.                                       *)
LEMMA LruStep == LruInv /\ [LruNext]_lruVars => LruInv'
<1> SUFFICES ASSUME LruInv, [LruNext]_lruVars PROVE LruInv'
  OBVIOUS
<1>0. Consistent /\ RestOK /\ NewestIsLast
  BY DEF LruInv
<1>a. "none" \notin Keys /\ "cleaner" \notin Keys
  BY KeyAssumption
<1>b. link \in [Elems \cup {Root} -> Around] /\ Circle(link, InList)
      /\ expires \in [Keys -> {"never", "later", "past"}]
  BY <1>0 DEF Consistent
<1>c. ASSUME evictor' = "none" PROVE NewestIsLast'
  BY <1>a, <1>c DEF NewestIsLast, Present
<1>1. ASSUME NEW k \in Keys, NEW v \in Vals, NEW x \in {"never", "later"}, SetExisting(k, v, x)
      PROVE  LruInv'
  <2>1. Consistent'
    BY <1>0, <1>1, SetExistingConsistent
  <2>2. RestOK' /\ evictor' = "none"
    BY <1>0, <1>1 DEF SetExisting, LruUnlocked, RestOK
  <2> QED BY <1>c, <2>1, <2>2 DEF LruInv
<1>2. ASSUME NEW k \in Keys, NEW v \in Vals, NEW x \in {"never", "later", "past"},
             SetNew(k, v, x)
      PROVE  LruInv'
  <2>1. Consistent' /\ link'[Root].p = items'[k]
    BY <1>0, <1>2, SetNewConsistent
  <2>2. RestOK' /\ evictor' = k
    BY <1>0, <1>2 DEF SetNew, RestOK
  <2>3. NewestIsLast'
    BY <2>1, <2>2 DEF NewestIsLast
  <2> QED BY <2>1, <2>2, <2>3 DEF LruInv
<1>3. ASSUME NEW k \in Keys, EvictOutdated(k) PROVE LruInv'
  <2>1. k \in Present /\ expires[k] = "past"
    BY <1>3 DEF EvictOutdated, Outdated, Present
  <2>2. /\ Consistent' /\ Present' = Present \ {k}
        /\ \A j \in Present' : items'[j] = items[j] /\ expires'[j] = expires[j]
        /\ link[Root].p # items[k] => link'[Root].p = link[Root].p
    BY <1>0, <1>3, <2>1, RemovedConsistent DEF EvictOutdated
  <2>3. RestOK' /\ evictor' = evictor
    BY <1>0, <1>3 DEF EvictOutdated, RestOK
  <2>4. NewestIsLast'
    <3> SUFFICES ASSUME NEW j \in Present', evictor' = j
                 PROVE  link'[Root].p = items'[j]
      BY DEF NewestIsLast
    <3>1. j \in Present /\ evictor = j /\ items[j] # items[k]
      BY <1>0, <2>1, <2>2, <2>3, ElementsDistinct
    <3>2. link[Root].p = items[j]
      BY <1>0, <3>1 DEF NewestIsLast
    <3> QED BY <2>2, <3>1, <3>2
  <2> QED BY <2>2, <2>3, <2>4 DEF LruInv
<1>4. ASSUME NEW k \in Keys, LruDelete(k) PROVE LruInv'
  <2>1. k \in Present
    BY <1>4 DEF LruDelete, Present
  <2>2. Consistent'
    BY <1>0, <1>4, <2>1, RemovedConsistent DEF LruDelete
  <2>3. RestOK' /\ evictor' = "none"
    BY <1>0, <1>4 DEF LruDelete, LruUnlocked, RestOK
  <2> QED BY <1>c, <2>2, <2>3 DEF LruInv
<1>5. ASSUME NEW k \in Keys, AsyncDelete(k) PROVE LruInv'
  <2>1. RestOK' /\ evictor' = "none"
    BY <1>0, <1>5, BoundAssumption DEF AsyncDelete, LruUnlocked, RestOK
  <2>2. CASE items[k] # Absent
    <3>1. k \in Present
      BY <2>2 DEF Present
    <3>2. Consistent'
      BY <1>0, <1>5, <2>2, <3>1, RemovedConsistent DEF AsyncDelete
    <3> QED BY <1>c, <2>1, <3>2 DEF LruInv
  <2>3. CASE items[k] = Absent
    <3>1. UNCHANGED <<list, items, expires, usedBytes>>
      BY <1>5, <2>3 DEF AsyncDelete
    <3>2. Consistent'
      BY <1>0, <1>b, <3>1, SameEntriesConsistent DEF list
    <3> QED BY <1>c, <2>1, <3>2 DEF LruInv
  <2> QED BY <2>2, <2>3
<1>6. ASSUME NEW k \in Keys, TimePasses(k) PROVE LruInv'
  <2>1. RestOK' /\ evictor' = "none"
    BY <1>0, <1>6 DEF TimePasses, LruUnlocked, RestOK
  <2>2. expires' \in [Keys -> {"never", "later", "past"}]
        /\ \A j \in Keys : expires'[j] # "never" => expires[j] # "never"
    BY <1>b, <1>6 DEF TimePasses
  <2>3. Consistent'
    BY <1>0, <1>b, <1>6, <2>2, SameEntriesConsistent DEF TimePasses, list
  <2> QED BY <1>c, <2>1, <2>3 DEF LruInv
<1>7. ASSUME NEW p \in Getters, GetMove(p) PROVE LruInv'
  <2>1. RestOK' /\ evictor' = "none"
    BY <1>0, <1>7 DEF GetMove, LruUnlocked, RestOK
  <2>2. reading[p].e \in Elems
    BY <1>0, <1>7 DEF GetMove, RestOK
  <2>3. link' \in [Elems \cup {Root} -> Around] /\ Circle(link', InList)
    <3>1. CASE items[reading[p].k] # Absent
      BY <1>0, <1>7, <2>2, <3>1, MovedCircle DEF GetMove
    <3>2. CASE items[reading[p].k] = Absent
      BY <1>b, <1>7, <3>2 DEF GetMove
    <3> QED BY <3>1, <3>2
  <2>4. Consistent'
    BY <1>0, <1>b, <1>7, <2>3, SameEntriesConsistent DEF GetMove
  <2> QED BY <1>c, <2>1, <2>4 DEF LruInv
<1>8. ASSUME NEW p \in Getters, NEW k \in Keys, GetFound(p, k) PROVE LruInv'
  <2>1. evictor' = "none" /\ UNCHANGED <<list, items, expires, usedBytes>>
    BY <1>8 DEF GetFound, LruUnlocked
  <2>2. items[k] \in Elems
    BY <1>0, <1>8 DEF GetFound, Consistent
  <2>3. RestOK'
    BY <1>0, <1>8, <2>2 DEF GetFound, RestOK
  <2>4. Consistent'
    BY <1>0, <1>b, <2>1, SameEntriesConsistent DEF list
  <2> QED BY <1>c, <2>1, <2>3, <2>4 DEF LruInv
<1>9. ASSUME NEW p \in Getters, NEW k \in Keys, GetOutdated(p, k) PROVE LruInv'
  <2>1. evictor' = "none" /\ UNCHANGED <<list, items, expires, usedBytes>>
    BY <1>9 DEF GetOutdated, LruUnlocked
  <2>2. RestOK'
    BY <1>0, <1>9, BoundAssumption DEF GetOutdated, RestOK
  <2>3. Consistent'
    BY <1>0, <1>b, <2>1, SameEntriesConsistent DEF list
  <2> QED BY <1>c, <2>1, <2>2, <2>3 DEF LruInv
<1>10. CASE Cleanup
  <2>1. evictor' = "cleaner" /\ UNCHANGED <<list, items, expires, usedBytes>>
    BY <1>10 DEF Cleanup
  <2>2. RestOK'
    BY <1>0, <1>10 DEF Cleanup, RestOK
  <2>3. Consistent'
    BY <1>0, <1>b, <2>1, SameEntriesConsistent DEF list
  <2>4. NewestIsLast'
    BY <1>a, <2>1 DEF NewestIsLast, Present
  <2> QED BY <2>2, <2>3, <2>4 DEF LruInv
<1>11. CASE EvictOldest
  <2>1. link[Root].n # Root
    BY <1>0, <1>11, FrontAndBack DEF EvictOldest, TooMuch
  <2>2. PICK k \in Present : link[Root].n = items[k]
    BY <1>0, <2>1, FrontAndBack
  <2>3. removeElement(items[k]) /\ UNCHANGED <<reading, deleting, evictor, closed, crashed>>
    BY <1>11, <2>1, <2>2 DEF EvictOldest
  <2>4. /\ Consistent' /\ Present' = Present \ {k}
        /\ \A j \in Present' : items'[j] = items[j] /\ expires'[j] = expires[j]
        /\ link[Root].p # items[k] => link'[Root].p = link[Root].p
    BY <1>0, <2>3, RemovedConsistent
  <2>5. RestOK'
    BY <1>0, <2>3 DEF RestOK
  <2>6. NewestIsLast'
    BY <1>0, <2>3, <2>4, ElementsDistinct DEF NewestIsLast
  <2> QED BY <2>4, <2>5, <2>6 DEF LruInv
<1>12. CASE EvictDone
  <2>1. evictor' = "none" /\ UNCHANGED <<list, items, expires, usedBytes>>
    BY <1>12 DEF EvictDone
  <2>2. RestOK'
    BY <1>0, <1>12 DEF EvictDone, RestOK
  <2>3. Consistent'
    BY <1>0, <1>b, <2>1, SameEntriesConsistent DEF list
  <2> QED BY <1>c, <2>1, <2>2, <2>3 DEF LruInv
<1>13. CASE Clear
  <2>1. evictor' = "none"
    BY <1>13 DEF Clear, LruUnlocked
  <2>2. RestOK'
    BY <1>0, <1>13 DEF Clear, RestOK
  <2>3. Consistent'
    <3>1. /\ link' = [e \in Elems \cup {Root} |-> [p |-> Root, n |-> Root]]
          /\ mine' = [e \in Elems |-> FALSE]
          /\ entry' = [e \in Elems |-> NoEntry]
          /\ count' = 0 /\ usedBytes' = 0
          /\ items' = [k \in Keys |-> Absent]
          /\ expires' = [k \in Keys |-> "never"]
      BY <1>13 DEF Clear
    <3> QED BY <3>1, ClearedConsistent DEF Empty
  <2> QED BY <1>c, <2>1, <2>2, <2>3 DEF LruInv
<1>14. ASSUME Close \/ UNCHANGED lruVars PROVE LruInv'
  <2>1. evictor' = evictor /\ UNCHANGED <<list, items, expires, usedBytes>>
    BY <1>14 DEF Close, lruVars
  <2>2. RestOK'
    BY <1>0, <1>14 DEF Close, lruVars, RestOK
  <2>3. Consistent' /\ Present' = Present
    BY <1>0, <1>b, <2>1, SameEntriesConsistent DEF list
  <2>4. NewestIsLast'
    BY <1>0, <2>1, <2>3 DEF NewestIsLast, list
  <2> QED BY <2>2, <2>3, <2>4 DEF LruInv
<1> QED BY <1>1, <1>2, <1>3, <1>4, <1>5, <1>6, <1>7, <1>8, <1>9, <1>10, <1>11,
           <1>12, <1>13, <1>14 DEF LruNext

(* lru.go: the invariant and the types hold through all operations, also   *)
(* of Gets between their two locks and Deletes on their way.               *)
THEOREM LruInvariance == LruSpec => [](LruInv /\ LruTypeOK)
<1>1. LruInv => LruTypeOK
  <2> SUFFICES ASSUME LruInv PROVE LruTypeOK
    OBVIOUS
  <2>1. Consistent /\ RestOK
    BY DEF LruInv
  <2>2. count \in Nat
    BY <2>1, FS_CardinalityType DEF Consistent
  <2>3. usedBytes \in Nat
    <3>1. \A k \in Present : Cost[k] \in Nat
      BY <2>1, ElementsDistinct
    <3>2. PICK T \in [SUBSET Present -> Nat] : Total(Cost, Present) = T[Present]
      BY <2>1, <3>1, TotalAdds DEF Consistent
    <3>3. usedBytes = T[Present]
      BY <2>1, <3>2 DEF Consistent
    <3> QED BY <3>3
  <2>4. link \in [Elems \cup {Root} -> [p : Elems \cup {Root}, n : Elems \cup {Root}]]
    BY <2>1 DEF Consistent, Around
  <2> QED BY <2>1, <2>2, <2>3, <2>4 DEF LruTypeOK, Consistent, RestOK
<1> QED BY <1>1, LruInitially, LruStep, PTL DEF LruSpec

(* lru.go:55-140: map and list hold the same entries, linked both ways,    *)
(* whatever a Get moves that found its element before a Delete, a Clear or *)
(* an eviction took it.                                                    *)
THEOREM ListIsTheMap == LruSpec => []ListMatchesItems
<1>1. LruInv => ListMatchesItems
  <2> SUFFICES ASSUME Consistent PROVE ListMatchesItems
    BY DEF LruInv
  <2>1. \A k \in Present : mine[items[k]] /\ entry[items[k]].k = k
    BY ElementsDistinct DEF Consistent
  <2>2. Linked(link, InList) /\ count = Cardinality(Present)
    BY DEF Consistent, Circle
  <2> QED BY <2>1, <2>2 DEF ListMatchesItems, InList, Linked
<1> QED BY <1>1, LruInvariance, PTL

(* lru.go:101-140: usedBytes is what the entries take, neither drifting nor*)
(* negative, after any run of updates, Deletes and evictions.              *)
THEOREM UsedBytesExact == LruSpec => []BytesAreExact
<1>1. LruInv => BytesAreExact
  <2> SUFFICES ASSUME Consistent PROVE BytesAreExact
    BY DEF LruInv
  <2>1. IsFiniteSet(Present) /\ KeyLen \in Nat /\ \A k \in Present : entry[items[k]].v \in Nat
    BY SizeAssumption, ElementsDistinct DEF Consistent
  <2>2. BytesAreExact <=> usedBytes = Total(Cost, Present)
    BY <2>1, FoldIsTotal
  <2> QED BY <2>2 DEF Consistent
<1> QED BY <1>1, LruInvariance, PTL

(* lru.go:109-140: no expiration time outlives its entry.                  *)
THEOREM ExpiriesHaveEntries == LruSpec => []ExpiryHasEntry
<1>1. LruInv => ExpiryHasEntry
  BY DEF LruInv, Consistent
<1> QED BY <1>1, LruInvariance, PTL

(* lru.go:154-158: evict never takes the root for an element, as Len() > 0 *)
(* means that Front() is one; the type assertion cannot panic.             *)
THEOREM FrontIsNeverRoot == LruSpec => []~crashed
<1>1. LruInv => ~crashed
  BY DEF LruInv, RestOK
<1> QED BY <1>1, LruInvariance, PTL

(* lru.go:119-128, 143-160: evict comes to the entry of the Set that called*)
(* it last, when there is no other, so it takes it only if it alone is too *)
(* large, or expired.                                                      *)
THEOREM SetSurvives == LruSpec => SetSurvivesItsEviction
<1> DEFINE Safe == \A k \in Present : (evictor = k /\ k \notin Present')
                     => expires[k] = "past" \/ KeyLen + entry[items[k]].v > MaxBytes
<1>1. LruInv /\ [LruNext]_lruVars => [Safe]_lruVars
  <2> SUFFICES ASSUME LruInv, [LruNext]_lruVars, NEW k \in Present,
                      evictor = k, k \notin Present', expires[k] # "past"
               PROVE  KeyLen + entry[items[k]].v > MaxBytes
    OBVIOUS
  <2>0. Consistent /\ link[Root].p = items[k] /\ k \in Keys
    BY DEF LruInv, NewestIsLast, Present
  <2>1. evictor # "none" /\ items'[k] = Absent
    BY <2>0, KeyAssumption DEF Present
  <2>2. items' # items
    BY <2>1 DEF Present
  <2>3. (\E j \in Keys : EvictOutdated(j)) \/ EvictOldest
    BY <2>1, <2>2 DEF LruNext, lruVars, list, SetExisting, SetNew, LruDelete, AsyncDelete, TimePasses,
       GetMove, GetFound, GetOutdated, Cleanup, EvictDone, Clear, Close, LruUnlocked
  <2>4. ASSUME NEW j \in Keys, EvictOutdated(j) PROVE FALSE
    <3>1. j \in Present /\ j # k /\ removeElement(items[j])
      BY <2>0, <2>4 DEF EvictOutdated, Outdated, Present
    <3>2. Present' = Present \ {j}
      BY <2>0, <3>1, RemovedConsistent
    <3> QED BY <3>1, <3>2
  <2>5. CASE EvictOldest
    <3>1. TooMuch /\ link[Root].n # Root /\ removeElement(link[Root].n)
      BY <2>0, <2>5, FrontAndBack DEF EvictOldest, TooMuch
    <3>2. PICK j \in Present : link[Root].n = items[j]
      BY <2>0, <3>1, FrontAndBack
    <3>3. Present' = Present \ {j}
      BY <2>0, <3>1, <3>2, RemovedConsistent
    <3>4. j = k
      BY <3>3
    <3>5. Present = {k}
      BY <2>0, <3>2, <3>4, FrontAndBack
    <3>6. usedBytes = Cost[k]
      <4>1. Total(Cost, Present) = Total(Cost, {}) + Cost[k]
        <5>1. Present \ {k} = {}
          BY <3>5
        <5> QED BY <2>0, <5>1, ElementsDistinct, TotalWithout DEF Consistent
      <4>2. Cost[k] \in Nat /\ Total(Cost, {}) = 0
        BY <2>0, ElementsDistinct, TotalEmpty
      <4> HIDE DEF Cost
      <4> QED BY <2>0, <4>1, <4>2 DEF Consistent
    <3>7. Cost[k] = KeyLen + entry[items[k]].v
      BY <2>0, ElementsDistinct
    <3> QED BY <3>1, <3>6, <3>7 DEF TooMuch
  <2> QED BY <2>3, <2>4, <2>5
<1>2. LruSpec => [][Safe]_lruVars
  BY <1>1, LruInvariance, PTL DEF LruSpec
<1> QED BY <1>2 DEF SetSurvivesItsEviction
==============================================================================
