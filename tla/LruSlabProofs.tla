--------------------------- MODULE LruSlabProofs ---------------------------
(***************************************************************************)
(* What LruSlab's linked list does, for every capacity.                    *)
(*                                                                         *)
(* The invariant SlabInv says that the nodes in use stand in one circle    *)
(* with the sentinel 0: there is an order c of them, c[0] = c[last + 1] =  *)
(* 0, along which every n leads on and every p leads back (Circle).  What  *)
(* adjust does to the links is what moving a node to one end does to the   *)
(* order, so each operation keeps the circle, hmap keeps naming the nodes, *)
(* and the list that walk shows changes as RecencyList says.               *)
(***************************************************************************)
EXTENDS LruSlab, SequenceTheorems, TLAPS, WellFoundedInduction

(* The next and the previous node of each, as functions.                   *)
NextOf(d) == [i \in 0..Cap |-> d[i].n]
PrevOf(d) == [i \in 0..Cap |-> d[i].p]

(* c is the order of the nodes 1..l in the circle, the sentinel before the *)
(* first and after the last; nx and pv lead along it, on and back.         *)
Circle(nx, pv, l, c) ==
  /\ c \in [0..l + 1 -> 0..l]
  /\ c[0] = 0 /\ c[l + 1] = 0
  /\ \A i, j \in 0..l : c[i] = c[j] => i = j
  /\ \A x \in 0..l : \E i \in 0..l : c[i] = x
  /\ \A i \in 0..l : nx[c[i]] = c[i + 1] /\ pv[c[i + 1]] = c[i]

Links == [0..Cap -> [p : 0..Cap, n : 0..Cap]]

(* The links after x is unlinked and put right after the sentinel: the     *)
(* ones that lead on and the ones that lead back.                          *)
MovedFw(nx, pv, x) ==
  [y \in 0..Cap |-> IF y = 0 THEN x
                    ELSE IF y = x THEN nx[0]
                    ELSE IF y = pv[x] THEN nx[x] ELSE nx[y]]
MovedBw(nx, pv, x) ==
  [y \in 0..Cap |-> IF y = x THEN 0
                    ELSE IF y = nx[0] THEN x
                    ELSE IF y = nx[x] THEN pv[x] ELSE pv[y]]

-----------------------------------------------------------------------------
(* One assignment to one link, and what it leaves.                         *)
WithP(d, a, b) == [d EXCEPT ![a].p = b]
WithN(d, a, b) == [d EXCEPT ![a].n = b]

IsWithP(r, d, a, b) ==
  /\ r \in Links
  /\ \A y \in 0..Cap : /\ r[y].n = d[y].n
                       /\ r[y].p = IF y = a THEN b ELSE d[y].p
IsWithN(r, d, a, b) ==
  /\ r \in Links
  /\ \A y \in 0..Cap : /\ r[y].p = d[y].p
                       /\ r[y].n = IF y = a THEN b ELSE d[y].n

LEMMA SetPrev ==
  ASSUME NEW d \in Links, NEW a \in 0..Cap, NEW b \in 0..Cap
  PROVE  IsWithP(WithP(d, a, b), d, a, b)
BY DEF Links, WithP, IsWithP

LEMMA SetNext ==
  ASSUME NEW d \in Links, NEW a \in 0..Cap, NEW b \in 0..Cap
  PROVE  IsWithN(WithN(d, a, b), d, a, b)
BY DEF Links, WithN, IsWithN

LEMMA LinksInRange ==
  ASSUME NEW d \in Links, NEW y \in 0..Cap
  PROVE  d[y].n \in 0..Cap /\ d[y].p \in 0..Cap
BY DEF Links

(* The six assignments of adjust(idx, p, n) together, when idx is not the  *)
(* head already.                                                           *)
LEMMA AdjustHead ==
  ASSUME NEW d \in Links, NEW x \in 1..Cap, d[x].p # 0, 
         d[0].n # x, d[x].n # x, d[x].p # x, d[0].n # d[x].n
  PROVE  LET r == adjust(d, x, "p", "n") IN
         /\ r \in Links
         /\ NextOf(r) = MovedFw(NextOf(d), PrevOf(d), x)
         /\ PrevOf(r) = MovedBw(NextOf(d), PrevOf(d), x)
<1> DEFINE d1 == WithP(d, d[x].n, d[x].p)
           d2 == WithN(d1, d1[x].p, d1[x].n)
           d3 == WithP(d2, x, 0)
           d4 == WithN(d3, x, d3[0].n)
           d5 == WithP(d4, d4[0].n, x)
           d6 == WithN(d5, 0, x)
<1>0. Cap \in Nat
  BY CapAssumption
<1>1. 0 \in 0..Cap /\ x \in 0..Cap
  BY <1>0
<1>2. adjust(d, x, "p", "n") = d6
  BY DEF adjust, WithP, WithN
<1>3. /\ d1 \in Links
      /\ \A y \in 0..Cap : /\ d1[y].n = d[y].n
                           /\ d1[y].p = IF y = d[x].n THEN d[x].p ELSE d[y].p
  <2>1. d[x].n \in 0..Cap /\ d[x].p \in 0..Cap
    BY <1>1, <1>0, LinksInRange
  <2>2. IsWithP(d1, d, d[x].n, d[x].p)
    BY <1>0, <2>1, SetPrev
  <2> HIDE DEF d1
  <2> QED BY <2>2 DEF IsWithP
<1>4. /\ d2 \in Links
      /\ \A y \in 0..Cap : /\ d2[y].p = d1[y].p
                           /\ d2[y].n = IF y = d1[x].p THEN d1[x].n ELSE d1[y].n
  <2> HIDE DEF d1
  <2>1. d1[x].p \in 0..Cap /\ d1[x].n \in 0..Cap
    BY <1>1, <1>0, <1>3, LinksInRange
  <2>2. IsWithN(d2, d1, d1[x].p, d1[x].n)
    BY <1>0, <1>3, <2>1, SetNext
  <2> HIDE DEF d2
  <2> QED BY <2>2 DEF IsWithN
<1>5. /\ d3 \in Links
      /\ \A y \in 0..Cap : /\ d3[y].n = d2[y].n
                           /\ d3[y].p = IF y = x THEN 0 ELSE d2[y].p
  <2> HIDE DEF d2
  <2>1. x \in 0..Cap /\ 0 \in 0..Cap
    BY <1>1, <1>0, <1>4, LinksInRange
  <2>2. IsWithP(d3, d2, x, 0)
    BY <1>0, <1>4, <2>1, SetPrev
  <2> HIDE DEF d3
  <2> QED BY <2>2 DEF IsWithP
<1>6. /\ d4 \in Links
      /\ \A y \in 0..Cap : /\ d4[y].p = d3[y].p
                           /\ d4[y].n = IF y = x THEN d3[0].n ELSE d3[y].n
  <2> HIDE DEF d3
  <2>1. x \in 0..Cap /\ d3[0].n \in 0..Cap
    BY <1>1, <1>0, <1>5, LinksInRange
  <2>2. IsWithN(d4, d3, x, d3[0].n)
    BY <1>0, <1>5, <2>1, SetNext
  <2> HIDE DEF d4
  <2> QED BY <2>2 DEF IsWithN
<1>7. /\ d5 \in Links
      /\ \A y \in 0..Cap : /\ d5[y].n = d4[y].n
                           /\ d5[y].p = IF y = d4[0].n THEN x ELSE d4[y].p
  <2> HIDE DEF d4
  <2>1. d4[0].n \in 0..Cap /\ x \in 0..Cap
    BY <1>1, <1>0, <1>6, LinksInRange
  <2>2. IsWithP(d5, d4, d4[0].n, x)
    BY <1>0, <1>6, <2>1, SetPrev
  <2> HIDE DEF d5
  <2> QED BY <2>2 DEF IsWithP
<1>8. /\ d6 \in Links
      /\ \A y \in 0..Cap : /\ d6[y].p = d5[y].p
                           /\ d6[y].n = IF y = 0 THEN x ELSE d5[y].n
  <2> HIDE DEF d5
  <2>1. 0 \in 0..Cap /\ x \in 0..Cap
    BY <1>1, <1>0, <1>7, LinksInRange
  <2>2. IsWithN(d6, d5, 0, x)
    BY <1>0, <1>7, <2>1, SetNext
  <2> HIDE DEF d6
  <2> QED BY <2>2 DEF IsWithN
<1> HIDE DEF d1, d2, d3, d4, d5, d6
<1>9. d1[x].p = d[x].p /\ d1[x].n = d[x].n /\ d3[0].n = d[0].n /\ d4[0].n = d[0].n
  BY <1>0, <1>3, <1>4, <1>5, <1>6
<1>10. \A y \in 0..Cap : 
        /\ d6[y].n = IF y = 0 THEN x
                    ELSE IF y = x THEN d[0].n
                    ELSE IF y = d[x].p THEN d[x].n ELSE d[y].n
        /\ d6[y].p = IF y = x THEN 0
                    ELSE IF y = d[0].n THEN x
                    ELSE IF y = d[x].n THEN d[x].p ELSE d[y].p
  BY <1>0, <1>3, <1>4, <1>5, <1>6, <1>7, <1>8, <1>9
<1> QED
  BY <1>2, <1>8, <1>10, <1>1 DEF NextOf, PrevOf, MovedFw, MovedBw

(* The same for adjust(idx, n, p), which puts idx at the tail.             *)
LEMMA AdjustTail ==
  ASSUME NEW d \in Links, NEW x \in 1..Cap, d[x].n # 0, 
         d[0].p # x, d[x].p # x, d[x].n # x, d[0].p # d[x].p
  PROVE  LET r == adjust(d, x, "n", "p") IN
         /\ r \in Links
         /\ PrevOf(r) = MovedFw(PrevOf(d), NextOf(d), x)
         /\ NextOf(r) = MovedBw(PrevOf(d), NextOf(d), x)
<1> DEFINE d1 == WithN(d, d[x].p, d[x].n)
           d2 == WithP(d1, d1[x].n, d1[x].p)
           d3 == WithN(d2, x, 0)
           d4 == WithP(d3, x, d3[0].p)
           d5 == WithN(d4, d4[0].p, x)
           d6 == WithP(d5, 0, x)
<1>0. Cap \in Nat
  BY CapAssumption
<1>1. 0 \in 0..Cap /\ x \in 0..Cap
  BY <1>0
<1>2. adjust(d, x, "n", "p") = d6
  BY DEF adjust, WithP, WithN
<1>3. /\ d1 \in Links
      /\ \A y \in 0..Cap : /\ d1[y].p = d[y].p
                           /\ d1[y].n = IF y = d[x].p THEN d[x].n ELSE d[y].n
  <2>1. d[x].p \in 0..Cap /\ d[x].n \in 0..Cap
    BY <1>1, <1>0, LinksInRange
  <2>2. IsWithN(d1, d, d[x].p, d[x].n)
    BY <1>0, <2>1, SetNext
  <2> HIDE DEF d1
  <2> QED BY <2>2 DEF IsWithN
<1>4. /\ d2 \in Links
      /\ \A y \in 0..Cap : /\ d2[y].n = d1[y].n
                           /\ d2[y].p = IF y = d1[x].n THEN d1[x].p ELSE d1[y].p
  <2> HIDE DEF d1
  <2>1. d1[x].n \in 0..Cap /\ d1[x].p \in 0..Cap
    BY <1>1, <1>0, <1>3, LinksInRange
  <2>2. IsWithP(d2, d1, d1[x].n, d1[x].p)
    BY <1>0, <1>3, <2>1, SetPrev
  <2> HIDE DEF d2
  <2> QED BY <2>2 DEF IsWithP
<1>5. /\ d3 \in Links
      /\ \A y \in 0..Cap : /\ d3[y].p = d2[y].p
                           /\ d3[y].n = IF y = x THEN 0 ELSE d2[y].n
  <2> HIDE DEF d2
  <2>1. x \in 0..Cap /\ 0 \in 0..Cap
    BY <1>1, <1>0, <1>4, LinksInRange
  <2>2. IsWithN(d3, d2, x, 0)
    BY <1>0, <1>4, <2>1, SetNext
  <2> HIDE DEF d3
  <2> QED BY <2>2 DEF IsWithN
<1>6. /\ d4 \in Links
      /\ \A y \in 0..Cap : /\ d4[y].n = d3[y].n
                           /\ d4[y].p = IF y = x THEN d3[0].p ELSE d3[y].p
  <2> HIDE DEF d3
  <2>1. x \in 0..Cap /\ d3[0].p \in 0..Cap
    BY <1>1, <1>0, <1>5, LinksInRange
  <2>2. IsWithP(d4, d3, x, d3[0].p)
    BY <1>0, <1>5, <2>1, SetPrev
  <2> HIDE DEF d4
  <2> QED BY <2>2 DEF IsWithP
<1>7. /\ d5 \in Links
      /\ \A y \in 0..Cap : /\ d5[y].p = d4[y].p
                           /\ d5[y].n = IF y = d4[0].p THEN x ELSE d4[y].n
  <2> HIDE DEF d4
  <2>1. d4[0].p \in 0..Cap /\ x \in 0..Cap
    BY <1>1, <1>0, <1>6, LinksInRange
  <2>2. IsWithN(d5, d4, d4[0].p, x)
    BY <1>0, <1>6, <2>1, SetNext
  <2> HIDE DEF d5
  <2> QED BY <2>2 DEF IsWithN
<1>8. /\ d6 \in Links
      /\ \A y \in 0..Cap : /\ d6[y].n = d5[y].n
                           /\ d6[y].p = IF y = 0 THEN x ELSE d5[y].p
  <2> HIDE DEF d5
  <2>1. 0 \in 0..Cap /\ x \in 0..Cap
    BY <1>1, <1>0, <1>7, LinksInRange
  <2>2. IsWithP(d6, d5, 0, x)
    BY <1>0, <1>7, <2>1, SetPrev
  <2> HIDE DEF d6
  <2> QED BY <2>2 DEF IsWithP
<1> HIDE DEF d1, d2, d3, d4, d5, d6
<1>9. d1[x].n = d[x].n /\ d1[x].p = d[x].p /\ d3[0].p = d[0].p /\ d4[0].p = d[0].p
  BY <1>0, <1>3, <1>4, <1>5, <1>6
<1>10. \A y \in 0..Cap : 
        /\ d6[y].p = IF y = 0 THEN x
                    ELSE IF y = x THEN d[0].p
                    ELSE IF y = d[x].n THEN d[x].p ELSE d[y].p
        /\ d6[y].n = IF y = x THEN 0
                    ELSE IF y = d[0].p THEN x
                    ELSE IF y = d[x].p THEN d[x].n ELSE d[y].n
  BY <1>0, <1>3, <1>4, <1>5, <1>6, <1>7, <1>8, <1>9
<1> QED
  BY <1>2, <1>8, <1>10, <1>1 DEF NextOf, PrevOf, MovedFw, MovedBw

-----------------------------------------------------------------------------
(* The order with the node at place j moved to the front, to the back, and *)
(* the whole order seen from the other end.                                *)
ToFront(c, l, j) ==
  [i \in 0..l + 1 |-> IF i = 1 THEN c[j]
                      ELSE IF 1 < i /\ i <= j THEN c[i - 1] ELSE c[i]]

ToBack(c, l, j) ==
  [i \in 0..l + 1 |-> IF i = l THEN c[j]
                      ELSE IF j <= i /\ i < l THEN c[i + 1] ELSE c[i]]

Backwards(c, l) == [i \in 0..l + 1 |-> c[l + 1 - i]]

(* The circle seen from the other end is a circle.                         *)
LEMMA CircleBackwards ==
  ASSUME NEW l \in Nat, NEW fw, NEW bw, NEW c, Circle(fw, bw, l, c)
  PROVE  Circle(bw, fw, l, Backwards(c, l))
<1> DEFINE b == Backwards(c, l)
<1>Inj. \A i, j \in 0..l : c[i] = c[j] => i = j
  BY DEF Circle
<1>Lnk. \A i \in 0..l : fw[c[i]] = c[i + 1] /\ bw[c[i + 1]] = c[i]
  BY DEF Circle
<1>0. /\ \A i \in 0..l + 1 : c[i] \in 0..l /\ l + 1 - i \in 0..l + 1
      /\ c[0] = 0 /\ c[l + 1] = 0
  <2>1. \A i \in 0..l + 1 : l + 1 - i \in 0..l + 1
    OBVIOUS
  <2>2. c \in [0..l + 1 -> 0..l] /\ c[0] = 0 /\ c[l + 1] = 0
    BY DEF Circle
  <2>3. \A i \in 0..l + 1 : c[i] \in 0..l
    BY <2>2
  <2> QED BY <2>1, <2>2, <2>3
<1>2. \A i \in 0..l + 1 : b[i] = c[l + 1 - i]
  BY DEF Backwards
<1>1. b \in [0..l + 1 -> 0..l] /\ b[0] = 0 /\ b[l + 1] = 0
  <2>1. b \in [0..l + 1 -> 0..l]
    BY <1>0 DEF Backwards
  <2>2. 0 \in 0..l + 1 /\ l + 1 \in 0..l + 1 /\ l + 1 - 0 = l + 1 /\ l + 1 - (l + 1) = 0
    OBVIOUS
  <2> QED BY <1>0, <1>2, <2>1, <2>2
<1> HIDE DEF b
<1>3. ASSUME NEW i \in 0..l, NEW j \in 0..l, b[i] = b[j] PROVE i = j
  <2> DEFINE f(x) == IF x = 0 THEN 0 ELSE l + 1 - x
  <2>1. b[i] = c[f(i)] /\ b[j] = c[f(j)] /\ f(i) \in 0..l /\ f(j) \in 0..l
    <3>1. ASSUME NEW x \in 0..l PROVE b[x] = c[f(x)] /\ f(x) \in 0..l
      <4>1. CASE x = 0
        BY <4>1, <1>0, <1>1
      <4>2. CASE x # 0
        BY <4>2, <1>2
      <4> QED BY <4>1, <4>2
    <3> QED BY <3>1
  <2>2. f(i) = f(j)
    <3> HIDE DEF f
    <3> QED BY <2>1, <1>3, <1>Inj
  <2> QED BY <2>2
<1>4. ASSUME NEW x \in 0..l PROVE \E i \in 0..l : b[i] = x
  <2>1. PICK i \in 0..l : c[i] = x
    BY DEF Circle
  <2>2. CASE i = 0
    BY <2>1, <2>2, <1>1 DEF Circle
  <2>3. CASE i # 0
    <3>1. l + 1 - i \in 0..l /\ l + 1 - (l + 1 - i) = i
      BY <2>3
    <3> QED BY <2>1, <3>1, <1>2
  <2> QED BY <2>2, <2>3
<1>5. ASSUME NEW i \in 0..l PROVE bw[b[i]] = b[i + 1] /\ fw[b[i + 1]] = b[i]
  <2>1. l - i \in 0..l /\ (l - i) + 1 = l + 1 - i /\ l + 1 - (i + 1) = l - i
    OBVIOUS
  <2>2. b[i] = c[(l - i) + 1] /\ b[i + 1] = c[l - i]
    BY <1>2, <2>1
  <2>3. fw[c[l - i]] = c[(l - i) + 1] /\ bw[c[(l - i) + 1]] = c[l - i]
    BY <2>1, <1>Lnk
  <2> QED BY <2>2, <2>3
<1> QED
  BY <1>1, <1>3, <1>4, <1>5 DEF Circle, b

(* A node that is not at the front can be moved there: what adjust needs   *)
(* to know about its neighbours holds, and the circle stays one.           *)
LEMMA CircleMoved ==
  ASSUME NEW l \in Nat, l <= Cap, NEW fw, NEW bw, NEW c, Circle(fw, bw, l, c),
         NEW j \in 2..l
  PROVE  LET x == c[j] IN
         /\ x \in 1..l /\ bw[x] # 0 /\ fw[0] # x /\ fw[x] # x /\ bw[x] # x
         /\ fw[0] # fw[x]
         /\ Circle(MovedFw(fw, bw, x), MovedBw(fw, bw, x), l, ToFront(c, l, j))
<1> DEFINE x == c[j]
           b == ToFront(c, l, j)
           f2 == MovedFw(fw, bw, x)
           b2 == MovedBw(fw, bw, x)
<1>1. \A i, k \in 1..l + 1 : c[i] = c[k] => i = k
  <2> TAKE i, k \in 1..l + 1
  <2> HAVE c[i] = c[k]
  <2>1. CASE i = l + 1 /\ k # l + 1
    <3>1. c[k] = c[0] /\ k \in 0..l /\ 0 \in 0..l
      BY <2>1 DEF Circle
    <3> QED BY <3>1 DEF Circle
  <2>2. CASE k = l + 1 /\ i # l + 1
    <3>1. c[i] = c[0] /\ i \in 0..l /\ 0 \in 0..l
      BY <2>2 DEF Circle
    <3> QED BY <3>1 DEF Circle
  <2>3. CASE i # l + 1 /\ k # l + 1
    <3>1. i \in 0..l /\ k \in 0..l
      BY <2>3
    <3> QED BY <3>1 DEF Circle
  <2> QED BY <2>1, <2>2, <2>3
<1>2. /\ \A i \in 0..l + 1 : c[i] \in 0..l /\ c[i] \in 0..Cap
      /\ j - 1 \in 1..l /\ j + 1 \in 1..l + 1 /\ j \in 1..l
      /\ 0 \in 0..l /\ 1 \in 1..l
  <2>1. c \in [0..l + 1 -> 0..l]
    BY DEF Circle
  <2>2. \A i \in 0..l + 1 : c[i] \in 0..l
    BY <2>1
  <2>3. 0..l \subseteq 0..Cap
    BY CapAssumption
  <2> QED BY <2>2, <2>3
<1>3. fw[x] = c[j + 1] /\ bw[x] = c[j - 1] /\ fw[0] = c[1] /\ c[0] = 0 /\ c[l + 1] = 0
  <2>1. j \in 0..l /\ j - 1 \in 0..l /\ (j - 1) + 1 = j /\ 0 \in 0..l
    OBVIOUS
  <2>2. c[0] = 0 /\ c[l + 1] = 0
    BY DEF Circle
  <2>3. \A i \in 0..l : fw[c[i]] = c[i + 1] /\ bw[c[i + 1]] = c[i]
    BY DEF Circle
  <2>4. fw[c[0]] = c[0 + 1] /\ fw[c[j]] = c[j + 1] /\ bw[c[(j - 1) + 1]] = c[j - 1]
    BY <2>1, <2>3
  <2> QED BY <2>1, <2>2, <2>4
<1>4. \A i \in 1..l : c[i] # 0
  BY <1>1, <1>3
<1>5. x \in 1..l /\ bw[x] # 0 /\ fw[0] # x /\ fw[x] # x /\ bw[x] # x /\ fw[0] # fw[x]
  BY <1>1, <1>2, <1>3, <1>4
<1>6. \A i \in 0..l + 1 :
        b[i] = IF i = 1 THEN x ELSE IF 1 < i /\ i <= j THEN c[i - 1] ELSE c[i]
  BY DEF ToFront
<1>7. b \in [0..l + 1 -> 0..l]
  BY <1>2 DEF ToFront
<1>8. \A y \in 0..Cap :
        /\ f2[y] = IF y = 0 THEN x ELSE IF y = x THEN c[1]
                   ELSE IF y = c[j - 1] THEN c[j + 1] ELSE fw[y]
        /\ b2[y] = IF y = x THEN 0 ELSE IF y = c[1] THEN x
                   ELSE IF y = c[j + 1] THEN c[j - 1] ELSE bw[y]
  BY <1>3 DEF MovedFw, MovedBw
<1>9. \A i \in 0..l : fw[c[i]] = c[i + 1] /\ bw[c[i + 1]] = c[i]
  BY DEF Circle
<1>10. \A y \in 0..l : \E i \in 0..l : c[i] = y
  BY DEF Circle
<1>11. \A i, k \in 0..l : c[i] = c[k] => i = k
  BY DEF Circle
<1> HIDE DEF b, f2, b2
<1>12. b[0] = 0 /\ b[l + 1] = 0
  BY <1>2, <1>3, <1>6
<1>13. ASSUME NEW i \in 0..l, NEW k \in 0..l, b[i] = b[k] PROVE i = k
  <2> DEFINE g(y) == IF y = 1 THEN j ELSE IF 1 < y /\ y <= j THEN y - 1 ELSE y
  <2>1. b[i] = c[g(i)] /\ b[k] = c[g(k)] /\ g(i) \in 0..l /\ g(k) \in 0..l
    BY <1>2, <1>6
  <2>2. g(i) = g(k)
    BY <2>1, <1>11, <1>13
  <2> QED BY <2>2
<1>14. ASSUME NEW y \in 0..l PROVE \E i \in 0..l : b[i] = y
  <2>1. PICK k \in 0..l : c[k] = y
    BY <1>10
  <2>2. CASE k = j
    BY <2>1, <2>2, <1>6, <1>2
  <2>3. CASE 1 <= k /\ k < j
    <3>1. k + 1 \in 0..l /\ (k + 1) - 1 = k /\ k + 1 # 1 /\ 1 < k + 1 /\ k + 1 <= j
      BY <2>3
    <3>2. b[k + 1] = y
      BY <3>1, <2>1, <1>6
    <3> QED BY <3>1, <3>2
  <2>4. CASE k = 0 \/ k > j
    BY <2>1, <2>4, <1>6
  <2> QED BY <2>2, <2>3, <2>4
<1>15. ASSUME NEW i \in 0..l PROVE f2[b[i]] = b[i + 1] /\ b2[b[i + 1]] = b[i]
  <2>1. CASE i = 0
    BY <2>1, <1>2, <1>3, <1>6, <1>8, <1>12
  <2>2. CASE i = 1
    <3>1. b[1] = x /\ b[2] = c[1]
      BY <1>6
    <3> QED BY <2>2, <3>1, <1>1, <1>2, <1>3, <1>4, <1>8
  <2>3. CASE 1 < i /\ i < j
    <3>1. b[i] = c[i - 1] /\ b[i + 1] = c[i] /\ i - 1 \in 0..l /\ (i - 1) + 1 = i
      BY <2>3, <1>6
    <3>2. fw[c[i - 1]] = c[i] /\ bw[c[i]] = c[i - 1]
      BY <3>1, <1>9
    <3>3. c[i - 1] # 0 /\ c[i - 1] # x /\ c[i - 1] # c[j - 1]
      BY <2>3, <1>1, <1>2, <1>4
    <3>4. c[i] # x /\ c[i] # c[1] /\ c[i] # c[j + 1]
      BY <2>3, <1>1, <1>2, <1>4
    <3> QED BY <3>1, <3>2, <3>3, <3>4, <1>2, <1>8
  <2>4. CASE i = j
    <3>1. b[i] = c[j - 1] /\ b[i + 1] = c[j + 1]
      BY <2>4, <1>6
    <3>2. c[j - 1] # 0 /\ c[j - 1] # x /\ c[j + 1] # x /\ c[j + 1] # c[1]
      BY <1>1, <1>2, <1>4
    <3> QED BY <3>1, <3>2, <1>2, <1>8
  <2>5. CASE i > j
    <3>1. b[i] = c[i] /\ b[i + 1] = c[i + 1] /\ i \in 1..l + 1 /\ i + 1 \in 1..l + 1
      BY <2>5, <1>6
    <3>2. c[i] # 0 /\ c[i] # x /\ c[i] # c[j - 1]
      BY <2>5, <3>1, <1>1, <1>2, <1>4
    <3>3. c[i + 1] # x /\ c[i + 1] # c[1] /\ c[i + 1] # c[j + 1]
      BY <2>5, <3>1, <1>1, <1>2
    <3> QED BY <3>1, <3>2, <3>3, <1>2, <1>8, <1>9
  <2> QED BY <2>1, <2>2, <2>3, <2>4, <2>5
<1> QED
  BY <1>5, <1>7, <1>12, <1>13, <1>14, <1>15 DEF Circle, b, f2, b2

(* adjust moves the node at place j of the order to the front, wherever it *)
(* stands: at the head already, at the tail, or between.                   *)
LEMMA HeadMoved ==
  ASSUME NEW d \in Links, NEW l \in 1..Cap, NEW c,
         Circle(NextOf(d), PrevOf(d), l, c), NEW j \in 1..l
  PROVE  LET r == adjust(d, c[j], "p", "n") IN
         /\ r \in Links
         /\ Circle(NextOf(r), PrevOf(r), l, ToFront(c, l, j))
<1> DEFINE r == adjust(d, c[j], "p", "n")
<1>0. Cap \in Nat /\ l \in Nat /\ l <= Cap
  BY CapAssumption
<1>a. c \in [0..l + 1 -> 0..l] /\ c[0] = 0
  BY DEF Circle
<1>b. \A i \in 0..l : NextOf(d)[c[i]] = c[i + 1] /\ PrevOf(d)[c[i + 1]] = c[i]
  BY DEF Circle
<1>2. c[j] \in 0..Cap /\ 0 \in 0..Cap
  <2>1. j \in 0..l + 1 /\ 0..l \subseteq 0..Cap /\ 0 \in 0..Cap
    BY <1>0
  <2> QED BY <2>1, <1>a
<1>3. CASE j = 1
  <2>1. 0 \in 0..l /\ 0 + 1 = 1
    BY <1>0
  <2>2. PrevOf(d)[c[1]] = 0
    BY <1>a, <1>b, <2>1
  <2>3. d[c[j]].p = 0
    BY <1>2, <1>3, <2>2 DEF PrevOf
  <2>4. r = d
    BY <2>3 DEF adjust
  <2>5. ToFront(c, l, j) = c
    BY <1>a, <1>3 DEF ToFront
  <2> QED BY <2>4, <2>5
<1>4. CASE j # 1
  <2>0. j \in 2..l
    BY <1>4
  <2> DEFINE x == c[j]
             fw == NextOf(d)
             bw == PrevOf(d)
  <2>1. /\ x \in 1..l /\ bw[x] # 0 /\ fw[0] # x /\ fw[x] # x /\ bw[x] # x
        /\ fw[0] # fw[x]
        /\ Circle(MovedFw(fw, bw, x), MovedBw(fw, bw, x), l, ToFront(c, l, j))
    BY <1>0, <2>0, CircleMoved
  <2>2. fw[x] = d[x].n /\ bw[x] = d[x].p /\ fw[0] = d[0].n
    BY <1>2 DEF NextOf, PrevOf
  <2>3. x \in 1..Cap
    BY <1>0, <2>1
  <2> HIDE DEF x, fw, bw
  <2>4. /\ adjust(d, x, "p", "n") \in Links
        /\ NextOf(adjust(d, x, "p", "n")) = MovedFw(NextOf(d), PrevOf(d), x)
        /\ PrevOf(adjust(d, x, "p", "n")) = MovedBw(NextOf(d), PrevOf(d), x)
    BY <2>1, <2>2, <2>3, AdjustHead
  <2> QED BY <2>1, <2>4 DEF x, fw, bw
<1> QED BY <1>3, <1>4

(* And to the back.                                                        *)
LEMMA TailMoved ==
  ASSUME NEW d \in Links, NEW l \in 1..Cap, NEW c,
         Circle(NextOf(d), PrevOf(d), l, c), NEW j \in 1..l
  PROVE  LET r == adjust(d, c[j], "n", "p") IN
         /\ r \in Links
         /\ Circle(NextOf(r), PrevOf(r), l, ToBack(c, l, j))
<1> DEFINE r == adjust(d, c[j], "n", "p")
           b == Backwards(c, l)
           i0 == l + 1 - j
<1>0. Cap \in Nat /\ l \in Nat /\ l <= Cap /\ i0 \in 1..l /\ l + 1 - i0 = j
  BY CapAssumption
<1>a. c \in [0..l + 1 -> 0..l] /\ c[0] = 0 /\ c[l + 1] = 0
  BY DEF Circle
<1>b. \A i \in 0..l : NextOf(d)[c[i]] = c[i + 1] /\ PrevOf(d)[c[i + 1]] = c[i]
  BY DEF Circle
<1>2. c[j] \in 0..Cap /\ 0 \in 0..Cap
  <2>1. j \in 0..l + 1 /\ 0..l \subseteq 0..Cap /\ 0 \in 0..Cap
    BY <1>0
  <2> QED BY <2>1, <1>a
<1>3. CASE j = l
  <2>1. j \in 0..l
    BY <1>0
  <2>2. NextOf(d)[c[j]] = 0
    BY <1>a, <1>b, <1>3, <2>1
  <2>3. d[c[j]].n = 0
    BY <1>2, <2>2 DEF NextOf
  <2>4. r = d
    BY <2>3 DEF adjust
  <2>5. ToBack(c, l, j) = c
    BY <1>0, <1>a, <1>3 DEF ToBack
  <2> QED BY <2>4, <2>5
<1>4. CASE j # l
  <2>0. i0 \in 2..l
    BY <1>0, <1>4
  <2> DEFINE x == c[j]
             fw == NextOf(d)
             bw == PrevOf(d)
  <2>a. Circle(bw, fw, l, b)
    BY <1>0, CircleBackwards
  <2>b. b[i0] = x
    <3>1. i0 \in 0..l + 1
      BY <1>0
    <3>2. b[i0] = c[l + 1 - i0]
      BY <3>1 DEF Backwards
    <3> QED BY <3>2, <1>0
  <2> HIDE DEF b, i0, x, fw, bw
  <2>1. /\ x \in 1..l /\ fw[x] # 0 /\ bw[0] # x /\ bw[x] # x /\ fw[x] # x
        /\ bw[0] # bw[x]
        /\ Circle(MovedFw(bw, fw, x), MovedBw(bw, fw, x), l, ToFront(b, l, i0))
    BY <1>0, <2>0, <2>a, <2>b, CircleMoved
  <2>2. fw[x] = d[x].n /\ bw[x] = d[x].p /\ bw[0] = d[0].p
    BY <1>2 DEF NextOf, PrevOf, x, fw, bw
  <2>3. x \in 1..Cap
    BY <1>0, <2>1
  <2>4. /\ adjust(d, x, "n", "p") \in Links
        /\ PrevOf(adjust(d, x, "n", "p")) = MovedFw(bw, fw, x)
        /\ NextOf(adjust(d, x, "n", "p")) = MovedBw(bw, fw, x)
    BY <2>1, <2>2, <2>3, AdjustTail DEF fw, bw
  <2>5. Circle(MovedBw(bw, fw, x), MovedFw(bw, fw, x), l, Backwards(ToFront(b, l, i0), l))
    BY <1>0, <2>1, CircleBackwards
  <2>6. Backwards(ToFront(b, l, i0), l) = ToBack(c, l, j)
    <3>1. ASSUME NEW i \in 0..l + 1
          PROVE  ToFront(b, l, i0)[l + 1 - i] = ToBack(c, l, j)[i]
      <4>1. /\ l + 1 - i \in 0..l + 1
            /\ l + 1 - i = 1 <=> i = l
            /\ 1 < l + 1 - i <=> i < l
            /\ l + 1 - i <= i0 <=> j <= i
        BY <1>0 DEF i0
      <4>2. ToFront(b, l, i0)[l + 1 - i] =
              IF i = l THEN b[i0]
              ELSE IF j <= i /\ i < l THEN b[(l + 1 - i) - 1] ELSE b[l + 1 - i]
        BY <4>1 DEF ToFront
      <4>3. b[l + 1 - i] = c[i]
        <5>1. l + 1 - (l + 1 - i) = i
          BY <1>0
        <5> QED BY <4>1, <5>1 DEF b, Backwards
      <4>4. j <= i /\ i < l => b[(l + 1 - i) - 1] = c[i + 1]
        <5>1. j <= i /\ i < l => (l + 1 - i) - 1 \in 0..l + 1 /\ l + 1 - ((l + 1 - i) - 1) = i + 1
          BY <1>0
        <5> QED BY <5>1 DEF b, Backwards
      <4> QED BY <4>2, <4>3, <4>4, <2>b DEF ToBack, x
    <3> QED BY <3>1 DEF Backwards, ToBack
  <2> QED BY <2>4, <2>5, <2>6 DEF x
<1> QED BY <1>3, <1>4

(* A node more, put at the head.                                           *)
(* The order with a new node l + 1 in front.                               *)
Grown(c, l) == [i \in 0..l + 2 |-> IF i = 0 THEN 0 ELSE IF i = 1 THEN l + 1 ELSE c[i - 1]]

(* What put does with the links of a node it uses for the first time.      *)
LEMMA HeadAdded ==
  ASSUME NEW d \in Links, NEW l \in 0..Cap - 1, NEW c,
         Circle(NextOf(d), PrevOf(d), l, c)
  PROVE  LET i == l + 1
             d1 == [d EXCEPT ![d[0].n].p = i]
             r == [d1 EXCEPT ![i] = [p |-> 0, n |-> d1[0].n], ![0].n = i]
         IN  /\ r \in Links
             /\ Circle(NextOf(r), PrevOf(r), i, Grown(c, l))
<1> DEFINE x == l + 1
           d1 == WithP(d, d[0].n, x)
           d2 == [d1 EXCEPT ![x] = [p |-> 0, n |-> d1[0].n]]
           r == WithN(d2, 0, x)
           g == Grown(c, l)
<1>0. Cap \in Nat /\ l \in Nat /\ x \in 1..Cap /\ x \in 0..Cap /\ 0 \in 0..Cap /\ l <= Cap
  BY CapAssumption
<1>1. d[0].n \in 0..Cap
  BY <1>0, LinksInRange
<1>2. /\ d1 \in Links
      /\ \A y \in 0..Cap : /\ d1[y].n = d[y].n
                           /\ d1[y].p = IF y = d[0].n THEN x ELSE d[y].p
  <2>1. IsWithP(d1, d, d[0].n, x)
    BY <1>0, <1>1, SetPrev
  <2> HIDE DEF d1
  <2> QED BY <2>1 DEF IsWithP
<1>3. /\ d2 \in Links
      /\ \A y \in 0..Cap : /\ d2[y].n = IF y = x THEN d[0].n ELSE d1[y].n
                           /\ d2[y].p = IF y = x THEN 0 ELSE d1[y].p
  <2> HIDE DEF d1
  <2>1. d1[0].n = d[0].n /\ d1 \in [0..Cap -> [p : 0..Cap, n : 0..Cap]]
    BY <1>0, <1>2 DEF Links
  <2>2. [p |-> 0, n |-> d1[0].n] \in [p : 0..Cap, n : 0..Cap]
    BY <1>0, <1>1, <2>1
  <2> QED BY <1>0, <2>1, <2>2 DEF Links
<1>4. /\ r \in Links
      /\ \A y \in 0..Cap : /\ r[y].p = d2[y].p
                           /\ r[y].n = IF y = 0 THEN x ELSE d2[y].n
  <2> HIDE DEF d2, x
  <2>1. IsWithN(r, d2, 0, x)
    BY <1>0, <1>3, SetNext
  <2> HIDE DEF r
  <2> QED BY <2>1 DEF IsWithN
<1>5. r = [d1 EXCEPT ![x] = [p |-> 0, n |-> d1[0].n], ![0].n = x]
  BY DEF WithN
<1> HIDE DEF d1, d2, r
<1>6. \A y \in 0..Cap :
        /\ r[y].n = IF y = 0 THEN x ELSE IF y = x THEN d[0].n ELSE d[y].n
        /\ r[y].p = IF y = x THEN 0 ELSE IF y = d[0].n THEN x ELSE d[y].p
  BY <1>2, <1>3, <1>4
<1>7. c \in [0..l + 1 -> 0..l] /\ c[0] = 0 /\ c[l + 1] = 0
  BY DEF Circle
<1>a. \A i, j \in 0..l : c[i] = c[j] => i = j
  BY DEF Circle
<1>b. \A y \in 0..l : \E i \in 0..l : c[i] = y
  BY DEF Circle
<1>c. \A i \in 0..l : NextOf(d)[c[i]] = c[i + 1] /\ PrevOf(d)[c[i + 1]] = c[i]
  BY DEF Circle
<1>8. \A i \in 0..l + 1 : c[i] \in 0..l /\ c[i] \in 0..Cap /\ c[i] # x
  <2>1. \A y \in 0..l : y \in 0..Cap /\ y # x
    BY <1>0
  <2>2. \A i \in 0..l + 1 : c[i] \in 0..l
    BY <1>7
  <2> QED BY <2>1, <2>2
<1>9. \A i \in 0..l : d[c[i]].n = c[i + 1] /\ d[c[i + 1]].p = c[i]
  <2> TAKE i \in 0..l
  <2>1. i \in 0..l + 1 /\ i + 1 \in 0..l + 1
    BY <1>0
  <2> QED BY <2>1, <1>c, <1>8 DEF NextOf, PrevOf
<1>10. d[0].n = c[1]
  <2>1. 0 \in 0..l /\ 0 + 1 = 1
    BY <1>0
  <2> QED BY <2>1, <1>7, <1>9
<1>11. \A i, j \in 1..l + 1 : c[i] = c[j] => i = j
  <2> TAKE i, j \in 1..l + 1
  <2> HAVE c[i] = c[j]
  <2>1. 0 \in 0..l /\ (i # l + 1 => i \in 0..l) /\ (j # l + 1 => j \in 0..l)
        /\ i # 0 /\ j # 0
    BY <1>0
  <2> QED BY <2>1, <1>7, <1>a
<1>12. /\ g[0] = 0 /\ g[1] = x /\ g[x + 1] = 0
       /\ \A i \in 1..l + 1 : g[i + 1] = c[i]
       /\ g \in [0..x + 1 -> 0..x]
  <2>1. x + 1 = l + 2 /\ x + 1 \in 0..l + 2 /\ (x + 1) - 1 = l + 1 /\ 0 \in 0..l + 2 /\ 1 \in 0..l + 2
    BY <1>0
  <2>2. ASSUME NEW i \in 1..l + 1 PROVE g[i + 1] = c[i]
    <3>1. i + 1 \in 0..l + 2 /\ (i + 1) - 1 = i /\ i + 1 # 0 /\ i + 1 # 1
      BY <1>0
    <3> QED BY <3>1 DEF Grown
  <2>3. g[0] = 0 /\ g[1] = x
    BY <2>1 DEF Grown
  <2>4. g[x + 1] = 0
    <3>1. l + 1 \in 1..l + 1 /\ x + 1 = (l + 1) + 1
      BY <1>0
    <3> QED BY <3>1, <2>2, <1>7
  <2>5. \A i \in 0..l + 2 : i # 0 /\ i # 1 => i - 1 \in 1..l + 1 /\ c[i - 1] \in 0..l
    BY <1>0, <1>8
  <2>6. g \in [0..l + 2 -> 0..x]
    BY <1>0, <2>5 DEF Grown
  <2> QED BY <2>1, <2>2, <2>3, <2>4, <2>6
<1> HIDE DEF g, x
<1>13. x = l + 1 /\ \A i \in 0..x : i = 0 \/ i = 1 \/ (i - 1 \in 1..l /\ g[i] = c[i - 1])
  <2>1. x = l + 1
    BY DEF x
  <2>2. ASSUME NEW i \in 0..x, i # 0, i # 1 PROVE i - 1 \in 1..l /\ g[i] = c[i - 1]
    <3>1. i - 1 \in 1..l /\ i - 1 \in 1..l + 1 /\ (i - 1) + 1 = i
      BY <1>0, <2>1, <2>2
    <3> QED BY <3>1, <1>12
  <2> QED BY <2>1, <2>2
<1>14. \A i \in 1..l : c[i] # 0 /\ c[i] \in 0..l
  <2> TAKE i \in 1..l
  <2>1. i \in 0..l /\ 0 \in 0..l /\ i # 0 /\ i \in 0..l + 1
    BY <1>0
  <2> QED BY <2>1, <1>7, <1>8, <1>a
<1>15. ASSUME NEW i \in 0..x, NEW j \in 0..x, g[i] = g[j] PROVE i = j
  <2>1. \A y \in 0..x : \/ y = 0 /\ g[y] = 0
                        \/ y = 1 /\ g[y] = x
                        \/ y - 1 \in 1..l /\ g[y] = c[y - 1] /\ g[y] # 0 /\ g[y] # x
    <3>1. \A y \in 0..x : y - 1 \in 1..l => c[y - 1] # 0 /\ c[y - 1] # x
      BY <1>13, <1>14
    <3> QED BY <3>1, <1>12, <1>13
  <2>2. x # 0
    BY <1>0
  <2>3. i - 1 \in 1..l /\ j - 1 \in 1..l /\ c[i - 1] = c[j - 1] => i = j
    <3>1. i - 1 \in 1..l => i - 1 \in 0..l
      BY <1>0
    <3>2. j - 1 \in 1..l => j - 1 \in 0..l
      BY <1>0
    <3>3. i - 1 = j - 1 => i = j
      BY <1>0
    <3> QED BY <3>1, <3>2, <3>3, <1>a
  <2> QED BY <1>15, <2>1, <2>2, <2>3
<1>16. ASSUME NEW y \in 0..x PROVE \E i \in 0..x : g[i] = y
  <2>1. CASE y = x
    <3>1. 1 \in 0..x
      BY <1>0, <1>13
    <3> QED BY <2>1, <3>1, <1>12
  <2>2. CASE y = 0
    <3>1. 0 \in 0..x
      BY <1>0
    <3> QED BY <2>2, <3>1, <1>12
  <2>3. CASE y # x /\ y # 0
    <3>1. y \in 0..l
      BY <1>0, <1>13, <2>3
    <3>2. PICK i \in 0..l : c[i] = y
      BY <3>1, <1>b
    <3>3. i # 0
      BY <3>2, <2>3, <1>7
    <3>4. i \in 1..l + 1 /\ i + 1 \in 0..x
      BY <3>3, <1>0, <1>13
    <3> QED BY <3>2, <3>4, <1>12
  <2> QED BY <2>1, <2>2, <2>3
<1>17. ASSUME NEW i \in 0..x PROVE r[g[i]].n = g[i + 1] /\ r[g[i + 1]].p = g[i]
  <2>1. CASE i = 0
    <3>1. g[i] = 0 /\ g[i + 1] = x
      BY <2>1, <1>12
    <3> QED BY <3>1, <1>0, <1>6
  <2>2. CASE i = 1
    <3>1. 1 \in 1..l + 1 /\ i + 1 = 1 + 1
      BY <1>0, <2>2
    <3>2. g[i] = x /\ g[i + 1] = c[1]
      BY <2>2, <3>1, <1>12
    <3>3. c[1] # x /\ c[1] \in 0..Cap /\ 1 \in 0..l + 1
      BY <1>0, <1>8
    <3> QED BY <3>2, <3>3, <1>0, <1>6, <1>10
  <2>3. CASE i - 1 \in 1..l /\ g[i] = c[i - 1] /\ i # 0 /\ i # 1
    <3> DEFINE z == i - 1
    <3>1. z \in 1..l /\ g[i] = c[z] /\ z \in 1..l + 1 /\ z + 1 \in 1..l + 1 /\ i + 1 = (z + 1) + 1
          /\ z \in 0..l /\ z + 1 \in 0..l + 1 /\ z \in 0..l + 1 /\ z + 1 # 1 /\ 1 \in 1..l + 1
      BY <1>0, <2>3
    <3> HIDE DEF z
    <3>2. g[i + 1] = c[z + 1]
      BY <3>1, <1>12
    <3>3. c[z] # 0 /\ c[z] # x /\ c[z] \in 0..Cap /\ c[z + 1] # x /\ c[z + 1] \in 0..Cap
      BY <3>1, <1>8, <1>14
    <3>4. c[z + 1] # c[1]
      BY <3>1, <1>11
    <3> QED BY <3>1, <3>2, <3>3, <3>4, <1>6, <1>9, <1>10
  <2> QED BY <2>1, <2>2, <2>3, <1>13
<1>18. \A i \in 0..x : NextOf(r)[g[i]] = g[i + 1] /\ PrevOf(r)[g[i + 1]] = g[i]
  <2> TAKE i \in 0..x
  <2>1. i \in 0..x + 1 /\ i + 1 \in 0..x + 1 /\ 0..x \subseteq 0..Cap
    BY <1>0
  <2>2. g[i] \in 0..Cap /\ g[i + 1] \in 0..Cap
    BY <2>1, <1>12
  <2> QED BY <2>2, <1>17 DEF NextOf, PrevOf
<1>19. Circle(NextOf(r), PrevOf(r), x, g)
  BY <1>12, <1>15, <1>16, <1>18 DEF Circle
<1> QED
  BY <1>4, <1>5, <1>19 DEF x, d1, g, WithP

-----------------------------------------------------------------------------
Entry == [k : Keys, v : Vals, e : Times \cup {0}]

(* c is the order of the nodes in use.                                     *)
InOrder(c) == Circle(NextOf(dlnk), PrevOf(dlnk), last, c)

(* The inductive invariant: nodes in use hold an entry each, hmap points   *)
(* to nodes in use only, hmap and the nodes name each other, and the nodes *)
(* stand in one circle.                                                    *)
SlabInv ==
  /\ TypeOK
  /\ MapMatchesNodes
  /\ \A k \in Keys : hmap[k] \in 0..last
  /\ \A i \in 1..last : m[i] \in Entry
  /\ \E c : InOrder(c)

(* SlabInv, in the form the proofs below use.                              *)
LEMMA SlabFacts ==
  ASSUME SlabInv
  PROVE  /\ Cap \in Nat \ {0} /\ last \in 0..Cap /\ last \in Nat
         /\ dlnk \in Links /\ hmap \in [Keys -> 0..Cap]
         /\ m \in [Nodes -> Entry \cup {NoEntry}]
         /\ \A k \in Keys : hmap[k] # 0 => hmap[k] \in 1..last /\ m[hmap[k]].k = k
         /\ \A i \in 1..last : m[i] \in Entry /\ m[i].k \in Keys /\ hmap[m[i].k] = i
<1>1. /\ dlnk \in Links /\ hmap \in [Keys -> 0..Cap] /\ last \in 0..Cap
      /\ m \in [Nodes -> Entry \cup {NoEntry}]
  BY DEF SlabInv, TypeOK, Links, Entry
<1>2. Cap \in Nat \ {0} /\ last \in Nat
  BY <1>1, CapAssumption
<1>3. \A k \in Keys : hmap[k] # 0 => hmap[k] \in 1..last /\ m[hmap[k]].k = k
  <2> SUFFICES ASSUME NEW k \in Keys, hmap[k] # 0
               PROVE  hmap[k] \in 1..last /\ m[hmap[k]].k = k
    OBVIOUS
  <2>1. hmap[k] \in 0..last
    BY DEF SlabInv
  <2>2. m[hmap[k]].k = k
    BY DEF SlabInv, MapMatchesNodes, Absent
  <2> QED BY <1>2, <2>1, <2>2
<1>4. \A i \in 1..last : m[i] \in Entry /\ m[i].k \in Keys /\ hmap[m[i].k] = i
  BY DEF SlabInv, MapMatchesNodes, Entry
<1> QED BY <1>1, <1>2, <1>3, <1>4

(* The links of a new cache: the sentinel alone.                           *)
LEMMA InitSlabInv == Init => SlabInv
<1> SUFFICES ASSUME Init PROVE SlabInv
  OBVIOUS
<1>0. /\ dlnk = [i \in 0..Cap |-> [p |-> 0, n |-> 0]] /\ m = [i \in Nodes |-> NoEntry]
      /\ hmap = [k \in Keys |-> Absent] /\ last = 0 /\ reported = None
      /\ Cap \in Nat
  BY CapAssumption DEF Init
<1>1. TypeOK
  <2>1. 0 \in 0..Cap
    BY <1>0
  <2> QED BY <1>0, <2>1 DEF TypeOK, Absent
<1>2. MapMatchesNodes
  BY <1>0 DEF MapMatchesNodes
<1>3. \E c : InOrder(c)
  <2> DEFINE c == [i \in 0..1 |-> 0]
  <2>1. NextOf(dlnk)[0] = 0 /\ PrevOf(dlnk)[0] = 0
    BY <1>0 DEF NextOf, PrevOf
  <2>2. Circle(NextOf(dlnk), PrevOf(dlnk), 0, c)
    BY <2>1 DEF Circle
  <2> QED BY <2>2, <1>0 DEF InOrder
<1> QED
  BY <1>0, <1>1, <1>2, <1>3 DEF SlabInv, Absent

(* An entry's node has a place in the order.                               *)
LEMMA Placed ==
  ASSUME SlabInv, NEW c, InOrder(c), NEW x \in 1..last
  PROVE  \E j \in 1..last : c[j] = x
<1>0. last \in Nat
  BY SlabFacts
<1>1. c[0] = 0 /\ \A y \in 0..last : \E i \in 0..last : c[i] = y
  BY DEF InOrder, Circle
<1>2. PICK i \in 0..last : c[i] = x
  BY <1>0, <1>1
<1>3. i # 0
  BY <1>0, <1>1, <1>2
<1> QED BY <1>0, <1>2, <1>3

(* What the moves of put, get and del leave, for an order of the nodes.    *)
LEMMA MovedToHead ==
  ASSUME SlabInv, NEW c, InOrder(c), NEW j \in 1..last, dlnk' = ToHead(c[j]), last' = last
  PROVE  dlnk' \in Links /\ InOrder(ToFront(c, last, j))'
<1>1. last \in 1..Cap /\ dlnk \in Links
  BY SlabFacts
<1> QED
  BY <1>1, HeadMoved DEF InOrder, ToHead

LEMMA MovedToTail ==
  ASSUME SlabInv, NEW c, InOrder(c), NEW j \in 1..last, dlnk' = ToTail(c[j]), last' = last
  PROVE  dlnk' \in Links /\ InOrder(ToBack(c, last, j))'
<1>1. last \in 1..Cap /\ dlnk \in Links
  BY SlabFacts
<1> QED
  BY <1>1, TailMoved DEF InOrder, ToTail

(* An operation that moves a node and keeps every key where it is keeps    *)
(* the invariant.                                                          *)
LEMMA SameKeysKeepInv ==
  ASSUME SlabInv, dlnk' \in Links, \E c : InOrder(c)', hmap' = hmap, last' = last,
         m' \in [Nodes -> Entry \cup {NoEntry}], reported' \in (Keys \X Vals) \cup {None},
         \A i \in 1..last : m'[i] \in Entry /\ m'[i].k = m[i].k
  PROVE  SlabInv'
<1>1. TypeOK'
  BY DEF SlabInv, TypeOK, Links, Entry
<1>2. \A k \in Keys : hmap[k] # Absent => m'[hmap[k]].k = k
  BY SlabFacts DEF Absent
<1>3. \A i \in 1..last : hmap[m'[i].k] = i
  BY SlabFacts
<1> QED
  BY <1>1, <1>2, <1>3 DEF SlabInv, MapMatchesNodes

(* Each operation, as a change of the order c and of the entries.          *)
LEMMA PutExistingEffect ==
  ASSUME SlabInv, NEW k \in Keys, NEW v \in Vals, NEW e \in Times, PutExisting(k, v, e),
         NEW c, InOrder(c), NEW j \in 1..last, c[j] = hmap[k]
  PROVE  /\ SlabInv' /\ InOrder(ToFront(c, last, j))' /\ last' = last
         /\ \A i \in 1..last : m'[i] = IF i = c[j] THEN [k |-> k, v |-> v, e |-> e] ELSE m[i]
<1>0. /\ hmap[k] # 0 /\ m' = [m EXCEPT ![hmap[k]].v = v, ![hmap[k]].e = e]
      /\ dlnk' = ToHead(c[j]) /\ reported' = None /\ hmap' = hmap /\ last' = last
  BY DEF PutExisting, Absent
<1>1. dlnk' \in Links /\ InOrder(ToFront(c, last, j))'
  BY <1>0, MovedToHead
<1> DEFINE x == hmap[k]
<1>2. /\ x \in 1..last /\ x \in Nodes /\ m[x] \in Entry /\ m[x].k = k
      /\ m \in [Nodes -> Entry \cup {NoEntry}]
      /\ last \in 0..Cap /\ Cap \in Nat /\ 1..last \subseteq Nodes
  BY <1>0, SlabFacts DEF Nodes
<1>3. [k |-> k, v |-> v, e |-> e] \in Entry
  BY DEF Entry
<1> HIDE DEF x
<1>4. ASSUME NEW r \in Entry, r.k = k
      PROVE  [[r EXCEPT !.v = v] EXCEPT !.e = e] = [k |-> k, v |-> v, e |-> e]
  <2> DEFINE s == [r EXCEPT !.v = v]
  <2>1. s \in Entry /\ s.k = k /\ s.v = v
    BY <1>4 DEF Entry
  <2> HIDE DEF s
  <2>2. [s EXCEPT !.e = e] = [k |-> k, v |-> v, e |-> e]
    BY <2>1 DEF Entry
  <2> QED BY <2>2 DEF s
<1>5. m' = [m EXCEPT ![x] = [k |-> k, v |-> v, e |-> e]]
  <2>1. m' = [m EXCEPT ![x] = [[m[x] EXCEPT !.v = v] EXCEPT !.e = e]]
    BY <1>0, <1>2 DEF x
  <2> QED BY <2>1, <1>2, <1>4
<1>6. /\ m' \in [Nodes -> Entry \cup {NoEntry}]
      /\ \A i \in 1..last : m'[i] = IF i = x THEN [k |-> k, v |-> v, e |-> e] ELSE m[i]
  BY <1>2, <1>3, <1>5
<1>7. \A i \in 1..last : m'[i] \in Entry /\ m'[i].k = m[i].k
  BY <1>2, <1>3, <1>6, SlabFacts
<1>8. SlabInv'
  BY <1>0, <1>1, <1>6, <1>7, SameKeysKeepInv
<1> QED
  BY <1>0, <1>1, <1>6, <1>8 DEF x

LEMMA GetEffect ==
  ASSUME SlabInv, NEW k \in Keys, get(k),
         NEW c, InOrder(c), NEW j \in 1..last, c[j] = hmap[k]
  PROVE  SlabInv' /\ InOrder(ToFront(c, last, j))'
<1>1. dlnk' = ToHead(c[j]) /\ reported' = None /\ hmap' = hmap /\ last' = last /\ m' = m
  BY DEF get
<1>2. dlnk' \in Links /\ InOrder(ToFront(c, last, j))'
  BY <1>1, MovedToHead
<1> QED
  BY <1>1, <1>2, SlabFacts, SameKeysKeepInv

LEMMA DelEffect ==
  ASSUME SlabInv, NEW k \in Keys, del(k),
         NEW c, InOrder(c), NEW j \in 1..last, c[j] = hmap[k]
  PROVE  /\ SlabInv' /\ InOrder(ToBack(c, last, j))'
         /\ \A i \in 1..last : m'[i] = IF i = c[j] THEN [m[i] EXCEPT !.e = 0] ELSE m[i]
<1>0. /\ hmap[k] # 0 /\ m' = [m EXCEPT ![hmap[k]].e = 0]
      /\ dlnk' = ToTail(c[j]) /\ reported' = None /\ hmap' = hmap /\ last' = last
  BY DEF del, Absent
<1>1. dlnk' \in Links /\ InOrder(ToBack(c, last, j))'
  BY <1>0, MovedToTail
<1> DEFINE x == hmap[k]
<1>2. /\ x \in 1..last /\ x \in Nodes /\ m[x] \in Entry /\ m[x].k = k
      /\ m \in [Nodes -> Entry \cup {NoEntry}]
      /\ last \in 0..Cap /\ Cap \in Nat /\ 1..last \subseteq Nodes
  BY <1>0, SlabFacts DEF Nodes
<1> HIDE DEF x
<1>4. ASSUME NEW r \in Entry
      PROVE  [r EXCEPT !.e = 0] \in Entry /\ [r EXCEPT !.e = 0].k = r.k
  BY DEF Entry
<1>5. m' = [m EXCEPT ![x] = [m[x] EXCEPT !.e = 0]]
  BY <1>0, <1>2 DEF x
<1>6. [m[x] EXCEPT !.e = 0] \in Entry /\ [m[x] EXCEPT !.e = 0].k = m[x].k
  BY <1>2, <1>4
<1> DEFINE y == [m[x] EXCEPT !.e = 0]
<1> HIDE DEF y
<1>7. /\ m' \in [Nodes -> Entry \cup {NoEntry}]
      /\ \A i \in 1..last : m'[i] = IF i = x THEN y ELSE m[i]
  BY <1>2, <1>5, <1>6 DEF y
<1>8. \A i \in 1..last : m'[i] \in Entry /\ m'[i].k = m[i].k
  BY <1>2, <1>6, <1>7, SlabFacts DEF y
<1>9. SlabInv'
  BY <1>0, <1>1, <1>7, <1>8, SameKeysKeepInv
<1> QED
  BY <1>0, <1>1, <1>7, <1>9 DEF x, y

LEMMA PutReusingEffect ==
  ASSUME SlabInv, NEW k \in Keys, NEW v \in Vals, NEW e \in Times, PutReusing(k, v, e),
         NEW c, InOrder(c)
  PROVE  /\ last = Cap /\ last \in 1..last /\ dlnk[0].p = c[last] /\ c[last] \in 1..last
         /\ SlabInv' /\ InOrder(ToFront(c, last, last))' /\ last' = last
         /\ \A i \in 1..last :
              m'[i] = IF i = c[last] THEN [k |-> k, v |-> v, e |-> e] ELSE m[i]
<1> DEFINE t == dlnk[0].p
           x == [k |-> k, v |-> v, e |-> e]
<1>0. /\ hmap[k] = 0 /\ last = Cap
      /\ reported' = IF m[t].e > 0 THEN <<m[t].k, m[t].v>> ELSE None
      /\ hmap' = [hmap EXCEPT ![m[t].k] = 0, ![k] = t]
      /\ m' = [m EXCEPT ![t] = x]
      /\ dlnk' = ToHead(t) /\ last' = last
  BY DEF PutReusing, Absent
<1>1. /\ Cap \in Nat \ {0} /\ last \in 1..last /\ last \in Nat /\ dlnk \in Links
      /\ hmap \in [Keys -> 0..Cap] /\ m \in [Nodes -> Entry \cup {NoEntry}]
      /\ 1..last = Nodes
  BY <1>0, SlabFacts DEF Nodes
<1>2. t = c[last] /\ c[last] \in 1..last
  <2>1. /\ c \in [0..last + 1 -> 0..last] /\ c[0] = 0 /\ c[last + 1] = 0
    BY DEF InOrder, Circle
  <2>2. \A i, j \in 0..last : c[i] = c[j] => i = j
    BY DEF InOrder, Circle
  <2>3. \A i \in 0..last : PrevOf(dlnk)[c[i + 1]] = c[i]
    BY DEF InOrder, Circle
  <2>4. last \in 0..last /\ 0 \in 0..last /\ last # 0 /\ last \in 0..last + 1 /\ 0 \in 0..Cap
    BY <1>1
  <2>5. PrevOf(dlnk)[0] = c[last]
    BY <2>1, <2>3, <2>4
  <2>6. t = c[last]
    BY <2>4, <2>5 DEF PrevOf
  <2>7. c[last] # 0 /\ c[last] \in 0..last
    BY <2>1, <2>2, <2>4
  <2> QED BY <1>1, <2>6, <2>7
<1>3. dlnk' \in Links /\ InOrder(ToFront(c, last, last))'
  BY <1>0, <1>1, <1>2, MovedToHead
<1>4. x \in Entry /\ x.k = k
  BY DEF Entry
<1> HIDE DEF t, x
<1>5. m[t] \in Entry /\ m[t].k \in Keys /\ hmap[m[t].k] = t /\ m[t].k # k /\ t # 0
  BY <1>0, <1>1, <1>2, SlabFacts
<1>6. /\ m' \in [Nodes -> Entry \cup {NoEntry}]
      /\ \A i \in 1..last : m'[i] = IF i = t THEN x ELSE m[i]
  BY <1>0, <1>1, <1>2, <1>4
<1>7. /\ hmap' \in [Keys -> 0..Cap]
      /\ \A i \in Keys : hmap'[i] = IF i = k THEN t ELSE IF i = m[t].k THEN 0 ELSE hmap[i]
  <2>1. t \in 0..Cap /\ 0 \in 0..Cap
    BY <1>0, <1>1, <1>2
  <2> QED BY <1>0, <1>1, <1>5, <2>1
<1>8. reported' \in (Keys \X Vals) \cup {None}
  <2>1. <<m[t].k, m[t].v>> \in Keys \X Vals
    BY <1>5 DEF Entry
  <2> QED BY <1>0, <2>1
<1>9. TypeOK'
  BY <1>0, <1>1, <1>3, <1>6, <1>7, <1>8 DEF TypeOK, Links, Entry
<1>10. \A i \in 1..last : m'[i] \in Entry
  BY <1>4, <1>6, SlabFacts
<1>11. \A i \in Keys : hmap'[i] \in 0..last
  BY <1>0, <1>7
<1>12. \A i \in Keys : hmap'[i] # 0 => m'[hmap'[i]].k = i
  <2> SUFFICES ASSUME NEW i \in Keys, hmap'[i] # 0 PROVE m'[hmap'[i]].k = i
    OBVIOUS
  <2>1. CASE i = k
    BY <2>1, <1>2, <1>4, <1>6, <1>7
  <2>2. CASE i # k
    <3>1. hmap'[i] = hmap[i] /\ i # m[t].k /\ hmap[i] # 0
      BY <2>2, <1>7
    <3>2. hmap[i] \in 1..last /\ m[hmap[i]].k = i
      BY <3>1, SlabFacts
    <3> QED BY <3>1, <3>2, <1>6
  <2> QED BY <2>1, <2>2
<1>13. \A i \in 1..last : hmap'[m'[i].k] = i
  <2> SUFFICES ASSUME NEW i \in 1..last PROVE hmap'[m'[i].k] = i
    OBVIOUS
  <2>1. CASE i = t
    BY <2>1, <1>4, <1>6, <1>7
  <2>2. CASE i # t
    <3>1. m'[i] = m[i] /\ m[i].k \in Keys /\ hmap[m[i].k] = i
      BY <2>2, <1>6, SlabFacts
    <3>2. m[i].k # m[t].k /\ m[i].k # k
      BY <3>1, <2>2, <1>0, <1>5
    <3> QED BY <3>1, <3>2, <1>7
  <2> QED BY <2>1, <2>2
<1>14. SlabInv'
  BY <1>0, <1>3, <1>9, <1>10, <1>11, <1>12, <1>13 DEF SlabInv, MapMatchesNodes, Absent
<1> QED
  BY <1>0, <1>1, <1>2, <1>3, <1>6, <1>14 DEF t, x

LEMMA PutFreshEffect ==
  ASSUME SlabInv, NEW k \in Keys, NEW v \in Vals, NEW e \in Times, PutFresh(k, v, e),
         NEW c, InOrder(c)
  PROVE  /\ SlabInv' /\ last' = last + 1 /\ last < Cap
         /\ Circle(NextOf(dlnk'), PrevOf(dlnk'), last + 1, Grown(c, last))
         /\ \A i \in 1..last + 1 :
              m'[i] = IF i = last + 1 THEN [k |-> k, v |-> v, e |-> e] ELSE m[i]
<1> DEFINE n == last + 1
           x == [k |-> k, v |-> v, e |-> e]
           d == IF \A j \in Keys : hmap[j] = Absent
                  THEN [dlnk EXCEPT ![0].p = n]
                  ELSE [dlnk EXCEPT ![dlnk[0].n].p = n]
           d1 == [dlnk EXCEPT ![dlnk[0].n].p = n]
<1>0. /\ hmap[k] = 0 /\ last # Cap /\ last' = n /\ m' = [m EXCEPT ![n] = x]
      /\ dlnk' = [d EXCEPT ![n] = [p |-> 0, n |-> d[0].n], ![0].n = n]
      /\ hmap' = [hmap EXCEPT ![k] = n] /\ reported' = None
  BY DEF PutFresh, Absent
<1>1. /\ Cap \in Nat \ {0} /\ last \in 0..Cap - 1 /\ last \in Nat /\ dlnk \in Links
      /\ hmap \in [Keys -> 0..Cap] /\ m \in [Nodes -> Entry \cup {NoEntry}]
      /\ n \in 1..Cap /\ n \in Nodes /\ 1..last \subseteq Nodes
  BY <1>0, SlabFacts DEF Nodes
<1>2. d = d1
  <2> SUFFICES ASSUME \A j \in Keys : hmap[j] = Absent PROVE dlnk[0].n = 0
    OBVIOUS
  <2>1. last = 0
    <3> SUFFICES ASSUME last # 0 PROVE FALSE
      OBVIOUS
    <3>1. 1 \in 1..last
      BY <1>1
    <3>2. m[1].k \in Keys /\ hmap[m[1].k] = 1
      BY <3>1, SlabFacts
    <3> QED BY <3>2 DEF Absent
  <2>2. c[0] = 0 /\ c[last + 1] = 0
    BY DEF InOrder, Circle
  <2>3. \A i \in 0..last : NextOf(dlnk)[c[i]] = c[i + 1]
    BY DEF InOrder, Circle
  <2>4. 0 \in 0..last /\ 0 + 1 = last + 1 /\ 0 \in 0..Cap
    BY <1>1, <2>1
  <2>5. NextOf(dlnk)[0] = 0
    BY <2>2, <2>3, <2>4
  <2> QED BY <2>4, <2>5 DEF NextOf
<1>3. /\ dlnk' \in Links /\ \E b : InOrder(b)'
      /\ Circle(NextOf(dlnk'), PrevOf(dlnk'), n, Grown(c, last))
  <2>1. dlnk' = [d1 EXCEPT ![n] = [p |-> 0, n |-> d1[0].n], ![0].n = n]
    BY <1>0, <1>2
  <2>2. Circle(NextOf(dlnk), PrevOf(dlnk), last, c)
    BY DEF InOrder
  <2>3. dlnk' \in Links /\ Circle(NextOf(dlnk'), PrevOf(dlnk'), n, Grown(c, last))
    BY <1>1, <2>1, <2>2, HeadAdded
  <2> QED BY <1>0, <2>3 DEF InOrder
<1>4. x \in Entry /\ x.k = k
  BY DEF Entry
<1>5. /\ n = last + 1 /\ \A i \in 1..n : i = n \/ (i \in 1..last /\ i # n)
      /\ \A i \in 1..last : i # n /\ i \in 1..n /\ i # 0
  BY <1>1
<1> HIDE DEF n, x, d, d1
<1>6. /\ m' \in [Nodes -> Entry \cup {NoEntry}]
      /\ \A i \in 1..n : m'[i] = IF i = n THEN x ELSE m[i]
  BY <1>0, <1>1, <1>4, <1>5
<1>7. /\ hmap' \in [Keys -> 0..Cap]
      /\ \A i \in Keys : hmap'[i] = IF i = k THEN n ELSE hmap[i]
  BY <1>0, <1>1
<1>8. TypeOK'
  <2>1. n \in 0..Cap
    BY <1>1
  <2> QED BY <1>0, <1>3, <1>6, <1>7, <2>1 DEF TypeOK, Links, Entry
<1>9. \A i \in 1..n : m'[i] \in Entry
  BY <1>4, <1>5, <1>6, SlabFacts
<1>10. \A i \in Keys : hmap'[i] \in 0..n
  <2>1. \A i \in Keys : hmap[i] \in 0..last
    BY DEF SlabInv
  <2>2. n \in 0..n /\ 0..last \subseteq 0..n
    BY <1>1, <1>5
  <2> QED BY <1>7, <2>1, <2>2
<1>11. \A i \in Keys : hmap'[i] # 0 => m'[hmap'[i]].k = i
  <2> SUFFICES ASSUME NEW i \in Keys, hmap'[i] # 0 PROVE m'[hmap'[i]].k = i
    OBVIOUS
  <2>1. CASE i = k
    <3>1. n \in 1..n
      BY <1>1
    <3> QED BY <2>1, <3>1, <1>4, <1>6, <1>7
  <2>2. CASE i # k
    <3>1. hmap'[i] = hmap[i] /\ hmap[i] # 0
      BY <2>2, <1>7
    <3>2. hmap[i] \in 1..last /\ m[hmap[i]].k = i
      BY <3>1, SlabFacts
    <3> QED BY <3>1, <3>2, <1>5, <1>6
  <2> QED BY <2>1, <2>2
<1>12. \A i \in 1..n : hmap'[m'[i].k] = i
  <2> SUFFICES ASSUME NEW i \in 1..n PROVE hmap'[m'[i].k] = i
    OBVIOUS
  <2>1. CASE i = n
    BY <2>1, <1>4, <1>6, <1>7
  <2>2. CASE i \in 1..last /\ i # n
    <3>1. m'[i] = m[i] /\ m[i].k \in Keys /\ hmap[m[i].k] = i
      BY <2>2, <1>6, SlabFacts
    <3>2. m[i].k # k
      BY <3>1, <2>2, <1>0, <1>5
    <3> QED BY <3>1, <3>2, <1>7
  <2> QED BY <2>1, <2>2, <1>5
<1>13. SlabInv'
  BY <1>0, <1>3, <1>8, <1>9, <1>10, <1>11, <1>12 DEF SlabInv, MapMatchesNodes, Absent
<1>14. last < Cap
  BY <1>1
<1> QED
  BY <1>0, <1>3, <1>5, <1>6, <1>13, <1>14 DEF x

(* Every operation keeps the invariant.                                    *)
LEMMA NextKeepsSlabInv == SlabInv /\ [Next]_vars => SlabInv'
<1> SUFFICES ASSUME SlabInv, [Next]_vars PROVE SlabInv'
  OBVIOUS
<1>0. PICK c : InOrder(c)
  BY DEF SlabInv
<1>1. ASSUME NEW k \in Keys, hmap[k] # 0 PROVE \E j \in 1..last : c[j] = hmap[k]
  BY <1>0, <1>1, SlabFacts, Placed
<1>2. ASSUME NEW k \in Keys, NEW v \in Vals, NEW e \in Times, put(k, v, e) PROVE SlabInv'
  <2>1. CASE PutExisting(k, v, e)
    <3>1. PICK j \in 1..last : c[j] = hmap[k]
      BY <1>1, <2>1 DEF PutExisting, Absent
    <3> QED BY <1>0, <2>1, <3>1, PutExistingEffect
  <2>2. CASE PutReusing(k, v, e)
    BY <1>0, <2>2, PutReusingEffect
  <2>3. CASE PutFresh(k, v, e)
    BY <1>0, <2>3, PutFreshEffect
  <2> QED BY <1>2, <2>1, <2>2, <2>3 DEF put
<1>3. ASSUME NEW k \in Keys, get(k) PROVE SlabInv'
  <2>1. PICK j \in 1..last : c[j] = hmap[k]
    BY <1>1, <1>3 DEF get, Absent
  <2> QED BY <1>0, <1>3, <2>1, GetEffect
<1>4. ASSUME NEW k \in Keys, del(k) PROVE SlabInv'
  <2>1. PICK j \in 1..last : c[j] = hmap[k]
    BY <1>1, <1>4 DEF del, Absent
  <2> QED BY <1>0, <1>4, <2>1, DelEffect
<1>5. CASE UNCHANGED vars
  BY <1>5 DEF vars, SlabInv, TypeOK, MapMatchesNodes, InOrder
<1> QED
  BY <1>2, <1>3, <1>4, <1>5 DEF Next

(* Types, hmap against the nodes, and the one circle of links hold after   *)
(* every sequence of put, get and del (lru2.go:305-384).                   *)
THEOREM SlabInvariance == Spec => []SlabInv
<1> QED
  BY InitSlabInv, NextKeepsSlabInv, PTL DEF Spec

(* hmap and the nodes name each other in every reachable state: when put   *)
(* takes the tail's node, the old key is gone from hmap as the new one goes*)
(* in (lru2.go:305-333).                                                   *)
THEOREM MapMatches == Spec => []MapMatchesNodes
<1>1. SlabInv => MapMatchesNodes
  BY DEF SlabInv
<1> QED
  BY <1>1, SlabInvariance, PTL

-----------------------------------------------------------------------------
(* A set of numbers has a least one: two walks are compared up to the      *)
(* first place where they differ.                                          *)
LEMMA LeastElement ==
  ASSUME NEW T \in SUBSET Nat, T # {}
  PROVE  \E x \in T : \A y \in T : x <= y
<1>1. IsWellFoundedOn(OpToRel(<, Nat), Nat)
  BY NatLessThanWellFounded
<1>2. OpToRel(<, Nat) = {ss \in Nat \X Nat : ss[1] < ss[2]}
  BY DEF OpToRel
<1>3. PICK x \in T : \A y \in T : ~(<<y, x>> \in OpToRel(<, Nat))
  BY <1>1, WFMin
<1>4. ASSUME NEW y \in T PROVE x <= y
  <2>1. x \in Nat /\ y \in Nat
    OBVIOUS
  <2>2. ~(y < x)
    BY <1>2, <1>3, <2>1
  <2> QED BY <2>1, <2>2
<1> QED BY <1>3, <1>4

(* Two sequences of nodes that start at the same node and go on the same   *)
(* way are the same.                                                       *)
LEMMA SameWalk ==
  ASSUME NEW l \in Nat, NEW w, NEW c,
         \A i \in 1..l : (i = 1 \/ w[i - 1] = c[i - 1]) => w[i] = c[i]
  PROVE  \A i \in 1..l : w[i] = c[i]
<1> DEFINE T == {i \in 1..l : w[i] # c[i]}
<1> SUFFICES ASSUME T # {} PROVE FALSE
  OBVIOUS
<1>1. T \in SUBSET Nat
  OBVIOUS
<1>2. PICK i \in T : \A y \in T : i <= y
  <2> HIDE DEF T
  <2> QED BY <1>1, LeastElement
<1>3. i # 1 /\ i \in 1..l
  OBVIOUS
<1>4. i - 1 \in 1..l /\ ~(i <= i - 1)
  BY <1>3
<1>5. w[i - 1] = c[i - 1]
  BY <1>2, <1>4
<1> QED BY <1>3, <1>5

(* The walk from one end visits the nodes along that end's links.          *)
LEMMA WalkFollows ==
  ASSUME SlabInv, NEW link \in {"n", "p"},
         NEW b, b \in [0..last + 1 -> 0..last], b[0] = 0,
         \A i \in 0..last : dlnk[b[i]][link] = b[i + 1]
  PROVE  WalkFrom(link) = [i \in 1..last |-> b[i]]
<1> DEFINE F(w) == w = [i \in 1..last |-> IF i = 1 THEN dlnk[0][link]
                                                 ELSE dlnk[w[i - 1]][link]]
           b1 == [i \in 1..last |-> b[i]]
           w0 == WalkFrom(link)
<1>1. w0 = CHOOSE w : F(w)
  BY DEF WalkFrom
<1>2. /\ last \in Nat /\ 1 - 1 = 0
      /\ \A i \in 1..last : i - 1 \in 0..last /\ (i - 1) + 1 = i
                           /\ (i # 1 => i - 1 \in 1..last)
  BY SlabFacts
<1>3. \A i \in 1..last : dlnk[b[i - 1]][link] = b[i]
  BY <1>2
<1>4. F(b1)
  BY <1>2, <1>3
<1>5. F(w0)
  <2> HIDE DEF F, w0, b1
  <2> QED BY <1>1, <1>4
<1>6. /\ w0 = [i \in 1..last |-> w0[i]]
      /\ \A i \in 1..last : w0[i] = IF i = 1 THEN dlnk[0][link] ELSE dlnk[w0[i - 1]][link]
  <2> HIDE DEF w0
  <2> QED BY <1>5
<1> HIDE DEF w0, b1, F
<1>7. ASSUME NEW i \in 1..last, i = 1 \/ w0[i - 1] = b[i - 1] PROVE w0[i] = b[i]
  <2>1. CASE i = 1
    <3>1. w0[1] = dlnk[0][link] /\ b[1] = dlnk[b[0]][link]
      BY <2>1, <1>2, <1>3, <1>6
    <3> QED BY <2>1, <3>1
  <2>2. CASE i # 1
    BY <2>2, <1>3, <1>6, <1>7
  <2> QED BY <2>1, <2>2
<1>8. \A i \in 1..last : w0[i] = b[i]
  <2>1. \A i \in 1..last : (i = 1 \/ w0[i - 1] = b[i - 1]) => w0[i] = b[i]
    BY <1>7
  <2> QED BY ONLY <1>2, <2>1, SameWalk
<1> QED
  BY <1>6, <1>8 DEF w0

(* From the head on the walk meets the nodes in order, from the tail on in *)
(* the opposite order.                                                     *)
LEMMA Walks ==
  ASSUME SlabInv, NEW c, InOrder(c)
  PROVE  /\ WalkFrom("n") = [i \in 1..last |-> c[i]]
         /\ WalkFrom("p") = [i \in 1..last |-> c[last + 1 - i]]
<1>1. ASSUME NEW b, NEW fw, NEW bw, Circle(fw, bw, last, b)
      PROVE  /\ b \in [0..last + 1 -> 0..last] /\ b[0] = 0
             /\ \A i \in 0..last : fw[b[i]] = b[i + 1] /\ b[i] \in 0..Cap
  <2>1. b \in [0..last + 1 -> 0..last] /\ b[0] = 0
    BY <1>1 DEF Circle
  <2>2. \A i \in 0..last : fw[b[i]] = b[i + 1]
    BY <1>1 DEF Circle
  <2>3. \A i \in 0..last : b[i] \in 0..Cap
    BY <2>1, SlabFacts
  <2> QED BY <2>1, <2>2, <2>3
<1>2. WalkFrom("n") = [i \in 1..last |-> c[i]]
  <2>1. /\ c \in [0..last + 1 -> 0..last] /\ c[0] = 0
        /\ \A i \in 0..last : NextOf(dlnk)[c[i]] = c[i + 1] /\ c[i] \in 0..Cap
    BY <1>1 DEF InOrder
  <2>2. \A i \in 0..last : dlnk[c[i]]["n"] = c[i + 1]
    BY <2>1 DEF NextOf
  <2>3. "n" \in {"n", "p"}
    OBVIOUS
  <2> QED BY <2>1, <2>2, <2>3, WalkFollows
<1>3. WalkFrom("p") = [i \in 1..last |-> c[last + 1 - i]]
  <2> DEFINE b == Backwards(c, last)
  <2>1. Circle(PrevOf(dlnk), NextOf(dlnk), last, b)
    BY SlabFacts, CircleBackwards DEF InOrder
  <2>2. \A i \in 1..last : b[i] = c[last + 1 - i]
    BY SlabFacts DEF Backwards
  <2> HIDE DEF b
  <2>3. /\ b \in [0..last + 1 -> 0..last] /\ b[0] = 0
        /\ \A i \in 0..last : PrevOf(dlnk)[b[i]] = b[i + 1] /\ b[i] \in 0..Cap
    BY <1>1, <2>1
  <2>4. \A i \in 0..last : dlnk[b[i]]["p"] = b[i + 1]
    BY <2>3 DEF PrevOf
  <2>5. WalkFrom("p") = [i \in 1..last |-> b[i]]
    BY <2>3, <2>4, WalkFollows
  <2> QED BY <2>2, <2>5
<1> QED
  BY <1>2, <1>3

(* The list reads the same from both ends: after any moves by adjust the   *)
(* tail that put evicts is the last entry walk shows.                      *)
THEOREM SameFromBothEnds == Spec => []BothWaysAgree
<1>1. SlabInv => BothWaysAgree
  <2> SUFFICES ASSUME SlabInv PROVE BothWaysAgree
    OBVIOUS
  <2>1. PICK c : InOrder(c)
    BY DEF SlabInv
  <2>2. \A i \in 1..last : last + 1 - i \in 1..last
    BY SlabFacts
  <2>3. /\ \A i \in 1..last : WalkFrom("n")[i] = c[i]
        /\ \A i \in 1..last : WalkFrom("p")[i] = c[last + 1 - i]
    BY <2>1, Walks
  <2> QED BY <2>2, <2>3 DEF BothWaysAgree
<1> QED
  BY <1>1, SlabInvariance, PTL

(* The list walk shows: entry i is the node at place i.                    *)
ListShows(c) ==
  /\ Listed \in Seq(Entry) /\ Len(Listed) = last
  /\ \A i \in 1..last : c[i] \in 1..last /\ Listed[i] = m[c[i]]

ShowsOrder == \A c : SlabInv /\ InOrder(c) => ListShows(c)
(* ShowsOrder holds in every state, so in the next one too.                *)
LEMMA ListedInOrder == ShowsOrder
<1> SUFFICES ASSUME NEW c, SlabInv, InOrder(c) PROVE ListShows(c)
  BY DEF ShowsOrder
<1>1. last \in Nat /\ \A i \in 1..last : m[i] \in Entry
  BY SlabFacts
<1>2. \A i \in 1..last : c[i] \in 1..last
  <2>1. c \in [0..last + 1 -> 0..last] /\ c[0] = 0
    BY DEF InOrder, Circle
  <2>2. \A i, j \in 0..last : c[i] = c[j] => i = j
    BY DEF InOrder, Circle
  <2> QED BY <1>1, <2>1, <2>2
<1>3. Listed = [i \in 1..last |-> m[c[i]]]
  BY <1>1, <1>2, Walks DEF Listed
<1>4. Listed \in Seq(Entry)
  BY <1>1, <1>2, <1>3
<1>5. Len(Listed) = last
  BY <1>1, <1>3, <1>4, LenProperties
<1> QED
  BY <1>2, <1>3, <1>4, <1>5 DEF ListShows

LEMMA ListedInOrderNext ==
  ASSUME SlabInv', NEW c, InOrder(c)' 
  PROVE ListShows(c)'
<1>1. ShowsOrder'
  BY ListedInOrder, PTL
<1> QED
  BY <1>1 DEF ShowsOrder

-----------------------------------------------------------------------------
(* The elements of a part of a sequence, and of one with an entry removed. *)
LEMMA SubSeqElements ==
  ASSUME NEW E, NEW s \in Seq(E), NEW a \in 1..Len(s) + 1, NEW b \in a - 1..Len(s)
  PROVE  LET r == SubSeq(s, a, b) IN
         /\ r \in Seq(E) /\ Len(r) = b - a + 1
         /\ \A i \in 1..b - a + 1 : r[i] = s[a + i - 1]
<1>0. Len(s) \in Nat /\ \A i \in 1..Len(s) : s[i] \in E
  BY LenProperties
<1>1. a \in Int /\ b \in Int /\ \A i \in a..b : s[i] \in E
  BY <1>0
<1>2. /\ SubSeq(s, a, b) \in Seq(E)
      /\ Len(SubSeq(s, a, b)) = IF a <= b THEN b - a + 1 ELSE 0
      /\ \A i \in 1..b - a + 1 : SubSeq(s, a, b)[i] = s[a + i - 1]
  BY <1>1, SubSeqProperties
<1> QED
  BY <1>0, <1>2

LEMMA TakenOut ==
  ASSUME NEW E, NEW s \in Seq(E), NEW p \in 1..Len(s)
  PROVE  LET r == Abs!RemoveAt(s, p) IN
         /\ r \in Seq(E) /\ Len(r) = Len(s) - 1
         /\ \A i \in 1..Len(s) - 1 : r[i] = IF i < p THEN s[i] ELSE s[i + 1]
<1> DEFINE a == SubSeq(s, 1, p - 1)
           b == SubSeq(s, p + 1, Len(s))
<1>0. Len(s) \in Nat /\ p \in Nat
  BY LenProperties
<1>1. a \in Seq(E) /\ Len(a) = p - 1 /\ \A i \in 1..p - 1 : a[i] = s[i]
  <2>1. 1 \in 1..Len(s) + 1 /\ p - 1 \in 1 - 1..Len(s) /\ p - 1 - 1 + 1 = p - 1
    BY <1>0
  <2>2. \A i \in 1..p - 1 : 1 + i - 1 = i
    BY <1>0
  <2> QED BY <2>1, <2>2, SubSeqElements
<1>2. b \in Seq(E) /\ Len(b) = Len(s) - p /\ \A i \in 1..Len(s) - p : b[i] = s[p + i]
  <2>1. /\ p + 1 \in 1..Len(s) + 1 /\ Len(s) \in (p + 1) - 1..Len(s)
        /\ Len(s) - (p + 1) + 1 = Len(s) - p
    BY <1>0
  <2>2. /\ b \in Seq(E) /\ Len(b) = Len(s) - (p + 1) + 1
        /\ \A i \in 1..Len(s) - (p + 1) + 1 : b[i] = s[(p + 1) + i - 1]
    BY <2>1, SubSeqElements
  <2> HIDE DEF b
  <2>3. \A i \in 1..Len(s) - p : (p + 1) + i - 1 = p + i
    BY <1>0
  <2> QED BY <2>1, <2>2, <2>3
<1>3. Abs!RemoveAt(s, p) = a \o b
  BY DEF Abs!RemoveAt
<1> HIDE DEF a, b
<1>4. /\ a \o b \in Seq(E) /\ Len(a \o b) = Len(a) + Len(b)
      /\ \A i \in 1..Len(a) + Len(b) :
           (a \o b)[i] = IF i <= Len(a) THEN a[i] ELSE b[i - Len(a)]
  BY <1>1, <1>2, ConcatProperties
<1>5. ASSUME NEW i \in 1..Len(s) - 1
      PROVE  (a \o b)[i] = IF i < p THEN s[i] ELSE s[i + 1]
  <2>1. CASE i < p
    BY <2>1, <1>0, <1>1, <1>2, <1>4
  <2>2. CASE ~(i < p)
    <3>1. (a \o b)[i] = b[i - (p - 1)]
      BY <2>2, <1>0, <1>1, <1>2, <1>4
    <3>2. i - (p - 1) \in 1..Len(s) - p /\ p + (i - (p - 1)) = i + 1
      BY <2>2, <1>0
    <3> QED BY <3>1, <3>2, <1>2, <2>2
  <2> QED BY <2>1, <2>2
<1> QED
  BY <1>0, <1>1, <1>2, <1>3, <1>4, <1>5

(* x in front of s.                                                        *)
LEMMA InFront ==
  ASSUME NEW E, NEW s \in Seq(E), NEW x \in E, NEW r \in Seq(E),
         Len(r) = Len(s) + 1, r[1] = x, \A i \in 1..Len(s) : r[i + 1] = s[i]
  PROVE  r = <<x>> \o s
<1> DEFINE q == <<x>> \o s
<1>0. Len(s) \in Nat /\ <<x>> \in Seq(E) /\ Len(<<x>>) = 1 /\ <<x>>[1] = x
  BY LenProperties
<1>1. /\ q \in Seq(E) /\ Len(q) = 1 + Len(s)
      /\ \A i \in 1..1 + Len(s) : q[i] = IF i <= 1 THEN <<x>>[i] ELSE s[i - 1]
  BY <1>0, ConcatProperties
<1> HIDE DEF q
<1>2. ASSUME NEW i \in 1..Len(s) + 1 PROVE q[i] = r[i]
  <2>1. CASE i = 1
    BY <2>1, <1>0, <1>1
  <2>2. CASE i # 1
    <3>1. i - 1 \in 1..Len(s) /\ (i - 1) + 1 = i /\ ~(i <= 1) /\ i \in 1..1 + Len(s)
      BY <2>2, <1>0
    <3> QED BY <3>1, <1>1
  <2> QED BY <2>1, <2>2
<1>3. Len(q) = Len(r)
  BY <1>0, <1>1
<1>4. q = r
  BY <1>1, <1>2, <1>3, SeqEqual
<1> QED BY <1>4 DEF q

(* The entry at p moved to the front and replaced by x.                    *)
LEMMA MovedToFront ==
  ASSUME NEW E, NEW s \in Seq(E), NEW p \in 1..Len(s), NEW x \in E, NEW r \in Seq(E),
         Len(r) = Len(s), r[1] = x,
         \A i \in 2..Len(s) : r[i] = IF i <= p THEN s[i - 1] ELSE s[i]
  PROVE  r = <<x>> \o Abs!RemoveAt(s, p)
<1> DEFINE q == Abs!RemoveAt(s, p)
<1>0. Len(s) \in Nat /\ p \in Nat
  BY LenProperties
<1>1. /\ q \in Seq(E) /\ Len(q) = Len(s) - 1
      /\ \A i \in 1..Len(s) - 1 : q[i] = IF i < p THEN s[i] ELSE s[i + 1]
  BY TakenOut
<1> HIDE DEF q
<1>2. ASSUME NEW i \in 1..Len(q) PROVE r[i + 1] = q[i]
  <2>1. i + 1 \in 2..Len(s) /\ (i + 1) - 1 = i /\ (i + 1 <= p <=> i < p)
    BY <1>0, <1>1
  <2> QED BY <2>1, <1>1
<1>3. Len(r) = Len(q) + 1
  BY <1>0, <1>1
<1>4. r = <<x>> \o q
  BY <1>1, <1>2, <1>3, InFront
<1> QED BY <1>4 DEF q

(* The entry at p moved to the end and replaced by x.                      *)
LEMMA MovedToEnd ==
  ASSUME NEW E, NEW s \in Seq(E), NEW p \in 1..Len(s), NEW x \in E, NEW r \in Seq(E),
         Len(r) = Len(s), r[Len(s)] = x,
         \A i \in 1..Len(s) - 1 : r[i] = IF i < p THEN s[i] ELSE s[i + 1]
  PROVE  r = Append(Abs!RemoveAt(s, p), x)
<1> DEFINE q == Abs!RemoveAt(s, p)
           z == Append(q, x)
<1>0. Len(s) \in Nat /\ p \in Nat
  BY LenProperties
<1>1. /\ q \in Seq(E) /\ Len(q) = Len(s) - 1
      /\ \A i \in 1..Len(s) - 1 : q[i] = IF i < p THEN s[i] ELSE s[i + 1]
  BY TakenOut
<1> HIDE DEF q
<1>2. /\ z \in Seq(E) /\ Len(z) = Len(q) + 1 /\ z[Len(q) + 1] = x
      /\ \A i \in 1..Len(q) : z[i] = q[i]
  BY <1>1, AppendProperties
<1> HIDE DEF z
<1>3. ASSUME NEW i \in 1..Len(s) PROVE z[i] = r[i]
  <2>1. Len(q) + 1 = Len(s) /\ (i = Len(s) \/ i \in 1..Len(s) - 1)
    BY <1>0, <1>1
  <2>2. CASE i = Len(s)
    BY <2>1, <2>2, <1>2
  <2>3. CASE i \in 1..Len(s) - 1
    BY <2>3, <1>1, <1>2
  <2> QED BY <2>1, <2>2, <2>3
<1>4. Len(z) = Len(r)
  BY <1>0, <1>1, <1>2
<1>5. z = r
  BY <1>2, <1>3, <1>4, SeqEqual
<1> QED BY <1>5 DEF z, q

(* The list shows a key once, exactly when hmap has a node for it.         *)
LEMMA KeysShown ==
  ASSUME SlabInv, NEW c, InOrder(c)
  PROVE  /\ \A k \in Keys : k \in Abs!KeysIn(Listed) <=> hmap[k] # 0
         /\ \A j \in 1..last : /\ m[c[j]].k \in Abs!KeysIn(Listed)
                               /\ Abs!PlaceOf(Listed, m[c[j]].k) = j
                               /\ Abs!EntryOf(Listed, m[c[j]].k) = m[c[j]]
<1>1. /\ Listed \in Seq(Entry) /\ Len(Listed) = last
      /\ \A i \in 1..last : c[i] \in 1..last /\ Listed[i] = m[c[i]]
  BY ListedInOrder DEF ShowsOrder, ListShows
<1>2. last \in Nat /\ DOMAIN Listed = 1..last
  BY <1>1, SlabFacts, LenProperties
<1>3. ASSUME NEW i \in 1..last, NEW j \in 1..last, Listed[i].k = Listed[j].k PROVE i = j
  <2>1. c[i] = c[j]
    BY <1>1, <1>3, SlabFacts
  <2>2. \A x, y \in 0..last : c[x] = c[y] => x = y
    BY DEF InOrder, Circle
  <2>3. i \in 0..last /\ j \in 0..last
    BY <1>2
  <2> QED BY <2>1, <2>2, <2>3
<1>4. ASSUME NEW k \in Keys PROVE k \in Abs!KeysIn(Listed) <=> hmap[k] # 0
  <2>1. ASSUME k \in Abs!KeysIn(Listed) PROVE hmap[k] # 0
    <3>1. PICK i \in 1..last : Listed[i].k = k
      BY <1>2, <2>1 DEF Abs!KeysIn
    <3>2. hmap[k] = c[i] /\ c[i] \in 1..last
      BY <1>1, <3>1, SlabFacts
    <3> QED BY <1>2, <3>2
  <2>2. ASSUME hmap[k] # 0 PROVE k \in Abs!KeysIn(Listed)
    <3>1. hmap[k] \in 1..last /\ m[hmap[k]].k = k
      BY <2>2, SlabFacts
    <3>2. PICK j \in 1..last : c[j] = hmap[k]
      BY <3>1, Placed
    <3>3. Listed[j].k = k
      BY <1>1, <3>1, <3>2
    <3> QED BY <1>2, <3>3 DEF Abs!KeysIn
  <2> QED BY <2>1, <2>2
<1>5. ASSUME NEW j \in 1..last
      PROVE  /\ m[c[j]].k \in Abs!KeysIn(Listed)
             /\ Abs!PlaceOf(Listed, m[c[j]].k) = j
             /\ Abs!EntryOf(Listed, m[c[j]].k) = m[c[j]]
  <2>1. Listed[j] = m[c[j]] /\ Listed[j].k \in Abs!KeysIn(Listed)
    BY <1>1, <1>2 DEF Abs!KeysIn
  <2>2. /\ Abs!PlaceOf(Listed, Listed[j].k) \in 1..last
        /\ Listed[Abs!PlaceOf(Listed, Listed[j].k)].k = Listed[j].k
    BY <1>2 DEF Abs!PlaceOf
  <2>3. Abs!PlaceOf(Listed, Listed[j].k) = j
    BY <1>3, <2>2
  <2> QED BY <2>1, <2>3 DEF Abs!EntryOf
<1> QED
  BY <1>4, <1>5

(* A node put at the head is its entry put in front of the others.         *)
LEMMA HeadIsFront ==
  ASSUME SlabInv, NEW c, InOrder(c), NEW j \in 1..last, NEW x \in Entry,
         SlabInv', last' = last, InOrder(ToFront(c, last, j))',
         \A i \in 1..last : m'[i] = IF i = c[j] THEN x ELSE m[i]
  PROVE  Listed' = <<x>> \o Abs!RemoveAt(Listed, j)
<1> DEFINE b == ToFront(c, last, j)
<1>1. /\ Listed \in Seq(Entry) /\ Len(Listed) = last
      /\ \A i \in 1..last : c[i] \in 1..last /\ Listed[i] = m[c[i]]
  BY ListedInOrder DEF ShowsOrder, ListShows
<1>2. /\ Listed' \in Seq(Entry) /\ Len(Listed') = last
      /\ \A i \in 1..last : Listed'[i] = m'[b[i]]
  <2>1. InOrder(b)'
    OBVIOUS
  <2>2. ListShows(b)'
    <3> HIDE DEF b
    <3> QED BY <2>1, ListedInOrderNext
  <2> QED BY <2>2 DEF ListShows
<1>3. last \in Nat
  BY SlabFacts
<1>4. b[1] = c[j] /\ \A i \in 2..last : b[i] = IF i <= j THEN c[i - 1] ELSE c[i]
  BY <1>3 DEF ToFront
<1>5. \A i, h \in 1..last : c[i] = c[h] => i = h
  BY <1>3 DEF InOrder, Circle
<1> HIDE DEF b
<1>6. Listed'[1] = x
  BY <1>1, <1>2, <1>3, <1>4
<1>7. ASSUME NEW i \in 2..last
      PROVE  Listed'[i] = IF i <= j THEN Listed[i - 1] ELSE Listed[i]
  <2> DEFINE h == IF i <= j THEN i - 1 ELSE i
  <2>1. h \in 1..last /\ h # j /\ b[i] = c[h]
    BY <1>3, <1>4
  <2>2. Listed'[i] = m'[c[h]]
    BY <1>2, <1>3, <2>1
  <2>3. m'[c[h]] = m[c[h]] /\ Listed[h] = m[c[h]]
    <3> HIDE DEF h
    <3> QED BY <1>1, <1>5, <2>1
  <2> QED BY <2>2, <2>3
<1> DEFINE s == Listed
           r == Listed'
<1>8. /\ s \in Seq(Entry) /\ r \in Seq(Entry) /\ j \in 1..Len(s) /\ Len(r) = Len(s)
      /\ r[1] = x /\ \A i \in 2..Len(s) : r[i] = IF i <= j THEN s[i - 1] ELSE s[i]
  BY <1>1, <1>2, <1>6, <1>7
<1> HIDE DEF s, r
<1>9. r = <<x>> \o Abs!RemoveAt(s, j)
  BY <1>8, MovedToFront
<1> QED BY <1>9 DEF s, r

(* A node put at the tail is its entry put behind the others.              *)
LEMMA TailIsEnd ==
  ASSUME SlabInv, NEW c, InOrder(c), NEW j \in 1..last, NEW x \in Entry,
         SlabInv', last' = last, InOrder(ToBack(c, last, j))',
         \A i \in 1..last : m'[i] = IF i = c[j] THEN x ELSE m[i]
  PROVE  Listed' = Append(Abs!RemoveAt(Listed, j), x)
<1> DEFINE b == ToBack(c, last, j)
<1>1. /\ Listed \in Seq(Entry) /\ Len(Listed) = last
      /\ \A i \in 1..last : c[i] \in 1..last /\ Listed[i] = m[c[i]]
  BY ListedInOrder DEF ShowsOrder, ListShows
<1>2. /\ Listed' \in Seq(Entry) /\ Len(Listed') = last
      /\ \A i \in 1..last : Listed'[i] = m'[b[i]]
  <2>1. InOrder(b)'
    OBVIOUS
  <2>2. ListShows(b)'
    <3> HIDE DEF b
    <3> QED BY <2>1, ListedInOrderNext
  <2> QED BY <2>2 DEF ListShows
<1>3. last \in Nat
  BY SlabFacts
<1>4. b[last] = c[j] /\ \A i \in 1..last - 1 : b[i] = IF i < j THEN c[i] ELSE c[i + 1]
  BY <1>3 DEF ToBack
<1>5. \A i, h \in 1..last : c[i] = c[h] => i = h
  BY <1>3 DEF InOrder, Circle
<1> HIDE DEF b
<1>6. Listed'[last] = x
  BY <1>1, <1>2, <1>3, <1>4
<1>7. ASSUME NEW i \in 1..last - 1
      PROVE  Listed'[i] = IF i < j THEN Listed[i] ELSE Listed[i + 1]
  <2> DEFINE h == IF i < j THEN i ELSE i + 1
  <2>1. h \in 1..last /\ h # j /\ b[i] = c[h]
    BY <1>3, <1>4
  <2>2. Listed'[i] = m'[c[h]]
    BY <1>2, <1>3, <2>1
  <2>3. m'[c[h]] = m[c[h]] /\ Listed[h] = m[c[h]]
    <3> HIDE DEF h
    <3> QED BY <1>1, <1>5, <2>1
  <2> QED BY <2>2, <2>3
<1> DEFINE s == Listed
           r == Listed'
<1>8. /\ s \in Seq(Entry) /\ r \in Seq(Entry) /\ j \in 1..Len(s) /\ Len(r) = Len(s)
      /\ r[Len(s)] = x
      /\ \A i \in 1..Len(s) - 1 : r[i] = IF i < j THEN s[i] ELSE s[i + 1]
  BY <1>1, <1>2, <1>6, <1>7
<1> HIDE DEF s, r
<1>9. r = Append(Abs!RemoveAt(s, j), x)
  BY <1>8, MovedToEnd
<1> QED BY <1>9 DEF s, r

-----------------------------------------------------------------------------
(* Each operation is the one of RecencyList.                               *)
LEMMA PutExistingIsPut ==
  ASSUME SlabInv, NEW k \in Keys, NEW v \in Vals, NEW e \in Times, PutExisting(k, v, e)
  PROVE  Abs!AbsPut(k, v, e)
<1> DEFINE x == [k |-> k, v |-> v, e |-> e]
<1>0. hmap[k] \in 1..last /\ m[hmap[k]].k = k /\ reported' = None
  BY SlabFacts DEF PutExisting, Absent
<1>1. PICK c : InOrder(c)
  BY DEF SlabInv
<1>2. PICK j \in 1..last : c[j] = hmap[k]
  BY <1>0, <1>1, Placed
<1>3. /\ SlabInv' /\ InOrder(ToFront(c, last, j))' /\ last' = last
      /\ \A i \in 1..last : m'[i] = IF i = c[j] THEN x ELSE m[i]
  BY <1>1, <1>2, PutExistingEffect
<1>4. x \in Entry /\ x.k = k
  BY DEF Entry
<1>5. k \in Abs!KeysIn(Listed) /\ Abs!PlaceOf(Listed, k) = j
  BY <1>0, <1>1, <1>2, KeysShown
<1> HIDE DEF x
<1>6. Listed' = <<x>> \o Abs!RemoveAt(Listed, j)
  BY <1>1, <1>3, <1>4, HeadIsFront
<1>7. Listed' = Abs!PutIn(Listed, Cap, x)
  BY <1>4, <1>5, <1>6 DEF Abs!PutIn, Abs!Pushes, Abs!Without
<1> QED
  BY <1>0, <1>5, <1>7 DEF Abs!AbsPut, Abs!Pushes, x

LEMMA GetIsGet ==
  ASSUME SlabInv, NEW k \in Keys, get(k)
  PROVE  Abs!AbsGet(k)
<1>0. /\ hmap[k] \in 1..last /\ m[hmap[k]].k = k
      /\ reported' = None /\ m' = m /\ last' = last
  BY SlabFacts DEF get, Absent
<1>1. PICK c : InOrder(c)
  BY DEF SlabInv
<1>2. PICK j \in 1..last : c[j] = hmap[k]
  BY <1>0, <1>1, Placed
<1>3. SlabInv' /\ InOrder(ToFront(c, last, j))'
  BY <1>1, <1>2, GetEffect
<1> DEFINE x == m[c[j]]
<1>4. x \in Entry /\ x.k = k /\ \A i \in 1..last : m'[i] = IF i = c[j] THEN x ELSE m[i]
  BY <1>0, <1>2, SlabFacts
<1>5. k \in Abs!KeysIn(Listed) /\ Abs!PlaceOf(Listed, k) = j /\ Abs!EntryOf(Listed, k) = x
  BY <1>0, <1>1, <1>2, KeysShown
<1> HIDE DEF x
<1>6. Listed' = <<x>> \o Abs!RemoveAt(Listed, j)
  BY <1>0, <1>1, <1>3, <1>4, HeadIsFront
<1>7. Listed' = Abs!GetFrom(Listed, k)
  BY <1>5, <1>6 DEF Abs!GetFrom, Abs!Without
<1> QED
  BY <1>0, <1>7 DEF Abs!AbsGet

LEMMA DelIsDel ==
  ASSUME SlabInv, NEW k \in Keys, del(k)
  PROVE  Abs!AbsDel(k)
<1>0. /\ hmap[k] \in 1..last /\ m[hmap[k]].k = k /\ m[hmap[k]].e > 0
      /\ reported' = None /\ last' = last
  BY SlabFacts DEF del, Absent
<1>1. PICK c : InOrder(c)
  BY DEF SlabInv
<1>2. PICK j \in 1..last : c[j] = hmap[k]
  BY <1>0, <1>1, Placed
<1> DEFINE y == m[c[j]]
           x == [y EXCEPT !.e = 0]
<1>3. /\ SlabInv' /\ InOrder(ToBack(c, last, j))'
      /\ \A i \in 1..last : m'[i] = IF i = c[j] THEN x ELSE m[i]
  <2>1. /\ SlabInv' /\ InOrder(ToBack(c, last, j))'
        /\ \A i \in 1..last : m'[i] = IF i = c[j] THEN [m[i] EXCEPT !.e = 0] ELSE m[i]
    BY <1>1, <1>2, DelEffect
  <2>2. [m[c[j]] EXCEPT !.e = 0] = x
    OBVIOUS
  <2> HIDE DEF x
  <2> QED BY <2>1, <2>2
<1>4. y \in Entry /\ y.k = k /\ y.e > 0
  BY <1>0, <1>2, SlabFacts
<1>5. /\ k \in Abs!KeysIn(Listed) /\ Abs!PlaceOf(Listed, k) = j
      /\ Abs!EntryOf(Listed, k) = y
  BY <1>0, <1>1, <1>2, KeysShown
<1> HIDE DEF y
<1>6. x \in Entry /\ y.e # 0
  BY <1>4, TimesAssumption DEF Entry
<1>7. Abs!DelFrom(Listed, k) = Append(Abs!RemoveAt(Listed, j), x)
  BY <1>5, <1>6 DEF Abs!DelFrom, Abs!HasLive, Abs!Live, Abs!Deleted, Abs!Without
<1> HIDE DEF x
<1>8. Listed' = Append(Abs!RemoveAt(Listed, j), x)
  BY <1>0, <1>1, <1>3, <1>6, TailIsEnd
<1> QED
  BY <1>0, <1>7, <1>8 DEF Abs!AbsDel

(* The list without its last entry.                                        *)
LEMMA LastOut ==
  ASSUME NEW E, NEW s \in Seq(E), Len(s) > 0
  PROVE  Abs!RemoveAt(s, Len(s)) = SubSeq(s, 1, Len(s) - 1)
<1> DEFINE q == Abs!RemoveAt(s, Len(s))
           z == SubSeq(s, 1, Len(s) - 1)
<1>0. Len(s) \in Nat /\ Len(s) \in 1..Len(s)
  BY LenProperties
<1>1. /\ q \in Seq(E) /\ Len(q) = Len(s) - 1
      /\ \A i \in 1..Len(s) - 1 : q[i] = s[i]
  <2>1. /\ q \in Seq(E) /\ Len(q) = Len(s) - 1
        /\ \A i \in 1..Len(s) - 1 : q[i] = IF i < Len(s) THEN s[i] ELSE s[i + 1]
    BY <1>0, TakenOut
  <2> HIDE DEF q
  <2> QED BY <1>0, <2>1
<1>2. /\ z \in Seq(E) /\ Len(z) = Len(s) - 1
      /\ \A i \in 1..Len(s) - 1 : z[i] = s[i]
  <2>1. /\ 1 \in 1..Len(s) + 1 /\ Len(s) - 1 \in 1 - 1..Len(s)
        /\ (Len(s) - 1) - 1 + 1 = Len(s) - 1
    BY <1>0
  <2>2. /\ z \in Seq(E) /\ Len(z) = (Len(s) - 1) - 1 + 1
        /\ \A i \in 1..(Len(s) - 1) - 1 + 1 : z[i] = s[1 + i - 1]
    BY <2>1, SubSeqElements
  <2> HIDE DEF z
  <2>3. \A i \in 1..Len(s) - 1 : 1 + i - 1 = i
    BY <1>0
  <2> QED BY <2>1, <2>2, <2>3
<1> HIDE DEF q, z
<1>3. q = z
  BY <1>1, <1>2, SeqEqual
<1> QED BY <1>3 DEF q, z

LEMMA PutReusingIsPut ==
  ASSUME SlabInv, NEW k \in Keys, NEW v \in Vals, NEW e \in Times, PutReusing(k, v, e)
  PROVE  Abs!AbsPut(k, v, e)
<1> DEFINE x == [k |-> k, v |-> v, e |-> e]
           t == dlnk[0].p
<1>0. /\ hmap[k] = 0
      /\ reported' = IF m[t].e > 0 THEN <<m[t].k, m[t].v>> ELSE None
  BY DEF PutReusing, Absent
<1>1. PICK c : InOrder(c)
  BY DEF SlabInv
<1>2. /\ last = Cap /\ last \in 1..last /\ t = c[last] /\ c[last] \in 1..last
      /\ SlabInv' /\ InOrder(ToFront(c, last, last))' /\ last' = last
      /\ \A i \in 1..last : m'[i] = IF i = c[last] THEN x ELSE m[i]
  BY <1>1, PutReusingEffect
<1>3. x \in Entry /\ x.k = k
  BY DEF Entry
<1>4. k \notin Abs!KeysIn(Listed)
  BY <1>0, <1>1, KeysShown
<1>5. /\ Listed \in Seq(Entry) /\ Len(Listed) = last
      /\ Listed[last] = m[t] /\ m[t] \in Entry
  <2>1. ListShows(c)
    BY <1>1, ListedInOrder DEF ShowsOrder
  <2> QED BY <1>2, <2>1, SlabFacts DEF ListShows
<1> HIDE DEF x, t
<1>6. Listed' = <<x>> \o Abs!RemoveAt(Listed, last)
  BY <1>1, <1>2, <1>3, HeadIsFront
<1>7. Abs!RemoveAt(Listed, last) = SubSeq(Listed, 1, Len(Listed) - 1)
  <2> DEFINE s == Listed
  <2>1. s \in Seq(Entry) /\ Len(s) > 0 /\ Len(s) = last
    BY <1>2, <1>5, SlabFacts
  <2> HIDE DEF s
  <2>2. Abs!RemoveAt(s, Len(s)) = SubSeq(s, 1, Len(s) - 1)
    BY <2>1, LastOut
  <2>3. Abs!RemoveAt(s, last) = SubSeq(s, 1, Len(s) - 1)
    BY <2>1, <2>2
  <2> QED BY <2>3 DEF s
<1>8. Abs!Pushes(Listed, Cap, k)
  BY <1>2, <1>4, <1>5 DEF Abs!Pushes, Abs!Full
<1>9. Listed' = Abs!PutIn(Listed, Cap, x)
  BY <1>3, <1>6, <1>7, <1>8 DEF Abs!PutIn
<1>10. reported' = IF Abs!Pushes(Listed, Cap, k) /\ Abs!Live(Abs!PushedOut(Listed))
                     THEN <<Abs!PushedOut(Listed).k, Abs!PushedOut(Listed).v>>
                     ELSE None
  <2>1. m[t].e > 0 <=> m[t].e # 0
    <3>1. ASSUME NEW r \in Entry PROVE r.e \in Nat
      <4>1. r.e \in Times \cup {0}
        BY DEF Entry
      <4>2. \A z \in Times : z \in Nat
        BY TimesAssumption
      <4> QED BY <4>1, <4>2
    <3>2. m[t].e \in Nat
      BY <1>5, <3>1
    <3> QED BY <3>2
  <2>2. Abs!PushedOut(Listed) = m[t]
    BY <1>5 DEF Abs!PushedOut
  <2> QED BY <1>0, <1>8, <2>1, <2>2 DEF Abs!Live, Abs!Deleted
<1> QED
  BY <1>9, <1>10 DEF Abs!AbsPut, x

LEMMA PutFreshIsPut ==
  ASSUME SlabInv, NEW k \in Keys, NEW v \in Vals, NEW e \in Times, PutFresh(k, v, e)
  PROVE  Abs!AbsPut(k, v, e)
<1> DEFINE x == [k |-> k, v |-> v, e |-> e]
<1>0. hmap[k] = 0 /\ reported' = None
  BY DEF PutFresh, Absent
<1>1. PICK c : InOrder(c)
  BY DEF SlabInv
<1>1b. PICK b : b = Grown(c, last)
  OBVIOUS
<1>2. /\ SlabInv' /\ last' = last + 1 /\ last < Cap /\ InOrder(b)'
      /\ \A i \in 1..last + 1 : m'[i] = IF i = last + 1 THEN x ELSE m[i]
  <2>1. /\ SlabInv' /\ last' = last + 1 /\ last < Cap
        /\ Circle(NextOf(dlnk'), PrevOf(dlnk'), last + 1, b)
        /\ \A i \in 1..last + 1 : m'[i] = IF i = last + 1 THEN x ELSE m[i]
    BY <1>1, <1>1b, PutFreshEffect
  <2>2. InOrder(b)'
    BY <2>1 DEF InOrder
  <2> QED BY <2>1, <2>2
<1>3. x \in Entry /\ x.k = k
  BY DEF Entry
<1>4. k \notin Abs!KeysIn(Listed)
  BY <1>0, <1>1, KeysShown
<1>5. /\ Listed \in Seq(Entry) /\ Len(Listed) = last /\ last \in Nat
      /\ \A i \in 1..last : c[i] \in 1..last /\ Listed[i] = m[c[i]]
  BY <1>1, ListedInOrder, SlabFacts DEF ShowsOrder, ListShows
<1>6. /\ b[1] = last + 1
      /\ \A i \in 1..last : b[i + 1] = c[i]
  <2>1. \A i \in 1..last : (i + 1) - 1 = i /\ i + 1 \in 0..last + 2 /\ i + 1 # 0 /\ i + 1 # 1
    BY <1>5
  <2>2. 1 \in 0..last + 2
    BY <1>5
  <2> QED BY <1>1b, <2>1, <2>2 DEF Grown
<1> HIDE DEF x
<1>7. /\ Listed' \in Seq(Entry) /\ Len(Listed') = last + 1
      /\ \A i \in 1..last + 1 : Listed'[i] = m'[b[i]]
  <2>1. ListShows(b)'
    BY <1>2, ListedInOrderNext
  <2> QED BY <1>2, <2>1 DEF ListShows
<1>8. Listed'[1] = x /\ \A i \in 1..last : Listed'[i + 1] = Listed[i]
  <2>1. 1 \in 1..last + 1 /\ last + 1 \in 1..last + 1
    BY <1>5
  <2>2. \A i \in 1..last : i + 1 \in 1..last + 1 /\ i # last + 1 /\ i \in 1..last + 1
    BY <1>5
  <2>3. Listed'[1] = x
    BY <1>2, <1>6, <1>7, <2>1
  <2>4. ASSUME NEW i \in 1..last PROVE Listed'[i + 1] = Listed[i]
    <3>1. Listed'[i + 1] = m'[c[i]] /\ c[i] \in 1..last
      BY <1>5, <1>6, <1>7, <2>2
    <3>2. m'[c[i]] = m[c[i]]
      BY <1>2, <2>2, <3>1
    <3> QED BY <1>5, <3>1, <3>2
  <2> QED BY <2>3, <2>4
<1>9. Listed' = <<x>> \o Listed
  <2> DEFINE s == Listed
             r == Listed'
  <2>1. /\ s \in Seq(Entry) /\ r \in Seq(Entry) /\ Len(r) = Len(s) + 1 /\ r[1] = x
        /\ \A i \in 1..Len(s) : r[i + 1] = s[i]
    BY <1>5, <1>7, <1>8
  <2> HIDE DEF s, r
  <2>2. r = <<x>> \o s
    BY <1>3, <2>1, InFront
  <2> QED BY <2>2 DEF s, r
<1>10. ~Abs!Pushes(Listed, Cap, k)
  BY <1>2, <1>5, CapAssumption DEF Abs!Pushes, Abs!Full
<1>11. Listed' = Abs!PutIn(Listed, Cap, x)
  BY <1>3, <1>4, <1>9, <1>10 DEF Abs!PutIn, Abs!Without
<1> QED
  BY <1>0, <1>10, <1>11 DEF Abs!AbsPut, x

(* The linked list is a list in order of use: put, get and del of          *)
(* lru2.go:305-384 change the entries, their order and what onEvicted gets *)
(* as RecencyList says, for every capacity and every set of keys.          *)
THEOREM SlabIsRecencyList == Spec => ImplementsRecencyList
<1>1. Init => Abs!AbsInit
  <2> SUFFICES ASSUME Init PROVE Abs!AbsInit
    OBVIOUS
  <2>1. last = 0 /\ reported = None /\ SlabInv
    BY InitSlabInv DEF Init
  <2>2. Listed \in Seq(Entry) /\ Len(Listed) = 0
    BY <2>1, ListedInOrder DEF SlabInv, ShowsOrder, ListShows
  <2>3. Listed = <<>>
    BY <2>2, EmptySeq
  <2> QED BY <2>1, <2>3 DEF Abs!AbsInit
<1>2. SlabInv /\ [Next]_vars => [Abs!AbsNext]_<<Listed, reported>>
  <2> SUFFICES ASSUME SlabInv, [Next]_vars PROVE [Abs!AbsNext]_<<Listed, reported>>
    OBVIOUS
  <2>1. ASSUME NEW k \in Keys, NEW v \in Vals, NEW e \in Times, put(k, v, e)
        PROVE  Abs!AbsPut(k, v, e)
    BY <2>1, PutExistingIsPut, PutReusingIsPut, PutFreshIsPut DEF put
  <2>2. ASSUME NEW k \in Keys, get(k) PROVE Abs!AbsGet(k)
    BY <2>2, GetIsGet
  <2>3. ASSUME NEW k \in Keys, del(k) PROVE Abs!AbsDel(k)
    BY <2>3, DelIsDel
  <2>4. CASE UNCHANGED vars
    BY <2>4 DEF vars, Listed, WalkFrom
  <2> QED BY <2>1, <2>2, <2>3, <2>4 DEF Next, Abs!AbsNext
<1> QED
  BY <1>1, <1>2, SlabInvariance, PTL DEF Spec, ImplementsRecencyList, Abs!AbsSpec
=============================================================================
