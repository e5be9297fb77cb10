----------------------------- MODULE BioProofs ------------------------------
(***************************************************************************)
(* Proofs about the buffer cache, for any number of buffers, processes and  *)
(* blocks: CacheSound, and that nobody sleeps for a buffer that is free.    *)
(*                                                                         *)
(* First the list of buffers and what bget finds when it walks it back to   *)
(* front, then the counts, and then the invariant, one lemma per action.    *)
(***************************************************************************)
EXTENDS Bio, WellFoundedInduction, FiniteSetTheorems, TLAPS

-----------------------------------------------------------------------------
(* The list.                                                               *)

\* A nonempty set of numbers has a least one, as bget's scan has a first hit.
LEMMA Least ==
  ASSUME NEW T \in SUBSET Nat, T # {}
  PROVE  \E x \in T : \A y \in T : x <= y
<1> DEFINE Below == {0 .. x : x \in T}
<1>1. Below \subseteq FiniteSubsetsOf(Nat)
  <2>1. \A x \in T : 0 .. x \in SUBSET Nat /\ IsFiniteSet(0 .. x) BY FS_Interval
  <2> QED BY Zenon, <2>1 DEF FiniteSubsetsOf
<1>2. Below # {} BY ZenonT(60)
<1>3. PICK S \in Below : \A U \in Below : <<U, S>> \notin StrictSubsetOrdering(Nat)
  <2> HIDE DEF Below
  <2> QED BY Zenon, <1>1, <1>2, FS_StrictSubsetOrderingWellFounded, WFMin
<1>4. PICK x \in T : S = 0 .. x BY Zenon, <1>3
<1>5. ASSUME NEW y \in T, ~(x <= y) PROVE FALSE
  <2>1. 0 .. y \in Below BY Zenon
  <2>2. 0 .. y \subseteq 0 .. x /\ 0 .. y # 0 .. x BY <1>5
  <2>3. <<0 .. y, 0 .. x>> \in StrictSubsetOrdering(Nat) BY <2>2 DEF StrictSubsetOrdering
  <2> QED BY ZenonT(60), <2>1, <2>3, <1>3, <1>4
<1> QED BY Zenon, <1>5

Places == 0 .. NBUF

\* Every buffer has one place in the order.
OrderOK(o) ==
  /\ o \in [Bufs -> Bufs]
  /\ \A b \in Bufs : \E k \in Bufs : o[k] = b
  /\ \A j, k \in Bufs : o[j] = o[k] => j = k

\* What is at place k of the list; before the first and after the last is the
\* head.
Place(o, k) == IF k \in Bufs THEN o[k] ELSE 0

\* The pointers n and v follow the order o.
ListOK(o, n, v) ==
  /\ n \in [Places -> Places] /\ v \in [Places -> Places]
  /\ \A k \in Places : n[Place(o, k)] = Place(o, k + 1) /\ v[Place(o, k + 1)] = Place(o, k)

ListInv == OrderOK(order) /\ ListOK(order, nxt, prv)

\* binit makes such a list.
LEMMA ListInit == binit => ListInv
<1> SUFFICES ASSUME binit PROVE ListInv BY Zenon
<1>1. NBUF \in Nat \ {0} BY Zenon, BioAssumption
<1>2. OrderOK(order)
  <2>1. \A b \in Bufs : NBUF + 1 - b \in Bufs /\ order[NBUF + 1 - b] = b BY <1>1 DEF binit, Bufs
  <2> QED BY Zenon, <1>1, <2>1 DEF OrderOK, binit, Bufs
<1>3. ASSUME NEW k \in Places
      PROVE  nxt[Place(order, k)] = Place(order, k + 1) /\ prv[Place(order, k + 1)] = Place(order, k)
  <2>1. Place(order, k) = IF k = 0 THEN 0 ELSE NBUF + 1 - k
    BY <1>1 DEF Place, Places, Bufs, binit
  <2>2. Place(order, k + 1) = NBUF - k
    BY <1>1 DEF Place, Places, Bufs, binit
  <2> QED BY <1>1, <2>1, <2>2 DEF Places, binit
<1>4. nxt \in [Places -> Places] /\ prv \in [Places -> Places]
  BY <1>1 DEF binit, Places
<1> QED BY Zenon, <1>2, <1>3, <1>4 DEF ListInv, ListOK

\* The place of a buffer.
LEMMA PlaceOf ==
  ASSUME NEW o, OrderOK(o), NEW b \in Bufs
  PROVE  \E i \in Bufs : o[i] = b /\ (CHOOSE k \in Bufs : o[k] = b) = i /\ \A k \in Bufs : o[k] = b => k = i
BY Zenon DEF OrderOK

\* Different places, different buffers.
LEMMA PlacesDiffer ==
  ASSUME NEW o, OrderOK(o)
  PROVE  /\ \A k \in 0 .. NBUF + 1 : Place(o, k) \in Places
         /\ \A k \in Bufs : Place(o, k) # 0
         /\ \A b \in Places : \E k \in Places : Place(o, k) = b
         /\ \A j, k \in Places : Place(o, j) = Place(o, k) => j = k
<1>1. NBUF \in Nat \ {0} BY Zenon, BioAssumption
<1>2. \A k \in Bufs : k \in Places /\ k # 0 BY <1>1 DEF Bufs, Places
<1>3. \A k \in Places : k = 0 \/ k \in Bufs BY <1>1 DEF Bufs, Places
<1>4. 0 \in Places /\ 0 \notin Bufs BY <1>1 DEF Bufs, Places
<1>5. \A k \in Bufs : Place(o, k) = o[k] /\ o[k] \in Bufs BY Zenon DEF Place, OrderOK
<1>6. Place(o, 0) = 0 BY Zenon, <1>4 DEF Place
<1>7. \A k : Place(o, k) \in Places BY Zenon, <1>2, <1>4, <1>5 DEF Place
<1>8. \A b \in Places : \E k \in Places : Place(o, k) = b
  BY Zenon, <1>2, <1>3, <1>4, <1>5, <1>6 DEF OrderOK
<1>9. \A j, k \in Places : Place(o, j) = Place(o, k) => j = k
  BY <1>2, <1>3, <1>5, <1>6 DEF OrderOK
<1> QED BY Zenon, <1>2, <1>5, <1>7, <1>8, <1>9

\* The order after b has been put in front.
LEMMA FrontPlaces ==
  ASSUME NEW o, OrderOK(o), NEW i \in Bufs
  PROVE  /\ OrderOK(ToFront(o, o[i]))
         /\ \A k \in 0 .. NBUF + 1 :
              Place(ToFront(o, o[i]), k) = IF k = 0 THEN 0 ELSE IF k = 1 THEN o[i]
                                           ELSE IF k <= i THEN Place(o, k - 1) ELSE Place(o, k)
<1> DEFINE b == o[i]
           f == [k \in Bufs |-> IF k = 1 THEN b ELSE IF k <= i THEN o[k - 1] ELSE o[k]]
<1>1. NBUF \in Nat \ {0} BY Zenon, BioAssumption
<1>2. b \in Bufs BY Zenon DEF OrderOK
<1>3. (CHOOSE k \in Bufs : o[k] = b) = i BY Zenon, <1>2, PlaceOf DEF OrderOK
<1>4. ToFront(o, b) = f BY ZenonT(60), <1>3 DEF ToFront
<1>5. \A k \in Bufs : f[k] = IF k = 1 THEN b ELSE IF k <= i THEN o[k - 1] ELSE o[k] BY Zenon
<1>6. f \in [Bufs -> Bufs]
  <2>1. \A k \in Bufs : k # 1 => k - 1 \in Bufs BY <1>1 DEF Bufs
  <2> QED BY Zenon, <1>2, <2>1 DEF OrderOK
<1> HIDE DEF f
<1>7. ASSUME NEW c \in Bufs PROVE \E k \in Bufs : f[k] = c
  <2>1. PICK j \in Bufs : o[j] = c BY Zenon DEF OrderOK
  <2>2. CASE j = i
    <3>1. 1 \in Bufs BY <1>1 DEF Bufs
    <3> QED BY Zenon, <3>1, <2>1, <2>2, <1>5
  <2>3. CASE j < i
    <3>1. j + 1 \in Bufs /\ j + 1 # 1 /\ j + 1 <= i /\ (j + 1) - 1 = j BY <2>3, <1>1 DEF Bufs
    <3> QED BY Zenon, <3>1, <2>1, <1>5
  <2>4. CASE j > i
    <3>1. j # 1 /\ ~(j <= i) BY <2>4, <1>1 DEF Bufs
    <3> QED BY Zenon, <3>1, <2>1, <1>5
  <2> QED BY <2>2, <2>3, <2>4, <1>1 DEF Bufs
<1>8. ASSUME NEW j \in Bufs, NEW k \in Bufs, f[j] = f[k] PROVE j = k
  <2> DEFINE From(x) == IF x = 1 THEN i ELSE IF x <= i THEN x - 1 ELSE x
  <2>1. \A x \in Bufs : From(x) \in Bufs /\ f[x] = o[From(x)] BY <1>1, <1>5 DEF Bufs
  <2>2. \A x, y \in Bufs : From(x) = From(y) => x = y BY <1>1 DEF Bufs
  <2>3. From(j) = From(k) BY <1>8, <2>1 DEF OrderOK
  <2> QED BY Zenon, <2>2, <2>3
<1>9. OrderOK(f) BY ZenonT(60), <1>6, <1>7, <1>8 DEF OrderOK
<1>10. ASSUME NEW k \in 0 .. NBUF + 1
       PROVE Place(f, k) = IF k = 0 THEN 0 ELSE IF k = 1 THEN b
                           ELSE IF k <= i THEN Place(o, k - 1) ELSE Place(o, k)
  <2>1. CASE k \in Bufs
    <3>1. k # 1 => k - 1 \in Bufs BY <1>1, <2>1 DEF Bufs
    <3> QED BY <2>1, <3>1, <1>1, <1>5 DEF Place, Bufs
  <2>2. CASE k \notin Bufs
    <3>1. k = 0 \/ (k = NBUF + 1 /\ k # 1 /\ ~(k <= i)) BY <1>1, <2>2 DEF Bufs
    <3> QED BY Zenon, <2>2, <3>1 DEF Place
  <2> QED BY Zenon, <2>1, <2>2
<1> QED BY Zenon, <1>4, <1>9, <1>10

\* What brelse does to the pointers keeps the list.
LEMMA MoveList ==
  ASSUME NEW o, NEW n, NEW v, OrderOK(o), ListOK(o, n, v), NEW b \in Bufs,
         NEW n1, n1 = [n EXCEPT ![v[b]] = n[b]], NEW v1, v1 = [v EXCEPT ![n[b]] = v[b]]
  PROVE  ListOK(ToFront(o, b), [n1 EXCEPT ![b] = n1[0], ![0] = b],
                               [v1 EXCEPT ![b] = 0, ![n1[0]] = b])
<1>1. NBUF \in Nat \ {0} BY Zenon, BioAssumption
<1>2. PICK i \in Bufs : o[i] = b BY Zenon DEF OrderOK
<1> DEFINE P(k) == Place(o, k)
           Q(k) == Place(ToFront(o, b), k)
           n2 == [n1 EXCEPT ![b] = n1[0], ![0] = b]
           v2 == [v1 EXCEPT ![b] = 0, ![n1[0]] = b]
<1>3. \A k \in 0 .. NBUF + 1 :
        Q(k) = IF k = 0 THEN 0 ELSE IF k = 1 THEN b ELSE IF k <= i THEN P(k - 1) ELSE P(k)
  BY <1>2, FrontPlaces
<1>4. b \in Places /\ b # 0 /\ P(i) = b /\ i - 1 \in Places /\ i \in Places /\ i + 1 \in 0 .. NBUF + 1
  BY <1>1, <1>2 DEF Bufs, Places, Place
<1>5. /\ \A k \in 0 .. NBUF + 1 : P(k) \in Places
      /\ \A j, k \in Places : P(j) = P(k) => j = k
      /\ \A c \in Places : \E k \in Places : P(k) = c
      /\ P(0) = 0 /\ P(NBUF + 1) = 0
  BY <1>1, PlacesDiffer DEF Place, Bufs
<1>6. /\ n \in [Places -> Places] /\ v \in [Places -> Places]
      /\ \A k \in Places : n[P(k)] = P(k + 1) /\ v[P(k + 1)] = P(k)
  BY Zenon DEF ListOK
<1>7. v[b] = P(i - 1) /\ n[b] = P(i + 1)
  <2>1. (i - 1) + 1 = i BY <1>1 DEF Bufs
  <2> QED BY Zenon, <1>4, <1>6, <2>1
<1> HIDE DEF P, Q
<1>8. ASSUME NEW k \in Places
      PROVE  n1[P(k)] = IF k = i - 1 THEN P(i + 1) ELSE P(k + 1)
  <2>1. n1 = [n EXCEPT ![P(i - 1)] = P(i + 1)] BY Zenon, <1>7
  <2>2. P(k) \in DOMAIN n /\ n[P(k)] = P(k + 1)
    <3>1. k \in 0 .. NBUF + 1 BY <1>1 DEF Places
    <3> QED BY Zenon, <1>5, <1>6, <3>1
  <2>3. k # i - 1 => P(k) # P(i - 1) BY Zenon, <1>4, <1>5
  <2> QED BY Zenon, <2>1, <2>2, <2>3
<1>9. ASSUME NEW k \in Places
      PROVE  v1[P(k + 1)] = IF k = i THEN P(i - 1) ELSE P(k)
  <2>1. v1 = [v EXCEPT ![P(i + 1)] = P(i - 1)] BY Zenon, <1>7
  <2>2. P(k + 1) \in DOMAIN v /\ v[P(k + 1)] = P(k)
    <3>1. k + 1 \in 0 .. NBUF + 1 BY <1>1 DEF Places
    <3> QED BY Zenon, <1>5, <1>6, <3>1
  <2>3. k # i => P(k + 1) # P(i + 1)
    <3>1. \A x \in Places : P(x + 1) = IF x = NBUF THEN P(0) ELSE P(x + 1) BY Zenon, <1>5
    <3>2. \A x \in Places : x # NBUF => x + 1 \in Places /\ x + 1 # 0 BY <1>1 DEF Places
    <3>3. 0 \in Places /\ NBUF \in Places BY <1>1 DEF Places
    <3>4. k + 1 = i + 1 => k = i BY <1>1 DEF Places, Bufs
    <3> QED BY <1>4, <1>5, <3>1, <3>2, <3>3, <3>4
  <2> QED BY Zenon, <2>1, <2>2, <2>3
<1>10. n1 \in [Places -> Places] /\ v1 \in [Places -> Places]
  <2>1. n[b] \in Places /\ v[b] \in Places BY Zenon, <1>4, <1>6
  <2> QED BY Zenon, <1>6, <2>1
<1>11. n1[0] = IF i = 1 THEN P(2) ELSE P(1)
  <2>1. 0 \in Places BY <1>1 DEF Places
  <2>2. (0 = i - 1) <=> (i = 1) BY <1>1 DEF Bufs
  <2>3. n1[P(0)] = IF 0 = i - 1 THEN P(i + 1) ELSE P(0 + 1) BY ZenonT(60), <1>8, <2>1
  <2> QED BY <1>5, <2>2, <2>3
<1>12. \A j, k \in 1 .. NBUF + 1 : P(j) = P(k) => j = k
  <2>1. \A k \in 1 .. NBUF + 1 : (k \in Places /\ k # 0) \/ k = NBUF + 1 BY <1>1 DEF Places
  <2>2. 0 \in Places BY <1>1 DEF Places
  <2> QED BY Zenon, <1>5, <2>1, <2>2
<1>13. n1[0] \in Places /\ n1[0] # b
  <2>1. 1 \in 1 .. NBUF + 1 /\ 2 \in 1 .. NBUF + 1 /\ i \in 1 .. NBUF + 1 BY <1>1 DEF Bufs
  <2>2. 1 \in 0 .. NBUF + 1 /\ 2 \in 0 .. NBUF + 1 BY <1>1
  <2>3. P(1) \in Places /\ P(2) \in Places BY Zenon, <1>5, <2>2
  <2>4. i # 1 => P(1) # P(i) BY Zenon, <1>12, <2>1
  <2>5. i = 1 => P(2) # P(i) BY <1>12, <2>1
  <2> QED BY Zenon, <1>4, <1>11, <2>3, <2>4, <2>5
<1>14. n2 \in [Places -> Places] /\ v2 \in [Places -> Places]
  <2>1. 0 \in Places BY <1>1 DEF Places
  <2> QED BY Zenon, <1>4, <1>10, <1>13, <2>1
<1>15. \A c \in Places : n2[c] = IF c = 0 THEN b ELSE IF c = b THEN n1[0] ELSE n1[c]
  BY <1>10
<1>15b. \A c \in Places : v2[c] = IF c = n1[0] THEN b ELSE IF c = b THEN 0 ELSE v1[c]
  BY Zenon, <1>10
<1> HIDE DEF n2, v2
<1>16. Q(0) = 0 /\ Q(1) = b /\ Q(2) = n1[0]
  <2>1. 0 \in 0 .. NBUF + 1 /\ 1 \in 0 .. NBUF + 1 /\ 2 \in 0 .. NBUF + 1 BY <1>1
  <2>2. (2 <= i) <=> (i # 1) BY <1>1 DEF Bufs
  <2> QED BY <1>3, <1>11, <2>1, <2>2
<1>17. 0 \in Places BY <1>1 DEF Places
<1>18. ASSUME NEW k \in Places PROVE n2[Q(k)] = Q(k + 1) /\ v2[Q(k + 1)] = Q(k)
  <2>1. CASE k = 0
    BY <2>1, <1>4, <1>13, <1>15, <1>16, <1>17, <1>15b
  <2>2. CASE k = 1
    BY <2>2, <1>4, <1>13, <1>15, <1>16, <1>17, <1>15b
  <2>3. CASE k > 1 /\ k <= i
    <3>1. /\ k \in 0 .. NBUF + 1 /\ k + 1 \in 0 .. NBUF + 1 /\ k - 1 \in Places /\ k + 1 # 0
          /\ k # 0 /\ k # 1 /\ k + 1 # 1 /\ (k + 1 <= i <=> k # i) /\ (k - 1) + 1 = k
          /\ k - 1 # i /\ (k - 1 = i - 1 <=> k = i)
      BY <2>3, <1>1 DEF Places, Bufs
    <3>2. Q(k) = P(k - 1) BY Zenon, <1>3, <2>3, <3>1
    <3>3. Q(k + 1) = IF k = i THEN P(i + 1) ELSE P(k)
      <4>1. (k + 1) - 1 = k BY <1>1 DEF Places
      <4> QED BY Zenon, <1>3, <3>1, <4>1
    <3>4. P(k - 1) # b /\ P(k - 1) # 0 /\ P(k - 1) \in Places
      <4>1. k - 1 # 0 /\ k - 1 \in 0 .. NBUF + 1 BY <1>1, <2>3 DEF Places
      <4> QED BY <1>4, <1>5, <1>17, <3>1, <4>1
    <3>5. n2[Q(k)] = Q(k + 1) BY Zenon, <1>8, <1>15, <3>1, <3>2, <3>3, <3>4
    <3>6. Q(k + 1) # b /\ Q(k + 1) # n1[0] /\ Q(k + 1) \in Places
      <4>1. i + 1 \in 1 .. NBUF + 1 /\ k \in 1 .. NBUF + 1 /\ i \in 1 .. NBUF + 1 /\ 1 \in 1 .. NBUF + 1
        BY <1>1, <2>3 DEF Bufs, Places
      <4>2. i + 1 # i /\ i + 1 # 1 /\ i # 1 BY <1>1, <2>3 DEF Bufs, Places
      <4> QED BY <1>4, <1>5, <1>11, <1>12, <3>1, <3>3, <4>1, <4>2
    <3>7. v2[Q(k + 1)] = v1[Q(k + 1)] BY Zenon, <1>15b, <3>6
    <3>8. k = i => v2[Q(k + 1)] = Q(k) BY Zenon, <1>9, <3>2, <3>3, <3>7
    <3>9. k # i => v2[Q(k + 1)] = Q(k) BY Zenon, <1>9, <3>1, <3>2, <3>3, <3>7
    <3> QED BY Zenon, <3>5, <3>8, <3>9
  <2>4. CASE k > 1 /\ k > i
    <3>1. /\ k \in 0 .. NBUF + 1 /\ k + 1 \in 0 .. NBUF + 1 /\ k # 0 /\ k # 1 /\ k + 1 # 1 /\ k + 1 # 0
          /\ ~(k <= i) /\ ~(k + 1 <= i) /\ k # i - 1 /\ k # i
      BY <2>4, <1>1 DEF Places, Bufs
    <3>2. Q(k) = P(k) /\ Q(k + 1) = P(k + 1) BY Zenon, <1>3, <3>1
    <3>3. P(k) # b /\ P(k) # 0 /\ P(k) \in Places BY <1>4, <1>5, <1>17, <3>1
    <3>4. n2[Q(k)] = Q(k + 1) BY Zenon, <1>8, <1>15, <3>1, <3>2, <3>3
    <3>5. P(k + 1) # b /\ P(k + 1) # n1[0] /\ P(k + 1) \in Places
      <4>1. k + 1 \in 1 .. NBUF + 1 /\ i \in 1 .. NBUF + 1 /\ 1 \in 1 .. NBUF + 1 /\ 2 \in 1 .. NBUF + 1
        BY <1>1, <2>4 DEF Bufs, Places
      <4>2. k + 1 # i /\ k + 1 # 1 /\ k + 1 # 2 BY <1>1, <2>4 DEF Bufs, Places
      <4> QED BY <1>4, <1>5, <1>11, <1>12, <3>1, <4>1, <4>2
    <3>6. v2[Q(k + 1)] = Q(k) BY Zenon, <1>9, <1>15b, <3>1, <3>2, <3>5
    <3> QED BY Zenon, <3>4, <3>6
  <2> QED BY <2>1, <2>2, <2>3, <2>4, <1>1 DEF Places, Bufs
<1> QED BY ZenonT(60), <1>14, <1>18 DEF ListOK, n2, v2, Q

\* Going back from the head, bget meets the last of the order first.
LEMMA BackwardsIs ==
  ASSUME ListInv
  PROVE  \A k \in Bufs : Backwards[k] = order[NBUF + 1 - k]
<1> DEFINE w0 == [k \in Bufs |-> order[NBUF + 1 - k]]
           w == Backwards
<1>1. NBUF \in Nat \ {0} BY BioAssumption
<1>2. ASSUME NEW k \in Bufs PROVE prv[IF k = 1 THEN 0 ELSE order[NBUF + 1 - (k - 1)]] = order[NBUF + 1 - k]
  <2>1. NBUF + 1 - k \in Places /\ NBUF + 1 - k \in Bufs BY <1>1 DEF Bufs, Places
  <2>2. prv[Place(order, (NBUF + 1 - k) + 1)] = order[NBUF + 1 - k]
    BY Zenon, <2>1 DEF ListInv, ListOK, Place
  <2>3. CASE k = 1
    <3>1. (NBUF + 1 - k) + 1 \notin Bufs BY <1>1, <2>3 DEF Bufs
    <3> QED BY Zenon, <2>2, <2>3, <3>1 DEF Place
  <2>4. CASE k # 1
    <3>1. (NBUF + 1 - k) + 1 \in Bufs /\ NBUF + 1 - (k - 1) = (NBUF + 1 - k) + 1
      BY <1>1, <2>4 DEF Bufs
    <3> QED BY Zenon, <2>2, <2>4, <3>1 DEF Place
  <2> QED BY Zenon, <2>3, <2>4
<1>3. w0 = [k \in Bufs |-> IF k = 1 THEN prv[0] ELSE prv[w0[k - 1]]]
  <2>1. ASSUME NEW k \in Bufs PROVE w0[k] = IF k = 1 THEN prv[0] ELSE prv[w0[k - 1]]
    <3>1. k # 1 => k - 1 \in Bufs BY <1>1 DEF Bufs
    <3> QED BY Zenon, <1>2, <3>1
  <2> QED BY Zenon, <2>1
<1>4. w = [k \in Bufs |-> IF k = 1 THEN prv[0] ELSE prv[w[k - 1]]]
  <2> HIDE DEF w0
  <2> QED BY Zenon, <1>3 DEF Backwards
<1> HIDE DEF w
<1> DEFINE T == {k \in Bufs : w[k] # w0[k]}
<1>5. T = {}
  <2> SUFFICES ASSUME T # {} PROVE FALSE BY Zenon
  <2>1. PICK k \in T : \A j \in T : k <= j
    <3>1. T \in SUBSET Nat BY <1>1 DEF Bufs
    <3> HIDE DEF T
    <3> QED BY Zenon, <3>1, Least
  <2>2. CASE k = 1 BY ZenonT(60), <2>1, <2>2, <1>3, <1>4
  <2>3. CASE k # 1
    <3>1. k - 1 \in Bufs /\ ~(k <= k - 1) BY <1>1, <2>3 DEF Bufs
    <3>2. k - 1 \notin T BY Zenon, <2>1, <3>1
    <3>3. w[k - 1] = w0[k - 1] BY Zenon, <3>1, <3>2
    <3> HIDE DEF w0
    <3> QED BY <2>1, <2>3, <3>3, <1>3, <1>4
  <2> QED BY Zenon, <2>2, <2>3
<1> QED BY ZenonT(60), <1>5 DEF w

\* bget finds a buffer without references, if there is one.
LEMMA LruIs ==
  ASSUME ListInv
  PROVE  \/ Lru = 0 /\ \A b \in Bufs : ~Unref(b)
         \/ Lru \in Bufs /\ Unref(Lru)
<1> DEFINE free == {k \in Bufs : Unref(Backwards[k])}
<1>1. NBUF \in Nat \ {0} BY BioAssumption
<1>2. ASSUME free = {}, NEW b \in Bufs PROVE ~Unref(b)
  <2>1. PICK k \in Bufs : order[k] = b BY Zenon DEF ListInv, OrderOK
  <2>2. NBUF + 1 - k \in Bufs /\ NBUF + 1 - (NBUF + 1 - k) = k BY <1>1 DEF Bufs
  <2> QED BY Zenon, <1>2, <2>1, <2>2, BackwardsIs
<1>3. ASSUME free # {} PROVE Lru \in Bufs /\ Unref(Lru)
  <2> DEFINE m == CHOOSE k \in free : \A j \in free : k <= j
  <2>1. \E k \in free : \A j \in free : k <= j
    <3>1. free \in SUBSET Nat BY <1>1 DEF Bufs
    <3> HIDE DEF free
    <3> QED BY Zenon, <1>3, <3>1, Least
  <2>2. m \in free
    <3> HIDE DEF free
    <3> QED BY Zenon, <2>1
  <2>3. Lru = Backwards[m] BY Zenon, <1>3 DEF Lru
  <2> HIDE DEF m
  <2>4. NBUF + 1 - m \in Bufs BY <1>1, <2>2 DEF Bufs
  <2> QED BY Zenon, <2>2, <2>3, <2>4, BackwardsIs DEF ListInv, OrderOK
<1>4. free = {} => Lru = 0 BY Zenon DEF Lru
<1> QED BY Zenon, <1>2, <1>3, <1>4

-----------------------------------------------------------------------------
(* The inductive invariant.                                                *)

BioPoints == {"out", "want", "asleep", "got", "hold", "dirty", "written", "drop"}
BufTypes == [blockno : BioBlocks \cup {0}, valid : BOOLEAN, refcnt : Int, data : {0, 1},
             locked : BOOLEAN, pid : BioProcs \cup {Nobody}]

BioTypes ==
  /\ buf \in [Bufs -> BufTypes]
  /\ bp \in [BioProcs -> [pc : BioPoints, b : Places]]
  /\ disk \in [BioBlocks -> {0, 1}] /\ latest \in [BioBlocks -> {0, 1}]
  /\ pinned \subseteq BioBlocks /\ IsFiniteSet(pinned) /\ Cardinality(pinned) <= MaxPins
  /\ bioPanic = FALSE

\* A process has a buffer, of some block, from bget to the end of brelse.
Engaged == \A p \in BioProcs :
  /\ bp[p].b = 0 <=> bp[p].pc = "out"
  /\ bp[p].b # 0 => buf[bp[p].b].blockno # 0

\* refcnt counts the processes that have the buffer, and the pin.
Counted == \A b \in Bufs :
  buf[b].refcnt = Cardinality(Users(b)) + (IF buf[b].blockno \in pinned THEN 1 ELSE 0)

\* A block is in one buffer only.
Unique == \A b, c \in Bufs : b # c => buf[b].blockno = 0 \/ buf[b].blockno # buf[c].blockno

\* Who is past acquiresleep has the lock; who sleeps does so for a lock that
\* is taken.
Locks == \A p \in BioProcs :
  /\ BioHolds(p) => buf[bp[p].b].locked /\ buf[bp[p].b].pid = p
  /\ bp[p].pc = "asleep" => buf[bp[p].b].locked

\* The cache has the latest contents; the disk does too, but for blocks that are
\* pinned or just being changed.
Latest ==
  /\ \A b \in Bufs : buf[b].valid => buf[b].blockno # 0 /\ buf[b].data = latest[buf[b].blockno]
  /\ \A p \in BioProcs : bp[p].pc \in {"hold", "dirty", "written"} => buf[bp[p].b].valid
  /\ \A p \in BioProcs : bp[p].pc = "written" =>
       disk[buf[bp[p].b].blockno] = latest[buf[bp[p].b].blockno]
  /\ \A k \in BioBlocks : \/ disk[k] = latest[k] \/ k \in pinned
                          \/ \E p \in BioProcs : bp[p].pc = "dirty" /\ buf[bp[p].b].blockno = k

\* What is pinned is in the cache.
Pinned == \A k \in pinned : \E b \in Bufs : buf[b].blockno = k /\ buf[b].valid

BioInv == BioTypes /\ ListInv /\ Engaged /\ Counted /\ Unique /\ Locks /\ Latest /\ Pinned

-----------------------------------------------------------------------------
(* What a step changes.                                                    *)

BpTypes == [BioProcs -> [pc : BioPoints, b : Places]]

\* p goes on to the point x.
Moves(p, x) ==
  /\ bp' \in BpTypes
  /\ \A q \in BioProcs : bp'[q].b = bp[q].b /\ bp'[q].pc = IF q = p THEN x ELSE bp[q].pc

\* Nothing else of p or of another process changes with pc.
LEMMA GotoMoves ==
  ASSUME BioTypes, NEW p \in BioProcs, NEW x \in BioPoints, BioGoto(p, x)
  PROVE  Moves(p, x)
BY Zenon DEF BioTypes, BioGoto, Moves, BpTypes

\* Buffer b becomes r.
BufBecomes(b, r) ==
  /\ buf' \in [Bufs -> BufTypes]
  /\ buf'[b] = r
  /\ \A c \in Bufs : c # b => buf'[c] = buf[c]

\* The other buffers stay.
LEMMA BufUpdate ==
  ASSUME BioTypes, NEW b \in Bufs, NEW r \in BufTypes, buf' = [buf EXCEPT ![b] = r]
  PROVE  BufBecomes(b, r)
BY Zenon DEF BioTypes, BufBecomes

\* The fields of a buffer after an assignment to some of them.
SetLock(r, y) == [r EXCEPT !.locked = TRUE, !.pid = y]
ClearLock(r) == [r EXCEPT !.locked = FALSE, !.pid = Nobody]
SetData(r, x) == [r EXCEPT !.data = x, !.valid = TRUE]
SetRef(r, n) == [r EXCEPT !.refcnt = n]
SetBlock(r, k) == [r EXCEPT !.blockno = k, !.valid = FALSE, !.refcnt = 1]

\* acquiresleep sets locked and pid.
LEMMA LockFields ==
  ASSUME NEW r \in BufTypes, NEW y \in BioProcs
  PROVE  /\ SetLock(r, y) \in BufTypes
         /\ SetLock(r, y).blockno = r.blockno /\ SetLock(r, y).valid = r.valid
         /\ SetLock(r, y).refcnt = r.refcnt /\ SetLock(r, y).data = r.data
         /\ SetLock(r, y).locked = TRUE /\ SetLock(r, y).pid = y
BY ZenonT(60) DEF SetLock, BufTypes

\* releasesleep clears them.
LEMMA ClearFields ==
  ASSUME NEW r \in BufTypes
  PROVE  /\ ClearLock(r) \in BufTypes
         /\ ClearLock(r).blockno = r.blockno /\ ClearLock(r).valid = r.valid
         /\ ClearLock(r).refcnt = r.refcnt /\ ClearLock(r).data = r.data
         /\ ClearLock(r).locked = FALSE
BY ZenonT(60) DEF ClearLock, BufTypes

\* bread fills the buffer, its holder changes it.
LEMMA DataFields ==
  ASSUME NEW r \in BufTypes, NEW x \in {0, 1}
  PROVE  /\ SetData(r, x) \in BufTypes
         /\ SetData(r, x).blockno = r.blockno /\ SetData(r, x).valid = TRUE
         /\ SetData(r, x).refcnt = r.refcnt /\ SetData(r, x).data = x
         /\ SetData(r, x).locked = r.locked /\ SetData(r, x).pid = r.pid
BY ZenonT(60) DEF SetData, BufTypes

\* bget, bpin, bunpin and brelse count.
LEMMA RefFields ==
  ASSUME NEW r \in BufTypes, NEW n \in Int
  PROVE  /\ SetRef(r, n) \in BufTypes
         /\ SetRef(r, n).blockno = r.blockno /\ SetRef(r, n).valid = r.valid
         /\ SetRef(r, n).refcnt = n /\ SetRef(r, n).data = r.data
         /\ SetRef(r, n).locked = r.locked /\ SetRef(r, n).pid = r.pid
BY Zenon DEF SetRef, BufTypes

\* bget takes the buffer for another block.
LEMMA RecycledFields ==
  ASSUME NEW r \in BufTypes, NEW k \in BioBlocks
  PROVE  /\ SetBlock(r, k) \in BufTypes /\ SetBlock(r, k).blockno = k
         /\ SetBlock(r, k).valid = FALSE /\ SetBlock(r, k).refcnt = 1
<1> DEFINE u == [r EXCEPT !.blockno = k, !.valid = FALSE]
<1>1. u \in BufTypes /\ u.blockno = k /\ u.valid = FALSE BY ZenonT(60) DEF BufTypes
<1>2. SetBlock(r, k) = SetRef(u, 1) BY Zenon DEF SetBlock, SetRef
<1> HIDE DEF u
<1> QED BY <1>1, <1>2, RefFields

\* The buffer of a process.
LEMMA HasBuffer ==
  ASSUME BioInv, NEW p \in BioProcs, bp[p].pc # "out"
  PROVE  /\ bp[p].b \in Bufs /\ buf[bp[p].b] \in BufTypes
         /\ buf[bp[p].b].blockno \in BioBlocks
<1>1. bp[p].b \in Places /\ bp[p].b # 0 BY Zenon DEF BioInv, BioTypes, Engaged
<1>2. NBUF \in Nat BY Zenon, BioAssumption
<1>3. bp[p].b \in Bufs BY <1>1, <1>2 DEF Places, Bufs
<1>4. buf[bp[p].b] \in BufTypes BY Zenon, <1>3 DEF BioInv, BioTypes
<1>5. buf[bp[p].b].blockno # 0 BY Zenon, <1>1 DEF BioInv, Engaged
<1> QED BY Zenon, <1>3, <1>4, <1>5 DEF BufTypes

\* Where nobody takes or drops a buffer, its users are the same.
LEMMA SameUsers ==
  ASSUME NEW b, \A q \in BioProcs : bp'[q].b = bp[q].b
  PROVE  Users(b)' = Users(b)
BY Zenon DEF Users

\* bget does not recycle what a process has: such a buffer has a reference.
LEMMA UsersFinite ==
  ASSUME NEW b
  PROVE  /\ IsFiniteSet(Users(b)) /\ Cardinality(Users(b)) \in Nat
         /\ \A p \in BioProcs : bp[p].b = b => Cardinality(Users(b)) > 0
<1>1. IsFiniteSet(BioProcs) BY Zenon, BioAssumption
<1>2. Users(b) \in SUBSET BioProcs BY Zenon DEF Users
<1>3. IsFiniteSet(Users(b)) /\ Cardinality(Users(b)) \in Nat BY Zenon, <1>1, <1>2, FS_Subset,
    FS_CardinalityType
<1>4. ASSUME NEW p \in BioProcs, bp[p].b = b PROVE Cardinality(Users(b)) # 0
  BY Zenon, <1>3, <1>4, FS_EmptySet DEF Users
<1> QED BY <1>3, <1>4

-----------------------------------------------------------------------------
(* The actions.                                                            *)

\* acquiresleep keeps the invariant: it takes a lock that nobody holds, or sleeps.
LEMMA AcquireStep == ASSUME BioInv, NEW p \in BioProcs, acquiresleep(p) PROVE BioInv'
<1> DEFINE b == bp[p].b
<1>1. bp[p].pc = "want" /\ b \in Bufs /\ buf[b] \in BufTypes BY Zenon, HasBuffer
    DEF acquiresleep, BioAt
<1>2. BioTypes BY Zenon DEF BioInv
<1>3. UNCHANGED <<nxt, prv, order, disk, latest, pinned, bioPanic>> BY Zenon DEF acquiresleep, list
<1>6. \A q \in BioProcs : bp[q].pc # "out" => bp[q].b \in Bufs BY Zenon, HasBuffer
<1>4. CASE buf[b].locked
  <2>1. Moves(p, "asleep") BY Zenon, <1>2, <1>4, GotoMoves DEF acquiresleep, B, BioPoints
  <2>2. buf' = buf BY Zenon, <1>4 DEF acquiresleep, B
  <2>3. BioTypes' BY Zenon, <1>2, <1>3, <2>1, <2>2 DEF BioTypes, Moves, BpTypes
  <2>4. ListInv' BY Zenon, <1>3 DEF BioInv, ListInv
  <2>5. Engaged' BY Zenon, <1>1, <2>1, <2>2 DEF BioInv, Engaged, Moves
  <2>6. Counted' /\ Unique' /\ Pinned'
    BY <1>3, <2>1, <2>2, SameUsers DEF BioInv, Counted, Unique, Pinned, Moves
  <2>7. Locks' BY <1>4, <2>1, <2>2 DEF BioInv, Locks, BioHolds, Moves
  <2>8. Latest' BY <1>1, <1>3, <2>1, <2>2 DEF BioInv, Latest, Moves
  <2> QED BY Zenon, <2>3, <2>4, <2>5, <2>6, <2>7, <2>8 DEF BioInv
<1>5. CASE ~buf[b].locked
  <2>1. Moves(p, "got") BY Zenon, <1>2, <1>5, GotoMoves DEF acquiresleep, B, BioPoints
  <2>2. BufBecomes(b, SetLock(buf[b], p))
    <3>1. buf' = [buf EXCEPT ![b] = SetLock(buf[b], p)]
      BY ZenonT(60), <1>1, <1>2, <1>5 DEF acquiresleep, B, BioTypes, SetLock
    <3> QED BY ZenonT(60), <1>1, <1>2, <3>1, LockFields, BufUpdate
  <2>3. BioTypes' BY Zenon, <1>2, <1>3, <2>1, <2>2 DEF BioTypes, Moves, BpTypes, BufBecomes
  <2>4. ListInv' BY <1>3 DEF BioInv, ListInv
  <2>5. \A c \in Bufs : /\ buf'[c].blockno = buf[c].blockno /\ buf'[c].valid = buf[c].valid
                        /\ buf'[c].refcnt = buf[c].refcnt /\ buf'[c].data = buf[c].data
    <3> DEFINE s == SetLock(buf[b], p)
    <3>1. s.blockno = buf[b].blockno /\ s.valid = buf[b].valid /\ s.refcnt = buf[b].refcnt /\ s.data = buf[b].data
      BY ZenonT(60), <1>1, LockFields
    <3> QED BY Zenon, <2>2, <3>1 DEF BufBecomes
  <2>6. Engaged' BY <1>1, <1>6, <2>1, <2>5 DEF BioInv, Engaged, Moves
  <2>7. Counted' /\ Unique' /\ Pinned'
    BY <1>3, <2>1, <2>5, SameUsers DEF BioInv, Counted, Unique, Pinned, Moves
  <2>8. Locks'
    <3>1. buf'[b].locked /\ buf'[b].pid = p
      <4>1. SetLock(buf[b], p).locked = TRUE /\ SetLock(buf[b], p).pid = p BY ZenonT(60), <1>1,
          LockFields
      <4> QED BY Zenon, <2>2, <4>1 DEF BufBecomes
    <3>2. \A c \in Bufs : c # b => buf'[c].locked = buf[c].locked /\ buf'[c].pid = buf[c].pid
      BY Zenon, <2>2 DEF BufBecomes
    <3> QED BY <1>5, <1>6, <2>1, <3>1, <3>2 DEF BioInv, Locks, BioHolds, Moves
  <2>9. Latest' BY <1>1, <1>3, <1>6, <2>1, <2>5 DEF BioInv, Latest, Moves
  <2> QED BY <2>3, <2>4, <2>6, <2>7, <2>8, <2>9 DEF BioInv
<1> QED BY Zenon, <1>4, <1>5

\* Only p can be past acquiresleep for the buffer it holds, or for its block.
LEMMA HoldsAlone ==
  ASSUME BioInv, NEW p \in BioProcs, NEW q \in BioProcs, BioHolds(p), BioHolds(q),
         buf[bp[p].b].blockno = buf[bp[q].b].blockno
  PROVE  p = q
<1>1. bp[p].pc # "out" /\ bp[q].pc # "out" BY Zenon DEF BioHolds
<1>2. bp[p].b \in Bufs /\ bp[q].b \in Bufs /\ buf[bp[p].b].blockno \in BioBlocks BY Zenon, <1>1,
    HasBuffer
<1>3. bp[p].b = bp[q].b BY Zenon, <1>2, BioAssumption DEF BioInv, Unique
<1> QED BY Zenon, <1>3 DEF BioInv, Locks

\* bread keeps it: what is not in the cache is neither pinned nor being changed,
\* so that the disk has the latest contents.
LEMMA ReadStep == ASSUME BioInv, NEW p \in BioProcs, bread(p) PROVE BioInv'
<1> DEFINE b == bp[p].b
           k == buf[b].blockno
<1>1. bp[p].pc = "got" /\ b \in Bufs /\ buf[b] \in BufTypes /\ k \in BioBlocks
  BY Zenon, HasBuffer DEF bread, BioAt
<1>2. BioTypes BY DEF BioInv
<1>3. UNCHANGED <<nxt, prv, order, disk, latest, pinned, bioPanic>> BY Zenon DEF bread, list
<1>4. \A q \in BioProcs : bp[q].pc # "out" => bp[q].b \in Bufs BY HasBuffer
<1>5. Moves(p, "hold") BY Zenon, <1>2, GotoMoves DEF bread, BioPoints
<1>6. ListInv' BY <1>3 DEF BioInv, ListInv
<1>7. CASE buf[b].valid
  <2>1. buf' = buf BY Zenon, <1>7 DEF bread, B
  <2>2. BioTypes' BY Zenon, <1>2, <1>3, <1>5, <2>1 DEF BioTypes, Moves, BpTypes
  <2>3. Engaged' BY Zenon, <1>1, <1>5, <2>1 DEF BioInv, Engaged, Moves
  <2>4. Counted' /\ Unique' /\ Pinned'
    BY <1>3, <1>5, <2>1, SameUsers DEF BioInv, Counted, Unique, Pinned, Moves
  <2>5. Locks' BY Zenon, <1>1, <1>5, <2>1 DEF BioInv, Locks, BioHolds, Moves
  <2>6. Latest' BY <1>1, <1>3, <1>5, <1>7, <2>1 DEF BioInv, Latest, Moves
  <2> QED BY Zenon, <1>6, <2>2, <2>3, <2>4, <2>5, <2>6 DEF BioInv
<1>8. CASE ~buf[b].valid
  <2>1. disk[k] = latest[k]
    <3>1. k \notin pinned
      <4>1. \A c \in Bufs : buf[c].blockno = k => c = b BY Zenon, <1>1, BioAssumption
                                                           DEF BioInv, Unique
      <4> QED BY Zenon, <1>8, <4>1 DEF BioInv, Pinned
    <3>2. ASSUME NEW q \in BioProcs, bp[q].pc = "dirty" PROVE buf[bp[q].b].blockno # k
      BY Zenon, <1>1, <3>2, HoldsAlone DEF BioHolds
    <3> QED BY <1>1, <3>1, <3>2 DEF BioInv, Latest
  <2>2. disk[k] \in {0, 1} BY SMTT(30), <1>1, <1>2 DEF BioTypes
  <2> DEFINE s == SetData(buf[b], disk[k])
  <2>3. s \in BufTypes /\ s.blockno = k /\ s.valid /\ s.refcnt = buf[b].refcnt
        /\ s.data = disk[k] /\ s.locked = buf[b].locked /\ s.pid = buf[b].pid
    BY ZenonT(60), <1>1, <2>2, DataFields
  <2>4. BufBecomes(b, s)
    <3>1. buf' = [buf EXCEPT ![b] = s] BY ZenonT(60), <1>1, <1>2, <1>8
                                          DEF bread, B, BioTypes, SetData
    <3> QED BY ZenonT(60), <1>1, <1>2, <2>3, <3>1, BufUpdate
  <2> HIDE DEF s
  <2>5. BioTypes' BY Zenon, <1>2, <1>3, <1>5, <2>4 DEF BioTypes, Moves, BpTypes, BufBecomes
  <2>6. \A c \in Bufs : /\ buf'[c].blockno = buf[c].blockno /\ buf'[c].refcnt = buf[c].refcnt
                        /\ buf'[c].locked = buf[c].locked /\ buf'[c].pid = buf[c].pid
    BY Zenon, <2>3, <2>4 DEF BufBecomes
  <2>7. Engaged' BY <1>1, <1>4, <1>5, <2>6 DEF BioInv, Engaged, Moves
  <2>8. Counted' /\ Unique'
    BY <1>3, <1>5, <2>6, SameUsers DEF BioInv, Counted, Unique, Moves
  <2>9. Locks' BY <1>1, <1>4, <1>5, <2>6 DEF BioInv, Locks, BioHolds, Moves
  <2>10. \A c \in Bufs : c # b => buf'[c] = buf[c] BY Zenon, <2>4 DEF BufBecomes
  <2>11. buf'[b].valid /\ buf'[b].data = latest[k] /\ buf'[b].blockno = k
    BY Zenon, <2>1, <2>3, <2>4 DEF BufBecomes
  <2>12. Pinned' BY <1>1, <1>3, <2>10, <2>11 DEF BioInv, Pinned
  <2>13. Latest'
    <3>1. \A c \in Bufs : buf'[c].valid => buf'[c].blockno # 0 /\ buf'[c].data = latest'[buf'[c].blockno]
      BY <1>1, <1>3, <2>10, <2>11, BioAssumption DEF BioInv, Latest
    <3>2. \A q \in BioProcs : bp'[q].pc \in {"hold", "dirty", "written"} => buf'[bp'[q].b].valid
      BY <1>4, <1>5, <2>10, <2>11 DEF BioInv, Latest, Moves
    <3>3. \A q \in BioProcs : bp'[q].pc = "written" =>
            disk'[buf'[bp'[q].b].blockno] = latest'[buf'[bp'[q].b].blockno]
      BY <1>3, <1>4, <1>5, <2>6 DEF BioInv, Latest, Moves
    <3>4. \A j \in BioBlocks : \/ disk'[j] = latest'[j] \/ j \in pinned'
                               \/ \E q \in BioProcs : bp'[q].pc = "dirty" /\ buf'[bp'[q].b].blockno = j
      BY <1>1, <1>3, <1>4, <1>5, <2>6 DEF BioInv, Latest, Moves
    <3> QED BY Zenon, <3>1, <3>2, <3>3, <3>4 DEF Latest
  <2> QED BY Zenon, <1>6, <2>5, <2>7, <2>8, <2>9, <2>12, <2>13 DEF BioInv
<1> QED BY Zenon, <1>7, <1>8

\* The holder of a buffer changes it: nobody else has the block.
LEMMA ModifyStep == ASSUME BioInv, NEW p \in BioProcs, Modify(p) PROVE BioInv'
<1> DEFINE b == bp[p].b
           k == buf[b].blockno
           x == 1 - buf[b].data
<1>1. bp[p].pc = "hold" /\ b \in Bufs /\ buf[b] \in BufTypes /\ k \in BioBlocks
  BY Zenon, HasBuffer DEF Modify, BioAt
<1>2. BioTypes BY DEF BioInv
<1>3. UNCHANGED <<nxt, prv, order, disk, pinned, bioPanic>> BY Zenon DEF Modify, list
<1>4. \A q \in BioProcs : bp[q].pc # "out" => bp[q].b \in Bufs BY HasBuffer
<1>5. Moves(p, "dirty") BY Zenon, <1>2, GotoMoves DEF Modify, BioPoints
<1>6. ListInv' BY Zenon, <1>3 DEF BioInv, ListInv
<1>7. x \in {0, 1} BY <1>1 DEF BufTypes
<1>8. buf[b].valid = TRUE BY Zenon, <1>1 DEF BioInv, Latest, BufTypes
<1> DEFINE s == SetData(buf[b], x)
<1>9. s \in BufTypes /\ s.blockno = k /\ s.valid = TRUE /\ s.refcnt = buf[b].refcnt
      /\ s.data = x /\ s.locked = buf[b].locked /\ s.pid = buf[b].pid
  BY ZenonT(60), <1>1, <1>7, DataFields
<1>10. BufBecomes(b, s)
  <2>1. buf' = [buf EXCEPT ![b] = [buf[b] EXCEPT !.data = x]] BY Zenon, <1>1, <1>2
      DEF Modify, BioTypes
  <2>2. [buf[b] EXCEPT !.data = x] = s BY ZenonT(60), <1>1, <1>8 DEF SetData, BufTypes
  <2> QED BY ZenonT(60), <1>1, <1>2, <1>9, <2>1, <2>2, BufUpdate
<1>11. latest' = [latest EXCEPT ![k] = x] BY Zenon DEF Modify, B
<1> HIDE DEF s, x
<1>12. BioTypes' BY Zenon, <1>1, <1>2, <1>3, <1>5, <1>7, <1>10, <1>11
                    DEF BioTypes, Moves, BpTypes, BufBecomes
<1>13. \A c \in Bufs : /\ buf'[c].blockno = buf[c].blockno /\ buf'[c].refcnt = buf[c].refcnt
                      /\ buf'[c].locked = buf[c].locked /\ buf'[c].pid = buf[c].pid
                      /\ buf'[c].valid = buf[c].valid
  BY ZenonT(60), <1>8, <1>9, <1>10 DEF BufBecomes
<1>14. Engaged' BY <1>1, <1>4, <1>5, <1>13 DEF BioInv, Engaged, Moves
<1>15. Counted' /\ Unique' /\ Pinned'
  BY <1>3, <1>5, <1>13, SameUsers DEF BioInv, Counted, Unique, Pinned, Moves
<1>16. Locks' BY <1>1, <1>4, <1>5, <1>13 DEF BioInv, Locks, BioHolds, Moves
<1>17. buf'[b].data = x /\ \A c \in Bufs : c # b => buf'[c].data = buf[c].data
  BY Zenon, <1>9, <1>10 DEF BufBecomes
<1>18. latest'[k] = x /\ \A j \in BioBlocks : j # k => latest'[j] = latest[j]
  BY Zenon, <1>1, <1>2, <1>11 DEF BioTypes
<1>19. Latest'
  <2>1. ASSUME NEW c \in Bufs, buf'[c].valid
        PROVE  buf'[c].blockno # 0 /\ buf'[c].data = latest'[buf'[c].blockno]
    <3>1. buf[c].valid /\ buf[c].blockno # 0 /\ buf[c].data = latest[buf[c].blockno]
      BY Zenon, <1>13, <2>1 DEF BioInv, Latest
    <3>2. buf[c].blockno \in BioBlocks BY Zenon, <1>2, <3>1 DEF BioTypes, BufTypes
    <3>3. c # b => buf[c].blockno # k BY Zenon, <1>1, <3>1 DEF BioInv, Unique
    <3> QED BY Zenon, <1>13, <1>17, <1>18, <3>1, <3>2, <3>3
  <2>2. \A q \in BioProcs : bp'[q].pc \in {"hold", "dirty", "written"} => buf'[bp'[q].b].valid
    BY <1>1, <1>4, <1>5, <1>13 DEF BioInv, Latest, Moves
  <2>3. ASSUME NEW q \in BioProcs, bp'[q].pc = "written"
        PROVE  disk'[buf'[bp'[q].b].blockno] = latest'[buf'[bp'[q].b].blockno]
    <3>1. q # p /\ bp[q].pc = "written" /\ bp'[q].b = bp[q].b BY Zenon, <1>5, <2>3 DEF Moves
    <3>2. buf[bp[q].b].blockno # k BY Zenon, <1>1, <3>1, HoldsAlone DEF BioHolds
    <3>3. bp[q].b \in Bufs /\ buf[bp[q].b].blockno \in BioBlocks BY Zenon, <3>1, HasBuffer
    <3> QED BY <1>3, <1>13, <1>18, <3>1, <3>2, <3>3 DEF BioInv, Latest
  <2>4. ASSUME NEW j \in BioBlocks
        PROVE  \/ disk'[j] = latest'[j] \/ j \in pinned'
               \/ \E q \in BioProcs : bp'[q].pc = "dirty" /\ buf'[bp'[q].b].blockno = j
    <3>1. CASE j = k BY Zenon, <1>1, <1>5, <1>13, <3>1 DEF Moves
    <3>2. CASE j # k
      <4>1. \A q \in BioProcs : bp[q].pc = "dirty" => bp'[q].pc = "dirty" /\ buf'[bp'[q].b].blockno = buf[bp[q].b].blockno
        BY <1>1, <1>4, <1>5, <1>13 DEF Moves
      <4> QED BY <1>3, <1>18, <3>2, <4>1 DEF BioInv, Latest
    <3> QED BY Zenon, <3>1, <3>2
  <2> QED BY Zenon, <2>1, <2>2, <2>3, <2>4 DEF Latest
<1> QED BY <1>6, <1>12, <1>14, <1>15, <1>16, <1>19 DEF BioInv

\* bwrite keeps it, and is called by the holder.
LEMMA WriteStep == ASSUME BioInv, NEW p \in BioProcs, bwrite(p) PROVE BioInv'
<1> DEFINE b == bp[p].b
           k == buf[b].blockno
<1>1. BioHolds(p) /\ bp[p].pc \in {"hold", "dirty"} BY Zenon DEF bwrite, BioAt, BioHolds
<1>2. b \in Bufs /\ buf[b] \in BufTypes /\ k \in BioBlocks BY Zenon, <1>1, HasBuffer
<1>3. BioTypes BY DEF BioInv
<1>4. UNCHANGED <<buf, nxt, prv, order, latest, pinned>> BY Zenon DEF bwrite, list
<1>5. \A q \in BioProcs : bp[q].pc # "out" => bp[q].b \in Bufs BY HasBuffer
<1>6. Moves(p, "written") BY Zenon, <1>3, GotoMoves DEF bwrite, BioPoints
<1>7. ListInv' BY Zenon, <1>4 DEF BioInv, ListInv
<1>8. bioPanic' = FALSE BY ZenonT(60), <1>1 DEF bwrite, holdingsleep, B, BioInv, Locks
<1>9. buf[b].valid /\ buf[b].data = latest[k] /\ buf[b].data \in {0, 1}
  BY Zenon, <1>1, <1>2 DEF BioInv, Latest, BufTypes
<1>10. disk' = [disk EXCEPT ![k] = latest[k]] BY Zenon, <1>9 DEF bwrite, B
<1>11. BioTypes' BY Zenon, <1>2, <1>3, <1>4, <1>6, <1>8, <1>9, <1>10 DEF BioTypes, Moves, BpTypes
<1>12. Engaged' BY Zenon, <1>1, <1>4, <1>6 DEF BioInv, Engaged, Moves
<1>13. Counted' /\ Unique' /\ Pinned'
  BY <1>4, <1>6, SameUsers DEF BioInv, Counted, Unique, Pinned, Moves
<1>14. Locks' BY Zenon, <1>1, <1>4, <1>6 DEF BioInv, Locks, BioHolds, Moves
<1>15. disk'[k] = latest[k] /\ \A j \in BioBlocks : j # k => disk'[j] = disk[j]
  BY Zenon, <1>2, <1>3, <1>10 DEF BioTypes
<1>16. Latest'
  <2>1. \A c \in Bufs : buf'[c].valid => buf'[c].blockno # 0 /\ buf'[c].data = latest'[buf'[c].blockno]
    BY Zenon, <1>4 DEF BioInv, Latest
  <2>2. \A q \in BioProcs : bp'[q].pc \in {"hold", "dirty", "written"} => buf'[bp'[q].b].valid
    BY <1>1, <1>4, <1>6 DEF BioInv, Latest, Moves
  <2>3. ASSUME NEW q \in BioProcs, bp'[q].pc = "written"
        PROVE  disk'[buf'[bp'[q].b].blockno] = latest'[buf'[bp'[q].b].blockno]
    <3>1. CASE q = p BY SMTT(30), <1>4, <1>6, <1>15, <3>1 DEF Moves
    <3>2. CASE q # p
      <4>1. bp[q].pc = "written" /\ bp'[q].b = bp[q].b BY Zenon, <1>6, <2>3, <3>2 DEF Moves
      <4>2. buf[bp[q].b].blockno # k BY Zenon, <1>1, <3>2, <4>1, HoldsAlone DEF BioHolds
      <4>3. buf[bp[q].b].blockno \in BioBlocks BY Zenon, <4>1, HasBuffer
      <4> QED BY <1>4, <1>15, <4>1, <4>2, <4>3 DEF BioInv, Latest
    <3> QED BY Zenon, <3>1, <3>2
  <2>4. ASSUME NEW j \in BioBlocks
        PROVE  \/ disk'[j] = latest'[j] \/ j \in pinned'
               \/ \E q \in BioProcs : bp'[q].pc = "dirty" /\ buf'[bp'[q].b].blockno = j
    <3>1. CASE j = k BY Zenon, <1>4, <1>15, <3>1
    <3>2. CASE j # k
      <4>1. ASSUME NEW q \in BioProcs, bp[q].pc = "dirty", buf[bp[q].b].blockno = j
            PROVE  bp'[q].pc = "dirty" /\ buf'[bp'[q].b].blockno = j
        BY Zenon, <1>4, <1>6, <3>2, <4>1 DEF Moves
      <4> QED BY Zenon, <1>4, <1>15, <3>2, <4>1 DEF BioInv, Latest
    <3> QED BY <3>1, <3>2
  <2> QED BY Zenon, <2>1, <2>2, <2>3, <2>4 DEF Latest
<1> QED BY <1>7, <1>11, <1>12, <1>13, <1>14, <1>16 DEF BioInv

\* bpin keeps it: one more reference, and the change stays in the cache.
LEMMA PinStep == ASSUME BioInv, NEW p \in BioProcs, bpin(p) PROVE BioInv'
<1> DEFINE b == bp[p].b
           k == buf[b].blockno
<1>1. bp[p].pc = "dirty" BY Zenon DEF bpin, BioAt
<1>2. b \in Bufs /\ buf[b] \in BufTypes /\ k \in BioBlocks BY Zenon, <1>1, HasBuffer
<1>3. BioTypes BY DEF BioInv
<1>4. UNCHANGED <<nxt, prv, order, disk, latest, bioPanic>> BY Zenon DEF bpin, list
<1>5. \A q \in BioProcs : bp[q].pc # "out" => bp[q].b \in Bufs BY HasBuffer
<1>6. Moves(p, "hold") BY Zenon, <1>3, GotoMoves DEF bpin, BioPoints
<1>7. ListInv' BY <1>4 DEF BioInv, ListInv
<1>8. buf[b].valid BY Zenon, <1>1 DEF BioInv, Latest
<1>9. CASE k \in pinned
  <2>1. buf' = buf /\ pinned' = pinned BY Zenon, <1>9 DEF bpin, B
  <2>2. BioTypes' BY Zenon, <1>3, <1>4, <1>6, <2>1 DEF BioTypes, Moves, BpTypes
  <2>3. Engaged' BY Zenon, <1>1, <1>6, <2>1 DEF BioInv, Engaged, Moves
  <2>4. Counted' /\ Unique' /\ Pinned'
    BY <1>6, <2>1, SameUsers DEF BioInv, Counted, Unique, Pinned, Moves
  <2>5. Locks' BY Zenon, <1>1, <1>6, <2>1 DEF BioInv, Locks, BioHolds, Moves
  <2>6. Latest'
    <3>1. ASSUME NEW j \in BioBlocks
          PROVE  \/ disk'[j] = latest'[j] \/ j \in pinned'
                 \/ \E q \in BioProcs : bp'[q].pc = "dirty" /\ buf'[bp'[q].b].blockno = j
      BY <1>4, <1>6, <1>9, <2>1 DEF BioInv, Latest, Moves
    <3> QED BY <1>1, <1>4, <1>6, <1>8, <2>1, <3>1 DEF BioInv, Latest, Moves
  <2> QED BY <1>7, <2>2, <2>3, <2>4, <2>5, <2>6 DEF BioInv
<1>10. CASE k \notin pinned
  <2>1. pinned' = pinned \cup {k} /\ Cardinality(pinned) < MaxPins BY Zenon, <1>10 DEF bpin, B
  <2> DEFINE s == SetRef(buf[b], buf[b].refcnt + 1)
  <2>2. s \in BufTypes /\ s.blockno = k /\ s.valid = buf[b].valid /\ s.refcnt = buf[b].refcnt + 1
        /\ s.data = buf[b].data /\ s.locked = buf[b].locked /\ s.pid = buf[b].pid
    <3>1. buf[b].refcnt + 1 \in Int BY SMTT(30), <1>2 DEF BufTypes
    <3> QED BY Zenon, <1>2, <3>1, RefFields
  <2>3. BufBecomes(b, s)
    <3>1. buf' = [buf EXCEPT ![b] = s] BY Zenon, <1>2, <1>3, <1>10 DEF bpin, B, BioTypes, SetRef
    <3> QED BY ZenonT(60), <1>2, <1>3, <2>2, <3>1, BufUpdate
  <2> HIDE DEF s
  <2>4. \A c \in Bufs : /\ buf'[c].blockno = buf[c].blockno /\ buf'[c].data = buf[c].data
                        /\ buf'[c].locked = buf[c].locked /\ buf'[c].pid = buf[c].pid
                        /\ buf'[c].valid = buf[c].valid
    BY Zenon, <2>2, <2>3 DEF BufBecomes
  <2>5. IsFiniteSet(pinned') /\ Cardinality(pinned') <= MaxPins
    <3>1. IsFiniteSet(pinned) BY Zenon, <1>3 DEF BioTypes
    <3>2. Cardinality(pinned) \in Nat BY Zenon, <3>1, FS_CardinalityType
    <3>3. IsFiniteSet(pinned \cup {k}) /\ Cardinality(pinned \cup {k}) = Cardinality(pinned) + 1
      BY ZenonT(60), <1>10, <3>1, FS_AddElement
    <3>4. MaxPins \in Nat BY Zenon, BioAssumption
    <3> QED BY <2>1, <3>2, <3>3, <3>4
  <2>6. BioTypes' BY Zenon, <1>2, <1>3, <1>4, <1>6, <2>1, <2>3, <2>5
                     DEF BioTypes, Moves, BpTypes, BufBecomes
  <2>7. Engaged' BY <1>1, <1>5, <1>6, <2>4 DEF BioInv, Engaged, Moves
  <2>8. Unique' BY <2>4 DEF BioInv, Unique
  <2>9. Counted'
    <3>1. ASSUME NEW c \in Bufs
          PROVE  buf'[c].refcnt = Cardinality(Users(c)') + (IF buf'[c].blockno \in pinned' THEN 1 ELSE 0)
      <4>1. Users(c)' = Users(c) BY Zenon, <1>6, SameUsers DEF Moves
      <4>2. buf[c].refcnt = Cardinality(Users(c)) + (IF buf[c].blockno \in pinned THEN 1 ELSE 0)
        BY Zenon DEF BioInv, Counted
      <4>3. Cardinality(Users(c)) \in Nat BY Zenon, UsersFinite
      <4>4. CASE c = b
        <5>1. buf'[c].refcnt = buf[c].refcnt + 1 BY Zenon, <2>2, <2>3, <4>4 DEF BufBecomes
        <5> QED BY <1>10, <2>1, <2>4, <4>1, <4>2, <4>3, <4>4, <5>1
      <4>5. CASE c # b
        <5>1. buf'[c].refcnt = buf[c].refcnt BY Zenon, <2>3, <4>5 DEF BufBecomes
        <5>2. buf[c].blockno # k BY Zenon, <1>2, <4>5, BioAssumption DEF BioInv, Unique
        <5> QED BY Zenon, <2>1, <2>4, <4>1, <4>2, <5>1, <5>2
      <4> QED BY Zenon, <4>4, <4>5
    <3> QED BY Zenon, <3>1 DEF Counted
  <2>10. Locks' BY <1>1, <1>5, <1>6, <2>4 DEF BioInv, Locks, BioHolds, Moves
  <2>11. Pinned' BY <1>2, <1>8, <2>1, <2>4 DEF BioInv, Pinned
  <2>12. Latest'
    <3>1. ASSUME NEW j \in BioBlocks
          PROVE  \/ disk'[j] = latest'[j] \/ j \in pinned'
                 \/ \E q \in BioProcs : bp'[q].pc = "dirty" /\ buf'[bp'[q].b].blockno = j
      <4>1. CASE j = k BY Zenon, <2>1, <4>1
      <4>2. CASE j # k
        <5>1. ASSUME NEW q \in BioProcs, bp[q].pc = "dirty", buf[bp[q].b].blockno = j
              PROVE  bp'[q].pc = "dirty" /\ buf'[bp'[q].b].blockno = j
          BY Zenon, <1>5, <1>6, <2>4, <4>2, <5>1 DEF Moves
        <5> QED BY Zenon, <1>4, <2>1, <5>1 DEF BioInv, Latest
      <4> QED BY <4>1, <4>2
    <3>2. \A c \in Bufs : buf'[c].valid => buf'[c].blockno # 0 /\ buf'[c].data = latest'[buf'[c].blockno]
      BY <1>4, <2>4 DEF BioInv, Latest
    <3>3. \A q \in BioProcs : bp'[q].pc \in {"hold", "dirty", "written"} => buf'[bp'[q].b].valid
      BY <1>1, <1>2, <1>5, <1>6, <1>8, <2>4 DEF BioInv, Latest, Moves
    <3>4. \A q \in BioProcs : bp'[q].pc = "written" =>
            disk'[buf'[bp'[q].b].blockno] = latest'[buf'[bp'[q].b].blockno]
      BY <1>4, <1>5, <1>6, <2>4 DEF BioInv, Latest, Moves
    <3> QED BY Zenon, <3>1, <3>2, <3>3, <3>4 DEF Latest
  <2> QED BY Zenon, <1>7, <2>6, <2>7, <2>8, <2>9, <2>10, <2>11, <2>12 DEF BioInv
<1> QED BY Zenon, <1>9, <1>10

\* bunpin keeps it: what is no longer pinned has been written.
LEMMA UnpinStep == ASSUME BioInv, NEW p \in BioProcs, bunpin(p) PROVE BioInv'
<1> DEFINE b == bp[p].b
           k == buf[b].blockno
           m == IF k \in pinned THEN buf[b].refcnt - 1 ELSE buf[b].refcnt
           s == SetRef(buf[b], m)
<1>1. bp[p].pc = "written" BY Zenon DEF bunpin, BioAt
<1>2. b \in Bufs /\ buf[b] \in BufTypes /\ k \in BioBlocks BY Zenon, <1>1, HasBuffer
<1>3. BioTypes BY DEF BioInv
<1>4. UNCHANGED <<nxt, prv, order, disk, latest, bioPanic>> BY Zenon DEF bunpin, list
<1>5. \A q \in BioProcs : bp[q].pc # "out" => bp[q].b \in Bufs BY HasBuffer
<1>6. Moves(p, "hold") BY Zenon, <1>3, GotoMoves DEF bunpin, BioPoints
<1>7. ListInv' BY <1>4 DEF BioInv, ListInv
<1>8. buf[b].valid /\ disk[k] = latest[k] BY Zenon, <1>1 DEF BioInv, Latest
<1>9. pinned' = pinned \ {k} BY Zenon DEF bunpin, B
<1>10. s \in BufTypes /\ s.blockno = k /\ s.valid = buf[b].valid /\ s.refcnt = m
       /\ s.data = buf[b].data /\ s.locked = buf[b].locked /\ s.pid = buf[b].pid
  <2>1. m \in Int BY SMTT(30), <1>2 DEF BufTypes
  <2> HIDE DEF m
  <2> QED BY Zenon, <1>2, <2>1, RefFields
<1>11. BufBecomes(b, s)
  <2>1. buf' = [buf EXCEPT ![b] = s] BY Zenon, <1>2, <1>3 DEF bunpin, B, BioTypes, SetRef
  <2> QED BY ZenonT(60), <1>2, <1>3, <1>10, <2>1, BufUpdate
<1> HIDE DEF s
<1>12. \A c \in Bufs : /\ buf'[c].blockno = buf[c].blockno /\ buf'[c].data = buf[c].data
                      /\ buf'[c].locked = buf[c].locked /\ buf'[c].pid = buf[c].pid
                      /\ buf'[c].valid = buf[c].valid
  BY Zenon, <1>10, <1>11 DEF BufBecomes
<1>13. IsFiniteSet(pinned') /\ Cardinality(pinned') <= MaxPins
  <2>1. IsFiniteSet(pinned) /\ Cardinality(pinned) <= MaxPins BY Zenon, <1>3 DEF BioTypes
  <2>2. CASE k \in pinned
    <3>1. IsFiniteSet(pinned \ {k}) /\ Cardinality(pinned \ {k}) = Cardinality(pinned) - 1
      BY Zenon, <2>1, <2>2, FS_RemoveElement
    <3>2. Cardinality(pinned) \in Nat BY Zenon, <2>1, FS_CardinalityType
    <3>3. Cardinality(pinned) - 1 <= MaxPins BY <2>1, <3>2, BioAssumption
    <3> QED BY Zenon, <1>9, <3>1, <3>3
  <2>3. CASE k \notin pinned
    <3>1. pinned' = pinned BY Zenon, <1>9, <2>3
    <3> QED BY Zenon, <2>1, <3>1
  <2> QED BY Zenon, <2>2, <2>3
<1>14. BioTypes' BY Zenon, <1>2, <1>3, <1>4, <1>6, <1>9, <1>11, <1>13
                    DEF BioTypes, Moves, BpTypes, BufBecomes
<1>15. Engaged' BY <1>1, <1>5, <1>6, <1>12 DEF BioInv, Engaged, Moves
<1>16. Unique' BY <1>12 DEF BioInv, Unique
<1>17. Counted'
  <2>1. ASSUME NEW c \in Bufs
        PROVE  buf'[c].refcnt = Cardinality(Users(c)') + (IF buf'[c].blockno \in pinned' THEN 1 ELSE 0)
    <3>1. Users(c)' = Users(c) BY <1>6, SameUsers DEF Moves
    <3>2. buf[c].refcnt = Cardinality(Users(c)) + (IF buf[c].blockno \in pinned THEN 1 ELSE 0)
      BY DEF BioInv, Counted
    <3>3. Cardinality(Users(c)) \in Nat BY UsersFinite
    <3>4. CASE c = b
      <4>1. buf'[c].refcnt = m BY Zenon, <1>10, <1>11, <3>4 DEF BufBecomes
      <4> QED BY <1>9, <1>12, <3>1, <3>2, <3>3, <3>4, <4>1
    <3>5. CASE c # b
      <4>1. buf'[c].refcnt = buf[c].refcnt BY <1>11, <3>5 DEF BufBecomes
      <4>2. buf[c].blockno # k BY <1>2, <3>5, BioAssumption DEF BioInv, Unique
      <4> QED BY Zenon, <1>9, <1>12, <3>1, <3>2, <4>1, <4>2
    <3> QED BY <3>4, <3>5
  <2> QED BY <2>1 DEF Counted
<1>18. Locks' BY <1>1, <1>5, <1>6, <1>12 DEF BioInv, Locks, BioHolds, Moves
<1>19. Pinned' BY SMTT(30), <1>9, <1>12 DEF BioInv, Pinned
<1>20. Latest'
  <2>1. ASSUME NEW j \in BioBlocks
        PROVE  \/ disk'[j] = latest'[j] \/ j \in pinned'
               \/ \E q \in BioProcs : bp'[q].pc = "dirty" /\ buf'[bp'[q].b].blockno = j
    <3>1. CASE j = k BY SMTT(30), <1>4, <1>8, <3>1
    <3>2. CASE j # k
      <4>1. ASSUME NEW q \in BioProcs, bp[q].pc = "dirty", buf[bp[q].b].blockno = j
            PROVE  bp'[q].pc = "dirty" /\ buf'[bp'[q].b].blockno = j
        BY Zenon, <1>5, <1>6, <1>12, <3>2, <4>1 DEF Moves
      <4> QED BY Zenon, <1>4, <1>9, <3>2, <4>1 DEF BioInv, Latest
    <3> QED BY <3>1, <3>2
  <2>2. \A c \in Bufs : buf'[c].valid => buf'[c].blockno # 0 /\ buf'[c].data = latest'[buf'[c].blockno]
    BY SMTT(30), <1>4, <1>12 DEF BioInv, Latest
  <2>3. \A q \in BioProcs : bp'[q].pc \in {"hold", "dirty", "written"} => buf'[bp'[q].b].valid
    BY SMTT(30), <1>1, <1>2, <1>5, <1>6, <1>8, <1>12 DEF BioInv, Latest, Moves
  <2>4. \A q \in BioProcs : bp'[q].pc = "written" =>
          disk'[buf'[bp'[q].b].blockno] = latest'[buf'[bp'[q].b].blockno]
    BY <1>4, <1>5, <1>6, <1>12 DEF BioInv, Latest, Moves
  <2> QED BY <2>1, <2>2, <2>3, <2>4 DEF Latest
<1> QED BY <1>7, <1>14, <1>15, <1>16, <1>17, <1>18, <1>19, <1>20 DEF BioInv

\* The first half of brelse keeps it: the lock is given up, and all who slept for
\* it try again.
LEMMA ReleaseStep == ASSUME BioInv, NEW p \in BioProcs, releasesleep(p) PROVE BioInv'
<1> DEFINE b == bp[p].b
           s == ClearLock(buf[b])
<1>1. bp[p].pc = "hold" /\ BioHolds(p) BY Zenon DEF releasesleep, BioAt, BioHolds
<1>2. b \in Bufs /\ buf[b] \in BufTypes BY Zenon, <1>1, HasBuffer
<1>3. BioTypes BY DEF BioInv
<1>4. UNCHANGED <<nxt, prv, order, disk, latest, pinned>> BY Zenon DEF releasesleep, list
<1>5. \A q \in BioProcs : bp[q].pc # "out" => bp[q].b \in Bufs BY HasBuffer
<1>6. bioPanic' = FALSE BY ZenonT(60), <1>1 DEF releasesleep, holdingsleep, B, BioInv, Locks
<1>7. /\ bp' \in BpTypes
      /\ \A q \in BioProcs :
           /\ bp'[q].b = bp[q].b
           /\ bp'[q].pc = IF q = p THEN "drop"
                          ELSE IF bp[q].pc = "asleep" /\ bp[q].b = b THEN "want" ELSE bp[q].pc
  <2>1. bp \in BpTypes BY Zenon, <1>3 DEF BioTypes, BpTypes
  <2>2. bp' = Awake(p) BY Zenon DEF releasesleep
  <2>3. \A q \in BioProcs : bp[q] = [pc |-> "asleep", b |-> b] <=> bp[q].pc = "asleep" /\ bp[q].b = b
    BY <2>1 DEF BpTypes
  <2>4. \A q \in BioProcs : bp'[q] = IF q = p THEN [bp[q] EXCEPT !.pc = "drop"]
                                     ELSE IF bp[q].pc = "asleep" /\ bp[q].b = b THEN [bp[q] EXCEPT !.pc = "want"]
                                     ELSE bp[q]
    BY Zenon, <2>2, <2>3 DEF Awake
  <2>5. \A q \in BioProcs : bp'[q] \in [pc : BioPoints, b : Places] BY ZenonT(60), <2>1, <2>4
      DEF BpTypes, BioPoints
  <2>6. bp' = [q \in BioProcs |-> bp'[q]] BY Zenon, <2>2 DEF Awake
  <2>7. bp' \in BpTypes BY Zenon, <2>5, <2>6 DEF BpTypes
  <2> QED BY Zenon, <2>1, <2>4, <2>7 DEF BpTypes
<1>8. ListInv' BY <1>4 DEF BioInv, ListInv
<1>9. s \in BufTypes /\ s.blockno = buf[b].blockno /\ s.valid = buf[b].valid /\ s.refcnt = buf[b].refcnt
      /\ s.data = buf[b].data
  BY ZenonT(60), <1>2, ClearFields
<1>10. BufBecomes(b, s)
  <2>1. buf' = [buf EXCEPT ![b] = s] BY ZenonT(60), <1>2, <1>3 DEF releasesleep, BioTypes, ClearLock
  <2> QED BY ZenonT(60), <1>2, <1>3, <1>9, <2>1, BufUpdate
<1> HIDE DEF s
<1>11. \A c \in Bufs : /\ buf'[c].blockno = buf[c].blockno /\ buf'[c].data = buf[c].data
                      /\ buf'[c].valid = buf[c].valid /\ buf'[c].refcnt = buf[c].refcnt
  BY Zenon, <1>9, <1>10 DEF BufBecomes
<1>11b. \A c \in Bufs : c # b => buf'[c].locked = buf[c].locked /\ buf'[c].pid = buf[c].pid
  BY Zenon, <1>10 DEF BufBecomes
<1>12. BioTypes' BY Zenon, <1>3, <1>4, <1>6, <1>7, <1>10 DEF BioTypes, BpTypes, BufBecomes
<1>13. Engaged'
  <2>1. \A q \in BioProcs : bp'[q].pc = "out" <=> bp[q].pc = "out" BY SMTT(30), <1>1, <1>7
  <2> QED BY <1>5, <1>7, <1>11, <2>1 DEF BioInv, Engaged
<1>14. Counted' /\ Unique' /\ Pinned'
  BY <1>4, <1>7, <1>11, SameUsers DEF BioInv, Counted, Unique, Pinned
<1>15. Locks'
  <2>1. ASSUME NEW q \in BioProcs, BioHolds(q)' PROVE buf'[bp'[q].b].locked /\ buf'[bp'[q].b].pid = q
    <3>1. q # p /\ BioHolds(q) /\ bp'[q].b = bp[q].b BY Zenon, <1>7, <2>1 DEF BioHolds
    <3>2. bp[q].b \in Bufs /\ bp[q].b # b BY Zenon, <1>1, <1>5, <3>1, HoldsAlone DEF BioHolds
    <3> QED BY <1>11b, <3>1, <3>2 DEF BioInv, Locks
  <2>2. ASSUME NEW q \in BioProcs, bp'[q].pc = "asleep" PROVE buf'[bp'[q].b].locked
    <3>1. bp[q].pc = "asleep" /\ bp[q].b # b /\ bp'[q].b = bp[q].b BY Zenon, <1>7, <2>2
    <3>2. bp[q].b \in Bufs BY Zenon, <1>5, <3>1
    <3> QED BY Zenon, <1>11b, <3>1, <3>2 DEF BioInv, Locks
  <2> QED BY Zenon, <2>1, <2>2 DEF Locks
<1>16. Latest'
  <2>1. \A q \in BioProcs : /\ bp'[q].pc \in {"hold", "dirty", "written"} => bp'[q].pc = bp[q].pc
                            /\ bp[q].pc = "dirty" => bp'[q].pc = "dirty"
    BY SMTT(30), <1>1, <1>7
  <2>2. \A j \in BioBlocks : \/ disk'[j] = latest'[j] \/ j \in pinned'
                             \/ \E q \in BioProcs : bp'[q].pc = "dirty" /\ buf'[bp'[q].b].blockno = j
    BY <1>4, <1>5, <1>7, <1>11, <2>1 DEF BioInv, Latest
  <2>3. \A c \in Bufs : buf'[c].valid => buf'[c].blockno # 0 /\ buf'[c].data = latest'[buf'[c].blockno]
    BY <1>4, <1>11 DEF BioInv, Latest
  <2>4. \A q \in BioProcs : bp'[q].pc \in {"hold", "dirty", "written"} => buf'[bp'[q].b].valid
    BY SMTT(30), <1>5, <1>7, <1>11, <2>1 DEF BioInv, Latest
  <2>5. \A q \in BioProcs : bp'[q].pc = "written" =>
          disk'[buf'[bp'[q].b].blockno] = latest'[buf'[bp'[q].b].blockno]
    BY SMTT(60), <1>4, <1>5, <1>7, <1>11, <2>1 DEF BioInv, Latest
  <2> QED BY Zenon, <2>2, <2>3, <2>4, <2>5 DEF Latest
<1> QED BY <1>8, <1>12, <1>13, <1>14, <1>15, <1>16 DEF BioInv

\* The second half of brelse keeps it: one reference less, and the buffer moves to
\* the front when it was the last.
LEMMA DropStep == ASSUME BioInv, NEW p \in BioProcs, brelse(p) PROVE BioInv'
<1> DEFINE b == bp[p].b
           s == SetRef(buf[b], buf[b].refcnt - 1)
<1>1. bp[p].pc = "drop" BY Zenon DEF brelse, BioAt
<1>2. b \in Bufs /\ buf[b] \in BufTypes BY Zenon, <1>1, HasBuffer
<1>3. BioTypes BY DEF BioInv
<1>4. UNCHANGED <<disk, latest, pinned, bioPanic>> BY Zenon DEF brelse
<1>5. \A q \in BioProcs : bp[q].pc # "out" => bp[q].b \in Bufs BY HasBuffer
<1>6. bp' \in BpTypes /\ bp'[p].pc = "out" /\ bp'[p].b = 0 /\ \A q \in BioProcs : q # p => bp'[q] = bp[q]
  <2>1. bp' = [bp EXCEPT ![p] = [pc |-> "out", b |-> 0]] BY Zenon DEF brelse
  <2>2. 0 \in Places BY BioAssumption DEF Places
  <2> QED BY Zenon, <1>3, <2>1, <2>2 DEF BioTypes, BpTypes, BioPoints
<1>7. ListInv'
  <2>1. CASE buf[b].refcnt = 1
    <3> DEFINE n1 == [nxt EXCEPT ![prv[b]] = nxt[b]]
               v1 == [prv EXCEPT ![nxt[b]] = prv[b]]
    <3>1. order' = ToFront(order, b) BY Zenon, <2>1 DEF brelse
    <3>2. nxt' = [n1 EXCEPT ![b] = n1[0], ![0] = b] /\ prv' = [v1 EXCEPT ![b] = 0, ![n1[0]] = b]
      BY Zenon, <2>1 DEF brelse, Moved
    <3>3. OrderOK(order) /\ ListOK(order, nxt, prv) BY Zenon DEF BioInv, ListInv
    <3>4. ListOK(order', nxt', prv')
      <4>1. n1 = [nxt EXCEPT ![prv[b]] = nxt[b]] /\ v1 = [prv EXCEPT ![nxt[b]] = prv[b]] BY Zenon
      <4> HIDE DEF n1, v1
      <4>2. b \in Bufs BY Zenon, <1>2
      <4> HIDE DEF b
      <4>3. ListOK(ToFront(order, b), [n1 EXCEPT ![b] = n1[0], ![0] = b], [v1 EXCEPT ![b] = 0, ![n1[0]] = b])
        BY ZenonT(60), <3>3, <4>1, <4>2, MoveList
      <4> QED BY Zenon, <3>1, <3>2, <4>3
    <3>5. OrderOK(order')
      <4>1. PICK i \in Bufs : order[i] = b BY Zenon, <1>2, <3>3 DEF OrderOK
      <4> QED BY Zenon, <3>1, <3>3, <4>1, FrontPlaces
    <3> QED BY Zenon, <3>4, <3>5 DEF ListInv
  <2>2. CASE buf[b].refcnt # 1
    <3>1. UNCHANGED <<nxt, prv, order>> BY Zenon, <2>2 DEF brelse, list
    <3> QED BY Zenon, <3>1 DEF BioInv, ListInv
  <2> QED BY Zenon, <2>1, <2>2
<1>8. s \in BufTypes /\ s.blockno = buf[b].blockno /\ s.valid = buf[b].valid /\ s.refcnt = buf[b].refcnt - 1
      /\ s.data = buf[b].data /\ s.locked = buf[b].locked /\ s.pid = buf[b].pid
  <2>1. buf[b].refcnt - 1 \in Int BY SMTT(30), <1>2 DEF BufTypes
  <2> QED BY Zenon, <1>2, <2>1, RefFields
<1>9. BufBecomes(b, s)
  <2>1. buf' = [buf EXCEPT ![b] = s] BY Zenon, <1>2, <1>3 DEF brelse, BioTypes, SetRef
  <2> QED BY ZenonT(60), <1>2, <1>3, <1>8, <2>1, BufUpdate
<1> HIDE DEF s
<1>10. \A c \in Bufs : /\ buf'[c].blockno = buf[c].blockno /\ buf'[c].data = buf[c].data
                      /\ buf'[c].valid = buf[c].valid
                      /\ buf'[c].locked = buf[c].locked /\ buf'[c].pid = buf[c].pid
  BY Zenon, <1>8, <1>9 DEF BufBecomes
<1>11. BioTypes' BY Zenon, <1>3, <1>4, <1>6, <1>9 DEF BioTypes, BpTypes, BufBecomes
<1>12. Engaged' BY <1>5, <1>6, <1>10 DEF BioInv, Engaged
<1>13. Unique' /\ Pinned' BY <1>4, <1>10 DEF BioInv, Unique, Pinned
<1>14. Counted'
  <2>1. ASSUME NEW c \in Bufs
        PROVE  buf'[c].refcnt = Cardinality(Users(c)') + (IF buf'[c].blockno \in pinned' THEN 1 ELSE 0)
    <3>1. buf[c].refcnt = Cardinality(Users(c)) + (IF buf[c].blockno \in pinned THEN 1 ELSE 0)
      BY DEF BioInv, Counted
    <3>2. c # 0 BY DEF Bufs
    <3>3. IsFiniteSet(Users(c)) /\ Cardinality(Users(c)) \in Nat BY Zenon, UsersFinite
    <3>4. CASE c = b
      <4>1. Users(c)' = Users(c) \ {p} /\ p \in Users(c) BY <1>6, <3>2, <3>4 DEF Users
      <4>2. Cardinality(Users(c) \ {p}) = Cardinality(Users(c)) - 1 BY Zenon, <3>3, <4>1,
          FS_RemoveElement
      <4>3. buf'[c].refcnt = buf[c].refcnt - 1 BY Zenon, <1>8, <1>9, <3>4 DEF BufBecomes
      <4> QED BY <1>4, <1>10, <3>1, <3>3, <4>1, <4>2, <4>3
    <3>5. CASE c # b
      <4>1. Users(c)' = Users(c) BY Zenon, <1>6, <3>2, <3>5 DEF Users
      <4>2. buf'[c].refcnt = buf[c].refcnt BY <1>9, <3>5 DEF BufBecomes
      <4> QED BY Zenon, <1>4, <1>10, <3>1, <4>1, <4>2
    <3> QED BY <3>4, <3>5
  <2> QED BY <2>1 DEF Counted
<1>15. Locks' BY SMTT(30), <1>5, <1>6, <1>10 DEF BioInv, Locks, BioHolds
<1>16. Latest'
  <2>1. \A j \in BioBlocks : \/ disk'[j] = latest'[j] \/ j \in pinned'
                             \/ \E q \in BioProcs : bp'[q].pc = "dirty" /\ buf'[bp'[q].b].blockno = j
    BY SMTT(30), <1>1, <1>4, <1>5, <1>6, <1>10 DEF BioInv, Latest
  <2>2. \A c \in Bufs : buf'[c].valid => buf'[c].blockno # 0 /\ buf'[c].data = latest'[buf'[c].blockno]
    BY SMTT(30), <1>4, <1>10 DEF BioInv, Latest
  <2>3. \A q \in BioProcs : bp'[q].pc \in {"hold", "dirty", "written"} => buf'[bp'[q].b].valid
    BY <1>5, <1>6, <1>10 DEF BioInv, Latest
  <2>4. \A q \in BioProcs : bp'[q].pc = "written" =>
          disk'[buf'[bp'[q].b].blockno] = latest'[buf'[bp'[q].b].blockno]
    BY <1>4, <1>5, <1>6, <1>10 DEF BioInv, Latest
  <2> QED BY <2>1, <2>2, <2>3, <2>4 DEF Latest
<1> QED BY Zenon, <1>7, <1>11, <1>12, <1>13, <1>14, <1>15, <1>16 DEF BioInv

\* There is a buffer for everybody: a process that has none finds one that is
\* neither in use nor pinned.
LEMMA Enough ==
  ASSUME BioInv, NEW p \in BioProcs, bp[p].pc = "out"
  PROVE  \E b \in Bufs : Unref(b)
<1> SUFFICES ASSUME \A b \in Bufs : ~Unref(b) PROVE FALSE BY Zenon
<1> DEFINE S == BioProcs \ {p}
           f == [q \in S |-> bp[q].b]
           A == {f[q] : q \in S}
           C == {b \in Bufs : buf[b].blockno \in pinned}
           g == [b \in C |-> buf[b].blockno]
<1>1. IsFiniteSet(BioProcs) /\ NBUF \in Nat /\ MaxPins \in Nat /\ Cardinality(BioProcs) + MaxPins <= NBUF
  BY Zenon, BioAssumption
<1>2. IsFiniteSet(S) /\ Cardinality(S) = Cardinality(BioProcs) - 1 BY Zenon, <1>1, FS_RemoveElement
<1>3. IsFiniteSet(A) /\ Cardinality(A) <= Cardinality(S)
  <2>1. f \in Surjection(S, A) BY Zenon DEF Surjection
  <2> HIDE DEF f, S, A
  <2> QED BY Zenon, <1>2, <2>1, FS_Surjection
<1>4. IsFiniteSet(C) /\ Cardinality(C) <= Cardinality(pinned)
  <2>1. g \in [C -> pinned] BY Zenon
  <2>2. ASSUME NEW x \in C, NEW y \in C, g[x] = g[y] PROVE x = y
    <3>1. x \in Bufs /\ y \in Bufs /\ buf[x].blockno \in pinned /\ buf[x].blockno = buf[y].blockno BY Zenon, <2>2
    <3>2. buf[x].blockno # 0 BY Zenon, <3>1, BioAssumption DEF BioInv, BioTypes
    <3> QED BY Zenon, <3>1, <3>2 DEF BioInv, Unique
  <2>3. g \in Injection(C, pinned) BY Zenon, <2>1, <2>2 DEF Injection, IsInjective
  <2>4. IsFiniteSet(pinned) BY Zenon DEF BioInv, BioTypes
  <2> HIDE DEF C, g
  <2> QED BY Zenon, <2>3, <2>4, FS_Injection
<1>5. Bufs \subseteq A \cup C
  <2>1. ASSUME NEW b \in Bufs, b \notin C PROVE b \in A
    <3>1. buf[b].refcnt = Cardinality(Users(b)) + (IF buf[b].blockno \in pinned THEN 1 ELSE 0)
      BY Zenon DEF BioInv, Counted
    <3>2. buf[b].refcnt # 0 BY Zenon DEF Unref
    <3>3. buf[b].blockno \notin pinned BY Zenon, <2>1
    <3>4. Cardinality(Users(b)) # 0 BY <3>1, <3>2, <3>3, UsersFinite
    <3>5. PICK q \in BioProcs : bp[q].b = b BY Zenon, <3>4, FS_EmptySet DEF Users
    <3>6. q # p BY <3>5 DEF BioInv, Engaged, Bufs
    <3> QED BY Zenon, <3>5, <3>6
  <2> QED BY Zenon, <2>1
<1> HIDE DEF A, C, S, f, g
<1>6. IsFiniteSet(A \cup C) /\ Cardinality(A \cup C) <= Cardinality(A) + Cardinality(C)
  <2>1. IsFiniteSet(A \cap C) BY Zenon, <1>3, FS_Intersection
  <2>2. Cardinality(A \cap C) \in Nat /\ Cardinality(A) \in Nat /\ Cardinality(C) \in Nat
    BY Zenon, <2>1, <1>3, <1>4, FS_CardinalityType
  <2>3. IsFiniteSet(A \cup C) /\ Cardinality(A \cup C) = Cardinality(A) + Cardinality(C) - Cardinality(A \cap C)
    BY Zenon, <1>3, <1>4, FS_Union
  <2> QED BY <2>2, <2>3
<1>7. Cardinality(Bufs) = NBUF /\ Cardinality(Bufs) <= Cardinality(A \cup C)
  <2>1. IsFiniteSet(Bufs) /\ Cardinality(Bufs) = NBUF BY <1>1, FS_Interval DEF Bufs
  <2> QED BY Zenon, <1>5, <1>6, <2>1, FS_Subset
<1>8. Cardinality(pinned) <= MaxPins /\ Cardinality(pinned) \in Nat
  BY Zenon, FS_CardinalityType DEF BioInv, BioTypes
<1>9. Cardinality(A) \in Nat /\ Cardinality(C) \in Nat /\ Cardinality(S) \in Nat /\ Cardinality(BioProcs) \in Nat
      /\ Cardinality(A \cup C) \in Nat
  BY Zenon, <1>1, <1>2, <1>3, <1>4, <1>6, FS_CardinalityType
<1> QED BY <1>1, <1>2, <1>3, <1>4, <1>6, <1>7, <1>8, <1>9

\* bget gives p, which had no buffer, the buffer b: its users are then one more.
LEMMA UsersGain ==
  ASSUME BioTypes, NEW p \in BioProcs, bp[p].b = 0, NEW b \in Bufs,
         bp' = [bp EXCEPT ![p] = [pc |-> "want", b |-> b]]
  PROVE  /\ bp' \in BpTypes /\ bp'[p].pc = "want" /\ bp'[p].b = b
         /\ \A q \in BioProcs : q # p => bp'[q] = bp[q]
         /\ \A c \in Bufs : Cardinality(Users(c)') = Cardinality(Users(c)) + (IF c = b THEN 1 ELSE 0)
<1>1. b \in Places BY DEF Bufs, Places
<1>2. bp' \in BpTypes /\ bp'[p].pc = "want" /\ bp'[p].b = b /\ \A q \in BioProcs : q # p => bp'[q] = bp[q]
  BY Zenon, <1>1 DEF BioTypes, BpTypes, BioPoints
<1>3. ASSUME NEW c \in Bufs
      PROVE  Cardinality(Users(c)') = Cardinality(Users(c)) + (IF c = b THEN 1 ELSE 0)
  <2>1. c # 0 BY DEF Bufs
  <2>2. IsFiniteSet(Users(c)) /\ Cardinality(Users(c)) \in Nat BY Zenon, UsersFinite
  <2>3. CASE c = b
    <3>1. Users(c)' = Users(c) \cup {p} /\ p \notin Users(c) BY Zenon, <1>2, <2>1, <2>3 DEF Users
    <3> QED BY ZenonT(60), <2>2, <2>3, <3>1, FS_AddElement
  <2>4. CASE c # b
    <3>1. Users(c)' = Users(c) BY Zenon, <1>2, <2>1, <2>4 DEF Users
    <3> QED BY <2>2, <2>4, <3>1
  <2> QED BY Zenon, <2>3, <2>4
<1> QED BY Zenon, <1>2, <1>3

\* bget keeps it: it shares the buffer that has the block, or recycles one that
\* nobody has.
LEMMA GetStep == ASSUME BioInv, NEW p \in BioProcs, NEW k \in BioBlocks, bget(p, k) PROVE BioInv'
<1>1. bp[p].pc = "out" /\ bp[p].b = 0 BY Zenon DEF bget, BioAt, BioInv, Engaged
<1>2. BioTypes BY Zenon DEF BioInv
<1>3. UNCHANGED <<nxt, prv, order, disk, latest, pinned>> BY Zenon DEF bget, list
<1>4. \A q \in BioProcs : bp[q].pc # "out" => bp[q].b \in Bufs BY Zenon, HasBuffer
<1>5. ListInv' BY Zenon, <1>3 DEF BioInv, ListInv
<1>6. k # 0 BY Zenon, BioAssumption
<1>7. CASE Cached(k) # {}
  <2>1. PICK b \in Bufs : /\ buf[b].blockno = k
                          /\ buf' = [buf EXCEPT ![b] = SetRef(buf[b], buf[b].refcnt + 1)]
                          /\ bp' = [bp EXCEPT ![p] = [pc |-> "want", b |-> b]]
                          /\ bioPanic' = bioPanic
    <3> DEFINE b == CHOOSE x \in Cached(k) : TRUE
    <3>1. b \in Cached(k) BY Zenon, <1>7
    <3>2. b \in Bufs /\ buf[b].blockno = k BY Zenon, <3>1 DEF Cached
    <3>3. buf' = [buf EXCEPT ![b].refcnt = @ + 1] /\ bp' = [bp EXCEPT ![p] = [pc |-> "want", b |-> b]]
          /\ bioPanic' = bioPanic
      BY Zenon, <1>7 DEF bget
    <3> HIDE DEF b
    <3>4. buf' = [buf EXCEPT ![b] = SetRef(buf[b], buf[b].refcnt + 1)]
      BY Zenon, <1>2, <3>2, <3>3 DEF BioTypes, SetRef
    <3> QED BY ZenonT(60), <3>2, <3>3, <3>4
  <2>2. /\ bp' \in BpTypes /\ bp'[p].pc = "want" /\ bp'[p].b = b
        /\ \A q \in BioProcs : q # p => bp'[q] = bp[q]
        /\ \A c \in Bufs : Cardinality(Users(c)') = Cardinality(Users(c)) + (IF c = b THEN 1 ELSE 0)
    BY ZenonT(60), <1>1, <1>2, <2>1, UsersGain
  <2> DEFINE s == SetRef(buf[b], buf[b].refcnt + 1)
  <2>3. s \in BufTypes /\ s.blockno = buf[b].blockno /\ s.valid = buf[b].valid /\ s.refcnt = buf[b].refcnt + 1
        /\ s.data = buf[b].data /\ s.locked = buf[b].locked /\ s.pid = buf[b].pid
    <3>1. buf[b] \in BufTypes BY Zenon, <1>2 DEF BioTypes
    <3>2. buf[b].refcnt + 1 \in Int BY <3>1 DEF BufTypes
    <3> QED BY Zenon, <3>1, <3>2, RefFields
  <2>4. BufBecomes(b, s) BY ZenonT(60), <1>2, <2>1, <2>3, BufUpdate
  <2> HIDE DEF s
  <2>5. \A c \in Bufs : /\ buf'[c].blockno = buf[c].blockno /\ buf'[c].data = buf[c].data
                        /\ buf'[c].valid = buf[c].valid
                        /\ buf'[c].locked = buf[c].locked /\ buf'[c].pid = buf[c].pid
    BY Zenon, <2>3, <2>4 DEF BufBecomes
  <2>6. BioTypes' BY Zenon, <1>2, <1>3, <2>1, <2>2, <2>4 DEF BioTypes, BpTypes, BufBecomes
  <2>7. Engaged'
    <3>1. b # 0 BY SMTT(30) DEF Bufs
    <3> QED BY <1>4, <1>6, <2>1, <2>2, <2>5, <3>1 DEF BioInv, Engaged
  <2>8. Unique' /\ Pinned' BY <1>3, <2>5 DEF BioInv, Unique, Pinned
  <2>9. Counted'
    <3>1. ASSUME NEW c \in Bufs
          PROVE  buf'[c].refcnt = Cardinality(Users(c)') + (IF buf'[c].blockno \in pinned' THEN 1 ELSE 0)
      <4>1. buf[c].refcnt = Cardinality(Users(c)) + (IF buf[c].blockno \in pinned THEN 1 ELSE 0)
        BY Zenon DEF BioInv, Counted
      <4>2. Cardinality(Users(c)) \in Nat BY Zenon, UsersFinite
      <4>3. buf'[c].refcnt = buf[c].refcnt + (IF c = b THEN 1 ELSE 0)
        <5>1. CASE c = b BY Zenon, <2>3, <2>4, <5>1 DEF BufBecomes
        <5>2. CASE c # b
          <6>1. buf'[c].refcnt = buf[c].refcnt BY Zenon, <2>4, <5>2 DEF BufBecomes
          <6> QED BY <4>1, <4>2, <5>2, <6>1
        <5> QED BY Zenon, <5>1, <5>2
      <4> QED BY <1>3, <2>2, <2>5, <4>1, <4>2, <4>3
    <3> QED BY Zenon, <3>1 DEF Counted
  <2>10. Locks' BY SMTT(30), <1>4, <2>2, <2>5 DEF BioInv, Locks, BioHolds
  <2>11. Latest'
    <3>1. \A j \in BioBlocks : \/ disk'[j] = latest'[j] \/ j \in pinned'
                               \/ \E q \in BioProcs : bp'[q].pc = "dirty" /\ buf'[bp'[q].b].blockno = j
      BY SMTT(30), <1>1, <1>3, <1>4, <2>2, <2>5 DEF BioInv, Latest
    <3>2. \A c \in Bufs : buf'[c].valid => buf'[c].blockno # 0 /\ buf'[c].data = latest'[buf'[c].blockno]
      BY SMTT(60), <1>3, <2>5 DEF BioInv, Latest
    <3>3. \A q \in BioProcs : bp'[q].pc \in {"hold", "dirty", "written"} => buf'[bp'[q].b].valid
      BY <1>4, <2>2, <2>5 DEF BioInv, Latest
    <3>4. \A q \in BioProcs : bp'[q].pc = "written" =>
            disk'[buf'[bp'[q].b].blockno] = latest'[buf'[bp'[q].b].blockno]
      BY <1>3, <1>4, <2>2, <2>5 DEF BioInv, Latest
    <3> QED BY SMTT(30), <3>1, <3>2, <3>3, <3>4 DEF Latest
  <2> QED BY Zenon, <1>5, <2>6, <2>7, <2>8, <2>9, <2>10, <2>11 DEF BioInv
<1>8. CASE Cached(k) = {}
  <2> DEFINE b == Lru
             s == Recycled(b, k)
  <2>1. b \in Bufs /\ buf[b].refcnt = 0
    <3>1. ListInv BY Zenon DEF BioInv
    <3> QED BY Zenon, <1>1, <3>1, LruIs, Enough DEF Unref
  <2>2. b # 0 BY <2>1 DEF Bufs
  <2>3. buf' = [buf EXCEPT ![b] = s] /\ bp' = [bp EXCEPT ![p] = [pc |-> "want", b |-> b]] /\ bioPanic' = bioPanic
    BY Zenon, <1>8, <2>2 DEF bget
  <2>4. s \in BufTypes /\ s.blockno = k /\ s.valid = FALSE /\ s.refcnt = 1
    <3>1. buf[b] \in BufTypes BY Zenon, <1>2, <2>1 DEF BioTypes
    <3>2. s = SetBlock(buf[b], k) BY Zenon DEF Recycled, SetBlock
    <3> HIDE DEF b, s
    <3> QED BY ZenonT(60), <3>1, <3>2, RecycledFields
  <2> HIDE DEF b, s
  <2>5. BufBecomes(b, s) BY ZenonT(60), <1>2, <2>1, <2>3, <2>4, BufUpdate
  <2>6. /\ bp' \in BpTypes /\ bp'[p].pc = "want" /\ bp'[p].b = b
        /\ \A q \in BioProcs : q # p => bp'[q] = bp[q]
        /\ \A c \in Bufs : Cardinality(Users(c)') = Cardinality(Users(c)) + (IF c = b THEN 1 ELSE 0)
    BY ZenonT(60), <1>1, <1>2, <2>1, <2>3, UsersGain
  <2>7. buf'[b].blockno = k /\ buf'[b].valid = FALSE /\ buf'[b].refcnt = 1 /\ \A c \in Bufs : c # b => buf'[c] = buf[c]
    BY Zenon, <2>4, <2>5 DEF BufBecomes
  <2>8. Cardinality(Users(b)) = 0 /\ buf[b].blockno \notin pinned
    <3>1. buf[b].refcnt = Cardinality(Users(b)) + (IF buf[b].blockno \in pinned THEN 1 ELSE 0)
      BY Zenon, <2>1 DEF BioInv, Counted
    <3>2. Cardinality(Users(b)) \in Nat BY Zenon, UsersFinite
    <3> QED BY <2>1, <3>1, <3>2
  <2>9. \A q \in BioProcs : bp[q].b # b
    <3>1. \A q \in BioProcs : bp[q].b = b => Cardinality(Users(b)) > 0 BY Zenon, UsersFinite
    <3> QED BY <2>8, <3>1
  <2>10. \A c \in Bufs : buf[c].blockno # k BY Zenon, <1>8 DEF Cached
  <2>11. k \notin pinned BY Zenon, <2>10 DEF BioInv, Pinned
  <2>12. BioTypes' BY Zenon, <1>2, <1>3, <2>3, <2>5, <2>6 DEF BioTypes, BpTypes, BufBecomes
  <2>13. \A q \in BioProcs : q # p /\ bp[q].pc # "out" => bp'[q] = bp[q] /\ buf'[bp'[q].b] = buf[bp[q].b]
    BY Zenon, <1>4, <2>6, <2>7, <2>9
  <2>14. Engaged' BY <1>6, <2>2, <2>6, <2>7, <2>13 DEF BioInv, Engaged
  <2>15. Unique' BY <2>7, <2>10 DEF BioInv, Unique
  <2>16. Pinned' BY <1>3, <2>7, <2>8 DEF BioInv, Pinned
  <2>17. Counted'
    <3>1. ASSUME NEW c \in Bufs
          PROVE  buf'[c].refcnt = Cardinality(Users(c)') + (IF buf'[c].blockno \in pinned' THEN 1 ELSE 0)
      <4>1. Cardinality(Users(c)) \in Nat BY Zenon, UsersFinite
      <4>2. CASE c = b BY SMTT(30), <1>3, <2>6, <2>7, <2>8, <2>11, <4>2
      <4>3. CASE c # b
        <5>1. buf[c].refcnt = Cardinality(Users(c)) + (IF buf[c].blockno \in pinned THEN 1 ELSE 0)
          BY Zenon DEF BioInv, Counted
        <5>2. Cardinality(Users(c)') = Cardinality(Users(c)) BY <2>6, <4>1, <4>3
        <5>3. buf'[c] = buf[c] BY Zenon, <2>7, <4>3
        <5> QED BY Zenon, <1>3, <5>1, <5>2, <5>3
      <4> QED BY Zenon, <4>2, <4>3
    <3> QED BY Zenon, <3>1 DEF Counted
  <2>18. Locks' BY <2>6, <2>13 DEF BioInv, Locks, BioHolds
  <2>19. Latest'
    <3>1. \A j \in BioBlocks : \/ disk'[j] = latest'[j] \/ j \in pinned'
                               \/ \E q \in BioProcs : bp'[q].pc = "dirty" /\ buf'[bp'[q].b].blockno = j
      BY SMTT(30), <1>1, <1>3, <2>13 DEF BioInv, Latest
    <3>2. \A c \in Bufs : buf'[c].valid => buf'[c].blockno # 0 /\ buf'[c].data = latest'[buf'[c].blockno]
      BY SMTT(30), <1>3, <2>7 DEF BioInv, Latest
    <3>3. \A q \in BioProcs : bp'[q].pc \in {"hold", "dirty", "written"} => buf'[bp'[q].b].valid
      BY <2>6, <2>13 DEF BioInv, Latest
    <3>4. \A q \in BioProcs : bp'[q].pc = "written" =>
            disk'[buf'[bp'[q].b].blockno] = latest'[buf'[bp'[q].b].blockno]
      BY <1>3, <2>6, <2>13 DEF BioInv, Latest
    <3> QED BY Zenon, <3>1, <3>2, <3>3, <3>4 DEF Latest
  <2> QED BY Zenon, <1>5, <2>12, <2>14, <2>15, <2>16, <2>17, <2>18, <2>19 DEF BioInv
<1> QED BY Zenon, <1>7, <1>8

-----------------------------------------------------------------------------
(* The theorems.                                                           *)

\* After binit the invariant holds.
LEMMA BioStart == BioInit => BioInv
<1> SUFFICES ASSUME BioInit PROVE BioInv OBVIOUS
<1>1. NBUF \in Nat /\ 0 \in Places /\ 0 \notin Bufs /\ MaxPins \in Nat BY BioAssumption
    DEF Places, Bufs
<1>2. IsFiniteSet({}) /\ Cardinality({}) = 0 BY Zenon, FS_EmptySet
<1>3. BioTypes
  <2>1. buf \in [Bufs -> BufTypes] BY DEF BioInit, BufTypes
  <2>2. bp \in [BioProcs -> [pc : BioPoints, b : Places]] BY Zenon, <1>1 DEF BioInit, BioPoints
  <2>3. disk \in [BioBlocks -> {0, 1}] /\ latest \in [BioBlocks -> {0, 1}] BY Zenon DEF BioInit
  <2>4. pinned \subseteq BioBlocks /\ IsFiniteSet(pinned) /\ Cardinality(pinned) <= MaxPins
    BY <1>1, <1>2 DEF BioInit
  <2> QED BY ZenonT(60), <2>1, <2>2, <2>3, <2>4 DEF BioTypes, BioInit
<1>4. ListInv BY Zenon, ListInit DEF BioInit
<1>5. \A b \in Bufs : buf[b].blockno = 0 /\ buf[b].valid = FALSE /\ buf[b].refcnt = 0 BY Zenon
    DEF BioInit
<1>6. \A p \in BioProcs : bp[p].pc = "out" /\ bp[p].b = 0 BY Zenon DEF BioInit
<1>7. pinned = {} /\ disk = latest BY Zenon DEF BioInit
<1>8. Engaged /\ Unique /\ Locks /\ Latest /\ Pinned
  BY Zenon, <1>5, <1>6, <1>7 DEF Engaged, Unique, Locks, BioHolds, Latest, Pinned
<1>9. Counted
  <2>1. \A b \in Bufs : Users(b) = {} BY Zenon, <1>1, <1>6 DEF Users
  <2> QED BY <1>2, <1>5, <1>7, <2>1 DEF Counted
<1> QED BY Zenon, <1>3, <1>4, <1>8, <1>9 DEF BioInv

\* Every step keeps the invariant.
LEMMA BioSteps == BioInv /\ [BioNext]_bioVars => BioInv'
<1> SUFFICES ASSUME BioInv, [BioNext]_bioVars PROVE BioInv' BY Zenon
<1>1. ASSUME NEW p \in BioProcs, BioStep(p) \/ Modify(p) \/ \E k \in BioBlocks : bget(p, k) PROVE BioInv'
  BY SMTT(30), <1>1, AcquireStep, ReadStep, WriteStep, PinStep, UnpinStep, ReleaseStep, DropStep,
     ModifyStep, GetStep
  DEF BioStep
<1>2. CASE UNCHANGED bioVars
  <2>1. \A b : Users(b)' = Users(b) BY Zenon, <1>2 DEF bioVars, Users
  <2> QED BY <1>2, <2>1
             DEF bioVars, BioInv, BioTypes, ListInv, Engaged, Counted, Unique, Locks, BioHolds,
                            Latest, Pinned
<1> QED BY Zenon, <1>1, <1>2 DEF BioNext

\* The order of the buffers, said with the pointers.
LEMMA InvLru == ListInv => LruExact
<1> SUFFICES ASSUME ListInv PROVE LruExact BY Zenon
<1>1. NBUF \in Nat \ {0} BY BioAssumption
<1>2. nxt \in [Places -> Places] BY Zenon DEF ListInv, ListOK
<1>3. ASSUME NEW b \in Places
      PROVE  /\ prv[nxt[b]] = b
             /\ nxt[b] = IF b = 0 THEN order[1]
                         ELSE IF b = order[NBUF] THEN 0
                         ELSE order[CHOOSE k \in 2 .. NBUF : order[k - 1] = b]
  <2>1. PICK i \in Places : Place(order, i) = b BY Zenon, PlacesDiffer DEF ListInv
  <2>2. nxt[b] = Place(order, i + 1) /\ prv[nxt[b]] = b BY Zenon, <2>1 DEF ListInv, ListOK
  <2>3. CASE i = 0
    <3>1. b = 0 BY <2>1, <2>3 DEF Place, Bufs
    <3>2. i + 1 = 1 /\ 1 \in Bufs BY <1>1, <2>3 DEF Bufs
    <3> QED BY Zenon, <2>2, <3>1, <3>2 DEF Place
  <2>4. CASE i # 0
    <3>1. i \in Bufs BY <1>1, <2>4 DEF Bufs, Places
    <3>2. b = order[i] /\ b # 0 BY Zenon, <2>1, <3>1, PlacesDiffer DEF Place, ListInv
    <3>3. NBUF \in Bufs BY <1>1 DEF Bufs
    <3>4. b = order[NBUF] <=> i = NBUF BY Zenon, <3>1, <3>2, <3>3 DEF ListInv, OrderOK
    <3>5. CASE i = NBUF
      <4>1. i + 1 \notin Bufs BY <1>1, <3>5 DEF Bufs
      <4> QED BY Zenon, <2>2, <3>2, <3>4, <3>5, <4>1 DEF Place
    <3>6. CASE i # NBUF
      <4>1. i + 1 \in Bufs /\ i + 1 \in 2 .. NBUF /\ (i + 1) - 1 = i BY <1>1, <3>1, <3>6 DEF Bufs
      <4>2. \A k \in 2 .. NBUF : order[k - 1] = b => k = i + 1
        <5>1. \A k \in 2 .. NBUF : k - 1 \in Bufs /\ (k - 1 = i => k = i + 1) BY <1>1, <3>1 DEF Bufs
        <5> QED BY Zenon, <3>1, <3>2, <5>1 DEF ListInv, OrderOK
      <4>3. (CHOOSE k \in 2 .. NBUF : order[k - 1] = b) = i + 1 BY Zenon, <3>2, <4>1, <4>2
      <4> QED BY ZenonT(60), <2>2, <3>2, <3>4, <3>6, <4>1, <4>3 DEF Place
    <3> QED BY Zenon, <3>5, <3>6
  <2> QED BY Zenon, <2>3, <2>4
<1>4. nxt = [b \in Places |-> IF b = 0 THEN order[1]
                              ELSE IF b = order[NBUF] THEN 0
                              ELSE order[CHOOSE k \in 2 .. NBUF : order[k - 1] = b]]
  BY Zenon, <1>2, <1>3
<1> QED BY Zenon, <1>3, <1>4 DEF LruExact, Places

\* BioInv implies what the cache promises.
LEMMA InvSound == BioInv => CacheSound /\ SleepsOnLocked
<1> SUFFICES ASSUME BioInv PROVE CacheSound /\ SleepsOnLocked BY Zenon
<1>1. BioTypeOK
  <2>1. \A b \in Bufs : buf[b].blockno \in BioBlocks \cup {0} BY Zenon
      DEF BioInv, BioTypes, BufTypes
  <2>2. \A p \in BioProcs : bp[p].b \in 0 .. NBUF BY Zenon DEF BioInv, BioTypes, Places
  <2> QED BY Zenon, <2>1, <2>2 DEF BioTypeOK, BioInv, Counted
<1>2. OneBufferPerBlock BY Zenon DEF OneBufferPerBlock, BioInv, Unique
<1>3. ReadsLatest
  <2>1. ASSUME NEW p \in BioProcs, BioHolds(p)
        PROVE  /\ holdingsleep(p)
               /\ \A q \in BioProcs \ {p} : BioHolds(q) => bp[q].b # bp[p].b
               /\ bp[p].pc # "got" => B(p).valid /\ B(p).data = latest[B(p).blockno]
    <3>1. holdingsleep(p) BY Zenon, <2>1 DEF holdingsleep, B, BioInv, Locks
    <3>2. \A q \in BioProcs \ {p} : BioHolds(q) => bp[q].b # bp[p].b BY Zenon, <2>1, HoldsAlone
    <3>3. bp[p].b \in Bufs BY Zenon, <2>1, HasBuffer DEF BioHolds
    <3>4. ASSUME bp[p].pc # "got" PROVE B(p).valid /\ B(p).data = latest[B(p).blockno]
      <4>1. bp[p].pc \in {"hold", "dirty", "written"} BY Zenon, <2>1, <3>4 DEF BioHolds
      <4> QED BY Zenon, <3>3, <4>1 DEF B, BioInv, Latest
    <3> QED BY Zenon, <3>1, <3>2, <3>4
  <2> QED BY Zenon, <2>1 DEF ReadsLatest
<1>4. NoBioPanic BY Zenon DEF NoBioPanic, BioInv, BioTypes
<1>5. LruExact BY Zenon, InvLru DEF BioInv
<1>6. SleepsOnLocked BY Zenon DEF SleepsOnLocked, B, BioInv, Locks
<1> QED BY Zenon, <1>1, <1>2, <1>3, <1>4, <1>5, <1>6 DEF CacheSound

\* The buffer cache is sound: references are counted, no block is in two
\* buffers, a holder is alone and reads what was last written, bget always finds
\* a buffer, and the list always is in the order of the last releases.
THEOREM CacheSafety == BioSpec => []CacheSound
<1>1. BioInv => CacheSound BY Zenon, InvSound
<1> QED BY <1>1, BioStart, BioSteps, PTL DEF BioSpec

\* acquiresleep never sleeps for a lock that nobody has: no wakeup of
\* releasesleep is lost.
THEOREM SleepLockSafety == BioSpec => []SleepsOnLocked
<1>1. BioInv => SleepsOnLocked BY Zenon, InvSound
<1> QED BY <1>1, BioStart, BioSteps, PTL DEF BioSpec

============================================================================
