---------------------------- MODULE NEventProofs ----------------------------
(***************************************************************************)
(* The invariants of NEvent, for every set of devices and all clocks.      *)
(***************************************************************************)
EXTENDS NEvent, SequenceTheorems, TLAPS

(* The entries of s are different events in the order of their clocks c.    *)
Ordered(s, c) ==
  \A i, j \in 1 .. Len(s) : i < j => s[i] # s[j] /\ c[s[i]] <= c[s[j]]

(* r is s without its entry at k.                                           *)
IsWithout(r, s, k) ==
  /\ Len(r) = Len(s) - 1
  /\ \A i \in 1 .. Len(r) : r[i] = IF i < k THEN s[i] ELSE s[i + 1]

(* t is s with x put in at place p.                                         *)
IsInserted(t, s, p, x) ==
  /\ Len(t) = Len(s) + 1
  /\ \A i \in 1 .. Len(t) :
       t[i] = IF i < p THEN s[i] ELSE IF i = p THEN x ELSE s[i - 1]

-----------------------------------------------------------------------------
(* Sequences: what removing and inserting an entry does.                   *)

(* RemoveAt keeps the entries before and behind the removed one in order.   *)
LEMMA RemoveAtEntries ==
  ASSUME NEW S, NEW s \in Seq(S), NEW k \in 1 .. Len(s)
  PROVE  /\ RemoveAt(s, k) \in Seq(S)
         /\ IsWithout(RemoveAt(s, k), s, k)
<1> DEFINE a == SubSeq(s, 1, k - 1)
           b == SubSeq(s, k + 1, Len(s))
<1>1. /\ a \in Seq(S) /\ Len(a) = k - 1
      /\ \A i \in 1 .. k - 1 : a[i] = s[i]
  <2>1. \A i \in 1 .. k - 1 : s[i] \in S
    BY ElementOfSeq
  <2>2. /\ a \in Seq(S)
        /\ Len(a) = IF 1 <= k - 1 THEN (k - 1) - 1 + 1 ELSE 0
        /\ \A i \in 1 .. (k - 1) - 1 + 1 : a[i] = s[1 + i - 1]
    BY <2>1, SubSeqProperties
  <2> QED BY <2>2
<1>2. /\ b \in Seq(S) /\ Len(b) = Len(s) - k
      /\ \A i \in 1 .. Len(s) - k : b[i] = s[k + i]
  <2>1. \A i \in k + 1 .. Len(s) : s[i] \in S
    BY ElementOfSeq
  <2>2. Len(s) \in Nat
    BY LenProperties
  <2>3. /\ b \in Seq(S)
        /\ Len(b) = IF k + 1 <= Len(s) THEN Len(s) - (k + 1) + 1 ELSE 0
        /\ \A i \in 1 .. Len(s) - (k + 1) + 1 : b[i] = s[(k + 1) + i - 1]
    BY <2>1, <2>2, SubSeqProperties
  <2> QED BY <2>2, <2>3
<1>3. RemoveAt(s, k) = a \o b
  BY DEF RemoveAt
<1>4. /\ a \o b \in Seq(S)
      /\ Len(a \o b) = Len(a) + Len(b)
      /\ \A i \in 1 .. Len(a) + Len(b) :
           (a \o b)[i] = IF i <= Len(a) THEN a[i] ELSE b[i - Len(a)]
  BY <1>1, <1>2, ConcatProperties
<1>5. Len(s) \in Nat
  BY LenProperties
<1> DEFINE t == a \o b
<1> HIDE DEF a, b
<1>6. Len(t) = Len(s) - 1
  BY <1>1, <1>2, <1>4, <1>5
<1>7. \A i \in 1 .. Len(t) : t[i] = IF i < k THEN s[i] ELSE s[i + 1]
  <2> TAKE i \in 1 .. Len(t)
  <2>1. CASE i < k
    BY <1>1, <1>2, <1>4, <1>5, <1>6, <2>1
  <2>2. CASE i >= k
    <3>1. i - (k - 1) \in 1 .. Len(s) - k
      BY <1>5, <1>6, <2>2
    <3>2. t[i] = b[i - (k - 1)]
      BY <1>1, <1>2, <1>4, <1>5, <1>6, <2>2
    <3> QED BY <1>2, <1>5, <2>2, <3>1, <3>2
  <2> QED BY <1>5, <2>1, <2>2
<1> QED BY <1>3, <1>4, <1>6, <1>7 DEF IsWithout

(* InsertAt shifts the entries from the place on by one.                    *)
LEMMA InsertAtEntries ==
  ASSUME NEW S, NEW s \in Seq(S), NEW p \in 1 .. Len(s) + 1, NEW x \in S
  PROVE  IsInserted(InsertAt(s, p, x), s, p, x) /\ InsertAt(s, p, x) \in Seq(S)
<1> DEFINE a == SubSeq(s, 1, p - 1)
           b == SubSeq(s, p, Len(s))
           t == InsertAt(s, p, x)
<1>0. Len(s) \in Nat
  BY LenProperties
<1>1. /\ a \in Seq(S) /\ Len(a) = p - 1
      /\ \A i \in 1 .. p - 1 : a[i] = s[i]
  <2>1. \A i \in 1 .. p - 1 : s[i] \in S
    BY <1>0, ElementOfSeq
  <2>2. /\ a \in Seq(S)
        /\ Len(a) = IF 1 <= p - 1 THEN (p - 1) - 1 + 1 ELSE 0
        /\ \A i \in 1 .. (p - 1) - 1 + 1 : a[i] = s[1 + i - 1]
    BY <2>1, SubSeqProperties
  <2> QED BY <2>2
<1>2. /\ b \in Seq(S) /\ Len(b) = Len(s) - p + 1
      /\ \A i \in 1 .. Len(s) - p + 1 : b[i] = s[p + i - 1]
  <2>1. \A i \in p .. Len(s) : s[i] \in S
    BY ElementOfSeq
  <2>2. /\ b \in Seq(S)
        /\ Len(b) = IF p <= Len(s) THEN Len(s) - p + 1 ELSE 0
        /\ \A i \in 1 .. Len(s) - p + 1 : b[i] = s[p + i - 1]
    BY <1>0, <2>1, SubSeqProperties
  <2> QED BY <1>0, <2>2
<1>3. /\ <<x>> \in Seq(S) /\ Len(<<x>>) = 1 /\ <<x>>[1] = x
  OBVIOUS
<1>4. t = (a \o <<x>>) \o b
  BY DEF InsertAt
<1>5. /\ a \o <<x>> \in Seq(S)
      /\ Len(a \o <<x>>) = p
      /\ \A i \in 1 .. p : (a \o <<x>>)[i] = IF i <= p - 1 THEN a[i] ELSE <<x>>[i - (p - 1)]
  <2> HIDE DEF a, b
  <2>1. /\ a \o <<x>> \in Seq(S)
        /\ Len(a \o <<x>>) = Len(a) + Len(<<x>>)
        /\ \A i \in 1 .. Len(a) + Len(<<x>>) :
             (a \o <<x>>)[i] = IF i <= Len(a) THEN a[i] ELSE <<x>>[i - Len(a)]
    BY <1>1, <1>3, ConcatProperties
  <2> QED BY <1>1, <1>3, <2>1
<1>6. /\ t \in Seq(S)
      /\ Len(t) = p + Len(b)
      /\ \A i \in 1 .. p + Len(b) : t[i] = IF i <= p THEN (a \o <<x>>)[i] ELSE b[i - p]
  <2> HIDE DEF a, b, t
  <2> DEFINE u == a \o <<x>>
  <2>1. u \in Seq(S) /\ Len(u) = p
    BY <1>5
  <2> HIDE DEF u
  <2>2. /\ u \o b \in Seq(S)
        /\ Len(u \o b) = Len(u) + Len(b)
        /\ \A i \in 1 .. Len(u) + Len(b) :
             (u \o b)[i] = IF i <= Len(u) THEN u[i] ELSE b[i - Len(u)]
    BY <1>2, <2>1, ConcatProperties
  <2>3. t = u \o b
    BY <1>4 DEF u
  <2> QED BY <2>1, <2>2, <2>3 DEF u
<1> HIDE DEF a, b, t
<1>7. \A i \in 1 .. Len(t) :
        t[i] = IF i < p THEN s[i] ELSE IF i = p THEN x ELSE s[i - 1]
  <2> TAKE i \in 1 .. Len(t)
  <2>1. CASE i < p
    BY <1>0, <1>1, <1>2, <1>5, <1>6, <2>1
  <2>2. CASE i = p
    BY <1>0, <1>1, <1>2, <1>3, <1>5, <1>6, <2>2
  <2>3. CASE i > p
    <3>1. i - p \in 1 .. Len(s) - p + 1
      BY <1>0, <1>2, <1>6, <2>3
    <3>2. t[i] = b[i - p]
      BY <1>0, <1>2, <1>6, <2>3
    <3> QED BY SMTT(30), <1>0, <1>2, <2>3, <3>1, <3>2
  <2> QED BY <1>0, <2>1, <2>2, <2>3
<1>8. Len(t) = Len(s) + 1
  BY <1>0, <1>2, <1>6
<1> QED BY <1>6, <1>7, <1>8 DEF t, IsInserted

-----------------------------------------------------------------------------
(* The list of running events.                                             *)

(* r is an ordered list with the entries of s but for id.                   *)
Deleted(r, s, c, id) ==
  /\ r \in Seq(Ids)
  /\ Ordered(r, c)
  /\ \A i \in 1 .. Len(r) : r[i] # id /\ \E j \in 1 .. Len(s) : r[i] = s[j]
  /\ \A j \in 1 .. Len(s) : s[j] # id => \E i \in 1 .. Len(r) : r[i] = s[j]

(* What is left of an ordered list keeps the order, and only id is gone.    *)
LEMMA DeleteOrdered ==
  ASSUME NEW s \in Seq(Ids), NEW c \in [Ids -> Int], NEW id \in Ids, Ordered(s, c),
         NEW r, r = Delete(s, id)
  PROVE  Deleted(r, s, c, id)
<1>0. Len(s) \in Nat /\ \A i \in 1 .. Len(s) : s[i] \in Ids
  BY LenProperties, ElementOfSeq
<1>1. CASE \E i \in 1 .. Len(s) : s[i] = id
  <2> DEFINE k == CHOOSE i \in 1 .. Len(s) : s[i] = id
  <2>1. k \in 1 .. Len(s) /\ s[k] = id
    BY <1>1
  <2>2. r = RemoveAt(s, k)
    BY <1>1 DEF Delete, Contains
  <2> HIDE DEF k
  <2>3. r \in Seq(Ids) /\ IsWithout(r, s, k)
    BY <2>1, <2>2, RemoveAtEntries
  <2>4. Len(r) = Len(s) - 1
        /\ \A i \in 1 .. Len(r) : r[i] = IF i < k THEN s[i] ELSE s[i + 1]
    BY <2>3 DEF IsWithout
  <2>5. Ordered(r, c)
    <3> SUFFICES ASSUME NEW i \in 1 .. Len(r), NEW j \in 1 .. Len(r), i < j
                 PROVE  r[i] # r[j] /\ c[r[i]] <= c[r[j]]
      BY DEF Ordered
    <3> DEFINE ii == IF i < k THEN i ELSE i + 1
               jj == IF j < k THEN j ELSE j + 1
    <3>1. ii \in 1 .. Len(s) /\ jj \in 1 .. Len(s) /\ ii < jj
      BY <1>0, <2>1, <2>4
    <3>2. r[i] = s[ii] /\ r[j] = s[jj]
      BY <2>4
    <3> QED BY <3>1, <3>2 DEF Ordered
  <2>6. \A i \in 1 .. Len(r) : r[i] # id /\ \E j \in 1 .. Len(s) : r[i] = s[j]
    <3> TAKE i \in 1 .. Len(r)
    <3> DEFINE ii == IF i < k THEN i ELSE i + 1
    <3>1. ii \in 1 .. Len(s) /\ ii # k /\ r[i] = s[ii]
      BY SMTT(30), <1>0, <2>1, <2>4
    <3>2. s[ii] # s[k]
      BY <1>0, <2>1, <3>1 DEF Ordered
    <3> QED BY <2>1, <3>1, <3>2
  <2>7. \A j \in 1 .. Len(s) : s[j] # id => \E i \in 1 .. Len(r) : r[i] = s[j]
    <3> SUFFICES ASSUME NEW j \in 1 .. Len(s), s[j] # id
                 PROVE  \E i \in 1 .. Len(r) : r[i] = s[j]
      OBVIOUS
    <3>1. CASE j < k
      <4>1. j \in 1 .. Len(r)
        BY <1>0, <2>1, <2>4, <3>1
      <4> QED BY <2>4, <3>1, <4>1
    <3>2. CASE j > k
      <4>1. j - 1 \in 1 .. Len(r) /\ r[j - 1] = s[j]
        BY SMTT(30), <1>0, <2>1, <2>4, <3>2
      <4> QED BY <4>1
    <3> QED BY <1>0, <2>1, <3>1, <3>2
  <2> QED BY <2>3, <2>5, <2>6, <2>7 DEF Deleted
<1>2. CASE ~ \E i \in 1 .. Len(s) : s[i] = id
  <2>1. r = s
    BY <1>2 DEF Delete, Contains
  <2> QED BY <1>2, <2>1 DEF Deleted
<1> QED BY <1>1, <1>2

(* t is an ordered list with the entries of r and, at p, the event id.      *)
Inserted(t, d, r, p, id) ==
  /\ t \in Seq(Ids)
  /\ Ordered(t, d)
  /\ \A i \in 1 .. Len(t) : t[i] = id \/ \E j \in 1 .. Len(r) : t[i] = r[j]
  /\ \E i \in 1 .. Len(t) : t[i] = id
  /\ \A j \in 1 .. Len(r) : \E i \in 1 .. Len(t) : t[i] = r[j]
  /\ t[1] = IF p = 1 THEN id ELSE r[1]

(* An event inserted at its place keeps the list ordered by the new clocks. *)
LEMMA InsertOrdered ==
  ASSUME NEW r \in Seq(Ids), clock \in [Ids -> Int], NEW id \in Ids, NEW x \in Int,
         Ordered(r, clock), \A i \in 1 .. Len(r) : r[i] # id,
         NEW p \in 1 .. Len(r) + 1, IsPlace(r, p, x),
         NEW t, t = InsertAt(r, p, id), NEW d, d = [clock EXCEPT ![id] = x]
  PROVE  Inserted(t, d, r, p, id)
<1>0. Len(r) \in Nat /\ \A i \in 1 .. Len(r) : r[i] \in Ids
  BY LenProperties, ElementOfSeq
<1>1. t \in Seq(Ids) /\ IsInserted(t, r, p, id)
  BY InsertAtEntries
<1>10. Len(t) = Len(r) + 1
       /\ \A i \in 1 .. Len(t) :
            t[i] = IF i < p THEN r[i] ELSE IF i = p THEN id ELSE r[i - 1]
  BY <1>1 DEF IsInserted
<1>2. \A i \in 1 .. Len(r) : d[r[i]] = clock[r[i]] /\ clock[r[i]] \in Int
  BY <1>0
<1>3. d[id] = x
  OBVIOUS
<1>4. /\ \A i \in 1 .. Len(r) : i < p => clock[r[i]] <= x
      /\ \A i \in 1 .. Len(r) : i >= p => x < clock[r[i]]
  <2>1. \A i \in 1 .. Len(r) : i < p => clock[r[i]] <= x
    BY DEF IsPlace
  <2>2. ASSUME NEW i \in 1 .. Len(r), i >= p
        PROVE  x < clock[r[i]]
    <3>1. p \in 1 .. Len(r) /\ x < clock[r[p]]
      BY <1>0, <2>2 DEF IsPlace
    <3>2. clock[r[p]] <= clock[r[i]]
      BY <1>0, <1>2, <2>2, <3>1 DEF Ordered
    <3> QED BY <1>2, <3>1, <3>2
  <2> QED BY <2>1, <2>2
<1>5. Ordered(t, d)
  <2> SUFFICES ASSUME NEW i \in 1 .. Len(t), NEW j \in 1 .. Len(t), i < j
               PROVE  t[i] # t[j] /\ d[t[i]] <= d[t[j]]
    BY DEF Ordered
  <2>1. CASE j < p
    <3>1. i \in 1 .. Len(r) /\ j \in 1 .. Len(r) /\ t[i] = r[i] /\ t[j] = r[j]
      BY <1>0, <1>10, <2>1
    <3> QED BY <1>2, <3>1 DEF Ordered
  <2>2. CASE j = p
    <3>1. i \in 1 .. Len(r) /\ i < p /\ t[i] = r[i] /\ t[j] = id
      BY <1>0, <1>10, <2>2
    <3> QED BY <1>2, <1>3, <1>4, <3>1
  <2>3. CASE i = p
    <3>1. j - 1 \in 1 .. Len(r) /\ j - 1 >= p
      BY <1>0, <1>10, <2>3
    <3>2. t[i] = id
      BY <1>0, <1>10, <2>3
    <3>3. t[j] = r[j - 1]
      BY <1>0, <1>10, <2>3
    <3>4. r[j - 1] # id /\ x < clock[r[j - 1]] /\ d[r[j - 1]] = clock[r[j - 1]]
      BY <1>2, <1>4, <3>1
    <3> QED BY <1>2, <1>3, <3>1, <3>2, <3>3, <3>4
  <2>4. CASE i < p /\ j > p
    <3>1. i \in 1 .. Len(r) /\ j - 1 \in 1 .. Len(r) /\ i < j - 1
      BY <1>0, <1>10, <2>4
    <3>2. t[i] = r[i] /\ t[j] = r[j - 1]
      BY <1>0, <1>10, <2>4
    <3>3. r[i] # r[j - 1] /\ clock[r[i]] <= clock[r[j - 1]]
      BY <1>0, <3>1 DEF Ordered
    <3> QED BY <1>2, <3>1, <3>2, <3>3
  <2>5. CASE i > p
    <3>1. i - 1 \in 1 .. Len(r) /\ j - 1 \in 1 .. Len(r) /\ i - 1 < j - 1
      BY <1>0, <1>10, <2>5
    <3>2. t[i] = r[i - 1]
      BY <1>0, <1>10, <2>5
    <3>3. t[j] = r[j - 1]
      BY <1>0, <1>10, <2>5
    <3>4. r[i - 1] # r[j - 1] /\ clock[r[i - 1]] <= clock[r[j - 1]]
      BY <1>0, <3>1 DEF Ordered
    <3> QED BY <1>2, <3>1, <3>2, <3>3, <3>4
  <2> QED BY <1>0, <1>10, <2>1, <2>2, <2>3, <2>4, <2>5
<1>6. \A i \in 1 .. Len(t) : t[i] = id \/ \E j \in 1 .. Len(r) : t[i] = r[j]
  <2> TAKE i \in 1 .. Len(t)
  <2>1. CASE i < p
    <3>1. i \in 1 .. Len(r) /\ t[i] = r[i]
      BY <1>0, <1>10, <2>1
    <3> QED BY <3>1
  <2>2. CASE i = p
    BY <1>0, <1>10, <2>2
  <2>3. CASE i > p
    <3>1. i - 1 \in 1 .. Len(r) /\ t[i] = r[i - 1]
      BY <1>0, <1>10, <2>3
    <3> QED BY <3>1
  <2> QED BY <1>0, <1>10, <2>1, <2>2, <2>3
<1>7. \E i \in 1 .. Len(t) : t[i] = id
  <2>1. p \in 1 .. Len(t) /\ t[p] = id
    BY <1>0, <1>10
  <2> QED BY <2>1
<1>8. \A j \in 1 .. Len(r) : \E i \in 1 .. Len(t) : t[i] = r[j]
  <2> TAKE j \in 1 .. Len(r)
  <2>1. CASE j < p
    <3>1. j \in 1 .. Len(t) /\ t[j] = r[j]
      BY <1>0, <1>10, <2>1
    <3> QED BY <3>1
  <2>2. CASE j >= p
    <3>1. j + 1 \in 1 .. Len(t) /\ t[j + 1] = r[j]
      BY <1>0, <1>10, <2>2
    <3> QED BY <3>1
  <2> QED BY <1>0, <2>1, <2>2
<1>9. t[1] = IF p = 1 THEN id ELSE r[1]
  BY <1>0, <1>10
<1> QED BY <1>1, <1>5, <1>6, <1>7, <1>8, <1>9 DEF Inserted

-----------------------------------------------------------------------------
(* Scaling clocks to another multiple.                                     *)

(* Division of naturals by a positive number is monotone.                   *)
LEMMA DivMonotone ==
  ASSUME NEW a \in Nat, NEW b \in Nat, NEW o \in Positive, a <= b
  PROVE  a \div o <= b \div o
<1> DEFINE q == a \div o
           r == b \div o
<1>1. q \in Int /\ o * q <= a
  BY DEF Positive
<1>2. r \in Int /\ b < o * r + o
  BY DEF Positive
<1> HIDE DEF q, r
<1>3. o * q < o * (r + 1)
  BY <1>1, <1>2 DEF Positive
<1>4. q < r + 1
  <2>1. SUFFICES ASSUME q >= r + 1 PROVE FALSE
    BY <1>1, <1>2
  <2>2. PICK k \in Nat : q = (r + 1) + k
    <3>1. q - (r + 1) \in Nat /\ q = (r + 1) + (q - (r + 1))
      BY <1>1, <1>2, <2>1
    <3> QED BY <3>1
  <2>3. o * q = o * (r + 1) + o * k
    BY <1>2, <2>2 DEF Positive
  <2>4. o * k >= 0
    BY DEF Positive
  <2>5. o * (r + 1) \in Int /\ o * k \in Int
    BY <1>2 DEF Positive
  <2> QED BY <1>3, <2>3, <2>4, <2>5
<1>5. q <= r
  BY <1>1, <1>2, <1>4
<1> QED BY <1>5 DEF q, r

(* So is the division of C, which rounds towards zero.                      *)
LEMMA CDivMonotone ==
  ASSUME NEW a \in Int, NEW b \in Int, NEW o \in Positive, a <= b
  PROVE  CDiv(a, o) \in Int /\ CDiv(a, o) <= CDiv(b, o)
<1>1. ASSUME NEW x \in Nat PROVE x \div o \in Nat
  BY <1>1 DEF Positive
<1>2. CASE a >= 0
  <2>1. a \in Nat /\ b \in Nat
    BY <1>2
  <2> QED BY <1>1, <1>2, <2>1, DivMonotone DEF CDiv
<1>3. CASE a < 0 /\ b >= 0
  <2>1. -a \in Nat /\ b \in Nat
    BY <1>3
  <2>2. (-a) \div o \in Nat /\ b \div o \in Nat
    BY <1>1, <2>1
  <2> QED BY <1>3, <2>2 DEF CDiv
<1>4. CASE b < 0
  <2>1. -a \in Nat /\ -b \in Nat /\ -b <= -a
    BY <1>4
  <2>2. (-a) \div o \in Nat /\ (-b) \div o \in Nat /\ (-b) \div o <= (-a) \div o
    BY <1>1, <2>1, DivMonotone
  <2> QED BY <1>4, <2>2 DEF CDiv
<1> QED BY <1>2, <1>3, <1>4

(* Scaling keeps the order of clocks, and makes no clock positive.          *)
LEMMA ScaleMonotone ==
  ASSUME NEW x \in Int, NEW y \in Int, NEW old \in Positive, NEW new \in Positive, x <= y
  PROVE  Scale(x, old, new) \in Int /\ Scale(x, old, new) <= Scale(y, old, new)
<1>1. x * new \in Int /\ y * new \in Int /\ old \div 2 \in Int
  BY DEF Positive
<1>2. x * new <= y * new
  <2>1. PICK k \in Nat : y = x + k
    <3>1. y - x \in Nat /\ y = x + (y - x)
      OBVIOUS
    <3> QED BY <3>1
  <2>2. y * new = x * new + k * new /\ k * new >= 0
    BY <2>1 DEF Positive
  <2> QED BY <1>1, <2>2 DEF Positive
<1> DEFINE a == x * new + old \div 2
           b == y * new + old \div 2
<1>3. a \in Int /\ b \in Int /\ a <= b
  BY <1>1, <1>2
<1> HIDE DEF a, b
<1>4. CDiv(a, old) \in Int /\ CDiv(a, old) <= CDiv(b, old)
  BY <1>3, CDivMonotone
<1> QED BY <1>4 DEF Scale, a, b

LEMMA ScaleInt ==
  ASSUME NEW x \in Int, NEW old \in Positive, NEW new \in Positive
  PROVE  Scale(x, old, new) \in Int
<1>1. x <= x
  OBVIOUS
<1> QED BY <1>1, ScaleMonotone

LEMMA ScaleNotPositive ==
  ASSUME NEW x \in Int, NEW old \in Positive, NEW new \in Positive, x <= 0
  PROVE  Scale(x, old, new) <= 0
<1>1. Scale(0, old, new) = 0
  <2>1. 0 * new = 0
    BY DEF Positive
  <2>2. old \div 2 >= 0 /\ old \div 2 < old /\ old \div 2 \in Int
    BY DEF Positive
  <2>3. (old \div 2) \div old = 0
    BY <2>2 DEF Positive
  <2> QED BY <2>1, <2>2, <2>3 DEF Scale, CDiv
<1> QED BY <1>1, ScaleMonotone

(* The clocks of running events keep their order too.                       *)
LEMMA ScaleEventMonotone ==
  ASSUME NEW x \in Int, NEW y \in Int, NEW old \in Positive, NEW new \in Positive, x <= y
  PROVE  /\ ScaleEvent(x, old, new) \in Int
         /\ ScaleEvent(x, old, new) <= ScaleEvent(y, old, new)
         /\ y > 0 => Scale(x, old, new) <= ScaleEvent(y, old, new)
<1>1. /\ Scale(x, old, new) \in Int /\ Scale(y, old, new) \in Int
      /\ Scale(x, old, new) <= Scale(y, old, new)
  BY ScaleMonotone
<1> QED BY <1>1 DEF ScaleEvent

-----------------------------------------------------------------------------
(* The scheduler's operations.                                             *)

(* nevent_set keeps the list ordered and the slice short enough.            *)
LEMMA SetKeeps ==
  ASSUME TypeOK, LevelOrdered, SliceFits, NEW id \in Ids, NEW c \in Int, nevent_set(id, c)
  PROVE  /\ level' \in Seq(Ids)
         /\ clock' \in [Ids -> Int]
         /\ base' \in Int /\ rem' \in Int
         /\ LevelOrdered'
         /\ SliceFits'
         /\ \A x \in Ids : Contains(level', x) <=> x = id \/ Contains(level, x)
<1> DEFINE rest == Delete(level, id)
<1>1. level \in Seq(Ids) /\ clock \in [Ids -> Int] /\ base \in Int /\ rem \in Int
  BY DEF TypeOK
<1>2. Ordered(level, clock)
  BY DEF LevelOrdered, Ordered
<1>3. /\ rest \in Seq(Ids)
      /\ Ordered(rest, clock)
      /\ \A i \in 1 .. Len(rest) : rest[i] # id /\ \E j \in 1 .. Len(level) : rest[i] = level[j]
      /\ \A j \in 1 .. Len(level) : level[j] # id => \E i \in 1 .. Len(rest) : rest[i] = level[j]
  <2>1. Deleted(rest, level, clock, id)
    BY <1>1, <1>2, DeleteOrdered
  <2> QED BY <2>1 DEF Deleted
<1>4. PICK p \in 1 .. Len(rest) + 1 :
        IsPlace(rest, p, c) /\ level' = InsertAt(rest, p, id) /\ Rebase(p = 1, c)
  BY DEF nevent_set
<1>5. clock' = [clock EXCEPT ![id] = c]
  BY DEF nevent_set
<1> HIDE DEF rest
<1>6. /\ level' \in Seq(Ids)
      /\ Ordered(level', clock')
      /\ \A i \in 1 .. Len(level') : level'[i] = id \/ \E j \in 1 .. Len(rest) : level'[i] = rest[j]
      /\ \E i \in 1 .. Len(level') : level'[i] = id
      /\ \A j \in 1 .. Len(rest) : \E i \in 1 .. Len(level') : level'[i] = rest[j]
      /\ level'[1] = IF p = 1 THEN id ELSE rest[1]
  <2>1. rest \in Seq(Ids) /\ Ordered(rest, clock) /\ \A i \in 1 .. Len(rest) : rest[i] # id
    BY <1>3
  <2>2. IsPlace(rest, p, c) /\ level' = InsertAt(rest, p, id)
    BY <1>4
  <2>3. clock \in [Ids -> Int]
    BY <1>1
  <2>4. Inserted(level', clock', rest, p, id)
    BY <1>5, <2>1, <2>2, <2>3, InsertOrdered
  <2> QED BY <2>4 DEF Inserted
<1>7. clock' \in [Ids -> Int]
  BY <1>1, <1>5
<1>8. base' \in Int /\ rem' \in Int
  BY <1>1, <1>4 DEF Rebase
<1>9. LevelOrdered'
  BY <1>6 DEF LevelOrdered, Ordered
<1>10. \A x \in Ids : Contains(level', x) <=> x = id \/ Contains(level, x)
  <2> TAKE x \in Ids
  <2>1. ASSUME Contains(level', x), x # id PROVE Contains(level, x)
    <3>1. PICK i \in 1 .. Len(level') : level'[i] = x
      BY <2>1 DEF Contains
    <3>2. PICK j \in 1 .. Len(rest) : level'[i] = rest[j]
      BY <1>6, <2>1, <3>1
    <3>3. PICK k \in 1 .. Len(level) : rest[j] = level[k]
      BY <1>3
    <3> QED BY <3>1, <3>2, <3>3 DEF Contains
  <2>2. x = id => Contains(level', x)
    BY <1>6 DEF Contains
  <2>3. ASSUME x # id, Contains(level, x) PROVE Contains(level', x)
    <3>1. PICK k \in 1 .. Len(level) : level[k] = x
      BY <2>3 DEF Contains
    <3>2. PICK j \in 1 .. Len(rest) : rest[j] = level[k]
      BY <1>3, <2>3, <3>1
    <3>3. PICK i \in 1 .. Len(level') : level'[i] = rest[j]
      BY <1>6
    <3> QED BY <3>1, <3>2, <3>3 DEF Contains
  <2> QED BY <2>1, <2>2, <2>3
<1>11. SliceFits'
  <2>0. Len(level') \in Nat /\ \A i \in 1 .. Len(level') : level'[i] \in Ids
    BY <1>6, LenProperties, ElementOfSeq
  <2>1. \A i \in 1 .. Len(level') : clock'[level'[1]] <= clock'[level'[i]]
    <3> TAKE i \in 1 .. Len(level')
    <3>1. CASE i = 1
      BY <1>7, <2>0, <3>1
    <3>2. CASE i > 1
      BY SMTT(30), <1>6, <2>0, <3>2 DEF Ordered
    <3> QED BY <2>0, <3>1, <3>2
  <2>2. CASE p = 1
    <3>1. base' = c /\ rem' = rem - (base - c)
      BY <1>4, <2>2 DEF Rebase
    <3>2. clock'[level'[1]] = c
      BY <1>1, <1>5, <1>6, <2>2
    <3>3. rem' <= base'
      BY <1>1, <3>1 DEF SliceFits
    <3> QED BY <2>1, <3>1, <3>2, <3>3 DEF SliceFits
  <2>3. CASE p # 1
    <3>1. base' = base /\ rem' = rem
      BY <1>4, <2>3 DEF Rebase
    <3>2. Len(rest) \in Nat /\ 1 \in 1 .. Len(rest)
      BY <1>3, <1>4, <2>3, LenProperties
    <3>3. PICK j \in 1 .. Len(level) : rest[1] = level[j]
      BY <1>3, <3>2
    <3>4. clock'[level'[1]] = clock[level[j]]
      <4>1. level'[1] = level[j]
        BY <1>6, <2>3, <3>3
      <4>2. level[j] # id
        BY <1>3, <3>2, <3>3
      <4>3. level[j] \in Ids
        BY <1>1, ElementOfSeq
      <4> QED BY <1>1, <1>5, <4>1, <4>2, <4>3
    <3>5. rem > 0 => base <= clock[level[j]]
      BY <3>3 DEF SliceFits
    <3>6. rem' > 0 => base' <= clock'[level'[1]]
      BY <3>1, <3>4, <3>5
    <3>7. \A i \in 1 .. Len(level') : clock'[level'[i]] \in Int /\ clock'[level'[1]] \in Int
      BY <1>7, <2>0
    <3>8. rem' <= base'
      BY <3>1 DEF SliceFits
    <3> QED BY <1>8, <2>1, <3>6, <3>7, <3>8 DEF SliceFits
  <2> QED BY <2>2, <2>3
<1> QED BY <1>6, <1>7, <1>8, <1>9, <1>10, <1>11

(* nevent_changeclock keeps the order, and the slice short enough.          *)
LEMMA ChangeClockKeeps ==
  ASSUME TypeOK, LevelOrdered, SliceFits, NEW new \in Positive,
         nevent_changeclock(multiple, new), level' = level
  PROVE  /\ clock' \in [Ids -> Int]
         /\ base' \in Int /\ rem' \in Int
         /\ LevelOrdered'
         /\ SliceFits'
<1> DEFINE old == multiple
<1>1. /\ level \in Seq(Ids) /\ clock \in [Ids -> Int] /\ base \in Int /\ rem \in Int
      /\ old \in Positive /\ new \in Positive
  BY ClocksAssumption DEF TypeOK, Positive
<1>2. Len(level) \in Nat /\ \A i \in 1 .. Len(level) : level[i] \in Ids
  BY <1>1, LenProperties, ElementOfSeq
<1>3. CASE level = <<>>
  <2>1. clock' = clock /\ base' = base /\ rem' = rem
    BY <1>3 DEF nevent_changeclock
  <2> QED BY <1>1, <2>1 DEF LevelOrdered, SliceFits
<1>4. CASE level # <<>>
  <2> HIDE DEF old
  <2>1. clock' = [id \in Ids |-> IF nevent_iswork(id) THEN ScaleEvent(clock[id], old, new)
                                                     ELSE clock[id]]
    BY <1>4 DEF nevent_changeclock, old
  <2>2. \A id \in Ids : ScaleEvent(clock[id], old, new) \in Int
    BY <1>1, ScaleEventMonotone
  <2>3. clock' \in [Ids -> Int]
    BY <1>1, <2>1, <2>2
  <2>4. \A i \in 1 .. Len(level) : clock'[level[i]] = ScaleEvent(clock[level[i]], old, new)
    BY <1>2, <2>1 DEF nevent_iswork, Contains
  <2>5. \A i, j \in 1 .. Len(level) :
          i < j => level[i] # level[j] /\ clock'[level[i]] <= clock'[level[j]]
    <3> SUFFICES ASSUME NEW i \in 1 .. Len(level), NEW j \in 1 .. Len(level), i < j
                 PROVE  level[i] # level[j] /\ clock'[level[i]] <= clock'[level[j]]
      OBVIOUS
    <3>1. level[i] # level[j] /\ clock[level[i]] <= clock[level[j]]
      BY DEF LevelOrdered
    <3>2. ScaleEvent(clock[level[i]], old, new) <= ScaleEvent(clock[level[j]], old, new)
      BY <1>1, <1>2, <3>1, ScaleEventMonotone
    <3> QED BY <2>4, <3>1, <3>2
  <2>6. 1 \in 1 .. Len(level)
    BY <1>1, <1>2, <1>4, EmptySeq
  <2>7. LevelOrdered'
    BY <2>5 DEF LevelOrdered
  <2>8. CASE base = rem
    <3>1. base' = clock'[level[1]] /\ rem' = clock'[level[1]]
      BY <1>4, <2>8 DEF nevent_changeclock
    <3>2. base' \in Int
      BY <1>2, <2>3, <2>6, <3>1
    <3>3. \A i \in 1 .. Len(level) : clock'[level[1]] <= clock'[level[i]]
      <4> TAKE i \in 1 .. Len(level)
      <4>1. CASE i = 1
        BY <3>1, <3>2, <4>1
      <4>2. CASE i > 1
        BY <2>5, <2>6, <4>2
      <4> QED BY <1>2, <4>1, <4>2
    <3> QED BY <2>3, <2>7, <3>1, <3>2, <3>3 DEF SliceFits
  <2>9. CASE base # rem
    <3>1. base' = Scale(base, old, new) /\ rem' = Scale(rem, old, new)
      BY <1>4, <2>9 DEF nevent_changeclock, old
    <3>2. base' \in Int /\ rem' \in Int /\ rem' <= base'
      BY <1>1, <3>1, ScaleMonotone DEF SliceFits
    <3>3. ASSUME rem' > 0, NEW i \in 1 .. Len(level)
          PROVE  base' <= clock'[level[i]]
      <4>1. rem > 0
        BY <1>1, <3>1, <3>2, <3>3, ScaleNotPositive
      <4>2. base <= clock[level[i]] /\ clock[level[i]] > 0 /\ clock[level[i]] \in Int
        BY <1>1, <1>2, <4>1 DEF SliceFits
      <4>3. Scale(base, old, new) <= Scale(clock[level[i]], old, new)
        BY <1>1, <4>2, ScaleMonotone
      <4>4. Scale(base, old, new) \in Int /\ Scale(clock[level[i]], old, new) \in Int
        BY <1>1, <4>2, ScaleInt
      <4>5. Scale(clock[level[i]], old, new) <= ScaleEvent(clock[level[i]], old, new)
            /\ ScaleEvent(clock[level[i]], old, new) \in Int
        BY <4>2, <4>4 DEF ScaleEvent
      <4> QED BY <2>4, <3>1, <4>3, <4>4, <4>5
    <3> QED BY <2>3, <2>7, <3>2, <3>3 DEF SliceFits
  <2> QED BY <2>8, <2>9
<1> QED BY <1>3, <1>4

(* The front of the queue of waiting events is taken away.                  *)
LEMMA TailEntries ==
  ASSUME NEW w \in Seq(Ids), w # <<>>,
         \A i, j \in 1 .. Len(w) : i < j => w[i] # w[j]
  PROVE  /\ Tail(w) \in Seq(Ids)
         /\ \A i, j \in 1 .. Len(Tail(w)) : i < j => Tail(w)[i] # Tail(w)[j]
         /\ \A id : Contains(w, id) /\ id # Head(w) => Contains(Tail(w), id)
         /\ Head(w) \in Ids
         /\ ~Contains(Tail(w), Head(w))
<1>1. /\ Tail(w) \in Seq(Ids) /\ Len(Tail(w)) = Len(w) - 1 /\ Len(w) \in Nat
      /\ \A i \in 1 .. Len(Tail(w)) : Tail(w)[i] = w[i + 1]
      /\ Head(w) \in Ids
  BY HeadTailProperties, LenProperties
<1>2. Head(w) = w[1] /\ Len(w) >= 1
  BY <1>1, EmptySeq
<1>3. \A i, j \in 1 .. Len(Tail(w)) : i < j => Tail(w)[i] # Tail(w)[j]
  <2> SUFFICES ASSUME NEW i \in 1 .. Len(Tail(w)), NEW j \in 1 .. Len(Tail(w)), i < j
               PROVE  Tail(w)[i] # Tail(w)[j]
    OBVIOUS
  <2>1. i + 1 \in 1 .. Len(w) /\ j + 1 \in 1 .. Len(w) /\ i + 1 < j + 1
    BY <1>1
  <2> QED BY <1>1, <2>1
<1>4. ASSUME NEW id, Contains(w, id), id # Head(w)
      PROVE  Contains(Tail(w), id)
  <2>1. PICK i \in 1 .. Len(w) : w[i] = id
    BY <1>4 DEF Contains
  <2>2. i - 1 \in 1 .. Len(Tail(w)) /\ (i - 1) + 1 = i
    BY <1>1, <1>2, <1>4, <2>1
  <2>3. Tail(w)[i - 1] = id
    BY <1>1, <2>1, <2>2
  <2> QED BY <2>2, <2>3 DEF Contains
<1>5. ~Contains(Tail(w), Head(w))
  <2> SUFFICES ASSUME NEW i \in 1 .. Len(Tail(w)), Tail(w)[i] = Head(w)
               PROVE  FALSE
    BY DEF Contains
  <2>1. 1 \in 1 .. Len(w) /\ i + 1 \in 1 .. Len(w) /\ 1 < i + 1
    BY <1>1, <1>2
  <2> QED BY <1>1, <1>2, <2>1
<1> QED BY <1>1, <1>3, <1>4, <1>5

-----------------------------------------------------------------------------
(* The invariant.                                                          *)

(* What a call of nevent_set preserves, whoever makes it.                   *)
LEMMA SetInvariants ==
  ASSUME IInv, phase # "next", NEW id \in Ids, NEW c \in Int, nevent_set(id, c), ClearFlag(id),
         waitevent' = waitevent
  PROVE  /\ level' \in Seq(Ids) /\ clock' \in [Ids -> Int]
         /\ setevent' \in [Ids -> BOOLEAN]
         /\ base' \in Int /\ rem' \in Int
         /\ LevelOrdered' /\ SliceFits' /\ EffectiveOnce'
         /\ \A x \in Ids : Contains(level, x) => Contains(level', x)
<1>1. TypeOK /\ LevelOrdered /\ SliceFits /\ EffectiveOnce
  BY DEF IInv, SliceOrShadow
<1>2. /\ level' \in Seq(Ids) /\ clock' \in [Ids -> Int]
      /\ base' \in Int /\ rem' \in Int
      /\ LevelOrdered' /\ SliceFits'
      /\ \A x \in Ids : Contains(level', x) <=> x = id \/ Contains(level, x)
  BY <1>1, SetKeeps
<1>3. setevent' = [setevent EXCEPT ![id] = FALSE] /\ setevent \in [Ids -> BOOLEAN]
  BY <1>1 DEF ClearFlag, TypeOK
<1>4. setevent' \in [Ids -> BOOLEAN]
  BY <1>3
<1>5. EffectiveOnce'
  <2>1. \A i, j \in 1 .. Len(waitevent') : i < j => waitevent'[i] # waitevent'[j]
    BY <1>1 DEF EffectiveOnce
  <2>2. ASSUME NEW x \in Ids, setevent'[x]
        PROVE  Contains(waitevent', x) /\ ~Contains(level', x)
    <3>1. x # id /\ setevent[x]
      BY <1>3, <2>2
    <3>2. Contains(waitevent, x) /\ ~Contains(level, x)
      BY <1>1, <3>1 DEF EffectiveOnce, nevent_iswork
    <3> QED BY <1>2, <3>1, <3>2
  <2> QED BY <2>1, <2>2 DEF EffectiveOnce, nevent_iswork
<1> QED BY <1>2, <1>4, <1>5

LEMMA InitInvariant == Init => IInv
<1> SUFFICES ASSUME Init PROVE IInv
  OBVIOUS
<1>1. TypeOK
  <2>1. clock \in [Ids -> Int] /\ setevent \in [Ids -> BOOLEAN]
    BY DEF Init
  <2>2. level \in Seq(Ids) /\ waitevent \in Seq(Ids)
    BY EmptySeq DEF Init
  <2>3. base \in Int /\ rem \in Int /\ proc \in {"screenvsync", "screendisp"}
    BY DEF Init
  <2>4. screendispflag \in BOOLEAN
    BY DEF Init
  <2>5. maxmultiple \in Multiples /\ multiple \in 1 .. maxmultiple /\ phase \in Phases
    BY ClocksAssumption DEF Init, Phases, Positive
  <2> QED BY <2>1, <2>2, <2>3, <2>4, <2>5 DEF TypeOK
<1>2. Len(level) = 0 /\ Len(waitevent) = 0
  BY DEF Init
<1>3. LevelOrdered /\ SliceOrShadow /\ EffectiveOnce
  BY <1>2 DEF LevelOrdered, SliceOrShadow, SliceFits, EffectiveOnce, Init
<1>4. FrameEventKept /\ PhaseFits
  BY DEF FrameEventKept, PhaseFits, Init
<1> QED BY <1>1, <1>3, <1>4 DEF IInv

(* nevent_set called for a device from the host, an instruction or a        *)
(* callback, with NEVENT_ABSOLUTE or NEVENT_RELATIVE.                       *)
LEMMA SetStep ==
  ASSUME IInv, NEW id \in Devices, NEW d \in Delays, SetAbsolute(id, d) \/ SetRelative(id, d)
  PROVE  IInv'
<1>0. id \in Ids /\ Flames \in Ids /\ d \in Int /\ phase # "next"
  BY ClocksAssumption DEF Ids, Positive, SetAbsolute, SetRelative, Calling
<1>1. TypeOK /\ FrameEventKept /\ PhaseFits
  BY DEF IInv
<1>2. PICK c \in Int : nevent_set(id, c)
  <2>1. base \in Int /\ rem \in Int /\ clock[id] \in Int
    BY <1>0, <1>1 DEF TypeOK
  <2>2. AbsoluteClock(d) \in Int /\ clock[id] + d \in Int
    BY <1>0, <2>1 DEF AbsoluteClock, Elapsed
  <2> QED BY <2>2 DEF SetAbsolute, SetRelative
<1>3. ClearFlag(id) /\ waitevent' = waitevent
      /\ UNCHANGED <<proc, screendispflag, multiple, maxmultiple, phase>>
  BY DEF SetAbsolute, SetRelative, multiples
<1>4. /\ level' \in Seq(Ids) /\ clock' \in [Ids -> Int]
      /\ setevent' \in [Ids -> BOOLEAN]
      /\ base' \in Int /\ rem' \in Int
      /\ LevelOrdered' /\ SliceFits' /\ EffectiveOnce'
      /\ \A x \in Ids : Contains(level, x) => Contains(level', x)
  BY <1>0, <1>2, <1>3, SetInvariants
<1>5. TypeOK'
  BY <1>1, <1>3, <1>4 DEF TypeOK
<1>6. FrameEventKept' /\ PhaseFits'
  BY <1>0, <1>1, <1>3, <1>4 DEF FrameEventKept, PhaseFits, nevent_iswork
<1> QED BY <1>0, <1>3, <1>4, <1>5, <1>6 DEF IInv, SliceOrShadow

(* nevent_reset for a device.                                               *)
LEMMA ResetStep ==
  ASSUME IInv, NEW id \in Devices, nevent_reset(id)
  PROVE  IInv'
<1>0. id \in Ids /\ Flames \in Ids /\ Flames # id /\ phase # "next"
  BY DevicesAssumption DEF Ids, nevent_reset, Calling
<1>1. TypeOK /\ LevelOrdered /\ SliceFits /\ EffectiveOnce /\ FrameEventKept /\ PhaseFits
  BY <1>0 DEF IInv, SliceOrShadow
<1>2. /\ level' = Delete(level, id)
      /\ UNCHANGED <<waitevent, clock, setevent, base, rem, proc, screendispflag,
                     multiple, maxmultiple, phase>>
  BY DEF nevent_reset, multiples
<1>3. level \in Seq(Ids) /\ clock \in [Ids -> Int] /\ Ordered(level, clock)
  BY <1>1 DEF TypeOK, LevelOrdered, Ordered
<1>4. /\ level' \in Seq(Ids)
      /\ Ordered(level', clock)
      /\ \A i \in 1 .. Len(level') : level'[i] # id /\ \E j \in 1 .. Len(level) : level'[i] = level[j]
      /\ \A j \in 1 .. Len(level) : level[j] # id => \E i \in 1 .. Len(level') : level'[i] = level[j]
  <2>1. Deleted(level', level, clock, id)
    BY <1>0, <1>2, <1>3, DeleteOrdered
  <2> QED BY <2>1 DEF Deleted
<1>5. TypeOK' /\ LevelOrdered'
  BY <1>1, <1>2, <1>4 DEF TypeOK, LevelOrdered, Ordered
<1>6. SliceFits'
  <2>1. ASSUME rem > 0, NEW i \in 1 .. Len(level') PROVE base <= clock[level'[i]]
    <3>1. PICK j \in 1 .. Len(level) : level'[i] = level[j]
      BY <1>4
    <3> QED BY <1>1, <2>1, <3>1 DEF SliceFits
  <2> QED BY <1>1, <1>2, <2>1 DEF SliceFits
<1>7. EffectiveOnce'
  <2>1. ASSUME NEW x \in Ids, ~Contains(level, x) PROVE ~Contains(level', x)
    BY <1>4, <2>1 DEF Contains
  <2> QED BY <1>1, <1>2, <2>1 DEF EffectiveOnce, nevent_iswork
<1>8. Contains(level, Flames) => Contains(level', Flames)
  BY <1>0, <1>4 DEF Contains
<1>9. FrameEventKept' /\ PhaseFits'
  BY <1>1, <1>2, <1>8 DEF FrameEventKept, PhaseFits, nevent_iswork
<1> QED BY <1>0, <1>2, <1>5, <1>6, <1>7, <1>9 DEF IInv, SliceOrShadow

(* nevent_forceexit, the instructions, the clock changes and the ends of    *)
(* the loop leave the list of events alone.                                 *)
LEMMA ForceExitStep ==
  ASSUME IInv, nevent_forceexit
  PROVE  IInv'
<1>1. TypeOK'
  BY DEF IInv, TypeOK, nevent_forceexit, multiples
<1>2. SliceOrShadow'
  BY DEF IInv, TypeOK, SliceOrShadow, SliceFits, nevent_forceexit
<1>3. LevelOrdered' /\ EffectiveOnce' /\ FrameEventKept' /\ PhaseFits'
  BY DEF IInv, LevelOrdered, EffectiveOnce, FrameEventKept, PhaseFits, nevent_iswork, nevent_forceexit
<1> QED BY <1>1, <1>2, <1>3 DEF IInv

(* An accepted interrupt only takes clocks off the slice.                   *)
LEMMA PicIrqStep ==
  ASSUME IInv, NEW n \in EntryClocks \cup {0}, PicIrq(n)
  PROVE  IInv'
<1>1. /\ phase = "loop" /\ phase' = "cpu" /\ rem' = rem - n /\ n \in Nat
      /\ UNCHANGED <<level, waitevent, clock, setevent, base, proc, screendispflag,
                     multiple, maxmultiple>>
  BY ClocksAssumption DEF PicIrq, multiples, Positive
<1>2. TypeOK'
  BY <1>1 DEF IInv, TypeOK, Phases
<1>3. SliceOrShadow'
  <2>1. rem \in Int /\ base \in Int /\ SliceFits
    BY <1>1 DEF IInv, TypeOK, SliceOrShadow
  <2>2. rem' <= base' /\ (rem' > 0 => rem > 0)
    BY <1>1, <2>1 DEF SliceFits
  <2> QED BY <1>1, <2>1, <2>2 DEF SliceOrShadow, SliceFits
<1>4. LevelOrdered' /\ EffectiveOnce' /\ FrameEventKept' /\ PhaseFits'
  BY <1>1 DEF IInv, LevelOrdered, EffectiveOnce, FrameEventKept, PhaseFits, nevent_iswork
<1> QED BY <1>2, <1>3, <1>4 DEF IInv

(* An instruction takes at least one clock; one that the core owes another  *)
(* moves the end of the slice to one clock from now.                        *)
LEMMA InstructionClocks ==
  ASSUME IInv, (\E n \in StepClocks : CpuStep(n) \/ CpuShadow(n)) \/ CpuHalt
  PROVE  /\ phase \in {"cpu", "insn", "next"} /\ waitevent = <<>> /\ screendispflag
         /\ rem \in Int /\ base \in Int /\ 0 < rem /\ rem <= base
         /\ phase = "next" => rem = 1
         /\ \E n \in Positive :
              \/ phase' = "insn" /\ base' = base /\ rem' = rem - n
              \/ phase' = "next" /\ base' = base + 1 - (rem - n) /\ rem' = 1
         /\ UNCHANGED <<level, waitevent, clock, setevent, proc, screendispflag,
                        multiple, maxmultiple>>
<1>1. /\ phase \in {"cpu", "insn", "next"} /\ 0 < rem
      /\ UNCHANGED <<level, waitevent, clock, setevent, proc, screendispflag,
                     multiple, maxmultiple>>
  BY DEF CpuStep, CpuHalt, CpuShadow, Executing, multiples
<1>2. /\ rem \in Int /\ base \in Int /\ rem <= base /\ waitevent = <<>> /\ screendispflag
      /\ phase = "next" => rem = 1
  BY <1>1 DEF IInv, TypeOK, SliceOrShadow, SliceFits, PhaseFits
<1>3. \E n \in Positive :
        \/ phase' = "insn" /\ base' = base /\ rem' = rem - n
        \/ phase' = "next" /\ base' = base + 1 - (rem - n) /\ rem' = 1
  <2>1. ASSUME NEW n \in StepClocks, CpuStep(n) \/ CpuShadow(n)
        PROVE  \/ phase' = "insn" /\ base' = base /\ rem' = rem - n
               \/ phase' = "next" /\ base' = base + 1 - (rem - n) /\ rem' = 1
    BY <2>1 DEF CpuStep, CpuShadow
  <2>2. StepClocks \subseteq Positive
    BY ClocksAssumption
  <2>3. ASSUME CpuHalt
        PROVE  phase' = "insn" /\ base' = base /\ rem' = rem - (rem + 1) /\ rem + 1 \in Positive
    BY <1>1, <1>2, <2>3 DEF CpuHalt, Positive
  <2> QED BY <2>1, <2>2, <2>3
<1> QED BY <1>1, <1>2, <1>3

LEMMA CpuInvariant ==
  ASSUME IInv, (\E n \in StepClocks : CpuStep(n) \/ CpuShadow(n)) \/ CpuHalt
  PROVE  IInv'
<1>1. /\ phase \in {"cpu", "insn", "next"} /\ waitevent = <<>> /\ screendispflag
      /\ rem \in Int /\ base \in Int /\ 0 < rem /\ rem <= base
      /\ phase = "next" => rem = 1
      /\ UNCHANGED <<level, waitevent, clock, setevent, proc, screendispflag,
                     multiple, maxmultiple>>
  BY InstructionClocks
<1>2. PICK n \in Positive :
        \/ phase' = "insn" /\ base' = base /\ rem' = rem - n
        \/ phase' = "next" /\ base' = base + 1 - (rem - n) /\ rem' = 1
  BY InstructionClocks
<1>3. rem' \in Int /\ base' \in Int /\ rem' <= base' /\ phase' \in {"insn", "next"}
  BY <1>1, <1>2 DEF Positive
<1>4. TypeOK'
  BY <1>1, <1>3 DEF IInv, TypeOK, Phases
<1>5. SliceOrShadow'
  <2>1. CASE phase' = "insn"
    <3>1. rem' > 0 => phase # "next" /\ rem > 0 /\ base' = base
      BY <1>1, <1>2, <2>1 DEF Positive
    <3>2. phase # "next" => SliceFits
      BY DEF IInv, SliceOrShadow
    <3>3. SliceFits'
      BY <1>1, <1>3, <3>1, <3>2 DEF SliceFits
    <3> QED BY <2>1, <3>3 DEF SliceOrShadow
  <2>2. CASE phase' = "next"
    BY <1>2, <1>3, <2>2 DEF SliceOrShadow
  <2> QED BY <1>3, <2>1, <2>2
<1>6. LevelOrdered' /\ EffectiveOnce' /\ FrameEventKept'
  BY <1>1 DEF IInv, LevelOrdered, EffectiveOnce, FrameEventKept, nevent_iswork
<1>7. PhaseFits'
  BY <1>1 DEF PhaseFits
<1> QED BY <1>4, <1>5, <1>6, <1>7 DEF IInv

(* A change of the clock multiple, by the guest or by pccore_asynccpu,      *)
(* leaves a multiple between 1 and pccore.maxmultiple.                      *)
LEMMA MultipleChanges ==
  ASSUME IInv, \/ \E new \in Multiples : IoChangeClock(new)
               \/ \E step \in Steps : AsyncChangeClock(step)
  PROVE  /\ nevent_changeclock(multiple, multiple')
         /\ multiple \in Positive /\ multiple' \in Positive
         /\ maxmultiple' \in Multiples /\ multiple' \in 1 .. maxmultiple'
         /\ waitevent = <<>> /\ phase # "next" /\ phase' # "next" /\ Turn' = Turn
         /\ \/ phase = "insn" /\ phase' = phase
            \/ phase = "execute" /\ LoopBack
         /\ UNCHANGED <<level, waitevent, setevent, proc, screendispflag>>
<1>1. multiple \in Positive /\ maxmultiple \in Multiples /\ maxmultiple \in Positive
      /\ multiple \in 1 .. maxmultiple
  BY ClocksAssumption DEF IInv, TypeOK, Positive
<1>2. ASSUME NEW new \in Multiples, IoChangeClock(new)
      PROVE  /\ nevent_changeclock(multiple, multiple') /\ multiple' = new /\ maxmultiple' = new
             /\ new \in Positive
             /\ waitevent = <<>> /\ phase = "insn" /\ phase' = phase /\ Turn' = Turn
             /\ UNCHANGED <<level, waitevent, setevent, proc, screendispflag>>
  <2>1. /\ nevent_changeclock(multiple, new) /\ multiple' = new /\ maxmultiple' = new
        /\ phase = "insn" /\ phase' = phase
        /\ UNCHANGED <<level, waitevent, setevent, proc, screendispflag>>
    BY <1>2 DEF IoChangeClock
  <2>2. new \in Positive /\ waitevent = <<>>
    BY <2>1, ClocksAssumption DEF IInv, PhaseFits
  <2> QED BY <2>1, <2>2 DEF Turn
<1>3. ASSUME NEW step \in Steps, AsyncChangeClock(step)
      PROVE  /\ nevent_changeclock(multiple, multiple') /\ multiple' \in 1 .. maxmultiple
             /\ maxmultiple' = maxmultiple
             /\ waitevent = <<>> /\ phase = "execute" /\ LoopBack
             /\ phase' # "next" /\ Turn' = Turn
             /\ UNCHANGED <<level, waitevent, setevent, proc, screendispflag>>
  <2>1. /\ nevent_changeclock(multiple, multiple') /\ maxmultiple' = maxmultiple
        /\ \/ multiple > 1 /\ multiple' = Lowered(step)
           \/ multiple < maxmultiple /\ multiple' = Raised(step)
        /\ waitevent = <<>> /\ phase = "execute" /\ LoopBack
        /\ UNCHANGED <<level, waitevent, setevent, proc, screendispflag>>
    BY <1>3 DEF AsyncChangeClock
  <2>2. step \in Positive
    BY ClocksAssumption
  <2>3. Lowered(step) \in 1 .. maxmultiple
    BY <1>1, <2>2 DEF Lowered, Positive
  <2>4. Raised(step) \in 1 .. maxmultiple
    BY <1>1, <2>2 DEF Raised, Positive
  <2> QED BY <2>1, <2>3, <2>4 DEF LoopBack, Turn
<1>4. CASE \E new \in Multiples : IoChangeClock(new)
  BY <1>1, <1>2, <1>4 DEF Positive
<1>5. CASE \E step \in Steps : AsyncChangeClock(step)
  BY <1>1, <1>3, <1>5 DEF Positive
<1> QED BY <1>4, <1>5

LEMMA ChangeClockStep ==
  ASSUME IInv, \/ \E new \in Multiples : IoChangeClock(new)
               \/ \E step \in Steps : AsyncChangeClock(step)
  PROVE  IInv'
<1>1. /\ nevent_changeclock(multiple, multiple') /\ multiple' \in Positive
      /\ maxmultiple' \in Multiples /\ multiple' \in 1 .. maxmultiple'
      /\ waitevent = <<>> /\ phase # "next" /\ phase' # "next"
      /\ \/ phase = "insn" /\ phase' = phase
         \/ phase = "execute" /\ LoopBack
      /\ UNCHANGED <<level, waitevent, setevent, proc, screendispflag>>
  BY MultipleChanges
<1>2. /\ clock' \in [Ids -> Int]
      /\ base' \in Int /\ rem' \in Int
      /\ LevelOrdered' /\ SliceFits'
  BY <1>1, ChangeClockKeeps DEF IInv, SliceOrShadow
<1>3. TypeOK'
  BY <1>1, <1>2 DEF IInv, TypeOK, Phases, LoopBack
<1>4. EffectiveOnce'
  BY <1>1 DEF IInv, EffectiveOnce, nevent_iswork
<1>5. FrameEventKept' /\ PhaseFits'
  BY <1>1 DEF IInv, FrameEventKept, PhaseFits, nevent_iswork, LoopBack
<1> QED BY <1>1, <1>2, <1>3, <1>4, <1>5 DEF IInv, SliceOrShadow

LEMMA EndProgressStep ==
  ASSUME IInv, EndProgress
  PROVE  IInv'
<1>1. TypeOK'
  BY DEF IInv, TypeOK, Phases, EndProgress, LoopBack, multiples
<1>2. LevelOrdered' /\ SliceOrShadow' /\ EffectiveOnce'
  BY DEF IInv, LevelOrdered, SliceOrShadow, SliceFits, EffectiveOnce, nevent_iswork,
         EndProgress, LoopBack
<1>3. FrameEventKept' /\ PhaseFits'
  BY DEF IInv, FrameEventKept, PhaseFits, nevent_iswork, EndProgress, LoopBack
<1> QED BY <1>1, <1>2, <1>3 DEF IInv

LEMMA BeginFrameStep ==
  ASSUME IInv, BeginFrame
  PROVE  IInv'
<1>1. /\ phase = "host" /\ ClearFlag(Flames) /\ UNCHANGED <<waitevent, multiple, maxmultiple>>
      /\ proc' = "screenvsync" /\ screendispflag' = TRUE /\ phase' = "loop"
  BY DEF BeginFrame, multiples
<1>2. Flames \in Ids
  BY DEF Ids
<1>3. PICK c \in Int : nevent_set(Flames, c)
  <2>1. clock[Flames] + DispClock \in Int
    BY <1>2, ClocksAssumption DEF IInv, TypeOK, Positive
  <2> QED BY <2>1 DEF BeginFrame
<1>4. /\ level' \in Seq(Ids) /\ clock' \in [Ids -> Int]
      /\ setevent' \in [Ids -> BOOLEAN]
      /\ base' \in Int /\ rem' \in Int
      /\ LevelOrdered' /\ SliceFits' /\ EffectiveOnce'
  BY <1>1, <1>2, <1>3, SetInvariants
<1>5. Contains(level', Flames)
  BY <1>1, <1>2, <1>3, SetKeeps DEF IInv, SliceOrShadow
<1>6. TypeOK'
  BY <1>1, <1>4 DEF IInv, TypeOK, Phases
<1>7. FrameEventKept' /\ PhaseFits'
  BY <1>1, <1>5 DEF IInv, FrameEventKept, PhaseFits, nevent_iswork
<1> QED BY <1>1, <1>4, <1>6, <1>7 DEF IInv, SliceOrShadow

LEMMA PccoreResetStep ==
  ASSUME IInv, NEW configured \in Multiples, pccore_reset(configured)
  PROVE  IInv'
<1>1. /\ level' = <<>> /\ waitevent' = <<>> /\ base' = 0 /\ rem' = 0
      /\ clock' = [id \in Ids |-> 0] /\ setevent' = [id \in Ids |-> FALSE]
      /\ phase' = "host" /\ UNCHANGED <<proc, screendispflag>>
      /\ maxmultiple' = configured /\ multiple' \in 1 .. configured
  BY ClocksAssumption DEF pccore_reset, Positive
<1>2. Len(level') = 0 /\ Len(waitevent') = 0
  BY <1>1
<1>3. TypeOK'
  <2>1. level' \in Seq(Ids) /\ waitevent' \in Seq(Ids)
    BY <1>1, EmptySeq
  <2>2. clock' \in [Ids -> Int] /\ setevent' \in [Ids -> BOOLEAN]
    BY <1>1
  <2> QED BY <1>1, <2>1, <2>2 DEF IInv, TypeOK, Phases
<1>4. LevelOrdered' /\ SliceOrShadow' /\ EffectiveOnce'
  BY <1>1, <1>2 DEF LevelOrdered, SliceOrShadow, SliceFits, EffectiveOnce
<1>5. FrameEventKept' /\ PhaseFits'
  BY <1>1 DEF FrameEventKept, PhaseFits
<1> QED BY <1>3, <1>4, <1>5 DEF IInv

(* nevent_progress: the due events move from the list to the queue.         *)
LEMMA ProgressStep ==
  ASSUME IInv, Progress
  PROVE  IInv'
<1>1. /\ TypeOK /\ LevelOrdered /\ SliceFits /\ EffectiveOnce /\ FrameEventKept /\ PhaseFits
      /\ phase \in {"cpu", "insn"} /\ rem <= 0 /\ waitevent = <<>> /\ screendispflag
  BY DEF IInv, SliceOrShadow, Progress, PhaseFits
<1>2. /\ level \in Seq(Ids) /\ clock \in [Ids -> Int] /\ base \in Int /\ rem \in Int
      /\ setevent \in [Ids -> BOOLEAN] /\ Flames \in Ids
  BY <1>1 DEF TypeOK, Ids
<1>3. Len(level) \in Nat /\ \A i \in 1 .. Len(level) : level[i] \in Ids
  BY <1>2, LenProperties, ElementOfSeq
<1>4. PICK n \in 0 .. Len(level) :
        /\ level' = SubSeq(level, n + 1, Len(level))
        /\ waitevent' = SubSeq(level, 1, n)
        /\ setevent' = [id \in Ids |-> setevent[id] \/ \E i \in 1 .. n : level[i] = id]
  BY DEF Progress
<1>5. /\ level' \in Seq(Ids) /\ Len(level') = Len(level) - n
      /\ \A i \in 1 .. Len(level) - n : level'[i] = level[n + i]
  <2>1. /\ level' \in Seq(Ids)
        /\ Len(level') = IF n + 1 <= Len(level) THEN Len(level) - (n + 1) + 1 ELSE 0
        /\ \A i \in 1 .. Len(level) - (n + 1) + 1 : level'[i] = level[(n + 1) + i - 1]
    BY <1>3, <1>4, SubSeqProperties
  <2> QED BY <1>3, <2>1
<1>6. /\ waitevent' \in Seq(Ids) /\ Len(waitevent') = n
      /\ \A i \in 1 .. n : waitevent'[i] = level[i]
  <2>1. /\ waitevent' \in Seq(Ids)
        /\ Len(waitevent') = IF 1 <= n THEN n - 1 + 1 ELSE 0
        /\ \A i \in 1 .. n - 1 + 1 : waitevent'[i] = level[1 + i - 1]
    BY <1>3, <1>4, SubSeqProperties
  <2> QED BY <1>3, <2>1
<1>7. clock' = [id \in Ids |-> IF nevent_iswork(id) THEN clock[id] - base ELSE clock[id]]
  BY DEF Progress
<1>8. clock' \in [Ids -> Int]
  BY <1>2, <1>7
<1>9. PICK b \in NextBases :
        /\ b <= MaxClock /\ \A i \in 1 .. Len(level') : b <= clock'[level'[i]]
        /\ base' = b /\ rem' = rem + b
  BY DEF Progress
<1>10. b \in Int
  <2>1. \A i \in 1 .. Len(level') : clock'[level'[i]] \in Int
    BY <1>5, <1>8, ElementOfSeq
  <2> QED BY <2>1, ClocksAssumption DEF NextBases, Positive
<1>11. TypeOK'
  <2>1. setevent' \in [Ids -> BOOLEAN]
    BY <1>4
  <2>2. proc' = proc /\ multiple' = multiple /\ maxmultiple' = maxmultiple /\ phase' = "execute"
        /\ screendispflag' = (screendispflag /\ nevent_iswork(Flames))
    BY DEF Progress, multiples
  <2>3. screendispflag' \in BOOLEAN
    BY <2>2
  <2> QED BY <1>1, <1>2, <1>5, <1>6, <1>8, <1>9, <1>10, <2>1, <2>2, <2>3 DEF TypeOK, Phases
<1>12. LevelOrdered'
  <2> SUFFICES ASSUME NEW i \in 1 .. Len(level'), NEW j \in 1 .. Len(level'), i < j
               PROVE  level'[i] # level'[j] /\ clock'[level'[i]] <= clock'[level'[j]]
    BY DEF LevelOrdered
  <2>1. n + i \in 1 .. Len(level) /\ n + j \in 1 .. Len(level) /\ n + i < n + j
    BY <1>3, <1>5
  <2>2. level'[i] = level[n + i] /\ level'[j] = level[n + j]
    BY <1>5, <2>1
  <2>3. level[n + i] # level[n + j] /\ clock[level[n + i]] <= clock[level[n + j]]
    BY <1>1, <2>1 DEF LevelOrdered
  <2>4. nevent_iswork(level[n + i]) /\ nevent_iswork(level[n + j])
    BY <2>1 DEF nevent_iswork, Contains
  <2>5. /\ clock'[level[n + i]] = clock[level[n + i]] - base
        /\ clock'[level[n + j]] = clock[level[n + j]] - base
        /\ clock[level[n + i]] \in Int /\ clock[level[n + j]] \in Int
    BY <1>2, <1>3, <1>7, <2>1, <2>4
  <2>6. clock'[level[n + i]] <= clock'[level[n + j]]
    <3>1. \A u, v \in Int : u <= v => u - base <= v - base
      BY <1>2
    <3> QED BY <2>3, <2>5, <3>1
  <2> QED BY <2>2, <2>3, <2>6
<1>13. SliceOrShadow'
  <2>1. SliceFits'
    BY <1>1, <1>2, <1>9, <1>10 DEF SliceFits
  <2> QED BY <2>1 DEF SliceOrShadow, Progress
<1>14. \A id : Contains(waitevent', id) <=> \E i \in 1 .. n : level[i] = id
  BY <1>6 DEF Contains
<1>15. \A id \in Ids : Contains(waitevent', id) => ~Contains(level', id)
  <2> SUFFICES ASSUME NEW i \in 1 .. n, NEW j \in 1 .. Len(level'), level[i] = level'[j]
               PROVE  FALSE
    BY <1>14 DEF Contains
  <2>1. n + j \in 1 .. Len(level) /\ i \in 1 .. Len(level) /\ i < n + j
    BY <1>3, <1>5
  <2>2. level'[j] = level[n + j]
    BY <1>5, <2>1
  <2> QED BY <1>1, <2>1, <2>2 DEF LevelOrdered
<1>16. EffectiveOnce'
  <2>1. \A i, j \in 1 .. Len(waitevent') : i < j => waitevent'[i] # waitevent'[j]
    BY <1>1, <1>3, <1>6 DEF LevelOrdered
  <2>2. \A id \in Ids : ~setevent[id]
    BY <1>1 DEF EffectiveOnce, Contains
  <2>3. ASSUME NEW id \in Ids, setevent'[id]
        PROVE  Contains(waitevent', id) /\ ~Contains(level', id)
    BY <1>4, <1>14, <1>15, <2>2, <2>3
  <2> QED BY <2>1, <2>3 DEF EffectiveOnce, nevent_iswork
<1>17. FrameEventKept'
  <2>1. Contains(level, Flames)
    BY <1>1 DEF FrameEventKept, nevent_iswork, Contains
  <2>2. PICK k \in 1 .. Len(level) : level[k] = Flames
    BY <2>1 DEF Contains
  <2>3. CASE k <= n
    BY <1>14, <2>2, <2>3 DEF FrameEventKept
  <2>4. CASE k > n
    <3>1. k - n \in 1 .. Len(level') /\ n + (k - n) = k
      BY <1>3, <1>5, <2>4
    <3>2. level'[k - n] = Flames
      BY <1>5, <2>2, <3>1
    <3> QED BY <3>1, <3>2 DEF FrameEventKept, nevent_iswork, Contains
  <2> QED BY <1>3, <2>3, <2>4
<1>18. PhaseFits'
  BY DEF PhaseFits, Progress
<1> QED BY <1>11, <1>12, <1>13, <1>16, <1>17, <1>18 DEF IInv

(* The first waiting event leaves the queue when its callback returns.      *)
LEMMA ReturnStep ==
  ASSUME IInv, Return, ClearFlag(Head(waitevent))
  PROVE  /\ waitevent' \in Seq(Ids) /\ setevent' \in [Ids -> BOOLEAN]
         /\ Head(waitevent) \in Ids
         /\ \A i, j \in 1 .. Len(waitevent') : i < j => waitevent'[i] # waitevent'[j]
         /\ \A x \in Ids : setevent'[x] =>
              x # Head(waitevent) /\ Contains(waitevent', x) /\ ~Contains(level, x)
         /\ Contains(waitevent, Flames) /\ Flames # Head(waitevent)
              => Contains(waitevent', Flames)
         /\ phase = "execute" /\ UNCHANGED <<multiple, maxmultiple, phase>>
<1>1. /\ waitevent \in Seq(Ids) /\ waitevent # <<>> /\ waitevent' = Tail(waitevent)
      /\ setevent \in [Ids -> BOOLEAN]
      /\ \A i, j \in 1 .. Len(waitevent) : i < j => waitevent[i] # waitevent[j]
      /\ phase = "execute" /\ UNCHANGED <<multiple, maxmultiple, phase>>
  BY DEF IInv, TypeOK, EffectiveOnce, Return, multiples
<1>2. /\ waitevent' \in Seq(Ids) /\ Head(waitevent) \in Ids
      /\ \A i, j \in 1 .. Len(waitevent') : i < j => waitevent'[i] # waitevent'[j]
      /\ \A x : Contains(waitevent, x) /\ x # Head(waitevent) => Contains(waitevent', x)
  BY <1>1, TailEntries
<1>3. setevent' = [setevent EXCEPT ![Head(waitevent)] = FALSE]
  BY DEF ClearFlag
<1>4. ASSUME NEW x \in Ids, setevent'[x]
      PROVE  x # Head(waitevent) /\ Contains(waitevent', x) /\ ~Contains(level, x)
  <2>1. x # Head(waitevent) /\ setevent[x]
    BY <1>1, <1>2, <1>3, <1>4
  <2>2. Contains(waitevent, x) /\ ~Contains(level, x)
    BY <2>1 DEF IInv, EffectiveOnce, nevent_iswork
  <2> QED BY <1>2, <2>1, <2>2
<1>5. setevent' \in [Ids -> BOOLEAN]
  BY <1>1, <1>3
<1> QED BY <1>1, <1>2, <1>4, <1>5

LEMMA DeviceReturnsStep ==
  ASSUME IInv, DeviceReturns
  PROVE  IInv'
<1>1. /\ Return /\ ClearFlag(Head(waitevent)) /\ Head(waitevent) # Flames
      /\ UNCHANGED <<level, clock, base, rem, proc, screendispflag>>
  BY DEF DeviceReturns
<1>2. /\ waitevent' \in Seq(Ids) /\ setevent' \in [Ids -> BOOLEAN]
      /\ \A i, j \in 1 .. Len(waitevent') : i < j => waitevent'[i] # waitevent'[j]
      /\ \A x \in Ids : setevent'[x] => Contains(waitevent', x) /\ ~Contains(level, x)
      /\ Contains(waitevent, Flames) => Contains(waitevent', Flames)
      /\ phase = "execute" /\ UNCHANGED <<multiple, maxmultiple, phase>>
  BY <1>1, ReturnStep
<1>3. TypeOK'
  BY <1>1, <1>2 DEF IInv, TypeOK
<1>4. LevelOrdered' /\ SliceOrShadow'
  BY <1>1, <1>2 DEF IInv, LevelOrdered, SliceOrShadow, SliceFits
<1>5. EffectiveOnce'
  BY <1>1, <1>2 DEF EffectiveOnce, nevent_iswork
<1>6. FrameEventKept' /\ PhaseFits'
  BY <1>1, <1>2 DEF IInv, FrameEventKept, PhaseFits, nevent_iswork
<1> QED BY <1>3, <1>4, <1>5, <1>6 DEF IInv

LEMMA ScreendispStep ==
  ASSUME IInv, screendisp
  PROVE  IInv'
<1>1. /\ Return /\ ClearFlag(Head(waitevent)) /\ screendispflag' = FALSE
      /\ UNCHANGED <<level, clock, base, rem, proc>>
  BY DEF screendisp
<1>2. /\ waitevent' \in Seq(Ids) /\ setevent' \in [Ids -> BOOLEAN]
      /\ \A i, j \in 1 .. Len(waitevent') : i < j => waitevent'[i] # waitevent'[j]
      /\ \A x \in Ids : setevent'[x] => Contains(waitevent', x) /\ ~Contains(level, x)
      /\ phase = "execute" /\ UNCHANGED <<multiple, maxmultiple, phase>>
  BY <1>1, ReturnStep
<1>3. TypeOK'
  BY <1>1, <1>2 DEF IInv, TypeOK
<1>4. LevelOrdered' /\ SliceOrShadow'
  BY <1>1, <1>2 DEF IInv, LevelOrdered, SliceOrShadow, SliceFits
<1>5. EffectiveOnce'
  BY <1>1, <1>2 DEF EffectiveOnce, nevent_iswork
<1>6. FrameEventKept' /\ PhaseFits'
  BY <1>1, <1>2 DEF FrameEventKept, PhaseFits
<1> QED BY <1>3, <1>4, <1>5, <1>6 DEF IInv

(* screenvsync queues the frame event again before it leaves the queue.     *)
LEMMA ScreenvsyncStep ==
  ASSUME IInv, screenvsync
  PROVE  IInv'
<1>1. /\ Return /\ Head(waitevent) = Flames /\ ClearFlag(Head(waitevent))
      /\ nevent_set(Flames, clock[Flames] + VsyncClock)
      /\ proc' = "screendisp" /\ screendispflag' = screendispflag
  BY DEF screenvsync
<1>2. /\ waitevent' \in Seq(Ids) /\ setevent' \in [Ids -> BOOLEAN]
      /\ \A i, j \in 1 .. Len(waitevent') : i < j => waitevent'[i] # waitevent'[j]
      /\ \A x \in Ids : setevent'[x] =>
           x # Flames /\ Contains(waitevent', x) /\ ~Contains(level, x)
      /\ phase = "execute" /\ UNCHANGED <<multiple, maxmultiple, phase>>
  BY <1>1, ReturnStep
<1>3. Flames \in Ids /\ TypeOK /\ LevelOrdered /\ SliceFits
  BY <1>2 DEF IInv, SliceOrShadow, Ids
<1>4. clock[Flames] + VsyncClock \in Int
  BY <1>3, ClocksAssumption DEF TypeOK, Positive
<1>5. /\ level' \in Seq(Ids) /\ clock' \in [Ids -> Int]
      /\ base' \in Int /\ rem' \in Int
      /\ LevelOrdered' /\ SliceFits'
      /\ \A x \in Ids : Contains(level', x) <=> x = Flames \/ Contains(level, x)
  BY <1>1, <1>3, <1>4, SetKeeps
<1>6. TypeOK'
  BY <1>1, <1>2, <1>3, <1>5 DEF TypeOK
<1>7. EffectiveOnce'
  BY <1>2, <1>5 DEF EffectiveOnce, nevent_iswork
<1>8. FrameEventKept' /\ PhaseFits'
  BY <1>2, <1>3, <1>5 DEF FrameEventKept, PhaseFits, nevent_iswork
<1> QED BY <1>2, <1>5, <1>6, <1>7, <1>8 DEF IInv, SliceOrShadow

-----------------------------------------------------------------------------
(* Every step keeps the inductive invariant.                                *)
LEMMA NextInvariant == IInv /\ [Next]_vars => IInv'
<1> SUFFICES ASSUME IInv, [Next]_vars PROVE IInv'
  OBVIOUS
<1>1. CASE Call
  BY <1>1, SetStep, ResetStep, ForceExitStep DEF Call
<1>2. CASE Run
  BY <1>2, PicIrqStep, CpuInvariant, ProgressStep, DeviceReturnsStep, ScreenvsyncStep,
     ScreendispStep, EndProgressStep DEF Run
<1>3. CASE BeginFrame
  BY <1>3, BeginFrameStep
<1>4. CASE \E new \in Multiples : pccore_reset(new) \/ IoChangeClock(new)
  BY <1>4, PccoreResetStep, ChangeClockStep
<1>5. CASE \E step \in Steps : AsyncChangeClock(step)
  BY <1>5, ChangeClockStep
<1>6. CASE UNCHANGED vars
  BY <1>6 DEF vars, multiples, IInv, TypeOK, LevelOrdered, SliceOrShadow, SliceFits,
              EffectiveOnce, FrameEventKept, PhaseFits, nevent_iswork
<1> QED BY <1>1, <1>2, <1>3, <1>4, <1>5, <1>6 DEF Next

(* The inductive invariant holds in every state of the scheduler.           *)
THEOREM Invariance == Spec => []IInv
<1> QED BY InitInvariant, NextInvariant, PTL DEF Spec

(* The scheduler's variables keep their types: in particular the multiple   *)
(* stays between 1 and pccore.maxmultiple, whatever steps pccore_asynccpu   *)
(* takes down and up, and the frame's callback is one of the two there are. *)
THEOREM TypeCorrect == Spec => []TypeOK
<1>1. IInv => TypeOK
  BY DEF IInv
<1> QED BY <1>1, Invariance, PTL

(* The event list is sorted by clock and free of duplicates, for any number *)
(* of devices, any delays and any clock multiples.                          *)
THEOREM Sorted == Spec => []LevelOrdered
<1>1. IInv => LevelOrdered
  BY DEF IInv
<1> QED BY <1>1, Invariance, PTL

(* The CPU never gets a slice that reaches beyond a running event, but for  *)
(* the one clock of the instruction that must follow an STI.                *)
THEOREM NoEventSlept == Spec => []NeverSleepsPastEvent
<1>1. IInv => NeverSleepsPastEvent
  <2> SUFFICES ASSUME IInv, rem > 0, ~(phase = "next" /\ rem = 1), NEW i \in 1 .. Len(level)
               PROVE  rem <= Remaining(level[i])
    BY DEF NeverSleepsPastEvent
  <2>1. base \in Int /\ rem \in Int /\ clock[level[i]] \in Int
    BY ElementOfSeq DEF IInv, TypeOK
  <2>2. base <= clock[level[i]]
    BY DEF IInv, SliceOrShadow, SliceFits
  <2> QED BY <2>1, <2>2 DEF Remaining, Elapsed
<1> QED BY <1>1, Invariance, PTL

(* A callback sees NEVENT_SETEVENT for an event that waits exactly once and *)
(* was not set again.                                                       *)
THEOREM CalledOnce == Spec => []EffectiveOnce
<1>1. IInv => EffectiveOnce
  BY DEF IInv
<1> QED BY <1>1, Invariance, PTL

(* The event that ends the frame is never lost.                             *)
THEOREM FrameKept == Spec => []FrameEventKept
<1>1. IInv => FrameEventKept
  BY DEF IInv
<1> QED BY <1>1, Invariance, PTL

-----------------------------------------------------------------------------
(* The scheduler implements AlarmClock.                                     *)

LEMMA RangeIs ==
  ASSUME NEW s \in Seq(Ids)
  PROVE  /\ Range(s) \subseteq Ids
         /\ \A x \in Ids : x \in Range(s) <=> Contains(s, x)
<1>1. Len(s) \in Nat /\ DOMAIN s = 1 .. Len(s) /\ \A i \in 1 .. Len(s) : s[i] \in Ids
  BY LenProperties, ElementOfSeq
<1> QED
  BY <1>1 DEF Range, Contains

LEMMA InitImplements == Init => Alarm!Init
<1> SUFFICES ASSUME Init PROVE Alarm!Init
  OBVIOUS
<1>1. level = <<>> /\ waitevent = <<>> /\ base = 0 /\ rem = 0
  BY DEF Init
<1>2. Range(<<>>) = {}
  BY DEF Range
<1>3. AlarmLeft = [x \in Ids |-> 0]
  BY <1>1, <1>2 DEF AlarmLeft, Running
<1> QED
  BY <1>1, <1>2, <1>3 DEF Alarm!Init, Running, Turn, Init

(* What is done to the alarms takes no time and ends no turn.               *)
LEMMA Handles ==
  ASSUME phase # "next", Turn' = Turn,
         \/ Alarm!Arm \/ Alarm!Extend \/ Alarm!ArmIdle \/ Alarm!Disarm \/ Alarm!DisarmAll
         \/ Alarm!Rescale \/ Alarm!Answer
  PROVE  Alarm!Next
<1>1. Turn # "owed"
  BY DEF Turn
<1> QED
  BY <1>1 DEF Alarm!Handle, Alarm!Next

(* A call of nevent_set sets one alarm and leaves the time of the others.   *)
LEMMA SetArms ==
  ASSUME IInv, phase # "next", NEW id \in Ids, NEW c \in Int, nevent_set(id, c), waitevent' = waitevent
  PROVE  /\ Running' = Running \cup {id}
         /\ AlarmLeft' = [AlarmLeft EXCEPT ![id] = c - Elapsed]
<1>1. /\ level' \in Seq(Ids) /\ level \in Seq(Ids) /\ waitevent \in Seq(Ids)
      /\ \A x \in Ids : Contains(level', x) <=> x = id \/ Contains(level, x)
  BY SetKeeps DEF IInv, SliceOrShadow, TypeOK
<1>2. Running' = Running \cup {id}
  BY <1>1, RangeIs DEF Running
<1>3. clock' = [clock EXCEPT ![id] = c] /\ clock \in [Ids -> Int] /\ base \in Int /\ rem \in Int
  BY DEF nevent_set, IInv, TypeOK
<1>4. Elapsed' = Elapsed
  <2>1. PICK first \in BOOLEAN : Rebase(first, c)
    BY DEF nevent_set
  <2> QED
    BY <1>3, <2>1 DEF Rebase, Elapsed
<1>5. \A x \in Ids : clock'[x] - Elapsed' = IF x = id THEN c - Elapsed ELSE clock[x] - Elapsed
  BY <1>3, <1>4
<1>6. AlarmLeft' = [x \in Ids |-> IF x = id THEN c - Elapsed ELSE AlarmLeft[x]]
  BY <1>2, <1>5 DEF AlarmLeft
<1> QED
  BY <1>2, <1>6 DEF AlarmLeft

LEMMA SetImplements ==
  ASSUME IInv, NEW id \in Ids, NEW d \in Delays \cup {DispClock, VsyncClock},
         waitevent' = waitevent, phase # "next", Turn' = Turn,
         nevent_set(id, AbsoluteClock(d)) \/ nevent_set(id, clock[id] + d)
  PROVE  Alarm!Next
<1>1. d \in Int /\ clock[id] \in Int /\ Elapsed \in Int
  BY ClocksAssumption DEF Positive, IInv, TypeOK, Elapsed
<1>2. CASE nevent_set(id, AbsoluteClock(d))
  <2>1. AbsoluteClock(d) \in Int /\ AbsoluteClock(d) - Elapsed = d
    BY <1>1 DEF AbsoluteClock
  <2>2. Running' = Running \cup {id} /\ AlarmLeft' = [AlarmLeft EXCEPT ![id] = d]
    BY <1>2, <2>1, SetArms
  <2>3. Alarm!Arm
    BY <2>2 DEF Alarm!Arm, Alarm!ArmAt
  <2> QED
    BY <2>3, Handles
<1>3. CASE nevent_set(id, clock[id] + d)
  <2> DEFINE left == clock[id] + d - Elapsed
  <2>1. Running' = Running \cup {id} /\ AlarmLeft' = [AlarmLeft EXCEPT ![id] = left]
    BY <1>1, <1>3, SetArms
  <2>2. CASE id \in Running \cup Range(waitevent)
    <3>1. left = AlarmLeft[id] + d
      BY <1>1, <2>2 DEF AlarmLeft
    <3> HIDE DEF left
    <3>2. Alarm!ArmAt(id, AlarmLeft[id] + d)
      BY <2>1, <3>1 DEF Alarm!ArmAt
    <3>3. Alarm!Extend
      BY <2>2, <3>2 DEF Alarm!Extend, Alarm!Known, Alarm!Range, Range
    <3> QED
      BY <3>3, Handles
  <2>3. CASE id \notin Running \cup Range(waitevent)
    <3>1. AlarmLeft'[id] = left
      BY <2>1 DEF AlarmLeft
    <3> HIDE DEF left
    <3>2. Alarm!ArmAt(id, AlarmLeft'[id])
      BY <2>1, <3>1 DEF Alarm!ArmAt
    <3>3. Alarm!ArmIdle
      BY <2>3, <3>2 DEF Alarm!ArmIdle, Alarm!Known, Alarm!Range, Range
    <3> QED
      BY <3>3, Handles
  <2> QED
    BY <2>2, <2>3
<1> QED
  BY <1>2, <1>3

LEMMA ResetImplements ==
  ASSUME IInv, NEW id \in Devices, nevent_reset(id)
  PROVE  Alarm!Next
<1>1. /\ level' = Delete(level, id) /\ Contains(level, id) /\ id \in Ids
      /\ UNCHANGED <<waitevent, clock, base, rem>>
  BY DEF nevent_reset, nevent_iswork, Ids
<1>0. phase # "next" /\ Turn' = Turn
  BY DEF nevent_reset, Calling, Turn
<1>2. level \in Seq(Ids) /\ waitevent \in Seq(Ids) /\ clock \in [Ids -> Int] /\ Ordered(level, clock)
  BY DEF IInv, TypeOK, LevelOrdered, Ordered
<1>3. Deleted(level', level, clock, id)
  BY <1>1, <1>2, DeleteOrdered
<1>4. level' \in Seq(Ids) /\ \A x \in Ids : Contains(level', x) <=> x # id /\ Contains(level, x)
  BY <1>3 DEF Deleted, Contains
<1>5. Running' = Running \ {id} /\ id \in Running
  BY <1>1, <1>2, <1>4, RangeIs DEF Running
<1>6. Elapsed' = Elapsed
  BY <1>1 DEF Elapsed
<1>7. AlarmLeft' = IF id \in Range(waitevent) THEN AlarmLeft ELSE [AlarmLeft EXCEPT ![id] = 0]
  <2>1. CASE id \in Range(waitevent)
    BY <1>1, <1>5, <1>6, <2>1 DEF AlarmLeft
  <2>2. CASE id \notin Range(waitevent)
    BY <1>1, <1>5, <1>6, <2>2 DEF AlarmLeft
  <2> QED
    BY <2>1, <2>2
<1>8. Alarm!Disarm
  BY <1>1, <1>5, <1>7 DEF Alarm!Disarm, Alarm!Range, Range
<1> QED
  BY <1>0, <1>8, Handles

(* Whatever leaves the lists and the times alone.                           *)
LEMMA NothingHappens ==
  ASSUME UNCHANGED <<level, waitevent, clock, Elapsed, Turn>>
  PROVE  UNCHANGED Alarm!vars
BY DEF Alarm!vars, Running, AlarmLeft, Range

(* Accepting an interrupt may take time, be an alarm overdue or not.        *)
LEMMA PicIrqImplements ==
  ASSUME IInv, NEW n \in EntryClocks \cup {0}, PicIrq(n)
  PROVE  Alarm!Next
<1>1. /\ UNCHANGED <<level, waitevent, clock, base>> /\ rem' = rem - n
      /\ rem \in Int /\ base \in Int /\ clock \in [Ids -> Int] /\ n \in Nat
      /\ waitevent = <<>> /\ phase = "loop" /\ phase' = "cpu"
  BY ClocksAssumption DEF IInv, TypeOK, PhaseFits, PicIrq, Positive
<1>2. Running' = Running /\ Range(waitevent) = {}
  BY <1>1 DEF Running, Range
<1>3. Elapsed' = Elapsed + n /\ Elapsed \in Int
  BY <1>1 DEF Elapsed
<1>4. \A a \in Ids : clock[a] - Elapsed' = (clock[a] - Elapsed) - n
  BY <1>1, <1>3
<1>5. AlarmLeft' = [a \in Ids |-> IF a \in Running THEN AlarmLeft[a] - n ELSE 0]
  BY <1>1, <1>2, <1>4 DEF AlarmLeft
<1>6. Turn = "clock" /\ Turn' = "guest"
  BY <1>1 DEF Turn
<1>7. Alarm!Enter
  BY <1>1, <1>2, <1>5, <1>6 DEF Alarm!Enter
<1> QED
  BY <1>7 DEF Alarm!Next

LEMMA CpuImplements ==
  ASSUME IInv, (\E n \in StepClocks : CpuStep(n) \/ CpuShadow(n)) \/ CpuHalt
  PROVE  Alarm!Next
<1>1. /\ phase \in {"cpu", "insn", "next"} /\ rem > 0
      /\ UNCHANGED <<level, waitevent, clock>>
      /\ rem \in Int /\ base \in Int /\ waitevent = <<>>
  BY InstructionClocks
<1>2. PICK n \in Positive :
        \/ phase' = "insn" /\ base' = base /\ rem' = rem - n
        \/ phase' = "next" /\ base' = base + 1 - (rem - n) /\ rem' = 1
  BY InstructionClocks
<1>0. clock \in [Ids -> Int] /\ level \in Seq(Ids)
  BY DEF IInv, TypeOK
<1>3. n \in Int /\ Elapsed \in Int /\ Elapsed' = Elapsed + n
  BY <1>1, <1>2 DEF Elapsed, Positive
<1>4. Range(waitevent) = {}
  BY <1>1 DEF Range
<1>5. Running' = Running /\ Running \subseteq Ids
  BY <1>0, <1>1, RangeIs DEF Running
<1>6. AlarmLeft' = [a \in Ids |-> IF a \in Running THEN AlarmLeft[a] - n ELSE 0]
  <2>1. \A a \in Ids : clock[a] - Elapsed' = (clock[a] - Elapsed) - n
    BY <1>0, <1>3
  <2> QED
    BY <1>1, <1>4, <1>5, <2>1 DEF AlarmLeft
<1>7. ASSUME NEW a \in Running, phase # "next" PROVE AlarmLeft[a] > 0
  <2>1. PICK i \in 1 .. Len(level) : level[i] = a
    BY <1>0, <1>5, <1>7, RangeIs DEF Running, Contains
  <2>2. base <= clock[a]
    BY <1>1, <1>7, <2>1 DEF IInv, SliceOrShadow, SliceFits
  <2>3. AlarmLeft[a] = clock[a] - (base - rem) /\ clock[a] \in Int
    BY <1>0, <1>5, <1>7 DEF AlarmLeft, Elapsed
  <2> QED
    BY <1>1, <2>2, <2>3
<1>8. \A a \in Running : AlarmLeft[a] \in Int /\ AlarmLeft'[a] = AlarmLeft[a] - n
  BY <1>0, <1>1, <1>3, <1>5, <1>6 DEF AlarmLeft
<1>9. DOMAIN AlarmLeft' = Ids /\ \A a \in Ids \ Running : AlarmLeft'[a] = 0
  BY <1>6
<1>10. /\ Turn # "clock" /\ Turn' \in {"guest", "owed"}
       /\ Turn = "owed" <=> phase = "next"
  BY <1>1, <1>2 DEF Turn
<1>11. Alarm!Execute
  <2>1. /\ \A a \in Running : AlarmLeft[a] > AlarmLeft'[a]
        /\ \A a, b \in Running :
             AlarmLeft[a] - AlarmLeft'[a] = AlarmLeft[b] - AlarmLeft'[b]
    BY <1>2, <1>3, <1>8 DEF Positive
  <2> QED
    BY <1>1, <1>5, <1>7, <1>9, <1>10, <2>1 DEF Alarm!Execute
<1> QED
  BY <1>11 DEF Alarm!Next

LEMMA PccoreResetImplements ==
  ASSUME IInv, NEW configured \in Multiples, pccore_reset(configured)
  PROVE  Alarm!Next
<1>1. /\ waitevent = <<>> /\ waitevent' = <<>> /\ level' = <<>>
      /\ phase # "next" /\ Turn' = Turn
  BY DEF pccore_reset, IInv, PhaseFits, Turn
<1>2. Running' = {} /\ Range(waitevent') = {}
  BY <1>1 DEF Running, Range
<1>3. AlarmLeft' = [x \in Ids |-> 0]
  BY <1>2 DEF AlarmLeft
<1>4. Alarm!DisarmAll
  BY <1>1, <1>2, <1>3 DEF Alarm!DisarmAll
<1> QED
  BY <1>1, <1>4, Handles

(* The scheduler's calls that set an event.                                 *)
LEMMA CallImplements ==
  ASSUME IInv, Call
  PROVE  Alarm!Next \/ UNCHANGED Alarm!vars
<1>1. ASSUME NEW id \in Devices, NEW d \in Delays, SetAbsolute(id, d) \/ SetRelative(id, d)
      PROVE  Alarm!Next
  <2>1. id \in Ids /\ waitevent' = waitevent /\ phase # "next" /\ Turn' = Turn
    BY <1>1 DEF Ids, SetAbsolute, SetRelative, Calling, Turn
  <2>2. nevent_set(id, AbsoluteClock(d)) \/ nevent_set(id, clock[id] + d)
    BY <1>1 DEF SetAbsolute, SetRelative
  <2> QED
    BY <2>1, <2>2, SetImplements
<1>2. CASE nevent_forceexit
  <2>1. UNCHANGED <<level, waitevent, clock>> /\ Elapsed' = Elapsed /\ Turn' = Turn
    BY <1>2 DEF nevent_forceexit, Elapsed, Turn, IInv, TypeOK
  <2> QED
    BY <2>1, NothingHappens
<1> QED
  BY <1>1, <1>2, ResetImplements DEF Call

LEMMA BeginFrameImplements ==
  ASSUME IInv, BeginFrame
  PROVE  Alarm!Next
<1>1. Flames \in Ids /\ waitevent' = waitevent /\ phase # "next" /\ Turn' = Turn
  BY DEF Ids, BeginFrame, Turn
<1>2. nevent_set(Flames, clock[Flames] + DispClock)
  BY DEF BeginFrame
<1> QED
  BY <1>1, <1>2, SetImplements

(* The time used in the slice is taken off every running clock, so that no  *)
(* time left changes when the due events start to wait.                     *)
LEMMA ProgressImplements ==
  ASSUME IInv, Progress
  PROVE  Alarm!Next
<1>1. /\ waitevent = <<>> /\ level \in Seq(Ids) /\ clock \in [Ids -> Int]
      /\ base \in Int /\ rem \in Int /\ rem <= 0
  BY DEF IInv, TypeOK, Progress, PhaseFits
<1>2. Len(level) \in Nat /\ \A i \in 1 .. Len(level) : level[i] \in Ids
  BY <1>1, LenProperties, ElementOfSeq
<1>3. PICK n \in 0 .. Len(level) :
        /\ IsDue(n)
        /\ level' = SubSeq(level, n + 1, Len(level))
        /\ waitevent' = SubSeq(level, 1, n)
  BY DEF Progress
<1>4. /\ level' \in Seq(Ids) /\ Len(level') = Len(level) - n
      /\ \A i \in 1 .. Len(level) - n : level'[i] = level[n + i]
  <2>1. /\ level' \in Seq(Ids)
        /\ Len(level') = IF n + 1 <= Len(level) THEN Len(level) - (n + 1) + 1 ELSE 0
        /\ \A i \in 1 .. Len(level) - (n + 1) + 1 : level'[i] = level[(n + 1) + i - 1]
    BY <1>2, <1>3, SubSeqProperties
  <2> QED BY <1>2, <2>1
<1>5. /\ waitevent' \in Seq(Ids) /\ Len(waitevent') = n
      /\ \A i \in 1 .. n : waitevent'[i] = level[i]
  <2>1. /\ waitevent' \in Seq(Ids)
        /\ Len(waitevent') = IF 1 <= n THEN n - 1 + 1 ELSE 0
        /\ \A i \in 1 .. n - 1 + 1 : waitevent'[i] = level[1 + i - 1]
    BY <1>2, <1>3, SubSeqProperties
  <2> QED BY <1>2, <2>1
<1>6. /\ \A x \in Ids : x \in Running <=> \E i \in 1 .. Len(level) : level[i] = x
      /\ \A x \in Ids : x \in Running' <=> \E i \in n + 1 .. Len(level) : level[i] = x
      /\ \A x \in Ids : x \in Range(waitevent') <=> \E i \in 1 .. n : level[i] = x
      /\ Running \subseteq Ids /\ Running' \subseteq Ids /\ Range(waitevent') \subseteq Ids
  <2>1. /\ \A x \in Ids : x \in Running <=> Contains(level, x)
        /\ \A x \in Ids : x \in Running' <=> Contains(level', x)
        /\ \A x \in Ids : x \in Range(waitevent') <=> Contains(waitevent', x)
        /\ Running \subseteq Ids /\ Running' \subseteq Ids /\ Range(waitevent') \subseteq Ids
    BY <1>1, <1>4, <1>5, RangeIs DEF Running
  <2>2. ASSUME NEW x PROVE Contains(level', x) <=> \E i \in n + 1 .. Len(level) : level[i] = x
    <3>1. ASSUME NEW i \in n + 1 .. Len(level)
          PROVE  i - n \in 1 .. Len(level') /\ level'[i - n] = level[i]
      <4>1. i - n \in 1 .. Len(level) - n /\ n + (i - n) = i
        BY <1>2
      <4> QED
        BY <1>4, <4>1
    <3>2. ASSUME NEW i \in 1 .. Len(level')
          PROVE  n + i \in n + 1 .. Len(level) /\ level'[i] = level[n + i]
      BY <1>2, <1>4
    <3> QED
      BY <3>1, <3>2 DEF Contains
  <2> QED
    BY <2>1, <2>2, <1>5 DEF Contains
<1>7. Running' = Running \ Range(waitevent') /\ Range(waitevent') \subseteq Running
  <2>1. ASSUME NEW i \in 1 .. n, NEW j \in n + 1 .. Len(level) PROVE level[i] # level[j]
    BY <1>2, <2>1 DEF IInv, LevelOrdered
  <2>2. ASSUME NEW x \in Ids
        PROVE  (x \in Running' <=> x \in Running /\ x \notin Range(waitevent'))
               /\ (x \in Range(waitevent') => x \in Running)
    <3>1. \A i : i \in 1 .. Len(level) <=> i \in 1 .. n \/ i \in n + 1 .. Len(level)
      BY <1>2
    <3> QED
      BY <1>6, <2>1, <3>1
  <2> QED
    BY <1>6, <2>2
<1>8. /\ \A x \in Running : clock'[x] = clock[x] - base /\ clock[x] \in Int
      /\ Elapsed' = -rem
  <2>1. PICK b \in NextBases : base' = b /\ rem' = rem + b
    BY DEF Progress
  <2>2. b \in Int
    <3>1. \A i \in 1 .. Len(level') : level'[i] \in Ids
      BY <1>4, ElementOfSeq
    <3>2. clock' \in [Ids -> Int]
      BY <1>1 DEF Progress
    <3>3. MaxClock \in Int
      BY ClocksAssumption DEF Positive
    <3> QED
      BY <3>1, <3>2, <3>3 DEF NextBases
  <2>3. Elapsed' = -rem
    BY <1>1, <2>1, <2>2 DEF Elapsed
  <2>4. \A x \in Running : clock'[x] = clock[x] - base /\ clock[x] \in Int
    BY <1>1, <1>6 DEF Progress, nevent_iswork, Contains
  <2> QED
    BY <2>3, <2>4
<1>9. /\ \A x \in Running : AlarmLeft[x] = clock[x] - (base - rem)
      /\ AlarmLeft' = AlarmLeft
  <2>1. Range(waitevent) = {}
    BY <1>1 DEF Range
  <2>2. \A x \in Running : clock'[x] - Elapsed' = clock[x] - Elapsed
    BY <1>1, <1>8 DEF Elapsed
  <2>3. Running' \cup Range(waitevent') = Running \cup Range(waitevent)
    BY <1>7, <2>1
  <2>4. AlarmLeft' = [x \in Ids |-> IF x \in Running THEN clock'[x] - Elapsed' ELSE 0]
    BY <2>1, <2>3 DEF AlarmLeft
  <2>5. AlarmLeft = [x \in Ids |-> IF x \in Running THEN clock[x] - Elapsed ELSE 0]
    BY <2>1 DEF AlarmLeft
  <2> QED
    BY <1>6, <2>2, <2>4, <2>5 DEF Elapsed
<1>10. ASSUME NEW i \in 1 .. Len(level)
       PROVE  /\ level[i] \in Running
              /\ AlarmLeft[level[i]] = clock[level[i]] - (base - rem)
              /\ clock[level[i]] \in Int
  BY <1>2, <1>6, <1>8, <1>9, <1>10
<1>11. ASSUME NEW i \in 1 .. Len(level), NEW j \in 1 .. Len(level), i < j
       PROVE  level[i] # level[j] /\ AlarmLeft[level[i]] <= AlarmLeft[level[j]]
  <2>1. level[i] # level[j] /\ clock[level[i]] <= clock[level[j]]
    BY <1>11 DEF IInv, LevelOrdered
  <2> QED
    BY <1>1, <1>10, <2>1
<1>12. ASSUME NEW i \in 1 .. n
       PROVE  clock[level[i]] - base <= 0
  BY <1>2, <1>3 DEF IsDue
<1>13. ASSUME NEW j \in n + 1 .. Len(level)
       PROVE  ~(clock[level[j]] - base <= 0)
  BY <1>2, <1>3 DEF IsDue
<1>14. \A i, j \in DOMAIN waitevent' :
         i < j => waitevent'[i] # waitevent'[j]
                  /\ AlarmLeft[waitevent'[i]] <= AlarmLeft[waitevent'[j]]
  <2>1. DOMAIN waitevent' = 1 .. n /\ \A i \in 1 .. n : i \in 1 .. Len(level)
    BY <1>2, <1>5, LenProperties
  <2> QED
    BY <1>5, <1>11, <2>1
<1>15. ASSUME NEW x \in Range(waitevent')
       PROVE  AlarmLeft[x] <= 0
  <2>1. PICK i \in 1 .. n : level[i] = x
    BY <1>6, <1>15
  <2>2. i \in 1 .. Len(level) /\ clock[level[i]] - base <= 0
    BY <1>2, <1>12
  <2> QED
    BY <1>1, <1>10, <2>1, <2>2
<1>16. ASSUME NEW x \in Range(waitevent'), NEW y \in Running \ Range(waitevent')
       PROVE  AlarmLeft[x] < AlarmLeft[y]
  <2>1. PICK i \in 1 .. n : level[i] = x
    BY <1>6, <1>16
  <2>2. PICK j \in n + 1 .. Len(level) : level[j] = y
    BY <1>6, <1>7, <1>16
  <2>3. i \in 1 .. Len(level) /\ j \in 1 .. Len(level)
    BY <1>2
  <2>4. clock[level[i]] - base <= 0 /\ ~(clock[level[j]] - base <= 0)
    BY <1>12, <1>13
  <2>5. AlarmLeft[x] = clock[x] - (base - rem) /\ clock[x] \in Int /\ clock[x] - base <= 0
    BY <1>10, <2>1, <2>3, <2>4
  <2>6. AlarmLeft[y] = clock[y] - (base - rem) /\ clock[y] \in Int /\ ~(clock[y] - base <= 0)
    BY <1>10, <2>2, <2>3, <2>4
  <2>7. base \in Int /\ rem \in Int
    BY <1>1
  <2> QED
    BY <2>5, <2>6, <2>7
<1>18. Turn = "guest" /\ Turn' = "clock"
  BY DEF Progress, Turn
<1>17. Alarm!Ring
  BY <1>1, <1>7, <1>9, <1>14, <1>15, <1>16, <1>18 DEF Alarm!Ring, Alarm!Range, Range
<1> QED
  BY <1>17 DEF Alarm!Next


(* The event whose callback has returned leaves the queue.                  *)
LEMMA ReturnRange ==
  ASSUME IInv, Return
  PROVE  /\ waitevent # <<>> /\ waitevent' = Tail(waitevent)
         /\ Head(waitevent) \in Ids
         /\ Range(waitevent) = Range(waitevent') \cup {Head(waitevent)}
         /\ Head(waitevent) \notin Range(waitevent')
         /\ phase # "next" /\ Turn' = Turn
<1>0. phase # "next" /\ Turn' = Turn
  BY DEF Return, Turn
<1>1. /\ waitevent \in Seq(Ids) /\ waitevent # <<>> /\ waitevent' = Tail(waitevent)
      /\ \A i, j \in 1 .. Len(waitevent) : i < j => waitevent[i] # waitevent[j]
  BY DEF IInv, TypeOK, EffectiveOnce, Return
<1>2. /\ waitevent' \in Seq(Ids) /\ Head(waitevent) \in Ids
      /\ \A x : Contains(waitevent, x) /\ x # Head(waitevent) => Contains(waitevent', x)
      /\ ~Contains(waitevent', Head(waitevent))
  BY <1>1, TailEntries
<1>3. /\ Len(waitevent) \in Nat /\ 1 \in 1 .. Len(waitevent) /\ Head(waitevent) = waitevent[1]
      /\ Len(waitevent') = Len(waitevent) - 1
      /\ \A i \in 1 .. Len(waitevent') : waitevent'[i] = waitevent[i + 1]
  BY <1>1, HeadTailProperties, LenProperties, EmptySeq
<1>4. \A x \in Ids : Contains(waitevent', x) => Contains(waitevent, x)
  BY <1>3 DEF Contains
<1>5. Contains(waitevent, Head(waitevent))
  BY <1>3 DEF Contains
<1>6. /\ Range(waitevent) \subseteq Ids /\ Range(waitevent') \subseteq Ids
      /\ \A x \in Ids : x \in Range(waitevent) <=> Contains(waitevent, x)
      /\ \A x \in Ids : x \in Range(waitevent') <=> Contains(waitevent', x)
  BY <1>1, <1>2, RangeIs
<1>7. \A x \in Ids : x \in Range(waitevent) <=> x \in Range(waitevent') \/ x = Head(waitevent)
  BY <1>2, <1>4, <1>5, <1>6
<1> QED
  BY <1>0, <1>1, <1>2, <1>6, <1>7

LEMMA DeviceImplements ==
  ASSUME IInv, DeviceReturns \/ screendisp
  PROVE  Alarm!Next
<1>1. Return /\ UNCHANGED <<level, clock, base, rem>>
  BY DEF DeviceReturns, screendisp
<1>2. /\ waitevent # <<>> /\ waitevent' = Tail(waitevent)
      /\ Head(waitevent) \in Ids
      /\ Range(waitevent) = Range(waitevent') \cup {Head(waitevent)}
      /\ Head(waitevent) \notin Range(waitevent')
      /\ phase # "next" /\ Turn' = Turn
  BY <1>1, ReturnRange
<1>3. Running' = Running /\ Elapsed' = Elapsed
  BY <1>1 DEF Running, Elapsed
<1>4. AlarmLeft' = IF Head(waitevent) \in Running THEN AlarmLeft
                   ELSE [AlarmLeft EXCEPT ![Head(waitevent)] = 0]
  BY <1>1, <1>2, <1>3 DEF AlarmLeft
<1>5. Alarm!Answer
  BY <1>2, <1>3, <1>4 DEF Alarm!Answer
<1> QED
  BY <1>2, <1>5, Handles

LEMMA VsyncImplements ==
  ASSUME IInv, screenvsync
  PROVE  Alarm!Next
<1> DEFINE c == clock[Flames] + VsyncClock
<1>1. /\ Return /\ Head(waitevent) = Flames /\ nevent_set(Flames, c)
      /\ Flames \in Ids /\ TypeOK /\ LevelOrdered /\ SliceFits
  BY DEF screenvsync, Return, IInv, SliceOrShadow, Ids
<1>2. /\ waitevent # <<>> /\ waitevent' = Tail(waitevent)
      /\ Range(waitevent) = Range(waitevent') \cup {Flames}
      /\ Flames \notin Range(waitevent')
      /\ phase # "next" /\ Turn' = Turn
  BY <1>1, ReturnRange
<1>3. /\ clock \in [Ids -> Int] /\ base \in Int /\ rem \in Int /\ VsyncClock \in Int
      /\ level \in Seq(Ids)
  BY <1>1, ClocksAssumption DEF TypeOK, Positive
<1>4. c \in Int
  BY <1>1, <1>3
<1>5. clock' = [clock EXCEPT ![Flames] = c]
  BY <1>1 DEF nevent_set
<1>6. Elapsed' = Elapsed
  <2>1. PICK first \in BOOLEAN : Rebase(first, c)
    BY <1>1 DEF nevent_set
  <2> QED
    BY <1>3, <1>4, <2>1 DEF Rebase, Elapsed
<1>7. level' \in Seq(Ids) /\ \A x \in Ids : Contains(level', x) <=> x = Flames \/ Contains(level, x)
  BY <1>1, <1>4, SetKeeps
<1>8. Running' = Running \cup {Flames}
  BY <1>1, <1>3, <1>7, RangeIs DEF Running
<1>9. AlarmLeft[Flames] = clock[Flames] - Elapsed
  BY <1>1, <1>2 DEF AlarmLeft
<1>10. c - Elapsed = AlarmLeft[Flames] + VsyncClock
  BY <1>1, <1>3, <1>9 DEF Elapsed
<1> HIDE DEF c
<1>11. \A x \in Ids : clock'[x] - Elapsed' =
         IF x = Flames THEN AlarmLeft[Flames] + VsyncClock ELSE clock[x] - Elapsed
  BY <1>1, <1>3, <1>5, <1>6, <1>10
<1>12. AlarmLeft' = [x \in Ids |-> IF x = Flames THEN AlarmLeft[Flames] + VsyncClock
                                   ELSE AlarmLeft[x]]
  BY <1>2, <1>8, <1>11 DEF AlarmLeft
<1>13. AlarmLeft' = [AlarmLeft EXCEPT ![Flames] = @ + VsyncClock]
  BY <1>12 DEF AlarmLeft
<1>14. Alarm!Answer
  BY <1>1, <1>2, <1>8, <1>13 DEF Alarm!Answer
<1> QED
  BY <1>2, <1>14, Handles


(* What the rounding of C's division loses.                                 *)
LEMMA CDivBounds ==
  ASSUME NEW a \in Int, NEW o \in Positive
  PROVE  /\ CDiv(a, o) \in Int /\ o * CDiv(a, o) \in Int
         /\ a - o < o * CDiv(a, o)
         /\ a >= 0 => o * CDiv(a, o) <= a
         /\ a < 0 => a <= o * CDiv(a, o) /\ o * CDiv(a, o) < a + o
<1>1. ASSUME NEW x \in Nat
      PROVE  x \div o \in Int /\ o * (x \div o) \in Int
             /\ o * (x \div o) <= x /\ x < o * (x \div o) + o
  BY DEF Positive
<1>2. CASE a >= 0
  BY <1>1, <1>2 DEF CDiv, Positive
<1>3. CASE a < 0
  <2> DEFINE q == (-a) \div o
  <2>1. -a \in Nat
    BY <1>3
  <2>2. q \in Int /\ o * q \in Int /\ o * q <= -a /\ -a < o * q + o
    BY <1>1, <2>1
  <2>3. CDiv(a, o) = -q
    BY <1>3 DEF CDiv
  <2> HIDE DEF q
  <2>4. o * (-q) = -(o * q)
    BY <2>2 DEF Positive
  <2> QED
    BY <1>3, <2>2, <2>3, <2>4 DEF Positive
<1> QED
  BY <1>2, <1>3

(* The rounding of the three clocks a time left is made of adds up to less  *)
(* than two clocks.                                                         *)
LEMMA ScaleLeft ==
  ASSUME NEW c \in Int, NEW b \in Int, NEW r \in Int, NEW old \in Positive, NEW new \in Positive,
         c > 0, r <= b, c - (b - r) > 0
  PROVE  Scale(c, old, new) - (Scale(b, old, new) - Scale(r, old, new)) >= -1
<1> DEFINE h == old \div 2
           ac == c * new + h
           ab == b * new + h
           ar == r * new + h
           sc == CDiv(ac, old)
           sb == CDiv(ab, old)
           sr == CDiv(ar, old)
           t == sc + sr - sb
<1>1. old \in Int /\ old > 0 /\ new \in Int /\ new > 0 /\ h \in Int /\ h >= 0
  BY DEF Positive
<1>2. /\ c * new \in Int /\ b * new \in Int /\ r * new \in Int
      /\ ac \in Int /\ ab \in Int /\ ar \in Int
  BY <1>1
<1>3. ac + ar - ab > 0
  <2>1. PICK k \in Nat : c + r - b = 1 + k
    <3>1. c + r - b - 1 \in Nat /\ c + r - b = 1 + (c + r - b - 1)
      OBVIOUS
    <3> QED
      BY <3>1
  <2>2. c * new + r * new - b * new = (1 + k) * new
    <3>1. (c + r - b) * new = c * new + r * new - b * new
      BY <1>1
    <3> QED
      BY <2>1, <3>1
  <2>3. (1 + k) * new = new + k * new /\ k * new \in Int /\ k * new >= 0
    BY <1>1
  <2> HIDE DEF h
  <2> QED
    BY <1>1, <1>2, <2>2, <2>3
<1>4. ar <= ab
  <2>1. PICK k \in Nat : b = r + k
    <3>1. b - r \in Nat /\ b = r + (b - r)
      OBVIOUS
    <3> QED
      BY <3>1
  <2>2. b * new = r * new + k * new /\ k * new \in Int /\ k * new >= 0
    BY <1>1, <2>1
  <2> HIDE DEF h
  <2> QED
    BY <1>1, <1>2, <2>2
<1> HIDE DEF ac, ab, ar
<1>5. /\ sc \in Int /\ old * sc \in Int /\ ac - old < old * sc
      /\ sb \in Int /\ old * sb \in Int
      /\ ab >= 0 => old * sb <= ab
      /\ ab < 0 => old * sb < ab + old
      /\ sr \in Int /\ old * sr \in Int /\ ar - old < old * sr
      /\ ar < 0 => ar <= old * sr
  BY <1>2, CDivBounds
<1> HIDE DEF sc, sb, sr
<1>6. old * sc + old * sr - old * sb > -(old + old)
  BY <1>1, <1>2, <1>3, <1>4, <1>5
<1>7. old * t = old * sc + old * sr - old * sb /\ t \in Int
  BY <1>1, <1>5
<1>8. t >= -1
  <2> HIDE DEF t
  <2> SUFFICES ASSUME t < -1 PROVE FALSE
    BY <1>7
  <2>1. PICK k \in Nat : t = -(2 + k)
    <3>1. -t - 2 \in Nat /\ t = -(2 + (-t - 2))
      BY <1>7
    <3> QED
      BY <3>1
  <2>2. old * t = -(old + old + old * k) /\ old * k \in Int /\ old * k >= 0
    BY <1>1, <2>1
  <2> QED
    BY <1>1, <1>6, <1>7, <2>2
<1>9. Scale(c, old, new) = sc /\ Scale(b, old, new) = sb /\ Scale(r, old, new) = sr
  BY DEF Scale, sc, sb, sr, ac, ab, ar
<1> QED
  BY <1>5, <1>8, <1>9

(* A change of the multiple keeps the order of the times left.              *)
LEMMA RescaleImplements ==
  ASSUME IInv, \/ \E new \in Multiples : IoChangeClock(new)
               \/ \E step \in Steps : AsyncChangeClock(step)
  PROVE  Alarm!Next \/ UNCHANGED Alarm!vars
<1> DEFINE old == multiple
           new == multiple'
<1>0. /\ nevent_changeclock(old, new) /\ level' = level
      /\ waitevent = <<>> /\ waitevent' = waitevent /\ phase # "next" /\ Turn' = Turn
      /\ old \in Positive /\ new \in Positive
  BY MultipleChanges
<1>1. /\ nevent_changeclock(old, new) /\ level' = level
      /\ waitevent = <<>> /\ waitevent' = waitevent
      /\ level \in Seq(Ids) /\ clock \in [Ids -> Int] /\ base \in Int /\ rem \in Int
      /\ rem <= base /\ old \in Positive /\ new \in Positive
  BY <1>0 DEF IInv, TypeOK, SliceOrShadow, SliceFits
<1> HIDE DEF old, new
<1>2. CASE level = <<>>
  <2>1. UNCHANGED <<clock, base, rem>>
    BY <1>1, <1>2 DEF nevent_changeclock
  <2>2. Elapsed' = Elapsed
    BY <2>1 DEF Elapsed
  <2> QED
    BY <1>0, <1>1, <2>1, <2>2, NothingHappens
<1>3. CASE level # <<>>
  <2>1. /\ Running' = Running /\ Running \subseteq Ids /\ Range(waitevent) = {}
        /\ \A x \in Ids : x \in Running <=> nevent_iswork(x)
    BY <1>1, RangeIs DEF Running, Range, nevent_iswork
  <2>2. \A x \in Running : clock'[x] = ScaleEvent(clock[x], old, new) /\ clock[x] \in Int
    BY <1>1, <1>3, <2>1 DEF nevent_changeclock
  <2>10. ASSUME NEW u \in Int
         PROVE  ScaleEvent(u, old, new) \in Int /\ Scale(u, old, new) \in Int
    <3>1. u <= u
      OBVIOUS
    <3>2. Scale(u, old, new) \in Int
      BY <1>1, ScaleInt
    <3>3. ScaleEvent(u, old, new) \in Int
      BY <1>1, <3>1, ScaleEventMonotone
    <3> QED
      BY <3>2, <3>3
  <2>3. \/ base = rem /\ Elapsed' = 0
        \/ Elapsed' = Scale(base, old, new) - Scale(rem, old, new)
    <3>1. CASE base = rem
      <4>1. PICK x \in Running : base' = clock'[x] /\ rem' = clock'[x]
        <5>1. 1 \in 1 .. Len(level) /\ level[1] \in Ids
          BY <1>1, <1>3, EmptySeq, LenProperties, ElementOfSeq
        <5>2. level[1] \in Running
          BY <2>1, <5>1 DEF nevent_iswork, Contains
        <5> QED
          BY <1>1, <1>3, <3>1, <5>2 DEF nevent_changeclock
      <4>2. clock'[x] \in Int
        BY <2>2, <2>10
      <4> QED
        BY <3>1, <4>1, <4>2 DEF Elapsed
    <3>2. CASE base # rem
      BY <1>1, <1>3, <3>2 DEF nevent_changeclock, Elapsed
    <3> QED
      BY <3>1, <3>2
  <2>4. Elapsed' \in Int
    <3>1. Scale(base, old, new) \in Int /\ Scale(rem, old, new) \in Int
      BY <1>1, <2>10
    <3> QED
      BY <2>3, <3>1
  <2>5. \A x \in Running :
          /\ AlarmLeft[x] = clock[x] - (base - rem)
          /\ AlarmLeft'[x] = clock'[x] - Elapsed'
    BY <1>1, <2>1 DEF AlarmLeft, Elapsed
  <2>6. ASSUME NEW x \in Running, NEW y \in Running, AlarmLeft[x] <= AlarmLeft[y]
        PROVE  AlarmLeft'[x] <= AlarmLeft'[y]
    <3>1. clock[x] <= clock[y]
      BY <1>1, <2>2, <2>5, <2>6
    <3>2. clock'[x] \in Int /\ clock'[y] \in Int
      BY <2>2, <2>10
    <3>3. ScaleEvent(clock[x], old, new) <= ScaleEvent(clock[y], old, new)
      BY <1>1, <2>2, <3>1, ScaleEventMonotone
    <3> QED
      BY <2>2, <2>4, <2>5, <3>2, <3>3
  <2>7. ASSUME NEW x \in Running, AlarmLeft[x] > 0
        PROVE  AlarmLeft'[x] >= -1
    <3> DEFINE c == clock[x]
    <3>1. c \in Int /\ c - (base - rem) > 0 /\ c > 0
      BY <1>1, <2>2, <2>5, <2>7
    <3> HIDE DEF c
    <3>2. /\ Scale(c, old, new) \in Int /\ Scale(base, old, new) \in Int
          /\ Scale(rem, old, new) \in Int
      BY <1>1, <3>1, ScaleInt
    <3>3. /\ ScaleEvent(c, old, new) \in Int /\ ScaleEvent(c, old, new) >= 1
          /\ ScaleEvent(c, old, new) >= Scale(c, old, new)
      BY <3>1, <3>2 DEF ScaleEvent
    <3>4. AlarmLeft'[x] = ScaleEvent(c, old, new) - Elapsed'
      BY <2>2, <2>5 DEF c
    <3>5. CASE Elapsed' = 0
      BY <3>3, <3>4, <3>5
    <3>6. CASE Elapsed' = Scale(base, old, new) - Scale(rem, old, new)
      <4>1. Scale(c, old, new) - (Scale(base, old, new) - Scale(rem, old, new)) >= -1
        BY <1>1, <3>1, ScaleLeft
      <4> QED
        BY <3>2, <3>3, <3>4, <3>6, <4>1
    <3> QED
      BY <2>3, <3>5, <3>6
  <2>8. DOMAIN AlarmLeft' = Ids /\ \A x \in Ids \ Running : AlarmLeft'[x] = 0
    BY <1>1, <2>1 DEF AlarmLeft
  <2>9. Alarm!Rescale
    BY <1>1, <2>1, <2>6, <2>7, <2>8 DEF Alarm!Rescale
  <2> QED
    BY <1>0, <2>9, Handles
<1> QED
  BY <1>2, <1>3

(* Every step of the scheduler is a step of the alarm clock, or leaves it   *)
(* alone.                                                                   *)
LEMMA NextImplements == IInv /\ [Next]_vars => [Alarm!Next]_(Alarm!vars)
<1> SUFFICES ASSUME IInv, [Next]_vars PROVE Alarm!Next \/ UNCHANGED Alarm!vars
  OBVIOUS
<1>1. CASE EndProgress \/ UNCHANGED vars
  <2>1. UNCHANGED <<level, waitevent, clock, base, rem, Turn>>
    BY <1>1 DEF EndProgress, LoopBack, Turn, vars
  <2>2. Elapsed' = Elapsed
    BY <2>1 DEF Elapsed
  <2> QED
    BY <2>1, <2>2, NothingHappens
<1>2. CASE Run
  BY <1>1, <1>2, PicIrqImplements, CpuImplements, ProgressImplements, DeviceImplements,
     VsyncImplements DEF Run
<1>3. CASE \E new \in Multiples : pccore_reset(new) \/ IoChangeClock(new)
  BY <1>3, PccoreResetImplements, RescaleImplements
<1>4. CASE \E step \in Steps : AsyncChangeClock(step)
  BY <1>4, RescaleImplements
<1> QED
  BY <1>1, <1>2, <1>3, <1>4, CallImplements, BeginFrameImplements DEF Next

(* The event scheduler of nevent.c, with the frame loop that drives it, is  *)
(* an alarm clock: no event is called early or out of the order of          *)
(* deadlines, no call for one event moves another, and with an event        *)
(* overdue the CPU runs no instruction but those an STI owes it: only an    *)
(* interrupt may be accepted before the event is called.                    *)
THEOREM ImplementsClock == Spec => ImplementsAlarmClock
<1>1. Spec => Alarm!Spec
  BY InitImplements, Invariance, NextImplements, PTL DEF Spec, Alarm!Spec
<1> QED
  BY <1>1 DEF ImplementsAlarmClock

=============================================================================
