--------------------------- MODULE KeyboardProofs ---------------------------
(* What holds of the keyboard for all keys, tables and sizes of the rings.  *)
EXTENDS Keyboard, TLAPS, SequenceTheorems, WellFoundedInduction

-----------------------------------------------------------------------------
(* Sequences.                                                               *)

LEMMA LessThan == OpToRel(<, Nat) = {p \in Nat \X Nat : p[1] < p[2]}
BY Zenon DEF OpToRel

(* Induction up to m, for a set: what the library proves for a predicate.   *)
LEMMA UpTo ==
  ASSUME NEW m \in Nat, NEW T, 0 \in T,
         \A n \in 1 .. m : n - 1 \in T => n \in T
  PROVE  m \in T
<1> DEFINE Open == {n \in 0 .. m : n \notin T}
<1>1. Open = {}
  <2> SUFFICES ASSUME Open # {} PROVE FALSE
    OBVIOUS
  <2>1. Open \subseteq Nat
    OBVIOUS
  <2> HIDE DEF Open
  <2>2. PICK n \in Open : \A k \in Open : ~(<<k, n>> \in OpToRel(<, Nat))
    BY <2>1, WFMin, NatLessThanWellFounded
  <2>3. ASSUME NEW k \in Open PROVE ~(k < n)
    <3>1. <<k, n>> \notin {p \in Nat \X Nat : p[1] < p[2]}
      BY <2>2, LessThan, Zenon
    <3> QED
      BY <2>1, <3>1
  <2>4. n \in 1 .. m /\ n \notin T
    BY DEF Open
  <2>5. n - 1 \in T
    BY <2>3, <2>4 DEF Open
  <2> QED
    BY <2>4, <2>5
<1> QED
  BY <1>1

(* What a recursive function of two clauses computes is defined.            *)
LEMMA Recursion ==
  ASSUME NEW D, NEW x \in D, NEW m \in Nat, NEW g \in [1 .. m -> [D -> D]]
  PROVE  \E f \in [0 .. m -> D] :
           f[0] = x /\ \A i \in 1 .. m : f[i] = g[i][f[i - 1]]
<1> DEFINE Defined(n) == \E f \in [0 .. n -> D] :
             f[0] = x /\ \A i \in 1 .. n : f[i] = g[i][f[i - 1]]
<1>1. Defined(0)
  <2> DEFINE f == [i \in 0 .. 0 |-> x]
  <2>1. f \in [0 .. 0 -> D] /\ f[0] = x
    OBVIOUS
  <2>2. \A i \in 1 .. 0 : f[i] = g[i][f[i - 1]]
    OBVIOUS
  <2> HIDE DEF f
  <2> QED
    BY <2>1, <2>2
<1>2. ASSUME NEW n \in 1 .. m, Defined(n - 1) PROVE Defined(n)
  <2>1. PICK e \in [0 .. n - 1 -> D] :
               e[0] = x /\ \A i \in 1 .. n - 1 : e[i] = g[i][e[i - 1]]
    BY <1>2
  <2> DEFINE f == [i \in 0 .. n |-> IF i = n THEN g[n][e[n - 1]] ELSE e[i]]
  <2>2. g[n][e[n - 1]] \in D
    OBVIOUS
  <2>3. f \in [0 .. n -> D] /\ f[0] = x
    BY <2>1, <2>2
  <2>4. ASSUME NEW i \in 1 .. n PROVE f[i] = g[i][f[i - 1]]
    <3>1. f[i - 1] = e[i - 1]
      OBVIOUS
    <3>2. CASE i = n
      BY <3>1, <3>2
    <3>3. CASE i # n
      <4>1. i \in 1 .. n - 1
        BY <3>3
      <4>2. f[i] = e[i] /\ e[i] = g[i][e[i - 1]]
        BY <2>1, <4>1
      <4> QED
        BY <3>1, <4>2
    <3> QED
      BY <3>2, <3>3
  <2> HIDE DEF f
  <2> QED
    BY <2>3, <2>4
<1>3. m \in {n \in 0 .. m : Defined(n)}
  <2> DEFINE T == {n \in 0 .. m : Defined(n)}
  <2> HIDE DEF Defined
  <2>1. 0 \in T /\ \A n \in 1 .. m : n - 1 \in T => n \in T
    BY <1>1, <1>2
  <2> HIDE DEF T
  <2>2. m \in T
    BY <2>1, UpTo
  <2> QED
    BY <2>2 DEF T
<1> QED
  BY <1>3

(* f is the function that Filter evaluates.                                 *)
Filters(f, s, S) ==
  /\ f[0] = <<>>
  /\ \A n \in 1 .. Len(s) :
       f[n] = IF s[n] \in S THEN Append(f[n - 1], s[n]) ELSE f[n - 1]
  /\ Filter(s, S) = f[Len(s)]

LEMMA FilterStep ==
  ASSUME NEW A, NEW s \in Seq(A), NEW S
  PROVE  \E f \in [0 .. Len(s) -> Seq(A)] : Filters(f, s, S)
<1> DEFINE g == [n \in 1 .. Len(s) |-> [r \in Seq(A) |->
                   IF s[n] \in S THEN Append(r, s[n]) ELSE r]]
           Step(f) == [n \in 0 .. Len(s) |->
                   IF n = 0 THEN <<>>
                   ELSE IF s[n] \in S THEN Append(f[n - 1], s[n]) ELSE f[n - 1]]
           F == CHOOSE f : f = Step(f)
<1>1. Len(s) \in Nat /\ \A n \in 1 .. Len(s) : s[n] \in A
  BY LenProperties, ElementOfSeq
<1>2. g \in [1 .. Len(s) -> [Seq(A) -> Seq(A)]]
  BY <1>1
<1>3. PICK e \in [0 .. Len(s) -> Seq(A)] :
             e[0] = <<>> /\ \A n \in 1 .. Len(s) : e[n] = g[n][e[n - 1]]
  <2> HIDE DEF g
  <2> DEFINE D == Seq(A)  m == Len(s)  x == <<>>
  <2>1. x \in D /\ m \in Nat /\ g \in [1 .. m -> [D -> D]]
    BY <1>1, <1>2
  <2> HIDE DEF D, m, x
  <2>2. \E e \in [0 .. m -> D] : e[0] = x /\ \A n \in 1 .. m : e[n] = g[n][e[n - 1]]
    BY <2>1, Recursion
  <2> QED
    BY <2>2 DEF D, m, x
<1>4. e = Step(e)
  <2>1. ASSUME NEW n \in 1 .. Len(s)
        PROVE  g[n][e[n - 1]] = IF s[n] \in S THEN Append(e[n - 1], s[n]) ELSE e[n - 1]
    <3>1. e[n - 1] \in Seq(A)
      BY <1>1
    <3> HIDE DEF Step, F
    <3> QED
      BY <3>1
  <2> HIDE DEF g
  <2>2. DOMAIN e = 0 .. Len(s) /\ e[0] = <<>>
    BY <1>3
  <2>3. ASSUME NEW n \in 0 .. Len(s) PROVE e[n] = Step(e)[n]
    <3>1. CASE n = 0
      BY <2>2, <3>1
    <3>2. CASE n # 0
      <4>1. n \in 1 .. Len(s)
        BY <1>1, <3>2
      <4> QED
        BY <1>3, <2>1, <3>2, <4>1
    <3> QED
      BY <3>1, <3>2
  <2> QED
    BY <2>2, <2>3
<1> HIDE DEF Step
<1>5. F = Step(F)
  BY <1>4
<1>6. Filter(s, S) = F[Len(s)]
  BY DEF Filter, Step
<1>7. ASSUME NEW f, f = Step(f)
      PROVE  /\ f[0] = <<>>
             /\ \A n \in 1 .. Len(s) :
                  f[n] = IF s[n] \in S THEN Append(f[n - 1], s[n]) ELSE f[n - 1]
  <2>1. \A n \in 0 .. Len(s) : f[n] = Step(f)[n]
    BY <1>7
  <2>2. Step(f)[0] = <<>>
    BY <1>1 DEF Step
  <2>3. \A n \in 1 .. Len(s) : Step(f)[n] =
          IF s[n] \in S THEN Append(f[n - 1], s[n]) ELSE f[n - 1]
    BY <1>1 DEF Step
  <2> QED
    BY <1>1, <2>1, <2>2, <2>3
<1>8. F = e
  <2>1. DOMAIN F = 0 .. Len(s) /\ DOMAIN e = 0 .. Len(s)
    BY <1>3, <1>5 DEF Step
  <2> HIDE DEF F
  <2>2. F[0] = e[0]
    BY <1>4, <1>5, <1>7
  <2>3. ASSUME NEW n \in 1 .. Len(s), F[n - 1] = e[n - 1] PROVE F[n] = e[n]
    <3>1. /\ F[n] = IF s[n] \in S THEN Append(F[n - 1], s[n]) ELSE F[n - 1]
          /\ e[n] = IF s[n] \in S THEN Append(e[n - 1], s[n]) ELSE e[n - 1]
      BY <1>4, <1>5, <1>7
    <3> QED
      BY <2>3, <3>1
  <2>4. ASSUME NEW m \in 0 .. Len(s) PROVE F[m] = e[m]
    <3> DEFINE T == {n \in 0 .. Len(s) : F[n] = e[n]}
    <3>1. 0 \in T /\ \A n \in 1 .. m : n - 1 \in T => n \in T
      BY <1>1, <2>2, <2>3
    <3> HIDE DEF T
    <3>2. m \in T
      BY <1>1, <2>4, <3>1, UpTo
    <3> QED
      BY <3>2 DEF T
  <2> QED
    BY <1>3, <1>5, <2>1, <2>4 DEF Step
<1>9. Filters(e, s, S)
  BY <1>4, <1>6, <1>7, <1>8 DEF Filters
<1> QED
  BY <1>9

(* Filter keeps the elements of S, no more and no less.                     *)
LEMMA FilterProperties ==
  ASSUME NEW A, NEW s \in Seq(A), NEW S
  PROVE  /\ Filter(s, S) \in Seq(A)
         /\ Len(Filter(s, S)) <= Len(s)
         /\ \A i \in 1 .. Len(Filter(s, S)) :
              \E j \in 1 .. Len(s) : Filter(s, S)[i] = s[j] /\ s[j] \in S
         /\ \A j \in 1 .. Len(s) :
              s[j] \in S => \E i \in 1 .. Len(Filter(s, S)) : Filter(s, S)[i] = s[j]
<1>1. Len(s) \in Nat /\ \A n \in 1 .. Len(s) : s[n] \in A
  BY LenProperties, ElementOfSeq
<1>2. PICK f \in [0 .. Len(s) -> Seq(A)] : Filters(f, s, S)
  BY FilterStep
<1>3. /\ f[0] = <<>>
      /\ \A n \in 1 .. Len(s) :
           f[n] = IF s[n] \in S THEN Append(f[n - 1], s[n]) ELSE f[n - 1]
      /\ Filter(s, S) = f[Len(s)]
  BY <1>2 DEF Filters
<1> DEFINE Kept(n) ==
             /\ Len(f[n]) <= n
             /\ \A i \in 1 .. Len(f[n]) : \E j \in 1 .. n : f[n][i] = s[j] /\ s[j] \in S
             /\ \A j \in 1 .. n : s[j] \in S => \E i \in 1 .. Len(f[n]) : f[n][i] = s[j]
<1>4. Kept(0)
  BY <1>3
<1>5. ASSUME NEW n \in 1 .. Len(s), Kept(n - 1) PROVE Kept(n)
  <2> DEFINE r == f[n - 1]
  <2>1. r \in Seq(A) /\ Len(r) \in Nat /\ s[n] \in A
    BY <1>1, LenProperties
  <2>2. /\ Len(r) <= n - 1
        /\ \A i \in 1 .. Len(r) : \E j \in 1 .. n - 1 : r[i] = s[j] /\ s[j] \in S
        /\ \A j \in 1 .. n - 1 : s[j] \in S => \E i \in 1 .. Len(r) : r[i] = s[j]
    BY <1>5
  <2>3. f[n] = IF s[n] \in S THEN Append(r, s[n]) ELSE r
    BY <1>3
  <2> HIDE DEF r
  <2>4. CASE s[n] \in S
    <3>1. /\ Len(f[n]) = Len(r) + 1
          /\ \A i \in 1 .. Len(r) : f[n][i] = r[i]
          /\ f[n][Len(r) + 1] = s[n]
      BY <2>1, <2>3, <2>4, AppendProperties
    <3>2. Len(f[n]) <= n
      BY <2>1, <2>2, <3>1
    <3>3. ASSUME NEW i \in 1 .. Len(f[n])
          PROVE  \E j \in 1 .. n : f[n][i] = s[j] /\ s[j] \in S
      <4>1. CASE i = Len(r) + 1
        BY <2>4, <3>1, <4>1
      <4>2. CASE i # Len(r) + 1
        <5>1. i \in 1 .. Len(r)
          BY <2>1, <3>1, <4>2
        <5>2. PICK j \in 1 .. n - 1 : r[i] = s[j] /\ s[j] \in S
          BY <2>2, <5>1
        <5> QED
          BY <3>1, <5>1, <5>2
      <4> QED
        BY <4>1, <4>2
    <3>4. ASSUME NEW j \in 1 .. n, s[j] \in S
          PROVE  \E i \in 1 .. Len(f[n]) : f[n][i] = s[j]
      <4>1. CASE j = n
        BY <2>1, <3>1, <4>1
      <4>2. CASE j # n
        <5>1. PICK i \in 1 .. Len(r) : r[i] = s[j]
          BY <2>2, <3>4, <4>2
        <5> QED
          BY <2>1, <3>1, <5>1
      <4> QED
        BY <4>1, <4>2
    <3> QED
      BY <3>2, <3>3, <3>4
  <2>5. CASE s[n] \notin S
    BY <2>1, <2>2, <2>3, <2>5
  <2> QED
    BY <2>4, <2>5
<1>6. Len(s) \in {n \in 0 .. Len(s) : Kept(n)}
  <2> DEFINE T == {n \in 0 .. Len(s) : Kept(n)}
  <2> HIDE DEF Kept
  <2>1. 0 \in T /\ \A n \in 1 .. Len(s) : n - 1 \in T => n \in T
    BY <1>1, <1>4, <1>5
  <2> HIDE DEF T
  <2>2. Len(s) \in T
    BY <1>1, <2>1, UpTo
  <2> QED
    BY <2>2 DEF T
<1>7. Kept(Len(s))
  BY <1>6
<1>8. f[Len(s)] \in Seq(A)
  BY <1>1
<1> QED
  BY <1>3, <1>7, <1>8

-----------------------------------------------------------------------------
(* What the guest takes to be down.                                         *)

LEMMA Codings ==
  ASSUME NEW k \in Keys, NEW x \in Keys
  PROVE  /\ Make(k) # Break(x)
         /\ Make(k) = Make(x) => k = x
         /\ Break(k) = Break(x) => k = x
BY DEF Make, Break

LEMMA AnswersCodeNothing ==
  ASSUME NEW b \in Answers, NEW k \in Keys
  PROVE  b # Make(k) /\ b # Break(k)
BY DEF Answers, Ack, Nak, Make, Break

(* What is read in two parts is taken as if it were read at once.           *)
LEMMA TakenConcat ==
  ASSUME NEW D, NEW p, NEW bs \in Seq(D), NEW cs \in Seq(D)
  PROVE  Taken(p, bs \o cs) = Taken(Taken(p, bs), cs)
<1> DEFINE m == Len(bs)  n == Len(cs)  all == bs \o cs
<1>1. /\ m \in Nat /\ n \in Nat
      /\ Len(all) = m + n
      /\ \A i \in 1 .. m : all[i] = bs[i]
      /\ \A i \in 1 .. n : all[m + i] = cs[i]
  <2>1. m \in Nat /\ n \in Nat
    BY LenProperties
  <2>2. /\ Len(all) = m + n
        /\ \A i \in 1 .. m + n : all[i] = IF i <= m THEN bs[i] ELSE cs[i - m]
    BY ConcatProperties
  <2>3. ASSUME NEW i \in 1 .. n PROVE all[m + i] = cs[i]
    <3>1. m + i \in 1 .. m + n /\ ~(m + i <= m) /\ (m + i) - m = i
      BY <2>1
    <3> QED
      BY <2>2, <3>1
  <2> QED
    BY <2>1, <2>2, <2>3
<1> HIDE DEF m, n, all
<1>2. ASSUME NEW k \in Keys PROVE k \in Taken(p, all) <=> k \in Taken(Taken(p, bs), cs)
  <2>1. k \in Taken(p, bs) <=>
          \/ \E i \in 1 .. m : bs[i] = Make(k) /\ \A j \in 1 .. m : j > i => bs[j] # Break(k)
          \/ k \in p /\ \A i \in 1 .. m : bs[i] # Break(k)
    BY DEF Taken, m
  <2>2. k \in Taken(p, all) <=>
          \/ \E i \in 1 .. m + n :
               all[i] = Make(k) /\ \A j \in 1 .. m + n : j > i => all[j] # Break(k)
          \/ k \in p /\ \A i \in 1 .. m + n : all[i] # Break(k)
    BY <1>1 DEF Taken
  <2>3. k \in Taken(Taken(p, bs), cs) <=>
          \/ \E i \in 1 .. n : cs[i] = Make(k) /\ \A j \in 1 .. n : j > i => cs[j] # Break(k)
          \/ k \in Taken(p, bs) /\ \A i \in 1 .. n : cs[i] # Break(k)
    BY DEF Taken, n
  <2>4. \A j \in 1 .. m + n : j \in 1 .. m \/ \E i \in 1 .. n : j = m + i
    <3> SUFFICES ASSUME NEW j \in 1 .. m + n, j \notin 1 .. m
                 PROVE  \E i \in 1 .. n : j = m + i
      OBVIOUS
    <3>1. j - m \in 1 .. n /\ j = m + (j - m)
      BY <1>1
    <3> QED
      BY <3>1
  <2>5. ASSUME NEW i \in 1 .. n, cs[i] = Make(k), \A j \in 1 .. n : j > i => cs[j] # Break(k)
        PROVE  k \in Taken(p, all)
    <3>1. m + i \in 1 .. m + n /\ all[m + i] = Make(k)
      BY <1>1, <2>5
    <3>2. ASSUME NEW j \in 1 .. m + n, j > m + i PROVE all[j] # Break(k)
      <4>1. PICK x \in 1 .. n : j = m + x
        BY <1>1, <2>4, <3>2
      <4>2. x > i /\ all[j] = cs[x]
        BY <1>1, <3>2, <4>1
      <4> QED
        BY <2>5, <4>1, <4>2
    <3> QED
      BY <2>2, <3>1, <3>2
  <2>6. ASSUME k \in Taken(p, bs), \A i \in 1 .. n : cs[i] # Break(k)
        PROVE  k \in Taken(p, all)
    <3>1. CASE \E i \in 1 .. m : bs[i] = Make(k) /\ \A j \in 1 .. m : j > i => bs[j] # Break(k)
      <4>1. PICK i \in 1 .. m : bs[i] = Make(k) /\ \A j \in 1 .. m : j > i => bs[j] # Break(k)
        BY <3>1
      <4>2. ASSUME NEW j \in 1 .. m + n, j > i PROVE all[j] # Break(k)
        BY <1>1, <2>4, <2>6, <4>1, <4>2
      <4>3. i \in 1 .. m + n /\ all[i] = Make(k)
        BY <1>1, <4>1
      <4> QED
        BY <2>2, <4>2, <4>3
    <3>2. CASE k \in p /\ \A i \in 1 .. m : bs[i] # Break(k)
      <4>1. \A j \in 1 .. m + n : all[j] # Break(k)
        BY <1>1, <2>4, <2>6, <3>2
      <4> QED
        BY <2>2, <3>2, <4>1
    <3> QED
      BY <2>1, <2>6, <3>1, <3>2
  <2>7. ASSUME NEW i \in 1 .. m + n, all[i] = Make(k),
               \A j \in 1 .. m + n : j > i => all[j] # Break(k)
        PROVE  k \in Taken(Taken(p, bs), cs)
    <3>1. CASE i \in 1 .. m
      <4>1. \A j \in 1 .. m : j > i => bs[j] # Break(k)
        BY <1>1, <2>7
      <4>2. k \in Taken(p, bs)
        BY <1>1, <2>1, <2>7, <3>1, <4>1
      <4>3. ASSUME NEW j \in 1 .. n PROVE cs[j] # Break(k)
        <5>1. m + j \in 1 .. m + n /\ m + j > i /\ all[m + j] = cs[j]
          BY <1>1, <3>1
        <5> QED
          BY <2>7, <5>1
      <4> QED
        BY <2>3, <4>2, <4>3
    <3>2. CASE i \notin 1 .. m
      <4>1. PICK x \in 1 .. n : i = m + x
        BY <2>4, <3>2
      <4>2. cs[x] = Make(k)
        BY <1>1, <2>7, <4>1
      <4>3. ASSUME NEW j \in 1 .. n, j > x PROVE cs[j] # Break(k)
        <5>1. m + j \in 1 .. m + n /\ m + j > i /\ all[m + j] = cs[j]
          BY <1>1, <4>1, <4>3
        <5> QED
          BY <2>7, <5>1
      <4> QED
        BY <2>3, <4>2, <4>3
    <3> QED
      BY <3>1, <3>2
  <2>8. ASSUME k \in p, \A i \in 1 .. m + n : all[i] # Break(k)
        PROVE  k \in Taken(Taken(p, bs), cs)
    <3>1. \A i \in 1 .. m : bs[i] # Break(k)
      BY <1>1, <2>8
    <3>2. ASSUME NEW i \in 1 .. n PROVE cs[i] # Break(k)
      BY <1>1, <2>8
    <3> QED
      BY <2>1, <2>3, <2>8, <3>1, <3>2
  <2> QED
    BY <2>2, <2>3, <2>5, <2>6, <2>7, <2>8
<1>3. Taken(p, all) \subseteq Keys /\ Taken(Taken(p, bs), cs) \subseteq Keys
  BY DEF Taken
<1> QED
  BY <1>2, <1>3 DEF all

LEMMA TakenNothing ==
  ASSUME NEW p \in SUBSET Keys
  PROVE  Taken(p, <<>>) = p
BY DEF Taken

LEMMA TakenOne ==
  ASSUME NEW p \in SUBSET Keys, NEW k \in Keys
  PROVE  /\ Taken(p, <<Make(k)>>) = p \cup {k}
         /\ Taken(p, <<Break(k)>>) = p \ {k}
<1>1. ASSUME NEW b
      PROVE  Taken(p, <<b>>) = {x \in Keys : b = Make(x) \/ (x \in p /\ b # Break(x))}
  <2> DEFINE bs == <<b>>
  <2>1. Len(bs) = 1 /\ bs[1] = b /\ \A i \in 1 .. 1 : i = 1
    OBVIOUS
  <2> HIDE DEF bs
  <2>2. ASSUME NEW x \in Keys
        PROVE  x \in Taken(p, bs) <=> b = Make(x) \/ (x \in p /\ b # Break(x))
    BY <2>1 DEF Taken
  <2>3. Taken(p, bs) \subseteq Keys
    BY DEF Taken
  <2> QED
    BY <2>2, <2>3 DEF bs
<1>2. \A x \in Keys : /\ Make(k) # Break(x)
                      /\ Break(k) # Make(x)
                      /\ Make(k) = Make(x) <=> k = x
                      /\ Break(k) = Break(x) <=> k = x
  BY Codings
<1>3. Taken(p, <<Make(k)>>) = {x \in Keys : k = x \/ x \in p}
  BY <1>1, <1>2
<1>4. Taken(p, <<Break(k)>>) = {x \in Keys : x \in p /\ k # x}
  BY <1>1, <1>2
<1> QED
  BY <1>3, <1>4

(* An answer changes nothing of the keys.                                   *)
LEMMA TakenAnswer ==
  ASSUME NEW p \in SUBSET Keys, NEW b \in Answers
  PROVE  Taken(p, <<b>>) = p
<1>1. Len(<<b>>) = 1 /\ <<b>>[1] = b
  OBVIOUS
<1>2. \A k \in Keys : b # Make(k) /\ b # Break(k)
  BY AnswersCodeNothing
<1> QED
  BY <1>1, <1>2 DEF Taken

(* Breaks release exactly their keys, and makes press them.                 *)
LEMMA TakenAll ==
  ASSUME NEW p \in SUBSET Keys, NEW ks \in Seq(Keys)
  PROVE  /\ Taken(p, [i \in 1 .. Len(ks) |-> Break(ks[i])]) = p \ Range(ks)
         /\ Taken(p, [i \in 1 .. Len(ks) |-> Make(ks[i])]) = p \cup Range(ks)
<1>1. /\ Len(ks) \in Nat /\ \A i \in 1 .. Len(ks) : ks[i] \in Keys
      /\ Range(ks) = {ks[i] : i \in 1 .. Len(ks)}
  BY LenProperties, ElementOfSeq DEF Range
<1> DEFINE bs == [i \in 1 .. Len(ks) |-> Break(ks[i])]
           ms == [i \in 1 .. Len(ks) |-> Make(ks[i])]
<1>2. Len(bs) = Len(ks) /\ Len(ms) = Len(ks)
  BY <1>1
<1>3. ASSUME NEW k \in Keys, NEW i \in 1 .. Len(ks)
      PROVE  /\ bs[i] # Make(k) /\ (bs[i] = Break(k) <=> ks[i] = k)
             /\ ms[i] # Break(k) /\ (ms[i] = Make(k) <=> ks[i] = k)
  BY <1>1, Codings
<1> HIDE DEF bs, ms
<1>4. ASSUME NEW k \in Keys
      PROVE  /\ k \in Taken(p, bs) <=> k \in p /\ k \notin Range(ks)
             /\ k \in Taken(p, ms) <=> k \in p \/ k \in Range(ks)
  <2>1. k \in Taken(p, bs) <=> k \in p /\ \A i \in 1 .. Len(ks) : bs[i] # Break(k)
    BY <1>2, <1>3 DEF Taken
  <2>2. k \in Taken(p, ms) <=> k \in p \/ \E i \in 1 .. Len(ks) : ms[i] = Make(k)
    BY <1>2, <1>3 DEF Taken
  <2>3. k \in Range(ks) <=> \E i \in 1 .. Len(ks) : ks[i] = k
    BY <1>1
  <2> QED
    BY <1>3, <2>1, <2>2, <2>3
<1>5. /\ Taken(p, bs) \subseteq Keys /\ Taken(p, ms) \subseteq Keys
      /\ Range(ks) \subseteq Keys
  BY <1>1 DEF Taken
<1> QED
  BY <1>4, <1>5 DEF bs, ms

-----------------------------------------------------------------------------
(* The ring.                                                                *)

LEMMA Sizes ==
  /\ KB_BUF \in Nat /\ KB_BUF > 0 /\ KB_CTR \in Nat /\ KB_CTR >= 3
  /\ Len(Codes) \in Nat /\ Len(Codes) <= KB_BUF
  /\ RepeatMax \in Nat /\ RepeatMax > 0
<1>1. /\ Codes \in Seq(Keys) /\ Len(Codes) \in Nat /\ DOMAIN Codes = 1 .. Len(Codes)
  BY KeysAssumption, LenProperties
<1>2. PICK h : h \in Hosts
  BY KeysAssumption
<1>3. KeyOf[h] \in Keys
  BY <1>2, KeysAssumption
<1>4. Len(Codes) >= 1
  BY <1>1, <1>3 DEF Keys, Range
<1> QED
  BY <1>1, <1>4, SizesAssumption

Stored == Byte \cup {None}

RingOK ==
  /\ buf \in [0 .. KB_BUF - 1 -> Stored]
  /\ bufpos \in 0 .. KB_BUF - 1
  /\ buffers \in 0 .. KB_BUF

LEMMA Remainder ==
  ASSUME NEW x \in Nat, NEW y \in Nat, x < y
  PROVE  x % y = x /\ (x + y) % y = x
<1>1. x + y = y * 1 + x /\ x = y * 0 + x
  OBVIOUS
<1> QED
  BY <1>1

LEMMA PlaceIs ==
  ASSUME RingOK, NEW i \in 0 .. KB_BUF - 1
  PROVE  Place(i) = IF bufpos + i < KB_BUF THEN bufpos + i ELSE bufpos + i - KB_BUF
<1>1. bufpos \in Nat /\ bufpos < KB_BUF /\ KB_BUF \in Nat
  BY Sizes DEF RingOK
<1>2. CASE bufpos + i < KB_BUF
  BY <1>1, <1>2, Remainder DEF Place
<1>3. CASE ~(bufpos + i < KB_BUF)
  <2> DEFINE x == bufpos + i - KB_BUF
  <2>1. x \in Nat /\ x < KB_BUF /\ bufpos + i = x + KB_BUF
    BY <1>1, <1>3
  <2> HIDE DEF x
  <2>2. Place(i) = x
    BY <1>1, <2>1, Remainder DEF Place
  <2> QED
    BY <1>3, <2>2 DEF x
<1> QED
  BY <1>2, <1>3

LEMMA PlacesDiffer ==
  ASSUME RingOK, NEW i \in 0 .. KB_BUF - 1, NEW j \in 0 .. KB_BUF - 1
  PROVE  /\ Place(i) \in 0 .. KB_BUF - 1
         /\ Place(i) = Place(j) => i = j
<1>1. bufpos \in Nat /\ bufpos < KB_BUF /\ KB_BUF \in Nat
  BY Sizes DEF RingOK
<1>2. /\ Place(i) = IF bufpos + i < KB_BUF THEN bufpos + i ELSE bufpos + i - KB_BUF
      /\ Place(j) = IF bufpos + j < KB_BUF THEN bufpos + j ELSE bufpos + j - KB_BUF
  BY PlaceIs
<1> QED
  BY <1>1, <1>2

LEMMA PendingType ==
  ASSUME RingOK
  PROVE  /\ Pending \in Seq(Stored)
         /\ Len(Pending) = buffers
         /\ \A i \in 1 .. buffers : Pending[i] = buf[Place(i - 1)]
<1>1. ASSUME NEW i \in 1 .. buffers PROVE buf[Place(i - 1)] \in Stored
  <2>1. i - 1 \in 0 .. KB_BUF - 1
    BY Sizes DEF RingOK
  <2>2. Place(i - 1) \in 0 .. KB_BUF - 1
    BY <2>1, PlacesDiffer
  <2> QED
    BY <2>2 DEF RingOK
<1>2. buffers \in Nat
  BY Sizes DEF RingOK
<1> QED
  BY <1>1, <1>2 DEF Pending

(* The n bytes of the ring f from place p on.                               *)
RingOf(f, p, n) == [i \in 1 .. n |-> f[(p + (i - 1)) % KB_BUF]]

LEMMA RingSequence ==
  ASSUME NEW f \in [0 .. KB_BUF - 1 -> Stored], NEW p \in Nat, NEW n \in Nat
  PROVE  RingOf(f, p, n) \in Seq(Stored) /\ Len(RingOf(f, p, n)) = n
<1>1. ASSUME NEW i \in 1 .. n PROVE f[(p + (i - 1)) % KB_BUF] \in Stored
  <2>1. p + (i - 1) \in Nat
    OBVIOUS
  <2>2. (p + (i - 1)) % KB_BUF \in 0 .. KB_BUF - 1
    BY <2>1, Sizes
  <2> QED
    BY <2>2
<1> QED
  BY <1>1 DEF RingOf

LEMMA PendingTypeNext ==
  ASSUME RingOK'
  PROVE  Pending' \in Seq(Stored) /\ Len(Pending') = buffers'
<1>1. /\ buf' \in [0 .. KB_BUF - 1 -> Stored] /\ bufpos' \in Nat /\ buffers' \in Nat
  BY Sizes DEF RingOK
<1>2. Pending' = RingOf(buf', bufpos', buffers')
  BY DEF Pending, Place, RingOf
<1> QED
  BY <1>1, <1>2, RingSequence

(* How many of the bytes keyboard_send takes.                               *)
Accepted(bs) == IF Len(bs) < KB_BUF - buffers THEN Len(bs) ELSE KB_BUF - buffers

(* keyboard_send stores the bytes that fit behind those that wait.          *)
LEMMA SendStores ==
  ASSUME RingOK, NEW bs \in Seq(Byte), keyboard_send(bs)
  PROVE  /\ Accepted(bs) \in 0 .. Len(bs)
         /\ buffers' = buffers + Accepted(bs)
         /\ \A i \in 1 .. buffers : buf'[Place(i - 1)] = buf[Place(i - 1)]
         /\ \A j \in 1 .. Accepted(bs) : buf'[Place(buffers + j - 1)] = bs[j]
         /\ RingOK'
<1> DEFINE n == Accepted(bs)
<1>1. /\ KB_BUF \in Nat /\ buffers \in Nat /\ buffers <= KB_BUF
      /\ Len(bs) \in Nat /\ n \in 0 .. Len(bs) /\ n <= KB_BUF - buffers
      /\ \A j \in 1 .. n : bs[j] \in Byte
  BY Sizes, LenProperties, ElementOfSeq DEF RingOK, Accepted
<1>2. /\ buf' = [i \in 0 .. KB_BUF - 1 |->
                   IF \E j \in 1 .. n : i = Place(buffers + j - 1)
                   THEN bs[CHOOSE j \in 1 .. n : i = Place(buffers + j - 1)]
                   ELSE buf[i]]
      /\ buffers' = buffers + n
      /\ bufpos' = bufpos
  BY DEF keyboard_send, Accepted, Room
<1> HIDE DEF n
<1>3. \A j \in 1 .. n : buffers + j - 1 \in 0 .. KB_BUF - 1
  BY <1>1
<1>4. \A i \in 1 .. buffers : i - 1 \in 0 .. KB_BUF - 1
  BY <1>1
<1>5. ASSUME NEW i \in 1 .. buffers PROVE buf'[Place(i - 1)] = buf[Place(i - 1)]
  <2>1. Place(i - 1) \in 0 .. KB_BUF - 1
    BY <1>4, PlacesDiffer
  <2>2. ASSUME NEW j \in 1 .. n PROVE Place(i - 1) # Place(buffers + j - 1)
    <3>1. i - 1 # buffers + j - 1
      BY <1>1
    <3> QED
      BY <1>3, <1>4, <3>1, PlacesDiffer
  <2> QED
    BY <1>2, <2>1, <2>2
<1>6. ASSUME NEW j \in 1 .. n PROVE buf'[Place(buffers + j - 1)] = bs[j]
  <2>1. Place(buffers + j - 1) \in 0 .. KB_BUF - 1
    BY <1>3, PlacesDiffer
  <2>2. ASSUME NEW x \in 1 .. n, Place(buffers + j - 1) = Place(buffers + x - 1) PROVE x = j
    <3>1. buffers + j - 1 = buffers + x - 1
      BY <1>3, <2>2, PlacesDiffer
    <3> QED
      BY <1>1, <3>1
  <2>3. (CHOOSE x \in 1 .. n : Place(buffers + j - 1) = Place(buffers + x - 1)) = j
    BY <2>2
  <2> QED
    BY <1>2, <2>1, <2>3
<1>7. buf' \in [0 .. KB_BUF - 1 -> Stored]
  <2>1. ASSUME NEW i \in 0 .. KB_BUF - 1 PROVE buf'[i] \in Stored
    <3>1. CASE \E j \in 1 .. n : i = Place(buffers + j - 1)
      BY <1>1, <1>6, <3>1 DEF Stored
    <3>2. CASE ~\E j \in 1 .. n : i = Place(buffers + j - 1)
      BY <1>2, <3>2 DEF RingOK
    <3> QED
      BY <3>1, <3>2
  <2> QED
    BY <1>2, <2>1
<1>8. RingOK'
  <2>1. buffers' \in 0 .. KB_BUF
    BY <1>1, <1>2
  <2>2. bufpos' \in 0 .. KB_BUF - 1
    BY <1>2 DEF RingOK
  <2> QED
    BY <1>7, <2>1, <2>2 DEF RingOK
<1> QED
  BY <1>1, <1>2, <1>5, <1>6, <1>8 DEF n

(* What waits grows at its end; if nothing is lost, by all that was sent.   *)
LEMMA SendAppends ==
  ASSUME RingOK, NEW bs \in Seq(Byte), keyboard_send(bs)
  PROVE  /\ Len(Pending') = buffers' /\ buffers <= buffers' /\ buffers' <= KB_BUF
         /\ \A i \in 1 .. buffers : Pending'[i] = Pending[i]
         /\ lost \in BOOLEAN /\ ~lost' => ~lost /\ Pending' = Pending \o bs
<1> DEFINE n == Accepted(bs)
<1>1. /\ n \in 0 .. Len(bs) /\ Len(bs) \in Nat /\ buffers \in Nat /\ KB_BUF \in Nat
      /\ buffers' = buffers + n /\ bufpos' = bufpos
      /\ \A i \in 1 .. buffers : buf'[Place(i - 1)] = buf[Place(i - 1)]
      /\ \A j \in 1 .. n : buf'[Place(buffers + j - 1)] = bs[j]
      /\ RingOK'
      /\ lost' = (lost \/ n < Len(bs))
  BY SMTT(30), SendStores, Sizes, LenProperties DEF RingOK, keyboard_send, Accepted, Room
<1>2. /\ Pending \in Seq(Stored) /\ Len(Pending) = buffers
      /\ \A i \in 1 .. buffers : Pending[i] = buf[Place(i - 1)]
  BY PendingType
<1> HIDE DEF n
<1>3. Pending' = [i \in 1 .. buffers' |-> buf'[(bufpos' + (i - 1)) % KB_BUF]]
  BY DEF Pending, Place
<1>4. \A i \in 1 .. buffers' : Pending'[i] = buf'[Place(i - 1)]
  BY <1>1, <1>3 DEF Place
<1>5. Len(Pending') = buffers' /\ buffers <= buffers'
  BY <1>1, <1>3
<1>6. \A i \in 1 .. buffers : Pending'[i] = Pending[i]
  <2>1. \A i \in 1 .. buffers : i \in 1 .. buffers'
    BY <1>1
  <2> QED
    BY <1>1, <1>2, <1>4, <2>1
<1>7. ASSUME lost \in BOOLEAN, ~lost' PROVE ~lost /\ Pending' = Pending \o bs
  <2>1. ~lost /\ n = Len(bs)
    <3>1. ~lost /\ ~(n < Len(bs))
      BY <1>1, <1>7, Zenon
    <3> QED
      BY <1>1, <3>1
  <2>2. bs \in Seq(Stored)
    BY LenProperties DEF Stored
  <2>3. /\ Len(Pending \o bs) = buffers + n
        /\ \A i \in 1 .. buffers + n :
             (Pending \o bs)[i] = IF i <= buffers THEN Pending[i] ELSE bs[i - buffers]
    BY <1>2, <2>1, <2>2, ConcatProperties
  <2>4. DOMAIN (Pending \o bs) = 1 .. buffers + n /\ Pending \o bs \in Seq(Stored)
    BY <1>2, <2>2, <2>3, ConcatProperties, LenProperties
  <2>5. ASSUME NEW i \in 1 .. buffers' PROVE Pending'[i] = (Pending \o bs)[i]
    <3>1. CASE i <= buffers
      BY <1>1, <1>6, <2>3, <3>1
    <3>2. CASE ~(i <= buffers)
      <4>1. i - buffers \in 1 .. n /\ i - 1 = buffers + (i - buffers) - 1
        BY <1>1, <3>2
      <4>2. Pending'[i] = bs[i - buffers]
        BY <1>1, <1>4, <4>1
      <4> QED
        BY <1>1, <2>3, <3>2, <4>2
    <3> QED
      BY <3>1, <3>2
  <2>6. Pending' \in Seq(Stored)
    <3>1. \A i \in 1 .. buffers' : Pending'[i] \in Stored
      BY <1>1, <2>3, <2>4, <2>5, ElementOfSeq
    <3>2. buffers' \in Nat /\ Pending' = [i \in 1 .. buffers' |-> Pending'[i]]
      BY <1>1, <1>3
    <3> QED
      BY <3>1, <3>2
  <2>7. Pending' = Pending \o bs
    BY <1>1, <1>5, <2>3, <2>4, <2>5, <2>6, SeqEqual
  <2> QED
    BY <2>1, <2>7
<1>8. buffers' <= KB_BUF
  BY <1>1 DEF RingOK
<1> QED
  BY <1>5, <1>6, <1>7, <1>8

LEMMA HeadThenTail ==
  ASSUME NEW D, NEW s \in Seq(D), s # <<>>
  PROVE  s = <<Head(s)>> \o Tail(s)
<1> DEFINE t == <<Head(s)>> \o Tail(s)
<1>1. /\ Head(s) = s[1] /\ s[1] \in D
      /\ Tail(s) \in Seq(D) /\ Len(Tail(s)) = Len(s) - 1 /\ Len(s) \in Nat
      /\ \A i \in 1 .. Len(Tail(s)) : Tail(s)[i] = s[i + 1]
  BY HeadTailProperties, LenProperties, EmptySeq
<1>2. <<Head(s)>> \in Seq(D) /\ Len(<<Head(s)>>) = 1 /\ <<Head(s)>>[1] = s[1]
  BY <1>1
<1>3. /\ t \in Seq(D) /\ Len(t) = 1 + (Len(s) - 1)
      /\ \A i \in 1 .. 1 + (Len(s) - 1) : t[i] = IF i <= 1 THEN <<Head(s)>>[i] ELSE Tail(s)[i - 1]
  BY <1>1, <1>2, ConcatProperties
<1> HIDE DEF t
<1>4. ASSUME NEW i \in 1 .. Len(s) PROVE s[i] = t[i]
  <2>1. CASE i = 1
    BY <1>1, <1>2, <1>3, <2>1
  <2>2. CASE i # 1
    <3>1. i - 1 \in 1 .. Len(Tail(s)) /\ i \in 1 .. 1 + (Len(s) - 1) /\ ~(i <= 1) /\ (i - 1) + 1 = i
      BY <1>1, <2>2
    <3> QED
      BY <1>1, <1>3, <3>1
  <2> QED
    BY <2>1, <2>2
<1>5. Len(t) = Len(s)
  BY <1>1, <1>3
<1>6. s = t
  BY <1>3, <1>4, <1>5, SeqEqual
<1> QED
  BY <1>6 DEF t

-----------------------------------------------------------------------------
(* Answers.                                                                 *)

LEMMA CtrlType ==
  ASSUME NEW c \in Seq(Answers), NEW d \in Answers
  PROVE  keyboard_ctrl(c, d) \in Seq(Answers)
BY DEF keyboard_ctrl

(* f is the function that AnswerWith evaluates.                             *)
Answering(f, bs) ==
  /\ f[0] = ctr
  /\ \A n \in 1 .. Len(bs) : f[n] = keyboard_ctrl(f[n - 1], bs[n])
  /\ ctr' = f[Len(bs)]

LEMMA AnswerStep ==
  ASSUME ctr \in Seq(Answers), NEW bs \in Seq(Answers), AnswerWith(bs)
  PROVE  \E f : Answering(f, bs)
<1> DEFINE g == [n \in 1 .. Len(bs) |-> [c \in Seq(Answers) |-> keyboard_ctrl(c, bs[n])]]
<1>1. Len(bs) \in Nat /\ \A n \in 1 .. Len(bs) : bs[n] \in Answers
  BY LenProperties, ElementOfSeq
<1>2. g \in [1 .. Len(bs) -> [Seq(Answers) -> Seq(Answers)]]
  BY <1>1, CtrlType
<1>3. PICK e \in [0 .. Len(bs) -> Seq(Answers)] :
             e[0] = ctr /\ \A n \in 1 .. Len(bs) : e[n] = g[n][e[n - 1]]
  <2> DEFINE D == Seq(Answers)  m == Len(bs)  x == ctr
  <2>1. x \in D /\ m \in Nat /\ g \in [1 .. m -> [D -> D]]
    BY <1>1, <1>2
  <2> HIDE DEF D, m, g, x
  <2>2. \E e \in [0 .. m -> D] : e[0] = x /\ \A n \in 1 .. m : e[n] = g[n][e[n - 1]]
    BY ONLY <2>1, Recursion
  <2> QED
    BY <2>2 DEF D, m, x
<1> DEFINE Step(f) == [n \in 0 .. Len(bs) |->
                         IF n = 0 THEN ctr ELSE keyboard_ctrl(f[n - 1], bs[n])]
           F == CHOOSE f : f = Step(f)
<1>4. e = Step(e)
  <2>1. ASSUME NEW n \in 1 .. Len(bs)
        PROVE  e[n] = keyboard_ctrl(e[n - 1], bs[n])
    <3>1. e[n - 1] \in Seq(Answers)
      BY <1>1
    <3>2. g[n][e[n - 1]] = keyboard_ctrl(e[n - 1], bs[n])
      BY <3>1
    <3> QED
      BY <1>3, <3>2
  <2> HIDE DEF g
  <2>2. DOMAIN e = 0 .. Len(bs) /\ e[0] = ctr
    BY <1>3
  <2>3. ASSUME NEW n \in 0 .. Len(bs) PROVE e[n] = Step(e)[n]
    <3>1. CASE n = 0
      BY <2>2, <3>1
    <3>2. CASE n # 0
      <4>1. n \in 1 .. Len(bs)
        BY <1>1, <3>2
      <4> QED
        BY <2>1, <3>2, <4>1
    <3> QED
      BY <3>1, <3>2
  <2> QED
    BY <2>2, <2>3
<1> HIDE DEF Step
<1>5. F = Step(F)
  BY <1>4
<1>6. ctr' = F[Len(bs)]
  BY DEF AnswerWith, Step
<1>7. F[0] = ctr /\ \A n \in 1 .. Len(bs) : F[n] = keyboard_ctrl(F[n - 1], bs[n])
  <2> HIDE DEF F
  <2>1. \A n \in 0 .. Len(bs) : F[n] = Step(F)[n]
    BY <1>5
  <2>2. Step(F)[0] = ctr
    BY <1>1 DEF Step
  <2>3. \A n \in 1 .. Len(bs) : Step(F)[n] = keyboard_ctrl(F[n - 1], bs[n])
    BY <1>1 DEF Step
  <2> QED
    BY <1>1, <2>1, <2>2, <2>3
<1> HIDE DEF F
<1> QED
  BY <1>6, <1>7 DEF Answering

(* The answers of keystat_ctrlsend.                                         *)
Replies == {<<Ack>>, <<Nak>>, <<Ack, <<"led">>>>, <<Ack, <<"id1">>, <<"id2">>>>}

LEMMA ShortReplies ==
  ASSUME NEW bs \in Replies
  PROVE  Len(bs) <= 3
<1>1. \A a, b, c : Len(<<a>>) = 1 /\ Len(<<a, b>>) = 2 /\ Len(<<a, b, c>>) = 3
  OBVIOUS
<1>2. Len(bs) \in {1, 2, 3}
  BY <1>1, Zenon DEF Replies
<1>3. \A n \in {1, 2, 3} : n <= 3
  OBVIOUS
<1> QED
  BY <1>2, <1>3, Zenon

LEMMA AnswerBytes ==
  /\ {Ack, Nak, <<"id1">>, <<"id2">>, <<"led">>} = Answers
  /\ \A d \in {<<"id1">>, <<"id2">>, <<"led">>} : d \notin {Ack, Nak}
<1>1. \A d \in {"id1", "id2", "led"}, e \in {"fa", "fc"} : <<d>> # <<e>>
  OBVIOUS
<1> QED
  BY <1>1 DEF Answers, Ack, Nak

LEMMA CtrlStarts ==
  ASSUME NEW c \in Seq(Answers), NEW d \in {Ack, Nak}
  PROVE  keyboard_ctrl(c, d) = <<d>>
BY Sizes DEF keyboard_ctrl

LEMMA CtrlAppends ==
  ASSUME NEW c \in Seq(Answers), NEW d, d \notin {Ack, Nak}, Len(c) < 3
  PROVE  keyboard_ctrl(c, d) = Append(c, d)
BY Sizes, LenProperties DEF keyboard_ctrl

LEMMA Pair ==
  ASSUME NEW a \in Answers, NEW b \in Answers
  PROVE  Append(<<a>>, b) = <<a, b>>
<1>1. Append(<<a>>, b) = <<a, b>>
  <2>1. <<a>> \in Seq(Answers) /\ Len(<<a>>) = 1 /\ <<a>>[1] = a
    OBVIOUS
  <2>2. <<a, b>> \in Seq(Answers) /\ Len(<<a, b>>) = 2 /\ <<a, b>>[1] = a /\ <<a, b>>[2] = b
    OBVIOUS
  <2> DEFINE s == Append(<<a>>, b)  t == <<a, b>>
  <2>3. s \in Seq(Answers) /\ Len(s) = 2 /\ s[1] = a /\ s[2] = b
    BY <2>1, AppendProperties
  <2> HIDE DEF s, t
  <2>4. s = t
    BY <2>2, <2>3, SeqEqual DEF t
  <2> QED
    BY <2>4 DEF s, t
<1> QED
  BY <1>1

LEMMA Triple ==
  ASSUME NEW a \in Answers, NEW b \in Answers, NEW c \in Answers
  PROVE  Append(<<a, b>>, c) = <<a, b, c>>
<1>1. Append(<<a, b>>, c) = <<a, b, c>>
  <2>1. <<a, b>> \in Seq(Answers) /\ Len(<<a, b>>) = 2 /\ <<a, b>>[1] = a /\ <<a, b>>[2] = b
    OBVIOUS
  <2>2. /\ <<a, b, c>> \in Seq(Answers) /\ Len(<<a, b, c>>) = 3
        /\ <<a, b, c>>[1] = a /\ <<a, b, c>>[2] = b /\ <<a, b, c>>[3] = c
    OBVIOUS
  <2> DEFINE s == Append(<<a, b>>, c)  t == <<a, b, c>>
  <2>3. s \in Seq(Answers) /\ Len(s) = 3 /\ s[1] = a /\ s[2] = b /\ s[3] = c
    BY <2>1, AppendProperties
  <2> HIDE DEF s, t
  <2>4. s = t
    BY <2>2, <2>3, SeqEqual DEF t
  <2> QED
    BY <2>4 DEF s, t
<1> QED
  BY <1>1

(* An answer of three bytes, and of fewer, after anything.                  *)
LEMMA AnswerOfOne ==
  ASSUME ctr \in Seq(Answers), NEW d \in {Ack, Nak}, AnswerWith(<<d>>)
  PROVE  ctr' = <<d>>
<1> DEFINE bs == <<d>>
<1>1. bs \in Seq(Answers) /\ Len(bs) = 1 /\ bs[1] = d
  BY AnswerBytes
<1> HIDE DEF bs
<1>2. PICK f : Answering(f, bs)
  BY <1>1, AnswerStep DEF bs
<1>3. ctr' = f[1] /\ f[1] = keyboard_ctrl(f[0], d) /\ f[0] = ctr
  BY <1>1, <1>2 DEF Answering
<1> QED
  BY <1>3, CtrlStarts

LEMMA AnswerOfTwo ==
  ASSUME ctr \in Seq(Answers), NEW d \in {Ack, Nak},
         NEW x \in Answers, x \notin {Ack, Nak}, AnswerWith(<<d, x>>)
  PROVE  ctr' = <<d, x>>
<1> DEFINE bs == <<d, x>>
<1>1. bs \in Seq(Answers) /\ Len(bs) = 2 /\ bs[1] = d /\ bs[2] = x
  BY AnswerBytes
<1> HIDE DEF bs
<1>2. PICK f : Answering(f, bs)
  BY <1>1, AnswerStep DEF bs
<1>3. /\ ctr' = f[2] /\ f[0] = ctr
      /\ f[1] = keyboard_ctrl(f[0], d) /\ f[2] = keyboard_ctrl(f[1], x)
  BY <1>1, <1>2 DEF Answering
<1>4. f[1] = <<d>> /\ <<d>> \in Seq(Answers) /\ Len(<<d>>) < 3
  BY <1>3, CtrlStarts, AnswerBytes
<1>5. f[2] = Append(<<d>>, x)
  BY <1>3, <1>4, CtrlAppends
<1> QED
  BY <1>3, <1>5, AnswerBytes, Pair

LEMMA AnswerOfThree ==
  ASSUME ctr \in Seq(Answers), NEW d \in {Ack, Nak},
         NEW x \in Answers, x \notin {Ack, Nak}, NEW y \in Answers, y \notin {Ack, Nak},
         AnswerWith(<<d, x, y>>)
  PROVE  ctr' = <<d, x, y>>
<1> DEFINE bs == <<d, x, y>>
<1>1. bs \in Seq(Answers) /\ Len(bs) = 3 /\ bs[1] = d /\ bs[2] = x /\ bs[3] = y
  BY AnswerBytes
<1> HIDE DEF bs
<1>2. PICK f : Answering(f, bs)
  BY <1>1, AnswerStep DEF bs
<1>3. /\ ctr' = f[3] /\ f[0] = ctr
      /\ f[1] = keyboard_ctrl(f[0], d) /\ f[2] = keyboard_ctrl(f[1], x)
      /\ f[3] = keyboard_ctrl(f[2], y)
  BY <1>1, <1>2 DEF Answering
<1>4. f[1] = <<d>> /\ <<d>> \in Seq(Answers) /\ Len(<<d>>) < 3
  BY <1>3, CtrlStarts, AnswerBytes
<1>5. f[2] = <<d, x>>
  <2>1. f[2] = Append(<<d>>, x)
    BY <1>3, <1>4, CtrlAppends
  <2> QED
    BY <2>1, AnswerBytes, Pair
<1>6. <<d, x>> \in Seq(Answers) /\ Len(<<d, x>>) < 3
  BY AnswerBytes
<1>7. f[3] = Append(<<d, x>>, y)
  BY <1>3, <1>5, <1>6, CtrlAppends
<1> QED
  BY <1>3, <1>7, AnswerBytes, Triple

(* An answer takes the place of what was left of the one before.            *)
LEMMA AnswerReplaces ==
  ASSUME ctr \in Seq(Answers), NEW bs \in Replies, AnswerWith(bs)
  PROVE  ctr' = bs /\ reply' = bs /\ running' = TRUE /\ bs \in Seq(Answers)
<1> DEFINE id1 == <<"id1">>  id2 == <<"id2">>  led == <<"led">>
<1>1. /\ Ack \in Answers /\ Nak \in Answers
      /\ id1 \in Answers /\ id2 \in Answers /\ led \in Answers
      /\ id1 \notin {Ack, Nak} /\ id2 \notin {Ack, Nak} /\ led \notin {Ack, Nak}
  BY AnswerBytes
<1>2. reply' = bs /\ running' = TRUE
  BY DEF AnswerWith
<1>3. bs \in {<<Ack>>, <<Nak>>, <<Ack, led>>, <<Ack, id1, id2>>}
  BY DEF Replies
<1> HIDE DEF id1, id2, led
<1>4. ASSUME NEW d \in {Ack, Nak}, bs = <<d>>
      PROVE  ctr' = bs /\ bs \in Seq(Answers)
  BY <1>1, <1>4, AnswerOfOne
<1>5. CASE bs = <<Ack, led>>
  BY <1>1, <1>2, <1>5, AnswerOfTwo
<1>6. CASE bs = <<Ack, id1, id2>>
  BY <1>1, <1>2, <1>6, AnswerOfThree
<1> QED
  BY <1>2, <1>3, <1>4, <1>5, <1>6

(* What a command or its parameter does to the answer.                      *)
LEMMA CommandAnswers ==
  ASSUME ctr \in Seq(Answers), keystat_ctrlsend
  PROVE  \/ UNCHANGED <<ctr, running, reply>>
         \/ /\ ctr' = reply' /\ running' = TRUE /\ reply' \in Replies
            /\ reply' \in Seq(Answers)
<1>1. ASSUME NEW c \in Commands, Command(c)
      PROVE  \E bs \in Replies : AnswerWith(bs)
  BY <1>1 DEF Command, Replies
<1>2. ASSUME RepeatParameter
      PROVE  \E bs \in Replies : AnswerWith(bs)
  BY <1>2 DEF RepeatParameter, Replies
<1>3. ASSUME LampParameter
      PROVE  UNCHANGED <<ctr, running, reply>> \/ \E bs \in Replies : AnswerWith(bs)
  BY <1>3 DEF LampParameter, Replies
<1>4. UNCHANGED <<ctr, running, reply>> \/ \E bs \in Replies : AnswerWith(bs)
  BY <1>1, <1>2, <1>3 DEF keystat_ctrlsend
<1> QED
  BY <1>4, AnswerReplaces

-----------------------------------------------------------------------------
(* Types.                                                                   *)

KeysOK ==
  /\ ref \in [Keys -> Hosts \cup {LED, NC}]
  /\ lockref \in [Locks -> Hosts \cup {LED, NC}]
  /\ keyrep \in BOOLEAN /\ repeat \in BOOLEAN
  /\ param \in {"none", "9c", "9d"}
  /\ rep \in Seq(Repeating) /\ Len(rep) <= RepeatMax

LineOK ==
  /\ ctr \in Seq(Answers) /\ Len(ctr) <= KB_CTR
  /\ data \in Byte \cup Answers \cup {None}
  /\ cmd \in [tx : BOOLEAN, reset : BOOLEAN]
  /\ full \in BOOLEAN /\ running \in BOOLEAN /\ irq \in BOOLEAN

HistoryOK ==
  /\ pressed \subseteq Keys
  /\ lost \in BOOLEAN /\ missing \in BOOLEAN
  /\ reply \in Seq(Answers)

LEMMA TypeParts == TypeOK <=> KeysOK /\ RingOK /\ LineOK /\ HistoryOK
BY DEF TypeOK, KeysOK, RingOK, LineOK, HistoryOK, Stored

LEMMA TypePartsNext == KeysOK' /\ RingOK' /\ LineOK' /\ HistoryOK' => TypeOK'
BY DEF TypeOK, KeysOK, RingOK, LineOK, HistoryOK, Stored

LEMMA TypesInit == Init => TypeOK
<1> SUFFICES ASSUME Init PROVE TypeOK
  OBVIOUS
<1>1. KeysOK
  BY Sizes DEF Init, KeysOK
<1>2. RingOK
  BY Sizes DEF Init, RingOK, Stored
<1>3. LineOK
  <2>1. ctr \in Seq(Answers) /\ Len(ctr) = 0
    BY EmptySeq DEF Init
  <2>2. /\ data = None /\ full = FALSE /\ running = FALSE /\ irq = FALSE
        /\ cmd = [tx |-> FALSE, reset |-> FALSE]
    BY DEF Init
  <2>3. Len(ctr) <= KB_CTR
    BY <2>1, Sizes
  <2>4. cmd \in [tx : BOOLEAN, reset : BOOLEAN]
    BY <2>2
  <2> QED
    BY <2>1, <2>2, <2>3, <2>4 DEF LineOK
<1>4. HistoryOK
  <2>1. reply \in Seq(Answers)
    BY EmptySeq DEF Init
  <2> QED
    BY <2>1 DEF Init, HistoryOK
<1> QED
  BY <1>1, <1>2, <1>3, <1>4, TypeParts

LEMMA ByteType ==
  ASSUME NEW k \in Keys
  PROVE  /\ Make(k) \in Byte /\ Break(k) \in Byte
         /\ <<Make(k)>> \in Seq(Byte) /\ <<Break(k)>> \in Seq(Byte)
         /\ <<Break(k), Make(k)>> \in Seq(Byte)
<1>1. Make(k) \in Byte /\ Break(k) \in Byte
  BY DEF Make, Break, Byte
<1> QED
  BY <1>1

LEMMA KeyAssumptions ==
  /\ Repeating \subseteq Keys /\ Locks \subseteq Shifts /\ Shifts \subseteq Keys
  /\ Repeating \cap Shifts = {} /\ NC \notin Hosts /\ NC # LED
  /\ \A h \in Hosts : KeyOf[h] \in Keys
  /\ Codes \in Seq(Keys) /\ Range(Codes) = Keys
BY KeysAssumption DEF Keys

(* What sends bytes keeps the types of what it changes.                     *)
Sends == \E bs \in Seq(Byte) : keyboard_send(bs)

LEMMA SendTypes ==
  ASSUME RingOK, running \in BOOLEAN, lost \in BOOLEAN, Sends
  PROVE  RingOK' /\ running' \in BOOLEAN /\ lost' \in BOOLEAN
<1>1. PICK bs \in Seq(Byte) : keyboard_send(bs)
  BY DEF Sends
<1>2. RingOK'
  BY <1>1, SendStores
<1>3. running' \in BOOLEAN /\ lost' \in BOOLEAN
  BY <1>1 DEF keyboard_send
<1> QED
  BY <1>2, <1>3

LEMMA ReleasedType ==
  ASSUME NEW r \in Seq(Repeating), Len(r) <= RepeatMax, NEW k
  PROVE  /\ Released(r, k) \in Seq(Repeating) /\ Len(Released(r, k)) <= RepeatMax
         /\ Tracked(k) => \A i \in 1 .. Len(Released(r, k)) : Released(r, k)[i] # k
         /\ \A i \in 1 .. Len(Released(r, k)) :
              \E j \in 1 .. Len(r) : Released(r, k)[i] = r[j]
<1> DEFINE q == Filter(r, Keys \ {k})
<1>1. /\ q \in Seq(Repeating) /\ Len(q) <= Len(r)
      /\ \A i \in 1 .. Len(q) : \E j \in 1 .. Len(r) : q[i] = r[j] /\ r[j] \in Keys \ {k}
  BY FilterProperties
<1>2. Released(r, k) = IF Tracked(k) THEN q ELSE r
  BY DEF Released
<1> HIDE DEF q
<1>3. Len(r) \in Nat /\ Len(q) \in Nat
  BY <1>1, LenProperties
<1>4. CASE Tracked(k)
  BY <1>1, <1>2, <1>3, <1>4, Sizes
<1>5. CASE ~Tracked(k)
  BY <1>2, <1>5
<1> QED
  BY <1>4, <1>5

LEMMA SendMakeTypes ==
  ASSUME NEW before \in Seq(Byte), NEW r \in Seq(Repeating), Len(r) <= RepeatMax,
         NEW k \in Keys, missing \in BOOLEAN, SendMake(before, r, k)
  PROVE  /\ Sends
         /\ rep' \in Seq(Repeating) /\ Len(rep') <= RepeatMax
         /\ missing' \in BOOLEAN
<1>1. before \o (IF Takes(r, k) THEN <<Make(k)>> ELSE <<>>) \in Seq(Byte)
  BY ByteType, ConcatProperties, EmptySeq
<1>2. Sends
  BY <1>1 DEF SendMake, Sends
<1>3. rep' = IF Tracked(k) /\ Takes(r, k) THEN Append(r, k) ELSE r
  BY DEF SendMake
<1>4. CASE Tracked(k) /\ Takes(r, k)
  <2>1. k \in Repeating /\ Len(r) < RepeatMax /\ Len(r) \in Nat
    BY <1>4, LenProperties DEF Tracked, Takes
  <2>2. rep' \in Seq(Repeating) /\ Len(rep') = Len(r) + 1
    BY <1>3, <1>4, <2>1, AppendProperties
  <2> QED
    BY <1>2, <2>1, <2>2, Sizes DEF SendMake
<1>5. CASE ~(Tracked(k) /\ Takes(r, k))
  BY <1>2, <1>3, <1>5 DEF SendMake
<1> QED
  BY <1>4, <1>5

LEMMA ReloadedType ==
  ASSUME reloadled, ref' \in [Keys -> Hosts \cup {LED, NC}]
  PROVE  lockref' \in [Locks -> Hosts \cup {LED, NC}]
BY KeyAssumptions DEF reloadled

(* What a press or a release may do, with the bytes it sends.               *)
LEMMA KeyTypes ==
  ASSUME TypeOK, NEW h \in Hosts, keystat_down(h) \/ keystat_up(h)
  PROVE  /\ ref' \in [Keys -> Hosts \cup {LED, NC}]
         /\ rep' \in Seq(Repeating) /\ Len(rep') <= RepeatMax /\ missing' \in BOOLEAN
         /\ Sends \/ UNCHANGED <<ring, running, lost>>
<1> DEFINE k == KeyOf[h]
<1>1. /\ k \in Keys /\ KeysOK /\ missing \in BOOLEAN
      /\ rep \in Seq(Repeating) /\ Len(rep) <= RepeatMax
      /\ ref \in [Keys -> Hosts \cup {LED, NC}]
  BY KeyAssumptions, TypeParts DEF KeysOK, HistoryOK
<1>2. /\ \/ SendNothing \/ SendBreak(k) \/ SendMake(<<>>, rep, k)
         \/ SendMake(<<Break(k)>>, Released(rep, k), k)
      /\ \/ UNCHANGED ref \/ ref' = [ref EXCEPT ![k] = h] \/ ref' = [ref EXCEPT ![k] = NC]
  <2>1. CASE keystat_down(h)
    BY <2>1 DEF keystat_down
  <2>2. CASE keystat_up(h)
    BY <2>2 DEF keystat_up
  <2> QED
    BY <2>1, <2>2
<1> HIDE DEF k
<1>3. ref' \in [Keys -> Hosts \cup {LED, NC}]
  BY <1>1, <1>2
<1>4. CASE SendNothing
  BY <1>1, <1>3, <1>4 DEF SendNothing
<1>5. CASE SendBreak(k)
  <2>1. Sends
    BY <1>1, <1>5, ByteType DEF SendBreak, Sends
  <2>2. rep' \in Seq(Repeating) /\ Len(rep') <= RepeatMax /\ missing' \in BOOLEAN
    BY <1>1, <1>5, ReleasedType DEF SendBreak
  <2> QED
    BY <1>3, <2>1, <2>2
<1>6. CASE SendMake(<<>>, rep, k)
  <2>1. <<>> \in Seq(Byte)
    BY EmptySeq
  <2> QED
    BY <1>1, <1>3, <1>6, <2>1, SendMakeTypes
<1>7. CASE SendMake(<<Break(k)>>, Released(rep, k), k)
  <2>1. <<Break(k)>> \in Seq(Byte)
    BY <1>1, ByteType
  <2>2. Released(rep, k) \in Seq(Repeating) /\ Len(Released(rep, k)) <= RepeatMax
    BY <1>1, ReleasedType
  <2> QED
    BY <1>1, <1>3, <1>7, <2>1, <2>2, SendMakeTypes
<1> QED
  BY <1>2, <1>4, <1>5, <1>6, <1>7

LEMMA KeyStep ==
  ASSUME TypeOK, NEW h \in Hosts, keystat_down(h) \/ keystat_up(h)
  PROVE  TypeOK'
<1>1. KeysOK /\ RingOK /\ LineOK /\ HistoryOK
  BY TypeParts
<1>2. /\ ref' \in [Keys -> Hosts \cup {LED, NC}]
      /\ rep' \in Seq(Repeating) /\ Len(rep') <= RepeatMax /\ missing' \in BOOLEAN
      /\ Sends \/ UNCHANGED <<ring, running, lost>>
  BY KeyTypes
<1>3. /\ reloadled
      /\ UNCHANGED <<keyrep, param, repeat, ctr, data, full, cmd, irq, pressed, reply>>
  BY DEF keystat_down, keystat_up
<1>4. RingOK' /\ running' \in BOOLEAN /\ lost' \in BOOLEAN
  <2>1. running \in BOOLEAN /\ lost \in BOOLEAN
    BY <1>1 DEF LineOK, HistoryOK
  <2>2. CASE Sends
    BY <1>1, <2>1, <2>2, SendTypes
  <2>3. CASE UNCHANGED <<ring, running, lost>>
    BY <1>1, <2>1, <2>3 DEF ring, RingOK
  <2> QED
    BY <1>2, <2>2, <2>3
<1>5. KeysOK'
  <2>1. lockref' \in [Locks -> Hosts \cup {LED, NC}]
    BY <1>2, <1>3, ReloadedType
  <2> QED
    BY <1>1, <1>2, <1>3, <2>1 DEF KeysOK
<1>6. LineOK'
  BY <1>1, <1>3, <1>4 DEF LineOK
<1>7. HistoryOK'
  BY <1>1, <1>2, <1>3, <1>4 DEF HistoryOK
<1> QED
  BY <1>4, <1>5, <1>6, <1>7, TypePartsNext

LEMMA ReleaseTypes ==
  ASSUME TypeOK, keystat_allrelease
  PROVE  TypeOK'
<1>1. KeysOK /\ RingOK /\ LineOK /\ HistoryOK
  BY TypeParts
<1> DEFINE ks == Filter(Codes, Held(ref) \ Locks)
<1>2. ks \in Seq(Keys)
  BY KeyAssumptions, FilterProperties
<1>3. /\ ref' = [k \in Keys |-> IF k \in Locks THEN ref[k] ELSE NC]
      /\ keyboard_send([i \in 1 .. Len(ks) |-> Break(ks[i])])
      /\ rep' = IF repeat THEN Filter(rep, Keys \ Range(ks)) ELSE rep
      /\ UNCHANGED <<lockref, keyrep, param, repeat, ctr, data, full, cmd, irq,
                     pressed, missing, reply>>
  BY DEF keystat_allrelease
<1> HIDE DEF ks
<1>4. [i \in 1 .. Len(ks) |-> Break(ks[i])] \in Seq(Byte)
  BY <1>2, LenProperties, ElementOfSeq, ByteType
<1>5. RingOK' /\ running' \in BOOLEAN /\ lost' \in BOOLEAN
  <2>1. Sends
    BY <1>3, <1>4 DEF Sends
  <2> QED
    BY <1>1, <2>1, SendTypes DEF LineOK, HistoryOK
<1>6. rep' \in Seq(Repeating) /\ Len(rep') <= RepeatMax
  <2> DEFINE q == Filter(rep, Keys \ Range(ks))
  <2>1. rep \in Seq(Repeating) /\ Len(rep) <= RepeatMax /\ Len(rep) \in Nat
    BY <1>1, LenProperties DEF KeysOK
  <2>2. q \in Seq(Repeating) /\ Len(q) <= Len(rep) /\ Len(q) \in Nat
    BY <2>1, FilterProperties, LenProperties
  <2>3. rep' = q \/ rep' = rep
    BY <1>3
  <2> HIDE DEF q
  <2> QED
    BY <2>1, <2>2, <2>3, Sizes
<1>7. KeysOK'
  <2>1. ref' \in [Keys -> Hosts \cup {LED, NC}]
    BY <1>1, <1>3 DEF KeysOK
  <2> QED
    BY <1>1, <1>3, <1>6, <2>1 DEF KeysOK
<1>8. LineOK'
  BY <1>1, <1>3, <1>5 DEF LineOK
<1>9. HistoryOK'
  BY <1>1, <1>3, <1>5 DEF HistoryOK
<1> QED
  BY <1>5, <1>7, <1>8, <1>9, TypePartsNext

LEMMA LastHeld ==
  ASSUME TypeOK, rep # <<>>
  PROVE  Last(rep) \in Keys /\ Last(rep) \in Range(rep) /\ Last(rep) \in Repeating
<1>1. rep \in Seq(Repeating)
  BY DEF TypeOK
<1>2. Len(rep) \in 1 .. Len(rep) /\ DOMAIN rep = 1 .. Len(rep)
  BY <1>1, LenProperties, EmptySeq
<1>3. Last(rep) \in Repeating
  BY <1>1, <1>2, ElementOfSeq DEF Last
<1>4. Last(rep) \in Range(rep)
  BY <1>2 DEF Last, Range
<1> QED
  BY <1>3, <1>4, KeyAssumptions

LEMMA RepeatTypes ==
  ASSUME TypeOK, keyrepeat_proc
  PROVE  TypeOK'
<1>1. KeysOK /\ RingOK /\ LineOK /\ HistoryOK
  BY TypeParts
<1>2. Last(rep) \in Keys
  BY LastHeld DEF keyrepeat_proc
<1>3. Sends
  BY <1>2, ByteType DEF keyrepeat_proc, Sends
<1>4. RingOK' /\ running' \in BOOLEAN /\ lost' \in BOOLEAN
  BY <1>1, <1>3, SendTypes DEF LineOK, HistoryOK
<1>5. UNCHANGED <<keystat, ctr, data, full, cmd, irq, pressed, missing, reply>>
  BY DEF keyrepeat_proc
<1>6. KeysOK' /\ LineOK' /\ HistoryOK'
  BY <1>1, <1>4, <1>5 DEF KeysOK, LineOK, HistoryOK, keystat
<1> QED
  BY <1>4, <1>6, TypePartsNext

LEMMA LocksRestored ==
  ASSUME KeysOK, ref' = [k \in Keys |-> IF k \in Locks THEN lockref[k] ELSE ref[k]]
  PROVE  ref' \in [Keys -> Hosts \cup {LED, NC}]
BY DEF KeysOK

(* The keys of S in the order of their codes.                               *)
LEMMA CodesOf ==
  ASSUME NEW S \in SUBSET Keys
  PROVE  /\ Filter(Codes, S) \in Seq(Keys) /\ Len(Filter(Codes, S)) <= Len(Codes)
         /\ Range(Filter(Codes, S)) = S
<1> DEFINE q == Filter(Codes, S)
<1>1. /\ q \in Seq(Keys) /\ Len(q) <= Len(Codes)
      /\ \A i \in 1 .. Len(q) : \E j \in 1 .. Len(Codes) : q[i] = Codes[j] /\ Codes[j] \in S
      /\ \A j \in 1 .. Len(Codes) : Codes[j] \in S => \E i \in 1 .. Len(q) : q[i] = Codes[j]
  BY KeyAssumptions, FilterProperties
<1> HIDE DEF q
<1>2. Range(q) = {q[i] : i \in 1 .. Len(q)}
  BY <1>1, LenProperties DEF Range
<1>3. \A k \in S : \E j \in 1 .. Len(Codes) : k = Codes[j]
  BY KeyAssumptions, LenProperties DEF Range
<1>4. ASSUME NEW k \in S PROVE k \in Range(q)
  <2>1. PICK j \in 1 .. Len(Codes) : k = Codes[j]
    BY <1>3
  <2>2. PICK i \in 1 .. Len(q) : q[i] = Codes[j]
    BY <1>1, <2>1
  <2> QED
    BY <1>2, <2>1, <2>2
<1>5. \A k \in Range(q) : k \in S
  BY <1>1, <1>2
<1> QED
  BY <1>1, <1>4, <1>5 DEF q

(* What a reset of the keyboard sends: a make code for every key held.      *)
LEMMA ResentType ==
  /\ Resent \in Seq(Keys) /\ Len(Resent) \in 0 .. Len(Codes)
  /\ Range(Resent) = Held(ref')
<1> DEFINE S == Held(ref')
<1>1. S \in SUBSET Keys
  BY DEF Held
<1>2. Resent = Filter(Codes, S)
  BY DEF Resent
<1> HIDE DEF S
<1>3. Resent \in Seq(Keys) /\ Len(Resent) <= Len(Codes) /\ Range(Resent) = S
  BY <1>1, <1>2, CodesOf
<1> QED
  BY <1>3, Sizes, LenProperties DEF S

(* The reset leaves just those bytes in the ring.                           *)
LEMMA ResetRing ==
  ASSUME RingOK, keyboard_resetsignal
  PROVE  /\ RingOK'
         /\ Pending' = [i \in 1 .. Len(Resent) |-> Make(Resent[i])]
<1> DEFINE n == Len(Resent)
<1>1. /\ n \in Nat /\ n <= KB_BUF /\ KB_BUF \in Nat
      /\ \A i \in 1 .. n : Resent[i] \in Keys
  BY ResentType, Sizes, ElementOfSeq
<1>2. /\ buffers' = n /\ bufpos' = bufpos
      /\ buf' = [i \in 0 .. KB_BUF - 1 |->
                   IF \E j \in 1 .. n : i = Place(j - 1)
                   THEN Make(Resent[CHOOSE j \in 1 .. n : i = Place(j - 1)])
                   ELSE None]
  BY DEF keyboard_resetsignal
<1> HIDE DEF n
<1>3. \A j \in 1 .. n : j - 1 \in 0 .. KB_BUF - 1
  BY <1>1
<1>4. ASSUME NEW j \in 1 .. n PROVE buf'[Place(j - 1)] = Make(Resent[j])
  <2>1. Place(j - 1) \in 0 .. KB_BUF - 1
    BY <1>3, PlacesDiffer
  <2>2. ASSUME NEW x \in 1 .. n, Place(j - 1) = Place(x - 1) PROVE x = j
    <3>1. j - 1 = x - 1
      BY <1>3, <2>2, PlacesDiffer
    <3> QED
      BY <1>1, <3>1
  <2>3. (CHOOSE x \in 1 .. n : Place(j - 1) = Place(x - 1)) = j
    BY <2>2
  <2> QED
    BY <1>2, <2>1, <2>3
<1>5. buf' \in [0 .. KB_BUF - 1 -> Stored]
  <2>1. ASSUME NEW i \in 0 .. KB_BUF - 1 PROVE buf'[i] \in Stored
    <3>1. CASE \E j \in 1 .. n : i = Place(j - 1)
      BY <1>1, <1>4, <3>1, ByteType DEF Stored
    <3>2. CASE ~\E j \in 1 .. n : i = Place(j - 1)
      BY <1>2, <3>2 DEF Stored
    <3> QED
      BY <3>1, <3>2
  <2> QED
    BY <1>2, <2>1
<1>6. RingOK'
  <2>1. buffers' \in 0 .. KB_BUF
    BY <1>1, <1>2
  <2>2. bufpos' \in 0 .. KB_BUF - 1
    BY <1>2 DEF RingOK
  <2> QED
    BY <1>5, <2>1, <2>2 DEF RingOK
<1>7. Pending' = [i \in 1 .. n |-> buf'[Place(i - 1)]]
  BY <1>2 DEF Pending, Place
<1> QED
  BY <1>4, <1>6, <1>7 DEF n

LEMMA ResetSignalTypes ==
  ASSUME TypeOK, keyboard_resetsignal, cmd' \in [tx : BOOLEAN, reset : BOOLEAN]
  PROVE  TypeOK'
<1>1. KeysOK /\ RingOK /\ LineOK /\ HistoryOK
  BY TypeParts
<1>2. RingOK'
  BY <1>1, ResetRing
<1>3. /\ ctr' = <<>> /\ full' = FALSE /\ param' = "none" /\ rep' = <<>>
      /\ ref' = [k \in Keys |-> IF k \in Locks THEN lockref[k] ELSE ref[k]]
      /\ running' \in BOOLEAN
      /\ pressed' = {} /\ lost' = FALSE /\ missing' = FALSE
      /\ UNCHANGED <<lockref, keyrep, repeat, bufpos, data, irq, reply>>
  BY DEF keyboard_resetsignal
<1>4. /\ ctr' \in Seq(Answers) /\ Len(ctr') = 0
      /\ rep' \in Seq(Repeating) /\ Len(rep') = 0
  BY <1>3, EmptySeq
<1>5. KeysOK'
  <2>1. ref' \in [Keys -> Hosts \cup {LED, NC}]
    BY <1>1, <1>3, LocksRestored
  <2> QED
    BY <1>1, <1>3, <1>4, <2>1, Sizes DEF KeysOK
<1>6. LineOK'
  <2>1. Len(ctr') <= KB_CTR
    BY <1>4, Sizes
  <2> QED
    BY <1>1, <1>3, <1>4, <2>1 DEF LineOK
<1>7. HistoryOK'
  BY <1>1, <1>3 DEF HistoryOK
<1> QED
  BY <1>2, <1>5, <1>6, <1>7, TypePartsNext

LEMMA PccoreResetTypes ==
  ASSUME TypeOK, pccore_reset
  PROVE  TypeOK'
<1>1. KeysOK /\ RingOK /\ LineOK /\ HistoryOK
  BY TypeParts
<1>2. /\ buf' = [i \in 0 .. KB_BUF - 1 |-> None] /\ bufpos' = 0 /\ buffers' = 0
      /\ ctr' = <<>> /\ data' = None /\ full' = FALSE
      /\ cmd' = [tx |-> FALSE, reset |-> FALSE]
      /\ running' = FALSE /\ irq' = FALSE /\ param' = "none"
      /\ ref' = [k \in Keys |-> IF k \in Locks THEN lockref[k] ELSE ref[k]]
      /\ pressed' = {} /\ lost' = FALSE /\ missing' \in BOOLEAN
      /\ UNCHANGED <<lockref, keyrep, repeat, rep, reply>>
  BY DEF pccore_reset
<1>3. RingOK'
  BY <1>2, Sizes DEF RingOK, Stored
<1>4. KeysOK'
  <2>1. ref' \in [Keys -> Hosts \cup {LED, NC}]
    BY <1>1, <1>2, LocksRestored
  <2> QED
    BY <1>1, <1>2, <2>1 DEF KeysOK
<1>5. LineOK'
  <2>1. ctr' \in Seq(Answers) /\ Len(ctr') = 0
    BY <1>2, EmptySeq
  <2> QED
    BY <1>2, <2>1, Sizes DEF LineOK
<1>6. HistoryOK'
  BY <1>1, <1>2 DEF HistoryOK
<1> QED
  BY <1>3, <1>4, <1>5, <1>6, TypePartsNext

(* The byte that is read next leaves the ring.                              *)
LEMMA CallbackRing ==
  ASSUME RingOK, buffers # 0,
         buffers' = buffers - 1, bufpos' = Place(1), buf' = [buf EXCEPT ![bufpos] = None]
  PROVE  /\ RingOK'
         /\ buf[bufpos] \in Stored
         /\ Pending # <<>> /\ buf[bufpos] = Head(Pending) /\ Pending' = Tail(Pending)
<1>1. /\ KB_BUF \in Nat /\ bufpos \in Nat /\ bufpos < KB_BUF
      /\ buffers \in Nat /\ buffers > 0 /\ buffers <= KB_BUF
      /\ buf \in [0 .. KB_BUF - 1 -> Stored]
  BY Sizes DEF RingOK
<1>2. /\ Pending \in Seq(Stored) /\ Len(Pending) = buffers
      /\ \A i \in 1 .. buffers : Pending[i] = buf[Place(i - 1)]
  BY PendingType
<1>3. bufpos' \in 0 .. KB_BUF - 1
  <2>1. CASE KB_BUF = 1
    <3>1. bufpos = 0 /\ Place(1) = 1 % 1
      BY <1>1, <2>1 DEF Place
    <3> QED
      BY <2>1, <3>1
  <2>2. CASE KB_BUF > 1
    BY <1>1, <2>2, PlacesDiffer
  <2> QED
    BY <1>1, <2>1, <2>2
<1>4. RingOK'
  <2>1. buffers' \in 0 .. KB_BUF
    BY <1>1
  <2>2. buf' \in [0 .. KB_BUF - 1 -> Stored]
    BY <1>1 DEF Stored
  <2> QED
    BY <1>3, <2>1, <2>2 DEF RingOK
<1>5. Place(0) = bufpos
  BY <1>1, PlaceIs
<1>6. Pending # <<>> /\ buf[bufpos] = Head(Pending)
  <2>1. Pending # <<>>
    BY <1>1, <1>2, EmptySeq
  <2>2. Head(Pending) = Pending[1]
    BY <1>2, <2>1
  <2>3. Pending[1] = buf[Place(1 - 1)]
    BY <1>1, <1>2
  <2> QED
    BY <1>5, <2>1, <2>2, <2>3
<1>7. ASSUME NEW i \in 1 .. buffers - 1
      PROVE  buf'[(bufpos' + (i - 1)) % KB_BUF] = Pending[i + 1]
  <2>1. 1 \in 0 .. KB_BUF - 1 /\ i \in 0 .. KB_BUF - 1 /\ 0 \in 0 .. KB_BUF - 1
    BY <1>1
  <2>2. /\ bufpos' = IF bufpos + 1 < KB_BUF THEN bufpos + 1 ELSE bufpos + 1 - KB_BUF
        /\ Place(i) = IF bufpos + i < KB_BUF THEN bufpos + i ELSE bufpos + i - KB_BUF
    BY <2>1, PlaceIs
  <2>3. (bufpos' + (i - 1)) % KB_BUF = Place(i)
    <3>1. CASE bufpos + 1 < KB_BUF
      <4>1. bufpos' + (i - 1) = bufpos + i
        BY <1>1, <2>2, <3>1
      <4> QED
        BY <4>1 DEF Place
    <3>2. CASE ~(bufpos + 1 < KB_BUF)
      <4>1. bufpos' + (i - 1) = i - 1 /\ Place(i) = i - 1 /\ i - 1 \in Nat /\ i - 1 < KB_BUF
        BY <1>1, <2>1, <2>2, <3>2
      <4> QED
        BY <1>1, <4>1, Remainder
    <3> QED
      BY <3>1, <3>2
  <2>4. Place(i) # bufpos /\ Place(i) \in 0 .. KB_BUF - 1
    BY <1>5, <2>1, PlacesDiffer
  <2>5. buf'[Place(i)] = buf[Place(i)]
    BY <1>1, <2>4
  <2>6. Pending[i + 1] = buf[Place((i + 1) - 1)] /\ (i + 1) - 1 = i
    BY <1>1, <1>2
  <2> QED
    BY <2>3, <2>5, <2>6
<1>8. Pending' = Tail(Pending)
  <2> DEFINE t == Tail(Pending)
  <2>1. /\ t \in Seq(Stored) /\ Len(t) = buffers - 1
        /\ \A i \in 1 .. buffers - 1 : t[i] = Pending[i + 1]
    BY <1>2, <1>6, HeadTailProperties
  <2>2. Pending' = [i \in 1 .. buffers - 1 |-> buf'[(bufpos' + (i - 1)) % KB_BUF]]
    BY DEF Pending, Place
  <2> HIDE DEF t
  <2>3. \A i \in 1 .. buffers - 1 : Pending'[i] = t[i]
    BY <1>7, <2>1, <2>2
  <2>4. Pending' = [i \in 1 .. buffers - 1 |-> t[i]]
    BY <2>2, <2>3
  <2>5. DOMAIN t = 1 .. buffers - 1 /\ t = [i \in 1 .. buffers - 1 |-> t[i]]
    BY <2>1, LenProperties
  <2> QED
    BY <2>4, <2>5 DEF t
<1> QED
  BY <1>2, <1>4, <1>6, <1>8, HeadTailProperties

LEMMA CallbackTypes ==
  ASSUME TypeOK, keyboard_callback
  PROVE  TypeOK'
<1>1. KeysOK /\ RingOK /\ LineOK /\ HistoryOK
  BY TypeParts
<1>2. UNCHANGED <<keystat, cmd, history>>
  BY DEF keyboard_callback
<1>3. KeysOK' /\ HistoryOK'
  BY <1>1, <1>2 DEF KeysOK, HistoryOK, keystat, history
<1>4. /\ running' \in BOOLEAN /\ irq' \in BOOLEAN /\ full' \in BOOLEAN
  BY <1>1 DEF keyboard_callback, SetAgain, Requested, LineOK
<1>5. CASE UNCHANGED <<ring, ctr, data>>
  BY <1>1, <1>2, <1>3, <1>4, <1>5, TypePartsNext DEF ring, RingOK, LineOK
<1>6. CASE ctr # <<>> /\ data' = Head(ctr) /\ ctr' = Tail(ctr) /\ UNCHANGED ring
  <2>1. /\ data' \in Answers /\ ctr' \in Seq(Answers) /\ Len(ctr') = Len(ctr) - 1
        /\ Len(ctr) \in Nat
    BY <1>1, <1>6, HeadTailProperties, LenProperties DEF LineOK
  <2>2. Len(ctr') <= KB_CTR
    BY <1>1, <2>1, Sizes DEF LineOK
  <2>3. LineOK'
    BY <1>1, <1>2, <1>4, <2>1, <2>2 DEF LineOK
  <2>4. RingOK'
    BY <1>1, <1>6 DEF ring, RingOK
  <2> QED
    BY <1>3, <2>3, <2>4, TypePartsNext
<1>7. CASE /\ buffers # 0 /\ data' = buf[bufpos] /\ buffers' = buffers - 1
           /\ bufpos' = Place(1) /\ buf' = [buf EXCEPT ![bufpos] = None]
           /\ UNCHANGED ctr
  <2>1. RingOK' /\ data' \in Stored
    BY <1>1, <1>7, CallbackRing
  <2>2. LineOK'
    BY <1>1, <1>2, <1>4, <1>7, <2>1 DEF LineOK, Stored
  <2> QED
    BY <1>3, <2>1, <2>2, TypePartsNext
<1> QED
  BY <1>5, <1>6, <1>7 DEF keyboard_callback

LEMMA CommandTypes ==
  ASSUME TypeOK, keystat_ctrlsend
  PROVE  TypeOK'
<1>1. KeysOK /\ RingOK /\ LineOK /\ HistoryOK
  BY TypeParts
<1>2. UNCHANGED <<repeat, rep, ring, data, full, cmd, irq, pressed, lost, missing>>
  BY DEF keystat_ctrlsend
<1>3. /\ ctr' \in Seq(Answers) /\ Len(ctr') <= KB_CTR
      /\ running' \in BOOLEAN /\ reply' \in Seq(Answers)
  <2>1. CASE UNCHANGED <<ctr, running, reply>>
    BY <1>1, <2>1 DEF LineOK, HistoryOK
  <2>2. CASE /\ ctr' = reply' /\ running' = TRUE /\ reply' \in Replies
             /\ reply' \in Seq(Answers)
    <3>1. Len(reply') <= 3 /\ Len(reply') \in Nat
      BY <2>2, ShortReplies, LenProperties
    <3>2. Len(ctr') <= 3 /\ Len(ctr') \in Nat
      BY <2>2, <3>1
    <3> QED
      BY <2>2, <3>2, Sizes
  <2> QED
    BY <1>1, <2>1, <2>2, CommandAnswers DEF LineOK
<1>4. /\ keyrep' \in BOOLEAN /\ param' \in {"none", "9c", "9d"}
      /\ \/ UNCHANGED <<ref, lockref>>
         \/ reloadled /\ ref' \in [Keys -> Hosts \cup {LED, NC}]
  <2>1. ASSUME NEW c \in Commands, Command(c)
        PROVE  UNCHANGED <<ref, lockref, keyrep>> /\ param' \in {"none", "9c", "9d"}
    BY <2>1 DEF Command
  <2>2. ASSUME RepeatParameter
        PROVE  UNCHANGED <<ref, lockref>> /\ keyrep' \in BOOLEAN
    BY <2>2 DEF RepeatParameter
  <2>3. ASSUME LampParameter
        PROVE  /\ UNCHANGED keyrep
               /\ \/ UNCHANGED <<ref, lockref>>
                  \/ reloadled /\ ref' \in [Keys -> Hosts \cup {LED, NC}]
    <3>1. ASSUME NEW on \in [Locks -> {LED, NC}],
                 ref' = [k \in Keys |-> IF k \in Locks THEN on[k] ELSE ref[k]]
          PROVE  ref' \in [Keys -> Hosts \cup {LED, NC}]
      BY <1>1, <3>1 DEF KeysOK
    <3> QED
      BY <2>3, <3>1 DEF LampParameter
  <2> QED
    BY <1>1, <2>1, <2>2, <2>3 DEF keystat_ctrlsend, KeysOK
<1>5. KeysOK'
  <2>1. lockref' \in [Locks -> Hosts \cup {LED, NC}] /\ ref' \in [Keys -> Hosts \cup {LED, NC}]
    BY <1>1, <1>4, ReloadedType DEF KeysOK
  <2> QED
    BY <1>1, <1>2, <1>4, <2>1 DEF KeysOK
<1>6. RingOK'
  BY <1>1, <1>2 DEF ring, RingOK
<1>7. LineOK' /\ HistoryOK'
  BY <1>1, <1>2, <1>3 DEF LineOK, HistoryOK
<1> QED
  BY <1>5, <1>6, <1>7, TypePartsNext

LEMMA ReadTypes ==
  ASSUME TypeOK, keyboard_i41
  PROVE  TypeOK'
<1>1. KeysOK /\ RingOK /\ LineOK /\ HistoryOK
  BY TypeParts
<1>2. pressed' \subseteq Keys
  BY <1>1 DEF keyboard_i41, Taken, HistoryOK
<1>3. KeysOK' /\ RingOK'
  BY <1>1 DEF keyboard_i41, keystat, ring, KeysOK, RingOK
<1>4. LineOK' /\ HistoryOK'
  BY <1>1, <1>2 DEF keyboard_i41, LineOK, HistoryOK
<1> QED
  BY <1>3, <1>4, TypePartsNext

LEMMA SettingTypes ==
  ASSUME TypeOK, SetKeyRepeat
  PROVE  TypeOK'
<1>1. KeysOK /\ RingOK /\ LineOK /\ HistoryOK
  BY TypeParts
<1>2. repeat' \in BOOLEAN
  BY KeysAssumption DEF SetKeyRepeat
<1>3. UNCHANGED <<ref, lockref, keyrep, param, rep, keybrd, running, irq, history>>
  BY DEF SetKeyRepeat
<1>4. KeysOK' /\ RingOK' /\ LineOK' /\ HistoryOK'
  BY <1>1, <1>2, <1>3 DEF keybrd, ring, history, KeysOK, RingOK, LineOK, HistoryOK
<1> QED
  BY <1>4, TypePartsNext

LEMMA ControlTypes ==
  ASSUME TypeOK, NEW dat \in Controls, keyboard_o43(dat)
  PROVE  TypeOK'
<1>1. KeysOK /\ RingOK /\ LineOK /\ HistoryOK
  BY TypeParts
<1>2. cmd' \in [tx : BOOLEAN, reset : BOOLEAN]
  BY KeysAssumption DEF keyboard_o43
<1>3. CASE keyboard_resetsignal
  BY <1>2, <1>3, ResetSignalTypes
<1>4. CASE UNCHANGED <<keystat, ring, ctr, data, full, running, irq, history>>
  <2>1. KeysOK' /\ RingOK' /\ LineOK' /\ HistoryOK'
    BY <1>1, <1>2, <1>4 DEF keystat, ring, history, KeysOK, RingOK, LineOK, HistoryOK
  <2> QED
    BY <2>1, TypePartsNext
<1> QED
  BY <1>3, <1>4 DEF keyboard_o43

LEMMA TypesNext == TypeOK /\ [Next]_vars => TypeOK'
<1> SUFFICES ASSUME TypeOK, [Next]_vars PROVE TypeOK'
  OBVIOUS
<1>1. CASE Host
  BY <1>1, KeyStep, ReleaseTypes, RepeatTypes, SettingTypes DEF Host, HostKeys
<1>2. CASE Guest
  BY <1>2, ReadTypes, CommandTypes, ControlTypes DEF Guest
<1>3. CASE keyboard_callback
  BY <1>3, CallbackTypes
<1>4. CASE pccore_reset
  BY <1>4, PccoreResetTypes
<1>5. CASE UNCHANGED vars
  BY <1>5 DEF vars, keystat, keybrd, ring, history, TypeOK
<1> QED
  BY <1>1, <1>2, <1>3, <1>4, <1>5 DEF Next

(* The keys, the rings and what the guest is told keep their types: no      *)
(* answer outgrows its ring and no list of keys that repeat its buffer.     *)
THEOREM TypeCorrect == Spec => []TypeOK
BY TypesInit, TypesNext, PTL DEF Spec

-----------------------------------------------------------------------------
(* The event, the interrupt and the lamps.                                  *)

(* An event that is not set has nothing to deliver, the register's byte has *)
(* its interrupt, and the memory of the locks is up to date.                *)
IInv == NoStall /\ FullInterrupts /\ LampsAgree

LEMMA SendKeepsEvent ==
  ASSUME NEW bs, NoStall, keyboard_send(bs), UNCHANGED ctr
  PROVE  NoStall'
<1>1. CASE running
  BY <1>1 DEF keyboard_send, NoStall
<1>2. CASE ~running
  <2>1. ctr = <<>> /\ buffers = 0
    BY <1>2 DEF NoStall
  <2>2. PICK n : buffers' = buffers + n /\ running' = (running \/ n # 0)
    BY DEF keyboard_send
  <2>3. CASE n = 0
    <3>1. buffers' = 0
      BY <2>1, <2>2, <2>3
    <3> QED
      BY <2>1, <3>1 DEF NoStall
  <2>4. CASE n # 0
    BY <2>2, <2>4 DEF NoStall
  <2> QED
    BY <2>3, <2>4
<1> QED
  BY <1>1, <1>2

LEMMA ReloadedLamps ==
  ASSUME reloadled
  PROVE  LampsAgree'
BY DEF reloadled, LampsAgree

(* A reset takes the locks back from their memory.                          *)
LEMMA ResetLamps ==
  ASSUME ref' = [k \in Keys |-> IF k \in Locks THEN lockref[k] ELSE ref[k]],
         UNCHANGED lockref
  PROVE  LampsAgree'
BY KeysAssumption DEF LampsAgree

LEMMA InitInv == Init => IInv
<1> SUFFICES ASSUME Init PROVE IInv
  OBVIOUS
<1>1. NoStall /\ FullInterrupts
  BY DEF Init, NoStall, FullInterrupts
<1>2. LampsAgree
  BY KeysAssumption DEF Init, LampsAgree
<1> QED
  BY <1>1, <1>2 DEF IInv

LEMMA DownInv ==
  ASSUME IInv, NEW h \in Hosts, keystat_down(h)
  PROVE  IInv'
<1>1. UNCHANGED <<ctr, full, irq>> /\ reloadled
  BY DEF keystat_down
<1>2. \/ UNCHANGED <<buffers, running>>
      \/ \E bs : keyboard_send(bs)
  BY DEF keystat_down, SendMake, SendBreak, SendNothing, ring
<1>3. NoStall'
  BY <1>1, <1>2, SendKeepsEvent DEF IInv, NoStall
<1> QED
  BY <1>1, <1>3, ReloadedLamps DEF IInv, FullInterrupts

LEMMA UpInv ==
  ASSUME IInv, NEW h \in Hosts, keystat_up(h)
  PROVE  IInv'
<1>1. UNCHANGED <<ctr, full, irq>> /\ reloadled
  BY DEF keystat_up
<1>2. \/ UNCHANGED <<buffers, running>>
      \/ \E bs : keyboard_send(bs)
  BY DEF keystat_up, SendBreak, SendNothing, ring
<1>3. NoStall'
  BY <1>1, <1>2, SendKeepsEvent DEF IInv, NoStall
<1> QED
  BY <1>1, <1>3, ReloadedLamps DEF IInv, FullInterrupts

LEMMA HostInv ==
  ASSUME IInv, Host
  PROVE  IInv'
<1>1. ASSUME NEW h \in Hosts, keystat_down(h) PROVE IInv'
  BY <1>1, DownInv
<1>2. ASSUME NEW h \in Hosts, keystat_up(h) PROVE IInv'
  BY <1>2, UpInv
<1>3. CASE keystat_allrelease
  <2>1. UNCHANGED <<ctr, full, irq, lockref>> /\ \E bs : keyboard_send(bs)
    BY <1>3 DEF keystat_allrelease
  <2>2. LampsAgree'
    BY <1>3, <2>1, KeysAssumption DEF keystat_allrelease, LampsAgree, IInv
  <2> QED
    BY <2>1, <2>2, SendKeepsEvent DEF IInv, FullInterrupts
<1>4. CASE keyrepeat_proc
  <2>1. UNCHANGED <<ctr, full, irq, lockref, ref>> /\ \E bs : keyboard_send(bs)
    BY <1>4 DEF keyrepeat_proc, keystat
  <2> QED
    BY <2>1, SendKeepsEvent DEF IInv, FullInterrupts, LampsAgree
<1>5. CASE SetKeyRepeat
  BY <1>5 DEF SetKeyRepeat, keybrd, ring, IInv, NoStall, FullInterrupts, LampsAgree
<1> QED
  BY <1>1, <1>2, <1>3, <1>4, <1>5 DEF Host, HostKeys

LEMMA CommandInv ==
  ASSUME IInv, keystat_ctrlsend
  PROVE  IInv'
<1>1. UNCHANGED <<buffers, full, irq>>
  BY DEF keystat_ctrlsend, ring
<1>2. \/ UNCHANGED <<ref, lockref>>
      \/ reloadled
  BY DEF keystat_ctrlsend, Command, RepeatParameter, LampParameter
<1>3. running' = TRUE \/ UNCHANGED <<ctr, running>>
  BY DEF keystat_ctrlsend, Command, RepeatParameter, LampParameter, AnswerWith
<1>4. NoStall'
  BY <1>1, <1>3 DEF IInv, NoStall
<1>5. LampsAgree'
  BY <1>2, ReloadedLamps DEF IInv, LampsAgree
<1> QED
  BY <1>1, <1>4, <1>5 DEF IInv, FullInterrupts

LEMMA ResetSignalInv ==
  ASSUME IInv, keyboard_resetsignal
  PROVE  IInv'
<1>1. NoStall'
  BY DEF keyboard_resetsignal, NoStall
<1>2. LampsAgree'
  BY ResetLamps DEF keyboard_resetsignal
<1> QED
  BY <1>1, <1>2 DEF keyboard_resetsignal, IInv, FullInterrupts

LEMMA NextInv ==
  ASSUME IInv, [Next]_vars
  PROVE  IInv'
<1>1. CASE Host
  BY <1>1, HostInv
<1>2. CASE keyboard_i41
  BY <1>2 DEF keyboard_i41, keystat, ring, IInv, NoStall, FullInterrupts, LampsAgree
<1>3. CASE keystat_ctrlsend
  BY <1>3, CommandInv
<1>4. ASSUME NEW dat \in Controls, keyboard_o43(dat) PROVE IInv'
  <2>1. CASE keyboard_resetsignal
    BY <2>1, ResetSignalInv
  <2>2. CASE UNCHANGED <<keystat, ring, ctr, data, full, running, irq, history>>
    BY <2>2 DEF keystat, ring, IInv, NoStall, FullInterrupts, LampsAgree
  <2> QED
    BY <1>4, <2>1, <2>2 DEF keyboard_o43
<1>5. CASE keyboard_callback
  BY <1>5 DEF keyboard_callback, SetAgain, Requested, keystat, ring, IInv, NoStall,
     FullInterrupts, LampsAgree
<1>6. CASE pccore_reset
  <2>1. LampsAgree'
    BY <1>6, ResetLamps DEF pccore_reset
  <2> QED
    BY <1>6, <2>1 DEF pccore_reset, IInv, NoStall, FullInterrupts
<1>7. CASE UNCHANGED vars
  BY <1>7 DEF vars, keystat, keybrd, ring, IInv, NoStall, FullInterrupts, LampsAgree
<1> QED
  BY <1>1, <1>2, <1>3, <1>4, <1>5, <1>6, <1>7 DEF Next, Guest

THEOREM Invariance == Spec => []IInv
BY InitInv, NextInv, PTL DEF Spec

(* A byte that waits always has its event, so that it is delivered.         *)
THEOREM NeverStalls == Spec => []NoStall
<1>1. IInv => NoStall
  BY DEF IInv
<1> QED
  BY Invariance, <1>1, PTL

(* A byte that is not read always has its interrupt.                        *)
THEOREM AlwaysInterrupts == Spec => []FullInterrupts
<1>1. IInv => FullInterrupts
  BY DEF IInv
<1> QED
  BY Invariance, <1>1, PTL

(* The guest is told the truth about the locks, across resets of both kinds.*)
THEOREM LampsRight == Spec => []LampsAgree
<1>1. IInv => LampsAgree
  BY DEF IInv
<1> QED
  BY Invariance, <1>1, PTL

-----------------------------------------------------------------------------
(* Answers are not mixed.                                                   *)

LEMMA PrefixIs ==
  ASSUME NEW D, NEW s \in Seq(D), NEW t \in Seq(D)
  PROVE  IsPrefix(s, t) <=> Len(s) <= Len(t) /\ \A i \in 1 .. Len(s) : s[i] = t[i]
<1> DEFINE n == Len(s)
<1>1. n \in Nat /\ Len(t) \in Nat
  BY LenProperties
<1>2. ASSUME n <= Len(t)
      PROVE  SubSeq(s, 1, n) = SubSeq(t, 1, n) <=> \A i \in 1 .. n : s[i] = t[i]
  <2> DEFINE p == SubSeq(s, 1, n)  q == SubSeq(t, 1, n)
  <2>1. /\ p \in Seq(D) /\ Len(p) = n /\ \A i \in 1 .. n : p[i] = s[i]
        /\ q \in Seq(D) /\ Len(q) = n /\ \A i \in 1 .. n : q[i] = t[i]
    BY <1>1, <1>2, SubSeqProperties
  <2> HIDE DEF p, q, n
  <2>2. (\A i \in 1 .. n : p[i] = q[i]) => p = q
    BY <2>1, SeqEqual
  <2> QED
    BY <2>1, <2>2 DEF p, q
<1> QED
  BY <1>2, Zenon DEF IsPrefix

LEMMA ReverseType ==
  ASSUME NEW D, NEW s \in Seq(D)
  PROVE  Reverse(s) \in Seq(D) /\ Len(Reverse(s)) = Len(s)
<1>1. Len(s) \in Nat /\ \A i \in 1 .. Len(s) : s[i] \in D
  BY LenProperties, ElementOfSeq
<1>2. \A i \in 1 .. Len(s) : (Len(s) - i) + 1 \in 1 .. Len(s)
  BY <1>1
<1>3. \A i \in 1 .. Len(s) : s[(Len(s) - i) + 1] \in D
  BY <1>1, <1>2
<1> QED
  BY <1>1, <1>3 DEF Reverse

LEMMA SuffixIs ==
  ASSUME NEW D, NEW s \in Seq(D), NEW t \in Seq(D)
  PROVE  IsSuffix(s, t) <=>
           /\ Len(s) <= Len(t)
           /\ \A i \in 1 .. Len(s) : s[i] = t[Len(t) - Len(s) + i]
<1> DEFINE m == Len(s)  n == Len(t)  p == Reverse(s)  q == Reverse(t)
<1>1. /\ m \in Nat /\ n \in Nat
      /\ \A i \in 1 .. m : s[i] \in D
      /\ \A i \in 1 .. n : t[i] \in D
  BY LenProperties, ElementOfSeq
<1>2. /\ p = [i \in 1 .. m |-> s[(m - i) + 1]]
      /\ q = [i \in 1 .. n |-> t[(n - i) + 1]]
  BY DEF Reverse
<1>3. \A i \in 1 .. m : (m - i) + 1 \in 1 .. m
  BY <1>1
<1>4. p \in Seq(D) /\ Len(p) = m /\ q \in Seq(D) /\ Len(q) = n
  BY ReverseType
<1> HIDE DEF p, q, m, n
<1>5. IsPrefix(p, q) <=> m <= n /\ \A i \in 1 .. m : p[i] = q[i]
  <2>1. p \in Seq(D) /\ q \in Seq(D)
    BY <1>4
  <2>2. \A x, y \in Seq(D) :
          IsPrefix(x, y) <=> Len(x) <= Len(y) /\ \A i \in 1 .. Len(x) : x[i] = y[i]
    BY PrefixIs
  <2>3. IsPrefix(p, q) <=> Len(p) <= Len(q) /\ \A i \in 1 .. Len(p) : p[i] = q[i]
    BY ONLY <2>1, <2>2
  <2> QED
    BY <1>4, <2>3, Zenon
<1>6. ASSUME m <= n
      PROVE  (\A i \in 1 .. m : p[i] = q[i]) <=> (\A i \in 1 .. m : s[i] = t[n - m + i])
  <2>1. \A i \in 1 .. m : i \in 1 .. n
    BY <1>1, <1>6
  <2>2. \A i \in 1 .. m : p[i] = s[(m - i) + 1] /\ q[i] = t[(n - i) + 1]
    BY <1>2, <2>1
  <2>3. ASSUME \A i \in 1 .. m : p[i] = q[i], NEW i \in 1 .. m
        PROVE  s[i] = t[n - m + i]
    <3>1. (m - i) + 1 \in 1 .. m /\ m - ((m - i) + 1) + 1 = i /\ n - ((m - i) + 1) + 1 = n - m + i
      BY <1>1
    <3> QED
      BY <2>2, <2>3, <3>1
  <2>4. ASSUME \A i \in 1 .. m : s[i] = t[n - m + i], NEW i \in 1 .. m
        PROVE  p[i] = q[i]
    <3>1. (m - i) + 1 \in 1 .. m /\ n - m + ((m - i) + 1) = (n - i) + 1
      BY <1>1
    <3> QED
      BY <2>2, <2>4, <3>1
  <2> QED
    BY <2>3, <2>4
<1>7. IsSuffix(s, t) <=> IsPrefix(p, q)
  BY Zenon DEF IsSuffix, p, q
<1>8. IsSuffix(s, t) <=> m <= n /\ \A i \in 1 .. m : s[i] = t[n - m + i]
  BY <1>5, <1>6, <1>7, Zenon
<1> QED
  BY <1>8, Zenon DEF m, n

(* What is left of an answer when its first byte is read is its end still.  *)
LEMMA SuffixTail ==
  ASSUME NEW D, NEW s \in Seq(D), NEW t \in Seq(D), s # <<>>, IsSuffix(s, t)
  PROVE  IsSuffix(Tail(s), t)
<1> DEFINE r == Tail(s)  m == Len(s)  n == Len(t)
<1>1. /\ m \in Nat /\ n \in Nat /\ m > 0
      /\ r \in Seq(D) /\ Len(r) = m - 1 /\ \A i \in 1 .. m - 1 : r[i] = s[i + 1]
  BY LenProperties, EmptySeq, HeadTailProperties
<1>2. m <= n /\ \A i \in 1 .. m : s[i] = t[n - m + i]
  BY SuffixIs, Zenon
<1> HIDE DEF r, m, n
<1>3. ASSUME NEW i \in 1 .. m - 1 PROVE r[i] = t[n - (m - 1) + i]
  <2>1. i + 1 \in 1 .. m /\ n - m + (i + 1) = n - (m - 1) + i
    BY <1>1
  <2> QED
    BY <1>1, <1>2, <2>1
<1>4. m - 1 <= n
  BY <1>1, <1>2
<1>5. IsSuffix(r, t) <=> Len(r) <= Len(t) /\ \A i \in 1 .. Len(r) : r[i] = t[Len(t) - Len(r) + i]
  BY <1>1, SuffixIs, Zenon
<1> QED
  BY <1>1, <1>3, <1>4, <1>5, Zenon DEF r, n

LEMMA SuffixOfItself ==
  ASSUME NEW D, NEW s \in Seq(D)
  PROVE  IsSuffix(s, s) /\ IsSuffix(<<>>, s)
<1>1. IsSuffix(s, s)
  <2>1. Len(s) <= Len(s) /\ \A i \in 1 .. Len(s) : s[i] = s[Len(s) - Len(s) + i]
    BY LenProperties
  <2> QED
    BY <2>1, SuffixIs, Zenon
<1>2. IsSuffix(<<>>, s)
  <2> DEFINE e == <<>>
  <2>1. e \in Seq(D) /\ Len(e) = 0 /\ Len(s) \in Nat
    BY EmptySeq, LenProperties
  <2> HIDE DEF e
  <2>2. Len(e) <= Len(s) /\ \A i \in 1 .. Len(e) : e[i] = s[Len(s) - Len(e) + i]
    BY <2>1
  <2>3. IsSuffix(e, s)
    BY <2>1, <2>2, SuffixIs, Zenon
  <2> QED
    BY <2>3 DEF e
<1> QED
  BY <1>1, <1>2

LEMMA AnswerInit == Init => AnswerIsLast
<1> SUFFICES ASSUME Init PROVE AnswerIsLast
  OBVIOUS
<1>1. ctr = <<>> /\ reply = <<>> /\ ctr \in Seq(Answers)
  BY EmptySeq DEF Init
<1>2. IsSuffix(ctr, ctr)
  BY <1>1, SuffixOfItself
<1> QED
  BY <1>1, <1>2 DEF AnswerIsLast

(* What a step does to the answer that waits: it is replaced as a whole, its*)
(* first byte is read, it is dropped, or nothing.                           *)
LEMMA AnswerSteps ==
  ASSUME TypeOK, [Next]_vars
  PROVE  \/ UNCHANGED <<ctr, reply>>
         \/ ctr' = reply' /\ reply' \in Seq(Answers)
         \/ ctr # <<>> /\ ctr' = Tail(ctr) /\ UNCHANGED reply
         \/ ctr' = <<>> /\ UNCHANGED reply
<1>1. CASE Host
  BY <1>1 DEF Host, HostKeys, keystat_down, keystat_up, keystat_allrelease, keyrepeat_proc,
     SetKeyRepeat, keybrd, history
<1>2. CASE keyboard_i41
  BY <1>2 DEF keyboard_i41
<1>3. CASE keystat_ctrlsend
  <2>1. ctr \in Seq(Answers)
    BY DEF TypeOK
  <2> QED
    BY <1>3, <2>1, CommandAnswers
<1>4. ASSUME NEW dat \in Controls, keyboard_o43(dat)
      PROVE  \/ UNCHANGED <<ctr, reply>>
             \/ ctr' = <<>> /\ UNCHANGED reply
  BY <1>4 DEF keyboard_o43, keyboard_resetsignal, history
<1>5. CASE keyboard_callback
  BY <1>5 DEF keyboard_callback, history
<1>6. CASE pccore_reset
  BY <1>6 DEF pccore_reset
<1>7. CASE UNCHANGED vars
  BY <1>7 DEF vars, keybrd, history
<1> QED
  BY <1>1, <1>2, <1>3, <1>4, <1>5, <1>6, <1>7 DEF Next, Guest

LEMMA AnswerNext ==
  ASSUME TypeOK, AnswerIsLast, [Next]_vars
  PROVE  AnswerIsLast'
<1>1. ctr \in Seq(Answers) /\ reply \in Seq(Answers) /\ IsSuffix(ctr, reply)
  BY DEF TypeOK, AnswerIsLast
<1>2. CASE UNCHANGED <<ctr, reply>>
  BY <1>1, <1>2 DEF AnswerIsLast
<1>3. CASE ctr' = reply' /\ reply' \in Seq(Answers)
  BY <1>3, SuffixOfItself DEF AnswerIsLast
<1>4. CASE ctr # <<>> /\ ctr' = Tail(ctr) /\ UNCHANGED reply
  BY <1>1, <1>4, SuffixTail DEF AnswerIsLast
<1>5. CASE ctr' = <<>> /\ UNCHANGED reply
  BY <1>1, <1>5, SuffixOfItself DEF AnswerIsLast
<1> QED
  BY <1>2, <1>3, <1>4, <1>5, AnswerSteps

(* What is left of an answer is the end of the last one: a program that     *)
(* asks again before it has read all never gets bytes of two answers.       *)
THEOREM AnswersNotMixed == Spec => []AnswerIsLast
<1>1. TypeOK /\ AnswerIsLast /\ [Next]_vars => AnswerIsLast'
  BY AnswerNext
<1> QED
  BY AnswerInit, <1>1, TypeCorrect, PTL DEF Spec

-----------------------------------------------------------------------------
(* The interface implements the line of bytes.                              *)

LEMMA LineInit == Init => Line!Init
<1> SUFFICES ASSUME Init PROVE Line!Init
  OBVIOUS
<1>1. buffers = 0 /\ Pending = [i \in 1 .. buffers |-> buf[Place(i - 1)]]
  BY DEF Init, Pending
<1>2. Pending = <<>>
  BY <1>1
<1> QED
  BY <1>2 DEF Init, Line!Init

(* What the keyboard sends is put behind what waits.                        *)
LEMMA SendIsSend ==
  ASSUME RingOK, NEW bs \in Seq(Byte), keyboard_send(bs), UNCHANGED <<ctr, data, full>>
  PROVE  Line!Send
<1>1. /\ Len(Pending') = buffers' /\ buffers <= buffers' /\ buffers' <= KB_BUF
      /\ \A i \in 1 .. buffers : Pending'[i] = Pending[i]
  BY SendAppends
<1>2. RingOK'
  BY SendStores
<1>3. Pending \in Seq(Stored) /\ Len(Pending) = buffers
  BY PendingType
<1>4. Pending' \in Seq(Stored)
  BY <1>2, PendingTypeNext
<1>5. IsPrefix(Pending, Pending')
  <2> DEFINE p == Pending  q == Pending'
  <2>1. /\ p \in Seq(Stored) /\ q \in Seq(Stored) /\ Len(p) <= Len(q)
        /\ \A i \in 1 .. Len(p) : p[i] = q[i]
    BY <1>1, <1>3, <1>4
  <2> HIDE DEF p, q
  <2>2. IsPrefix(p, q)
    BY <2>1, PrefixIs, Zenon
  <2> QED
    BY <2>2 DEF p, q
<1>6. Line!IsPrefix(Pending, Pending')
  BY <1>5, Zenon DEF IsPrefix, Line!IsPrefix
<1> QED
  BY <1>1, <1>6 DEF Line!Send

LEMMA LineStep ==
  ASSUME TypeOK, [Next]_vars
  PROVE  [Line!Next]_(Line!vars)
<1>1. RingOK /\ LineOK /\ ctr \in Seq(Answers)
  BY TypeParts DEF LineOK
<1>2. ASSUME UNCHANGED <<ring, ctr, data, full>> PROVE UNCHANGED Line!vars
  BY <1>2 DEF Line!vars, ring, Pending, Place
<1>3. ASSUME NEW h \in Hosts, keystat_down(h) \/ keystat_up(h)
      PROVE  [Line!Next]_(Line!vars)
  <2>1. Sends \/ UNCHANGED <<ring, running, lost>>
    BY <1>3, KeyTypes
  <2>2. UNCHANGED <<ctr, data, full>>
    BY <1>3 DEF keystat_down, keystat_up
  <2>3. CASE Sends
    BY <1>1, <2>2, <2>3, SendIsSend DEF Sends, Line!Next
  <2> QED
    BY <1>2, <2>1, <2>2, <2>3
<1>4. CASE keystat_allrelease
  <2> DEFINE ks == Filter(Codes, Held(ref) \ Locks)
  <2>1. ks \in Seq(Keys)
    BY KeyAssumptions, FilterProperties
  <2>2. keyboard_send([i \in 1 .. Len(ks) |-> Break(ks[i])]) /\ UNCHANGED <<ctr, data, full>>
    BY <1>4 DEF keystat_allrelease
  <2> HIDE DEF ks
  <2>3. [i \in 1 .. Len(ks) |-> Break(ks[i])] \in Seq(Byte)
    BY <2>1, LenProperties, ElementOfSeq, ByteType
  <2> QED
    BY <1>1, <2>2, <2>3, SendIsSend DEF Line!Next
<1>5. CASE keyrepeat_proc
  <2>1. Last(rep) \in Keys
    BY <1>5, LastHeld DEF keyrepeat_proc
  <2>2. UNCHANGED <<ctr, data, full>> /\ keyboard_send(<<Break(Last(rep)), Make(Last(rep))>>)
    BY <1>5 DEF keyrepeat_proc
  <2> QED
    BY <1>1, <2>1, <2>2, ByteType, SendIsSend DEF Line!Next
<1>6. CASE SetKeyRepeat
  BY <1>2, <1>6 DEF SetKeyRepeat, keybrd
<1>7. CASE keyboard_i41
  <2>1. full' = FALSE /\ UNCHANGED <<ring, ctr, data>>
    BY <1>7 DEF keyboard_i41
  <2>2. Pending' = Pending
    BY <2>1 DEF ring, Pending, Place
  <2> QED
    BY <2>1, <2>2 DEF Line!Next, Line!Read
<1>8. CASE keystat_ctrlsend
  <2>1. UNCHANGED <<ring, data, full>>
    BY <1>8 DEF keystat_ctrlsend
  <2>2. Pending' = Pending
    BY <2>1 DEF ring, Pending, Place
  <2>3. CASE UNCHANGED <<ctr, running, reply>>
    BY <1>2, <2>1, <2>3
  <2>4. CASE ctr' = reply' /\ reply' \in Replies
    <3>1. ctr' # <<>>
      <4>1. \A a, b, c : <<a>> # <<>> /\ <<a, b>> # <<>> /\ <<a, b, c>> # <<>>
        OBVIOUS
      <4> QED
        BY <2>4, <4>1, Zenon DEF Replies
    <3> QED
      BY <2>1, <2>2, <3>1 DEF Line!Next, Line!Answer
  <2> QED
    BY <1>1, <1>8, <2>3, <2>4, CommandAnswers
<1>9. ASSUME NEW dat \in Controls, keyboard_o43(dat)
      PROVE  [Line!Next]_(Line!vars)
  <2>1. CASE keyboard_resetsignal
    <3>1. full' = FALSE /\ ctr' = <<>>
      BY <2>1 DEF keyboard_resetsignal
    <3>2. RingOK'
      BY <1>1, <2>1, ResetRing
    <3>3. Len(Pending') <= KB_BUF
      BY <3>2, PendingTypeNext, Sizes DEF RingOK
    <3> QED
      BY <3>1, <3>3 DEF Line!Next, Line!Reset
  <2>2. CASE UNCHANGED <<keystat, ring, ctr, data, full, running, irq, history>>
    BY <1>2, <2>2
  <2> QED
    BY <1>9, <2>1, <2>2 DEF keyboard_o43
<1>10. CASE keyboard_callback
  <2>1. CASE UNCHANGED <<ring, ctr, data, full>>
    BY <1>2, <2>1
  <2>2. CASE /\ ~full /\ full' = TRUE /\ ctr # <<>>
             /\ data' = Head(ctr) /\ ctr' = Tail(ctr) /\ UNCHANGED ring
    <3>1. Pending' = Pending
      BY <2>2 DEF ring, Pending, Place
    <3> QED
      BY <2>2, <3>1 DEF Line!Next, Line!Deliver
  <2>3. CASE /\ ~full /\ full' = TRUE /\ ctr = <<>> /\ UNCHANGED ctr
             /\ buffers # 0 /\ data' = buf[bufpos] /\ buffers' = buffers - 1
             /\ bufpos' = Place(1) /\ buf' = [buf EXCEPT ![bufpos] = None]
    <3>1. Pending # <<>> /\ data' = Head(Pending) /\ Pending' = Tail(Pending)
      BY <1>1, <2>3, CallbackRing
    <3> QED
      BY <2>3, <3>1 DEF Line!Next, Line!Deliver
  <2> QED
    BY <1>10, <2>1, <2>2, <2>3 DEF keyboard_callback
<1>11. CASE pccore_reset
  <2>1. full' = FALSE /\ ctr' = <<>> /\ buffers' = 0
    BY <1>11 DEF pccore_reset
  <2>2. TypeOK'
    BY <1>11, PccoreResetTypes
  <2>3. Len(Pending') <= KB_BUF
    <3>1. RingOK'
      BY <2>2 DEF TypeOK, RingOK, Stored
    <3> QED
      BY <3>1, PendingTypeNext, Sizes DEF RingOK
  <2> QED
    BY <2>1, <2>3 DEF Line!Next, Line!Reset
<1>12. CASE UNCHANGED vars
  BY <1>2, <1>12 DEF vars, keybrd
<1> QED
  BY <1>3, <1>4, <1>5, <1>6, <1>7, <1>8, <1>9, <1>10, <1>11, <1>12 DEF Next, Host, HostKeys, Guest

(* The ring, the answers and the data register together are a line: bytes of*)
(* keys leave in the order they were sent, an answer goes before them, and  *)
(* nothing overtakes a byte that waits to be read.                          *)
THEOREM ImplementsLine == Spec => ImplementsKeyLine
<1>1. TypeOK /\ [Next]_vars => [Line!Next]_(Line!vars)
  BY LineStep
<1> QED
  BY LineInit, <1>1, TypeCorrect, PTL DEF Spec, ImplementsKeyLine, Line!Spec

-----------------------------------------------------------------------------
(* What the guest takes to be down.                                         *)

Given == Stored \cup Answers

(* What is seen of p when the register's byte, if any, and q are read.      *)
Seen(p, f, d, q) == Taken(Taken(p, IF f THEN <<d>> ELSE <<>>), q)

LEMMA Widened ==
  ASSUME NEW A, NEW B, NEW s \in Seq(A), A \subseteq B
  PROVE  s \in Seq(B)
BY LenProperties, ElementOfSeq

LEMMA SeenIs ==
  ASSUME NEW p, NEW f \in BOOLEAN, NEW d \in Given, NEW q \in Seq(Stored)
  PROVE  Taken(p, (IF f THEN <<d>> ELSE <<>>) \o q) = Seen(p, f, d, q)
<1> DEFINE r == IF f THEN <<d>> ELSE <<>>
<1>1. r \in Seq(Given)
  <2>1. <<d>> \in Seq(Given) /\ <<>> \in Seq(Given)
    BY EmptySeq
  <2> QED
    BY <2>1, Zenon
<1>2. q \in Seq(Given)
  BY Widened DEF Given
<1> HIDE DEF r
<1>3. Taken(p, r \o q) = Taken(Taken(p, r), q)
  BY <1>1, <1>2, TakenConcat
<1> QED
  BY <1>3, Zenon DEF Seen, r

LEMMA ViewIs ==
  ASSUME TypeOK
  PROVE  View = Seen(pressed, full, data, Pending) \ Locks
<1>1. full \in BOOLEAN /\ data \in Given /\ Pending \in Seq(Stored)
  BY TypeParts, PendingType DEF LineOK, Given, Stored
<1> QED
  BY <1>1, SeenIs DEF View, Coming

LEMMA ViewIsNext ==
  ASSUME TypeOK'
  PROVE  View' = Seen(pressed', full', data', Pending') \ Locks
<1>1. full' \in BOOLEAN /\ data' \in Given /\ Pending' \in Seq(Stored)
  <2>1. RingOK' /\ full' \in BOOLEAN /\ data' \in Given
    BY DEF TypeOK, RingOK, Given, Stored
  <2> QED
    BY <2>1, PendingTypeNext
<1>2. View' = Taken(pressed', (IF full' THEN <<data'>> ELSE <<>>) \o Pending') \ Locks
  BY DEF View, Coming
<1> DEFINE p == pressed'  f == full'  d == data'  q == Pending'
<1>3. f \in BOOLEAN /\ d \in Given /\ q \in Seq(Stored)
  BY <1>1
<1>4. View' = Taken(p, (IF f THEN <<d>> ELSE <<>>) \o q) \ Locks
  BY <1>2
<1> HIDE DEF p, f, d, q
<1>5. View' = Seen(p, f, d, q) \ Locks
  BY <1>3, <1>4, SeenIs
<1> QED
  BY <1>5 DEF p, f, d, q

LEMMA SeenKeys ==
  ASSUME TypeOK
  PROVE  Seen(pressed, full, data, Pending) \in SUBSET Keys
BY DEF Seen, Taken

(* What is sent counts after all that waits, if nothing is lost.            *)
LEMMA SendView ==
  ASSUME TypeOK, TypeOK', NEW bs \in Seq(Byte), keyboard_send(bs), ~lost',
         UNCHANGED <<pressed, full, data>>
  PROVE  /\ ~lost
         /\ View' = Taken(Seen(pressed, full, data, Pending), bs) \ Locks
<1>1. RingOK /\ lost \in BOOLEAN
  BY TypeParts DEF HistoryOK
<1>2. ~lost /\ Pending' = Pending \o bs
  BY <1>1, SendAppends
<1>3. Pending \in Seq(Stored) /\ bs \in Seq(Stored)
  BY <1>1, PendingType, LenProperties, ElementOfSeq DEF Stored
<1>4. View' = Seen(pressed, full, data, Pending \o bs) \ Locks
  BY <1>2, ViewIsNext
<1>5. Seen(pressed, full, data, Pending \o bs) = Taken(Seen(pressed, full, data, Pending), bs)
  BY <1>3, TakenConcat DEF Seen
<1> QED
  BY <1>2, <1>4, <1>5

LEMMA MakeView ==
  ASSUME TypeOK, TypeOK', NEW k \in Keys, keyboard_send(<<Make(k)>>), ~lost',
         UNCHANGED <<pressed, full, data>>
  PROVE  ~lost /\ View' = (View \cup {k}) \ Locks
<1> DEFINE V == Seen(pressed, full, data, Pending)
<1>1. ~lost /\ View' = Taken(V, <<Make(k)>>) \ Locks
  BY ByteType, SendView
<1>2. V \in SUBSET Keys /\ View = V \ Locks
  BY SeenKeys, ViewIs
<1> HIDE DEF V
<1>3. Taken(V, <<Make(k)>>) = V \cup {k}
  BY <1>2, TakenOne, Zenon
<1> QED
  BY <1>1, <1>2, <1>3

LEMMA BreakView ==
  ASSUME TypeOK, TypeOK', NEW k \in Keys, keyboard_send(<<Break(k)>>), ~lost',
         UNCHANGED <<pressed, full, data>>
  PROVE  ~lost /\ View' = View \ {k}
<1> DEFINE V == Seen(pressed, full, data, Pending)
<1>1. ~lost /\ View' = Taken(V, <<Break(k)>>) \ Locks
  BY ByteType, SendView
<1>2. V \in SUBSET Keys /\ View = V \ Locks
  BY SeenKeys, ViewIs
<1> HIDE DEF V
<1>3. Taken(V, <<Break(k)>>) = V \ {k}
  BY <1>2, TakenOne, Zenon
<1> QED
  BY <1>1, <1>2, <1>3

LEMMA TwoBytes ==
  ASSUME NEW k \in Keys
  PROVE  <<Break(k), Make(k)>> = <<Break(k)>> \o <<Make(k)>>
OBVIOUS

LEMMA AgainView ==
  ASSUME TypeOK, TypeOK', NEW k \in Keys, keyboard_send(<<Break(k), Make(k)>>), ~lost',
         UNCHANGED <<pressed, full, data>>
  PROVE  ~lost /\ View' = (View \cup {k}) \ Locks
<1> DEFINE V == Seen(pressed, full, data, Pending)
<1>1. ~lost /\ View' = Taken(V, <<Break(k), Make(k)>>) \ Locks
  BY ByteType, SendView
<1>2. V \in SUBSET Keys /\ View = V \ Locks
  BY SeenKeys, ViewIs
<1> HIDE DEF V
<1>3. <<Break(k), Make(k)>> = <<Break(k)>> \o <<Make(k)>>
  BY TwoBytes
<1>4. Taken(V, <<Break(k), Make(k)>>) = Taken(Taken(V, <<Break(k)>>), <<Make(k)>>)
  <2> DEFINE bs == <<Break(k)>>  cs == <<Make(k)>>
  <2>1. bs \in Seq(Byte) /\ cs \in Seq(Byte)
    BY ByteType
  <2> HIDE DEF bs, cs
  <2>2. Taken(V, bs \o cs) = Taken(Taken(V, bs), cs)
    BY <2>1, TakenConcat
  <2> QED
    BY <1>3, <2>2, Zenon DEF bs, cs
<1>5. Taken(V, <<Break(k), Make(k)>>) = V \cup {k}
  <2>1. V \ {k} \in SUBSET Keys /\ Taken(V, <<Break(k)>>) = V \ {k}
    BY <1>2, TakenOne
  <2>2. Taken(V \ {k}, <<Make(k)>>) = (V \ {k}) \cup {k}
    BY <2>1, TakenOne
  <2> QED
    BY <1>4, <2>1, <2>2
<1> QED
  BY <1>1, <1>2, <1>5

LEMMA NothingView ==
  ASSUME TypeOK, TypeOK', keyboard_send(<<>>), ~lost', UNCHANGED <<pressed, full, data>>
  PROVE  ~lost /\ View' = View
<1> DEFINE V == Seen(pressed, full, data, Pending)
<1>1. ~lost /\ View' = Taken(V, <<>>) \ Locks
  BY EmptySeq, SendView
<1>2. V \in SUBSET Keys /\ View = V \ Locks
  BY SeenKeys, ViewIs
<1> HIDE DEF V
<1> QED
  BY <1>1, <1>2, TakenNothing

(* A key whose repeat is due is down.                                       *)
RepHeld == repeat => Range(rep) \subseteq Held(ref)

ViewOK == RepHeld /\ NoStuckKey /\ KeysAgree

LEMMA RepElements ==
  ASSUME NEW A, NEW r \in Seq(A)
  PROVE  Range(r) = {r[i] : i \in 1 .. Len(r)} /\ Range(r) \subseteq A
BY LenProperties, ElementOfSeq DEF Range

LEMMA NotALock ==
  ASSUME NEW k \in Repeating
  PROVE  k \in Keys /\ k \notin Locks /\ k \notin Shifts
BY KeyAssumptions

(* Both invariants, on the keys that are no locks.                          *)
LEMMA ViewParts ==
  /\ NoStuckKey <=> (~lost => View \subseteq Held(ref) \ Locks)
  /\ KeysAgree <=> (~lost /\ ~missing => View = Held(ref) \ Locks)
BY DEF NoStuckKey, KeysAgree, View

LEMMA ViewPartsNext ==
  /\ NoStuckKey' <=> (~lost' => View' \subseteq Held(ref') \ Locks)
  /\ KeysAgree' <=> (~lost' /\ ~missing' => View' = Held(ref') \ Locks)
<1>1. \A r : Held(r)' = Held(r)
  BY DEF Held
<1>2. Held(ref)' = Held(ref')
  BY DEF Held
<1>3. View' \cap Locks = {}
  BY DEF View
<1> QED
  BY <1>2, <1>3 DEF NoStuckKey, KeysAgree

LEMMA HeldNext == Held(ref)' = Held(ref')
BY DEF Held

(* What is left of r when k is released, and when it is pressed again.      *)
LEMMA ReleasedElements ==
  ASSUME NEW r \in Seq(Repeating), Len(r) <= RepeatMax, NEW k
  PROVE  /\ Range(Released(r, k)) \subseteq Range(r)
         /\ repeat => k \notin Range(Released(r, k))
<1> DEFINE q == Released(r, k)
<1>1. /\ q \in Seq(Repeating)
      /\ Tracked(k) => \A i \in 1 .. Len(q) : q[i] # k
      /\ \A i \in 1 .. Len(q) : \E j \in 1 .. Len(r) : q[i] = r[j]
  BY ReleasedType
<1> HIDE DEF q
<1>2. /\ Range(q) = {q[i] : i \in 1 .. Len(q)} /\ Range(q) \subseteq Repeating
      /\ Range(r) = {r[i] : i \in 1 .. Len(r)}
  BY <1>1, RepElements
<1>3. Range(q) \subseteq Range(r)
  BY <1>1, <1>2
<1>4. ASSUME repeat PROVE k \notin Range(q)
  <2>1. CASE k \in Repeating
    BY <1>1, <1>2, <1>4, <2>1 DEF Tracked
  <2>2. CASE k \notin Repeating
    BY <1>2, <2>2
  <2> QED
    BY <2>1, <2>2
<1> QED
  BY <1>3, <1>4 DEF q

LEMMA AppendElements ==
  ASSUME NEW A, NEW r \in Seq(A), NEW k \in A
  PROVE  Range(Append(r, k)) = Range(r) \cup {k}
<1> DEFINE q == Append(r, k)
<1>1. /\ q \in Seq(A) /\ Len(q) = Len(r) + 1 /\ Len(r) \in Nat
      /\ \A i \in 1 .. Len(r) : q[i] = r[i]
      /\ q[Len(r) + 1] = k
  BY AppendProperties, LenProperties
<1> HIDE DEF q
<1>2. Range(q) = {q[i] : i \in 1 .. Len(q)} /\ Range(r) = {r[i] : i \in 1 .. Len(r)}
  BY <1>1, RepElements
<1>3. \A i \in 1 .. Len(q) : i \in 1 .. Len(r) \/ i = Len(r) + 1
  BY <1>1
<1>4. \A i \in 1 .. Len(r) : i \in 1 .. Len(q)
  BY <1>1
<1>5. Len(r) + 1 \in 1 .. Len(q)
  BY <1>1
<1>6. Range(q) \subseteq Range(r) \cup {k}
  BY <1>1, <1>2, <1>3
<1>7. Range(r) \cup {k} \subseteq Range(q)
  BY <1>1, <1>2, <1>4, <1>5
<1> QED
  BY <1>6, <1>7 DEF q

(* The four things a press or a release may come to.                        *)
NoEffect == SendNothing /\ Held(ref') = Held(ref)
Pressed(k) == SendMake(<<>>, rep, k) /\ Held(ref') = Held(ref) \cup {k}
PressedAgain(k) ==
  /\ k \in Held(ref) /\ Held(ref') = Held(ref)
  /\ SendMake(<<Break(k)>>, Released(rep, k), k)
LetGo(k) == SendBreak(k) /\ Held(ref') = Held(ref) \ {k}

LEMMA DownEffect ==
  ASSUME TypeOK, NEW h \in Hosts, keystat_down(h)
  PROVE  \E k \in Keys : NoEffect \/ Pressed(k) \/ PressedAgain(k) \/ LetGo(k)
<1> DEFINE k == KeyOf[h]
<1>1. k \in Keys /\ h # NC /\ ref \in [Keys -> Hosts \cup {LED, NC}]
  BY KeyAssumptions DEF TypeOK
<1>2. \/ /\ ref' = [ref EXCEPT ![k] = h]
         /\ \/ ref[k] # NC /\ SendMake(<<Break(k)>>, Released(rep, k), k)
            \/ SendMake(<<>>, rep, k)
            \/ ref[k] # NC /\ SendNothing
      \/ ref' = [ref EXCEPT ![k] = NC] /\ SendBreak(k)
      \/ ref' = ref /\ SendNothing
  BY DEF keystat_down
<1> HIDE DEF k
<1>3. ref' = [ref EXCEPT ![k] = h] => Held(ref') = Held(ref) \cup {k}
  BY <1>1 DEF Held
<1>4. ref' = [ref EXCEPT ![k] = NC] => Held(ref') = Held(ref) \ {k}
  BY <1>1 DEF Held
<1>5. ref[k] # NC => k \in Held(ref) /\ Held(ref) \cup {k} = Held(ref)
  BY <1>1 DEF Held
<1> QED
  BY <1>1, <1>2, <1>3, <1>4, <1>5 DEF NoEffect, Pressed, PressedAgain, LetGo

LEMMA UpEffect ==
  ASSUME TypeOK, NEW h \in Hosts, keystat_up(h)
  PROVE  \E k \in Keys : NoEffect \/ LetGo(k)
<1> DEFINE k == KeyOf[h]
<1>1. k \in Keys /\ ref \in [Keys -> Hosts \cup {LED, NC}]
  BY KeyAssumptions DEF TypeOK
<1>2. \/ ref' = [ref EXCEPT ![k] = NC] /\ SendBreak(k)
      \/ ref' = ref /\ SendNothing
  BY DEF keystat_up
<1> HIDE DEF k
<1>3. ref' = [ref EXCEPT ![k] = NC] => Held(ref') = Held(ref) \ {k}
  BY <1>1 DEF Held
<1> QED
  BY <1>1, <1>2, <1>3 DEF NoEffect, LetGo

(* A press or a release keeps the guest right about what is down.           *)
LEMMA UnchangedView ==
  ASSUME TypeOK, TypeOK', UNCHANGED <<ring, pressed, full, data>>
  PROVE  View' = View
<1>1. Pending' = Pending
  BY DEF ring, Pending, Place
<1> QED
  BY <1>1, ViewIs, ViewIsNext

LEMMA NoEffectView ==
  ASSUME TypeOK, TypeOK', ViewOK, NoEffect, UNCHANGED <<repeat, pressed, full, data>>
  PROVE  ViewOK'
<1>1. UNCHANGED <<ring, lost, rep, missing>> /\ Held(ref') = Held(ref)
  BY DEF NoEffect, SendNothing
<1>2. View' = View
  BY <1>1, UnchangedView
<1>3. RepHeld'
  BY <1>1, HeldNext DEF ViewOK, RepHeld
<1> QED
  BY <1>1, <1>2, <1>3, ViewParts, ViewPartsNext DEF ViewOK

LEMMA LetGoView ==
  ASSUME TypeOK, TypeOK', ViewOK, NEW k \in Keys, LetGo(k),
         UNCHANGED <<repeat, pressed, full, data>>
  PROVE  ViewOK'
<1>1. /\ keyboard_send(<<Break(k)>>) /\ rep' = Released(rep, k) /\ UNCHANGED missing
      /\ Held(ref') = Held(ref) \ {k}
  BY DEF LetGo, SendBreak
<1>2. ~lost' => ~lost /\ View' = View \ {k}
  BY <1>1, BreakView
<1>3. RepHeld'
  <2>1. rep \in Seq(Repeating) /\ Len(rep) <= RepeatMax
    BY DEF TypeOK
  <2>2. /\ Range(rep') \subseteq Range(rep)
        /\ repeat => k \notin Range(rep')
    BY <1>1, <2>1, ReleasedElements
  <2> QED
    BY <1>1, <2>2, HeldNext DEF ViewOK, RepHeld
<1> QED
  BY <1>1, <1>2, <1>3, ViewParts, ViewPartsNext DEF ViewOK

LEMMA SendMakeElements ==
  ASSUME NEW before, NEW r \in Seq(Repeating), NEW k \in Keys, SendMake(before, r, k)
  PROVE  Range(rep') \subseteq Range(r) \cup {k}
<1>1. rep' = IF Tracked(k) /\ Takes(r, k) THEN Append(r, k) ELSE r
  BY DEF SendMake
<1>2. CASE Tracked(k) /\ Takes(r, k)
  <2>1. k \in Repeating /\ rep' = Append(r, k)
    BY <1>1, <1>2 DEF Tracked
  <2> QED
    BY <2>1, AppendElements
<1>3. CASE ~(Tracked(k) /\ Takes(r, k))
  BY <1>1, <1>3
<1> QED
  BY <1>2, <1>3

LEMMA PressedView ==
  ASSUME TypeOK, TypeOK', ViewOK, NEW k \in Keys, Pressed(k),
         UNCHANGED <<repeat, pressed, full, data>>
  PROVE  ViewOK'
<1>1. SendMake(<<>>, rep, k) /\ Held(ref') = Held(ref) \cup {k}
  BY DEF Pressed
<1>2. missing' = (missing \/ ~Takes(rep, k))
  BY <1>1 DEF SendMake
<1>3. RepHeld'
  <2>1. Range(rep') \subseteq Range(rep) \cup {k}
    BY <1>1, SendMakeElements DEF TypeOK
  <2> QED
    BY <1>1, <2>1, HeldNext DEF ViewOK, RepHeld
<1>4. CASE Takes(rep, k)
  <2>1. keyboard_send(<<Make(k)>>)
    <3>1. keyboard_send(<<>> \o <<Make(k)>>)
      BY <1>1, <1>4 DEF SendMake
    <3>2. <<>> \o <<Make(k)>> = <<Make(k)>>
      BY ByteType, ConcatEmptySeq
    <3> QED
      BY <3>1, <3>2
  <2>2. ~lost' => ~lost /\ View' = (View \cup {k}) \ Locks
    BY <2>1, MakeView
  <2>3. ~missing' => ~missing
    BY <1>2, <1>4, Zenon
  <2> QED
    BY <1>1, <1>3, <2>2, <2>3, ViewParts, ViewPartsNext DEF ViewOK
<1>5. CASE ~Takes(rep, k)
  <2>1. keyboard_send(<<>>)
    <3>1. keyboard_send(<<>> \o <<>>)
      BY <1>1, <1>5 DEF SendMake
    <3>2. <<>> \o <<>> = <<>>
      OBVIOUS
    <3> QED
      BY <3>1, <3>2
  <2>2. ~lost' => ~lost /\ View' = View
    BY <2>1, NothingView
  <2>3. missing'
    BY <1>2, <1>5, Zenon
  <2> QED
    BY <1>1, <1>3, <2>2, <2>3, ViewParts, ViewPartsNext DEF ViewOK
<1> QED
  BY <1>4, <1>5

LEMMA PressedAgainView ==
  ASSUME TypeOK, TypeOK', ViewOK, NEW k \in Keys, PressedAgain(k),
         UNCHANGED <<repeat, pressed, full, data>>
  PROVE  ViewOK'
<1> DEFINE r == Released(rep, k)
<1>1. SendMake(<<Break(k)>>, r, k) /\ Held(ref') = Held(ref) /\ k \in Held(ref)
  BY DEF PressedAgain
<1>2. missing' = (missing \/ ~Takes(r, k))
  BY <1>1 DEF SendMake
<1>3. r \in Seq(Repeating) /\ Range(r) \subseteq Range(rep)
  BY ReleasedType, ReleasedElements DEF TypeOK
<1> HIDE DEF r
<1>4. RepHeld'
  <2>1. Range(rep') \subseteq Range(r) \cup {k}
    BY <1>1, <1>3, SendMakeElements
  <2> QED
    BY <1>1, <1>3, <2>1, HeldNext DEF ViewOK, RepHeld
<1>5. CASE Takes(r, k)
  <2>1. keyboard_send(<<Break(k), Make(k)>>)
    <3>1. keyboard_send(<<Break(k)>> \o <<Make(k)>>)
      BY <1>1, <1>5 DEF SendMake
    <3>2. <<Break(k)>> \o <<Make(k)>> = <<Break(k), Make(k)>>
      BY TwoBytes
    <3> QED
      BY <3>1, <3>2
  <2>2. ~lost' => ~lost /\ View' = (View \cup {k}) \ Locks
    BY <2>1, AgainView
  <2>3. ~missing' => ~missing
    BY <1>2, <1>5, Zenon
  <2> QED
    BY <1>1, <1>4, <2>2, <2>3, ViewParts, ViewPartsNext DEF ViewOK
<1>6. CASE ~Takes(r, k)
  <2>1. keyboard_send(<<Break(k)>>)
    <3>1. keyboard_send(<<Break(k)>> \o <<>>)
      BY <1>1, <1>6 DEF SendMake
    <3>2. <<Break(k)>> \o <<>> = <<Break(k)>>
      BY ByteType, ConcatEmptySeq
    <3> QED
      BY <3>1, <3>2
  <2>2. ~lost' => ~lost /\ View' = View \ {k}
    BY <2>1, BreakView
  <2>3. missing'
    BY <1>2, <1>6, Zenon
  <2> QED
    BY <1>1, <1>4, <2>2, <2>3, ViewParts, ViewPartsNext DEF ViewOK
<1> QED
  BY <1>5, <1>6

LEMMA KeyView ==
  ASSUME TypeOK, TypeOK', ViewOK, NEW h \in Hosts, keystat_down(h) \/ keystat_up(h)
  PROVE  ViewOK'
<1>1. PICK k \in Keys : NoEffect \/ Pressed(k) \/ PressedAgain(k) \/ LetGo(k)
  BY DownEffect, UpEffect
<1>2. UNCHANGED <<repeat, pressed, full, data>>
  BY DEF keystat_down, keystat_up
<1> QED
  BY <1>1, <1>2, NoEffectView, PressedView, PressedAgainView, LetGoView

LEMMA ReleaseView ==
  ASSUME TypeOK, TypeOK', ViewOK, keystat_allrelease
  PROVE  ViewOK'
<1> DEFINE open == Held(ref) \ Locks
           ks == Filter(Codes, open)
<1>1. /\ ref' = [k \in Keys |-> IF k \in Locks THEN ref[k] ELSE NC]
      /\ keyboard_send([i \in 1 .. Len(ks) |-> Break(ks[i])])
      /\ rep' = IF repeat THEN Filter(rep, Keys \ Range(ks)) ELSE rep
      /\ UNCHANGED <<repeat, pressed, full, data, missing>>
  BY DEF keystat_allrelease
<1>2. ks \in Seq(Keys) /\ Range(ks) = open
  <2>1. open \in SUBSET Keys
    BY DEF Held
  <2> HIDE DEF open
  <2> QED
    BY <2>1, CodesOf
<1>3. Held(ref') \ Locks = {}
  BY <1>1 DEF Held
<1>4. ~lost' => ~lost /\ View' = View \ open
  <2> DEFINE V == Seen(pressed, full, data, Pending)
             bs == [i \in 1 .. Len(ks) |-> Break(ks[i])]
  <2>1. V \in SUBSET Keys /\ View = V \ Locks
    BY SeenKeys, ViewIs
  <2> HIDE DEF V, ks, open
  <2>2. bs \in Seq(Byte)
    BY <1>2, LenProperties, ElementOfSeq, ByteType
  <2>3. Taken(V, bs) = V \ open
    BY <1>2, <2>1, TakenAll
  <2> HIDE DEF bs
  <2>4. ~lost' => ~lost /\ View' = Taken(V, bs) \ Locks
    BY <1>1, <2>2, SendView DEF V, bs
  <2> QED
    BY <2>1, <2>3, <2>4
<1>5. RepHeld'
  <2>1. rep \in Seq(Repeating)
    BY DEF TypeOK
  <2>2. ASSUME repeat PROVE Range(rep') = {}
    <3> DEFINE S == Keys \ open
    <3> HIDE DEF S, ks, open
    <3>1. rep' = Filter(rep, S)
      BY <1>1, <1>2, <2>2, Zenon DEF S
    <3>2. /\ rep' \in Seq(Repeating)
          /\ \A i \in 1 .. Len(rep') : \E j \in 1 .. Len(rep) : rep'[i] = rep[j] /\ rep[j] \in S
      BY <2>1, <3>1, FilterProperties
    <3>3. \A k \in Range(rep') : k \in Range(rep) /\ k \in S
      BY <2>1, <3>2, RepElements
    <3>4. Range(rep) \subseteq Held(ref) /\ Range(rep) \subseteq Repeating
      BY <2>1, <2>2, RepElements DEF ViewOK, RepHeld
    <3>5. Range(rep) \subseteq open
      BY <3>4, NotALock DEF open
    <3> QED
      BY <3>3, <3>5 DEF S
  <2> QED
    BY <1>1, <2>2 DEF RepHeld
<1> HIDE DEF ks
<1> QED
  BY <1>1, <1>3, <1>4, <1>5, ViewParts, ViewPartsNext DEF ViewOK

LEMMA RepeatView ==
  ASSUME TypeOK, TypeOK', ViewOK, keyrepeat_proc
  PROVE  ViewOK'
<1> DEFINE k == Last(rep)
<1>1. /\ repeat /\ rep # <<>> /\ keyboard_send(<<Break(k), Make(k)>>)
      /\ UNCHANGED <<ref, repeat, rep, pressed, full, data, missing>>
  BY DEF keyrepeat_proc, keystat
<1>2. k \in Keys /\ k \in Held(ref) /\ k \notin Locks
  BY <1>1, LastHeld, NotALock DEF ViewOK, RepHeld
<1> HIDE DEF k
<1>3. ~lost' => ~lost /\ View' = (View \cup {k}) \ Locks
  BY <1>1, <1>2, AgainView
<1>4. RepHeld'
  BY <1>1 DEF ViewOK, RepHeld, Held
<1> QED
  BY <1>1, <1>2, <1>3, <1>4, ViewParts, ViewPartsNext DEF ViewOK

LEMMA SettingView ==
  ASSUME TypeOK, TypeOK', ViewOK, CarefulSetting
  PROVE  ViewOK'
<1>1. UNCHANGED <<ref, rep, ring, pressed, full, data, lost, missing>>
  BY DEF CarefulSetting, SetKeyRepeat, keybrd, history
<1>2. View' = View
  BY <1>1, UnchangedView
<1>3. RepHeld'
  <2>1. repeat' => repeat \/ Range(rep) = {}
    <3>1. ASSUME repeat', ~repeat PROVE Range(rep) = {}
      <4>1. rep = <<>>
        BY <3>1 DEF CarefulSetting
      <4> QED
        BY <4>1, EmptySeq DEF Range
    <3> QED
      BY <3>1
  <2> QED
    BY <1>1, <2>1, HeldNext DEF ViewOK, RepHeld
<1> QED
  BY <1>1, <1>2, <1>3, ViewParts, ViewPartsNext DEF ViewOK

(* A step that changes no key but locks.                                    *)
LEMMA LocksView ==
  ASSUME TypeOK, ViewOK, UNCHANGED <<repeat, rep>>,
         \A k \in Keys \ Locks : ref'[k] = ref[k]
  PROVE  Held(ref') \ Locks = Held(ref) \ Locks /\ RepHeld'
<1>1. Held(ref') \ Locks = Held(ref) \ Locks
  BY DEF Held
<1>2. Range(rep) \subseteq Repeating
  BY RepElements DEF TypeOK
<1>3. RepHeld'
  BY <1>1, <1>2, NotALock, HeldNext DEF ViewOK, RepHeld
<1> QED
  BY <1>1, <1>3

LEMMA CommandView ==
  ASSUME TypeOK, TypeOK', ViewOK, keystat_ctrlsend
  PROVE  ViewOK'
<1>1. UNCHANGED <<repeat, rep, ring, data, full, pressed, lost, missing>>
  BY DEF keystat_ctrlsend
<1>2. \A k \in Keys \ Locks : ref'[k] = ref[k]
  BY DEF keystat_ctrlsend, Command, RepeatParameter, LampParameter
<1>3. View' = View
  BY <1>1, UnchangedView
<1>4. Held(ref') \ Locks = Held(ref) \ Locks /\ RepHeld'
  BY <1>1, <1>2, LocksView
<1> QED
  BY <1>1, <1>3, <1>4, ViewParts, ViewPartsNext DEF ViewOK

LEMMA ReadView ==
  ASSUME TypeOK, TypeOK', ViewOK, keyboard_i41
  PROVE  ViewOK'
<1>1. /\ full' = FALSE /\ UNCHANGED <<keystat, ring, data, lost, missing>>
      /\ pressed' = IF full THEN Taken(pressed, <<data>>) ELSE pressed
  BY DEF keyboard_i41
<1>2. Pending' = Pending
  BY <1>1 DEF ring, Pending, Place
<1>3. pressed \in SUBSET Keys /\ pressed' \in SUBSET Keys
  BY DEF TypeOK
<1>4. Seen(pressed', full', data', Pending') = Seen(pressed, full, data, Pending)
  <2>1. Taken(pressed, <<>>) = pressed /\ Taken(pressed', <<>>) = pressed'
    BY <1>3, TakenNothing, Zenon
  <2>2. Seen(pressed', full', data', Pending') = Taken(pressed', Pending)
    BY <1>1, <1>2, <2>1 DEF Seen
  <2>3. CASE full
    <3>1. pressed' = Taken(pressed, <<data>>)
      BY <1>1, <2>3
    <3>2. Seen(pressed, full, data, Pending) = Taken(Taken(pressed, <<data>>), Pending)
      BY <2>3, Zenon DEF Seen
    <3> QED
      BY <2>2, <3>1, <3>2
  <2>4. CASE ~full
    <3>1. Seen(pressed, full, data, Pending) = Taken(Taken(pressed, <<>>), Pending)
      BY <2>4, Zenon DEF Seen
    <3> QED
      BY <1>1, <2>1, <2>2, <2>4, <3>1
  <2> QED
    BY <2>3, <2>4
<1>5. View' = View
  BY <1>4, ViewIs, ViewIsNext
<1>6. RepHeld'
  BY <1>1 DEF keystat, ViewOK, RepHeld, Held
<1> QED
  BY <1>1, <1>5, <1>6, ViewParts, ViewPartsNext DEF ViewOK, keystat

(* The callback moves a byte from the ring to the register, where it is     *)
(* still to be read; an answer says nothing of keys.                        *)
LEMMA CallbackView ==
  ASSUME TypeOK, TypeOK', ViewOK, keyboard_callback
  PROVE  ViewOK'
<1>1. UNCHANGED <<ref, repeat, rep, pressed, lost, missing>>
  BY DEF keyboard_callback, keystat, history
<1>2. Seen(pressed, full', data', Pending') = Seen(pressed, full, data, Pending)
  <2>1. CASE UNCHANGED <<ring, ctr, data, full>>
    BY <2>1 DEF ring, Pending, Place
  <2>2. CASE /\ ~full /\ full' = TRUE /\ ctr # <<>>
             /\ data' = Head(ctr) /\ UNCHANGED ring
    <3>1. Pending' = Pending
      BY <2>2 DEF ring, Pending, Place
    <3>2. data' \in Answers
      BY <2>2, HeadTailProperties DEF TypeOK
    <3>3. pressed \in SUBSET Keys
      BY DEF TypeOK
    <3>4. Taken(pressed, <<data'>>) = pressed /\ Taken(pressed, <<>>) = pressed
      BY <3>2, <3>3, TakenAnswer, TakenNothing, Zenon
    <3>5. /\ Seen(pressed, full, data, Pending) = Taken(Taken(pressed, <<>>), Pending)
          /\ Seen(pressed, full', data', Pending') = Taken(Taken(pressed, <<data'>>), Pending)
      BY <2>2, <3>1, Zenon DEF Seen
    <3> QED
      BY <3>4, <3>5
  <2>3. CASE /\ ~full /\ full' = TRUE /\ buffers # 0 /\ data' = buf[bufpos]
             /\ buffers' = buffers - 1 /\ bufpos' = Place(1)
             /\ buf' = [buf EXCEPT ![bufpos] = None]
    <3>1. RingOK
      BY TypeParts
    <3>2. Pending # <<>> /\ data' = Head(Pending) /\ Pending' = Tail(Pending)
      BY <2>3, <3>1, CallbackRing
    <3>3. Pending \in Seq(Stored) /\ pressed \in SUBSET Keys
      BY <3>1, PendingType DEF TypeOK
    <3>4. Pending = <<data'>> \o Pending'
      BY <3>2, <3>3, HeadThenTail
    <3>5. <<data'>> \in Seq(Stored) /\ Pending' \in Seq(Stored)
      BY <3>2, <3>3, HeadTailProperties
    <3>6. Taken(pressed, <<data'>> \o Pending') = Taken(Taken(pressed, <<data'>>), Pending')
      <4> DEFINE p == pressed  bs == <<data'>>  cs == Pending'
      <4>1. bs \in Seq(Stored) /\ cs \in Seq(Stored)
        BY <3>5
      <4> HIDE DEF p, bs, cs
      <4>2. Taken(p, bs \o cs) = Taken(Taken(p, bs), cs)
        BY <4>1, TakenConcat
      <4> QED
        BY <4>2 DEF p, bs, cs
    <3>7. Taken(pressed, <<>>) = pressed
      BY <3>3, TakenNothing
    <3>8. /\ Seen(pressed, full, data, Pending) = Taken(Taken(pressed, <<>>), Pending)
          /\ Seen(pressed, full', data', Pending') = Taken(Taken(pressed, <<data'>>), Pending')
      BY <2>3, Zenon DEF Seen
    <3> QED
      BY <3>4, <3>6, <3>7, <3>8
  <2> QED
    BY <2>1, <2>2, <2>3 DEF keyboard_callback
<1>3. View' = View
  BY <1>1, <1>2, ViewIs, ViewIsNext
<1>4. RepHeld'
  BY <1>1 DEF ViewOK, RepHeld, Held
<1> QED
  BY <1>1, <1>3, <1>4, ViewParts, ViewPartsNext DEF ViewOK

(* After a reset the guest is told anew what is down.                       *)
LEMMA ResetSignalView ==
  ASSUME TypeOK, TypeOK', keyboard_resetsignal
  PROVE  ViewOK'
<1>1. full' = FALSE /\ pressed' = {} /\ rep' = <<>>
  BY DEF keyboard_resetsignal
<1>2. Pending' = [i \in 1 .. Len(Resent) |-> Make(Resent[i])]
  BY TypeParts, ResetRing
<1>3. Seen(pressed', full', data', Pending') = Held(ref')
  <2>1. Seen(pressed', full', data', Pending') = Taken(Taken({}, <<>>), Pending')
    BY <1>1 DEF Seen
  <2>2. Taken({}, <<>>) = {}
    BY TakenNothing
  <2>3. Taken({}, Pending') = {} \cup Range(Resent)
    <3> DEFINE ks == Resent
    <3>1. ks \in Seq(Keys) /\ Pending' = [i \in 1 .. Len(ks) |-> Make(ks[i])]
      BY <1>2, ResentType
    <3> HIDE DEF ks
    <3>2. Taken({}, [i \in 1 .. Len(ks) |-> Make(ks[i])]) = {} \cup Range(ks)
      BY <3>1, TakenAll
    <3> QED
      BY <3>1, <3>2 DEF ks
  <2> QED
    BY <2>1, <2>2, <2>3, ResentType
<1>4. View' = Held(ref') \ Locks
  BY <1>3, ViewIsNext
<1>5. RepHeld'
  <2>1. Range(rep') = {}
    BY <1>1, EmptySeq DEF Range
  <2> QED
    BY <2>1 DEF RepHeld
<1> QED
  BY <1>4, <1>5, ViewPartsNext DEF ViewOK

LEMMA PccoreResetView ==
  ASSUME TypeOK, TypeOK', ViewOK, pccore_reset
  PROVE  ViewOK'
<1>1. /\ full' = FALSE /\ pressed' = {} /\ buffers' = 0
      /\ missing' = (Held(ref') # {}) /\ UNCHANGED <<repeat, rep>>
  BY DEF pccore_reset
<1>2. \A k \in Keys \ Locks : ref'[k] = ref[k]
  BY DEF pccore_reset
<1>3. View' = {}
  <2>1. Pending' = <<>>
    BY <1>1 DEF Pending
  <2>2. Taken({}, <<>>) = {}
    BY TakenNothing
  <2>3. Seen(pressed', full', data', Pending') = {}
    BY <1>1, <2>1, <2>2 DEF Seen
  <2> QED
    BY <2>3, ViewIsNext
<1>4. RepHeld'
  BY <1>1, <1>2, LocksView
<1>5. ~missing' => Held(ref') = {}
  BY <1>1, Zenon
<1> QED
  BY <1>3, <1>4, <1>5, ViewPartsNext DEF ViewOK

LEMMA ControlView ==
  ASSUME TypeOK, TypeOK', ViewOK, NEW dat \in Controls, keyboard_o43(dat)
  PROVE  ViewOK'
<1>1. CASE keyboard_resetsignal
  BY <1>1, ResetSignalView
<1>2. CASE UNCHANGED <<keystat, ring, ctr, data, full, running, irq, history>>
  <2>1. UNCHANGED <<ref, repeat, rep, ring, pressed, full, data, lost, missing>>
    BY <1>2 DEF keystat, history
  <2>2. View' = View
    BY <2>1, UnchangedView
  <2>3. RepHeld'
    BY <2>1 DEF ViewOK, RepHeld, Held
  <2> QED
    BY <2>1, <2>2, <2>3, ViewParts, ViewPartsNext DEF ViewOK
<1> QED
  BY <1>1, <1>2 DEF keyboard_o43

LEMMA StutterView ==
  ASSUME TypeOK, TypeOK', ViewOK, UNCHANGED vars
  PROVE  ViewOK'
<1>1. UNCHANGED <<ref, repeat, rep, ring, pressed, full, data, lost, missing>>
  BY DEF vars, keystat, keybrd, history
<1>2. View' = View
  BY <1>1, UnchangedView
<1>3. RepHeld'
  BY <1>1 DEF ViewOK, RepHeld, Held
<1> QED
  BY <1>1, <1>2, <1>3, ViewParts, ViewPartsNext DEF ViewOK

LEMMA InitView == Init => ViewOK
<1> SUFFICES ASSUME Init PROVE ViewOK
  OBVIOUS
<1>1. TypeOK
  BY TypesInit
<1>2. /\ rep = <<>> /\ full = FALSE /\ pressed = {} /\ buffers = 0
      /\ ref = [k \in Keys |-> NC]
  BY DEF Init
<1>3. RepHeld
  <2>1. Range(rep) = {}
    BY <1>2, EmptySeq DEF Range
  <2> QED
    BY <2>1 DEF RepHeld
<1>4. View = {}
  <2>1. Pending = <<>>
    BY <1>2 DEF Pending
  <2>2. Taken({}, <<>>) = {}
    BY TakenNothing
  <2>3. Seen(pressed, full, data, Pending) = {}
    BY <1>2, <2>1, <2>2 DEF Seen
  <2> QED
    BY <1>1, <2>3, ViewIs
<1>5. Held(ref) = {}
  BY <1>2 DEF Held
<1> QED
  BY <1>3, <1>4, <1>5, ViewParts DEF ViewOK

LEMMA NextView ==
  ASSUME TypeOK, TypeOK', ViewOK, [CarefulNext]_vars
  PROVE  ViewOK'
<1>1. CASE HostKeys
  BY <1>1, KeyView, ReleaseView, RepeatView DEF HostKeys
<1>6. CASE CarefulSetting
  BY <1>6, SettingView
<1>2. CASE Guest
  BY <1>2, ReadView, CommandView, ControlView DEF Guest
<1>3. CASE keyboard_callback
  BY <1>3, CallbackView
<1>4. CASE pccore_reset
  BY <1>4, PccoreResetView
<1>5. CASE UNCHANGED vars
  BY <1>5, StutterView
<1> QED
  BY <1>1, <1>2, <1>3, <1>4, <1>5, <1>6 DEF CarefulNext

LEMMA CarefulIsNext == CarefulNext => Next
BY DEF CarefulNext, CarefulSetting, Next, Host

LEMMA CarefulTypes == CarefulSpec => []TypeOK
<1>1. TypeOK /\ [CarefulNext]_vars => TypeOK'
  BY CarefulIsNext, TypesNext
<1> QED
  BY TypesInit, <1>1, PTL DEF CarefulSpec

LEMMA ViewInvariance == CarefulSpec => []ViewOK
<1>1. ViewOK /\ TypeOK /\ TypeOK' /\ [CarefulNext]_vars => ViewOK'
  BY NextView
<1> QED
  BY InitView, <1>1, CarefulTypes, PTL DEF CarefulSpec

(* No key is stuck: as long as the ring takes every byte, a key that the    *)
(* guest takes to be down once it has read all that waits is down, whatever *)
(* presses, releases, losses of focus, repeats, commands and resets came,   *)
(* and in whatever order the bytes are read between them.                   *)
THEOREM NeverStuck == CarefulSpec => []NoStuckKey
<1>1. ViewOK => NoStuckKey
  BY DEF ViewOK
<1> QED
  BY ViewInvariance, <1>1, PTL

(* And if no make code was withheld, it knows all the keys that are down.   *)
THEOREM GuestKnows == CarefulSpec => []KeysAgree
<1>1. ViewOK => KeysAgree
  BY DEF ViewOK
<1> QED
  BY ViewInvariance, <1>1, PTL

(* The only key that libretro's timer sends again is one that is down, if   *)
(* the option is switched on only with an empty repeat buffer.              *)
THEOREM RepeatsHeld == CarefulSpec => RepeatsHeldKey
<1>1. TypeOK /\ ViewOK /\ keyrepeat_proc => ref[Last(rep)] # NC
  <2> SUFFICES ASSUME TypeOK, ViewOK, keyrepeat_proc PROVE ref[Last(rep)] # NC
    OBVIOUS
  <2>1. repeat /\ rep # <<>>
    BY DEF keyrepeat_proc
  <2>2. Last(rep) \in Held(ref)
    BY <2>1, LastHeld DEF ViewOK, RepHeld
  <2> QED
    BY <2>2 DEF Held
<1>2. TypeOK /\ ViewOK /\ [CarefulNext]_vars => [keyrepeat_proc => ref[Last(rep)] # NC]_vars
  BY <1>1
<1> QED
  BY <1>2, CarefulTypes, ViewInvariance, PTL DEF CarefulSpec, RepeatsHeldKey

(* Where no menu switches the option, all of this holds without a condition.*)
THEOREM FixedOption ==
  ASSUME Settings = {}
  PROVE  Spec => [](NoStuckKey /\ KeysAgree)
<1>1. [Next]_vars => [CarefulNext]_vars
  BY DEF Next, CarefulNext, Host, SetKeyRepeat
<1>2. ViewOK => NoStuckKey /\ KeysAgree
  BY DEF ViewOK
<1> QED
  BY <1>1, <1>2, ViewInvariance, PTL DEF Spec, CarefulSpec
=============================================================================
