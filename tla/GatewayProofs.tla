--------------------------- MODULE GatewayProofs ---------------------------
(***************************************************************************)
(* What the program lets a request do and how it ends, proved for every    *)
(* configuration, every set of requests and containers, and every          *)
(* interleaving of them with the watcher and the shutdown.                 *)
(***************************************************************************)
EXTENDS Gateway, FiniteSetTheorems, TLAPS

----------------------------------------------------------------------------
(* Selections: the places that are kept can be listed from the first to    *)
(* the last, in one way only.                                              *)

\* e lists the places in K from the first to the last.
Enumerates(e, n, K) ==
    /\ n \in Nat
    /\ e \in [1 .. n -> K]
    /\ \A i, j \in 1 .. n : i < j => e[i] < e[j]
    /\ \A k \in K : \E i \in 1 .. n : e[i] = k

\* The elements of s at the n places that e lists.
Listed(s, e, n) == [j \in 1 .. n |-> s[e[j]]]

\* A list of different elements has as many as the set it lists.
LEMMA ListedCount ==
  ASSUME NEW n \in Nat, NEW K, NEW e \in [1 .. n -> K],
         \A i, j \in 1 .. n : e[i] = e[j] => i = j,
         \A k \in K : \E i \in 1 .. n : e[i] = k
  PROVE  IsFiniteSet(K) /\ Cardinality(K) = n
<1>1. ExistsBijection(1 .. n, K)
  <2>1. e \in Bijection(1 .. n, K)
    BY DEF Bijection, Injection, Surjection, IsInjective
  <2> QED BY <2>1 DEF ExistsBijection
<1>2. IsFiniteSet(1 .. n) /\ Cardinality(1 .. n) = n
  <2>1. IsFiniteSet(1 .. n) /\ Cardinality(1 .. n) = IF 1 > n THEN 0 ELSE n - 1 + 1
    BY FS_Interval
  <2> QED BY <2>1
<1> QED BY <1>1, <1>2, FS_Bijection

\* Places in order are different places.
LEMMA OrderedDiffer ==
  ASSUME NEW m \in Nat, NEW K \in SUBSET (1 .. m), NEW n, NEW e, Enumerates(e, n, K)
  PROVE  /\ \A i, j \in 1 .. n : e[i] = e[j] => i = j
         /\ \A i, j \in 1 .. n : e[i] <= e[j] => i <= j
<1> SUFFICES ASSUME NEW i \in 1 .. n, NEW j \in 1 .. n
             PROVE  (e[i] = e[j] => i = j) /\ (e[i] <= e[j] => i <= j)
  OBVIOUS
<1>0. n \in Nat /\ e \in [1 .. n -> K] /\ \A k \in K : k \in Nat
  BY DEF Enumerates
<1>1. e[i] \in K /\ e[j] \in K /\ i \in Nat /\ j \in Nat
  BY <1>0
<1>4. e[i] \in Nat /\ e[j] \in Nat
  BY <1>0, <1>1
<1>2. i < j \/ i = j \/ j < i
  BY <1>1
<1>3. (i < j => e[i] < e[j]) /\ (j < i => e[j] < e[i])
  BY DEF Enumerates
<1> QED BY <1>1, <1>2, <1>3, <1>4

\* The places listed up to the j-th are j.
LEMMA ListedUpTo ==
  ASSUME NEW m \in Nat, NEW K \in SUBSET (1 .. m), NEW n, NEW e, Enumerates(e, n, K),
         NEW j \in 1 .. n
  PROVE  Cardinality({h \in K : h <= e[j]}) = j
<1> DEFINE B == {h \in K : h <= e[j]}
           b == [i \in 1 .. j |-> e[i]]
<1>1. n \in Nat /\ j \in Nat /\ e \in [1 .. n -> K]
  BY DEF Enumerates
<1>p. \A k \in K : k \in Nat
  OBVIOUS
<1>o. \A i, h \in 1 .. n : (e[i] = e[h] => i = h) /\ (e[i] <= e[h] => i <= h)
  BY OrderedDiffer
<1> HIDE DEF B, b
<1>2. ASSUME NEW i \in 1 .. j PROVE i \in 1 .. n /\ e[i] \in B
  <2>1. i \in 1 .. n /\ j \in 1 .. n /\ e[i] \in K /\ e[j] \in K
    BY <1>1
  <2>2. e[i] \in Nat /\ e[j] \in Nat
    BY <1>p, <2>1
  <2>5. i \in Nat
    BY <1>1
  <2>3. i < j => e[i] < e[j]
    BY <2>1 DEF Enumerates
  <2>4. e[i] <= e[j]
    BY <1>1, <2>1, <2>2, <2>3, <2>5
  <2> QED BY <2>1, <2>4 DEF B
<1>3. b \in [1 .. j -> B]
  BY <1>2 DEF b
<1>4. \A i, h \in 1 .. j : b[i] = b[h] => i = h
  BY <1>2, <1>o DEF b
<1>5. \A k \in B : \E i \in 1 .. j : b[i] = k
  <2> SUFFICES ASSUME NEW k \in B PROVE \E i \in 1 .. j : e[i] = k
    BY DEF b
  <2>1. PICK i \in 1 .. n : e[i] = k
    BY DEF Enumerates, B
  <2>2. i <= j
    BY <1>o, <2>1 DEF B
  <2> QED BY <1>1, <2>1, <2>2
<1>6. Cardinality(B) = j
  BY <1>1, <1>3, <1>4, <1>5, ListedCount
<1> QED BY <1>6 DEF B

\* Every set of places can be listed.
LEMMA EnumerationExists ==
  ASSUME NEW m \in Nat, NEW K \in SUBSET (1 .. m)
  PROVE  /\ Cardinality(K) \in Nat /\ Cardinality(K) <= m
         /\ \E e : Enumerates(e, Cardinality(K), K)
<1> DEFINE below(i) == {h \in K : h <= i}
           n == Cardinality(K)
           up == [i \in K |-> Cardinality(below(i))]
<1>1. IsFiniteSet(1 .. m) /\ Cardinality(1 .. m) = m
  <2>1. IsFiniteSet(1 .. m) /\ Cardinality(1 .. m) = IF 1 > m THEN 0 ELSE m - 1 + 1
    BY FS_Interval
  <2> QED BY <2>1
<1>2. IsFiniteSet(K) /\ n <= m
  BY <1>1, FS_Subset
<1>3. n \in Nat
  BY <1>2, FS_CardinalityType
<1>4. \A i \in K : IsFiniteSet(below(i)) /\ Cardinality(below(i)) \in 1 .. n
  <2> SUFFICES ASSUME NEW i \in K
               PROVE  IsFiniteSet(below(i)) /\ Cardinality(below(i)) \in 1 .. n
    OBVIOUS
  <2>1. below(i) \in SUBSET K /\ i \in below(i)
    OBVIOUS
  <2> HIDE DEF below
  <2>2. IsFiniteSet(below(i)) /\ Cardinality(below(i)) <= n
    BY <1>2, <2>1, FS_Subset
  <2>3. Cardinality(below(i)) \in Nat
    BY <2>2, FS_CardinalityType
  <2>4. Cardinality(below(i)) # 0
    BY <2>1, <2>2, FS_EmptySet
  <2> QED BY <1>3, <2>2, <2>3, <2>4
<1>5. \A i, j \in K : i < j => up[i] < up[j]
  <2> SUFFICES ASSUME NEW i \in K, NEW j \in K, i < j
               PROVE  Cardinality(below(i)) < Cardinality(below(j))
    OBVIOUS
  <2>0. i \in Nat /\ j \in Nat /\ \A k \in K : k \in Nat
    OBVIOUS
  <2>1. ASSUME NEW h \in below(i) PROVE h \in below(j)
    <3>1. h \in K /\ h <= i /\ h \in Nat
      BY <2>0
    <3> QED BY <2>0, <3>1
  <2>4. j \in below(j) /\ j \notin below(i)
    BY <2>0
  <2>2. /\ IsFiniteSet(below(j))
        /\ Cardinality(below(i)) \in Nat /\ Cardinality(below(j)) \in Nat
    BY <1>3, <1>4
  <2> HIDE DEF below
  <2>3. /\ Cardinality(below(i)) <= Cardinality(below(j))
        /\ Cardinality(below(j)) = Cardinality(below(i)) => below(j) = below(i)
    BY <2>1, <2>2, FS_Subset
  <2> QED BY <2>1, <2>2, <2>3, <2>4
<1>6. up \in [K -> 1 .. n]
  BY <1>4
<1> HIDE DEF up
<1>7. up \in Surjection(K, 1 .. n)
  <2>1. \A i, j \in K : up[i] = up[j] => i = j
    <3> SUFFICES ASSUME NEW i \in K, NEW j \in K, up[i] = up[j] PROVE i = j
      OBVIOUS
    <3>1. i \in Nat /\ j \in Nat /\ up[i] \in Nat /\ up[j] \in Nat
      BY <1>3, <1>6
    <3>2. i < j \/ i = j \/ j < i
      BY <3>1
    <3> QED BY <1>5, <3>1, <3>2
  <2>2. up \in Injection(K, 1 .. n)
    BY <1>6, <2>1 DEF Injection, IsInjective
  <2>3. IsFiniteSet(1 .. n) /\ Cardinality(1 .. n) = n
    <3>1. IsFiniteSet(1 .. n) /\ Cardinality(1 .. n) = IF 1 > n THEN 0 ELSE n - 1 + 1
      BY <1>3, FS_Interval
    <3> QED BY <1>3, <3>1
  <2> QED BY <2>2, <2>3, FS_Injection
<1> DEFINE e == [j \in 1 .. n |-> CHOOSE i \in K : up[i] = j]
<1>8. \A j \in 1 .. n : e[j] \in K /\ up[e[j]] = j
  BY <1>7 DEF Surjection
<1> HIDE DEF n
<1>p. \A k \in K : k \in Nat
  OBVIOUS
<1>9. Enumerates(e, n, K)
  <2>1. e \in [1 .. n -> K]
    BY <1>8
  <2> HIDE DEF e
  <2>2. ASSUME NEW i \in 1 .. n, NEW j \in 1 .. n, i < j PROVE e[i] < e[j]
    <3>1. e[i] \in K /\ e[j] \in K /\ up[e[i]] = i /\ up[e[j]] = j
      BY <1>8
    <3>2. e[i] \in Nat /\ e[j] \in Nat
      BY <1>p, <3>1
    <3>3. e[i] < e[j] \/ e[i] = e[j] \/ e[j] < e[i]
      BY <3>2
    <3>4. i \in Nat /\ j \in Nat
      BY <1>3
    <3> QED BY <1>5, <2>2, <3>1, <3>2, <3>3, <3>4
  <2>3. ASSUME NEW k \in K PROVE \E i \in 1 .. n : e[i] = k
    <3>1. up[k] \in 1 .. n /\ e[up[k]] \in K /\ up[e[up[k]]] = up[k]
      BY <1>6, <1>8
    <3>2. e[up[k]] = k
      <4> DEFINE h == e[up[k]]
      <4>1. h \in K /\ up[h] = up[k] /\ up[k] \in 1 .. n
        BY <3>1
      <4> HIDE DEF h
      <4>4. h \in Nat /\ k \in Nat /\ up[k] \in Nat
        BY <1>3, <1>p, <4>1
      <4>2. h < k \/ h = k \/ k < h
        BY <4>1
      <4>3. h = k
        BY <1>5, <4>1, <4>2, <4>4
      <4> QED BY <4>3 DEF h
    <3> QED BY <3>1, <3>2
  <2> QED BY <1>3, <2>1, <2>2, <2>3 DEF Enumerates
<1> QED BY <1>2, <1>3, <1>9 DEF n

\* What is selected are the elements at the places listed.
LEMMA SelectedListed ==
  ASSUME NEW s, NEW m \in Nat, NEW K \in SUBSET (1 .. m), NEW n, NEW e, Enumerates(e, n, K)
  PROVE  Selected(s, K) = Listed(s, e, n)
<1> DEFINE UpTo(i) == Cardinality({h \in K : h <= i})
<1>1. Cardinality(K) = n
  <2>1. n \in Nat /\ e \in [1 .. n -> K] /\ \A k \in K : \E i \in 1 .. n : e[i] = k
    BY DEF Enumerates
  <2>2. \A i, j \in 1 .. n : e[i] = e[j] => i = j
    BY OrderedDiffer
  <2> QED BY <2>1, <2>2, ListedCount
<1>2. Selected(s, K) = [j \in 1 .. n |-> s[CHOOSE i \in K : UpTo(i) = j]]
  BY <1>1 DEF Selected
<1>3. \A j \in 1 .. n : UpTo(e[j]) = j
  BY ListedUpTo
<1> HIDE DEF UpTo
<1>4. ASSUME NEW j \in 1 .. n PROVE (CHOOSE i \in K : UpTo(i) = j) = e[j]
  <2>1. e[j] \in K
    BY DEF Enumerates
  <2>2. \A i \in K : UpTo(i) = j => i = e[j]
    BY <1>3 DEF Enumerates
  <2> QED BY <1>3, <2>1, <2>2
<1> QED BY <1>2, <1>4 DEF Listed

\* A selection is no longer than the list, and has only elements of it.
LEMMA SelectedType ==
  ASSUME NEW T, NEW s \in Seq(T), NEW K \in SUBSET (1 .. Len(s))
  PROVE  /\ Selected(s, K) \in Seq(T)
         /\ Len(Selected(s, K)) <= Len(s)
         /\ \A j \in 1 .. Len(Selected(s, K)) : \E i \in K : Selected(s, K)[j] = s[i]
<1> DEFINE m == Len(s)
           n == Cardinality(K)
<1>1. m \in Nat /\ \A i \in 1 .. m : s[i] \in T
  OBVIOUS
<1> HIDE DEF m
<1>2. n \in Nat /\ n <= m /\ K \in SUBSET (1 .. m) /\ \E e : Enumerates(e, n, K)
  BY <1>1, EnumerationExists DEF m
<1> HIDE DEF n
<1>3. PICK e : Enumerates(e, n, K)
  BY <1>2
<1>7. Selected(s, K) = Listed(s, e, n)
  BY <1>1, <1>2, <1>3, SelectedListed
<1>4. Selected(s, K) = [j \in 1 .. n |-> s[e[j]]]
  BY <1>7 DEF Listed
<1>5. \A j \in 1 .. n : e[j] \in K /\ s[e[j]] \in T
  BY <1>1, <1>2, <1>3 DEF Enumerates
<1>6. Selected(s, K) \in Seq(T) /\ Len(Selected(s, K)) = n
  BY <1>2, <1>4, <1>5
<1> QED BY <1>2, <1>4, <1>5, <1>6 DEF m

\* A selection of everything is the list.
LEMMA SelectedAll ==
  ASSUME NEW T, NEW s \in Seq(T)
  PROVE  Selected(s, 1 .. Len(s)) = s
<1> DEFINE m == Len(s)
           e == [i \in 1 .. m |-> i]
<1>1. m \in Nat /\ s = [i \in 1 .. m |-> s[i]]
  OBVIOUS
<1> HIDE DEF m
<1>2. Enumerates(e, m, 1 .. m)
  BY <1>1 DEF Enumerates
<1> HIDE DEF e
<1>3. Selected(s, 1 .. m) = Listed(s, e, m)
  BY <1>1, <1>2, SelectedListed
<1> QED BY <1>1, <1>3 DEF e, m, Listed

\* An element that is added is selected last, or leaves the selection as it is.
LEMMA SelectedAppend ==
  ASSUME NEW T, NEW s \in Seq(T), NEW x \in T, NEW K \in SUBSET (1 .. Len(s))
  PROVE  /\ Selected(Append(s, x), K) = Selected(s, K)
         /\ Selected(Append(s, x), K \cup {Len(s) + 1}) = Append(Selected(s, K), x)
<1> DEFINE m == Len(s)
           n == Cardinality(K)
           t == Append(s, x)
           L == K \cup {m + 1}
<1>1. m \in Nat /\ (\A i \in 1 .. m : t[i] = s[i] /\ s[i] \in T) /\ t[m + 1] = x
  OBVIOUS
<1> HIDE DEF m, t
<1>2. n \in Nat /\ K \in SUBSET (1 .. m) /\ \E e : Enumerates(e, n, K)
  BY <1>1, EnumerationExists DEF m
<1> HIDE DEF n
<1>3. PICK e : Enumerates(e, n, K)
  BY <1>2
<1>l. Selected(s, K) = Listed(s, e, n) /\ Selected(t, K) = Listed(t, e, n)
  BY <1>1, <1>2, <1>3, SelectedListed
<1>4. /\ Selected(s, K) = [j \in 1 .. n |-> s[e[j]]]
      /\ Selected(t, K) = [j \in 1 .. n |-> t[e[j]]]
  BY <1>l DEF Listed
<1>5. \A j \in 1 .. n : e[j] \in 1 .. m
  BY <1>2, <1>3 DEF Enumerates
<1>6. Selected(t, K) = Selected(s, K)
  BY <1>1, <1>4, <1>5
<1> DEFINE f == [j \in 1 .. n + 1 |-> IF j = n + 1 THEN m + 1 ELSE e[j]]
<1>7. L \in SUBSET (1 .. m + 1) /\ m + 1 \in Nat /\ n + 1 \in Nat
  BY <1>1, <1>2
<1>8. Enumerates(f, n + 1, L)
  <2>1. f \in [1 .. n + 1 -> L]
    BY <1>2, <1>3 DEF Enumerates
  <2>2. ASSUME NEW i \in 1 .. n + 1, NEW j \in 1 .. n + 1, i < j PROVE f[i] < f[j]
    <3>1. i \in 1 .. n /\ f[i] = e[i] /\ e[i] \in 1 .. m
      BY <1>2, <1>5, <2>2
    <3>2. CASE j = n + 1
      BY <1>1, <3>1, <3>2
    <3>3. CASE j # n + 1
      <4>1. j \in 1 .. n /\ f[j] = e[j]
        BY <1>2, <3>3
      <4> QED BY <1>3, <2>2, <3>1, <4>1 DEF Enumerates
    <3> QED BY <3>2, <3>3
  <2>3. ASSUME NEW k \in L PROVE \E i \in 1 .. n + 1 : f[i] = k
    <3>1. CASE k = m + 1
      <4>1. n + 1 \in 1 .. n + 1 /\ f[n + 1] = m + 1
        BY <1>2
      <4> QED BY <3>1, <4>1
    <3>2. CASE k # m + 1
      <4>1. PICK i \in 1 .. n : e[i] = k
        BY <1>3, <3>2 DEF Enumerates
      <4>2. i \in 1 .. n + 1 /\ f[i] = e[i]
        BY <1>2
      <4> QED BY <4>1, <4>2
    <3> QED BY <3>1, <3>2
  <2> QED BY <1>7, <2>1, <2>2, <2>3 DEF Enumerates
<1> HIDE DEF f, L
<1>9. Selected(t, L) = Listed(t, f, n + 1)
  BY <1>7, <1>8, SelectedListed
<1>10. Selected(t, L) = Append(Selected(s, K), x)
  <2>1. Selected(s, K) \in Seq(T) /\ Len(Selected(s, K)) = n
    BY <1>1, <1>2, <1>4, <1>5
  <2>2. Append(Selected(s, K), x) = [j \in 1 .. n + 1 |-> IF j = n + 1 THEN x ELSE s[e[j]]]
    BY <1>2, <1>4, <2>1
  <2>3. \A j \in 1 .. n + 1 : t[f[j]] = IF j = n + 1 THEN x ELSE s[e[j]]
    <3> SUFFICES ASSUME NEW j \in 1 .. n + 1
                 PROVE  t[f[j]] = IF j = n + 1 THEN x ELSE s[e[j]]
      OBVIOUS
    <3>1. CASE j = n + 1
      BY <1>1, <3>1 DEF f
    <3>2. CASE j # n + 1
      <4>1. j \in 1 .. n /\ f[j] = e[j]
        BY <1>2, <3>2 DEF f
      <4> QED BY <1>1, <1>5, <3>2, <4>1
    <3> QED BY <3>1, <3>2
  <2> QED BY <1>9, <2>2, <2>3 DEF Listed
<1> QED BY <1>6, <1>10 DEF L, m, t

\* A sequence has any type that all its elements have.
LEMMA SeqNarrows ==
  ASSUME NEW S, NEW T, NEW s \in Seq(S), \A j \in 1 .. Len(s) : s[j] \in T
  PROVE  s \in Seq(T)
OBVIOUS

----------------------------------------------------------------------------
(* The limiter's list.                                                     *)

USE GatewayAssumption

\* What counts of a list is no longer than it, and has the ages below Window.
LEMMA ValidType ==
  ASSUME NEW list \in Seq(0 .. Window)
  PROVE  /\ Valid(list) \in Seq(0 .. Window - 1) /\ Valid(list) \in Seq(0 .. Window)
         /\ Len(Valid(list)) <= Len(list)
         /\ \A j \in 1 .. Len(Valid(list)) : StillCounts(Valid(list)[j])
<1> DEFINE K == {i \in DOMAIN list : StillCounts(list[i])}
           v == Selected(list, K)
<1>1. K \in SUBSET (1 .. Len(list)) /\ v = Valid(list)
  BY DEF Valid
<1> HIDE DEF K
<1>2. /\ v \in Seq(0 .. Window) /\ Len(v) <= Len(list)
      /\ \A j \in 1 .. Len(v) : \E i \in K : v[j] = list[i]
  BY <1>1, SelectedType
<1>3. \A j \in 1 .. Len(v) : StillCounts(v[j])
  BY <1>2 DEF K
<1> HIDE DEF v
<1>4. \A j \in 1 .. Len(v) : v[j] \in 0 .. Window - 1
  BY <1>2, <1>3 DEF StillCounts
<1>5. v \in Seq(0 .. Window - 1)
  <2> DEFINE S == 0 .. Window
             T == 0 .. Window - 1
  <2> HIDE DEF S, T
  <2>1. v \in Seq(S) /\ \A j \in 1 .. Len(v) : v[j] \in T
    BY <1>2, <1>4 DEF S, T
  <2>2. v \in Seq(T)
    BY <2>1, SeqNarrows
  <2> QED BY <2>2 DEF T
<1> QED BY <1>1, <1>2, <1>3, <1>5

\* Where everything counts, nothing is dropped.
LEMMA AllValid ==
  ASSUME NEW list \in Seq(0 .. Window), \A i \in 1 .. Len(list) : StillCounts(list[i])
  PROVE  Valid(list) = list
<1>1. {i \in DOMAIN list : StillCounts(list[i])} = 1 .. Len(list)
  OBVIOUS
<1> QED BY <1>1, SelectedAll DEF Valid

\* A time that has just been noted counts.
LEMMA ValidAppend ==
  ASSUME NEW list \in Seq(0 .. Window)
  PROVE  Valid(Append(list, 0)) = Append(Valid(list), 0)
<1> DEFINE K == {i \in DOMAIN list : StillCounts(list[i])}
           new == Append(list, 0)
<1>1. 0 \in 0 .. Window /\ StillCounts(0)
  BY DEF StillCounts
<1>2. /\ DOMAIN new = 1 .. Len(list) + 1 /\ new[Len(list) + 1] = 0
      /\ \A i \in 1 .. Len(list) : new[i] = list[i]
  BY <1>1
<1>3. {i \in DOMAIN new : StillCounts(new[i])} = K \cup {Len(list) + 1}
  BY <1>1, <1>2
<1>4. K \in SUBSET (1 .. Len(list)) /\ Valid(list) = Selected(list, K)
  BY DEF Valid
<1> HIDE DEF K
<1>5. Selected(new, K \cup {Len(list) + 1}) = Append(Selected(list, K), 0)
  BY <1>1, <1>4, SelectedAppend
<1> QED BY <1>3, <1>4, <1>5 DEF Valid

\* Time passes for every element.
LEMMA OlderType ==
  ASSUME NEW list \in Seq(0 .. Window)
  PROVE  /\ Older(list) \in Seq(0 .. Window) /\ Len(Older(list)) = Len(list)
         /\ \A i \in 1 .. Len(list) : StillCounts(Older(list)[i]) => StillCounts(list[i])
<1>1. \A i \in 1 .. Len(list) : list[i] \in 0 .. Window
  OBVIOUS
<1>2. \A i \in 1 .. Len(list) : Older(list)[i] = IF list[i] < Window THEN list[i] + 1 ELSE list[i]
  BY DEF Older
<1>3. \A i \in 1 .. Len(list) : Older(list)[i] \in 0 .. Window
  BY <1>1, <1>2
<1>4. \A i \in 1 .. Len(list) : StillCounts(Older(list)[i]) => StillCounts(list[i])
  BY <1>1, <1>2 DEF StillCounts
<1>5. Older(list) = [i \in 1 .. Len(list) |-> Older(list)[i]]
  BY DEF Older
<1> HIDE DEF Older
<1> QED BY <1>3, <1>4, <1>5

\* What has been dropped would not count later either.
LEMMA ValidOlder ==
  ASSUME NEW list \in Seq(0 .. Window)
  PROVE  Valid(Older(Valid(list))) = Valid(Older(list))
<1> DEFINE m == Len(list)
           old == Older(list)
           K == {i \in DOMAIN list : StillCounts(list[i])}
           L == {i \in DOMAIN old : StillCounts(old[i])}
           v == Valid(list)
           oldv == Older(v)
           J == {j \in DOMAIN oldv : StillCounts(oldv[j])}
<1>1. m \in Nat /\ K \in SUBSET (1 .. m) /\ v = Selected(list, K)
  BY DEF Valid
<1>2. /\ old \in Seq(0 .. Window) /\ Len(old) = m
      /\ \A i \in 1 .. m : StillCounts(old[i]) => StillCounts(list[i])
  BY OlderType
<1>3. L \in SUBSET K /\ L \in SUBSET (1 .. m)
  <2>1. DOMAIN old = 1 .. m /\ DOMAIN list = 1 .. m
    BY <1>2
  <2> HIDE DEF old, m
  <2> QED BY <1>2, <2>1
<1>4. v \in Seq(0 .. Window)
  BY ValidType
<1> DEFINE n == Cardinality(K)
<1>5. n \in Nat /\ \E e : Enumerates(e, n, K)
  <2> HIDE DEF K, m
  <2> QED BY <1>1, EnumerationExists
<1>6. PICK e : Enumerates(e, n, K)
  BY <1>5
<1>7. v = Listed(list, e, n)
  <2> HIDE DEF K, m, n, v
  <2> QED BY <1>1, <1>6, SelectedListed
<1>8. \A j \in 1 .. n : e[j] \in K
  BY <1>6 DEF Enumerates
<1>9. /\ DOMAIN oldv = 1 .. n
      /\ \A j \in 1 .. n : oldv[j] = old[e[j]]
  <2>1. DOMAIN v = 1 .. n /\ \A j \in 1 .. n : v[j] = list[e[j]]
    BY <1>7 DEF Listed
  <2>2. /\ DOMAIN oldv = DOMAIN v
        /\ \A j \in DOMAIN v : oldv[j] = IF v[j] < Window THEN v[j] + 1 ELSE v[j]
    BY DEF Older
  <2>3. \A i \in 1 .. m : old[i] = IF list[i] < Window THEN list[i] + 1 ELSE list[i]
    BY DEF Older
  <2> HIDE DEF v, oldv, old, n
  <2>4. \A j \in 1 .. n : e[j] \in 1 .. m
    BY <1>1, <1>8
  <2> HIDE DEF K, m
  <2> QED BY <2>1, <2>2, <2>3, <2>4
<1>10. J \in SUBSET (1 .. n) /\ \A j \in 1 .. n : j \in J <=> e[j] \in L
  <2>1. \A j \in 1 .. n : e[j] \in DOMAIN old
    BY <1>1, <1>2, <1>8
  <2> HIDE DEF oldv, old, n
  <2> QED BY <1>9, <2>1
<1> HIDE DEF m, old, K, L, v, oldv, J, n
<1> DEFINE p == Cardinality(J)
<1>11. p \in Nat /\ \E g : Enumerates(g, p, J)
  BY <1>5, <1>10, EnumerationExists
<1> HIDE DEF p
<1>12. PICK g : Enumerates(g, p, J)
  BY <1>11
<1>13. Selected(oldv, J) = Listed(oldv, g, p)
  BY <1>5, <1>10, <1>12, SelectedListed
<1> DEFINE h == [i \in 1 .. p |-> e[g[i]]]
<1>14. \A i \in 1 .. p : g[i] \in 1 .. n /\ g[i] \in J
  BY <1>10, <1>12 DEF Enumerates
<1>15. Enumerates(h, p, L)
  <2>1. h \in [1 .. p -> L]
    BY <1>10, <1>14
  <2>2. \A i, j \in 1 .. p : i < j => h[i] < h[j]
    BY <1>6, <1>12, <1>14 DEF Enumerates
  <2>3. ASSUME NEW k \in L PROVE \E i \in 1 .. p : h[i] = k
    <3>1. PICK j \in 1 .. n : e[j] = k
      BY <1>3, <1>6 DEF Enumerates
    <3>2. PICK i \in 1 .. p : g[i] = j
      BY <1>10, <1>12, <3>1 DEF Enumerates
    <3> QED BY <3>1, <3>2
  <2> HIDE DEF h
  <2> QED BY <1>11, <2>1, <2>2, <2>3 DEF Enumerates
<1>16. Selected(old, L) = Listed(old, h, p)
  <2> HIDE DEF h
  <2> QED BY <1>1, <1>3, <1>15, SelectedListed
<1>17. Listed(old, h, p) = Listed(oldv, g, p)
  BY <1>9, <1>14 DEF Listed
<1>18. Selected(old, L) = Selected(oldv, J)
  BY <1>13, <1>16, <1>17
<1> QED BY <1>18 DEF Valid, old, L, v, oldv, J

----------------------------------------------------------------------------
(* The program's invariant.                                                *)

Shapes ==
    /\ stage \in Starting \cup {"serving"} \cup Stopping \cup {"exited"}
    /\ at \in [Request -> {"idle", "arrived", "handler", "calling", "upgraded"}]
    /\ req \in [Request -> Queries \cup {None}]
    /\ reply \in [Request -> {None} \cup Nat]

\* Nothing is served without a configuration that Load accepted, and the
\* registry never holds what its patterns exclude.
ConfigInv ==
    /\ stage = "load" => store = {}
    /\ watcher = "running" => stage \notin Starting
    /\ stage \notin {"load", "exited"} =>
          /\ Loads(env, args)
          /\ cfg = Loaded(env, args)
          /\ store \subseteq Allowed

\* No request comes before the server, and one that a handler has was let
\* through by the chain's tests.
ChainInv ==
    \A r \in Request :
        /\ at[r] # "idle" => stage \notin Starting
        /\ at[r] = "handler" => (Authenticated(req[r]) /\ ~Frozen(req[r]))

\* After Shutdown nobody is in flight who did not outlast it.
EndInv ==
    /\ stage = "waiting" => (timedOut \/ Drained)
    /\ CleanExit

IInv == Shapes /\ ConfigInv /\ ChainInv /\ EndInv

LEMMA InitInv == Init => IInv
  BY DEF Init, IInv, Shapes, ConfigInv, ChainInv, EndInv, CleanExit, Starting, Stopping

----------------------------------------------------------------------------
(* Steps of run.                                                           *)

LEMMA StartSteps ==
  ASSUME IInv, LoadsConfig \/ RejectsConfig \/ Pings \/ PingFails \/ Syncs \/ Killed
  PROVE  IInv'
<1> USE DEF IInv, Starting, Stopping
<1>1. Shapes'
  BY DEF Shapes, LoadsConfig, RejectsConfig, Pings, PingFails, Syncs, Killed, StepTo, ExitWith, requests
<1>2. \A r \in Request : at[r] = "idle" /\ at'[r] = "idle"
  BY DEF Shapes, ChainInv, LoadsConfig, RejectsConfig, Pings, PingFails, Syncs, Killed, StepTo, ExitWith, requests
<1>3. ConfigInv'
  <2>1. CASE LoadsConfig
    BY <2>1 DEF ConfigInv, LoadsConfig, StepTo, sources
  <2>2. CASE Pings
    BY <2>2 DEF ConfigInv, Pings, StepTo, sources, Allowed
  <2>3. CASE Syncs
    BY <2>3 DEF ConfigInv, Syncs, StepTo, sources, Allowed
  <2>4. CASE RejectsConfig \/ PingFails \/ Killed
    BY <2>4 DEF ConfigInv, RejectsConfig, PingFails, Killed, ExitWith
  <2> QED BY <2>1, <2>2, <2>3, <2>4
<1>4. ChainInv'
  BY <1>2 DEF ChainInv
<1>5. EndInv'
  BY DEF Shapes, EndInv, CleanExit, LoadsConfig, RejectsConfig, Pings, PingFails, Syncs, Killed, StepTo, ExitWith
<1> QED BY <1>1, <1>3, <1>4, <1>5

LEMMA StopSteps ==
  ASSUME IInv, ServerFails \/ Signalled \/ ShutdownStep
  PROVE  IInv'
<1> USE DEF IInv, Starting, Stopping, ShutdownStep
<1>1. UNCHANGED <<at, req, reply, sources, cfg, store>>
  BY DEF ServerFails, Signalled, ShutdownEnds, ShutdownTimesOut, WatcherEnds, Exits, StepTo, ExitWith, requests
<1>2. stage \notin Starting /\ stage # "exited" /\ stage' \notin Starting /\ Shapes'
  BY <1>1 DEF Shapes, ServerFails, Signalled, ShutdownEnds, ShutdownTimesOut, WatcherEnds, WatcherCancelled, Exits, StepTo, ExitWith
<1>3. ConfigInv'
  BY <1>1, <1>2 DEF ConfigInv, Allowed, sources
<1>4. ChainInv'
  BY <1>1, <1>2 DEF ChainInv, Authenticated, Frozen
<1>5. EndInv'
  BY DEF EndInv, CleanExit, Drained, InFlight, ServerFails, Signalled, ShutdownEnds, ShutdownTimesOut,
         WatcherEnds, WatcherCancelled, Exits, StepTo, ExitWith, requests
<1> QED BY <1>2, <1>3, <1>4, <1>5

LEMMA QuietSteps ==
  ASSUME IInv, WatcherWrites \/ Tick \/ UNCHANGED vars
  PROVE  IInv'
<1> USE DEF IInv, program, requests, sources
<1>1. UNCHANGED <<at, req, reply, env, args, cfg, stage, exit, watcher, timedOut>>
  BY DEF WatcherWrites, Tick, vars
<1>2. ConfigInv'
  <2>1. CASE WatcherWrites
    <3>1. stage \notin Starting
      BY <2>1 DEF ConfigInv, WatcherWrites
    <3>2. stage # "exited" => store' \subseteq Allowed
      BY <2>1, <3>1 DEF ConfigInv, WatcherWrites, Allowed, Starting
    <3> QED BY <1>1, <3>1, <3>2 DEF ConfigInv, Allowed, Starting
  <2>2. CASE UNCHANGED store
    BY <1>1, <2>2 DEF ConfigInv, Allowed
  <2> QED BY <2>1, <2>2 DEF Tick, vars
<1>3. Shapes' /\ ChainInv' /\ EndInv'
  BY <1>1 DEF Shapes, ChainInv, EndInv, CleanExit, Drained, InFlight, Authenticated, Frozen
<1> QED BY <1>2, <1>3

----------------------------------------------------------------------------
(* Steps of requests.                                                      *)

\* What every step of a request leaves alone.
LEMMA RequestFrame ==
  ASSUME IInv, NEW r \in Request, stage # "exited", UNCHANGED <<program, store>>,
         at' \in [Request -> {"idle", "arrived", "handler", "calling", "upgraded"}],
         req' \in [Request -> Queries \cup {None}], reply' \in [Request -> {None} \cup Nat],
         \A s \in Request \ {r} : at'[s] = at[s] /\ req'[s] = req[s],
         at'[r] # "idle" => stage \notin Starting,
         at'[r] = "handler" => (Authenticated(req'[r]) /\ ~Frozen(req'[r])),
         InFlight(r)' => (InFlight(r) \/ stage = "serving")
  PROVE  IInv'
<1> USE DEF IInv, program, sources
<1>1. Shapes' /\ ConfigInv'
  BY DEF Shapes, ConfigInv, Allowed
<1>2. ChainInv'
  BY DEF ChainInv, Authenticated, Frozen
<1>3. EndInv'
  BY DEF EndInv, CleanExit, Drained, InFlight
<1> QED BY <1>1, <1>2, <1>3

LEMMA AnswerSteps ==
  ASSUME IInv, NEW r \in Request, NEW status \in Nat, stage # "exited", Answer(r, status),
         UNCHANGED <<program, store>>
  PROVE  IInv'
<1>1. at' \in [Request -> {"idle", "arrived", "handler", "calling", "upgraded"}]
  BY DEF IInv, Shapes, Answer
<1>2. req' \in [Request -> Queries \cup {None}] /\ reply' \in [Request -> {None} \cup Nat]
  BY DEF IInv, Shapes, Answer
<1>3. at'[r] = "idle" /\ \A s \in Request \ {r} : at'[s] = at[s] /\ req'[s] = req[s]
  BY DEF IInv, Shapes, Answer
<1> QED BY <1>1, <1>2, <1>3, RequestFrame DEF InFlight

LEMMA ArrivalStep ==
  ASSUME IInv, NEW r \in Request, Arrives(r)
  PROVE  IInv'
<1>1. at' \in [Request -> {"idle", "arrived", "handler", "calling", "upgraded"}]
  BY DEF IInv, Shapes, Arrives
<1>2. req' \in [Request -> Queries \cup {None}] /\ reply' \in [Request -> {None} \cup Nat]
  BY DEF IInv, Shapes, Arrives
<1>3. at'[r] = "arrived" /\ \A s \in Request \ {r} : at'[s] = at[s] /\ req'[s] = req[s]
  BY DEF IInv, Shapes, Arrives
<1>4. stage = "serving" /\ UNCHANGED <<program, store>>
  BY DEF Arrives
<1> QED BY <1>1, <1>2, <1>3, <1>4, RequestFrame DEF Starting

LEMMA ChainSteps ==
  ASSUME IInv, NEW r \in Request, stage # "exited", Chain(r)
  PROVE  IInv'
<1>1. CASE Misses(r)
  BY <1>1, AnswerSteps DEF Misses
<1>2. CASE Refuses(r)
  BY <1>2, AnswerSteps DEF Refuses
<1>3. CASE TooMany(r)
  BY <1>3, AnswerSteps DEF TooMany
<1>4. CASE Admits(r)
  <2>1. UNCHANGED <<program, store, req, reply>> /\ at[r] = "arrived"
    BY <1>4 DEF Admits
  <2>2. at' \in [Request -> {"idle", "arrived", "handler", "calling", "upgraded"}]
    BY <1>4 DEF IInv, Shapes, Admits
  <2>3. at'[r] = "handler" /\ \A s \in Request \ {r} : at'[s] = at[s]
    BY <1>4 DEF IInv, Shapes, Admits
  <2>4. Authenticated(req[r]) /\ ~Frozen(req[r])
    BY <1>4 DEF Admits
  <2>5. /\ req' = req /\ req \in [Request -> Queries \cup {None}] /\ stage \notin Starting
        /\ reply' \in [Request -> {None} \cup Nat]
    BY <2>1 DEF IInv, Shapes, ChainInv
  <2> QED BY <2>1, <2>2, <2>3, <2>4, <2>5, RequestFrame DEF InFlight
<1> QED BY <1>1, <1>2, <1>3, <1>4 DEF Chain

LEMMA HandlerSteps ==
  ASSUME IInv, NEW r \in Request, stage # "exited", Handler(r)
  PROVE  IInv'
<1>1. CASE AnswersAtOnce(r)
  BY <1>1, AnswerSteps DEF AnswersAtOnce
<1>2. CASE EngineReturns(r)
  BY <1>2, AnswerSteps DEF EngineReturns
<1>3. CASE LooksUp(r) \/ Upgrades(r)
  <2>1. UNCHANGED <<program, store>> /\ at[r] = "handler"
    BY <1>3 DEF LooksUp, Upgrades
  <2>2. CASE \E status \in {200, 404, 501} : Answer(r, status)
    BY <2>1, <2>2, AnswerSteps
  <2>3. CASE Invokes(r)
    <3>1. at' = [at EXCEPT ![r] = "calling"] /\ req' = req /\ reply' = reply
      BY <2>3 DEF Invokes
    <3>2. at' \in [Request -> {"idle", "arrived", "handler", "calling", "upgraded"}]
      BY <3>1 DEF IInv, Shapes
    <3>3. at'[r] = "calling" /\ \A s \in Request \ {r} : at'[s] = at[s]
      BY <3>1 DEF IInv, Shapes
    <3>4. /\ req' \in [Request -> Queries \cup {None}] /\ stage \notin Starting
          /\ reply' \in [Request -> {None} \cup Nat]
      BY <2>1, <3>1 DEF IInv, Shapes, ChainInv
    <3> QED BY <2>1, <3>1, <3>2, <3>3, <3>4, RequestFrame DEF InFlight
  <2> QED BY <1>3, <2>2, <2>3 DEF LooksUp, NotFound, Shows, Upgrades, WriterMethods
<1> QED BY <1>1, <1>2, <1>3 DEF Handler

LEMMA NextInv == IInv /\ [Next]_vars => IInv'
<1> SUFFICES ASSUME IInv, [Next]_vars PROVE IInv'
  OBVIOUS
<1>1. CASE \E r \in Request : stage # "exited" /\ (Arrives(r) \/ Chain(r) \/ Handler(r))
  BY <1>1, ArrivalStep, ChainSteps, HandlerSteps
<1>2. CASE ~ \E r \in Request : stage # "exited" /\ (Arrives(r) \/ Chain(r) \/ Handler(r))
  BY <1>2, StartSteps, StopSteps, QuietSteps DEF Next
<1> QED BY <1>1, <1>2

\* The invariant holds throughout.
THEOREM Invariance == Spec => []IInv
  BY InitInv, NextInv, PTL DEF Spec

----------------------------------------------------------------------------
(* What follows from it.                                                   *)

\* A call or a revealing answer is the step of a handler that the chain let the
\* request reach, with a container of the registry.
LEMMA ActsAfterChain ==
  ASSUME IInv, [Next]_vars, NEW r \in Request, Calls(r) \/ Reveals(r)
  PROVE  /\ at[r] = "handler" /\ cfg = Loaded(env, args) /\ Loads(env, args)
         /\ store \subseteq Allowed
         /\ Authenticated(req[r]) /\ ~Frozen(req[r]) /\ req[r].route # "health"
         /\ Calls(r) => (req[r].route \in Mutations /\ req[r].id \in store)
         /\ (Reveals(r) /\ req[r].route # "list") => req[r].id \in store
<1>1. PICK s \in Request : stage # "exited" /\ (Arrives(s) \/ Chain(s) \/ Handler(s))
  <2>1. at' # at \/ reply' # reply
    BY DEF Calls, Reveals
  <2> QED BY <2>1 DEF Next, LoadsConfig, RejectsConfig, Pings, PingFails, Syncs, Killed, StepTo, ExitWith,
       ServerFails, Signalled, ShutdownStep, ShutdownEnds, ShutdownTimesOut, WatcherEnds, Exits,
       WatcherWrites, Tick, vars, requests
<1>2. CASE Arrives(s) \/ Chain(s)
  BY <1>2 DEF IInv, Shapes, Calls, Reveals, Arrives, Chain, Misses, Refuses, TooMany, Admits, Answer
<1>3. CASE Handler(s)
  <2>1. s = r
    BY <1>3 DEF IInv, Shapes, Calls, Reveals, Handler, AnswersAtOnce, LooksUp, NotFound, Shows, Invokes,
         EngineReturns, Upgrades, WriterMethods, Answer
  <2>2. at[r] = "handler"
    BY <1>3, <2>1 DEF IInv, Shapes, Calls, Reveals, Handler, AnswersAtOnce, LooksUp,
         EngineReturns, Upgrades, WriterMethods, Answer
  <2>3. /\ cfg = Loaded(env, args) /\ Loads(env, args) /\ store \subseteq Allowed
        /\ Authenticated(req[r]) /\ ~Frozen(req[r])
    BY <1>1, <2>2 DEF IInv, ConfigInv, ChainInv, Starting
  <2>4. Calls(r) => (req[r].route \in Mutations /\ req[r].id \in store)
    BY <1>3, <2>1 DEF IInv, Shapes, Calls, Handler, AnswersAtOnce, LooksUp, NotFound, Shows, Invokes,
         EngineReturns, Upgrades, WriterMethods, Answer, Known
  <2>5. Reveals(r) => Shows(r) \/ req[r].route = "list"
    BY <1>3, <2>1 DEF IInv, Shapes, Reveals, Handler, AnswersAtOnce, LooksUp, NotFound, Invokes,
         EngineReturns, Upgrades, WriterMethods, Answer
  <2>6. req[r].route # "health"
    BY <2>4 DEF Reveals, Mutations
  <2> QED BY <2>2, <2>3, <2>4, <2>5, <2>6 DEF Shows, Known
<1> QED BY <1>1, <1>2, <1>3

\* The registry's patterns hold for every request, whatever the watcher does
\* between the request's arrival and the handler's look.
THEOREM PatternsHold == Spec => OnlyAllowed
<1>1. ASSUME IInv, [Next]_vars, NEW r \in Request
      PROVE  /\ Calls(r) => IsAllowed(cfg, req[r].id)
             /\ Reveals(r) => Shown(r) \subseteq Allowed
  BY <1>1, ActsAfterChain DEF Allowed, Shown
<1>2. IInv /\ [Next]_vars => [\A r \in Request : 
          /\ Calls(r) => IsAllowed(cfg, req[r].id)
          /\ Reveals(r) => Shown(r) \subseteq Allowed]_vars
  BY <1>1
<1> QED BY <1>2, Invariance, PTL DEF OnlyAllowed, Spec

\* So does the token: with none set, only this machine can connect.
THEOREM TokenHolds == Spec => Guarded
<1>1. ASSUME IInv, [Next]_vars, NEW r \in Request, Calls(r) \/ Reveals(r)
      PROVE  \/ cfg.token # Empty /\ cfg.token \in req[r].tokens
             \/ cfg.token = Empty /\ cfg.listen_addr \in Loopback
  BY <1>1, ActsAfterChain DEF Loads, Validate, IsNonLoopback, Authenticated, AuthenticateRequest, IsRequired
<1>2. IInv /\ [Next]_vars => [\A r \in Request : (Calls(r) \/ Reveals(r)) =>
          \/ cfg.token # Empty /\ cfg.token \in req[r].tokens
          \/ cfg.token = Empty /\ cfg.listen_addr \in Loopback]_vars
  BY <1>1
<1> QED BY <1>2, Invariance, PTL DEF Guarded, Spec

\* And the read-only switch, wherever it was set.
THEOREM ReadOnlyIsReadOnly == Spec => ReadOnlyHolds
<1>1. ASSUME IInv, [Next]_vars, NEW r \in Request, Calls(r)
      PROVE  ~ReadOnlyAsked
  <2>1. /\ cfg = Loaded(env, args) /\ Loads(env, args)
        /\ ~Frozen(req[r]) /\ req[r].route \in Posts
    BY <1>1, ActsAfterChain DEF Posts
  <2>2. "read_only" \in Option /\ "read_only" \in Parsed
    BY DEF Option, DefaultConfig, Parsed
  <2>3. Loaded(env, args)["read_only"] = Chosen(env, args)["read_only"]
    BY <2>2 DEF Loaded, Chosen
  <2>4. ReadOnlyAsked => Chosen(env, args)["read_only"] = TRUE
    BY <2>1, <2>2, ConfigAssumption DEF ReadOnlyAsked, Chosen, Readable
  <2> QED BY <2>1, <2>3, <2>4 DEF Frozen
<1>2. IInv /\ [Next]_vars => [\A r \in Request : Calls(r) => ~ReadOnlyAsked]_vars
  BY <1>1
<1> QED BY <1>2, Invariance, PTL DEF ReadOnlyHolds, Spec

\* No request is cut off by a clean exit without its ten seconds.
THEOREM ExitsCleanly == Spec => []CleanExit
<1>1. IInv => CleanExit
  BY DEF IInv, EndInv
<1> QED BY <1>1, Invariance, PTL

----------------------------------------------------------------------------
(* Types and the limiter.  What passed counts is what counts of the        *)
(* limiter's list: that is why its length bounds the requests that really  *)
(* passed, and why a refusal means that they did.                          *)

LimiterInv ==
    \A a \in Remote :
        /\ passed[a] = Valid(limits[a])
        /\ Len(passed[a]) <= Rate

FullInv == TypeOK /\ LimiterInv

LEMMA InitFull == Init => FullInv
<1> SUFFICES ASSUME Init PROVE FullInv
  OBVIOUS
<1>1. <<>> \in Seq(0 .. Window) /\ <<>> \in Seq(0 .. Window - 1) /\ Len(<<>>) = 0
  OBVIOUS
<1>2. Valid(<<>>) = <<>>
  <2> DEFINE none == <<>>
  <2>1. none \in Seq(0 .. Window) /\ \A i \in 1 .. Len(none) : StillCounts(none[i])
    BY <1>1
  <2> HIDE DEF none
  <2>2. Valid(none) = none
    BY <2>1, AllValid
  <2> QED BY <2>2 DEF none
<1>3. LimiterInv
  <2>1. \A a \in Remote : limits[a] = <<>> /\ passed[a] = <<>>
    BY DEF Init
  <2>2. 0 <= Rate
    OBVIOUS
  <2> QED BY <1>1, <1>2, <2>1, <2>2 DEF LimiterInv
<1>4. TypeOK
  BY <1>1 DEF Init, TypeOK, Starting
<1> QED BY <1>3, <1>4 DEF FullInv

\* What a step does that leaves the limiter alone.
LEMMA LimiterFrame ==
  ASSUME FullInv, UNCHANGED <<limits, passed>>
  PROVE  /\ LimiterInv'
         /\ limits' \in [Remote -> Seq(0 .. Window)]
         /\ passed' \in [Remote -> Seq(0 .. Window - 1)]
<1>1. LimiterInv'
  BY DEF FullInv, LimiterInv
<1> QED BY <1>1 DEF FullInv, TypeOK

\* Steps of run and of the watcher.
LEMMA RunKeepsTypes ==
  ASSUME FullInv, \/ LoadsConfig \/ RejectsConfig \/ Pings \/ PingFails \/ Syncs \/ Killed
                  \/ ServerFails \/ Signalled \/ ShutdownStep \/ WatcherWrites \/ UNCHANGED vars
  PROVE  FullInv'
<1> USE DEF Starting, Stopping, ShutdownStep
<1>1. UNCHANGED <<limits, passed, at, req, reply, env, args>>
  BY DEF LoadsConfig, RejectsConfig, Pings, PingFails, Syncs, Killed, ServerFails, Signalled,
         ShutdownEnds, ShutdownTimesOut, WatcherEnds, Exits, WatcherWrites, StepTo, ExitWith,
         vars, program, sources, requests
<1>2. store' \subseteq Container
  BY DEF FullInv, TypeOK, LoadsConfig, RejectsConfig, Pings, PingFails, Syncs, Killed, ServerFails, Signalled,
         ShutdownEnds, ShutdownTimesOut, WatcherEnds, Exits, WatcherWrites, StepTo, ExitWith, vars
<1>3. cfg' # None => (Loads(env, args) /\ cfg' = Loaded(env, args))
  BY DEF FullInv, TypeOK, LoadsConfig, RejectsConfig, Pings, PingFails, Syncs, Killed, ServerFails, Signalled,
         ShutdownEnds, ShutdownTimesOut, WatcherEnds, Exits, WatcherWrites, StepTo, ExitWith,
         vars, program, sources
<1>4. /\ stage' \in Starting \cup {"serving"} \cup Stopping \cup {"exited"}
      /\ exit' \in {None, 0, 1, 2, -1}
      /\ watcher' \in {"none", "running", "ended"}
      /\ timedOut' \in BOOLEAN
  BY DEF FullInv, TypeOK, LoadsConfig, RejectsConfig, Pings, PingFails, Syncs, Killed, ServerFails, Signalled,
         ShutdownEnds, ShutdownTimesOut, WatcherEnds, Exits, WatcherWrites, StepTo, ExitWith,
         vars, program, sources
<1>5. TypeOK'
  BY <1>1, <1>2, <1>3, <1>4 DEF FullInv, TypeOK
<1> QED BY <1>1, <1>5, LimiterFrame DEF FullInv

\* Time passes: what had been dropped from the limiter's list would not count
\* any more, and what has passed only grows old.
LEMMA TickKeeps ==
  ASSUME FullInv, Tick
  PROVE  FullInv'
<1>1. UNCHANGED <<program, store, requests>>
  BY DEF Tick
<1>2. ASSUME NEW a \in Remote
      PROVE  /\ limits'[a] \in Seq(0 .. Window)
             /\ passed'[a] \in Seq(0 .. Window - 1)
             /\ passed'[a] = Valid(limits'[a])
             /\ Len(passed'[a]) <= Rate
  <2> DEFINE l == limits[a]
             p == passed[a]
  <2>1. l \in Seq(0 .. Window) /\ p = Valid(l) /\ Len(p) <= Rate
    BY DEF FullInv, TypeOK, LimiterInv
  <2>2. limits'[a] = Older(l) /\ passed'[a] = Valid(Older(p))
    BY DEF Tick, Recent, Valid, StillCounts
  <2> HIDE DEF l, p
  <2>3. p \in Seq(0 .. Window)
    BY <2>1, ValidType
  <2>4. Older(l) \in Seq(0 .. Window) /\ Older(p) \in Seq(0 .. Window) /\ Len(Older(p)) = Len(p)
    BY <2>1, <2>3, OlderType
  <2>5. Valid(Older(p)) = Valid(Older(l))
    BY <2>1, ValidOlder
  <2>6. Valid(Older(p)) \in Seq(0 .. Window - 1) /\ Len(Valid(Older(p))) <= Len(p)
    BY <2>4, ValidType
  <2>7. Len(Valid(Older(p))) <= Rate
    BY <2>1, <2>3, <2>6
  <2> QED BY <2>2, <2>4, <2>5, <2>6, <2>7
<1>3. DOMAIN limits' = Remote /\ DOMAIN passed' = Remote
  BY DEF Tick
<1>4. limits' \in [Remote -> Seq(0 .. Window)] /\ passed' \in [Remote -> Seq(0 .. Window - 1)]
  <2>1. limits' = [a \in Remote |-> limits'[a]] /\ passed' = [a \in Remote |-> passed'[a]]
    BY DEF Tick
  <2> QED BY <1>2, <2>1
<1>5. TypeOK'
  BY <1>1, <1>4 DEF FullInv, TypeOK, program, requests, sources
<1> QED BY <1>2, <1>5 DEF FullInv, LimiterInv

\* A refused request leaves what counts, and one that passes adds itself where
\* there was room.
LEMMA LimiterDecides ==
  ASSUME FullInv, NEW r \in Request, TooMany(r) \/ Admits(r)
  PROVE  /\ LimiterInv'
         /\ limits' \in [Remote -> Seq(0 .. Window)]
         /\ passed' \in [Remote -> Seq(0 .. Window - 1)]
<1> DEFINE a == req[r].remote
           l == limits[a]
<1>1. a \in Remote
  <2>1. req[r] \in Queries
    BY DEF FullInv, TypeOK, TooMany, Admits
  <2> QED BY <2>1
<1>2. /\ l \in Seq(0 .. Window) /\ passed[a] = Valid(l)
      /\ limits \in [Remote -> Seq(0 .. Window)] /\ passed \in [Remote -> Seq(0 .. Window - 1)]
      /\ Len(passed[a]) <= Rate
  BY <1>1 DEF FullInv, TypeOK, LimiterInv
<1> HIDE DEF l
<1>3. /\ Valid(l) \in Seq(0 .. Window) /\ Valid(l) \in Seq(0 .. Window - 1)
      /\ Valid(Valid(l)) = Valid(l)
  BY <1>2, ValidType, AllValid
<1>4. CASE UNCHANGED <<limits, passed>>
  BY <1>4, LimiterFrame
<1>5. CASE limits' = [limits EXCEPT ![a] = Valid(l)] /\ passed' = passed
  <2>1. LimiterInv'
    BY <1>1, <1>2, <1>3, <1>5 DEF FullInv, LimiterInv
  <2> QED BY <1>1, <1>2, <1>3, <1>5, <2>1
<1>6. CASE /\ limits' = [limits EXCEPT ![a] = Append(Valid(l), 0)]
           /\ passed' = [passed EXCEPT ![a] = Append(passed[a], 0)]
           /\ HasRoom(Valid(l))
  <2> DEFINE new == Append(Valid(l), 0)
  <2>1. /\ new \in Seq(0 .. Window) /\ new \in Seq(0 .. Window - 1)
        /\ Len(new) = Len(Valid(l)) + 1
    BY <1>3
  <2>2. Valid(new) = new
    BY <1>3, ValidAppend
  <2>3. Len(new) <= Rate
    BY <1>3, <1>6, <2>1 DEF HasRoom
  <2>4. limits'[a] = new /\ passed'[a] = new
    BY <1>1, <1>2, <1>6
  <2>5. \A b \in Remote \ {a} : limits'[b] = limits[b] /\ passed'[b] = passed[b]
    BY <1>2, <1>6
  <2> HIDE DEF new
  <2>6. LimiterInv'
    BY <1>1, <2>2, <2>3, <2>4, <2>5 DEF FullInv, LimiterInv
  <2>7. limits' \in [Remote -> Seq(0 .. Window)] /\ passed' \in [Remote -> Seq(0 .. Window - 1)]
    BY <1>1, <1>2, <1>6, <2>1 DEF new
  <2> QED BY <2>6, <2>7
<1> QED BY <1>4, <1>5, <1>6 DEF TooMany, Admits, Limited, AfterRefusal, l

\* Steps of requests.
LEMMA RequestKeepsTypes ==
  ASSUME FullInv, NEW r \in Request, Arrives(r) \/ Chain(r) \/ Handler(r)
  PROVE  FullInv'
<1>1. UNCHANGED <<program, store>>
  BY DEF Arrives, Chain, Misses, Refuses, TooMany, Admits,
         Handler, AnswersAtOnce, LooksUp, EngineReturns, Upgrades
<1>2. /\ LimiterInv'
      /\ limits' \in [Remote -> Seq(0 .. Window)]
      /\ passed' \in [Remote -> Seq(0 .. Window - 1)]
  BY LimiterFrame, LimiterDecides
     DEF Arrives, Chain, Misses, Refuses, Handler, AnswersAtOnce, LooksUp, EngineReturns, Upgrades
<1> DEFINE Moved(progress, query, status) ==
              /\ at' = [at EXCEPT ![r] = progress]
              /\ req' = [req EXCEPT ![r] = query]
              /\ reply' = [reply EXCEPT ![r] = status]
<1>3. \/ \E status \in {200, 401, 403, 404, 429, 500, 501, 503} : Moved("idle", None, status)
      \/ \E q \in Queries : Moved("arrived", q, None)
      \/ \E progress \in {"handler", "calling", "upgraded"} :
            /\ at[r] # "idle" /\ at' = [at EXCEPT ![r] = progress]
            /\ UNCHANGED <<req, reply>>
  <2>1. CASE Arrives(r)
    <3>1. PICK q \in Queries : req' = [req EXCEPT ![r] = q]
      BY <2>1, Zenon DEF Arrives
    <3>2. Moved("arrived", q, None)
      BY <2>1, <3>1, Zenon DEF Arrives
    <3> HIDE DEF Moved
    <3> QED BY <3>2, Zenon
  <2>a. ASSUME NEW status \in {200, 401, 403, 404, 429, 500, 501, 503}, Answer(r, status)
        PROVE  Moved("idle", None, status)
    BY <2>a, Zenon DEF Answer
  <2> HIDE DEF Moved
  <2>2. CASE Chain(r)
    <3>1. CASE Misses(r)
      BY <2>a, <3>1 DEF Misses
    <3>2. CASE Refuses(r)
      BY <2>a, <3>2 DEF Refuses
    <3>3. CASE TooMany(r)
      BY <2>a, <3>3 DEF TooMany
    <3>4. CASE Admits(r)
      BY <3>4 DEF Admits
    <3> QED BY <2>2, <3>1, <3>2, <3>3, <3>4 DEF Chain
  <2>3. CASE Handler(r)
    <3>1. CASE AnswersAtOnce(r)
      BY <2>a, <3>1 DEF AnswersAtOnce
    <3>2. CASE LooksUp(r)
      BY <2>a, <3>2 DEF LooksUp, NotFound, Shows, Invokes
    <3>3. CASE EngineReturns(r)
      BY <2>a, <3>3 DEF EngineReturns
    <3>4. CASE Upgrades(r)
      BY <2>a, <3>4 DEF Upgrades, WriterMethods
    <3> QED BY <2>3, <3>1, <3>2, <3>3, <3>4 DEF Handler
  <2> QED BY <2>1, <2>2, <2>3
<1> DEFINE Typed ==
              /\ at \in [Request -> {"idle", "arrived", "handler", "calling", "upgraded"}]
              /\ req \in [Request -> Queries \cup {None}]
              /\ reply \in [Request -> {None, 200, 401, 403, 404, 429, 500, 501, 503}]
              /\ \A s \in Request : at[s] = "idle" <=> req[s] = None
<1>4. Typed'
  <2>0. Typed
    BY DEF FullInv, TypeOK
  <2>1. ASSUME NEW status \in {200, 401, 403, 404, 429, 500, 501, 503}, Moved("idle", None, status)
        PROVE  Typed'
    BY <2>0, <2>1
  <2>2. ASSUME NEW q \in Queries, Moved("arrived", q, None)
        PROVE  Typed'
    BY <2>0, <2>2
  <2>3. ASSUME NEW progress \in {"handler", "calling", "upgraded"},
               at[r] # "idle", at' = [at EXCEPT ![r] = progress], UNCHANGED <<req, reply>>
        PROVE  Typed'
    BY <2>0, <2>3
  <2> QED BY <1>3, <2>1, <2>2, <2>3
<1>5. TypeOK'
  BY <1>1, <1>2, <1>4 DEF FullInv, TypeOK, program, sources
<1> QED BY <1>2, <1>5 DEF FullInv

LEMMA NextFull == FullInv /\ [Next]_vars => FullInv'
BY RunKeepsTypes, TickKeeps, RequestKeepsTypes DEF Next

\* Types, and the limiter's books.
THEOREM FullInvariance == Spec => []FullInv
  BY InitFull, NextFull, PTL DEF Spec

\* Every variable keeps its type: a slot without a progress has no request, a
\* configuration is one that Load accepted.
THEOREM TypeCorrect == Spec => []TypeOK
<1>1. FullInv => TypeOK
  BY DEF FullInv
<1> QED BY <1>1, FullInvariance, PTL

\* No remote address gets more requests through than the rate allows, for any
\* rate, window and interleaving (RateLimiter.Allow).
THEOREM BurstsBounded == Spec => []BurstBound
<1>1. FullInv => BurstBound
  BY DEF FullInv, LimiterInv, BurstBound
<1> QED BY <1>1, FullInvariance, PTL

\* And a request is refused for its rate only if that many really passed.
THEOREM RefusalsJustified == Spec => RefusedOnlyWhenFull
<1>1. ASSUME FullInv, [Next]_vars, NEW r \in Request, reply[r] # 429, reply'[r] = 429
      PROVE  Len(passed[req[r].remote]) >= Rate
  <2>1. TooMany(r)
    <3>1. PICK s \in Request : Arrives(s) \/ Chain(s) \/ Handler(s)
      <4>1. reply' # reply
        BY <1>1
      <4> QED BY <1>1, <4>1 DEF Next, LoadsConfig, RejectsConfig, Pings, PingFails, Syncs, Killed, StepTo, ExitWith,
            ServerFails, Signalled, ShutdownStep, ShutdownEnds, ShutdownTimesOut, WatcherEnds, Exits,
            WatcherWrites, Tick, vars, requests
    <3>2. reply \in [Request -> {None, 200, 401, 403, 404, 429, 500, 501, 503}]
      BY <1>1 DEF FullInv, TypeOK
    <3>3. CASE Arrives(s)
      BY <1>1, <3>2, <3>3 DEF Arrives
    <3>4. CASE Chain(s)
      BY <1>1, <3>2, <3>4 DEF Chain, Misses, Refuses, Admits, TooMany, Answer
    <3>5. CASE Handler(s)
      BY <1>1, <3>2, <3>5 DEF Handler, AnswersAtOnce, LooksUp, NotFound, Shows, Invokes,
            EngineReturns, Upgrades, WriterMethods, Answer
    <3> QED BY <3>1, <3>3, <3>4, <3>5
  <2>2. req[r] \in Queries /\ ~HasRoom(Valid(limits[req[r].remote]))
    BY <1>1, <2>1 DEF FullInv, TypeOK, TooMany, Limited
  <2>3. passed[req[r].remote] = Valid(limits[req[r].remote]) /\ passed[req[r].remote] \in Seq(0 .. Window - 1)
    BY <1>1, <2>2 DEF FullInv, TypeOK, LimiterInv
  <2> QED BY <2>2, <2>3 DEF HasRoom
<1>2. FullInv /\ [Next]_vars => [\A r \in Request :
          (reply[r] # 429 /\ reply'[r] = 429) => Len(passed[req[r].remote]) >= Rate]_vars
  BY <1>1
<1> QED BY <1>2, FullInvariance, PTL DEF RefusedOnlyWhenFull, Spec
=============================================================================
