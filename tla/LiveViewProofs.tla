---------------------------- MODULE LiveViewProofs ----------------------------
(***************************************************************************)
(* No update is lost between the registry and an open connection, for any  *)
(* number of containers, connections and any queue size, and to each       *)
(* browser the way from the registry is a Mirror.                          *)
(*                                                                         *)
(* InSync is not inductive alone: a broadcast makes a browser current only *)
(* because it announces what the store holds (JobsCurrent), and a new      *)
(* connection starts from an empty queue (QueueInv).                       *)
(***************************************************************************)
EXTENDS LiveView, FiniteSetTheorems, TLAPS

----------------------------------------------------------------------------
(* What a queue tells of one container.  The places of its messages can be  *)
(* listed from the first to the last, in one way only.                      *)

\* e lists the places in K from the first to the last.
Enumerates(e, n, K) ==
    /\ n \in Nat
    /\ e \in [1 .. n -> K]
    /\ \A i, j \in 1 .. n : i < j => e[i] < e[j]
    /\ \A k \in K : \E i \in 1 .. n : e[i] = k

\* The elements of s at the n places that e lists.
Listed(s, e, n) == [j \in 1 .. n |-> s[e[j]]]

\* A list of different elements has as many as the set it lists.
LEMMA ListedCount ==
  ASSUME NEW n \in Nat, NEW K, NEW e \in [1 .. n -> K],
         \A i, j \in 1 .. n : e[i] = e[j] => i = j,
         \A k \in K : \E i \in 1 .. n : e[i] = k
  PROVE  IsFiniteSet(K) /\ Cardinality(K) = n
<1>1. ExistsBijection(1 .. n, K)
  <2>1. e \in Bijection(1 .. n, K)
    BY DEF Bijection, Injection, Surjection, IsInjective
  <2> QED BY <2>1 DEF ExistsBijection
<1>2. IsFiniteSet(1 .. n) /\ Cardinality(1 .. n) = n
  <2>1. IsFiniteSet(1 .. n) /\ Cardinality(1 .. n) = IF 1 > n THEN 0 ELSE n - 1 + 1
    BY FS_Interval
  <2> QED BY <2>1
<1> QED BY <1>1, <1>2, FS_Bijection

\* Places in order are different places.
LEMMA OrderedDiffer ==
  ASSUME NEW m \in Nat, NEW K \in SUBSET (1 .. m), NEW n, NEW e, Enumerates(e, n, K)
  PROVE  /\ \A i, j \in 1 .. n : e[i] = e[j] => i = j
         /\ \A i, j \in 1 .. n : e[i] <= e[j] => i <= j
<1> SUFFICES ASSUME NEW i \in 1 .. n, NEW j \in 1 .. n
             PROVE  (e[i] = e[j] => i = j) /\ (e[i] <= e[j] => i <= j)
  OBVIOUS
<1>0. n \in Nat /\ e \in [1 .. n -> K] /\ \A k \in K : k \in Nat
  BY DEF Enumerates
<1>1. e[i] \in K /\ e[j] \in K /\ i \in Nat /\ j \in Nat
  BY <1>0
<1>4. e[i] \in Nat /\ e[j] \in Nat
  BY <1>0, <1>1
<1>2. i < j \/ i = j \/ j < i
  BY <1>1
<1>3. (i < j => e[i] < e[j]) /\ (j < i => e[j] < e[i])
  BY DEF Enumerates
<1> QED BY <1>1, <1>2, <1>3, <1>4

\* The places listed up to the j-th are j.
LEMMA ListedUpTo ==
  ASSUME NEW m \in Nat, NEW K \in SUBSET (1 .. m), NEW n, NEW e, Enumerates(e, n, K),
         NEW j \in 1 .. n
  PROVE  Cardinality({h \in K : h <= e[j]}) = j
<1> DEFINE B == {h \in K : h <= e[j]}
           b == [i \in 1 .. j |-> e[i]]
<1>1. n \in Nat /\ j \in Nat /\ e \in [1 .. n -> K]
  BY DEF Enumerates
<1>p. \A k \in K : k \in Nat
  OBVIOUS
<1>o. \A i, h \in 1 .. n : (e[i] = e[h] => i = h) /\ (e[i] <= e[h] => i <= h)
  BY OrderedDiffer
<1> HIDE DEF B, b
<1>2. ASSUME NEW i \in 1 .. j PROVE i \in 1 .. n /\ e[i] \in B
  <2>1. i \in 1 .. n /\ j \in 1 .. n /\ e[i] \in K /\ e[j] \in K
    BY <1>1
  <2>2. e[i] \in Nat /\ e[j] \in Nat
    BY <1>p, <2>1
  <2>5. i \in Nat
    BY <1>1
  <2>3. i < j => e[i] < e[j]
    BY <2>1 DEF Enumerates
  <2>4. e[i] <= e[j]
    BY <1>1, <2>1, <2>2, <2>3, <2>5
  <2> QED BY <2>1, <2>4 DEF B
<1>3. b \in [1 .. j -> B]
  BY <1>2 DEF b
<1>4. \A i, h \in 1 .. j : b[i] = b[h] => i = h
  BY <1>2, <1>o DEF b
<1>5. \A k \in B : \E i \in 1 .. j : b[i] = k
  <2> SUFFICES ASSUME NEW k \in B PROVE \E i \in 1 .. j : e[i] = k
    BY DEF b
  <2>1. PICK i \in 1 .. n : e[i] = k
    BY DEF Enumerates, B
  <2>2. i <= j
    BY <1>o, <2>1 DEF B
  <2> QED BY <1>1, <2>1, <2>2
<1>6. Cardinality(B) = j
  BY <1>1, <1>3, <1>4, <1>5, ListedCount
<1> QED BY <1>6 DEF B

\* What is selected are the elements at the places listed.
LEMMA SelectedListed ==
  ASSUME NEW s, NEW m \in Nat, NEW K \in SUBSET (1 .. m), NEW n, NEW e, Enumerates(e, n, K)
  PROVE  Selected(s, K) = Listed(s, e, n)
<1> DEFINE UpTo(i) == Cardinality({h \in K : h <= i})
<1>1. Cardinality(K) = n
  <2>1. n \in Nat /\ e \in [1 .. n -> K] /\ \A k \in K : \E i \in 1 .. n : e[i] = k
    BY DEF Enumerates
  <2>2. \A i, j \in 1 .. n : e[i] = e[j] => i = j
    BY OrderedDiffer
  <2> QED BY <2>1, <2>2, ListedCount
<1>2. Selected(s, K) = [j \in 1 .. n |-> s[CHOOSE i \in K : UpTo(i) = j]]
  BY <1>1 DEF Selected
<1>3. \A j \in 1 .. n : UpTo(e[j]) = j
  BY ListedUpTo
<1> HIDE DEF UpTo
<1>4. ASSUME NEW j \in 1 .. n PROVE (CHOOSE i \in K : UpTo(i) = j) = e[j]
  <2>1. e[j] \in K
    BY DEF Enumerates
  <2>2. \A i \in K : UpTo(i) = j => i = e[j]
    BY <1>3 DEF Enumerates
  <2> QED BY <1>3, <2>1, <2>2
<1> QED BY <1>2, <1>4 DEF Listed

\* The places in q of the messages about c.
At(q, c) == {i \in 1 .. Len(q) : Subject(q[i]) = c}
Listable(q, c) == \E n, e : Enumerates(e, n, At(q, c))

\* What a queue tells of a container is what is at the places listed.
LEMMA ToldListed ==
  ASSUME NEW q \in Seq(Msg), NEW c, NEW n, NEW e, Enumerates(e, n, At(q, c))
  PROVE  /\ n \in Nat
         /\ Told(q, c) = [j \in 1 .. n |-> Content(q[e[j]])]
         /\ \A j \in 1 .. n : e[j] \in 1 .. Len(q) /\ Subject(q[e[j]]) = c
         /\ \A j \in 1 .. n : Content(q[e[j]]) \in State
<1> DEFINE m == Len(q)
           s == [i \in 1 .. m |-> Content(q[i])]
<1>1. m \in Nat /\ At(q, c) \in SUBSET (1 .. m) /\ \A i \in 1 .. m : Content(q[i]) \in State
  BY DEF At, Msg, Content
<1>2. n \in Nat /\ \A j \in 1 .. n : e[j] \in At(q, c)
  BY DEF Enumerates
<1>3. Told(q, c) = Selected(s, At(q, c))
  BY DEF Told, At
<1> HIDE DEF s
<1>4. Selected(s, At(q, c)) = [j \in 1 .. n |-> s[e[j]]]
  <2> DEFINE K == At(q, c)
  <2> HIDE DEF m
  <2>1. m \in Nat /\ K \in SUBSET (1 .. m) /\ Enumerates(e, n, K)
    BY <1>1
  <2> HIDE DEF K
  <2>2. Selected(s, K) = Listed(s, e, n)
    BY <2>1, SelectedListed
  <2> QED BY <2>2 DEF K, Listed
<1>5. \A j \in 1 .. n : e[j] \in 1 .. m /\ Subject(q[e[j]]) = c
  BY <1>2 DEF At
<1>6. \A j \in 1 .. n : s[e[j]] = Content(q[e[j]])
  BY <1>5 DEF s
<1> QED BY <1>1, <1>2, <1>3, <1>4, <1>5, <1>6

\* An empty queue tells nothing.
LEMMA ToldEmpty ==
  ASSUME NEW c
  PROVE  Listable(<<>>, c) /\ Told(<<>>, c) = <<>>
<1> DEFINE q == <<>>
           e == [j \in 1 .. 0 |-> j]
<1>1. q \in Seq(Msg) /\ Enumerates(e, 0, At(q, c))
  BY DEF Enumerates, At
<1> HIDE DEF q, e
<1>2. Told(q, c) = [j \in 1 .. 0 |-> Content(q[e[j]])]
  BY <1>1, ToldListed
<1>3. Told(q, c) = <<>>
  BY <1>2
<1> QED BY <1>1, <1>3 DEF Listable, q

\* What is told of a container are states.
LEMMA ToldType ==
  ASSUME NEW q \in Seq(Msg), NEW c, Listable(q, c)
  PROVE  Told(q, c) \in Seq(State)
<1>1. PICK n, e : Enumerates(e, n, At(q, c))
  BY DEF Listable
<1> QED BY <1>1, ToldListed

\* A message adds its state to what is told of its own container.
LEMMA ToldAppend ==
  ASSUME NEW q \in Seq(Msg), NEW m \in Msg, NEW c, Listable(q, c)
  PROVE  /\ Listable(Append(q, m), c)
         /\ Told(Append(q, m), c) = IF Subject(m) = c THEN Append(Told(q, c), Content(m))
                                    ELSE Told(q, c)
<1> DEFINE r == Append(q, m)
           l == Len(q)
<1>1. PICK n, e : Enumerates(e, n, At(q, c))
  BY DEF Listable
<1>2. /\ n \in Nat
      /\ Told(q, c) = [j \in 1 .. n |-> Content(q[e[j]])]
      /\ \A j \in 1 .. n : e[j] \in 1 .. l /\ Subject(q[e[j]]) = c
  BY <1>1, ToldListed
<1>3. /\ l \in Nat /\ Len(r) = l + 1 /\ r \in Seq(Msg)
      /\ (\A i \in 1 .. l : r[i] = q[i]) /\ r[l + 1] = m
  OBVIOUS
<1>4. At(r, c) = IF Subject(m) = c THEN At(q, c) \cup {l + 1} ELSE At(q, c)
  <2> HIDE DEF r
  <2>1. 1 .. Len(r) = (1 .. l) \cup {l + 1}
    BY <1>3
  <2> QED BY <1>3, <2>1 DEF At
<1> HIDE DEF r, l
<1>5. CASE Subject(m) # c
  <2>1. At(r, c) = At(q, c)
    BY <1>4, <1>5
  <2>2. Enumerates(e, n, At(r, c))
    BY <1>1, <2>1
  <2>3. Told(r, c) = [j \in 1 .. n |-> Content(r[e[j]])]
    BY <1>3, <2>2, ToldListed
  <2>4. Told(r, c) = Told(q, c)
    BY <1>2, <1>3, <2>3
  <2> QED BY <1>5, <2>2, <2>4 DEF r, Listable
<1>6. CASE Subject(m) = c
  <2> DEFINE f == [j \in 1 .. n + 1 |-> IF j = n + 1 THEN l + 1 ELSE e[j]]
  <2>1. At(r, c) = At(q, c) \cup {l + 1}
    BY <1>4, <1>6
  <2>2. Enumerates(f, n + 1, At(r, c))
    <3>1. f \in [1 .. n + 1 -> At(r, c)]
      BY <1>1, <1>2, <2>1 DEF Enumerates
    <3>2. ASSUME NEW i \in 1 .. n + 1, NEW j \in 1 .. n + 1, i < j PROVE f[i] < f[j]
      <4>1. i \in 1 .. n /\ f[i] = e[i] /\ e[i] \in 1 .. l
        BY <1>2, <3>2
      <4>2. CASE j = n + 1
        BY <1>3, <4>1, <4>2
      <4>3. CASE j # n + 1
        <5>1. j \in 1 .. n /\ f[j] = e[j]
          BY <1>2, <4>3
        <5> QED BY <1>1, <3>2, <4>1, <5>1 DEF Enumerates
      <4> QED BY <4>2, <4>3
    <3>3. ASSUME NEW i \in At(r, c) PROVE \E j \in 1 .. n + 1 : f[j] = i
      <4>1. CASE i = l + 1
        <5>1. n + 1 \in 1 .. n + 1 /\ f[n + 1] = l + 1
          BY <1>2
        <5> QED BY <4>1, <5>1
      <4>2. CASE i # l + 1
        <5>1. PICK j \in 1 .. n : e[j] = i
          BY <1>1, <2>1, <4>2 DEF Enumerates
        <5>2. j \in 1 .. n + 1 /\ f[j] = e[j]
          BY <1>2
        <5> QED BY <5>1, <5>2
      <4> QED BY <4>1, <4>2
    <3> QED BY <1>2, <3>1, <3>2, <3>3 DEF Enumerates
  <2> DEFINE t == [j \in 1 .. n + 1 |-> Content(r[f[j]])]
  <2> HIDE DEF f
  <2>3. Told(r, c) = t
    BY <1>3, <2>2, ToldListed
  <2>4. Append(Told(q, c), Content(m)) = [j \in 1 .. n + 1 |-> IF j = n + 1 THEN Content(m)
                                                               ELSE Content(q[e[j]])]
    BY <1>2
  <2>5. \A j \in 1 .. n + 1 : Content(r[f[j]]) = IF j = n + 1 THEN Content(m) ELSE Content(q[e[j]])
    BY <1>2, <1>3 DEF f
  <2>6. Told(r, c) = Append(Told(q, c), Content(m))
    BY <2>3, <2>4, <2>5
  <2> QED BY <1>6, <2>2, <2>6 DEF r, Listable
<1> QED BY <1>5, <1>6

\* Without its first message a queue tells of the message's own container all
\* but the first state, and of the others what it told before.
LEMMA ToldTail ==
  ASSUME NEW q \in Seq(Msg), q # <<>>, NEW c, Listable(q, c)
  PROVE  /\ Listable(Tail(q), c)
         /\ Subject(Head(q)) # c => Told(Tail(q), c) = Told(q, c)
         /\ Subject(Head(q)) = c =>
                Told(q, c) = <<Content(Head(q))>> \o Told(Tail(q), c)
<1> DEFINE r == Tail(q)
           l == Len(q)
<1>1. PICK n, e : Enumerates(e, n, At(q, c))
  BY DEF Listable
<1>2. /\ n \in Nat
      /\ Told(q, c) = [j \in 1 .. n |-> Content(q[e[j]])]
      /\ \A j \in 1 .. n : e[j] \in 1 .. l /\ Subject(q[e[j]]) = c
  BY <1>1, ToldListed
<1>3. /\ l \in Nat \ {0} /\ Len(r) = l - 1 /\ r \in Seq(Msg)
      /\ (\A i \in 1 .. l - 1 : r[i] = q[i + 1]) /\ q[1] = Head(q)
  OBVIOUS
<1>4. At(r, c) = {i \in 1 .. l - 1 : Subject(q[i + 1]) = c}
  BY <1>3 DEF At
<1>o. \A i, j \in 1 .. n : i < j => e[i] < e[j]
  BY <1>1 DEF Enumerates
<1>k. \A i \in 1 .. l : Subject(q[i]) = c => \E j \in 1 .. n : e[j] = i
  BY <1>1 DEF Enumerates, At
<1> HIDE DEF r, l
<1>5. CASE Subject(Head(q)) # c
  <2> DEFINE f == [j \in 1 .. n |-> e[j] - 1]
  <2>1. \A j \in 1 .. n : e[j] \in 2 .. l
    BY <1>2, <1>3, <1>5
  <2>2. Enumerates(f, n, At(r, c))
    <3>1. \A j \in 1 .. n : f[j] \in 1 .. l - 1 /\ f[j] + 1 = e[j]
      BY <1>3, <2>1
    <3>2. f \in [1 .. n -> At(r, c)]
      BY <1>2, <1>4, <3>1
    <3>3. ASSUME NEW i \in 1 .. n, NEW j \in 1 .. n, i < j PROVE f[i] < f[j]
      BY <1>o, <2>1, <1>3, <3>3
    <3>4. ASSUME NEW i \in At(r, c) PROVE \E j \in 1 .. n : f[j] = i
      <4>1. i \in 1 .. l - 1 /\ i + 1 \in 1 .. l /\ Subject(q[i + 1]) = c
        BY <1>3, <1>4
      <4>2. PICK j \in 1 .. n : e[j] = i + 1
        BY <1>k, <4>1
      <4>3. f[j] = i
        BY <4>1, <4>2
      <4> QED BY <4>3
    <3> QED BY <1>2, <3>2, <3>3, <3>4 DEF Enumerates
  <2>3. \A j \in 1 .. n : r[f[j]] = q[e[j]]
    BY <1>3, <2>1
  <2> HIDE DEF f
  <2>4. Told(r, c) = [j \in 1 .. n |-> Content(r[f[j]])]
    BY <1>3, <2>2, ToldListed
  <2>5. Told(r, c) = Told(q, c)
    BY <1>2, <2>3, <2>4
  <2> QED BY <1>5, <2>2, <2>5 DEF r, Listable
<1>6. CASE Subject(Head(q)) = c
  <2>1. n \in Nat \ {0} /\ e[1] = 1
    <3>1. PICK j \in 1 .. n : e[j] = 1
      BY <1>3, <1>6, <1>k
    <3>2. 1 \in 1 .. n /\ j \in Nat /\ n \in Nat \ {0} /\ e[1] \in 1 .. l
      BY <1>2, <3>1
    <3>3. 1 < j => e[1] < 1
      BY <1>o, <3>1, <3>2
    <3> QED BY <1>3, <3>1, <3>2, <3>3
  <2>2. \A j \in 1 .. n - 1 : j + 1 \in 1 .. n /\ e[j + 1] \in 2 .. l
    <3> SUFFICES ASSUME NEW j \in 1 .. n - 1 PROVE j + 1 \in 1 .. n /\ e[j + 1] \in 2 .. l
      OBVIOUS
    <3>1. j + 1 \in 1 .. n /\ 1 \in 1 .. n /\ 1 < j + 1
      BY <2>1
    <3>2. e[1] < e[j + 1] /\ e[j + 1] \in 1 .. l
      BY <1>o, <1>2, <3>1
    <3> QED BY <1>3, <2>1, <3>1, <3>2
  <2> DEFINE f == [j \in 1 .. n - 1 |-> e[j + 1] - 1]
  <2>3. Enumerates(f, n - 1, At(r, c))
    <3>1. \A j \in 1 .. n - 1 : f[j] \in 1 .. l - 1 /\ f[j] + 1 = e[j + 1]
      BY <1>3, <2>2
    <3>2. f \in [1 .. n - 1 -> At(r, c)]
      BY <1>2, <1>4, <2>2, <3>1
    <3>3. ASSUME NEW i \in 1 .. n - 1, NEW j \in 1 .. n - 1, i < j PROVE f[i] < f[j]
      <4>1. i + 1 \in 1 .. n /\ j + 1 \in 1 .. n /\ i + 1 < j + 1
        BY <2>1, <3>3
      <4>2. e[i + 1] < e[j + 1] /\ e[i + 1] \in 2 .. l /\ e[j + 1] \in 2 .. l
        BY <1>o, <2>2, <4>1
      <4> QED BY <1>3, <4>2
    <3>4. ASSUME NEW i \in At(r, c) PROVE \E j \in 1 .. n - 1 : f[j] = i
      <4>1. i \in 1 .. l - 1 /\ i + 1 \in 1 .. l /\ Subject(q[i + 1]) = c
        BY <1>3, <1>4
      <4>2. PICK j \in 1 .. n : e[j] = i + 1
        BY <1>k, <4>1
      <4>3. j # 1
        BY <2>1, <4>1, <4>2
      <4>4. j - 1 \in 1 .. n - 1 /\ (j - 1) + 1 = j
        BY <2>1, <4>3
      <4>5. f[j - 1] = i
        BY <4>1, <4>2, <4>4
      <4> QED BY <4>4, <4>5
    <3>5. n - 1 \in Nat
      BY <2>1
    <3> QED BY <3>2, <3>3, <3>4, <3>5 DEF Enumerates
  <2>4. \A j \in 1 .. n - 1 : r[f[j]] = q[e[j + 1]]
    BY <1>3, <2>2
  <2> HIDE DEF f
  <2>5. Told(r, c) = [j \in 1 .. n - 1 |-> Content(r[f[j]])]
    BY <1>3, <2>3, ToldListed
  <2>6. Told(r, c) = [j \in 1 .. n - 1 |-> Content(q[e[j + 1]])]
    BY <2>4, <2>5
  <2>7. <<Content(Head(q))>> \o Told(r, c)
          = [j \in 1 .. n |-> IF j = 1 THEN Content(Head(q)) ELSE Content(q[e[(j - 1) + 1]])]
    BY <2>1, <2>6
  <2>8. \A j \in 1 .. n : Content(q[e[j]]) = IF j = 1 THEN Content(Head(q))
                                             ELSE Content(q[e[(j - 1) + 1]])
    BY <1>3, <2>1
  <2>9. Told(q, c) = <<Content(Head(q))>> \o Told(r, c)
    BY <1>2, <2>7, <2>8
  <2> QED BY <1>6, <2>3, <2>9 DEF r, Listable
<1> QED BY <1>5, <1>6

\* The last state told of a container is that of the last message about it.
LEMMA ToldLast ==
  ASSUME NEW q \in Seq(Msg), NEW c, Listable(q, c)
  PROVE  /\ At(q, c) = {} => Told(q, c) = <<>>
         /\ \A i \in At(q, c) : (\A j \in At(q, c) : j <= i) =>
                Told(q, c) # <<>> /\ Told(q, c)[Len(Told(q, c))] = Content(q[i])
<1>1. PICK n, e : Enumerates(e, n, At(q, c))
  BY DEF Listable
<1>2. /\ n \in Nat
      /\ Told(q, c) = [j \in 1 .. n |-> Content(q[e[j]])]
  BY <1>1, ToldListed
<1>3. /\ \A j \in 1 .. n : e[j] \in At(q, c)
      /\ \A i, j \in 1 .. n : i < j => e[i] < e[j]
      /\ \A i \in At(q, c) : \E j \in 1 .. n : e[j] = i
      /\ \A i \in At(q, c) : i \in Nat
  BY <1>1 DEF Enumerates, At
<1>4. ASSUME At(q, c) = {} PROVE Told(q, c) = <<>>
  BY <1>2, <1>3, <1>4
<1>5. ASSUME NEW i \in At(q, c), \A j \in At(q, c) : j <= i
      PROVE  Told(q, c) # <<>> /\ Told(q, c)[Len(Told(q, c))] = Content(q[i])
  <2>1. PICK j \in 1 .. n : e[j] = i
    BY <1>3
  <2>2. n \in 1 .. n /\ e[n] \in At(q, c) /\ e[n] <= i
    BY <1>2, <1>3, <1>5, <2>1
  <2>3. j < n => i < e[n]
    BY <1>3, <2>1, <2>2
  <2>4. j = n
    BY <1>2, <1>3, <2>1, <2>2, <2>3
  <2>5. Len(Told(q, c)) = n /\ Told(q, c)[n] = Content(q[i])
    BY <1>2, <2>1, <2>2, <2>4
  <2> QED BY <1>2, <2>2, <2>5
<1> QED BY <1>4, <1>5

----------------------------------------------------------------------------
(* The inductive invariant.                                                *)

IInv == TypeOK /\ InSync /\ JobsCurrent /\ QueueInv

USE LiveViewAssumption

\* What InSync says of one connection and one container.
Current(k, c) == Settles(k, c) \/ (phase[k] = "registered" /\ Hits(k, c) = {})

\* InSync, connection by connection.
LEMMA InSyncIsCurrent ==
    InSync <=> \A k \in Conn, c \in Container :
        (Attached(k) /\ sock[k] = "open" /\ ~Pending(c)) => Current(k, c)
BY DEF InSync, Current

\* Connections, queues and views that do not change, and a store that does not
\* change outside the containers being announced, leave a browser current.
LEMMA SameIsCurrent ==
    ASSUME NEW k \in Conn, NEW c \in Container, Current(k, c),
           queue'[k] = queue[k], view'[k] = view[k], phase'[k] = phase[k],
           store'[c] = store[c]
    PROVE  Current(k, c)'
BY DEF Current, Settles, Hits

----------------------------------------------------------------------------
(* Every action keeps the inductive invariant.                             *)

\* The watcher writes the store: what changes is in the messages to send.
LEMMA WritesKeep ==
    ASSUME IInv, NEW new \in [Container -> State],
           NEW messages \in SUBSET (Container \X State), NEW lock \in BOOLEAN,
           Writes(new, messages, lock),
           \A m \in messages : Content(m) = new[Subject(m)],
           \A c \in Container : new[c] = store[c] \/ About(c, new[c]) \in messages
    PROVE  IInv'
<1>1. TypeOK' /\ QueueInv'
  BY DEF IInv, TypeOK, Writes, QueueInv
<1>2. JobsCurrent'
  BY DEF Writes, JobsCurrent
<1>3. ASSUME NEW k \in Conn, NEW c \in Container,
             Attached(k)', sock'[k] = "open", ~Pending(c)'
      PROVE  Current(k, c)'
  <2>1. store'[c] = store[c]
    BY <1>3 DEF Writes, Pending, About, Subject
  <2>2. Current(k, c)
    BY <1>3, InSyncIsCurrent DEF IInv, Writes, Busy, Pending, Attached
  <2> QED BY <2>1, <2>2, SameIsCurrent DEF Writes
<1>4. InSync'
  BY <1>3 DEF InSync, Current
<1> QED BY <1>1, <1>2, <1>4 DEF IInv

\* Each entry point of the registry announces what it changes.
LEMMA WatcherKeeps == IInv /\ Watcher => IInv'
<1> SUFFICES ASSUME IInv, Watcher PROVE IInv'
  OBVIOUS
<1>0. store \in [Container -> State]
  BY DEF IInv, TypeOK
<1>1. ASSUME NEW c \in Container, NEW s \in State, NEW lock \in BOOLEAN,
             Writes([store EXCEPT ![c] = s], {About(c, s)}, lock)
      PROVE  IInv'
  <2> DEFINE new == [store EXCEPT ![c] = s]
  <2>1. new \in [Container -> State] /\ {About(c, s)} \in SUBSET (Container \X State)
    BY <1>0 DEF About
  <2>2. \A m \in {About(c, s)} : Content(m) = new[Subject(m)]
    BY <1>0 DEF About, Content, Subject
  <2>3. \A d \in Container : new[d] = store[d] \/ About(d, new[d]) \in {About(c, s)}
    BY <1>0
  <2> HIDE DEF new
  <2>4. Writes(new, {About(c, s)}, lock)
    BY <1>1 DEF new
  <2> QED BY <2>1, <2>2, <2>3, <2>4, WritesKeep
<1>2. ASSUME NEW new \in [Container -> State], Resyncs(new) PROVE IInv'
  <2>1. ResyncMessages(new) \in SUBSET (Container \X State)
    BY DEF ResyncMessages, About
  <2>2. \A m \in ResyncMessages(new) : Content(m) = new[Subject(m)]
    BY DEF ResyncMessages, About, Content, Subject
  <2>3. \A c \in Container : new[c] = store[c] \/ About(c, new[c]) \in ResyncMessages(new)
    BY DEF ResyncMessages
  <2> QED BY <1>2, <2>1, <2>2, <2>3, WritesKeep DEF Resyncs
<1> QED BY <1>1, <1>2 DEF Watcher, Removes, Denies, Updates, State

\* The registry's lock says nothing of the connections.
LEMMA UnlockKeeps == IInv /\ Unlock => IInv'
<1> SUFFICES ASSUME IInv, Unlock PROVE IInv'
  OBVIOUS
<1>1. TypeOK' /\ QueueInv' /\ JobsCurrent'
  BY DEF IInv, TypeOK, Unlock, QueueInv, JobsCurrent
<1>2. InSync'
  BY DEF IInv, Unlock, InSync, Settles, Hits, Pending, Attached
<1> QED BY <1>1, <1>2 DEF IInv

\* A message that is queued: the queues keep their type and their bound.
LEMMA EnqueueKeeps ==
    ASSUME IInv, NEW m \in Msg, Enqueue(m), UNCHANGED phase,
           CloseOverflowing \/ UNCHANGED sock
    PROVE  /\ queue' \in [Conn -> Seq(Msg)]
           /\ sock' \in [Conn -> {"open", "closing", "shut"}]
           /\ QueueInv'
<1>1. queue' \in [Conn -> Seq(Msg)]
  BY DEF IInv, TypeOK, Enqueue
<1>2. sock' \in [Conn -> {"open", "closing", "shut"}]
  BY DEF IInv, TypeOK, CloseOverflowing
<1>3. ASSUME NEW k \in Conn
      PROVE  /\ Len(queue'[k]) <= QueueSize
             /\ phase'[k] = "closed" => queue'[k] = <<>>
  <2>1. /\ queue[k] \in Seq(Msg)
        /\ Len(queue[k]) <= QueueSize
        /\ phase[k] = "closed" => queue[k] = <<>>
    BY DEF IInv, TypeOK, QueueInv
  <2>2. CASE Takes(k)
    <3>1. queue'[k] = Append(queue[k], m) /\ Len(queue'[k]) = Len(queue[k]) + 1
      BY <2>1, <2>2 DEF Enqueue
    <3>2. Len(queue[k]) + 1 <= QueueSize
      BY <2>1, <2>2 DEF Takes, Full
    <3>3. phase'[k] # "closed"
      BY <2>2 DEF Takes, Attached
    <3> QED BY <3>1, <3>2, <3>3
  <2>3. CASE ~Takes(k)
    <3>1. queue'[k] = queue[k]
      BY <2>3 DEF Enqueue
    <3> QED BY <2>1, <3>1
  <2> QED BY <2>2, <2>3
<1> QED BY <1>1, <1>2, <1>3 DEF QueueInv

\* A message about another container leaves a browser current.
LEMMA OtherMessage ==
    ASSUME IInv, NEW m \in Msg, NEW k \in Conn, NEW c \in Container,
           Subject(m) # c, Current(k, c),
           queue'[k] = queue[k] \/ queue'[k] = Append(queue[k], m),
           view'[k] = view[k], phase'[k] = phase[k], store'[c] = store[c]
    PROVE  Current(k, c)'
<1>1. CASE queue'[k] = queue[k]
  BY <1>1, SameIsCurrent
<1>2. CASE queue'[k] = Append(queue[k], m)
  <2>1. queue[k] \in Seq(Msg)
    BY DEF IInv, TypeOK
  <2>2. /\ Len(queue'[k]) = Len(queue[k]) + 1
        /\ \A i \in 1 .. Len(queue[k]) : queue'[k][i] = queue[k][i]
        /\ queue'[k][Len(queue[k]) + 1] = m
    BY <1>2, <2>1
  <2>3. Hits(k, c)' = Hits(k, c)
    BY <2>1, <2>2 DEF Hits
  <2>4. \A i \in Hits(k, c) : queue'[k][i] = queue[k][i]
    BY <2>2 DEF Hits
  <2> QED BY <2>3, <2>4 DEF Current, Settles
<1> QED BY <1>1, <1>2

\* The message a broadcast appends is the last one about its container.
LEMMA OwnMessage ==
    ASSUME IInv, NEW m \in Msg, NEW k \in Conn, NEW c \in Container,
           Subject(m) = c, Content(m) = store'[c],
           queue'[k] = Append(queue[k], m)
    PROVE  Current(k, c)'
<1>1. queue[k] \in Seq(Msg)
  BY DEF IInv, TypeOK
<1>2. /\ Len(queue'[k]) = Len(queue[k]) + 1
      /\ queue'[k][Len(queue[k]) + 1] = m
      /\ Len(queue[k]) \in Nat
  BY <1>1
<1>3. /\ Len(queue[k]) + 1 \in Hits(k, c)'
      /\ \A j \in Hits(k, c)' : j <= Len(queue[k]) + 1
  BY <1>2 DEF Hits
<1> QED BY <1>2, <1>3 DEF Current, Settles

\* A broadcast of the watcher reaches every open connection or closes it.
LEMMA BroadcastKeeps ==
    ASSUME IInv, NEW m \in jobs, Broadcast(m)
    PROVE  IInv'
<1>1. m \in Container \X State /\ m \in Msg
  BY DEF IInv, TypeOK, Msg
<1>2. QueueInv' /\ queue' \in [Conn -> Seq(Msg)] /\ sock' \in [Conn -> {"open", "closing", "shut"}]
  BY <1>1, EnqueueKeeps DEF Broadcast
<1>3. TypeOK'
  BY <1>2 DEF IInv, TypeOK, Broadcast
<1>4. JobsCurrent'
  BY DEF IInv, JobsCurrent, Broadcast
<1>5. ASSUME NEW k \in Conn, NEW c \in Container,
             Attached(k)', sock'[k] = "open", ~Pending(c)'
      PROVE  Current(k, c)'
  <2>1. Attached(k) /\ sock[k] = "open" /\ Takes(k)
    BY <1>5 DEF Broadcast, Attached, CloseOverflowing, Closes, Overflows, Takes, IInv, TypeOK
  <2>2. queue'[k] = Append(queue[k], m)
    BY <2>1 DEF Broadcast, Enqueue
  <2>3. CASE Subject(m) = c
    <3>1. Content(m) = store'[c]
      BY <2>3 DEF IInv, JobsCurrent, Broadcast
    <3> QED BY <1>1, <2>2, <2>3, <3>1, OwnMessage
  <2>4. CASE Subject(m) # c
    <3>1. ~Pending(c)
      BY <1>5, <2>4 DEF Pending, Broadcast
    <3>2. Current(k, c)
      BY <2>1, <3>1, InSyncIsCurrent DEF IInv
    <3> QED BY <1>1, <2>2, <2>4, <3>2, OtherMessage DEF Broadcast
  <2> QED BY <2>3, <2>4
<1>6. InSync'
  BY <1>5 DEF InSync, Current
<1> QED BY <1>2, <1>3, <1>4, <1>6 DEF IInv

\* Other broadcasts concern no container's state.
LEMMA BroadcastOtherKeeps == IInv /\ BroadcastOther => IInv'
<1> SUFFICES ASSUME IInv, BroadcastOther PROVE IInv'
  OBVIOUS
<1> DEFINE m == About(Noise, Absent)
<1>1. m \in Msg /\ Subject(m) = Noise
  BY DEF Msg, State, About, Subject
<1> HIDE DEF m
<1>2. Enqueue(m) /\ UNCHANGED phase /\ (CloseOverflowing \/ UNCHANGED sock)
  BY DEF BroadcastOther, m
<1>3. QueueInv' /\ queue' \in [Conn -> Seq(Msg)] /\ sock' \in [Conn -> {"open", "closing", "shut"}]
  BY <1>1, <1>2, EnqueueKeeps
<1>4. TypeOK' /\ JobsCurrent'
  BY <1>3 DEF IInv, TypeOK, JobsCurrent, BroadcastOther
<1>5. ASSUME NEW k \in Conn, NEW c \in Container,
             Attached(k)', sock'[k] = "open", ~Pending(c)'
      PROVE  Current(k, c)'
  <2>1. Attached(k) /\ sock[k] = "open" /\ ~Pending(c)
    BY <1>5 DEF BroadcastOther, Attached, CloseOverflowing, Pending, IInv, TypeOK
  <2>2. Current(k, c)
    BY <2>1, InSyncIsCurrent DEF IInv
  <2>3. queue'[k] = queue[k] \/ queue'[k] = Append(queue[k], m)
    BY <1>2 DEF Enqueue
  <2> QED BY <1>1, <2>2, <2>3, OtherMessage DEF BroadcastOther
<1>6. InSync'
  BY <1>5 DEF InSync, Current
<1> QED BY <1>3, <1>4, <1>6 DEF IInv

\* A connection that registers starts from an empty queue.
LEMMA RegisterKeeps ==
    ASSUME IInv, NEW k \in Conn, Register(k)
    PROVE  IInv'
<1>1. TypeOK' /\ JobsCurrent' /\ QueueInv'
  BY DEF IInv, TypeOK, JobsCurrent, QueueInv, Register
<1>2. ASSUME NEW j \in Conn, NEW c \in Container,
             Attached(j)', sock'[j] = "open", ~Pending(c)'
      PROVE  Current(j, c)'
  <2>1. CASE j = k
    <3>1. queue'[k] = <<>> /\ phase'[k] = "registered"
      BY DEF IInv, TypeOK, QueueInv, Register
    <3> QED BY <2>1, <3>1 DEF Current, Hits
  <2>2. CASE j # k
    <3>1. Attached(j) /\ sock[j] = "open" /\ ~Pending(c)
      BY <1>2, <2>2 DEF Register, Attached, Pending, IInv, TypeOK
    <3>2. Current(j, c)
      BY <3>1, InSyncIsCurrent DEF IInv
    <3> QED BY <2>2, <3>2, SameIsCurrent DEF Register, IInv, TypeOK
  <2> QED BY <2>1, <2>2
<1>3. InSync'
  BY <1>2 DEF InSync, Current
<1> QED BY <1>1, <1>3 DEF IInv

\* The snapshot is the store itself, and the messages queued before it are no
\* newer and no older than the store.
LEMMA SnapshotKeeps ==
    ASSUME IInv, NEW k \in Conn, Snapshot(k)
    PROVE  IInv'
<1>1. TypeOK'
  <2>1. view' \in [Conn -> [Container -> State]]
    BY DEF IInv, TypeOK, Snapshot
  <2> QED BY <2>1 DEF IInv, TypeOK, Snapshot
<1>2. JobsCurrent' /\ QueueInv'
  BY DEF IInv, TypeOK, JobsCurrent, QueueInv, Snapshot
<1>3. ASSUME NEW j \in Conn, NEW c \in Container,
             Attached(j)', sock'[j] = "open", ~Pending(c)'
      PROVE  Current(j, c)'
  <2>1. Attached(j) /\ sock[j] = "open" /\ ~Pending(c)
    BY <1>3 DEF Snapshot, Attached, Pending, IInv, TypeOK
  <2>2. Current(j, c)
    BY <2>1, InSyncIsCurrent DEF IInv
  <2>3. CASE j = k
    <3>1. view'[k] = store /\ store' = store /\ queue' = queue
      BY <2>1, <2>3 DEF Snapshot, IInv, TypeOK
    <3> QED BY <2>2, <2>3, <3>1 DEF Current, Settles, Hits
  <2>4. CASE j # k
    BY <2>2, <2>4, SameIsCurrent DEF Snapshot, IInv, TypeOK
  <2> QED BY <2>3, <2>4
<1>4. InSync'
  BY <1>3 DEF InSync, Current
<1> QED BY <1>1, <1>2, <1>4 DEF IInv

\* The read and write loops start after the snapshot.
LEMMA StartLoopsKeep ==
    ASSUME IInv, NEW k \in Conn, StartLoops(k)
    PROVE  IInv'
<1>1. TypeOK' /\ JobsCurrent' /\ QueueInv'
  BY DEF IInv, TypeOK, JobsCurrent, QueueInv, StartLoops
<1>2. InSync'
  BY DEF IInv, TypeOK, InSync, StartLoops, Attached, Settles, Hits, Pending
<1> QED BY <1>1, <1>2 DEF IInv

\* Taking the first message off a queue moves its state into the view.
LEMMA DeliverIsCurrent ==
    ASSUME IInv, NEW k \in Conn, NEW c \in Container, Deliver(k), Current(k, c)
    PROVE  Current(k, c)'
<1> DEFINE q == queue[k]
<1>1. q \in Seq(Msg) /\ q # <<>> /\ Head(q) = q[1] /\ Head(q) \in Msg
  BY DEF IInv, TypeOK, Deliver
<1>2. queue'[k] = Tail(q) /\ store' = store /\ phase'[k] = "live"
  BY DEF IInv, TypeOK, Deliver
<1>3. view'[k] = Applied(view[k], Head(q)) /\ view[k] \in [Container -> State]
  BY DEF IInv, TypeOK, Deliver
<1>4. /\ Len(queue'[k]) = Len(q) - 1
      /\ \A i \in 1 .. Len(q) - 1 : queue'[k][i] = q[i + 1]
      /\ Len(q) \in Nat
  BY <1>1, <1>2
<1>5. Settles(k, c)
  BY DEF Deliver, Current
<1>6. Hits(k, c)' = {i \in 1 .. Len(q) - 1 : Subject(q[i + 1]) = c}
  BY <1>4 DEF Hits
<1>9. \A x \in Hits(k, c)' : x \in Nat /\ x >= 1 /\ x + 1 \in Hits(k, c)
  <2> SUFFICES ASSUME NEW x \in Hits(k, c)'
               PROVE  x \in Nat /\ x >= 1 /\ x + 1 \in Hits(k, c)
    OBVIOUS
  <2>1. x \in 1 .. Len(q) - 1 /\ Subject(q[x + 1]) = c
    BY <1>6
  <2> QED BY <1>4, <2>1 DEF Hits
<1>7. CASE Hits(k, c) = {}
  <2>1. Subject(q[1]) # c
    BY <1>1, <1>7 DEF Hits
  <2>2. view'[k][c] = view[k][c]
    BY <1>1, <1>3, <2>1 DEF Applied
  <2>3. Hits(k, c)' = {}
    BY <1>4, <1>6, <1>7 DEF Hits
  <2> QED BY <1>2, <1>5, <1>7, <2>2, <2>3 DEF Current, Settles
<1>8. CASE Hits(k, c) # {}
  <2>1. PICK i \in Hits(k, c) : (\A j \in Hits(k, c) : j <= i) /\ Content(q[i]) = store[c]
    BY <1>5, <1>8 DEF Settles
  <2>2. i \in 1 .. Len(q) /\ Subject(q[i]) = c
    BY <2>1 DEF Hits
  <2>3. CASE i = 1
    <3>1. Hits(k, c)' = {}
      BY <1>9, <2>1, <2>3
    <3>2. Subject(Head(q)) = c /\ c # Noise /\ Content(Head(q)) = store[c]
      BY <1>1, <2>1, <2>2, <2>3
    <3>3. view'[k][c] = store[c]
      BY <1>3, <3>2 DEF Applied
    <3> QED BY <1>2, <3>1, <3>3 DEF Current, Settles
  <2>4. CASE i # 1
    <3>1. i - 1 \in Hits(k, c)'
      BY <1>4, <1>6, <2>2, <2>4
    <3>2. \A j \in Hits(k, c)' : j <= i - 1
      BY <1>9, <2>1, <2>2
    <3>3. Content(queue'[k][i - 1]) = store[c]
      <4>1. i - 1 \in 1 .. Len(q) - 1 /\ (i - 1) + 1 = i
        BY <1>4, <2>2, <2>4
      <4>2. queue'[k][i - 1] = q[i]
        BY <1>4, <4>1
      <4> QED BY <2>1, <4>2
    <3> QED BY <1>2, <3>1, <3>2, <3>3 DEF Current, Settles
  <2> QED BY <2>3, <2>4
<1> QED BY <1>7, <1>8

\* The browser applies a message.
LEMMA DeliverKeeps ==
    ASSUME IInv, NEW k \in Conn, Deliver(k)
    PROVE  IInv'
<1>1. queue[k] \in Seq(Msg) /\ queue[k] # <<>> /\ Head(queue[k]) \in Msg
  BY DEF IInv, TypeOK, Deliver
<1>2. Applied(view[k], Head(queue[k])) \in [Container -> State]
  BY <1>1 DEF IInv, TypeOK, Applied, Msg, Subject, Content
<1>3. Tail(queue[k]) \in Seq(Msg) /\ Len(Tail(queue[k])) <= Len(queue[k])
  BY <1>1
<1>4. TypeOK'
  BY <1>2, <1>3 DEF IInv, TypeOK, Deliver
<1>5. QueueInv'
  BY <1>1, <1>3 DEF IInv, TypeOK, QueueInv, Deliver
<1>6. JobsCurrent'
  BY DEF IInv, JobsCurrent, Deliver
<1>7. ASSUME NEW j \in Conn, NEW c \in Container,
             Attached(j)', sock'[j] = "open", ~Pending(c)'
      PROVE  Current(j, c)'
  <2>1. Current(j, c)
    BY <1>7, InSyncIsCurrent DEF IInv, Deliver, Attached, Pending
  <2>2. CASE j = k
    BY <2>1, <2>2, DeliverIsCurrent
  <2>3. CASE j # k
    BY <2>1, <2>3, SameIsCurrent DEF Deliver, IInv, TypeOK
  <2> QED BY <2>2, <2>3
<1>8. InSync'
  BY <1>7 DEF InSync, Current
<1> QED BY <1>4, <1>5, <1>6, <1>8 DEF IInv

\* A socket that goes away, a write loop that returns and a client that leaves
\* the hub owe nothing.
LEMMA LeavesKeep ==
    ASSUME IInv, NEW k \in Conn, Shut(k) \/ WriteFails(k) \/ Unregister(k)
    PROVE  IInv'
<1>0. queue[k] \in Seq(Msg) /\ Len(queue[k]) <= QueueSize /\ <<>> \in Seq(Msg) /\ Len(<<>>) = 0
  BY DEF IInv, TypeOK, QueueInv
<1>1. TypeOK' /\ QueueInv'
  <2>1. CASE Shut(k)
    BY <2>1 DEF IInv, TypeOK, QueueInv, Shut, ReleasedBy
  <2>2. CASE WriteFails(k)
    <3>1. queue[k] # <<>> => Tail(queue[k]) \in Seq(Msg) /\ Len(Tail(queue[k])) <= QueueSize
      BY <1>0
    <3>2. TypeOK'
      BY <2>2, <3>1 DEF IInv, TypeOK, WriteFails
    <3>3. QueueInv'
      BY <2>2, <3>1 DEF IInv, TypeOK, QueueInv, WriteFails
    <3> QED BY <3>2, <3>3
  <2>3. CASE Unregister(k)
    BY <1>0, <2>3 DEF IInv, TypeOK, QueueInv, Unregister
  <2> QED BY <2>1, <2>2, <2>3
<1>3. JobsCurrent'
  BY DEF IInv, JobsCurrent, Shut, WriteFails, Unregister
<1>4. ASSUME NEW j \in Conn, NEW c \in Container,
             Attached(j)', sock'[j] = "open", ~Pending(c)'
      PROVE  Current(j, c)'
  <2>1. j # k
    BY <1>4 DEF Shut, WriteFails, Unregister, Attached, IInv, TypeOK
  <2>2. Attached(j) /\ sock[j] = "open" /\ ~Pending(c)
    BY <1>4, <2>1 DEF Shut, WriteFails, Unregister, Attached, Pending, IInv, TypeOK
  <2>3. Current(j, c)
    BY <2>2, InSyncIsCurrent DEF IInv
  <2> QED BY <2>1, <2>3, SameIsCurrent DEF Shut, WriteFails, Unregister, IInv, TypeOK
<1>5. InSync'
  BY <1>4 DEF InSync, Current
<1> QED BY <1>1, <1>3, <1>5 DEF IInv

----------------------------------------------------------------------------
\* No connection is attached at the start (NewHub).
LEMMA InitHolds == Init => IInv
<1> SUFFICES ASSUME Init PROVE IInv
  OBVIOUS
<1>1. TypeOK
  <2>1. queue \in [Conn -> Seq(Msg)]
    BY DEF Init
  <2>2. view \in [Conn -> [Container -> State]]
    BY DEF Init, State
  <2> QED BY <2>1, <2>2 DEF Init, TypeOK
<1>2. InSync /\ JobsCurrent /\ QueueInv
  BY DEF Init, InSync, Attached, JobsCurrent, QueueInv
<1> QED BY <1>1, <1>2 DEF IInv

\* Every step of the watcher, the hub and the connections keeps the invariant.
LEMMA NextKeeps == IInv /\ [Next]_vars => IInv'
<1> SUFFICES ASSUME IInv, [Next]_vars PROVE IInv'
  OBVIOUS
<1>1. CASE Watcher
  BY <1>1, WatcherKeeps
<1>2. CASE Unlock
  BY <1>2, UnlockKeeps
<1>3. CASE BroadcastOther
  BY <1>3, BroadcastOtherKeeps
<1>4. ASSUME NEW m \in jobs, Broadcast(m) PROVE IInv'
  BY <1>4, BroadcastKeeps
<1>5. ASSUME NEW k \in Conn, Register(k) \/ Snapshot(k) \/ StartLoops(k) PROVE IInv'
  BY <1>5, RegisterKeeps, SnapshotKeeps, StartLoopsKeep
<1>6. ASSUME NEW k \in Conn, Deliver(k) \/ Shut(k) \/ WriteFails(k) \/ Unregister(k) PROVE IInv'
  BY <1>6, DeliverKeeps, LeavesKeep
<1>7. CASE UNCHANGED vars
  <2>1. TypeOK' /\ JobsCurrent' /\ QueueInv'
    BY <1>7 DEF vars, IInv, TypeOK, JobsCurrent, QueueInv
  <2>2. InSync'
    BY <1>7 DEF vars, IInv, InSync, Settles, Hits, Pending, Attached
  <2> QED BY <2>1, <2>2 DEF IInv
<1> QED BY <1>1, <1>2, <1>3, <1>4, <1>5, <1>6, <1>7 DEF Next

\* The inductive invariant holds in every reachable state.
THEOREM Inductive == Spec => []IInv
BY InitHolds, NextKeeps, PTL DEF Spec

\* No browser with an open connection has missed an update of the registry:
\* once its queue is empty it shows what the store holds.
THEOREM NothingLost == Spec => []InSync
<1>1. IInv => InSync
  BY DEF IInv
<1> QED BY <1>1, Inductive, PTL

\* Every broadcast announces the state the registry holds.
THEOREM BroadcastsCurrent == Spec => []JobsCurrent
<1>1. IInv => JobsCurrent
  BY DEF IInv
<1> QED BY <1>1, Inductive, PTL

\* The state of the registry, the hub, the connections and the browsers keeps
\* its types.
THEOREM TypeCorrect == Spec => []TypeOK
<1>1. IInv => TypeOK
  BY DEF IInv
<1> QED BY <1>1, Inductive, PTL

\* A broadcast waits only for clients of the hub that it is closing: Unregister
\* needs the lock it holds, and a Close of a socket that is gone returns at once.
LEMMA WaitsKept == TypeOK /\ WaitsForClients /\ [Next]_vars => WaitsForClients'
<1> SUFFICES ASSUME TypeOK, WaitsForClients, [Next]_vars, NEW k \in slow'
             PROVE  Attached(k)' /\ sock'[k] = "closing"
  BY DEF WaitsForClients
<1>0. slow \subseteq Conn /\ sock \in [Conn -> {"open", "closing", "shut"}]
      /\ phase \in [Conn -> {"closed", "registered", "listed", "live", "over"}]
  BY DEF TypeOK
<1>1. ASSUME k \in slow PROVE k \in Conn /\ Attached(k) /\ sock[k] = "closing"
  BY <1>0, <1>1 DEF WaitsForClients
<1>2. ASSUME slow' = slow, sock' = sock, phase' = phase
      PROVE  Attached(k)' /\ sock'[k] = "closing"
  BY <1>1, <1>2 DEF Attached
<1>3. CASE Watcher \/ Unlock \/ UNCHANGED vars
  BY <1>2, <1>3 DEF Watcher, Removes, Denies, Updates, Resyncs, Writes, Unlock, vars
<1>4. ASSUME NEW m \in jobs, Broadcast(m) PROVE Attached(k)' /\ sock'[k] = "closing"
  BY <1>4 DEF Broadcast, CloseOverflowing, Closes, Overflows, Attached
<1>5. CASE BroadcastOther
  BY <1>0, <1>1, <1>5 DEF BroadcastOther, CloseOverflowing, Attached
<1>6. ASSUME NEW j \in Conn, Register(j) \/ Snapshot(j) \/ StartLoops(j) \/ Deliver(j)
      PROVE  Attached(k)' /\ sock'[k] = "closing"
  <2>1. slow' = slow /\ sock' = sock
    BY <1>6 DEF Register, Snapshot, StartLoops, Deliver
  <2>2. phase'[k] = phase[k] \/ phase'[k] # "closed"
    BY <1>0, <1>1, <1>6 DEF Register, Snapshot, StartLoops, Deliver
  <2> QED BY <1>1, <2>1, <2>2 DEF Attached
<1>7. ASSUME NEW j \in Conn, Shut(j) PROVE Attached(k)' /\ sock'[k] = "closing"
  <2>1. k \in slow /\ k # j /\ phase' = phase /\ sock'[k] = sock[k]
    BY <1>0, <1>7 DEF Shut, ReleasedBy
  <2> QED BY <1>1, <2>1 DEF Attached
<1>8. ASSUME NEW j \in Conn, WriteFails(j) \/ Unregister(j)
      PROVE  Attached(k)' /\ sock'[k] = "closing"
  <2>1. k \in slow /\ sock[j] = "shut"
    BY <1>8 DEF WriteFails, Unregister
  <2>2. k # j
    BY <1>1, <2>1
  <2>3. phase'[k] = phase[k] /\ sock'[k] = sock[k]
    BY <1>0, <1>8, <2>1, <2>2 DEF WriteFails, Unregister
  <2> QED BY <1>1, <2>1, <2>3 DEF Attached
<1> QED BY <1>3, <1>4, <1>5, <1>6, <1>7, <1>8 DEF Next

\* No send queue exceeds its capacity, not even that of a connection which has
\* ended and which the hub goes on filling until Unregister; a client that is
\* not in the hub has nothing in its queue; and none leaves it, so that its
\* queue would be closed, while a broadcast waits for its Close.
THEOREM QueuesSafe == Spec => [](QueueInv /\ WaitsForClients)
<1>1. IInv => QueueInv /\ TypeOK
  BY DEF IInv
<1>2. Init => WaitsForClients
  BY DEF Init, WaitsForClients
<1> QED BY <1>1, <1>2, Inductive, WaitsKept, PTL DEF Spec

----------------------------------------------------------------------------
(* The refinement: each step is a step of Mirror, or none, for each browser. *)

\* Every queue can be read container by container.
Ordered == \A k \in Conn, c \in Container : Listable(queue[k], c)

MInv == IInv /\ Ordered

\* A step leaves a queue alone, adds a message, takes the first or drops all.
LEMMA QueueSteps ==
    ASSUME IInv, [Next]_vars, NEW k \in Conn
    PROVE  \/ queue'[k] = queue[k]
           \/ queue'[k] = <<>>
           \/ queue[k] # <<>> /\ queue'[k] = Tail(queue[k])
           \/ \E m \in Msg : queue'[k] = Append(queue[k], m)
<1> USE DEF IInv, TypeOK
<1>1. CASE Watcher \/ Unlock
  BY <1>1 DEF Watcher, Removes, Denies, Updates, Resyncs, Writes, Unlock
<1>2. ASSUME NEW m \in Msg, Enqueue(m)
      PROVE  queue'[k] = queue[k] \/ queue'[k] = Append(queue[k], m)
  BY <1>2 DEF Enqueue
<1>3. CASE BroadcastOther
  <2>1. About(Noise, Absent) \in Msg
    BY DEF About, Msg, State
  <2> QED BY <1>2, <1>3, <2>1 DEF BroadcastOther
<1>4. ASSUME NEW m \in jobs, Broadcast(m)
      PROVE  queue'[k] = queue[k] \/ \E n \in Msg : queue'[k] = Append(queue[k], n)
  <2>1. m \in Msg
    BY DEF Msg
  <2> QED BY <1>2, <1>4, <2>1 DEF Broadcast
<1>5. ASSUME NEW j \in Conn, Register(j) \/ Snapshot(j) \/ StartLoops(j) \/ Shut(j)
      PROVE  queue'[k] = queue[k]
  BY <1>5 DEF Register, Snapshot, StartLoops, Shut
<1>6. ASSUME NEW j \in Conn, Deliver(j) \/ WriteFails(j)
      PROVE  queue'[k] = queue[k] \/ (queue[k] # <<>> /\ queue'[k] = Tail(queue[k]))
  BY <1>6 DEF Deliver, WriteFails
<1>7. ASSUME NEW j \in Conn, Unregister(j) PROVE queue'[k] = queue[k] \/ queue'[k] = <<>>
  BY <1>7 DEF Unregister
<1>8. CASE UNCHANGED vars
  BY <1>8 DEF vars
<1> QED BY <1>1, <1>3, <1>4, <1>5, <1>6, <1>7, <1>8 DEF Next

\* A step keeps that, whatever it does to the queues.
LEMMA OrderedKept == MInv /\ [Next]_vars => MInv'
<1> SUFFICES ASSUME MInv, [Next]_vars, NEW k \in Conn, NEW c \in Container
             PROVE  Listable(queue'[k], c)
  BY NextKeeps DEF MInv, Ordered
<1>1. Listable(queue[k], c) /\ queue[k] \in Seq(Msg) /\ IInv
  BY DEF MInv, Ordered, IInv, TypeOK
<1>2. CASE queue'[k] = queue[k]
  BY <1>1, <1>2
<1>3. CASE queue'[k] = <<>>
  BY <1>3, ToldEmpty
<1>4. CASE queue[k] # <<>> /\ queue'[k] = Tail(queue[k])
  BY <1>1, <1>4, ToldTail
<1>5. ASSUME NEW m \in Msg, queue'[k] = Append(queue[k], m) PROVE Listable(queue'[k], c)
  BY <1>1, <1>5, ToldAppend
<1> QED BY <1>1, <1>2, <1>3, <1>4, <1>5, QueueSteps

\* The queues are empty at the start.
LEMMA InitOrdered == Init => MInv
<1> SUFFICES ASSUME Init, NEW k \in Conn, NEW c \in Container PROVE Listable(queue[k], c)
  BY InitHolds DEF MInv, Ordered
<1>1. queue[k] = <<>>
  BY DEF Init
<1> QED BY <1>1, ToldEmpty

\* What is on its way is what the queue tells, and then what is announced, until
\* the socket is gone.
LEMMA WayIsTold ==
    ASSUME MInv, NEW k \in Conn, NEW c \in Container
    PROVE  /\ Told(queue[k], c) \in Seq(State)
           /\ store[c] \in State
           /\ sock[k] # "shut" =>
                OnTheWay(k, c) = IF Linked(k) /\ Pending(c) THEN Append(Told(queue[k], c), store[c])
                                 ELSE Told(queue[k], c)
           /\ sock[k] = "shut" => OnTheWay(k, c) = <<>>
           /\ OnTheWay(k, c) \in Seq(State)
<1>1. queue[k] \in Seq(Msg) /\ Listable(queue[k], c) /\ store[c] \in State
  BY DEF MInv, Ordered, IInv, TypeOK
<1> DEFINE told == Told(queue[k], c)
<1>2. told \in Seq(State)
  BY <1>1, ToldType
<1>3. OnTheWay(k, c) = IF sock[k] = "shut" THEN <<>>
                      ELSE told \o (IF Linked(k) /\ Pending(c) THEN <<store[c]>> ELSE <<>>)
  BY DEF OnTheWay
<1> HIDE DEF told
<1>4. /\ told \o <<>> = told /\ told \o <<store[c]>> = Append(told, store[c])
      /\ Append(told, store[c]) \in Seq(State) /\ <<>> \in Seq(State)
  BY <1>1, <1>2
<1>5. CASE Linked(k) /\ Pending(c)
  BY <1>1, <1>2, <1>3, <1>4, <1>5 DEF told
<1>6. CASE ~(Linked(k) /\ Pending(c))
  BY <1>1, <1>2, <1>3, <1>4, <1>6 DEF told
<1> QED BY <1>5, <1>6

\* The same of the state after a step.
LEMMA WayIsToldNext ==
    ASSUME MInv', NEW k \in Conn, NEW c \in Container
    PROVE  /\ Told(queue'[k], c) \in Seq(State)
           /\ store'[c] \in State
           /\ sock'[k] # "shut" =>
                OnTheWay(k, c)' = IF Linked(k)' /\ Pending(c)'
                                  THEN Append(Told(queue'[k], c), store'[c])
                                  ELSE Told(queue'[k], c)
           /\ sock'[k] = "shut" => OnTheWay(k, c)' = <<>>
<1>1. queue'[k] \in Seq(Msg) /\ Listable(queue'[k], c) /\ store'[c] \in State
  BY DEF MInv, Ordered, IInv, TypeOK
<1> DEFINE told == Told(queue'[k], c)
<1>2. told \in Seq(State)
  BY <1>1, ToldType
<1>3. OnTheWay(k, c)' = IF sock'[k] = "shut" THEN <<>>
                      ELSE told \o (IF Linked(k)' /\ Pending(c)' THEN <<store'[c]>> ELSE <<>>)
  BY DEF OnTheWay
<1> HIDE DEF told
<1>4. /\ told \o <<>> = told /\ told \o <<store'[c]>> = Append(told, store'[c])
      /\ Append(told, store'[c]) \in Seq(State) /\ <<>> \in Seq(State)
  BY <1>1, <1>2
<1>5. CASE Linked(k)' /\ Pending(c)'
  BY <1>1, <1>2, <1>3, <1>4, <1>5 DEF told
<1>6. CASE ~(Linked(k)' /\ Pending(c)')
  BY <1>1, <1>2, <1>3, <1>4, <1>6 DEF told
<1> QED BY <1>5, <1>6

\* A step between states that look alike to a browser is none of Mirror.
LEMMA SameMaps ==
    ASSUME NEW k \in Conn, store' = store, view'[k] = view[k], Linked(k)' = Linked(k),
           \A c \in Container : OnTheWay(k, c)' = OnTheWay(k, c)
    PROVE  [Feed(k)!Next]_(Feed(k)!vars)
BY DEF Feed!vars

\* When the socket is gone, or the queue does not change, or is dropped, what is
\* on its way is what was, or less.
LEMMA LosesMaps ==
    ASSUME MInv, MInv', NEW k \in Conn, store' = store, view'[k] = view[k],
           sock'[k] = "shut" \/ queue'[k] = <<>> \/ (queue'[k] = queue[k] /\ sock[k] # "shut"),
           ~Linked(k)'
    PROVE  [Feed(k)!Next]_(Feed(k)!vars)
<1>1. ASSUME NEW c \in Container
      PROVE  LET before == OnTheWay(k, c)
                 after == OnTheWay(k, c)'
             IN  /\ Len(after) <= Len(before)
                 /\ after = SubSeq(before, 1, Len(after))
  <2> DEFINE told == Told(queue[k], c)
  <2>1. told \in Seq(State) /\ store[c] \in State /\ OnTheWay(k, c) \in Seq(State)
        /\ (sock[k] # "shut" => OnTheWay(k, c) = Append(told, store[c]) \/ OnTheWay(k, c) = told)
    BY WayIsTold
  <2>2. OnTheWay(k, c)' = <<>> \/ (sock[k] # "shut" /\ OnTheWay(k, c)' = told)
    BY WayIsToldNext, ToldEmpty
  <2> HIDE DEF told
  <2>3. /\ Len(told) <= Len(Append(told, store[c])) /\ Len(told) <= Len(told)
        /\ told = SubSeq(Append(told, store[c]), 1, Len(told))
        /\ told = SubSeq(told, 1, Len(told))
    BY <2>1
  <2>4. \A s \in Seq(State) : Len(<<>>) <= Len(s) /\ <<>> = SubSeq(s, 1, Len(<<>>))
    OBVIOUS
  <2> QED BY <2>1, <2>2, <2>3, <2>4
<1>2. Feed(k)!Shortened
  BY <1>1 DEF Feed!Shortened
<1>3. CASE Linked(k)
  <2>1. Feed(k)!Unlink
    BY <1>2, <1>3 DEF Feed!Unlink
  <2> QED BY <2>1 DEF Feed!Next
<1>4. CASE ~Linked(k)
  <2>1. Feed(k)!Drift
    BY <1>2, <1>4 DEF Feed!Drift, Linked
  <2> QED BY <2>1 DEF Feed!Next
<1> QED BY <1>3, <1>4

\* The watcher writes: what changes is announced, in the order of the writes.
LEMMA WritesMap ==
    ASSUME MInv, MInv', NEW k \in Conn, NEW new \in [Container -> State],
           NEW messages \in SUBSET (Container \X State), NEW lock \in BOOLEAN,
           Writes(new, messages, lock),
           \A c \in Container : new[c] = store[c] \/ About(c, new[c]) \in messages
    PROVE  [Feed(k)!Next]_(Feed(k)!vars)
<1> DEFINE announced == {c \in Container : \E m \in messages : Subject(m) = c}
<1>1. /\ store' = new /\ queue' = queue /\ view' = view /\ sock' = sock /\ Linked(k)' = Linked(k)
      /\ \A c \in Container : ~Pending(c)
      /\ \A c \in Container : Pending(c)' <=> c \in announced
  BY DEF Writes, Linked, Busy, Pending
<1>2. \A c \in Container \ announced : new[c] = store[c]
  BY DEF About, Subject
<1>3. ASSUME NEW c \in Container
      PROVE  OnTheWay(k, c)' = IF Linked(k) /\ c \in announced
                               THEN Append(OnTheWay(k, c), store'[c]) ELSE OnTheWay(k, c)
  <2> HIDE DEF announced
  <2>1. CASE sock[k] # "shut"
    <3>1. OnTheWay(k, c) = Told(queue[k], c)
      BY <1>1, <2>1, WayIsTold
    <3>2. OnTheWay(k, c)' = IF Linked(k)' /\ Pending(c)' THEN Append(Told(queue'[k], c), store'[c])
                            ELSE Told(queue'[k], c)
      BY <1>1, <2>1, WayIsToldNext
    <3> QED BY <1>1, <3>1, <3>2
  <2>2. CASE sock[k] = "shut"
    <3>1. ~Linked(k) /\ OnTheWay(k, c) = <<>> /\ OnTheWay(k, c)' = <<>>
      BY <1>1, <2>2, WayIsTold, WayIsToldNext DEF Linked
    <3> QED BY <3>1
  <2> QED BY <2>1, <2>2
<1>4. announced \in SUBSET Container
  OBVIOUS
<1> HIDE DEF announced
<1>5. Feed(k)!Write
  BY <1>1, <1>2, <1>3, <1>4 DEF Feed!Write
<1> QED BY <1>5 DEF Feed!Next

\* Each entry point of the registry writes what it announces.
LEMMA WatcherMaps ==
    ASSUME MInv, MInv', NEW k \in Conn, Watcher
    PROVE  [Feed(k)!Next]_(Feed(k)!vars)
<1>0. store \in [Container -> State]
  BY DEF MInv, IInv, TypeOK
<1>1. ASSUME NEW c \in Container, NEW s \in State, NEW lock \in BOOLEAN,
             Writes([store EXCEPT ![c] = s], {About(c, s)}, lock)
      PROVE  [Feed(k)!Next]_(Feed(k)!vars)
  <2> DEFINE new == [store EXCEPT ![c] = s]
  <2>1. new \in [Container -> State] /\ {About(c, s)} \in SUBSET (Container \X State)
    BY <1>0 DEF About
  <2>2. \A d \in Container : new[d] = store[d] \/ About(d, new[d]) \in {About(c, s)}
    BY <1>0
  <2> HIDE DEF new
  <2>3. Writes(new, {About(c, s)}, lock)
    BY <1>1 DEF new
  <2> QED BY <2>1, <2>2, <2>3, WritesMap
<1>2. ASSUME NEW new \in [Container -> State], Resyncs(new)
      PROVE  [Feed(k)!Next]_(Feed(k)!vars)
  <2>1. ResyncMessages(new) \in SUBSET (Container \X State)
    BY DEF ResyncMessages, About
  <2>2. \A c \in Container : new[c] = store[c] \/ About(c, new[c]) \in ResyncMessages(new)
    BY DEF ResyncMessages
  <2> QED BY <1>2, <2>1, <2>2, WritesMap DEF Resyncs
<1>3. ASSUME NEW c \in Container, Removes(c) \/ Denies(c)
      PROVE  [Feed(k)!Next]_(Feed(k)!vars)
  <2>1. Absent \in State
    BY DEF State
  <2> QED BY <1>1, <1>3, <2>1 DEF Removes, Denies
<1>4. ASSUME NEW c \in Container, NEW s \in Value, Updates(c, s)
      PROVE  [Feed(k)!Next]_(Feed(k)!vars)
  <2>1. s \in State
    BY DEF State
  <2> QED BY <1>1, <1>4, <2>1 DEF Updates
<1> QED BY <1>2, <1>3, <1>4 DEF Watcher

\* To a browser whose socket is gone a broadcast brings nothing.
LEMMA ShutMaps ==
    ASSUME MInv, MInv', NEW k \in Conn, sock[k] = "shut", sock'[k] = "shut",
           store' = store, view'[k] = view[k]
    PROVE  [Feed(k)!Next]_(Feed(k)!vars)
BY LosesMaps DEF Linked

\* A broadcast of the watcher moves a state from the announced ones to the
\* queue, or, where there is no room, ends the link.
LEMMA BroadcastMaps ==
    ASSUME MInv, MInv', NEW k \in Conn, NEW m \in jobs, Broadcast(m)
    PROVE  [Feed(k)!Next]_(Feed(k)!vars)
<1> DEFINE d == Subject(m)
<1>1. /\ d \in Container /\ m \in Msg /\ Content(m) = store[d] /\ Pending(d)
      /\ queue[k] \in Seq(Msg)
  BY DEF MInv, IInv, TypeOK, JobsCurrent, Pending, Subject, Msg
<1>2. \A c \in Container : Pending(c)' <=> (Pending(c) /\ c # d)
  <2>1. ASSUME NEW n \in jobs, Subject(n) = d PROVE n = m
    <3>1. n \in Container \X State /\ m \in Container \X State
      BY DEF MInv, IInv, TypeOK
    <3>2. Content(n) = Content(m) /\ Subject(n) = Subject(m)
      BY <2>1 DEF MInv, IInv, JobsCurrent
    <3> QED BY <3>1, <3>2 DEF Subject, Content
  <2>2. jobs' = jobs \ {m}
    BY DEF Broadcast
  <2> QED BY <2>1, <2>2 DEF Pending
<1>3. store' = store /\ view' = view /\ phase' = phase
  BY DEF Broadcast
<1> HIDE DEF d
<1>6. CASE sock[k] = "shut"
  <2>1. sock'[k] = "shut"
    BY <1>6 DEF Broadcast, CloseOverflowing, Closes
  <2> QED BY <1>3, <1>6, <2>1, ShutMaps
<1>4. CASE Takes(k) /\ sock[k] # "shut"
  <2>1. /\ queue'[k] = Append(queue[k], m) /\ Linked(k)' = Linked(k) /\ sock'[k] = sock[k]
    BY <1>4 DEF Broadcast, Enqueue, CloseOverflowing, Closes, Takes, Overflows, Linked
  <2>2. ASSUME NEW c \in Container
        PROVE  Told(queue'[k], c) = IF c = d THEN Append(Told(queue[k], c), store[c])
                                    ELSE Told(queue[k], c)
    <3>1. Listable(queue[k], c)
      BY DEF MInv, Ordered
    <3>2. Told(Append(queue[k], m), c) = IF Subject(m) = c THEN Append(Told(queue[k], c), Content(m))
                                         ELSE Told(queue[k], c)
      BY <1>1, <3>1, ToldAppend
    <3>3. CASE c = d
      BY <1>1, <2>1, <3>2, <3>3 DEF d
    <3>4. CASE c # d
      BY <2>1, <3>2, <3>4 DEF d
    <3> QED BY <3>3, <3>4
  <2>3. CASE Linked(k)
    <3>1. ASSUME NEW c \in Container PROVE OnTheWay(k, c)' = OnTheWay(k, c)
      <4>1. /\ OnTheWay(k, c) = IF Pending(c) THEN Append(Told(queue[k], c), store[c])
                                ELSE Told(queue[k], c)
            /\ OnTheWay(k, c)' = IF Pending(c)' THEN Append(Told(queue'[k], c), store[c])
                                 ELSE Told(queue'[k], c)
        BY <1>3, <1>4, <2>1, <2>3, WayIsTold, WayIsToldNext
      <4>2. CASE c = d
        <5>1. Pending(c) /\ ~Pending(c)'
          BY <1>1, <1>2, <4>2
        <5> QED BY <2>2, <4>1, <4>2, <5>1
      <4>3. CASE c # d
        <5>1. Pending(c)' <=> Pending(c)
          BY <1>2, <4>3
        <5> QED BY <2>2, <4>1, <4>3, <5>1
      <4> QED BY <4>2, <4>3
    <3> QED BY <1>3, <2>1, <3>1, SameMaps
  <2>4. CASE ~Linked(k)
    <3>1. ASSUME NEW c \in Container
          PROVE  OnTheWay(k, c)' = IF c = d THEN Append(OnTheWay(k, c), store[c])
                                   ELSE OnTheWay(k, c)
      BY <1>3, <1>4, <2>1, <2>2, <2>4, WayIsTold, WayIsToldNext
    <3>2. [c \in Container |-> OnTheWay(k, c)']
            = [[c \in Container |-> OnTheWay(k, c)] EXCEPT ![d] = Append(@, store[d])]
      BY <1>1, <3>1
    <3>3. Feed(k)!Drift
      BY <1>1, <1>3, <2>1, <2>4, <3>2 DEF Feed!Drift
    <3> QED BY <3>3 DEF Feed!Next
  <2> QED BY <2>3, <2>4
<1>5. CASE ~Takes(k) /\ sock[k] # "shut"
  <2>1. queue'[k] = queue[k]
    BY <1>5 DEF Broadcast, Enqueue
  <2>2. ~Linked(k)'
    BY <1>5 DEF Broadcast, CloseOverflowing, Closes, Takes, Overflows, Linked, Attached
  <2> QED BY <1>3, <1>5, <2>1, <2>2, LosesMaps
<1> QED BY <1>4, <1>5, <1>6

\* Other broadcasts tell nothing of containers; they may end the link.
LEMMA BroadcastOtherMaps ==
    ASSUME MInv, MInv', NEW k \in Conn, BroadcastOther
    PROVE  [Feed(k)!Next]_(Feed(k)!vars)
<1> DEFINE m == About(Noise, Absent)
<1>1. m \in Msg /\ Subject(m) = Noise /\ queue[k] \in Seq(Msg)
  BY DEF Msg, State, About, Subject, MInv, IInv, TypeOK
<1> HIDE DEF m
<1>2. store' = store /\ view' = view /\ phase' = phase /\ jobs' = jobs
  BY DEF BroadcastOther
<1>3. queue'[k] = IF Takes(k) THEN Append(queue[k], m) ELSE queue[k]
  BY DEF BroadcastOther, Enqueue, m
<1>4. ASSUME NEW c \in Container PROVE Told(queue'[k], c) = Told(queue[k], c)
  <2>1. Listable(queue[k], c) /\ c # Noise
    BY DEF MInv, Ordered
  <2> QED BY <1>1, <1>3, <2>1, ToldAppend
<1>7. CASE sock[k] = "shut"
  <2>1. sock'[k] = "shut"
    BY <1>7 DEF BroadcastOther, CloseOverflowing, Closes
  <2> QED BY <1>2, <1>7, <2>1, ShutMaps
<1>8. sock[k] # "shut" => sock'[k] # "shut"
  BY DEF BroadcastOther, CloseOverflowing, MInv, IInv, TypeOK
<1>5. CASE Linked(k)' = Linked(k) /\ sock[k] # "shut"
  <2>1. ASSUME NEW c \in Container PROVE OnTheWay(k, c)' = OnTheWay(k, c)
    <3>1. Pending(c)' = Pending(c)
      BY <1>2 DEF Pending
    <3> QED BY <1>2, <1>4, <1>5, <1>8, <3>1, WayIsTold, WayIsToldNext
  <2> QED BY <1>2, <1>5, <2>1, SameMaps
<1>6. CASE Linked(k)' # Linked(k) /\ sock[k] # "shut"
  <2>1. ~Linked(k)' /\ ~Takes(k)
    BY <1>2, <1>6 DEF BroadcastOther, CloseOverflowing, Closes, Linked, Takes, Overflows, MInv, IInv, TypeOK
  <2> QED BY <1>2, <1>3, <1>6, <2>1, LosesMaps
<1> QED BY <1>5, <1>6, <1>7

\* The snapshot makes the view the store.  A queue that was filled before it
\* ends with the store's states (InSync).
LEMMA SnapshotMaps ==
    ASSUME MInv, MInv', NEW k \in Conn, Snapshot(k)
    PROVE  [Feed(k)!Next]_(Feed(k)!vars)
<1>1. /\ store' = store /\ queue' = queue /\ sock' = sock /\ ~Linked(k)
      /\ Linked(k)' <=> sock[k] = "open"
      /\ \A c \in Container : Pending(c)' = Pending(c)
  BY DEF Snapshot, Linked, Pending, MInv, IInv, TypeOK
<1>2. view'[k] = store \/ (view'[k] = view[k] /\ sock[k] # "open")
  BY DEF Snapshot, MInv, IInv, TypeOK
<1>3. CASE sock[k] = "open"
  <2>1. ASSUME NEW c \in Container, OnTheWay(k, c)' # <<>>
        PROVE  OnTheWay(k, c)'[Len(OnTheWay(k, c)')] = store[c]
    <3> DEFINE told == Told(queue[k], c)
    <3>1. told \in Seq(State) /\ store[c] \in State
      BY WayIsTold
    <3>2. OnTheWay(k, c)' = IF Pending(c) THEN Append(told, store[c]) ELSE told
      BY <1>1, <1>3, WayIsToldNext
    <3> HIDE DEF told
    <3>3. CASE Pending(c)
      BY <3>1, <3>2, <3>3
    <3>4. CASE ~Pending(c)
      <4>1. queue[k] \in Seq(Msg) /\ Listable(queue[k], c)
        BY DEF MInv, Ordered, IInv, TypeOK
      <4>2. Hits(k, c) = At(queue[k], c)
        BY DEF Hits, At
      <4>3. Hits(k, c) # {}
        BY <2>1, <3>2, <3>4, <4>1, <4>2, ToldLast DEF told
      <4>4. Settles(k, c)
        BY <1>3, <3>4, <4>3 DEF MInv, IInv, InSync, Snapshot, Attached
      <4>5. PICK i \in Hits(k, c) : (\A j \in Hits(k, c) : j <= i)
                                       /\ Content(queue[k][i]) = store[c]
        BY <4>3, <4>4 DEF Settles
      <4> QED BY <3>2, <3>4, <4>1, <4>2, <4>5, ToldLast DEF told
    <3> QED BY <3>3, <3>4
  <2>2. Feed(k)!Link
    BY <1>1, <1>2, <1>3, <2>1 DEF Feed!Link
  <2> QED BY <2>2 DEF Feed!Next
<1>4. CASE sock[k] # "open"
  <2>0. Linked(k)' = Linked(k)
    BY <1>1, <1>4 DEF Linked
  <2>1. ASSUME NEW c \in Container PROVE OnTheWay(k, c)' = OnTheWay(k, c)
    BY <1>1, <2>0, WayIsTold, WayIsToldNext
  <2>2. CASE view'[k] = view[k]
    BY <1>1, <2>0, <2>1, <2>2, SameMaps
  <2>3. CASE view'[k] = store
    <3>1. Feed(k)!Drift
      BY <1>1, <2>0, <2>1, <2>3 DEF Feed!Drift
    <3> QED BY <3>1 DEF Feed!Next
  <2> QED BY <1>2, <2>2, <2>3
<1> QED BY <1>3, <1>4

\* The browser receives the first of the states on their way, or no container's.
LEMMA DeliverMaps ==
    ASSUME MInv, MInv', NEW k \in Conn, Deliver(k)
    PROVE  [Feed(k)!Next]_(Feed(k)!vars)
<1> DEFINE q == queue[k]
           d == Subject(Head(q))
<1>1. q \in Seq(Msg) /\ q # <<>> /\ Head(q) \in Msg
  BY DEF MInv, IInv, TypeOK, Deliver
<1>2. /\ store' = store /\ queue'[k] = Tail(q) /\ view'[k] = Applied(view[k], Head(q))
      /\ Linked(k)' = Linked(k) /\ \A c \in Container : Pending(c)' = Pending(c)
      /\ sock[k] # "shut" /\ sock'[k] # "shut"
  BY DEF MInv, IInv, TypeOK, Deliver, Linked, Pending
<1>3. d = Noise \/ d \in Container
  BY <1>1 DEF Msg, Subject
<1>4. ASSUME NEW c \in Container
      PROVE  /\ d # c => OnTheWay(k, c)' = OnTheWay(k, c)
             /\ d = c => OnTheWay(k, c) # <<>> /\ Head(OnTheWay(k, c)) = Content(Head(q))
                         /\ OnTheWay(k, c)' = Tail(OnTheWay(k, c))
  <2> DEFINE told == Told(q, c)
             rest == Told(Tail(q), c)
             x == Content(Head(q))
  <2>1. /\ d # c => rest = told
        /\ d = c => told = <<x>> \o rest
    <3>1. Listable(q, c)
      BY DEF MInv, Ordered
    <3> QED BY <1>1, <3>1, ToldTail
  <2>2. /\ told \in Seq(State) /\ store[c] \in State
        /\ OnTheWay(k, c) = IF Linked(k) /\ Pending(c) THEN Append(told, store[c]) ELSE told
    BY <1>2, WayIsTold
  <2>3. /\ rest \in Seq(State)
        /\ OnTheWay(k, c)' = IF Linked(k) /\ Pending(c) THEN Append(rest, store[c]) ELSE rest
    BY <1>2, WayIsToldNext
  <2>4. x \in State
    BY <1>1 DEF Msg, Content
  <2> HIDE DEF told, rest, x, d
  <2>5. CASE d # c
    BY <2>1, <2>2, <2>3, <2>5
  <2>6. CASE d = c
    <3>1. /\ told # <<>> /\ Head(told) = x /\ Tail(told) = rest
          /\ Append(told, store[c]) # <<>> /\ Head(Append(told, store[c])) = x
          /\ Tail(Append(told, store[c])) = Append(rest, store[c])
      <4>1. told = <<x>> \o rest
        BY <2>1, <2>6
      <4>2. Append(told, store[c]) = <<x>> \o Append(rest, store[c])
        BY <2>2, <2>3, <2>4, <4>1
      <4>3. \A s \in Seq(State) : <<x>> \o s # <<>> /\ Head(<<x>> \o s) = x /\ Tail(<<x>> \o s) = s
        BY <2>4
      <4>4. Append(rest, store[c]) \in Seq(State)
        BY <2>2, <2>3
      <4> QED BY <2>3, <4>1, <4>2, <4>3, <4>4
    <3> QED BY <2>2, <2>3, <2>6, <3>1 DEF x
  <2> QED BY <2>5, <2>6
<1> HIDE DEF q
<1>5. CASE d = Noise
  <2>1. view'[k] = view[k] /\ \A c \in Container : OnTheWay(k, c)' = OnTheWay(k, c)
    BY <1>2, <1>4, <1>5 DEF Applied
  <2> QED BY <1>2, <2>1, SameMaps
<1>6. CASE d \in Container
  <2>1. view'[k] = [view[k] EXCEPT ![d] = Head(OnTheWay(k, d))] /\ OnTheWay(k, d) # <<>>
    BY <1>2, <1>4, <1>6 DEF Applied
  <2>2. [c \in Container |-> OnTheWay(k, c)']
          = [[c \in Container |-> OnTheWay(k, c)] EXCEPT ![d] = Tail(@)]
    BY <1>4, <1>6
  <2> HIDE DEF d
  <2>3. Feed(k)!Receive(d)
    BY <1>2, <1>6, <2>1, <2>2 DEF Feed!Receive
  <2> QED BY <1>6, <2>3 DEF Feed!Next
<1> QED BY <1>3, <1>5, <1>6

\* A connection's other steps are seen by its own browser alone, and only when
\* its socket goes.
LEMMA ConnectionMaps ==
    ASSUME MInv, MInv', NEW k \in Conn, NEW j \in Conn,
           \/ Register(j) \/ Snapshot(j) \/ StartLoops(j)
           \/ Deliver(j) \/ Shut(j) \/ WriteFails(j) \/ Unregister(j)
    PROVE  [Feed(k)!Next]_(Feed(k)!vars)
<1>1. store' = store /\ \A c \in Container : Pending(c)' = Pending(c)
  BY DEF Register, Snapshot, StartLoops, Deliver, Shut, WriteFails, Unregister, Pending
<1>2. ASSUME queue'[k] = queue[k], view'[k] = view[k], Linked(k)' = Linked(k), sock'[k] = sock[k]
      PROVE  [Feed(k)!Next]_(Feed(k)!vars)
  <2>1. ASSUME NEW c \in Container PROVE OnTheWay(k, c)' = OnTheWay(k, c)
    BY <1>1, <1>2 DEF OnTheWay
  <2> QED BY <1>1, <1>2, <2>1, SameMaps
<1>3. CASE j # k
  <2>1. queue'[k] = queue[k] /\ view'[k] = view[k] /\ phase'[k] = phase[k] /\ sock'[k] = sock[k]
    BY <1>3 DEF Register, Snapshot, StartLoops, Deliver, Shut, WriteFails, Unregister, MInv,
                   IInv, TypeOK
  <2> QED BY <1>2, <2>1 DEF Linked
<1>4. CASE j = k
  <2>1. CASE Register(j) \/ StartLoops(j)
    <3>1. queue'[k] = queue[k] /\ view'[k] = view[k] /\ Linked(k)' = Linked(k) /\ sock'[k] = sock[k]
      BY <1>4, <2>1 DEF Register, StartLoops, Linked, MInv, IInv, TypeOK
    <3> QED BY <1>2, <3>1
  <2>2. CASE Shut(j) \/ WriteFails(j)
    <3>1. sock'[k] = "shut" /\ view'[k] = view[k] /\ ~Linked(k)'
      BY <1>4, <2>2 DEF Shut, WriteFails, Linked, MInv, IInv, TypeOK
    <3> QED BY <1>1, <3>1, LosesMaps
  <2>3. CASE Unregister(j)
    <3>1. queue'[k] = <<>> /\ view'[k] = view[k] /\ ~Linked(k)'
      BY <1>4, <2>3 DEF Unregister, Linked, MInv, IInv, TypeOK
    <3> QED BY <1>1, <3>1, LosesMaps
  <2> QED BY <1>4, <2>1, <2>2, <2>3, SnapshotMaps, DeliverMaps
<1> QED BY <1>3, <1>4

\* Every step, as each browser sees it.
LEMMA NextMaps ==
    ASSUME MInv, MInv', [Next]_vars, NEW k \in Conn
    PROVE  [Feed(k)!Next]_(Feed(k)!vars)
<1>1. ASSUME store' = store, queue' = queue, view' = view, phase' = phase, sock' = sock,
             jobs' = jobs
      PROVE  [Feed(k)!Next]_(Feed(k)!vars)
  <2>1. view'[k] = view[k] /\ Linked(k)' = Linked(k)
        /\ \A c \in Container : OnTheWay(k, c)' = OnTheWay(k, c)
    BY <1>1 DEF Linked, OnTheWay, Pending
  <2> QED BY <1>1, <2>1, SameMaps
<1>2. CASE Unlock
  BY <1>1, <1>2 DEF Unlock
<1>3. CASE UNCHANGED vars
  BY <1>1, <1>3 DEF vars
<1>4. ASSUME NEW j \in Conn,
             \/ Register(j) \/ Snapshot(j) \/ StartLoops(j)
             \/ Deliver(j) \/ Shut(j) \/ WriteFails(j) \/ Unregister(j)
      PROVE  [Feed(k)!Next]_(Feed(k)!vars)
  BY <1>4, ConnectionMaps
<1> QED BY <1>2, <1>3, <1>4, WatcherMaps, BroadcastMaps, BroadcastOtherMaps DEF Next

\* At the start there is nothing on its way to anyone.
LEMMA InitMaps ==
    ASSUME Init, NEW k \in Conn
    PROVE  Feed(k)!Init
<1>1. /\ store \in [Container -> State] /\ view[k] \in [Container -> State] /\ ~Linked(k)
      /\ queue[k] = <<>> /\ sock[k] # "shut"
  BY DEF Init, State, Linked
<1>2. ASSUME NEW c \in Container PROVE OnTheWay(k, c) = <<>>
  BY <1>1, ToldEmpty DEF OnTheWay
<1> QED BY <1>1, <1>2 DEF Feed!Init

\* To every browser the way from the registry is a Mirror: while it is linked
\* it receives every state that is announced, in order, none twice.
THEOREM EachIsAMirror == Spec => Mirrors
<1>1. Init => \A k \in Conn : Feed(k)!Init
  BY InitMaps
<1>2. MInv /\ MInv' /\ [Next]_vars => [\A k \in Conn : [Feed(k)!Next]_(Feed(k)!vars)]_vars
  BY NextMaps
<1> QED BY <1>1, <1>2, InitOrdered, OrderedKept, PTL DEF Spec, Mirrors
=============================================================================
