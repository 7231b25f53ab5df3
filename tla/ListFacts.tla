------------------------------ MODULE ListFacts ------------------------------
(***************************************************************************)
(* Induction over the naturals in the form the installed provers can use,  *)
(* about sets instead of predicates, and what follows from it about finite *)
(* ranges, about recursive functions and about ElementsAt.                 *)
(***************************************************************************)
EXTENDS Lists, FiniteSets, TLAPS, WellFoundedInduction, FiniteSetTheorems

LEMMA LeastNat ==
    ASSUME NEW T, T \subseteq Nat, T # {}
    PROVE  \E x \in T : \A y \in T : x <= y
  <1>1. \E x \in T : \A y \in T : ~ (<<y, x>> \in OpToRel(<, Nat))
    BY NatLessThanWellFounded, WFMin
  <1>2. \A x \in T, y \in T : (<<y, x>> \in OpToRel(<, Nat)) <=> y < x
    BY DEF OpToRel
  <1>3. \E x \in T : \A y \in T : ~(y < x)
    BY <1>1, <1>2, Zenon
  <1>. QED
    BY <1>3

\* A set of numbers with 0 and each of its elements' successors up to a bound
\* holds every number up to the bound.
LEMMA Induction ==
    ASSUME NEW m \in Nat, NEW T, 0 \in T, \A n \in 0 .. m - 1 : n \in T => n + 1 \in T
    PROVE  \A n \in 0 .. m : n \in T
  <1>. SUFFICES ASSUME (0 .. m) \ T # {} PROVE FALSE
    OBVIOUS
  <1>1. PICK x \in (0 .. m) \ T : \A y \in (0 .. m) \ T : x <= y
    <2>1. (0 .. m) \ T \subseteq Nat
      OBVIOUS
    <2>. QED
      BY <2>1, LeastNat
  <1>2. x # 0 /\ x - 1 \in 0 .. m - 1
    BY <1>1
  <1>3. x - 1 \in T
    BY <1>1, <1>2
  <1>. QED
    BY <1>1, <1>2, <1>3

LEMMA GreatestIndex ==
    ASSUME NEW n \in Nat, NEW T, T \subseteq 1 .. n, T # {}
    PROVE  \E x \in T : \A y \in T : y <= x
  <1>. DEFINE D == {n - y : y \in T}
  <1>1. D \subseteq Nat /\ D # {}
    <2>1. \A y \in T : n - y \in Nat
      OBVIOUS
    <2>. QED
      BY <2>1, Zenon
  <1>2. PICK d \in D : \A e \in D : d <= e
    BY <1>1, LeastNat
  <1>3. PICK x \in T : d = n - x
    BY <1>2
  <1>4. ASSUME NEW y \in T PROVE y <= x
    <2>1. n - y \in D
      OBVIOUS
    <2>. HIDE DEF D
    <2>. QED
      BY <1>2, <1>3, <2>1
  <1>. QED
    BY <1>4

-----------------------------------------------------------------------------
(* The elements at some places.                                            *)

LEMMA InSeqType == ASSUME NEW T, NEW s \in Seq(T) PROVE InSeq(s) \subseteq T
  <1>1. \A i \in DOMAIN s : s[i] \in T
    OBVIOUS
  <1>. QED
    BY <1>1 DEF InSeq

LEMMA InAppended ==
    ASSUME NEW T, NEW s \in Seq(T), NEW x \in T
    PROVE  InSeq(Append(s, x)) = InSeq(s) \cup {x}
  <1>1. Len(Append(s, x)) = Len(s) + 1 /\ Append(s, x)[Len(s) + 1] = x
    OBVIOUS
  <1>2. \A i \in 1 .. Len(s) : Append(s, x)[i] = s[i]
    OBVIOUS
  <1>3. DOMAIN Append(s, x) = 1 .. Len(s) + 1 /\ DOMAIN s = 1 .. Len(s)
    OBVIOUS
  <1>. QED
    BY <1>1, <1>2, <1>3 DEF InSeq

AtStep(s, P, f, n) ==
    IF n = 0 THEN <<>>
    ELSE IF n \in P THEN Append(f[n - 1], s[n]) ELSE f[n - 1]
AtUpTo(s, P) == CHOOSE f : f = [n \in 0 .. Len(s) |-> AtStep(s, P, f, n)]

LEMMA ElementsAtEnd == ASSUME NEW s, NEW P PROVE ElementsAt(s, P) = AtUpTo(s, P)[Len(s)]
  BY DEF ElementsAt, AtUpTo, AtStep

\* The recursive definition has a solution.
LEMMA AtExists ==
    ASSUME NEW s, NEW P, NEW m \in Nat
    PROVE  \E f : f = [n \in 0 .. m |-> AtStep(s, P, f, n)]
  <1>. DEFINE T == {k \in Nat : \E f : f = [n \in 0 .. k |-> AtStep(s, P, f, n)]}
  <1>1. 0 \in T
    <2>1. [n \in 0 .. 0 |-> <<>>] = [n \in 0 .. 0 |-> AtStep(s, P, [j \in 0 .. 0 |-> <<>>], n)]
      BY DEF AtStep
    <2>. QED
      BY <2>1
  <1>2. ASSUME NEW k \in 0 .. m - 1, k \in T PROVE k + 1 \in T
    <2>1. PICK f : f = [n \in 0 .. k |-> AtStep(s, P, f, n)]
      BY <1>2
    <2>. DEFINE g == [n \in 0 .. k + 1 |-> IF n = k + 1 THEN AtStep(s, P, f, n) ELSE f[n]]
    <2>2. \A n \in 0 .. k : g[n] = f[n] /\ f[n] = AtStep(s, P, f, n)
      BY <2>1
    <2>3. g[k + 1] = AtStep(s, P, f, k + 1) /\ DOMAIN g = 0 .. k + 1
      BY <1>2
    <2>. HIDE DEF g
    <2>4. ASSUME NEW n \in 0 .. k + 1 PROVE g[n] = AtStep(s, P, g, n)
      <3>1. AtStep(s, P, f, n) = AtStep(s, P, g, n)
        BY <1>2, <2>2 DEF AtStep
      <3>. QED
        BY <1>2, <2>2, <2>3, <3>1
    <2>5. g = [n \in 0 .. k + 1 |-> g[n]]
      BY DEF g
    <2>6. g = [n \in 0 .. k + 1 |-> AtStep(s, P, g, n)]
      BY <2>4, <2>5
    <2>. QED
      BY <1>2, <2>6
  <1>. HIDE DEF T
  <1>3. m \in T
    BY <1>1, <1>2, Induction
  <1>. QED
    BY <1>3 DEF T

LEMMA AtEquations ==
    ASSUME NEW s, NEW P, Len(s) \in Nat
    PROVE  /\ AtUpTo(s, P)[0] = <<>>
           /\ \A n \in 1 .. Len(s) :
                AtUpTo(s, P)[n] = IF n \in P THEN Append(AtUpTo(s, P)[n - 1], s[n])
                                  ELSE AtUpTo(s, P)[n - 1]
  <1>. DEFINE f == AtUpTo(s, P)
  <1>1. f = [n \in 0 .. Len(s) |-> AtStep(s, P, f, n)]
    BY AtExists, Zenon DEF AtUpTo
  <1>. HIDE DEF f
  <1>2. \A n \in 0 .. Len(s) : f[n] = AtStep(s, P, f, n)
    BY <1>1
  <1>. QED
    BY <1>2 DEF f, AtStep

LEMMA ElementsOf ==
    ASSUME NEW T, NEW s \in Seq(T), NEW P
    PROVE  /\ ElementsAt(s, P) \in Seq(T)
           /\ InSeq(ElementsAt(s, P)) = {s[i] : i \in P \cap DOMAIN s}
  <1>. DEFINE f == AtUpTo(s, P)
              G == {n \in 0 .. Len(s) : /\ f[n] \in Seq(T)
                                        /\ InSeq(f[n]) = {s[i] : i \in P \cap 1 .. n}}
  <1>0. Len(s) \in Nat
    OBVIOUS
  <1>. HIDE DEF f
  <1>1. 0 \in G
    <2>1. f[0] = <<>>
      BY <1>0, AtEquations DEF f
    <2>2. <<>> \in Seq(T) /\ InSeq(<<>>) = {}
      BY DEF InSeq
    <2>3. {s[i] : i \in P \cap 1 .. 0} = {} /\ 0 \in 0 .. Len(s)
      BY <1>0
    <2>4. f[0] \in Seq(T) /\ InSeq(f[0]) = {s[i] : i \in P \cap 1 .. 0}
      BY <2>1, <2>2, <2>3, Zenon
    <2>. QED
      BY <2>3, <2>4, Zenon
  <1>2. ASSUME NEW n \in 0 .. Len(s) - 1, n \in G PROVE n + 1 \in G
    <2>1. PICK m \in 1 .. Len(s) : m = n + 1 /\ m - 1 = n
      BY <1>0, <1>2
    <2>2. f[m] = IF m \in P THEN Append(f[n], s[m]) ELSE f[n]
      BY <1>0, <2>1, AtEquations DEF f
    <2>3. s[m] \in T /\ P \cap 1 .. m = (P \cap 1 .. n) \cup (P \cap {m})
      BY <1>0, <2>1
    <2>4. f[n] \in Seq(T) /\ InSeq(f[n]) = {s[i] : i \in P \cap 1 .. n}
      BY <1>2
    <2>5. /\ InSeq(Append(f[n], s[m])) = InSeq(f[n]) \cup {s[m]}
          /\ Append(f[n], s[m]) \in Seq(T)
      BY <2>3, <2>4, InAppended
    <2>6. f[m] \in Seq(T) /\ InSeq(f[m]) = {s[i] : i \in P \cap 1 .. m}
      <3>1. CASE m \in P
        <4>1. P \cap 1 .. m = (P \cap 1 .. n) \cup {m} /\ f[m] = Append(f[n], s[m])
          BY <2>2, <2>3, <3>1
        <4>2. {s[i] : i \in P \cap 1 .. m} = {s[i] : i \in P \cap 1 .. n} \cup {s[m]}
          BY <4>1
        <4>. QED
          BY <2>4, <2>5, <4>1, <4>2
      <3>2. CASE m \notin P
        <4>1. P \cap 1 .. m = P \cap 1 .. n /\ f[m] = f[n]
          BY <2>2, <2>3, <3>2
        <4>. QED
          BY <2>4, <4>1
      <3>. QED
        BY <3>1, <3>2
    <2>. QED
      BY <2>1, <2>6
  <1>. HIDE DEF G
  <1>3. Len(s) \in G
    <2>1. \A n \in 0 .. Len(s) - 1 : n \in G => n + 1 \in G
      BY <1>2
    <2>2. \A n \in 0 .. Len(s) : n \in G
      BY <1>0, <1>1, <2>1, Induction
    <2>. QED
      BY <1>0, <2>2
  <1>4. f[Len(s)] \in Seq(T) /\ InSeq(f[Len(s)]) = {s[i] : i \in P \cap 1 .. Len(s)}
    BY <1>3 DEF G
  <1>5. ElementsAt(s, P) = f[Len(s)] /\ DOMAIN s = 1 .. Len(s)
    BY ElementsAtEnd DEF f
  <1>. QED
    BY <1>4, <1>5

\* As many elements as places.
LEMMA ElementsCount ==
    ASSUME NEW T, NEW s \in Seq(T), NEW P, P \subseteq DOMAIN s
    PROVE  IsFiniteSet(P) /\ Len(ElementsAt(s, P)) = Cardinality(P)
  <1>. DEFINE f == AtUpTo(s, P)
              G == {n \in 0 .. Len(s) : /\ f[n] \in Seq(T)
                                        /\ IsFiniteSet(P \cap 1 .. n) /\ Len(f[n]) = Cardinality(P \cap 1 .. n)}
  <1>0. Len(s) \in Nat /\ DOMAIN s = 1 .. Len(s)
    OBVIOUS
  <1>. HIDE DEF f
  <1>1. 0 \in G
    <2>1. f[0] = <<>> /\ <<>> \in Seq(T)
      BY <1>0, AtEquations DEF f
    <2>2. P \cap 1 .. 0 = {}
      OBVIOUS
    <2>3. IsFiniteSet({}) /\ Cardinality({}) = 0 /\ Len(<<>>) = 0
      BY FS_EmptySet
    <2>4. IsFiniteSet(P \cap 1 .. 0) /\ Len(f[0]) = Cardinality(P \cap 1 .. 0)
      BY <2>1, <2>2, <2>3, Zenon
    <2>5. 0 \in 0 .. Len(s) /\ f[0] \in Seq(T)
      BY <1>0, <2>1
    <2>. QED
      BY <2>4, <2>5, Zenon
  <1>2. ASSUME NEW n \in 0 .. Len(s) - 1, n \in G PROVE n + 1 \in G
    <2>1. PICK m \in 1 .. Len(s) : m = n + 1 /\ m - 1 = n
      BY <1>0, <1>2
    <2>2. f[m] = IF m \in P THEN Append(f[n], s[m]) ELSE f[n]
      BY <1>0, <2>1, AtEquations DEF f
    <2>. DEFINE Q == P \cap 1 .. n
    <2>3. /\ s[m] \in T /\ m \notin Q
          /\ m \in P => P \cap 1 .. m = Q \cup {m}
          /\ m \notin P => P \cap 1 .. m = Q
      BY <1>0, <2>1
    <2>4. f[n] \in Seq(T) /\ IsFiniteSet(Q) /\ Len(f[n]) = Cardinality(Q)
      BY <1>2
    <2>. HIDE DEF Q
    <2>5. IsFiniteSet(Q \cup {m}) /\ Cardinality(Q \cup {m}) = Cardinality(Q) + 1
      BY <2>3, <2>4, FS_AddElement
    <2>6. Append(f[n], s[m]) \in Seq(T) /\ Len(Append(f[n], s[m])) = Len(f[n]) + 1
      BY <2>3, <2>4
    <2>7. /\ f[m] \in Seq(T)
          /\ IsFiniteSet(P \cap 1 .. m) /\ Len(f[m]) = Cardinality(P \cap 1 .. m)
      <3>1. CASE m \in P
        BY <2>2, <2>3, <2>4, <2>5, <2>6, <3>1
      <3>2. CASE m \notin P
        BY <2>2, <2>3, <2>4, <3>2
      <3>. QED
        BY <3>1, <3>2
    <2>. QED
      BY <2>1, <2>7
  <1>. HIDE DEF G
  <1>3. Len(s) \in G
    <2>1. \A n \in 0 .. Len(s) - 1 : n \in G => n + 1 \in G
      BY <1>2
    <2>2. \A n \in 0 .. Len(s) : n \in G
      BY <1>0, <1>1, <2>1, Induction
    <2>. QED
      BY <1>0, <2>2
  <1>4. IsFiniteSet(P \cap 1 .. Len(s)) /\ Len(f[Len(s)]) = Cardinality(P \cap 1 .. Len(s))
    BY <1>3 DEF G
  <1>5. ElementsAt(s, P) = f[Len(s)] /\ P \cap 1 .. Len(s) = P
    BY <1>0, ElementsAtEnd DEF f
  <1>. QED
    BY <1>4, <1>5

\* In the order they have in s, the first one first.
LEMMA ElementsInOrder ==
    ASSUME NEW T, NEW s \in Seq(T), NEW P
    PROVE  /\ \A a, b \in DOMAIN ElementsAt(s, P) : a < b =>
                \E i, j \in P \cap DOMAIN s :
                    i < j /\ ElementsAt(s, P)[a] = s[i] /\ ElementsAt(s, P)[b] = s[j]
           /\ 1 \in P \cap DOMAIN s => /\ 1 \in DOMAIN ElementsAt(s, P)
                                       /\ ElementsAt(s, P)[1] = s[1]
  <1>. DEFINE f == AtUpTo(s, P)
              Ordered(n) ==
                /\ f[n] \in Seq(T)
                /\ \A b \in DOMAIN f[n] : \E j \in P \cap 1 .. n : f[n][b] = s[j]
                /\ \A a, b \in DOMAIN f[n] : a < b =>
                     \E i, j \in P \cap 1 .. n : i < j /\ f[n][a] = s[i] /\ f[n][b] = s[j]
                /\ 1 \in P /\ n >= 1 => 1 \in DOMAIN f[n] /\ f[n][1] = s[1]
              G == {n \in 0 .. Len(s) : Ordered(n)}
  <1>0. Len(s) \in Nat /\ DOMAIN s = 1 .. Len(s)
    OBVIOUS
  <1>. HIDE DEF f
  <1>1. 0 \in G
    <2>1. f[0] = <<>> /\ <<>> \in Seq(T) /\ DOMAIN <<>> = {}
      BY <1>0, AtEquations DEF f
    <2>2. Ordered(0)
      BY <2>1
    <2>. QED
      BY <1>0, <2>2
  <1>2. ASSUME NEW n \in 0 .. Len(s) - 1, n \in G PROVE n + 1 \in G
    <2>1. PICK m \in 1 .. Len(s) : m = n + 1 /\ m - 1 = n
      BY <1>0, <1>2
    <2>2. f[m] = IF m \in P THEN Append(f[n], s[m]) ELSE f[n]
      BY <1>0, <2>1, AtEquations DEF f
    <2>3. Ordered(n)
      BY <1>2
    <2>4. P \cap 1 .. n \subseteq P \cap 1 .. m /\ \A i \in P \cap 1 .. n : i < m
      BY <1>0, <2>1
    <2>5. CASE m \notin P
      <3>1. f[m] = f[n]
        BY <2>2, <2>5
      <3>2. 1 \in P /\ m >= 1 => 1 \in DOMAIN f[n] /\ f[n][1] = s[1]
        <4>1. ASSUME 1 \in P PROVE n >= 1
          BY <1>0, <2>1, <2>5, <4>1
        <4>. QED
          BY <2>3, <4>1
      <3>3. ASSUME NEW b \in DOMAIN f[n] PROVE \E j \in P \cap 1 .. m : f[n][b] = s[j]
        <4>1. PICK j \in P \cap 1 .. n : f[n][b] = s[j]
          BY <2>3
        <4>. QED
          BY <2>4, <4>1
      <3>4. ASSUME NEW a \in DOMAIN f[n], NEW b \in DOMAIN f[n], a < b
            PROVE  \E i, j \in P \cap 1 .. m : i < j /\ f[n][a] = s[i] /\ f[n][b] = s[j]
        <4>1. PICK i \in P \cap 1 .. n, j \in P \cap 1 .. n :
                i < j /\ f[n][a] = s[i] /\ f[n][b] = s[j]
          BY <2>3, <3>4
        <4>2. i \in P \cap 1 .. m /\ j \in P \cap 1 .. m
          BY <2>4
        <4>. QED
          BY <4>1, <4>2
      <3>5. f[n] \in Seq(T)
        BY <2>3
      <3>. HIDE DEF Ordered
      <3>6. Ordered(m)
        BY <3>1, <3>2, <3>3, <3>4, <3>5 DEF Ordered
      <3>. QED
        BY <2>1, <3>6
    <2>6. CASE m \in P
      <3>. DEFINE e == f[n]
                  g == Append(e, s[m])
      <3>0. s[m] \in T /\ e \in Seq(T)
        BY <2>3
      <3>. HIDE DEF e
      <3>1. /\ g \in Seq(T) /\ Len(e) \in Nat /\ DOMAIN e = 1 .. Len(e) /\ DOMAIN g = 1 .. Len(e) + 1
            /\ g[Len(e) + 1] = s[m] /\ \A b \in 1 .. Len(e) : g[b] = e[b]
        BY <3>0
      <3>2. f[m] = g /\ m \in P \cap 1 .. m
        BY <1>0, <2>1, <2>2, <2>6 DEF e
      <3>. HIDE DEF g
      <3>3. /\ \A b \in DOMAIN e : \E j \in P \cap 1 .. n : e[b] = s[j]
            /\ \A a, b \in DOMAIN e : a < b =>
                 \E i, j \in P \cap 1 .. n : i < j /\ e[a] = s[i] /\ e[b] = s[j]
            /\ 1 \in P /\ n >= 1 => 1 \in DOMAIN e /\ e[1] = s[1]
        BY <2>3 DEF e
      <3>4. \A b \in DOMAIN g : \E j \in P \cap 1 .. m : g[b] = s[j]
        <4>. SUFFICES ASSUME NEW b \in DOMAIN g PROVE \E j \in P \cap 1 .. m : g[b] = s[j]
          OBVIOUS
        <4>1. CASE b = Len(e) + 1
          BY <3>1, <3>2, <4>1
        <4>2. CASE b # Len(e) + 1
          <5>1. b \in 1 .. Len(e)
            BY <3>1, <4>2
          <5>. QED
            BY <2>4, <3>1, <3>3, <5>1
        <4>. QED
          BY <4>1, <4>2
      <3>5. \A a, b \in DOMAIN g : a < b =>
              \E i, j \in P \cap 1 .. m : i < j /\ g[a] = s[i] /\ g[b] = s[j]
        <4>. SUFFICES ASSUME NEW a \in DOMAIN g, NEW b \in DOMAIN g, a < b
                      PROVE  \E i, j \in P \cap 1 .. m : i < j /\ g[a] = s[i] /\ g[b] = s[j]
          OBVIOUS
        <4>0. a \in 1 .. Len(e)
          BY <3>1
        <4>1. CASE b = Len(e) + 1
          <5>1. PICK i \in P \cap 1 .. n : e[a] = s[i]
            BY <3>1, <3>3, <4>0
          <5>2. i \in P \cap 1 .. m /\ i < m /\ g[a] = s[i] /\ g[b] = s[m]
            BY <2>4, <3>1, <4>0, <4>1, <5>1
          <5>. QED
            BY <3>2, <5>2
        <4>2. CASE b # Len(e) + 1
          <5>1. b \in 1 .. Len(e)
            BY <3>1, <4>2
          <5>2. PICK i \in P \cap 1 .. n, j \in P \cap 1 .. n : i < j /\ e[a] = s[i] /\ e[b] = s[j]
            BY <3>1, <3>3, <4>0, <5>1
          <5>3. i \in P \cap 1 .. m /\ j \in P \cap 1 .. m /\ g[a] = s[i] /\ g[b] = s[j]
            BY <2>4, <3>1, <4>0, <5>1, <5>2
          <5>. QED
            BY <5>2, <5>3
        <4>. QED
          BY <4>1, <4>2
      <3>6. 1 \in P => 1 \in DOMAIN g /\ g[1] = s[1]
        <4>1. CASE n >= 1
          BY <3>1, <3>3, <4>1
        <4>2. CASE ~(n >= 1)
          <5>1. m = 1 /\ n = 0
            BY <2>1, <4>2
          <5>2. e = <<>>
            BY <1>0, <5>1, AtEquations DEF f, e
          <5>3. Len(e) = 0
            BY <5>2
          <5>. QED
            BY <3>1, <5>1, <5>3
        <4>. QED
          BY <4>1, <4>2
      <3>7. Ordered(m)
        BY <3>1, <3>2, <3>4, <3>5, <3>6
      <3>. QED
        BY <2>1, <3>7
    <2>. QED
      BY <2>5, <2>6
  <1>. HIDE DEF G, Ordered
  <1>3. Len(s) \in G
    <2>1. \A n \in 0 .. Len(s) - 1 : n \in G => n + 1 \in G
      BY <1>2
    <2>2. \A n \in 0 .. Len(s) : n \in G
      BY <1>0, <1>1, <2>1, Induction
    <2>. QED
      BY <1>0, <2>2
  <1>4. Ordered(Len(s))
    BY <1>3 DEF G
  <1>5. ElementsAt(s, P) = f[Len(s)]
    BY ElementsAtEnd DEF f
  <1>6. 1 \in DOMAIN s => Len(s) >= 1
    BY <1>0
  <1>. QED
    BY <1>0, <1>4, <1>5, <1>6 DEF Ordered

-----------------------------------------------------------------------------
(* The elements of a set.                                                  *)

LEMMA KeepElements ==
    ASSUME NEW T, NEW s \in Seq(T), NEW S
    PROVE  KeepOnly(s, S) \in Seq(T) /\ InSeq(KeepOnly(s, S)) = InSeq(s) \cap S
  <1>1. PlacesIn(s, S) \cap DOMAIN s = {i \in DOMAIN s : s[i] \in S}
    BY DEF PlacesIn
  <1>2. {s[i] : i \in PlacesIn(s, S) \cap DOMAIN s} = InSeq(s) \cap S
    BY <1>1 DEF InSeq
  <1>3. /\ ElementsAt(s, PlacesIn(s, S)) \in Seq(T)
        /\ InSeq(ElementsAt(s, PlacesIn(s, S))) = {s[i] : i \in PlacesIn(s, S) \cap DOMAIN s}
    BY ElementsOf
  <1>. QED
    BY <1>2, <1>3, Zenon DEF KeepOnly

\* What is kept is shorter by one at least when something is left out.
LEMMA KeepDrops ==
    ASSUME NEW T, NEW s \in Seq(T), NEW S, NEW i \in DOMAIN s, s[i] \notin S
    PROVE  Len(KeepOnly(s, S)) < Len(s)
  <1>. DEFINE P == PlacesIn(s, S)
  <1>1. P \subseteq DOMAIN s /\ i \notin P
    BY DEF PlacesIn
  <1>2. Len(s) \in Nat /\ DOMAIN s = 1 .. Len(s)
    OBVIOUS
  <1>. HIDE DEF P
  <1>3. IsFiniteSet(1 .. Len(s)) /\ Cardinality(1 .. Len(s)) = Len(s)
    <2>1. /\ IsFiniteSet(1 .. Len(s))
          /\ Cardinality(1 .. Len(s)) = IF 1 > Len(s) THEN 0 ELSE Len(s) - 1 + 1
      BY <1>2, FS_Interval
    <2>. QED
      BY <1>2, <2>1
  <1>4. IsFiniteSet(P) /\ Cardinality(P) < Cardinality(1 .. Len(s))
    <2>1. P \in SUBSET (1 .. Len(s)) /\ P # 1 .. Len(s)
      BY <1>1, <1>2
    <2>2. IsFiniteSet(P) /\ Cardinality(P) <= Cardinality(1 .. Len(s))
          /\ (Cardinality(P) = Cardinality(1 .. Len(s)) => P = 1 .. Len(s))
      BY <1>3, <2>1, FS_Subset
    <2>3. Cardinality(P) \in Nat
      BY <2>2, FS_CardinalityType
    <2>. QED
      BY <1>2, <1>3, <2>1, <2>2, <2>3
  <1>5. Len(ElementsAt(s, P)) = Cardinality(P)
    BY <1>1, ElementsCount
  <1>. QED
    BY <1>3, <1>4, <1>5 DEF KeepOnly, P

LEMMA KeepAppended ==
    ASSUME NEW T, NEW s \in Seq(T), NEW x \in T, NEW S
    PROVE  KeepOnly(Append(s, x), S) = IF x \in S THEN Append(KeepOnly(s, S), x) ELSE KeepOnly(s, S)
  <1>. DEFINE t == Append(s, x)
              f == AtUpTo(s, PlacesIn(s, S))
              g == AtUpTo(t, PlacesIn(t, S))
              G == {n \in 0 .. Len(s) : g[n] = f[n]}
  <1>1. /\ t \in Seq(T) /\ Len(s) \in Nat /\ Len(t) = Len(s) + 1 /\ t[Len(s) + 1] = x
        /\ \A n \in 1 .. Len(s) : t[n] = s[n]
    OBVIOUS
  <1>. HIDE DEF t
  <1>2. /\ \A n \in 1 .. Len(s) : n \in PlacesIn(s, S) <=> s[n] \in S
        /\ \A n \in 1 .. Len(s) + 1 : n \in PlacesIn(t, S) <=> t[n] \in S
    BY <1>1 DEF PlacesIn
  <1>3. /\ f[0] = <<>> /\ g[0] = <<>>
        /\ \A n \in 1 .. Len(s) : f[n] = IF s[n] \in S THEN Append(f[n - 1], s[n]) ELSE f[n - 1]
        /\ \A n \in 1 .. Len(s) + 1 : g[n] = IF t[n] \in S THEN Append(g[n - 1], t[n]) ELSE g[n - 1]
    BY <1>1, <1>2, AtEquations
  <1>4. f[Len(s)] = KeepOnly(s, S) /\ g[Len(s) + 1] = KeepOnly(t, S)
    BY <1>1, ElementsAtEnd DEF KeepOnly
  <1>. HIDE DEF f, g
  <1>5. 0 \in G
    BY <1>1, <1>3
  <1>6. ASSUME NEW n \in 0 .. Len(s) - 1, n \in G PROVE n + 1 \in G
    <2>1. PICK m \in 1 .. Len(s) : m = n + 1 /\ m - 1 = n
      BY <1>1, <1>6
    <2>2. g[m] = f[m]
      BY <1>1, <1>3, <1>6, <2>1
    <2>. QED
      BY <2>1, <2>2
  <1>. HIDE DEF G
  <1>7. Len(s) \in G
    <2>1. \A n \in 0 .. Len(s) - 1 : n \in G => n + 1 \in G
      BY <1>6
    <2>2. \A n \in 0 .. Len(s) : n \in G
      BY <1>1, <1>5, <2>1, Induction
    <2>. QED
      BY <1>1, <2>2
  <1>8. g[Len(s) + 1] = IF x \in S THEN Append(f[Len(s)], x) ELSE f[Len(s)]
    <2>1. PICK m \in 1 .. Len(s) + 1 : m = Len(s) + 1 /\ m - 1 = Len(s)
      BY <1>1
    <2>. QED
      BY <1>1, <1>3, <1>7, <2>1 DEF G
  <1>. QED
    BY <1>4, <1>8 DEF t
=============================================================================
