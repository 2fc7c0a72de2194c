---------------------------- MODULE SequenceFacts ----------------------------
(***************************************************************************)
(* Facts about sequences of any length, for the proofs about programs that *)
(* build one sequence out of another: how FlattenSeq goes with Append and  *)
(* concatenation, and what maps over sequences preserve.                   *)
(*                                                                         *)
(* They are proved by induction in its first-order form, where the         *)
(* predicate is a set: a set of numbers has a least one (Least), so a set  *)
(* that has 0 and the successors of its members has all numbers (Induct),  *)
(* and likewise for sequences (SeqInduct).                                 *)
(***************************************************************************)
EXTENDS SequencesExt, SequenceTheorems, WellFoundedInduction, TLAPS

-----------------------------------------------------------------------------
(* Induction.                                                              *)

\* The least of a set of numbers, and induction along it.
LEMMA Least ==
    ASSUME NEW S, S \subseteq Nat, S # {}
    PROVE  \E n \in S : \A m \in S : ~(m < n)
<1>1. PICK n \in S : \A m \in S : <<m, n>> \notin OpToRel(<, Nat)
  BY WFMin, NatLessThanWellFounded
<1>2. ASSUME NEW m \in S, m < n PROVE FALSE
  <2>1. <<m, n>> \in OpToRel(<, Nat)
    BY <1>2 DEF OpToRel
  <2> QED
    BY <1>1, <2>1
<1> QED
  BY <1>2

\* A set of numbers that has 0 and the successor of each of its members.
LEMMA Induct ==
    ASSUME NEW P, 0 \in P, \A n \in Nat : n \in P => n + 1 \in P
    PROVE  Nat \subseteq P
<1> SUFFICES ASSUME Nat \ P # {} PROVE FALSE
  OBVIOUS
<1>1. PICK n \in Nat \ P : \A m \in Nat \ P : ~(m < n)
  BY Least
<1>2. n # 0 /\ n - 1 \in Nat /\ n - 1 < n
  BY <1>1
<1>3. n - 1 \in P
  BY <1>1, <1>2
<1> QED
  BY <1>2, <1>3

\* A set of sequences that has the empty one and all the longer ones it should.
LEMMA SeqInduct ==
    ASSUME NEW T, NEW P, <<>> \in P,
           \A s \in Seq(T), e \in T : s \in P => Append(s, e) \in P
    PROVE  Seq(T) \subseteq P
<1> DEFINE N == {n \in Nat : \A s \in Seq(T) : Len(s) = n => s \in P}
<1>1. 0 \in N
  <2>1. \A s \in Seq(T) : Len(s) = 0 => s = <<>>
    BY EmptySeq
  <2> QED
    BY <2>1
<1>2. ASSUME NEW n \in Nat, n \in N PROVE n + 1 \in N
  <2> SUFFICES ASSUME NEW s \in Seq(T), Len(s) = n + 1 PROVE s \in P
    OBVIOUS
  <2> DEFINE f == SubSeq(s, 1, n)
             e == s[n + 1]
  <2>1. f \in Seq(T) /\ Len(f) = n /\ e \in T
    BY ElementOfSeq, LenProperties
  <2>2. s = Append(f, e)
    <3>1. Append(f, e) \in Seq(T) /\ Len(Append(f, e)) = n + 1
      BY <2>1, AppendProperties
    <3>2. \A i \in 1 .. n + 1 : s[i] = Append(f, e)[i]
      BY <2>1, AppendProperties
    <3> QED
      BY <3>1, <3>2, SeqEqual
  <2>3. f \in P
    BY <1>2, <2>1
  <2> HIDE DEF f, e
  <2> QED
    BY <2>1, <2>2, <2>3
<1> HIDE DEF N
<1>3. Nat \subseteq N
  BY <1>1, <1>2, Induct
<1>4. \A s \in Seq(T) : Len(s) \in Nat
  BY LenProperties
<1> QED
  BY <1>3, <1>4 DEF N

-----------------------------------------------------------------------------
(* FlattenSeq, one sequence at a time.                                     *)

\* f is what FlattenSeq chooses: f[i] is what the first i sequences come to.
Flattening(s, f) ==
  f = [i \in 1 .. Len(s) |-> IF i = 1 THEN s[i] ELSE f[i - 1] \o s[i]]

FlatOf(s) == CHOOSE f : Flattening(s, f)

\* FlattenSeq of a sequence that is not empty is the last of what it chooses.
LEMMA FlatDef == ASSUME NEW s, Len(s) # 0 PROVE FlattenSeq(s) = FlatOf(s)[Len(s)]
  BY DEF FlattenSeq, FlatOf, Flattening

\* There is such a function, by induction on the sequence.
LEMMA FlatExists ==
    ASSUME NEW T
    PROVE  \A s \in Seq(Seq(T)) : \E f : Flattening(s, f) /\ f \in [1 .. Len(s) -> Seq(T)]
<1> DEFINE P == {s \in Seq(Seq(T)) : \E f : Flattening(s, f) /\ f \in [1 .. Len(s) -> Seq(T)]}
<1>1. <<>> \in P
  <2>1. Flattening(<<>>, <<>>) /\ <<>> \in [1 .. Len(<<>>) -> Seq(T)]
    BY DEF Flattening
  <2>2. <<>> \in Seq(Seq(T))
    OBVIOUS
  <2> QED
    BY <2>1, <2>2
<1>2. ASSUME NEW s \in Seq(Seq(T)), NEW e \in Seq(T), s \in P PROVE Append(s, e) \in P
  <2>1. PICK f : Flattening(s, f) /\ f \in [1 .. Len(s) -> Seq(T)]
    BY <1>2
  <2> DEFINE n == Len(s)
             t == Append(s, e)
  <2>2. /\ n \in Nat /\ t \in Seq(Seq(T)) /\ Len(t) = n + 1 /\ t[n + 1] = e
        /\ \A i \in 1 .. n : t[i] = s[i] /\ s[i] \in Seq(T)
    BY AppendProperties, LenProperties
  <2>5. \A i \in 1 .. n : f[i] = IF i = 1 THEN s[i] ELSE f[i - 1] \o s[i]
    BY <2>1 DEF Flattening
  <2> HIDE DEF n, t
  <2> DEFINE g == [i \in 1 .. n + 1 |-> IF i <= n THEN f[i] ELSE IF n = 0 THEN e ELSE f[n] \o e]
  <2>3. g \in [1 .. n + 1 -> Seq(T)]
    <3> SUFFICES ASSUME NEW i \in 1 .. n + 1
                 PROVE (IF i <= n THEN f[i] ELSE IF n = 0 THEN e ELSE f[n] \o e) \in Seq(T)
      OBVIOUS
    <3>1. \A j \in 1 .. n : f[j] \in Seq(T)
      BY <2>1 DEF n
    <3>2. n # 0 => f[n] \o e \in Seq(T)
      BY <2>2, <3>1, ConcatProperties
    <3> QED
      BY <2>2, <3>1, <3>2
  <2>4. \A i \in 1 .. n + 1 : g[i] = IF i = 1 THEN t[i] ELSE g[i - 1] \o t[i]
    BY <2>2, <2>5
  <2> HIDE DEF g
  <2>6. g = [i \in 1 .. n + 1 |-> IF i = 1 THEN t[i] ELSE g[i - 1] \o t[i]]
    BY <2>3, <2>4
  <2> QED
    BY <2>2, <2>3, <2>6 DEF Flattening, t
<1> HIDE DEF P
<1> QED
  BY <1>1, <1>2, SeqInduct DEF P

\* f[i] is what the first i sequences of s flatten to.
Flattens(n, s, f) == \A i \in 1 .. n : f[i] = IF i = 1 THEN s[i] ELSE f[i - 1] \o s[i]

\* There is one only, so a longer sequence's agrees with a shorter one's.
LEMMA FlatUnique ==
    ASSUME NEW n \in Nat, NEW s, NEW f, NEW g, Flattens(n, s, f), Flattens(n, s, g)
    PROVE  \A i \in 1 .. n : f[i] = g[i]
<1> DEFINE P == {k \in Nat : k \in 1 .. n => f[k] = g[k]}
<1>1. 0 \in P
  OBVIOUS
<1>2. ASSUME NEW k \in Nat, k \in P PROVE k + 1 \in P
  BY <1>2 DEF Flattens
<1> HIDE DEF P
<1>3. Nat \subseteq P
  BY <1>1, <1>2, Induct
<1> QED
  BY <1>3 DEF P

\* The chosen one has the defining property, and sequences for values.
LEMMA FlatOfIs ==
    ASSUME NEW T, NEW s \in Seq(Seq(T))
    PROVE  /\ \A i \in 1 .. Len(s) : FlatOf(s)[i] \in Seq(T)
           /\ Flattens(Len(s), s, FlatOf(s))
<1>1. PICK f : Flattening(s, f) /\ f \in [1 .. Len(s) -> Seq(T)]
  BY FlatExists
<1>2. Flattening(s, FlatOf(s))
  BY <1>1 DEF FlatOf
<1>3. Flattens(Len(s), s, FlatOf(s)) /\ Flattens(Len(s), s, f)
  BY <1>1, <1>2, Zenon DEF Flattening, Flattens
<1>4. \A i \in 1 .. Len(s) : FlatOf(s)[i] = f[i]
  BY <1>3, FlatUnique
<1> QED
  BY <1>1, <1>3, <1>4

LEMMA FlatEmpty == FlattenSeq(<<>>) = <<>>
  BY DEF FlattenSeq

\* A sequence of sequences over T flattens to one over T.
LEMMA FlatTyped ==
    ASSUME NEW T, NEW s \in Seq(Seq(T))
    PROVE  FlattenSeq(s) \in Seq(T)
<1>1. CASE Len(s) = 0
  <2>1. s = <<>> /\ <<>> \in Seq(T)
    BY <1>1
  <2> QED
    BY <2>1, FlatEmpty, Zenon
<1>2. CASE Len(s) # 0
  BY <1>2, FlatDef, FlatOfIs
<1> QED
  BY <1>1, <1>2

LEMMA FlatLast ==
    ASSUME NEW n \in Nat, n # 0, NEW s, NEW f, Flattens(n, s, f)
    PROVE  IF n = 1 THEN f[n] = s[n] ELSE f[n] = f[n - 1] \o s[n]
<1>1. n \in 1 .. n
  OBVIOUS
<1> QED
  BY <1>1 DEF Flattens

\* FlattenSeq takes the last sequence off the end.
LEMMA FlatAppend ==
    ASSUME NEW T, NEW s \in Seq(Seq(T)), NEW e \in Seq(T)
    PROVE  FlattenSeq(Append(s, e)) = FlattenSeq(s) \o e
<1> DEFINE t == Append(s, e)
<1>1. /\ Len(s) \in Nat /\ t \in Seq(Seq(T)) /\ Len(t) = Len(s) + 1 /\ t[Len(t)] = e
      /\ Len(t) \in Nat /\ \A i \in 1 .. Len(s) : t[i] = s[i]
  BY AppendProperties, LenProperties
<1>2. Flattens(Len(s), s, FlatOf(s))
  BY FlatOfIs
<1> HIDE DEF t
<1>3. Flattens(Len(t), t, FlatOf(t))
  BY <1>1, FlatOfIs
<1>4. FlattenSeq(t) = FlatOf(t)[Len(t)]
  BY <1>1, FlatDef
<1>5. Len(t) \in Nat /\ Len(t) # 0 /\ Len(s) <= Len(t) /\ Len(t) - 1 = Len(s)
  BY <1>1
<1>6. IF Len(s) = 0 THEN FlatOf(t)[Len(t)] = t[Len(t)]
      ELSE FlatOf(t)[Len(t)] = FlatOf(t)[Len(s)] \o t[Len(t)]
  <2>1. IF Len(t) = 1 THEN FlatOf(t)[Len(t)] = t[Len(t)]
        ELSE FlatOf(t)[Len(t)] = FlatOf(t)[Len(t) - 1] \o t[Len(t)]
    BY <1>3, <1>5, FlatLast
  <2> QED
    BY <1>1, <1>5, <2>1
<1>7. CASE Len(s) = 0
  <2>1. s = <<>>
    BY <1>7
  <2>2. FlattenSeq(s) = <<>>
    BY <2>1, FlatEmpty, Zenon
  <2>3. FlattenSeq(t) = e
    BY <1>1, <1>4, <1>6, <1>7
  <2> QED
    BY <2>2, <2>3 DEF t
<1>8. CASE Len(s) # 0
  <2>1. FlattenSeq(s) = FlatOf(s)[Len(s)]
    BY <1>8, FlatDef
  <2>2. FlatOf(s)[Len(s)] = FlatOf(t)[Len(s)]
    <3>1. Len(s) \in Nat /\ \A i \in 1 .. Len(s) : t[i] = s[i]
      BY <1>1
    <3>2. \A i \in 1 .. Len(s) : FlatOf(s)[i] = FlatOf(t)[i]
      <4>1. Flattens(Len(s), s, FlatOf(t))
        BY <1>3, <1>5, <3>1 DEF Flattens
      <4>2. Len(s) \in Nat
        BY <3>1
      <4> QED
        BY <1>2, <4>1, <4>2, FlatUnique
    <3> QED
      BY <1>8, <3>1, <3>2
  <2>3. FlattenSeq(t) = FlatOf(t)[Len(s)] \o e
    BY <1>1, <1>4, <1>6, <1>8
  <2> QED
    BY <2>1, <2>2, <2>3 DEF t
<1> QED
  BY <1>7, <1>8

-----------------------------------------------------------------------------
(* Maps over sequences.                                                    *)

\* m[s[1]], m[s[2]], ... and all of them one after the other.
Each(m, s) == [i \in DOMAIN s |-> m[s[i]]]
FlatMap(m, s) == FlattenSeq(Each(m, s))

\* A name for it, so that lemmas are cited with the sets they are about.
Maps(m, T, U) == m \in [T -> U]

\* Each has the length of the list, and its values where the list has its elements.
LEMMA EachTyped ==
    ASSUME NEW T, NEW U, NEW m, Maps(m, T, U), NEW s \in Seq(T)
    PROVE  /\ Each(m, s) \in Seq(U) /\ Len(Each(m, s)) = Len(s)
           /\ \A i \in 1 .. Len(s) : Each(m, s)[i] = m[s[i]]
<1>1. DOMAIN s = 1 .. Len(s) /\ Len(s) \in Nat /\ \A i \in 1 .. Len(s) : s[i] \in T
  BY LenProperties, ElementOfSeq
<1>2. Each(m, s) = [i \in 1 .. Len(s) |-> m[s[i]]]
  BY <1>1 DEF Each
<1>3. [i \in 1 .. Len(s) |-> m[s[i]]] \in Seq(U)
  BY <1>1 DEF Maps
<1> QED
  BY <1>1, <1>2, <1>3

LEMMA EachAppend ==
    ASSUME NEW T, NEW U, NEW m, Maps(m, T, U), NEW s \in Seq(T), NEW e \in T
    PROVE  Each(m, Append(s, e)) = Append(Each(m, s), m[e])
<1> DEFINE t == Append(s, e)
           a == Each(m, t)
           b == Append(Each(m, s), m[e])
<1>1. /\ Len(s) \in Nat /\ t \in Seq(T) /\ Len(t) = Len(s) + 1 /\ t[Len(s) + 1] = e
      /\ \A i \in 1 .. Len(s) : t[i] = s[i] /\ s[i] \in T
  BY AppendProperties, LenProperties, ElementOfSeq
<1>2. a \in Seq(U) /\ Len(a) = Len(t) /\ \A i \in 1 .. Len(t) : a[i] = m[t[i]]
  <2>1. t \in Seq(T)
    BY <1>1
  <2> HIDE DEF t
  <2> QED
    BY <2>1, EachTyped
<1>3. /\ b \in Seq(U) /\ Len(b) = Len(s) + 1 /\ b[Len(s) + 1] = m[e]
      /\ \A i \in 1 .. Len(s) : b[i] = m[s[i]]
  <2> DEFINE c == Each(m, s)
  <2>1. c \in Seq(U) /\ Len(c) = Len(s) /\ \A i \in 1 .. Len(s) : c[i] = m[s[i]]
    BY EachTyped
  <2>2. m[e] \in U
    BY DEF Maps
  <2> HIDE DEF c
  <2>3. Append(c, m[e]) \in Seq(U) /\ Len(Append(c, m[e])) = Len(s) + 1
        /\ Append(c, m[e])[Len(s) + 1] = m[e]
        /\ \A i \in 1 .. Len(s) : Append(c, m[e])[i] = m[s[i]]
    BY <2>1, <2>2, AppendProperties
  <2> QED
    BY <2>3 DEF c
<1> HIDE DEF t, a, b
<1>4. \A i \in 1 .. Len(a) : a[i] = b[i]
  BY <1>1, <1>2, <1>3
<1>5. a = b
  BY <1>1, <1>2, <1>3, <1>4, SeqEqual
<1> QED
  BY <1>5 DEF t, a, b

LEMMA FlatMapEmpty == ASSUME NEW m PROVE FlatMap(m, <<>>) = <<>>
<1>1. Each(m, <<>>) = <<>>
  BY DEF Each
<1> QED
  BY <1>1, FlatEmpty, Zenon DEF FlatMap

LEMMA FlatMapTyped ==
    ASSUME NEW T, NEW U, NEW m, Maps(m, T, Seq(U)), NEW s \in Seq(T)
    PROVE  FlatMap(m, s) \in Seq(U)
<1>1. Each(m, s) \in Seq(Seq(U))
  BY EachTyped
<1> QED
  BY <1>1, FlatTyped DEF FlatMap

\* FlatMap takes the last element off the end ...
LEMMA FlatMapAppend ==
    ASSUME NEW T, NEW U, NEW m, Maps(m, T, Seq(U)), NEW s \in Seq(T), NEW e \in T
    PROVE  FlatMap(m, Append(s, e)) = FlatMap(m, s) \o m[e]
<1>1. Each(m, s) \in Seq(Seq(U)) /\ m[e] \in Seq(U)
  BY EachTyped DEF Maps
<1>2. Each(m, Append(s, e)) = Append(Each(m, s), m[e])
  BY EachAppend
<1>3. FlattenSeq(Append(Each(m, s), m[e])) = FlattenSeq(Each(m, s)) \o m[e]
  BY <1>1, FlatAppend
<1> QED
  BY <1>2, <1>3 DEF FlatMap

LEMMA AppendConcat ==
    ASSUME NEW T, NEW s \in Seq(T), NEW t \in Seq(T), NEW e \in T
    PROVE  s \o Append(t, e) = Append(s \o t, e)
  OBVIOUS

\* ... and distributes over concatenation.
LEMMA FlatMapConcat ==
    ASSUME NEW T, NEW U, NEW m, Maps(m, T, Seq(U)), NEW s \in Seq(T)
    PROVE  \A t \in Seq(T) : FlatMap(m, s \o t) = FlatMap(m, s) \o FlatMap(m, t)
<1> DEFINE P == {t \in Seq(T) : FlatMap(m, s \o t) = FlatMap(m, s) \o FlatMap(m, t)}
<1>1. <<>> \in P
  <2>1. s \o <<>> = s /\ <<>> \in Seq(T)
    OBVIOUS
  <2>2. FlatMap(m, s) \in Seq(U)
    BY FlatMapTyped
  <2>3. FlatMap(m, s) \o <<>> = FlatMap(m, s)
    BY <2>2
  <2> QED
    BY <2>1, <2>3, FlatMapEmpty, Zenon
<1>2. ASSUME NEW t \in Seq(T), NEW e \in T, t \in P PROVE Append(t, e) \in P
  <2>1. Append(t, e) \in Seq(T) /\ s \o t \in Seq(T) /\ m[e] \in Seq(U)
    BY AppendProperties, ConcatProperties DEF Maps
  <2>2. FlatMap(m, s \o Append(t, e)) = FlatMap(m, s \o t) \o m[e]
    <3>1. FlatMap(m, Append(s \o t, e)) = FlatMap(m, s \o t) \o m[e]
      <4> DEFINE u == s \o t
      <4>1. u \in Seq(T)
        BY <2>1
      <4> HIDE DEF u
      <4>2. FlatMap(m, Append(u, e)) = FlatMap(m, u) \o m[e]
        BY <4>1, FlatMapAppend
      <4> QED
        BY <4>2 DEF u
    <3>2. s \o Append(t, e) = Append(s \o t, e)
      BY AppendConcat
    <3> QED
      BY <3>1, <3>2, Zenon
  <2>3. FlatMap(m, Append(t, e)) = FlatMap(m, t) \o m[e]
    BY FlatMapAppend
  <2>4. (FlatMap(m, s) \o FlatMap(m, t)) \o m[e] = FlatMap(m, s) \o (FlatMap(m, t) \o m[e])
    <3> DEFINE x == FlatMap(m, s)
               y == FlatMap(m, t)
               z == m[e]
    <3>1. x \in Seq(U) /\ y \in Seq(U)
      BY FlatMapTyped
    <3>3. z \in Seq(U)
      BY <2>1
    <3> HIDE DEF x, y, z
    <3>2. (x \o y) \o z = x \o (y \o z)
      BY <3>1, <3>3, ConcatAssociative, SMTT(20)
    <3> QED
      BY <3>2 DEF x, y, z
  <2> QED
    BY <1>2, <2>1, <2>2, <2>3, <2>4
<1> HIDE DEF P
<1>3. Seq(T) \subseteq P
  BY <1>1, <1>2, SeqInduct
<1> QED
  BY <1>3 DEF P

\* To map what was flattened is to map the parts and to flatten that.
LEMMA FlatMapFlat ==
    ASSUME NEW T, NEW U, NEW m, Maps(m, T, Seq(U))
    PROVE  \A s \in Seq(Seq(T)) :
             FlatMap(m, FlattenSeq(s)) = FlatMap([t \in Seq(T) |-> FlatMap(m, t)], s)
<1> DEFINE n == [t \in Seq(T) |-> FlatMap(m, t)]
           P == {s \in Seq(Seq(T)) : FlatMap(m, FlattenSeq(s)) = FlatMap(n, s)}
<1>1. Maps(n, Seq(T), Seq(U)) /\ \A t \in Seq(T) : n[t] = FlatMap(m, t)
  <2>1. \A t \in Seq(T) : FlatMap(m, t) \in Seq(U)
    BY FlatMapTyped
  <2> QED
    BY <2>1 DEF Maps
<1> HIDE DEF n
<1>2. <<>> \in P
  <2>1. <<>> \in Seq(Seq(T))
    OBVIOUS
  <2> QED
    BY <2>1, FlatMapEmpty, FlatEmpty, Zenon
<1>3. ASSUME NEW s \in Seq(Seq(T)), NEW e \in Seq(T), s \in P PROVE Append(s, e) \in P
  <2>1. FlatMap(n, Append(s, e)) = FlatMap(n, s) \o n[e]
    BY <1>1, FlatMapAppend
  <2>2. FlattenSeq(Append(s, e)) = FlattenSeq(s) \o e /\ FlattenSeq(s) \in Seq(T)
    BY FlatAppend, FlatTyped
  <2>3. FlatMap(m, FlattenSeq(s) \o e) = FlatMap(m, FlattenSeq(s)) \o FlatMap(m, e)
    BY <2>2, FlatMapConcat
  <2>4. Append(s, e) \in Seq(Seq(T))
    BY AppendProperties
  <2> QED
    BY <1>1, <1>3, <2>1, <2>2, <2>3, <2>4
<1> HIDE DEF P
<1>4. Seq(Seq(T)) \subseteq P
  BY <1>2, <1>3, SeqInduct
<1> QED
  BY <1>4 DEF P, n

\* FlattenSeq distributes over concatenation.
LEMMA FlatConcat ==
    ASSUME NEW T, NEW s \in Seq(Seq(T)), NEW t \in Seq(Seq(T))
    PROVE  FlattenSeq(s \o t) = FlattenSeq(s) \o FlattenSeq(t)
<1> DEFINE m == [x \in Seq(T) |-> x]
<1>1. Maps(m, Seq(T), Seq(T))
  BY DEF Maps
<1>2. ASSUME NEW r \in Seq(Seq(T)) PROVE Each(m, r) = r
  <2>1. DOMAIN r = 1 .. Len(r) /\ \A i \in 1 .. Len(r) : r[i] \in Seq(T)
    BY LenProperties, ElementOfSeq
  <2>2. r = [i \in DOMAIN r |-> r[i]]
    BY LenProperties
  <2> QED
    BY <2>1, <2>2 DEF Each
<1> HIDE DEF m
<1>3. FlatMap(m, s \o t) = FlatMap(m, s) \o FlatMap(m, t)
  BY <1>1, FlatMapConcat
<1>4. s \o t \in Seq(Seq(T))
  BY ConcatProperties
<1> QED
  BY <1>2, <1>3, <1>4 DEF FlatMap

LEMMA EachSame ==
    ASSUME NEW T, NEW s \in Seq(T), NEW m, NEW n, \A x \in T : m[x] = n[x]
    PROVE  Each(m, s) = Each(n, s)
<1>1. \A i \in DOMAIN s : s[i] \in T
  BY LenProperties, ElementOfSeq
<1> QED
  BY <1>1 DEF Each

LEMMA EachTwice ==
    ASSUME NEW T, NEW s \in Seq(T), NEW m, NEW n, NEW k, \A x \in T : k[x] = n[m[x]]
    PROVE  Each(n, Each(m, s)) = Each(k, s)
<1>1. \A i \in DOMAIN s : s[i] \in T
  BY LenProperties, ElementOfSeq
<1>2. DOMAIN Each(m, s) = DOMAIN s /\ \A i \in DOMAIN s : Each(m, s)[i] = m[s[i]]
  BY DEF Each
<1>3. Each(n, Each(m, s)) = [i \in DOMAIN s |-> n[m[s[i]]]]
  <2> DEFINE t == Each(m, s)
  <2> HIDE DEF t
  <2>1. Each(n, t) = [i \in DOMAIN t |-> n[t[i]]]
    BY DEF Each
  <2>2. DOMAIN t = DOMAIN s /\ \A i \in DOMAIN s : t[i] = m[s[i]]
    BY <1>2 DEF t
  <2> QED
    BY <2>1, <2>2 DEF t
<1>4. Each(k, s) = [i \in DOMAIN s |-> n[m[s[i]]]]
  BY <1>1 DEF Each
<1> QED
  BY <1>3, <1>4

\* To map the parts and then what they come to is to map once with both.
LEMMA FlatMapTwice ==
    ASSUME NEW T, NEW U, NEW V, NEW m, Maps(m, T, Seq(U)), NEW n, Maps(n, U, Seq(V)),
           NEW k, \A x \in T : k[x] = FlatMap(n, m[x]), NEW s \in Seq(T)
    PROVE  FlatMap(n, FlatMap(m, s)) = FlatMap(k, s)
<1> DEFINE f == [t \in Seq(U) |-> FlatMap(n, t)]
           r == Each(m, s)
<1>1. r \in Seq(Seq(U))
  BY EachTyped
<1> HIDE DEF r
<1>2. FlatMap(n, FlattenSeq(r)) = FlatMap(f, r)
  BY <1>1, FlatMapFlat
<1>3. \A x \in T : k[x] = f[m[x]]
  BY DEF Maps
<1> HIDE DEF f
<1>4. Each(f, Each(m, s)) = Each(k, s)
  BY <1>3, EachTwice
<1> QED
  BY <1>2, <1>4 DEF r, FlatMap

\* To map the sequence of one.
LEMMA FlatMapOne ==
    ASSUME NEW T, NEW U, NEW m, Maps(m, T, Seq(U)), NEW x \in T
    PROVE  FlatMap(m, <<x>>) = m[x]
<1>1. <<>> \in Seq(T) /\ <<x>> = Append(<<>>, x)
  OBVIOUS
<1>2. FlatMap(m, Append(<<>>, x)) = FlatMap(m, <<>>) \o m[x]
  <2> DEFINE s == <<>>
  <2>1. s \in Seq(T)
    BY <1>1
  <2> HIDE DEF s
  <2>2. FlatMap(m, Append(s, x)) = FlatMap(m, s) \o m[x]
    BY <2>1, FlatMapAppend
  <2> QED
    BY <2>2 DEF s
<1>3. <<>> \o m[x] = m[x]
  BY DEF Maps
<1> QED
  BY <1>1, <1>2, <1>3, FlatMapEmpty, Zenon

-----------------------------------------------------------------------------
(* Parts of sequences.                                                     *)

\* A sequence whose elements are in S is one over S.
LEMMA SeqOver ==
    ASSUME NEW T, NEW S, NEW s \in Seq(T), \A i \in 1 .. Len(s) : s[i] \in S
    PROVE  s \in Seq(S)
<1>1. s = [i \in 1 .. Len(s) |-> s[i]] /\ Len(s) \in Nat
  BY LenProperties
<1>2. [i \in 1 .. Len(s) |-> s[i]] \in Seq(S)
  BY <1>1
<1> QED
  BY <1>1, <1>2

\* The parts of a concatenation are found in it.
LEMMA Joined ==
    ASSUME NEW T, NEW x \in Seq(T), NEW y \in Seq(T)
    PROVE  /\ x \o y \in Seq(T) /\ Len(x \o y) = Len(x) + Len(y)
           /\ Len(x) \in Nat /\ Len(y) \in Nat
           /\ DOMAIN x = 1 .. Len(x) /\ DOMAIN y = 1 .. Len(y)
           /\ DOMAIN (x \o y) = 1 .. Len(x) + Len(y)
           /\ \A i \in 1 .. Len(x) : (x \o y)[i] = x[i] /\ x[i] \in T
           /\ \A i \in 1 .. Len(y) : (x \o y)[Len(x) + i] = y[i] /\ y[i] \in T
  BY ConcatProperties, LenProperties, ElementOfSeq

\* A sequence with one element put before it.
Heads(z, e, y) ==
    Len(z) = Len(y) + 1 /\ z[1] = e /\ \A j \in 1 .. Len(y) : z[1 + j] = y[j]

LEMMA Headed ==
    ASSUME NEW T, NEW e \in T, NEW y \in Seq(T)
    PROVE  <<e>> \o y \in Seq(T) /\ Heads(<<e>> \o y, e, y)
<1> DEFINE w == <<e>>
<1>1. w \in Seq(T) /\ Len(w) = 1 /\ w[1] = e /\ Len(y) \in Nat
  BY LenProperties
<1> HIDE DEF w
<1>2. /\ w \o y \in Seq(T) /\ Len(w \o y) = Len(w) + Len(y)
      /\ \A j \in 1 .. Len(w) : (w \o y)[j] = w[j]
      /\ \A j \in 1 .. Len(y) : (w \o y)[Len(w) + j] = y[j]
  <2>1. w \in Seq(T) /\ y \in Seq(T)
    BY <1>1
  <2> QED
    BY <2>1, Joined
<1> DEFINE z == w \o y
<1> HIDE DEF z
<1>3. z \in Seq(T) /\ Len(z) = Len(y) + 1 /\ z[1] = e /\ \A j \in 1 .. Len(y) : z[1 + j] = y[j]
  BY <1>1, <1>2 DEF z
<1> QED
  BY <1>3 DEF z, w, Heads

\* A sequence is what comes before an element, the element, and what comes after.
SplitAt(s, i, x, y) ==
    /\ s = x \o (<<s[i]>> \o y) /\ Len(x) = i - 1 /\ Len(y) = Len(s) - i
    /\ \A j \in 1 .. Len(x) : x[j] = s[j]
    /\ \A j \in 1 .. Len(y) : y[j] = s[i + j]

LEMMA Split ==
    ASSUME NEW T, NEW s \in Seq(T), NEW i \in 1 .. Len(s)
    PROVE  \E x, y \in Seq(T) : SplitAt(s, i, x, y)
<1>1. Len(s) \in Nat /\ \A j \in 1 .. Len(s) : s[j] \in T
  BY LenProperties, ElementOfSeq
<1> DEFINE x == [j \in 1 .. i - 1 |-> s[j]]
           y == [j \in 1 .. Len(s) - i |-> s[i + j]]
           e == s[i]
<1>2. x \in Seq(T) /\ Len(x) = i - 1 /\ \A j \in 1 .. i - 1 : x[j] = s[j]
  <2>1. i - 1 \in Nat /\ \A j \in 1 .. i - 1 : s[j] \in T
    BY <1>1
  <2> QED
    BY <2>1
<1>3. y \in Seq(T) /\ Len(y) = Len(s) - i /\ \A j \in 1 .. Len(s) - i : y[j] = s[i + j]
  <2>1. Len(s) - i \in Nat /\ \A j \in 1 .. Len(s) - i : s[i + j] \in T
    BY <1>1
  <2> QED
    BY <2>1
<1>4. e \in T
  BY <1>1
<1> HIDE DEF x, y, e
<1> DEFINE r == <<e>> \o y
           t == x \o r
<1>6. /\ r \in Seq(T) /\ Len(r) = Len(s) - i + 1 /\ r[1] = e
      /\ \A j \in 1 .. Len(s) - i : r[1 + j] = y[j]
  <2>1. r \in Seq(T) /\ Heads(r, e, y)
    BY <1>3, <1>4, Headed
  <2> HIDE DEF r
  <2> QED
    BY <1>1, <1>3, <2>1 DEF Heads
<1> HIDE DEF r
<1>7. /\ t \in Seq(T) /\ Len(t) = Len(s)
      /\ \A j \in 1 .. i - 1 : t[j] = x[j]
      /\ \A j \in 1 .. Len(r) : t[(i - 1) + j] = r[j]
  <2>1. /\ t \in Seq(T) /\ Len(t) = Len(x) + Len(r)
        /\ \A j \in 1 .. Len(x) : t[j] = x[j]
        /\ \A j \in 1 .. Len(r) : t[Len(x) + j] = r[j]
    <3>1. /\ x \o r \in Seq(T) /\ Len(x \o r) = Len(x) + Len(r)
          /\ \A j \in 1 .. Len(x) : (x \o r)[j] = x[j]
          /\ \A j \in 1 .. Len(r) : (x \o r)[Len(x) + j] = r[j]
      <4>1. x \in Seq(T) /\ r \in Seq(T)
        BY <1>2, <1>6
      <4> QED
        BY <4>1, Joined
    <3> QED
      BY <3>1
  <2> QED
    BY <1>1, <1>2, <1>6, <2>1
<1> HIDE DEF t
<1>8. ASSUME NEW j \in 1 .. Len(s) PROVE t[j] = s[j]
  <2>1. CASE j < i
    BY <1>1, <1>2, <1>7, <2>1
  <2>2. CASE j = i
    <3>1. 1 \in 1 .. Len(r) /\ (i - 1) + 1 = i
      BY <1>1, <1>6
    <3> QED
      BY <1>6, <1>7, <2>2, <3>1 DEF e
  <2>3. CASE j > i
    <3> DEFINE k == j - i
    <3>1. k \in 1 .. Len(s) - i /\ i + k = j /\ 1 + k \in 1 .. Len(r) /\ (i - 1) + (1 + k) = j
      BY <1>1, <1>6, <2>3
    <3> HIDE DEF k
    <3>2. r[1 + k] = y[k] /\ y[k] = s[i + k] /\ t[(i - 1) + (1 + k)] = r[1 + k]
      BY <1>3, <1>6, <1>7, <3>1
    <3> QED
      BY <3>1, <3>2
  <2> QED
    BY <1>1, <2>1, <2>2, <2>3
<1>9. t = s
  BY <1>7, <1>8, SeqEqual
<1> QED
  BY <1>2, <1>3, <1>9 DEF t, r, e, SplitAt

\* A map that leaves every element of a sequence alone leaves the sequence.
LEMMA FlatMapSelf ==
    ASSUME NEW T, NEW U, NEW m, Maps(m, T, Seq(U)), T \subseteq U
    PROVE  \A s \in Seq(T) : (\A i \in 1 .. Len(s) : m[s[i]] = <<s[i]>>) => FlatMap(m, s) = s
<1> DEFINE Kept(s) == \A i \in 1 .. Len(s) : m[s[i]] = <<s[i]>>
           P == {s \in Seq(T) : Kept(s) => FlatMap(m, s) = s}
<1>1. <<>> \in P
  BY FlatMapEmpty
<1>2. ASSUME NEW s \in Seq(T), NEW e \in T, s \in P PROVE Append(s, e) \in P
  <2> DEFINE t == Append(s, e)
  <2>1. /\ t \in Seq(T) /\ Len(t) = Len(s) + 1 /\ Len(s) \in Nat /\ t[Len(s) + 1] = e
        /\ \A i \in 1 .. Len(s) : t[i] = s[i]
    BY AppendProperties, LenProperties
  <2>2. FlatMap(m, t) = FlatMap(m, s) \o m[e]
    BY FlatMapAppend
  <2>3. s \o <<e>> = t
    OBVIOUS
  <2> HIDE DEF t
  <2>4. Kept(t) => Kept(s) /\ m[e] = <<e>>
    <3>1. Len(s) + 1 \in 1 .. Len(t) /\ \A i \in 1 .. Len(s) : i \in 1 .. Len(t)
      BY <2>1
    <3> QED
      BY <2>1, <3>1
  <2>5. Kept(t) => FlatMap(m, t) = t
    BY <1>2, <2>2, <2>3, <2>4
  <2> QED
    BY <2>1, <2>5 DEF t
<1> HIDE DEF P
<1>3. Seq(T) \subseteq P
  BY <1>1, <1>2, SeqInduct
<1> QED
  BY <1>3 DEF P

LEMMA Tuples ==
    ASSUME NEW T, NEW a \in T, NEW b \in T
    PROVE  <<a, b>> \in Seq(T) /\ <<a>> \in Seq(T) /\ <<>> \in Seq(T)
  OBVIOUS

LEMMA AppendOne == ASSUME NEW a, NEW b PROVE Append(<<a>>, b) = <<a, b>>
<1> DEFINE T == {a, b}
           s == <<a>>
           t == <<a, b>>
           c == Append(s, b)
<1>1. a \in T /\ b \in T
  OBVIOUS
<1> HIDE DEF T
<1>2. s \in Seq(T) /\ t \in Seq(T) /\ Len(s) = 1 /\ Len(t) = 2 /\ s[1] = a /\ t[1] = a /\ t[2] = b
  BY <1>1
<1> HIDE DEF s, t
<1>3. c \in Seq(T) /\ Len(c) = 2 /\ c[1] = s[1] /\ c[2] = b
  <2>1. s \in Seq(T) /\ b \in T
    BY <1>1, <1>2
  <2>2. /\ Append(s, b) \in Seq(T) /\ Len(Append(s, b)) = Len(s) + 1
        /\ \A i \in 1 .. Len(s) : Append(s, b)[i] = s[i]
        /\ Append(s, b)[Len(s) + 1] = b
    BY <2>1, AppendProperties
  <2>3. 1 \in 1 .. Len(s) /\ Len(s) + 1 = 2
    BY <1>2
  <2> QED
    BY <2>2, <2>3
<1> HIDE DEF c
<1>4. \A i \in 1 .. Len(c) : c[i] = t[i]
  BY <1>2, <1>3
<1>5. c = t
  BY <1>2, <1>3, <1>4, SeqEqual
<1> QED
  BY <1>5 DEF c, s, t

\* A map that takes every element of a sequence to nothing leaves nothing.
LEMMA FlatMapNone ==
    ASSUME NEW T, NEW U, NEW m, Maps(m, T, Seq(U))
    PROVE  \A s \in Seq(T) : (\A i \in 1 .. Len(s) : m[s[i]] = <<>>) => FlatMap(m, s) = <<>>
<1> DEFINE Lost(s) == \A i \in 1 .. Len(s) : m[s[i]] = <<>>
           P == {s \in Seq(T) : Lost(s) => FlatMap(m, s) = <<>>}
<1>1. <<>> \in P
  BY FlatMapEmpty
<1>2. ASSUME NEW s \in Seq(T), NEW e \in T, s \in P PROVE Append(s, e) \in P
  <2> DEFINE t == Append(s, e)
  <2>1. /\ t \in Seq(T) /\ Len(t) = Len(s) + 1 /\ Len(s) \in Nat /\ t[Len(s) + 1] = e
        /\ \A i \in 1 .. Len(s) : t[i] = s[i]
    BY AppendProperties, LenProperties
  <2>2. FlatMap(m, t) = FlatMap(m, s) \o m[e]
    BY FlatMapAppend
  <2>3. <<>> \o <<>> = <<>>
    OBVIOUS
  <2> HIDE DEF t
  <2>4. Lost(t) => Lost(s) /\ m[e] = <<>>
    <3>1. Len(s) + 1 \in 1 .. Len(t) /\ \A i \in 1 .. Len(s) : i \in 1 .. Len(t)
      BY <2>1
    <3> QED
      BY <2>1, <3>1
  <2>5. Lost(t) => FlatMap(m, t) = <<>>
    BY <1>2, <2>2, <2>3, <2>4, Zenon
  <2> QED
    BY <2>1, <2>5 DEF t
<1> HIDE DEF P
<1>3. Seq(T) \subseteq P
  BY <1>1, <1>2, SeqInduct
<1> QED
  BY <1>3 DEF P

\* Where the parts are that three elements are put between.
Among(z, x, m, y) ==
    /\ Len(z) = (Len(x) + 3) + Len(y)
    /\ \A i \in 1 .. Len(x) : z[i] = x[i]
    /\ z[Len(x) + 1] = m[1] /\ z[Len(x) + 2] = m[2] /\ z[Len(x) + 3] = m[3]
    /\ \A i \in 1 .. Len(y) : z[(Len(x) + 3) + i] = y[i]

LEMMA Between ==
    ASSUME NEW T, NEW x \in Seq(T), NEW m \in Seq(T), NEW y \in Seq(T)
    PROVE  Len(m) = 3 => x \o (m \o y) \in Seq(T) /\ Among(x \o (m \o y), x, m, y)
<1> DEFINE w == m \o y
           z == x \o w
<1>7. /\ w \in Seq(T) /\ Len(w) = Len(m) + Len(y)
      /\ \A i \in 1 .. Len(m) : w[i] = m[i]
      /\ \A i \in 1 .. Len(y) : w[Len(m) + i] = y[i]
  BY Joined
<1> HIDE DEF w
<1> SUFFICES ASSUME Len(m) = 3
             PROVE  z \in Seq(T) /\ Among(z, x, m, y)
  BY DEF w
<1>1. /\ w \in Seq(T) /\ Len(w) = 3 + Len(y)
      /\ \A i \in 1 .. 3 : w[i] = m[i]
      /\ \A i \in 1 .. Len(y) : w[3 + i] = y[i]
  BY <1>7
<1>2. Len(x) \in Nat /\ Len(y) \in Nat
  BY LenProperties
<1>3. /\ z \in Seq(T) /\ Len(z) = Len(x) + Len(w)
      /\ \A i \in 1 .. Len(x) : z[i] = x[i]
      /\ \A i \in 1 .. Len(w) : z[Len(x) + i] = w[i]
  <2>1. x \in Seq(T) /\ w \in Seq(T)
    BY <1>1
  <2> QED
    BY <2>1, Joined
<1> HIDE DEF z
<1>4. z[Len(x) + 1] = m[1] /\ z[Len(x) + 2] = m[2] /\ z[Len(x) + 3] = m[3]
  <2>1. 1 \in 1 .. 3 /\ 2 \in 1 .. 3 /\ 3 \in 1 .. 3 /\ \A i \in 1 .. 3 : i \in 1 .. Len(w)
    BY <1>1, <1>2
  <2> QED
    BY <1>1, <1>3, <2>1
<1>5. ASSUME NEW i \in 1 .. Len(y) PROVE z[(Len(x) + 3) + i] = y[i]
  <2>1. 3 + i \in 1 .. Len(w) /\ (Len(x) + 3) + i = Len(x) + (3 + i)
    BY <1>1, <1>2
  <2> QED
    BY <1>1, <1>3, <2>1
<1>6. Len(z) = (Len(x) + 3) + Len(y)
  BY <1>1, <1>2, <1>3
<1> QED
  BY <1>3, <1>4, <1>5, <1>6 DEF Among, z, w

-----------------------------------------------------------------------------
(* Sequences of anything.                                                  *)

IsSeq(s) == s \in Seq({s[i] : i \in DOMAIN s})

LEMMA IsSeqOf ==
    ASSUME NEW S, NEW s \in Seq(S)
    PROVE  IsSeq(s)
<1>1. Len(s) \in Nat /\ DOMAIN s = 1 .. Len(s)
  BY LenProperties
<1>2. s = [i \in 1 .. Len(s) |-> s[i]]
  BY LenProperties
<1> DEFINE R == {s[i] : i \in DOMAIN s}
<1>3. \A i \in 1 .. Len(s) : s[i] \in R
  BY <1>1
<1>4. [i \in 1 .. Len(s) |-> s[i]] \in Seq(R)
  <2> HIDE DEF R
  <2> QED
    BY <1>1, <1>3
<1> QED
  BY <1>2, <1>4 DEF IsSeq

\* Append adds the element at the end and leaves the others where they are.
LEMMA Appended ==
    ASSUME NEW s, IsSeq(s), NEW e
    PROVE  /\ Len(s) \in Nat /\ DOMAIN s = 1 .. Len(s)
           /\ IsSeq(Append(s, e)) /\ Len(Append(s, e)) = Len(s) + 1
           /\ DOMAIN Append(s, e) = 1 .. Len(s) + 1
           /\ \A i \in 1 .. Len(s) : Append(s, e)[i] = s[i]
           /\ Append(s, e)[Len(s) + 1] = e
<1> DEFINE R == {s[i] : i \in DOMAIN s}
           S == R \cup {e}
<1>1. s \in Seq(R)
  BY DEF IsSeq
<1> HIDE DEF R
<1>2. s \in Seq(S)
  BY <1>1, SeqMonotonic
<1>3. e \in S
  OBVIOUS
<1> HIDE DEF S
<1>4. Append(s, e) \in Seq(S) /\ Len(Append(s, e)) = Len(s) + 1
  BY <1>2, <1>3, AppendProperties
<1>5. IsSeq(Append(s, e)) /\ DOMAIN Append(s, e) = 1 .. Len(s) + 1
  BY <1>4, IsSeqOf, LenProperties
<1> QED
  BY <1>2, <1>3, <1>4, <1>5, AppendProperties, LenProperties

=============================================================================
