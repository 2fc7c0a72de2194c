-------------------------- MODULE LogHandlerProofs --------------------------
(***************************************************************************)
(* Proofs about LogHandler: with any number of handlers derived from one   *)
(* another, of goroutines and of records, no line is torn, and each has    *)
(* the attributes of its own handler and record, under their own groups.   *)
(*                                                                         *)
(* The second rests on facts about data of any size: sequences             *)
(* (SequenceFacts), and attributes that nest, which are proved by          *)
(* induction on their nesting (NestInduct).                                *)
(***************************************************************************)
EXTENDS LogHandler, SequenceFacts, FiniteSetTheorems

-----------------------------------------------------------------------------
(* Functions defined along the nesting of attributes.                      *)

\* Attributes that go less than n groups deep.
Shallow(n) == {a \in Attr : Nesting[a] < n}

\* f is what step makes of an attribute and of what f is for its members.
Follows(step, f, A) ==
    \A a \in A : f[a] = step[a][[i \in DOMAIN a.members |-> f[a.members[i]]]]

\* The members of a group go less deep than the group.
LEMMA Members ==
    ASSUME NEW n \in Nat, NEW a \in Shallow(n + 1)
    PROVE  \A i \in DOMAIN a.members : a.members[i] \in Shallow(n)
  BY LogAssumption DEF Shallow

LEMMA MembersMapped ==
    ASSUME NEW Z, NEW a \in Attr, NEW f, \A i \in DOMAIN a.members : f[a.members[i]] \in Z
    PROVE  [i \in DOMAIN a.members |-> f[a.members[i]]] \in Seq(Z)
<1>1. DOMAIN a.members = 1 .. Len(a.members) /\ Len(a.members) \in Nat
  BY LogAssumption, LenProperties
<1> QED
  BY <1>1

\* Two functions that follow the same step agree, by induction on the depth.
LEMMA FollowsUnique ==
    ASSUME NEW step, NEW n \in Nat, NEW f, Follows(step, f, Shallow(n)), NEW g, Follows(step, g, Shallow(n))
    PROVE  \A a \in Shallow(n) : f[a] = g[a]
<1> DEFINE P == {k \in Nat : k <= n => \A a \in Shallow(k) : f[a] = g[a]}
<1>1. 0 \in P
  BY LogAssumption DEF Shallow
<1>2. ASSUME NEW k \in Nat, k \in P PROVE k + 1 \in P
  <2> SUFFICES ASSUME k + 1 <= n, NEW a \in Shallow(k + 1) PROVE f[a] = g[a]
    OBVIOUS
  <2>1. \A i \in DOMAIN a.members : f[a.members[i]] = g[a.members[i]]
    BY <1>2, Members
  <2>2. [i \in DOMAIN a.members |-> f[a.members[i]]] = [i \in DOMAIN a.members |-> g[a.members[i]]]
    BY <2>1
  <2>3. a \in Shallow(n)
    BY LogAssumption DEF Shallow
  <2> QED
    BY <2>2, <2>3 DEF Follows
<1> HIDE DEF P
<1>3. n \in P
  BY <1>1, <1>2, Induct
<1> QED
  BY <1>3 DEF P

\* A function that follows the step exists to any depth ...
LEMMA FollowsShallow ==
    ASSUME NEW Z, NEW step \in [Attr -> [Seq(Z) -> Z]], NEW n \in Nat
    PROVE  \E f \in [Shallow(n) -> Z] : Follows(step, f, Shallow(n))
<1> DEFINE P == {k \in Nat : \E f \in [Shallow(k) -> Z] : Follows(step, f, Shallow(k))}
<1>1. 0 \in P
  <2>1. Shallow(0) = {}
    BY LogAssumption DEF Shallow
  <2>2. [a \in {} |-> 0] \in [{} -> Z]
    OBVIOUS
  <2> QED
    BY <2>1, <2>2 DEF Follows
<1>2. ASSUME NEW k \in Nat, k \in P PROVE k + 1 \in P
  <2>1. PICK f \in [Shallow(k) -> Z] : Follows(step, f, Shallow(k))
    BY <1>2
  <2> DEFINE of(a) == [i \in DOMAIN a.members |-> f[a.members[i]]]
             g == [a \in Shallow(k + 1) |-> step[a][of(a)]]
  <2>2. \A a \in Shallow(k + 1) : of(a) \in Seq(Z)
    <3> SUFFICES ASSUME NEW a \in Shallow(k + 1) PROVE of(a) \in Seq(Z)
      OBVIOUS
    <3>1. \A i \in DOMAIN a.members : f[a.members[i]] \in Z
      BY Members
    <3>2. a \in Attr
      BY DEF Shallow
    <3> QED
      BY <3>1, <3>2, MembersMapped
  <2>3. g \in [Shallow(k + 1) -> Z]
    <3> HIDE DEF of
    <3>1. \A a \in Shallow(k + 1) : a \in Attr
      BY DEF Shallow
    <3> QED
      BY <2>2, <3>1
  <2>4. \A a \in Shallow(k) : a \in Shallow(k + 1) /\ g[a] = f[a]
    <3>1. \A a \in Shallow(k) : a \in Shallow(k + 1)
      BY LogAssumption DEF Shallow
    <3> QED
      BY <2>1, <3>1 DEF Follows
  <2>5. \A a \in Shallow(k + 1) : of(a) = [i \in DOMAIN a.members |-> g[a.members[i]]]
    <3> SUFFICES ASSUME NEW a \in Shallow(k + 1)
                 PROVE  of(a) = [i \in DOMAIN a.members |-> g[a.members[i]]]
      OBVIOUS
    <3>1. \A i \in DOMAIN a.members : f[a.members[i]] = g[a.members[i]]
      BY <2>4, Members
    <3> HIDE DEF g
    <3> QED
      BY <3>1
  <2>6. Follows(step, g, Shallow(k + 1))
    BY <2>5 DEF Follows
  <2> HIDE DEF g
  <2> QED
    BY <2>3, <2>6
<1> HIDE DEF P
<1>3. n \in P
  BY <1>1, <1>2, Induct
<1> QED
  BY <1>3 DEF P

\* ... and for all attributes: each is taken from the function for its own depth.
LEMMA FollowsExists ==
    ASSUME NEW Z, NEW step \in [Attr -> [Seq(Z) -> Z]]
    PROVE  \E f \in [Attr -> Z] : Follows(step, f, Attr)
<1> DEFINE F(n) == CHOOSE f : f \in [Shallow(n) -> Z] /\ Follows(step, f, Shallow(n))
           g == [a \in Attr |-> F(Nesting[a] + 1)[a]]
<1>1. \A n \in Nat : F(n) \in [Shallow(n) -> Z] /\ Follows(step, F(n), Shallow(n))
  BY FollowsShallow
<1> HIDE DEF F
<1>2. \A a \in Attr : Nesting[a] + 1 \in Nat /\ a \in Shallow(Nesting[a] + 1)
  BY LogAssumption DEF Shallow
<1>3. g \in [Attr -> Z]
  BY <1>1, <1>2
<1>4. ASSUME NEW a \in Attr
      PROVE  g[a] = step[a][[i \in DOMAIN a.members |-> g[a.members[i]]]]
  <2> DEFINE n == Nesting[a] + 1
  <2>1. g[a] = step[a][[i \in DOMAIN a.members |-> F(n)[a.members[i]]]]
    BY <1>1, <1>2 DEF Follows
  <2>2. ASSUME NEW i \in DOMAIN a.members PROVE F(n)[a.members[i]] = g[a.members[i]]
    <3> DEFINE b == a.members[i]
               m == Nesting[b] + 1
    <3>1. b \in Attr /\ m \in Nat /\ n \in Nat /\ m <= n
      BY LogAssumption
    <3>2. \A c \in Shallow(m) : c \in Shallow(n)
      BY <3>1, LogAssumption DEF Shallow
    <3>3. b \in Shallow(m)
      BY <1>2, <3>1
    <3> HIDE DEF m, n, b
    <3>4. Follows(step, F(n), Shallow(m)) /\ Follows(step, F(m), Shallow(m))
      BY <1>1, <3>1, <3>2 DEF Follows
    <3>5. F(n)[b] = F(m)[b]
      BY <3>1, <3>3, <3>4, FollowsUnique
    <3> QED
      BY <3>1, <3>5 DEF m, b
  <2> HIDE DEF n, g
  <2> QED
    BY <2>1, <2>2
<1> HIDE DEF g
<1> QED
  BY <1>3, <1>4 DEF Follows

-----------------------------------------------------------------------------
(* Pairs, and the names they are qualified with.                           *)

\* What attributes, the pairs of a line and the elements of a slice are made of.
Value == {a.value : a \in Attr}
Kind == {a.kind : a \in Attr}

\* The pairs a line has, and the attributes a slice holds.
Pair == [key : Seq(Name), value : Value]
Stored(keys) == [key : keys, kind : Kind, value : Value, members : {<<>>}]

\* An attribute's fields, by the assumption on Attr.
LEMMA AttrIs ==
    ASSUME NEW a \in Attr
    PROVE  /\ a = [key |-> a.key, kind |-> a.kind, value |-> a.value, members |-> a.members]
           /\ a.key \in Seq(Name) /\ a.kind \in Kind /\ a.value \in Value
           /\ a.members \in Seq(Attr) /\ (a.kind # "group" => a.members = <<>>)
           /\ Nesting[a] \in Nat
<1>1. a.key \in Seq(Name)
  <2>1. CASE a.key = <<>>
    BY <2>1
  <2>2. CASE \E n \in Name : a.key = <<n>>
    <3>1. PICK n \in Name : a.key = <<n>>
      BY <2>2
    <3>2. <<n>> \in Seq(Name)
      OBVIOUS
    <3> QED
      BY <3>1, <3>2, Zenon
  <2> QED
    BY <2>1, <2>2, LogAssumption
<1> QED
  BY <1>1, LogAssumption DEF Value, Kind

\* A pair whose key is put under a group is a pair.
LEMMA Prefixed ==
    ASSUME NEW p \in Seq(Name)
    PROVE  \A x \in Pair : /\ x.key \in Seq(Name) /\ x.value \in Value
                           /\ [x EXCEPT !.key = p \o @] = [key |-> p \o x.key, value |-> x.value]
                           /\ [x EXCEPT !.key = p \o @] \in Pair
<1> SUFFICES ASSUME NEW x \in Pair
             PROVE  /\ x.key \in Seq(Name) /\ x.value \in Value
                    /\ [x EXCEPT !.key = p \o @] = [key |-> p \o x.key, value |-> x.value]
                    /\ [x EXCEPT !.key = p \o @] \in Pair
  OBVIOUS
<1>1. x.key \in Seq(Name) /\ x.value \in Value /\ x = [key |-> x.key, value |-> x.value]
  BY DEF Pair
<1>2. p \o x.key \in Seq(Name)
  BY <1>1, ConcatProperties
<1>3. [x EXCEPT !.key = p \o @] = [key |-> p \o x.key, value |-> x.value]
  <2> DEFINE q == p \o x.key
  <2>1. [x EXCEPT !.key = p \o @] = [x EXCEPT !.key = q]
    OBVIOUS
  <2> HIDE DEF q
  <2>2. [x EXCEPT !.key = q] = [key |-> q, value |-> x.value]
    BY <1>1
  <2> QED
    BY <2>1, <2>2 DEF q
<1> QED
  BY <1>1, <1>2, <1>3 DEF Pair

\* Qualify, pair by pair.
Prefix(p) == [x \in Pair |-> <<[x EXCEPT !.key = p \o @]>>]

LEMMA PrefixMaps == ASSUME NEW p \in Seq(Name) PROVE Maps(Prefix(p), Pair, Seq(Pair))
<1>1. \A x \in Pair : [x EXCEPT !.key = p \o @] \in Pair
  BY Prefixed
<1> QED
  BY <1>1 DEF Maps, Prefix

\* Qualify is such a map.
LEMMA QualifyMaps ==
    ASSUME NEW p \in Seq(Name)
    PROVE  \A s \in Seq(Pair) : Qualify(p, s) = FlatMap(Prefix(p), s) /\ Qualify(p, s) \in Seq(Pair)
<1> DEFINE q == [x \in Pair |-> [x EXCEPT !.key = p \o @]]
           P == {s \in Seq(Pair) : Each(q, s) = FlatMap(Prefix(p), s)}
<1>1. Maps(q, Pair, Pair) /\ \A x \in Pair : Prefix(p)[x] = <<q[x]>> /\ q[x] \in Pair
  BY Prefixed DEF Maps, Prefix
<1>2. \A s \in Seq(Pair) : Qualify(p, s) = Each(q, s)
  <2> SUFFICES ASSUME NEW s \in Seq(Pair) PROVE Qualify(p, s) = Each(q, s)
    OBVIOUS
  <2>1. \A i \in DOMAIN s : s[i] \in Pair
    BY LenProperties, ElementOfSeq
  <2> QED
    BY <2>1 DEF Qualify, Each
<1> HIDE DEF q
<1>3. <<>> \in P
  <2>1. Each(q, <<>>) = <<>>
    BY DEF Each
  <2>2. <<>> \in Seq(Pair)
    OBVIOUS
  <2> QED
    BY <2>1, <2>2, FlatMapEmpty, Zenon
<1>4. ASSUME NEW s \in Seq(Pair), NEW e \in Pair, s \in P PROVE Append(s, e) \in P
  <2>1. Each(q, Append(s, e)) = Append(Each(q, s), q[e]) /\ Each(q, s) \in Seq(Pair) /\ q[e] \in Pair
    BY <1>1, EachAppend, EachTyped
  <2>2. FlatMap(Prefix(p), Append(s, e)) = FlatMap(Prefix(p), s) \o Prefix(p)[e]
    BY PrefixMaps, FlatMapAppend
  <2>3. Append(Each(q, s), q[e]) = Each(q, s) \o <<q[e]>>
    BY <2>1
  <2>4. Append(s, e) \in Seq(Pair)
    BY AppendProperties
  <2> QED
    BY <1>1, <1>4, <2>1, <2>2, <2>3, <2>4
<1> HIDE DEF P
<1>5. Seq(Pair) \subseteq P
  BY <1>3, <1>4, SeqInduct
<1>6. \A s \in Seq(Pair) : Each(q, s) \in Seq(Pair)
  BY <1>1, EachTyped
<1> QED
  BY <1>2, <1>5, <1>6 DEF P

\* A group within a group qualifies by both names: what joinGroup is for.
LEMMA QualifyTwice ==
    ASSUME NEW p \in Seq(Name), NEW r \in Seq(Name), NEW s \in Seq(Pair)
    PROVE  Qualify(p, Qualify(r, s)) = Qualify(p \o r, s)
<1>1. DOMAIN s = 1 .. Len(s) /\ \A i \in DOMAIN s : s[i] \in Pair
  BY LenProperties, ElementOfSeq
<1> DEFINE t == Qualify(r, s)
<1>2. DOMAIN t = DOMAIN s /\ \A i \in DOMAIN s : t[i] = [s[i] EXCEPT !.key = r \o @]
  BY DEF Qualify
<1> HIDE DEF t
<1>3. \A i \in DOMAIN s : [t[i] EXCEPT !.key = p \o @] = [s[i] EXCEPT !.key = (p \o r) \o @]
  <2> SUFFICES ASSUME NEW x \in Pair, NEW y, y = [x EXCEPT !.key = r \o @]
               PROVE  [y EXCEPT !.key = p \o @] = [x EXCEPT !.key = (p \o r) \o @]
    BY <1>1, <1>2
  <2>1. x.key \in Seq(Name) /\ y = [key |-> r \o x.key, value |-> x.value] /\ y \in Pair
    BY Prefixed
  <2>2. [y EXCEPT !.key = p \o @] = [key |-> p \o y.key, value |-> y.value]
    BY <2>1, Prefixed
  <2>3. y.key = r \o x.key /\ y.value = x.value
    BY <2>1
  <2>4. p \o r \in Seq(Name)
    BY ConcatProperties
  <2>5. [x EXCEPT !.key = (p \o r) \o @] = [key |-> (p \o r) \o x.key, value |-> x.value]
    <3> DEFINE pr == p \o r
    <3>1. pr \in Seq(Name)
      BY <2>4
    <3> HIDE DEF pr
    <3>2. [x EXCEPT !.key = pr \o @] = [key |-> pr \o x.key, value |-> x.value]
      BY <3>1, Prefixed
    <3> QED
      BY <3>2 DEF pr
  <2>6. p \o (r \o x.key) = (p \o r) \o x.key
    <3> DEFINE k == x.key
    <3>1. k \in Seq(Name)
      BY <2>1
    <3> HIDE DEF k
    <3>2. p \o (r \o k) = (p \o r) \o k
      BY <3>1, ConcatAssociative, SMTT(20)
    <3> QED
      BY <3>2 DEF k
  <2> QED
    BY <2>2, <2>3, <2>5, <2>6, Zenon
<1>4. Qualify(p, t) = [i \in DOMAIN s |-> [t[i] EXCEPT !.key = p \o @]]
  BY <1>2 DEF Qualify
<1>5. Qualify(p \o r, s) = [i \in DOMAIN s |-> [s[i] EXCEPT !.key = (p \o r) \o @]]
  BY DEF Qualify
<1>6. [i \in DOMAIN s |-> [t[i] EXCEPT !.key = p \o @]]
        = [i \in DOMAIN s |-> [s[i] EXCEPT !.key = (p \o r) \o @]]
  BY <1>3, Zenon
<1> QED
  BY <1>4, <1>5, <1>6 DEF t

LEMMA QualifyNone == ASSUME NEW s \in Seq(Pair) PROVE Qualify(<<>>, s) = s
<1>1. DOMAIN s = 1 .. Len(s) /\ \A i \in DOMAIN s : s[i] \in Pair
  BY LenProperties, ElementOfSeq
<1>2. \A x \in Pair : [x EXCEPT !.key = <<>> \o @] = x
  <2> SUFFICES ASSUME NEW x \in Pair PROVE [x EXCEPT !.key = <<>> \o @] = x
    OBVIOUS
  <2>1. x.key \in Seq(Name) /\ x = [key |-> x.key, value |-> x.value]
    BY DEF Pair
  <2>2. <<>> \o x.key = x.key
    BY <2>1
  <2> QED
    BY <2>1, <2>2
<1>3. Qualify(<<>>, s) = [i \in DOMAIN s |-> s[i]]
  BY <1>1, <1>2 DEF Qualify
<1> QED
  BY <1>1, <1>3

LEMMA QualifyNothing == ASSUME NEW p PROVE Qualify(p, <<>>) = <<>>
  BY DEF Qualify

LEMMA QualifyOne ==
    ASSUME NEW p \in Seq(Name), NEW x \in Pair
    PROVE  Qualify(p, <<x>>) = <<[key |-> p \o x.key, value |-> x.value]>>
<1>1. Qualify(p, <<x>>) = <<[x EXCEPT !.key = p \o @]>>
  BY DEF Qualify
<1> QED
  BY <1>1, Prefixed

LEMMA QualifyConcat ==
    ASSUME NEW p \in Seq(Name), NEW s \in Seq(Pair), NEW t \in Seq(Pair)
    PROVE  Qualify(p, s \o t) = Qualify(p, s) \o Qualify(p, t)
<1>1. FlatMap(Prefix(p), s \o t) = FlatMap(Prefix(p), s) \o FlatMap(Prefix(p), t)
  BY PrefixMaps, FlatMapConcat
<1>2. s \o t \in Seq(Pair)
  BY ConcatProperties
<1>3. Qualify(p, s \o t) = FlatMap(Prefix(p), s \o t)
  BY <1>2, QualifyMaps, Zenon
<1> QED
  BY <1>1, <1>3, QualifyMaps

-----------------------------------------------------------------------------
\* What Handle writes of the attributes a slice holds.
WriteStored == [b \in Stored(Seq(Name)) |-> WritePlain(b, <<>>)]

LEMMA StoredIs ==
    ASSUME NEW b \in Stored(Seq(Name))
    PROVE  /\ b.key \in Seq(Name) /\ b.value \in Value
           /\ b = [key |-> b.key, kind |-> b.kind, value |-> b.value, members |-> b.members]
  BY DEF Stored

\* Each of them comes to one pair or to none.
LEMMA WriteStoredMaps == Maps(WriteStored, Stored(Seq(Name)), Seq(Pair))
<1> SUFFICES ASSUME NEW b \in Stored(Seq(Name)) PROVE WritePlain(b, <<>>) \in Seq(Pair)
  BY DEF Maps, WriteStored
<1>1. <<>> \o b.key = b.key /\ b.key \in Seq(Name) /\ b.value \in Value
  BY StoredIs
<1>2. [key |-> b.key, value |-> b.value] \in Pair
  BY <1>1 DEF Pair
<1>3. <<[key |-> b.key, value |-> b.value]>> \in Seq(Pair) /\ <<>> \in Seq(Pair)
  BY <1>2
<1>4. \/ WritePlain(b, <<>>) = <<>>
      \/ WritePlain(b, <<>>) = <<[key |-> b.key, value |-> b.value]>>
  BY <1>1 DEF WritePlain, joinGroup
<1> QED
  BY <1>3, <1>4

-----------------------------------------------------------------------------
(* Induction along the nesting.                                            *)

\* A set that has every attribute whose members it has.
LEMMA NestInduct ==
    ASSUME NEW P, \A a \in Attr : (\A i \in DOMAIN a.members : a.members[i] \in P) => a \in P
    PROVE  Attr \subseteq P
<1> DEFINE N == {n \in Nat : Shallow(n) \subseteq P}
<1>1. 0 \in N
  BY LogAssumption DEF Shallow
<1>2. ASSUME NEW n \in Nat, n \in N PROVE n + 1 \in N
  <2> SUFFICES ASSUME NEW a \in Shallow(n + 1) PROVE a \in P
    OBVIOUS
  <2>1. \A i \in DOMAIN a.members : a.members[i] \in P
    BY <1>2, Members
  <2> QED
    BY <2>1 DEF Shallow
<1> HIDE DEF N
<1>3. Nat \subseteq N
  BY <1>1, <1>2, Induct
<1>4. \A a \in Attr : Nesting[a] + 1 \in Nat /\ a \in Shallow(Nesting[a] + 1)
  BY LogAssumption DEF Shallow
<1> QED
  BY <1>3, <1>4 DEF N

-----------------------------------------------------------------------------
(* The recursive functions follow their definitions.                       *)

\* One step of the recursion, of which Leaves is a fixed point (LeavesIs).
LeavesOf(f) == [a \in Attr |->
    IF a.kind = "group" THEN Qualify(a.key, FlatMap(f, a.members))
    ELSE IF a = NoAttr \/ IsEmptyString(a) THEN <<>>
    ELSE <<[key |-> a.key, value |-> a.value]>>]

LEMMA LeavesChoice == Leaves = CHOOSE f : f = LeavesOf(f)
  BY DEF Leaves, LeavesOf, FlatMap, Each

LeavesStep == [a \in Attr |-> [zs \in Seq(Seq(Pair)) |->
    IF a.kind = "group" THEN Qualify(a.key, FlattenSeq(zs))
    ELSE IF a = NoAttr \/ IsEmptyString(a) THEN <<>>
    ELSE <<[key |-> a.key, value |-> a.value]>>]]

LEMMA LeavesExists == \E f \in [Attr -> Seq(Pair)] : f = LeavesOf(f)
<1>1. LeavesStep \in [Attr -> [Seq(Seq(Pair)) -> Seq(Pair)]]
  <2> SUFFICES ASSUME NEW a \in Attr, NEW zs \in Seq(Seq(Pair))
               PROVE  (IF a.kind = "group" THEN Qualify(a.key, FlattenSeq(zs))
                       ELSE IF a = NoAttr \/ IsEmptyString(a) THEN <<>>
                       ELSE <<[key |-> a.key, value |-> a.value]>>) \in Seq(Pair)
    BY DEF LeavesStep
  <2>1. a.key \in Seq(Name) /\ a.value \in Value
    BY AttrIs
  <2>2. Qualify(a.key, FlattenSeq(zs)) \in Seq(Pair)
    <3>1. FlattenSeq(zs) \in Seq(Pair)
      BY FlatTyped
    <3> QED
      BY <2>1, <3>1, QualifyMaps
  <2>3. <<[key |-> a.key, value |-> a.value]>> \in Seq(Pair) /\ <<>> \in Seq(Pair)
    BY <2>1 DEF Pair
  <2> QED
    BY <2>2, <2>3
<1>2. PICK f \in [Attr -> Seq(Pair)] : Follows(LeavesStep, f, Attr)
  BY <1>1, FollowsExists
<1>3. ASSUME NEW a \in Attr PROVE f[a] = LeavesOf(f)[a]
  <2>1. f[a] = LeavesStep[a][Each(f, a.members)]
    BY <1>2 DEF Follows, Each
  <2>2. Each(f, a.members) \in Seq(Seq(Pair))
    <3>1. a.members \in Seq(Attr) /\ Maps(f, Attr, Seq(Pair))
      BY AttrIs DEF Maps
    <3> QED
      BY <3>1, EachTyped
  <2> QED
    BY <2>1, <2>2 DEF LeavesStep, LeavesOf, FlatMap
<1>4. f = [a \in Attr |-> f[a]]
  OBVIOUS
<1>5. LeavesOf(f) = [a \in Attr |-> LeavesOf(f)[a]]
  BY DEF LeavesOf
<1> HIDE DEF LeavesOf
<1>6. f = LeavesOf(f)
  BY <1>3, <1>4, <1>5, Zenon
<1> QED
  BY <1>6

LEMMA LeavesIs == Leaves = LeavesOf(Leaves)
  BY LeavesExists, LeavesChoice

\* Groups and keys are paths.
LEMMA Paths ==
    /\ Seq(Name) \subseteq Path
    /\ \A g \in Path, a \in Attr : joinGroup(g, a.key) \in Path
<1>1. Name \subseteq Segment
  BY Zenon DEF Segment
<1>2. ASSUME NEW s \in Seq(Name) PROVE s \in Seq(Segment)
  BY <1>1, SeqMonotonic
<1>3. \A g \in Seq(Segment), k \in Seq(Segment) : g \o k \in Seq(Segment)
  BY ConcatProperties
<1> QED
  BY <1>2, <1>3, AttrIs DEF Path, joinGroup

\* One step of appendColorAttr, of which it is a fixed point (AppendIs).
AppendOf(f) == [a \in Attr |-> [group \in Path |->
    IF a = NoAttr THEN <<>>
    ELSE IF a.kind = "group"
         THEN FlattenSeq([i \in DOMAIN a.members |-> f[a.members[i]][joinGroup(group, a.key)]])
         ELSE <<[a EXCEPT !.key = joinGroup(group, @)]>>]]

LEMMA AppendChoice == appendColorAttr = CHOOSE f : f = AppendOf(f)
  BY DEF appendColorAttr, AppendOf

Appending == [Path -> Seq(Stored(Path))]

AppendStep == [a \in Attr |-> [zs \in Seq(Appending) |-> [group \in Path |->
    IF a = NoAttr THEN <<>>
    ELSE IF a.kind = "group"
         THEN FlattenSeq([i \in DOMAIN zs |-> zs[i][joinGroup(group, a.key)]])
         ELSE <<[a EXCEPT !.key = joinGroup(group, @)]>>]]]

\* An attribute that is no group, as it is stored under one.
LEMMA Rekeyed ==
    ASSUME NEW a \in Attr, a.kind # "group", NEW keys, NEW g, joinGroup(g, a.key) \in keys
    PROVE  /\ [a EXCEPT !.key = joinGroup(g, @)] \in Stored(keys)
           /\ [a EXCEPT !.key = joinGroup(g, @)]
                = [key |-> joinGroup(g, a.key), kind |-> a.kind, value |-> a.value, members |-> <<>>]
<1> DEFINE k == joinGroup(g, a.key)
<1>1. [a EXCEPT !.key = joinGroup(g, @)] = [a EXCEPT !.key = k]
  OBVIOUS
<1> HIDE DEF k
<1>2. /\ a = [key |-> a.key, kind |-> a.kind, value |-> a.value, members |-> a.members]
      /\ a.kind \in Kind /\ a.value \in Value /\ a.members = <<>>
  BY AttrIs
<1>3. [a EXCEPT !.key = k] = [key |-> k, kind |-> a.kind, value |-> a.value, members |-> <<>>]
  BY <1>2
<1> QED
  BY <1>1, <1>2, <1>3 DEF Stored, k

LEMMA PickTyped ==
    ASSUME NEW T, NEW zs \in Seq([Path -> T]), NEW h \in Path
    PROVE  [i \in DOMAIN zs |-> zs[i][h]] \in Seq(T)
<1>1. DOMAIN zs = 1 .. Len(zs) /\ Len(zs) \in Nat /\ \A i \in 1 .. Len(zs) : zs[i] \in [Path -> T]
  BY LenProperties, ElementOfSeq
<1>2. \A i \in 1 .. Len(zs) : zs[i][h] \in T
  BY <1>1
<1> QED
  BY <1>1, <1>2

LEMMA AppendExists == \E f : f = AppendOf(f)
<1>1. AppendStep \in [Attr -> [Seq(Appending) -> Appending]]
  <2> SUFFICES ASSUME NEW a \in Attr, NEW zs \in Seq(Appending), NEW group \in Path
               PROVE  (IF a = NoAttr THEN <<>>
                       ELSE IF a.kind = "group"
                            THEN FlattenSeq([i \in DOMAIN zs |-> zs[i][joinGroup(group, a.key)]])
                            ELSE <<[a EXCEPT !.key = joinGroup(group, @)]>>) \in Seq(Stored(Path))
    BY DEF AppendStep, Appending
  <2> DEFINE h == joinGroup(group, a.key)
  <2>1. h \in Path
    BY Paths
  <2>2. FlattenSeq([i \in DOMAIN zs |-> zs[i][h]]) \in Seq(Stored(Path))
    <3> HIDE DEF h
    <3>1. [i \in DOMAIN zs |-> zs[i][h]] \in Seq(Seq(Stored(Path)))
      BY <2>1, PickTyped DEF Appending
    <3> QED
      BY <3>1, FlatTyped
  <2>3. a.kind # "group" => [a EXCEPT !.key = joinGroup(group, @)] \in Stored(Path)
    BY <2>1, Rekeyed
  <2>4. <<>> \in Seq(Stored(Path))
    OBVIOUS
  <2> QED
    BY <2>2, <2>3, <2>4
<1>2. PICK f \in [Attr -> Appending] : Follows(AppendStep, f, Attr)
  BY <1>1, FollowsExists
<1>3. ASSUME NEW a \in Attr PROVE f[a] = AppendOf(f)[a]
  <2> DEFINE zs == Each(f, a.members)
  <2>1. f[a] = AppendStep[a][zs]
    BY <1>2 DEF Follows, Each
  <2>2. zs \in Seq(Appending)
    <3>1. a.members \in Seq(Attr) /\ Maps(f, Attr, Appending)
      BY AttrIs DEF Maps
    <3> QED
      BY <3>1, EachTyped
  <2>3. DOMAIN zs = DOMAIN a.members /\ \A i \in DOMAIN a.members : zs[i] = f[a.members[i]]
    BY DEF Each
  <2> HIDE DEF zs
  <2>4. f[a] = [group \in Path |->
    IF a = NoAttr THEN <<>>
    ELSE IF a.kind = "group"
         THEN FlattenSeq([i \in DOMAIN zs |-> zs[i][joinGroup(group, a.key)]])
         ELSE <<[a EXCEPT !.key = joinGroup(group, @)]>>]
    BY <2>1, <2>2 DEF AppendStep
  <2>5. \A group \in Path :
           [i \in DOMAIN zs |-> zs[i][joinGroup(group, a.key)]]
           = [i \in DOMAIN a.members |-> f[a.members[i]][joinGroup(group, a.key)]]
    BY <2>3
  <2> QED
    BY <2>4, <2>5 DEF AppendOf
<1>4. f = [a \in Attr |-> f[a]]
  OBVIOUS
<1>5. AppendOf(f) = [a \in Attr |-> AppendOf(f)[a]]
  BY DEF AppendOf
<1> HIDE DEF AppendOf
<1>6. f = AppendOf(f)
  BY <1>3, <1>4, <1>5, Zenon
<1> QED
  BY <1>6

LEMMA AppendIs == appendColorAttr = AppendOf(appendColorAttr)
  BY AppendExists, AppendChoice

-----------------------------------------------------------------------------
\* One step of writeColorAttr, of which it is a fixed point (WriteIs).
WriteOf(f) == [a \in Attr |-> [group \in Path |->
    IF a.kind = "group"
    THEN FlattenSeq([i \in DOMAIN a.members |-> f[a.members[i]][joinGroup(group, a.key)]])
    ELSE WritePlain(a, group)]]

LEMMA WriteChoice == writeColorAttr = CHOOSE f : f = WriteOf(f)
  BY DEF writeColorAttr, WriteOf

Writing == [Path -> Seq([key : Path, value : Value])]

WriteStep == [a \in Attr |-> [zs \in Seq(Writing) |-> [group \in Path |->
    IF a.kind = "group"
    THEN FlattenSeq([i \in DOMAIN zs |-> zs[i][joinGroup(group, a.key)]])
    ELSE WritePlain(a, group)]]]

LEMMA WriteExists == \E f : f = WriteOf(f)
<1> DEFINE Pairs == [key : Path, value : Value]
<1>1. WriteStep \in [Attr -> [Seq(Writing) -> Writing]]
  <2> SUFFICES ASSUME NEW a \in Attr, NEW zs \in Seq(Writing), NEW group \in Path
               PROVE  (IF a.kind = "group"
                       THEN FlattenSeq([i \in DOMAIN zs |-> zs[i][joinGroup(group, a.key)]])
                       ELSE WritePlain(a, group)) \in Seq(Pairs)
    BY DEF WriteStep, Writing
  <2> DEFINE h == joinGroup(group, a.key)
  <2>1. h \in Path /\ a.value \in Value
    BY Paths, AttrIs
  <2>2. FlattenSeq([i \in DOMAIN zs |-> zs[i][h]]) \in Seq(Pairs)
    <3>0. zs \in Seq([Path -> Seq(Pairs)])
      BY DEF Writing
    <3> HIDE DEF h, Pairs
    <3>1. [i \in DOMAIN zs |-> zs[i][h]] \in Seq(Seq(Pairs))
      BY <2>1, <3>0, PickTyped
    <3> QED
      BY <3>1, FlatTyped
  <2>3. WritePlain(a, group) \in Seq(Pairs)
    <3>1. <<>> \in Seq(Pairs) /\ <<[key |-> h, value |-> a.value]>> \in Seq(Pairs)
      <4> HIDE DEF h
      <4> QED
        BY <2>1
    <3>2. WritePlain(a, group) = <<>> \/ WritePlain(a, group) = <<[key |-> h, value |-> a.value]>>
      BY DEF WritePlain
    <3> QED
      BY <3>1, <3>2, Zenon
  <2> QED
    BY <2>2, <2>3
<1>2. PICK f \in [Attr -> Writing] : Follows(WriteStep, f, Attr)
  BY <1>1, FollowsExists
<1>3. ASSUME NEW a \in Attr PROVE f[a] = WriteOf(f)[a]
  <2> DEFINE zs == Each(f, a.members)
  <2>1. f[a] = WriteStep[a][zs]
    BY <1>2 DEF Follows, Each
  <2>2. zs \in Seq(Writing)
    <3>1. a.members \in Seq(Attr) /\ Maps(f, Attr, Writing)
      BY AttrIs DEF Maps
    <3> QED
      BY <3>1, EachTyped
  <2>3. DOMAIN zs = DOMAIN a.members /\ \A i \in DOMAIN a.members : zs[i] = f[a.members[i]]
    BY DEF Each
  <2> HIDE DEF zs
  <2>4. f[a] = [group \in Path |->
    IF a.kind = "group"
    THEN FlattenSeq([i \in DOMAIN zs |-> zs[i][joinGroup(group, a.key)]])
    ELSE WritePlain(a, group)]
    BY <2>1, <2>2 DEF WriteStep
  <2>5. \A group \in Path :
           [i \in DOMAIN zs |-> zs[i][joinGroup(group, a.key)]]
           = [i \in DOMAIN a.members |-> f[a.members[i]][joinGroup(group, a.key)]]
    BY <2>3
  <2> QED
    BY <2>4, <2>5 DEF WriteOf
<1>4. f = [a \in Attr |-> f[a]]
  OBVIOUS
<1>5. WriteOf(f) = [a \in Attr |-> WriteOf(f)[a]]
  BY DEF WriteOf
<1> HIDE DEF WriteOf
<1>6. f = WriteOf(f)
  BY <1>3, <1>4, <1>5, Zenon
<1> QED
  BY <1>6

LEMMA WriteIs == writeColorAttr = WriteOf(writeColorAttr)
  BY WriteExists, WriteChoice

-----------------------------------------------------------------------------
(* An attribute, stored or written under a group, comes to its leaves.     *)

Keys == Seq(Name)

\* What is stored of an attribute, or written of it, under a group are its leaves, there.
Right(a) ==
    /\ Leaves[a] \in Seq(Pair)
    /\ \A g \in Keys :
         /\ appendColorAttr[a][g] \in Seq(Stored(Keys))
         /\ FlatMap(WriteStored, appendColorAttr[a][g]) = Qualify(g, Leaves[a])
         /\ writeColorAttr[a][g] = Qualify(g, Leaves[a])

\* An attribute that is no group.
LEMMA PlainRight ==
    ASSUME NEW a \in Attr, a.kind # "group" PROVE Right(a)
<1> DEFINE x == [key |-> a.key, value |-> a.value]
<1>1. a.key \in Keys /\ a.value \in Value /\ x \in Pair
  BY AttrIs DEF Pair, Keys
<1>2. Leaves[a] = IF a = NoAttr \/ IsEmptyString(a) THEN <<>> ELSE <<x>>
  <2>1. Leaves[a] = LeavesOf(Leaves)[a]
    BY LeavesIs, Zenon
  <2> QED
    BY <2>1 DEF LeavesOf
<1>3. Leaves[a] \in Seq(Pair)
  <2>1. <<>> \in Seq(Pair) /\ <<x>> \in Seq(Pair)
    BY <1>1
  <2> QED
    BY <1>2, <2>1
<1> SUFFICES ASSUME NEW g \in Keys
             PROVE  /\ appendColorAttr[a][g] \in Seq(Stored(Keys))
                    /\ FlatMap(WriteStored, appendColorAttr[a][g]) = Qualify(g, Leaves[a])
                    /\ writeColorAttr[a][g] = Qualify(g, Leaves[a])
  BY <1>3 DEF Right
<1> DEFINE k == joinGroup(g, a.key)
           b == [a EXCEPT !.key = joinGroup(g, @)]
<1>4. g \in Path /\ k \in Keys /\ k = g \o a.key
  BY <1>1, Paths, ConcatProperties DEF Keys, joinGroup
<1>5. b \in Stored(Keys) /\ b = [key |-> k, kind |-> a.kind, value |-> a.value, members |-> <<>>]
  <2> HIDE DEF Keys
  <2> QED
    BY <1>4, Rekeyed
<1>6. appendColorAttr[a][g] = IF a = NoAttr THEN <<>> ELSE <<b>>
  <2>1. appendColorAttr[a][g] = AppendOf(appendColorAttr)[a][g]
    BY AppendIs, Zenon
  <2> QED
    BY <1>4, <2>1 DEF AppendOf
<1>7. writeColorAttr[a][g] = WritePlain(a, g)
  <2>1. writeColorAttr[a][g] = WriteOf(writeColorAttr)[a][g]
    BY WriteIs, Zenon
  <2> QED
    BY <1>4, <2>1 DEF WriteOf
<1>8. Qualify(g, <<x>>) = <<[key |-> k, value |-> a.value]>> /\ Qualify(g, <<>>) = <<>>
  <2>1. x.key = a.key /\ x.value = a.value
    OBVIOUS
  <2>2. Qualify(g, <<x>>) = <<[key |-> g \o x.key, value |-> x.value]>>
    <3> HIDE DEF x
    <3> QED
      BY <1>1, QualifyOne DEF Keys
  <2> QED
    BY <1>4, <2>1, <2>2, QualifyNothing
<1>9. WritePlain(a, g) = Qualify(g, Leaves[a])
  BY <1>2, <1>8 DEF WritePlain
<1>10. appendColorAttr[a][g] \in Seq(Stored(Keys))
  <2> HIDE DEF b
  <2>1. <<>> \in Seq(Stored(Keys)) /\ <<b>> \in Seq(Stored(Keys))
    BY <1>5
  <2> QED
    BY <1>6, <2>1
<1>11. FlatMap(WriteStored, appendColorAttr[a][g]) = Qualify(g, Leaves[a])
  <2>1. CASE a = NoAttr
    BY <1>2, <1>6, <1>8, <2>1, FlatMapEmpty, Zenon
  <2>2. CASE a # NoAttr
    <3>1. FlatMap(WriteStored, <<b>>) = WriteStored[b]
      <4> HIDE DEF b
      <4> QED
        BY <1>5, WriteStoredMaps, FlatMapOne DEF Keys
    <3>2. b.key = k /\ b.kind = a.kind /\ b.value = a.value /\ b.members = <<>>
      BY <1>5
    <3>3. WriteStored[b] = WritePlain(b, <<>>)
      BY <1>5 DEF WriteStored, Keys
    <3>4. b # NoAttr
      <4>1. ASSUME b = NoAttr PROVE FALSE
        <5>1. k = <<>> /\ a.kind = "any" /\ a.value = "nil"
          BY <3>2, <4>1 DEF NoAttr
        <5>2. a.key = <<>>
          <6> DEFINE c == a.key
          <6>1. g \in Seq(Name) /\ c \in Seq(Name) /\ g \o c = <<>>
            BY <1>1, <1>4, <5>1 DEF Keys
          <6> HIDE DEF c
          <6>2. c = <<>>
            BY <6>1, ConcatEqualIffEmpty
          <6> QED
            BY <6>2 DEF c
        <5>3. a.members = <<>>
          BY AttrIs
        <5> QED
          BY <2>2, <5>1, <5>2, <5>3, AttrIs DEF NoAttr
      <4> QED
        BY <4>1
    <3>5. IsEmptyString(b) <=> IsEmptyString(a)
      BY <3>2, Zenon DEF IsEmptyString
    <3>6. <<>> \o b.key = k
      BY <1>4, <3>2 DEF Keys
    <3>7. WritePlain(b, <<>>) = IF IsEmptyString(a) THEN <<>> ELSE <<[key |-> k, value |-> a.value]>>
      <4> HIDE DEF b, k
      <4> QED
        BY <3>2, <3>4, <3>5, <3>6 DEF WritePlain, joinGroup
    <3> QED
      BY <1>2, <1>6, <1>8, <2>2, <3>1, <3>3, <3>7
  <2> QED
    BY <2>1, <2>2
<1> QED
  BY <1>7, <1>9, <1>10, <1>11

\* The same of a list of them.
LEMMA ListRight ==
    ASSUME NEW P, \A b \in P : Right(b), NEW ms \in Seq(P), NEW h \in Keys,
           NEW L, L = [b \in P |-> Leaves[b]],
           NEW A, A = [b \in P |-> appendColorAttr[b][h]],
           NEW W, W = [b \in P |-> writeColorAttr[b][h]]
    PROVE  /\ FlatMap(L, ms) \in Seq(Pair)
           /\ FlatMap(A, ms) \in Seq(Stored(Keys))
           /\ FlatMap(WriteStored, FlatMap(A, ms)) = Qualify(h, FlatMap(L, ms))
           /\ FlatMap(W, ms) = Qualify(h, FlatMap(L, ms))
<1> DEFINE K == [b \in P |-> Qualify(h, Leaves[b])]
           all == FlatMap(L, ms)
<1>1. Maps(L, P, Seq(Pair)) /\ Maps(A, P, Seq(Stored(Keys)))
  BY DEF Maps, Right
<1>2. /\ \A b \in P : K[b] = FlatMap(WriteStored, A[b])
      /\ \A b \in P : K[b] = W[b]
      /\ \A b \in P : K[b] = Qualify(h, L[b]) /\ L[b] \in Seq(Pair)
  BY DEF Right
<1> HIDE DEF K, all
<1>3. all \in Seq(Pair)
  BY <1>1, FlatMapTyped DEF all
<1>4. FlatMap(A, ms) \in Seq(Stored(Keys))
  BY <1>1, FlatMapTyped
<1>5. FlatMap(WriteStored, FlatMap(A, ms)) = FlatMap(K, ms)
  <2>1. Maps(WriteStored, Stored(Keys), Seq(Pair))
    BY WriteStoredMaps DEF Keys
  <2> QED
    BY <1>1, <1>2, <2>1, FlatMapTwice, SMTT(20)
<1>6. FlatMap(W, ms) = FlatMap(K, ms)
  <2>1. \A b \in P : W[b] = K[b]
    BY <1>2
  <2>2. Each(W, ms) = Each(K, ms)
    BY <2>1, EachSame
  <2> QED
    BY <2>2 DEF FlatMap
<1>7. Qualify(h, all) = FlatMap(K, ms)
  <2>1. Qualify(h, all) = FlatMap(Prefix(h), all)
    BY <1>3, QualifyMaps DEF Keys
  <2>2. \A b \in P : K[b] = FlatMap(Prefix(h), L[b])
    BY <1>2, QualifyMaps DEF Keys
  <2>3. Maps(Prefix(h), Pair, Seq(Pair))
    BY PrefixMaps DEF Keys
  <2>4. FlatMap(Prefix(h), FlatMap(L, ms)) = FlatMap(K, ms)
    BY <1>1, <2>2, <2>3, FlatMapTwice
  <2> QED
    BY <2>1, <2>4 DEF all
<1> QED
  BY <1>3, <1>4, <1>5, <1>6, <1>7 DEF all

\* A group, given its members.
LEMMA GroupRight ==
    ASSUME NEW a \in Attr, a.kind = "group", \A i \in DOMAIN a.members : Right(a.members[i])
    PROVE  Right(a)
<1> DEFINE P == {b \in Attr : Right(b)}
           ms == a.members
           L == [b \in P |-> Leaves[b]]
           all == FlatMap(L, ms)
<1>1. ms \in Seq(P) /\ ms \in Seq(Attr)
  <2>1. ms \in Seq(Attr) /\ \A i \in DOMAIN ms : Right(ms[i])
    BY AttrIs
  <2>2. \A i \in 1 .. Len(ms) : ms[i] \in P
    BY <2>1, LenProperties, ElementOfSeq
  <2> HIDE DEF P
  <2> QED
    BY <2>1, <2>2, LenProperties
<1>3. a.key \in Keys /\ a # NoAttr
  BY AttrIs DEF Keys, NoAttr
<1>4. \A b \in P : L[b] = Leaves[b] /\ Right(b)
  OBVIOUS
<1>5. FlatMap(Leaves, ms) = all
  BY <1>1, <1>4, EachSame DEF FlatMap
<1>6. all \in Seq(Pair)
  <2>1. <<>> \in Keys
    BY DEF Keys
  <2> HIDE DEF P, ms
  <2> QED
    BY <1>1, <1>4, <2>1, ListRight
<1>7. Leaves[a] = Qualify(a.key, all)
  <2>1. Leaves[a] = LeavesOf(Leaves)[a]
    BY LeavesIs, Zenon
  <2>2. Leaves[a] = Qualify(a.key, FlatMap(Leaves, a.members))
    BY <2>1 DEF LeavesOf
  <2> QED
    BY <1>5, <2>2
<1> HIDE DEF P, ms, L, all
<1>8. Leaves[a] \in Seq(Pair)
  BY <1>3, <1>6, <1>7, QualifyMaps DEF Keys
<1> SUFFICES ASSUME NEW g \in Keys
             PROVE  /\ appendColorAttr[a][g] \in Seq(Stored(Keys))
                    /\ FlatMap(WriteStored, appendColorAttr[a][g]) = Qualify(g, Leaves[a])
                    /\ writeColorAttr[a][g] = Qualify(g, Leaves[a])
  BY <1>8 DEF Right
<1> DEFINE h == joinGroup(g, a.key)
           A == [b \in P |-> appendColorAttr[b][h]]
           W == [b \in P |-> writeColorAttr[b][h]]
<1>9. g \in Path /\ h \in Keys /\ h = g \o a.key
  BY <1>3, Paths, ConcatProperties DEF Keys, joinGroup
<1>11. appendColorAttr[a][g] = FlatMap(A, ms)
  <2>1. appendColorAttr[a][g] = AppendOf(appendColorAttr)[a][g]
    BY AppendIs, Zenon
  <2>2. appendColorAttr[a][g] = FlattenSeq([i \in DOMAIN ms |-> appendColorAttr[ms[i]][h]])
    BY <1>3, <1>9, <2>1 DEF AppendOf, ms
  <2>3. \A i \in DOMAIN ms : A[ms[i]] = appendColorAttr[ms[i]][h]
    BY <1>1, LenProperties, ElementOfSeq
  <2>4. Each(A, ms) = [i \in DOMAIN ms |-> appendColorAttr[ms[i]][h]]
    BY <2>3 DEF Each
  <2> QED
    BY <2>2, <2>4 DEF FlatMap
<1>12. writeColorAttr[a][g] = FlatMap(W, ms)
  <2>1. writeColorAttr[a][g] = WriteOf(writeColorAttr)[a][g]
    BY WriteIs, Zenon
  <2>2. writeColorAttr[a][g] = FlattenSeq([i \in DOMAIN ms |-> writeColorAttr[ms[i]][h]])
    BY <1>3, <1>9, <2>1 DEF WriteOf, ms
  <2>3. \A i \in DOMAIN ms : W[ms[i]] = writeColorAttr[ms[i]][h]
    BY <1>1, LenProperties, ElementOfSeq
  <2>4. Each(W, ms) = [i \in DOMAIN ms |-> writeColorAttr[ms[i]][h]]
    BY <2>3 DEF Each
  <2> QED
    BY <2>2, <2>4 DEF FlatMap
<1>13. /\ FlatMap(A, ms) \in Seq(Stored(Keys))
       /\ FlatMap(WriteStored, FlatMap(A, ms)) = Qualify(h, all)
       /\ FlatMap(W, ms) = Qualify(h, all)
  <2>1. \A b \in P : Right(b)
    BY <1>4
  <2> QED
    BY <1>1, <1>9, <2>1, ListRight DEF L, all
<1>14. Qualify(g, Leaves[a]) = Qualify(h, all)
  <2>1. Qualify(g, Qualify(a.key, all)) = Qualify(h, all)
    BY <1>3, <1>6, <1>9, QualifyTwice DEF Keys
  <2> QED
    BY <1>7, <2>1
<1> QED
  BY <1>11, <1>12, <1>13, <1>14

\* All of them, by induction along the nesting.
LEMMA AllRight == \A a \in Attr : Right(a)
<1> DEFINE P == {a \in Attr : Right(a)}
<1>1. ASSUME NEW a \in Attr, \A i \in DOMAIN a.members : a.members[i] \in P PROVE a \in P
  BY <1>1, PlainRight, GroupRight
<1> HIDE DEF P
<1>2. Attr \subseteq P
  BY <1>1, NestInduct
<1> QED
  BY <1>2 DEF P

-----------------------------------------------------------------------------
(* Lists of attributes.                                                    *)

\* What the operators that go through a list do, by what they do to an element.
LEMMA ListsRight ==
    ASSUME NEW attrs \in Seq(Attr), NEW g \in Keys
    PROVE  /\ Under(g, attrs) \in Seq(Pair)
           /\ Concat(LAMBDA a : appendColorAttr[a][g], attrs) \in Seq(Stored(Keys))
           /\ FlatMap(WriteStored, Concat(LAMBDA a : appendColorAttr[a][g], attrs)) = Under(g, attrs)
           /\ Concat(LAMBDA a : writeColorAttr[a][g], attrs) = Under(g, attrs)
<1> DEFINE L == [b \in Attr |-> Leaves[b]]
           A == [b \in Attr |-> appendColorAttr[b][g]]
           W == [b \in Attr |-> writeColorAttr[b][g]]
<1>1. \A i \in DOMAIN attrs : attrs[i] \in Attr
  BY LenProperties, ElementOfSeq
<1>2. Concat(LAMBDA a : Leaves[a], attrs) = FlatMap(L, attrs)
  <2>1. [i \in DOMAIN attrs |-> Leaves[attrs[i]]] = Each(L, attrs)
    BY <1>1 DEF Each
  <2> QED
    BY <2>1 DEF Concat, FlatMap
<1>3. Concat(LAMBDA a : appendColorAttr[a][g], attrs) = FlatMap(A, attrs)
  <2>1. [i \in DOMAIN attrs |-> appendColorAttr[attrs[i]][g]] = Each(A, attrs)
    BY <1>1 DEF Each
  <2> QED
    BY <2>1 DEF Concat, FlatMap
<1>4. Concat(LAMBDA a : writeColorAttr[a][g], attrs) = FlatMap(W, attrs)
  <2>1. [i \in DOMAIN attrs |-> writeColorAttr[attrs[i]][g]] = Each(W, attrs)
    BY <1>1 DEF Each
  <2> QED
    BY <2>1 DEF Concat, FlatMap
<1>5. /\ FlatMap(L, attrs) \in Seq(Pair)
      /\ FlatMap(A, attrs) \in Seq(Stored(Keys))
      /\ FlatMap(WriteStored, FlatMap(A, attrs)) = Qualify(g, FlatMap(L, attrs))
      /\ FlatMap(W, attrs) = Qualify(g, FlatMap(L, attrs))
  <2> HIDE DEF L, A, W
  <2> QED
    BY AllRight, ListRight DEF L, A, W
<1> HIDE DEF L, A, W
<1>6. Under(g, attrs) = Qualify(g, FlatMap(L, attrs))
  BY <1>2 DEF Under
<1>7. Qualify(g, FlatMap(L, attrs)) \in Seq(Pair)
  BY <1>5, QualifyMaps DEF Keys
<1> QED
  BY <1>3, <1>4, <1>5, <1>6, <1>7

\* What Handle writes of a slice's attributes, as a map.
LEMMA StoredWritten ==
    ASSUME NEW s \in Seq(Stored(Keys))
    PROVE  Concat(LAMBDA a : WritePlain(a, <<>>), s) = FlatMap(WriteStored, s)
           /\ FlatMap(WriteStored, s) \in Seq(Pair)
<1>1. \A i \in DOMAIN s : s[i] \in Stored(Keys)
  BY LenProperties, ElementOfSeq
<1>2. [i \in DOMAIN s |-> WritePlain(s[i], <<>>)] = Each(WriteStored, s)
  BY <1>1 DEF Each, WriteStored, Keys
<1>3. Maps(WriteStored, Stored(Keys), Seq(Pair))
  BY WriteStoredMaps DEF Keys
<1> QED
  BY <1>2, <1>3, FlatMapTyped DEF Concat, FlatMap
-----------------------------------------------------------------------------
(* Histories.                                                              *)

\* The calls in a handler's history.
Made == [op : {"attrs"}, attrs : AttrList] \cup [op : {"group"}, name : Name]

GroupOf(c) == IF c.op = "group" THEN <<c.name>> ELSE <<>>

\* The promise, as far as the handler goes.
Given(made) ==
    FlattenSeq([n \in DOMAIN made |->
        IF made[n].op = "attrs" THEN Under(Opened(made, n), made[n].attrs) ELSE <<>>])

LEMMA PromisedIs == ASSUME NEW made, NEW attrs
    PROVE Promised(made, attrs) = Given(made) \o Under(Opened(made, Len(made)), attrs)
  BY DEF Promised, Given

LEMMA GroupTyped == \A c \in Made : GroupOf(c) \in Keys
<1> SUFFICES ASSUME NEW c \in Made PROVE GroupOf(c) \in Keys
  OBVIOUS
<1>1. \A n \in Name : <<n>> \in Seq(Name)
  OBVIOUS
<1>2. <<>> \in Seq(Name)
  OBVIOUS
<1>3. c.op = "group" => c.name \in Name
  BY DEF Made
<1> QED
  BY <1>1, <1>2, <1>3 DEF GroupOf, Keys

\* The groups that were open after n calls are a key.
LEMMA OpenedIs ==
    ASSUME NEW made \in Seq(Made), NEW n \in 0 .. Len(made)
    PROVE  /\ [i \in 1 .. n |-> GroupOf(made[i])] \in Seq(Keys)
           /\ Opened(made, n) = FlattenSeq([i \in 1 .. n |-> GroupOf(made[i])])
           /\ Opened(made, n) \in Keys
<1>1. \A i \in 1 .. n : made[i] \in Made
  BY ElementOfSeq, LenProperties
<1>2. [i \in 1 .. n |-> GroupOf(made[i])] \in Seq(Keys)
  <2>1. \A i \in 1 .. n : GroupOf(made[i]) \in Keys
    BY <1>1, GroupTyped
  <2>2. n \in Nat
    OBVIOUS
  <2> QED
    BY <2>1, <2>2
<1>3. Opened(made, n) = FlattenSeq([i \in 1 .. n |-> GroupOf(made[i])])
  BY DEF Opened, GroupOf
<1> QED
  BY <1>2, <1>3, FlatTyped DEF Keys

\* A further call opens its own group in those open before, and changes no earlier one.
LEMMA OpenedAppend ==
    ASSUME NEW made \in Seq(Made), NEW c \in Made
    PROVE  /\ \A n \in 0 .. Len(made) : Opened(Append(made, c), n) = Opened(made, n)
           /\ Opened(Append(made, c), Len(made) + 1) = Opened(made, Len(made)) \o GroupOf(c)
<1> DEFINE t == Append(made, c)
           k == Len(made)
<1>1. /\ k \in Nat /\ t \in Seq(Made) /\ Len(t) = k + 1 /\ t[k + 1] = c
      /\ \A i \in 1 .. k : t[i] = made[i]
  BY AppendProperties, LenProperties
<1> HIDE DEF t
<1>2. ASSUME NEW n \in 0 .. k PROVE Opened(t, n) = Opened(made, n)
  <2>1. [i \in 1 .. n |-> GroupOf(t[i])] = [i \in 1 .. n |-> GroupOf(made[i])]
    BY <1>1
  <2>2. n \in 0 .. Len(t)
    BY <1>1
  <2>3. Opened(made, n) = FlattenSeq([i \in 1 .. n |-> GroupOf(made[i])])
    BY OpenedIs
  <2>4. Opened(t, n) = FlattenSeq([i \in 1 .. n |-> GroupOf(t[i])])
    BY <1>1, <2>2, OpenedIs
  <2> QED
    BY <2>1, <2>3, <2>4, Zenon
<1> DEFINE s == [i \in 1 .. k |-> GroupOf(made[i])]
           u == [i \in 1 .. k + 1 |-> GroupOf(t[i])]
<1>3. s \in Seq(Keys) /\ Opened(made, k) = FlattenSeq(s)
  BY <1>1, OpenedIs
<1>4. u \in Seq(Keys) /\ Opened(t, k + 1) = FlattenSeq(u)
  BY <1>1, OpenedIs
<1>5. GroupOf(c) \in Keys
  BY GroupTyped
<1>6. u = Append(s, GroupOf(c))
  <2>1. Len(s) = k /\ Len(u) = k + 1
    BY <1>1
  <2>2. Append(s, GroupOf(c)) \in Seq(Keys) /\ Len(Append(s, GroupOf(c))) = k + 1
    BY <1>3, <1>5, <2>1, AppendProperties
  <2>3. \A i \in 1 .. k + 1 : u[i] = Append(s, GroupOf(c))[i]
    BY <1>1, <1>3, <1>5, <2>1, AppendProperties
  <2> HIDE DEF s, u
  <2> QED
    BY <1>4, <2>1, <2>2, <2>3, SeqEqual
<1>7. FlattenSeq(Append(s, GroupOf(c))) = FlattenSeq(s) \o GroupOf(c)
  <2> HIDE DEF s
  <2> QED
    BY <1>3, <1>5, FlatAppend DEF Keys
<1> QED
  BY <1>2, <1>3, <1>4, <1>6, <1>7 DEF t

\* What the nth call adds: its attributes, under the groups open when it was made.
Brings(made, n) == IF made[n].op = "attrs" THEN Under(Opened(made, n), made[n].attrs) ELSE <<>>

LEMMA BringsTyped ==
    ASSUME NEW made \in Seq(Made), NEW n \in 1 .. Len(made)
    PROVE  Brings(made, n) \in Seq(Pair)
<1>1. made[n] \in Made /\ n \in 0 .. Len(made)
  BY ElementOfSeq, LenProperties
<1>2. CASE made[n].op = "attrs"
  <2>1. made[n].attrs \in AttrList
    BY <1>1, <1>2 DEF Made
  <2>2. made[n].attrs \in Seq(Attr)
    BY <2>1, LogAssumption
  <2>3. Opened(made, n) \in Keys
    BY <1>1, OpenedIs
  <2> QED
    BY <1>2, <2>2, <2>3, ListsRight DEF Brings
<1>3. CASE made[n].op # "attrs"
  BY <1>3 DEF Brings
<1> QED
  BY <1>2, <1>3

LEMMA GivenIs ==
    ASSUME NEW made \in Seq(Made)
    PROVE  /\ [n \in 1 .. Len(made) |-> Brings(made, n)] \in Seq(Seq(Pair))
           /\ Given(made) = FlattenSeq([n \in 1 .. Len(made) |-> Brings(made, n)])
           /\ Given(made) \in Seq(Pair)
<1>1. \A n \in 1 .. Len(made) : Brings(made, n) \in Seq(Pair)
  BY BringsTyped
<1>2. [n \in 1 .. Len(made) |-> Brings(made, n)] \in Seq(Seq(Pair))
  BY <1>1
<1>3. DOMAIN made = 1 .. Len(made)
  BY LenProperties
<1>4. Given(made) = FlattenSeq([n \in 1 .. Len(made) |-> Brings(made, n)])
  BY <1>3 DEF Given, Brings
<1> QED
  BY <1>2, <1>4, FlatTyped

\* A further call adds its own attributes at the end and moves no earlier one.
LEMMA GivenAppend ==
    ASSUME NEW made \in Seq(Made), NEW c \in Made
    PROVE  Given(Append(made, c)) = Given(made) \o
             (IF c.op = "attrs" THEN Under(Opened(made, Len(made)), c.attrs) ELSE <<>>)
<1> DEFINE t == Append(made, c)
           k == Len(made)
           e == IF c.op = "attrs" THEN Under(Opened(made, k), c.attrs) ELSE <<>>
<1>1. /\ k \in Nat /\ t \in Seq(Made) /\ Len(t) = k + 1 /\ t[k + 1] = c
      /\ \A i \in 1 .. k : t[i] = made[i]
  BY AppendProperties, LenProperties
<1>2. /\ \A n \in 0 .. k : Opened(t, n) = Opened(made, n)
      /\ Opened(t, k + 1) = Opened(made, k) \o GroupOf(c)
      /\ Opened(made, k) \in Keys
  <2>1. Opened(made, k) \in Keys
    <3>1. k \in 0 .. Len(made)
      BY <1>1
    <3> QED
      BY <3>1, OpenedIs
  <2> QED
    BY <2>1, OpenedAppend
<1> HIDE DEF t
<1>3. Brings(t, k + 1) = e
  <2>1. CASE c.op = "attrs"
    <3>1. GroupOf(c) = <<>>
      BY <2>1 DEF GroupOf
    <3>2. Opened(made, k) \o <<>> = Opened(made, k)
      BY <1>2 DEF Keys
    <3>3. Opened(t, k + 1) = Opened(made, k)
      BY <1>2, <3>1, <3>2
    <3> QED
      BY <1>1, <2>1, <3>3 DEF Brings
  <2>2. CASE c.op # "attrs"
    BY <1>1, <2>2 DEF Brings
  <2> QED
    BY <2>1, <2>2
<1>4. \A n \in 1 .. k : Brings(t, n) = Brings(made, n)
  BY <1>1, <1>2 DEF Brings
<1> DEFINE s == [n \in 1 .. k |-> Brings(made, n)]
           u == [n \in 1 .. k + 1 |-> Brings(t, n)]
<1>5. s \in Seq(Seq(Pair)) /\ Given(made) = FlattenSeq(s)
  BY GivenIs
<1>6. u \in Seq(Seq(Pair)) /\ Given(t) = FlattenSeq(u)
  BY <1>1, GivenIs
<1>7. e \in Seq(Pair)
  <2>1. k + 1 \in 1 .. Len(t)
    BY <1>1
  <2>2. Brings(t, k + 1) \in Seq(Pair)
    BY <1>1, <2>1, BringsTyped
  <2> QED
    BY <1>3, <2>2
<1> HIDE DEF e
<1>8. u = Append(s, e)
  <2>1. Len(s) = k /\ Len(u) = k + 1
    BY <1>1
  <2>2. Append(s, e) \in Seq(Seq(Pair)) /\ Len(Append(s, e)) = k + 1
    BY <1>5, <1>7, <2>1, AppendProperties
  <2>3. \A i \in 1 .. k + 1 : u[i] = Append(s, e)[i]
    BY <1>1, <1>3, <1>4, <1>5, <1>7, <2>1, AppendProperties
  <2> HIDE DEF s, u
  <2> QED
    BY <1>6, <2>1, <2>2, <2>3, SeqEqual
<1>9. FlattenSeq(Append(s, e)) = FlattenSeq(s) \o e
  <2> HIDE DEF s
  <2> QED
    BY <1>5, <1>7, FlatAppend
<1> QED
  BY <1>5, <1>6, <1>8, <1>9 DEF t, e

\* The first handler has no history.
LEMMA NothingMade == Opened(<<>>, 0) = <<>> /\ Given(<<>>) = <<>>
<1>1. [i \in 1 .. 0 |-> GroupOf(<<>>[i])] = <<>> /\ [n \in DOMAIN <<>> |-> Brings(<<>>, n)] = <<>>
  OBVIOUS
<1>2. Opened(<<>>, 0) = FlattenSeq([i \in 1 .. 0 |-> GroupOf(<<>>[i])])
  BY DEF Opened, GroupOf
<1>3. Given(<<>>) = FlattenSeq([n \in DOMAIN <<>> |-> Brings(<<>>, n)])
  BY DEF Given, Brings
<1> QED
  BY <1>1, <1>2, <1>3, FlatEmpty, Zenon

-----------------------------------------------------------------------------
(* The inductive invariant.                                                *)

\* Whoever is between Lock and Unlock.
Holds(g) == calls[g].pc \in {"write", "rest", "unlock", "failed"}

\* Handlers share the first one's mutex, and so do the calls made through them.
OneMutex ==
    /\ IsSeq(handlers)
    /\ \A i \in DOMAIN handlers : "mu" \in DOMAIN handlers[i] /\ handlers[i].mu = 1
    /\ \A g \in Goroutine : calls[g].pc # "idle" => calls[g].mu = 1

\* One goroutine holds it at a time.
Exclusive ==
    \A g \in Goroutine : Holds(g) =>
        1 \in locked /\ \A h \in Goroutine : Holds(h) => h = g

\* A call has a line of its own.
OwnLine ==
    /\ IsSeq(logged)
    /\ DOMAIN calls = Goroutine
    /\ \A g \in Goroutine :
         /\ DOMAIN calls[g] = {"pc", "mu", "line", "text"}
         /\ calls[g].pc \in {"idle", "lock", "write", "rest", "unlock", "failed"}
         /\ calls[g].pc = "idle" => calls[g].line = 0
         /\ calls[g].pc # "idle" => calls[g].line \in 1 .. Len(logged)
         /\ \A h \in Goroutine : calls[g].line = calls[h].line /\ calls[g].pc # "idle" => h = g

\* How much of each line has been written.
Written ==
    /\ IsSeq(out)
    /\ \A i \in DOMAIN out : out[i].line \in 1 .. Len(logged)
    /\ \A g \in Goroutine :
         /\ calls[g].pc \in {"lock", "write"} =>
              \A i \in DOMAIN out : out[i].line # calls[g].line
         /\ calls[g].pc = "rest" =>
              /\ Len(out) \in DOMAIN out
              /\ out[Len(out)].line = calls[g].line /\ out[Len(out)].part = "front"
              /\ \A i \in DOMAIN out : i < Len(out) => out[i].line # calls[g].line

LogInv == OneMutex /\ Exclusive /\ OwnLine /\ Written /\ WholeLines

-----------------------------------------------------------------------------
(* Invariance.                                                             *)

LEMMA LogInit == Init => LogInv
<1> SUFFICES ASSUME Init PROVE LogInv
  OBVIOUS
<1>1. IsSeq(logged) /\ IsSeq(out) /\ DOMAIN out = {}
  <2>1. <<>> \in Seq({}) /\ DOMAIN <<>> = {}
    OBVIOUS
  <2>2. IsSeq(<<>>)
    BY <2>1, IsSeqOf
  <2> QED
    BY <2>1, <2>2 DEF Init
<1>2. IsSeq(handlers) /\ DOMAIN handlers = {1}
      /\ "mu" \in DOMAIN handlers[1] /\ handlers[1].mu = 1
  <2>1. PICK h : handlers = <<h>> /\ "mu" \in DOMAIN h /\ h.mu = 1
    BY DEF Init
  <2>2. handlers \in Seq({h})
    BY <2>1
  <2>3. DOMAIN <<h>> = {1} /\ <<h>>[1] = h
    OBVIOUS
  <2>4. IsSeq(handlers)
    BY <2>2, IsSeqOf
  <2> QED
    BY <2>1, <2>3, <2>4
<1>3. \A g \in Goroutine : calls[g] = Idle
  BY DEF Init
<1> QED
  BY <1>1, <1>2, <1>3 DEF Init, Idle, LogInv, OneMutex, Exclusive, Holds, OwnLine, Written,
     WholeLines

\* Deriving a handler hands on the parent's mutex.
LEMMA DeriveStep ==
    ASSUME LogInv, NEW i \in DOMAIN handlers, NEW attrs, NEW name,
           WithAttrs(handlers[i], attrs) \/ WithGroup(handlers[i], name)
    PROVE  LogInv'
<1>1. UNCHANGED <<locked, calls, logged, out>>
  BY DEF WithAttrs, WithGroup, Derive
<1>2. PICK nh : "mu" \in DOMAIN nh /\ nh.mu = 1 /\ handlers' = Append(handlers, nh)
  <2>1. "mu" \in DOMAIN handlers[i] /\ handlers[i].mu = 1
    BY DEF LogInv, OneMutex
  <2>2. CASE WithAttrs(handlers[i], attrs)
    <3>1. PICK a, m : Derive([handlers[i] EXCEPT !.attrs = a, !.made = m])
      BY <2>2 DEF WithAttrs
    <3> QED
      BY <2>1, <3>1 DEF Derive
  <2>3. CASE WithGroup(handlers[i], name)
    <3>1. PICK q, m : Derive([handlers[i] EXCEPT !.group = q, !.made = m])
      BY <2>3 DEF WithGroup
    <3> QED
      BY <2>1, <3>1 DEF Derive
  <2> QED
    BY <2>2, <2>3
<1>3. OneMutex'
  <2>1. /\ IsSeq(handlers') /\ DOMAIN handlers = 1 .. Len(handlers)
        /\ DOMAIN handlers' = 1 .. Len(handlers) + 1 /\ Len(handlers) \in Nat
        /\ \A j \in 1 .. Len(handlers) : handlers'[j] = handlers[j]
        /\ handlers'[Len(handlers) + 1] = nh
    BY <1>2, Appended DEF LogInv, OneMutex
  <2>2. \A j \in DOMAIN handlers' : "mu" \in DOMAIN handlers'[j] /\ handlers'[j].mu = 1
    BY <1>2, <2>1 DEF LogInv, OneMutex
  <2> QED
    BY <1>1, <2>1, <2>2 DEF LogInv, OneMutex
<1> QED
  BY <1>1, <1>3 DEF LogInv, Exclusive, Holds, OwnLine, Written, WholeLines

LEMMA HandleStep ==
    ASSUME LogInv, NEW g \in Goroutine, NEW i \in DOMAIN handlers, NEW r,
           Handle(g, handlers[i], r)
    PROVE  LogInv'
<1>1. /\ UNCHANGED <<heap, handlers, locked, out>>
      /\ calls[g].pc = "idle"
      /\ calls' = [calls EXCEPT ![g] = [pc |-> "lock", mu |-> handlers[i].mu,
                     line |-> Len(logged) + 1, text |-> Render(handlers[i], r)]]
  BY DEF Handle, Idle
<1>2. IsSeq(logged') /\ Len(logged') = Len(logged) + 1 /\ Len(logged) \in Nat
  BY Appended DEF Handle, LogInv, OwnLine
<1>3. /\ \A h \in Goroutine : h # g => calls'[h] = calls[h]
      /\ calls'[g].pc = "lock" /\ calls'[g].mu = 1 /\ calls'[g].line = Len(logged) + 1
      /\ DOMAIN calls'[g] = {"pc", "mu", "line", "text"} /\ DOMAIN calls' = Goroutine
  BY <1>1 DEF LogInv, OneMutex, OwnLine
<1>4. OneMutex' /\ Exclusive'
  BY <1>1, <1>3 DEF LogInv, OneMutex, Exclusive, Holds
<1>5. OwnLine'
  BY <1>2, <1>3 DEF LogInv, OwnLine
<1>6. Written'
  BY <1>1, <1>2, <1>3 DEF LogInv, Written
<1>7. WholeLines'
  BY <1>1, <1>2, <1>3 DEF LogInv, Written, WholeLines
<1> QED
  BY <1>4, <1>5, <1>6, <1>7 DEF LogInv

\* What a step within a call changes of the calls.
Steps(g, pc) == calls' = [calls EXCEPT ![g].pc = pc]

LEMMA StepsCalls ==
    ASSUME LogInv, NEW g \in Goroutine, NEW pc \in {"write", "rest", "unlock", "failed"}, Steps(g, pc),
           calls[g].pc # "idle", UNCHANGED <<handlers, logged>>
    PROVE  /\ \A h \in Goroutine : h # g => calls'[h] = calls[h]
           /\ calls'[g].pc = pc /\ calls'[g].line = calls[g].line
           /\ OneMutex' /\ OwnLine'
<1>1. /\ \A h \in Goroutine : h # g => calls'[h] = calls[h]
      /\ calls'[g].pc = pc /\ calls'[g].line = calls[g].line /\ calls'[g].mu = calls[g].mu
      /\ DOMAIN calls'[g] = {"pc", "mu", "line", "text"} /\ DOMAIN calls' = Goroutine
  BY DEF LogInv, OwnLine, Steps
<1>2. OneMutex'
  BY <1>1 DEF LogInv, OneMutex
<1>3. OwnLine'
  BY <1>1 DEF LogInv, OwnLine
<1> QED
  BY <1>1, <1>2, <1>3

LEMMA LockStep ==
    ASSUME LogInv, NEW g \in Goroutine, Lock(g)
    PROVE  LogInv'
<1>1. Steps(g, "write") /\ calls[g].pc = "lock" /\ UNCHANGED <<handlers, logged, out>>
  BY DEF Lock, Steps
<1>2. /\ \A h \in Goroutine : h # g => calls'[h] = calls[h]
      /\ calls'[g].pc = "write" /\ calls'[g].line = calls[g].line
      /\ OneMutex' /\ OwnLine'
  BY <1>1, StepsCalls
<1>3. 1 \notin locked /\ 1 \in locked'
  BY <1>1 DEF Lock, LogInv, OneMutex
<1>4. Exclusive'
  BY <1>2, <1>3 DEF LogInv, Exclusive, Holds
<1>5. Written' /\ WholeLines'
  BY <1>1, <1>2 DEF LogInv, Written, WholeLines
<1> QED
  BY <1>2, <1>4, <1>5 DEF LogInv

LEMMA WriteFrontStep ==
    ASSUME LogInv, NEW g \in Goroutine, WriteFront(g)
    PROVE  LogInv'
<1>1. /\ Steps(g, "rest") /\ calls[g].pc = "write" /\ UNCHANGED <<handlers, locked, logged>>
      /\ out' = Append(out, Piece(g, "front"))
  BY DEF WriteFront, Steps
<1>2. /\ \A h \in Goroutine : h # g => calls'[h] = calls[h]
      /\ calls'[g].pc = "rest" /\ calls'[g].line = calls[g].line
      /\ OneMutex' /\ OwnLine'
  BY <1>1, StepsCalls
<1>3. Exclusive'
  BY <1>1, <1>2 DEF LogInv, Exclusive, Holds
<1>4. /\ Len(out) \in Nat /\ DOMAIN out = 1 .. Len(out)
      /\ IsSeq(out') /\ Len(out') = Len(out) + 1 /\ DOMAIN out' = 1 .. Len(out) + 1
      /\ \A i \in 1 .. Len(out) : out'[i] = out[i]
      /\ out'[Len(out) + 1].line = calls[g].line /\ out'[Len(out) + 1].part = "front"
  BY <1>1, Appended DEF LogInv, Written, Piece
<1>5. \A h \in Goroutine : h # g => calls[h].pc \notin {"write", "rest", "unlock", "failed"}
  BY <1>1 DEF LogInv, Exclusive, Holds
<1>6. Written'
  BY <1>1, <1>2, <1>4, <1>5 DEF LogInv, Written, OwnLine
<1>7. WholeLines'
  <2> SUFFICES ASSUME NEW i \in 1 .. Len(out) + 1
      PROVE  /\ out'[i].part = "rest" =>
                  i > 1 /\ out'[i - 1].line = out'[i].line /\ out'[i - 1].part = "front"
             /\ out'[i].part = "front" /\ i < Len(out') => \A h \in Goroutine :
                  calls'[h].line = out'[i].line => calls'[h].pc \in {"unlock", "failed"}
    BY <1>4 DEF WholeLines
  <2>1. CASE i = Len(out) + 1
    BY <1>4, <2>1
  <2>2. CASE i \in 1 .. Len(out)
    <3>1. out'[i].part = "rest" =>
            i > 1 /\ out'[i - 1].line = out'[i].line /\ out'[i - 1].part = "front"
      <4>1. out[i].part = "rest" =>
              i > 1 /\ out[i - 1].line = out[i].line /\ out[i - 1].part = "front"
        BY <1>4, <2>2 DEF LogInv, WholeLines
      <4>2. i > 1 => i - 1 \in 1 .. Len(out)
        BY <1>4, <2>2
      <4> QED
        BY <1>4, <2>2, <4>1, <4>2
    <3>2. ASSUME out'[i].part = "front", NEW h \in Goroutine, calls'[h].line = out'[i].line
          PROVE  calls'[h].pc \in {"unlock", "failed"}
      <4>1. out[i].line = calls[h].line /\ out[i].line \in 1 .. Len(logged)
        BY <1>2, <1>4, <2>2, <3>2 DEF LogInv, Written
      <4>2. calls[h].pc # "idle" /\ calls[h].pc \notin {"lock", "write"}
        BY <1>4, <2>2, <4>1 DEF LogInv, Written, OwnLine
      <4>3. h # g
        BY <1>1, <4>2
      <4> QED
        BY <1>5, <4>2, <4>3 DEF LogInv, OwnLine
    <3> QED
      BY <3>1, <3>2
  <2> QED
    BY <1>4, <2>1, <2>2
<1> QED
  BY <1>2, <1>3, <1>6, <1>7 DEF LogInv

LEMMA WriteRestStep ==
    ASSUME LogInv, NEW g \in Goroutine, WriteRest(g)
    PROVE  LogInv'
<1>1. /\ Steps(g, "unlock") /\ calls[g].pc = "rest" /\ UNCHANGED <<handlers, locked, logged>>
      /\ out' = Append(out, Piece(g, "rest"))
  BY DEF WriteRest, Steps
<1>2. /\ \A h \in Goroutine : h # g => calls'[h] = calls[h]
      /\ calls'[g].pc = "unlock" /\ calls'[g].line = calls[g].line
      /\ OneMutex' /\ OwnLine'
  BY <1>1, StepsCalls
<1>3. Exclusive'
  BY <1>1, <1>2 DEF LogInv, Exclusive, Holds
<1>4. /\ Len(out) \in Nat /\ DOMAIN out = 1 .. Len(out)
      /\ IsSeq(out') /\ Len(out') = Len(out) + 1 /\ DOMAIN out' = 1 .. Len(out) + 1
      /\ \A i \in 1 .. Len(out) : out'[i] = out[i]
      /\ out'[Len(out) + 1].line = calls[g].line /\ out'[Len(out) + 1].part = "rest"
  BY <1>1, Appended DEF LogInv, Written, Piece
<1>5. \A h \in Goroutine : h # g => calls[h].pc \notin {"write", "rest", "unlock", "failed"}
  BY <1>1 DEF LogInv, Exclusive, Holds
<1>6. Written'
  BY <1>1, <1>2, <1>4, <1>5, SMTT(20) DEF LogInv, Written, OwnLine
<1>7. WholeLines'
  <2> SUFFICES ASSUME NEW i \in 1 .. Len(out) + 1
      PROVE  /\ out'[i].part = "rest" =>
                  i > 1 /\ out'[i - 1].line = out'[i].line /\ out'[i - 1].part = "front"
             /\ out'[i].part = "front" /\ i < Len(out') => \A h \in Goroutine :
                  calls'[h].line = out'[i].line => calls'[h].pc \in {"unlock", "failed"}
    BY <1>4 DEF WholeLines
  <2>1. CASE i = Len(out) + 1
    <3>1. Len(out) \in 1 .. Len(out)
      BY <1>1, <1>4 DEF LogInv, Written
    <3>2. i > 1 /\ i - 1 = Len(out)
      BY <1>4, <2>1, <3>1
    <3> QED
      BY <1>1, <1>4, <2>1, <3>1, <3>2 DEF LogInv, Written
  <2>2. CASE i \in 1 .. Len(out)
    <3>1. out'[i].part = "rest" =>
            i > 1 /\ out'[i - 1].line = out'[i].line /\ out'[i - 1].part = "front"
      <4>1. out[i].part = "rest" =>
              i > 1 /\ out[i - 1].line = out[i].line /\ out[i - 1].part = "front"
        BY <1>4, <2>2 DEF LogInv, WholeLines
      <4>2. i > 1 => i - 1 \in 1 .. Len(out)
        BY <1>4, <2>2
      <4> QED
        BY <1>4, <2>2, <4>1, <4>2
    <3>2. ASSUME NEW h \in Goroutine, calls'[h].line = out'[i].line
          PROVE  calls'[h].pc \in {"unlock", "failed"}
      <4>1. CASE h = g
        BY <1>2, <4>1
      <4>2. CASE h # g
        <5>1. out[i].line = calls[h].line /\ out[i].line \in 1 .. Len(logged)
          BY <1>2, <1>4, <2>2, <3>2, <4>2 DEF LogInv, Written
        <5>2. calls[h].pc # "idle" /\ calls[h].pc \notin {"lock", "write"}
          BY <1>4, <2>2, <5>1 DEF LogInv, Written, OwnLine
        <5> QED
          BY <1>5, <4>2, <5>2 DEF LogInv, OwnLine
      <4> QED
        BY <4>1, <4>2
    <3> QED
      BY <3>1, <3>2
  <2> QED
    BY <1>4, <2>1, <2>2
<1> QED
  BY <1>2, <1>3, <1>6, <1>7 DEF LogInv

LEMMA WriteFailsStep ==
    ASSUME LogInv, NEW g \in Goroutine, WriteFails(g)
    PROVE  LogInv'
<1>1. /\ Steps(g, "failed") /\ calls[g].pc \in {"write", "rest"}
      /\ UNCHANGED <<handlers, locked, logged, out>>
  BY DEF WriteFails, Steps
<1>2. /\ \A h \in Goroutine : h # g => calls'[h] = calls[h]
      /\ calls'[g].pc = "failed" /\ calls'[g].line = calls[g].line
      /\ OneMutex' /\ OwnLine'
  BY <1>1, StepsCalls
<1>3. Exclusive'
  BY <1>1, <1>2 DEF LogInv, Exclusive, Holds
<1>4. Written' /\ WholeLines'
  BY <1>1, <1>2 DEF LogInv, Written, WholeLines
<1> QED
  BY <1>2, <1>3, <1>4 DEF LogInv

LEMMA UnlockStep ==
    ASSUME LogInv, NEW g \in Goroutine, Unlock(g)
    PROVE  LogInv'
<1>1. /\ calls[g].pc \in {"unlock", "failed"} /\ UNCHANGED <<handlers, logged, out>>
      /\ calls' = [calls EXCEPT ![g] = Idle] /\ locked' = locked \ {calls[g].mu}
  BY DEF Unlock
<1>2. /\ \A h \in Goroutine : h # g => calls'[h] = calls[h]
      /\ calls'[g].pc = "idle" /\ calls'[g].line = 0
      /\ DOMAIN calls'[g] = {"pc", "mu", "line", "text"} /\ DOMAIN calls' = Goroutine
  BY <1>1 DEF LogInv, OwnLine, Idle
<1>3. OneMutex' /\ OwnLine'
  BY <1>1, <1>2 DEF LogInv, OneMutex, OwnLine
<1>4. Exclusive'
  BY <1>1, <1>2 DEF LogInv, Exclusive, Holds
<1>5. Written'
  BY <1>1, <1>2 DEF LogInv, Written
<1>6. \A i \in DOMAIN out : out[i].line # 0
  BY DEF LogInv, Written
<1>7. WholeLines'
  BY <1>1, <1>2, <1>6 DEF LogInv, WholeLines
<1> QED
  BY <1>3, <1>4, <1>5, <1>7 DEF LogInv

LEMMA LogStep == LogInv /\ [Next]_vars => LogInv'
<1> SUFFICES ASSUME LogInv, [Next]_vars PROVE LogInv'
  OBVIOUS
<1>1. CASE UNCHANGED vars
  BY <1>1 DEF vars, LogInv, OneMutex, Exclusive, Holds, OwnLine, Written, WholeLines
<1>2. ASSUME NEW i \in DOMAIN handlers, NEW attrs, WithAttrs(handlers[i], attrs) PROVE LogInv'
  BY <1>2, DeriveStep
<1>3. ASSUME NEW i \in DOMAIN handlers, NEW name, WithGroup(handlers[i], name) PROVE LogInv'
  BY <1>3, DeriveStep
<1>4. ASSUME NEW i \in DOMAIN handlers, NEW g \in Goroutine, NEW r, Handle(g, handlers[i], r)
      PROVE  LogInv'
  BY <1>4, HandleStep
<1>5. ASSUME NEW g \in Goroutine,
             Lock(g) \/ WriteFront(g) \/ WriteRest(g) \/ WriteFails(g) \/ Unlock(g)
      PROVE  LogInv'
  BY <1>5, LockStep, WriteFrontStep, WriteRestStep, WriteFailsStep, UnlockStep
<1> QED
  BY <1>1, <1>2, <1>3, <1>4, <1>5 DEF Next

THEOREM LogInvariance == Spec => []LogInv
  BY LogInit, LogStep, PTL DEF Spec

\* However many goroutines log through however many handlers, and whichever writes
\* fail, no line is torn by another.
THEOREM WholeLinesHolds == Spec => []WholeLines
<1>1. LogInv => WholeLines
  BY DEF LogInv
<1> QED
  BY <1>1, LogInvariance, PTL

-----------------------------------------------------------------------------
(* Every handler's slice is what its history gives.                        *)

\* A handler is a record with the four fields.
IsHandler(h) == h = [attrs |-> h.attrs, group |-> h.group, mu |-> h.mu, made |-> h.made]

\* A handler, by its history: the group it is in, and the array it alone filled.
Faithful(hp, h) ==
    /\ IsHandler(h)
    /\ h.attrs.array \in DOMAIN hp
    /\ h.attrs.len = Len(hp[h.attrs.array])
    /\ h.made \in Seq(Made)
    /\ h.group = Opened(h.made, Len(h.made))
    /\ FlatMap(WriteStored, hp[h.attrs.array]) = Given(h.made)

Slices ==
    /\ heap \in Seq(Seq(Stored(Keys)))
    /\ \A i \in DOMAIN handlers : Faithful(heap, handlers[i])

\* The slice of a handler is the whole array, and renders to what its history gives.
LEMMA SliceIs ==
    ASSUME heap \in Seq(Seq(Stored(Keys))), NEW h, Faithful(heap, h)
    PROVE  /\ Slice(h) = heap[h.attrs.array] /\ Slice(h) \in Seq(Stored(Keys))
           /\ h.group \in Keys /\ Given(h.made) \in Seq(Pair)
           /\ FlatMap(WriteStored, Slice(h)) = Given(h.made)
<1> DEFINE s == heap[h.attrs.array]
<1>1. s \in Seq(Stored(Keys))
  <2>1. DOMAIN heap = 1 .. Len(heap)
    BY LenProperties
  <2>2. h.attrs.array \in 1 .. Len(heap)
    BY <2>1 DEF Faithful
  <2> QED
    BY <2>2, ElementOfSeq
<1>2. Slice(h) = SubSeq(s, 1, Len(s))
  BY DEF Slice, Faithful
<1>3. FlatMap(WriteStored, s) = Given(h.made)
  BY DEF Faithful
<1> HIDE DEF s
<1>4. Slice(h) = s
  BY <1>1, <1>2, SubSeqFull
<1>5. Given(h.made) \in Seq(Pair)
  BY GivenIs DEF Faithful
<1>6. h.group \in Keys
  <2> DEFINE made == h.made
  <2>1. made \in Seq(Made) /\ h.group = Opened(made, Len(made))
    BY DEF Faithful
  <2> HIDE DEF made
  <2>2. Len(made) \in 0 .. Len(made)
    BY <2>1, LenProperties
  <2> QED
    BY <2>1, <2>2, OpenedIs
<1> QED
  BY <1>1, <1>3, <1>4, <1>5, <1>6 DEF s

\* What a record is rendered to, the tag aside.
LEMMA RenderIs ==
    ASSUME heap \in Seq(Seq(Stored(Keys))), NEW h, Faithful(heap, h), NEW r, r.attrs \in AttrList
    PROVE  Tail(Render(h, r)) = Promised(h.made, r.attrs)
<1> DEFINE x == Concat(LAMBDA a : WritePlain(a, <<>>), Slice(h))
           y == Concat(LAMBDA a : writeColorAttr[a][h.group], r.attrs)
           tag == levelTag(r.level)
<1>1. x = Given(h.made) /\ x \in Seq(Pair)
  BY SliceIs, StoredWritten
<1>2. y = Under(h.group, r.attrs) /\ y \in Seq(Pair)
  <2>1. r.attrs \in Seq(Attr)
    BY LogAssumption
  <2>2. h.group \in Keys
    BY SliceIs
  <2> QED
    BY <2>1, <2>2, ListsRight
<1>3. Render(h, r) = (<<tag>> \o x) \o y
  BY DEF Render
<1>4. Promised(h.made, r.attrs) = Given(h.made) \o Under(h.group, r.attrs)
  BY PromisedIs DEF Faithful
<1> HIDE DEF x, y, tag
<1>5. Tail((<<tag>> \o x) \o y) = x \o y
  <2> DEFINE T == Pair \cup {tag}
  <2>1. x \in Seq(T) /\ y \in Seq(T) /\ <<tag>> \in Seq(T)
    BY <1>1, <1>2, SeqMonotonic
  <2> HIDE DEF T
  <2>2. (<<tag>> \o x) \o y = <<tag>> \o (x \o y)
    BY <2>1, ConcatAssociative
  <2>3. x \o y \in Seq(T) /\ tag \in T
    BY <2>1, ConcatProperties DEF T
  <2>4. \A z \in Seq(T) : Tail(<<tag>> \o z) = z
    BY <2>3
  <2> QED
    BY <2>2, <2>3, <2>4
<1> QED
  BY <1>1, <1>2, <1>3, <1>4, <1>5

LEMMA SlicesInit == Init => Slices
<1> SUFFICES ASSUME Init PROVE Slices
  OBVIOUS
<1> DEFINE h == [attrs |-> [array |-> 1, len |-> 0], group |-> <<>>, mu |-> 1, made |-> <<>>]
<1>1. heap = <<<<>>>> /\ handlers = <<h>>
  BY DEF Init
<1>2. heap \in Seq(Seq(Stored(Keys))) /\ DOMAIN heap = {1} /\ heap[1] = <<>> /\ Len(heap[1]) = 0
  BY <1>1
<1>3. FlatMap(WriteStored, <<>>) = <<>> /\ Given(<<>>) = <<>> /\ Opened(<<>>, 0) = <<>>
  BY NothingMade, FlatMapEmpty, Zenon
<1>4. <<>> \in Seq(Made) /\ Len(<<>>) = 0
  OBVIOUS
<1>5. Faithful(heap, h)
  BY <1>2, <1>3, <1>4 DEF Faithful, IsHandler
<1> HIDE DEF h
<1>6. \A i \in DOMAIN handlers : handlers[i] = h
  BY <1>1
<1> QED
  BY <1>2, <1>5, <1>6 DEF Slices

\* A new handler beside the others, over a heap that has what it had.
LEMMA SlicesDerived ==
    ASSUME Slices, IsSeq(handlers), NEW nh, handlers' = Append(handlers, nh), Faithful(heap', nh),
           heap' \in Seq(Seq(Stored(Keys))),
           \A i \in DOMAIN heap : i \in DOMAIN heap' /\ heap'[i] = heap[i]
    PROVE  Slices'
<1>1. /\ DOMAIN handlers = 1 .. Len(handlers) /\ Len(handlers) \in Nat
      /\ DOMAIN handlers' = 1 .. Len(handlers) + 1
      /\ \A j \in 1 .. Len(handlers) : handlers'[j] = handlers[j]
      /\ handlers'[Len(handlers) + 1] = nh
  BY Appended
<1>2. ASSUME NEW h, Faithful(heap, h) PROVE Faithful(heap', h)
  BY <1>2 DEF Faithful
<1>3. ASSUME NEW j \in DOMAIN handlers' PROVE Faithful(heap', handlers'[j])
  <2>1. CASE j = Len(handlers) + 1
    BY <1>1, <2>1
  <2>2. CASE j \in 1 .. Len(handlers)
    <3>1. Faithful(heap, handlers[j])
      BY <1>1, <2>2 DEF Slices
    <3>2. Faithful(heap', handlers[j])
      BY <1>2, <3>1
    <3> QED
      BY <1>1, <2>2, <3>2
  <2> QED
    BY <1>1, <1>3, <2>1, <2>2
<1> QED
  BY <1>3 DEF Slices

\* What Derive makes of a handler, field by field.
LEMMA Redone ==
    ASSUME NEW h, IsHandler(h), NEW x, NEW made
    PROVE  /\ [h EXCEPT !.attrs = x, !.made = made]
                = [attrs |-> x, group |-> h.group, mu |-> h.mu, made |-> made]
           /\ [h EXCEPT !.group = x, !.made = made]
                = [attrs |-> h.attrs, group |-> x, mu |-> h.mu, made |-> made]
<1> DEFINE F == {"attrs", "group", "mu", "made"}
           p == [h EXCEPT !.attrs = x, !.made = made]
           q == [h EXCEPT !.group = x, !.made = made]
<1>1. DOMAIN h = F
  <2>1. PICK a, g, m, d : h = [attrs |-> a, group |-> g, mu |-> m, made |-> d]
    BY DEF IsHandler
  <2> QED
    BY <2>1
<1>2. DOMAIN p = F /\ p = [f \in F |-> p[f]]
  BY <1>1
<1>3. DOMAIN q = F /\ q = [f \in F |-> q[f]]
  BY <1>1
<1>4. p.attrs = x /\ p.made = made /\ p.group = h.group /\ p.mu = h.mu
  BY <1>1
<1>5. q.group = x /\ q.made = made /\ q.attrs = h.attrs /\ q.mu = h.mu
  BY <1>1
<1> HIDE DEF p, q
<1>6. p = [attrs |-> x, group |-> h.group, mu |-> h.mu, made |-> made]
  BY <1>2, <1>4
<1>7. q = [attrs |-> h.attrs, group |-> x, mu |-> h.mu, made |-> made]
  BY <1>3, <1>5
<1> QED
  BY <1>6, <1>7 DEF p, q

\* WithAttrs qualifies by the group in effect and fills a fresh array.
LEMMA WithAttrsSlices ==
    ASSUME Slices, IsSeq(handlers), NEW i \in DOMAIN handlers, NEW attrs \in AttrList,
           WithAttrs(handlers[i], attrs)
    PROVE  Slices'
<1> DEFINE h == handlers[i]
           given == Concat(LAMBDA a : appendColorAttr[a][h.group], attrs)
           new == Slice(h) \o given
           c == [op |-> "attrs", attrs |-> attrs]
           nh == [h EXCEPT !.attrs = [array |-> Len(heap) + 1, len |-> Len(new)],
                           !.made = Append(@, c)]
<1>1. Faithful(heap, h) /\ heap \in Seq(Seq(Stored(Keys)))
  BY DEF Slices
<1>2. heap' = Append(heap, new) /\ handlers' = Append(handlers, nh)
  BY DEF WithAttrs, Derive
<1> HIDE DEF h
<1>3. /\ Slice(h) \in Seq(Stored(Keys)) /\ h.group \in Keys /\ Given(h.made) \in Seq(Pair)
      /\ FlatMap(WriteStored, Slice(h)) = Given(h.made)
  BY <1>1, SliceIs
<1>4. /\ h.made \in Seq(Made) /\ h.group = Opened(h.made, Len(h.made))
      /\ IsHandler(h)
  BY <1>1 DEF Faithful
<1>5. given \in Seq(Stored(Keys)) /\ FlatMap(WriteStored, given) = Under(h.group, attrs)
  <2>1. attrs \in Seq(Attr)
    BY LogAssumption
  <2> QED
    BY <1>3, <2>1, ListsRight
<1> HIDE DEF given
<1>6. new \in Seq(Stored(Keys))
  BY <1>3, <1>5, ConcatProperties
<1>7. FlatMap(WriteStored, new) = Given(h.made) \o Under(h.group, attrs)
  <2>1. Maps(WriteStored, Stored(Keys), Seq(Pair))
    BY WriteStoredMaps DEF Keys
  <2> DEFINE s == Slice(h)
  <2>2. s \in Seq(Stored(Keys)) /\ given \in Seq(Stored(Keys))
    BY <1>3, <1>5
  <2> HIDE DEF s
  <2>3. FlatMap(WriteStored, s \o given) = FlatMap(WriteStored, s) \o FlatMap(WriteStored, given)
    BY <2>1, <2>2, FlatMapConcat
  <2> QED
    BY <1>3, <1>5, <2>3 DEF s
<1>8. c \in Made /\ c.op = "attrs" /\ c.attrs = attrs /\ GroupOf(c) = <<>>
  BY DEF Made, GroupOf
<1> DEFINE made == h.made
           more == Append(made, c)
<1>9. made \in Seq(Made) /\ h.group = Opened(made, Len(made)) /\ h.group \in Seq(Name)
  BY <1>3, <1>4 DEF Keys
<1> HIDE DEF c, made
<1>10. /\ more \in Seq(Made) /\ Len(more) = Len(made) + 1
       /\ Given(more) = Given(made) \o Under(h.group, attrs)
       /\ Opened(more, Len(made) + 1) = h.group
  <2>1. more \in Seq(Made) /\ Len(more) = Len(made) + 1
    BY <1>8, <1>9, AppendProperties
  <2>2. Given(more) = Given(made) \o Under(h.group, attrs)
    BY <1>8, <1>9, GivenAppend
  <2>3. Opened(more, Len(made) + 1) = h.group \o <<>>
    BY <1>8, <1>9, OpenedAppend
  <2>4. h.group \o <<>> = h.group
    BY <1>9
  <2> QED
    BY <2>1, <2>2, <2>3, <2>4
<1> HIDE DEF new
<1>11. /\ Len(heap) \in Nat /\ DOMAIN heap = 1 .. Len(heap)
       /\ heap' \in Seq(Seq(Stored(Keys))) /\ DOMAIN heap' = 1 .. Len(heap) + 1
       /\ heap'[Len(heap) + 1] = new /\ \A j \in 1 .. Len(heap) : heap'[j] = heap[j]
  BY <1>1, <1>2, <1>6, AppendProperties, LenProperties
<1>12. nh = [attrs |-> [array |-> Len(heap) + 1, len |-> Len(new)],
             group |-> h.group, mu |-> h.mu, made |-> more]
  <2> DEFINE at == [array |-> Len(heap) + 1, len |-> Len(new)]
  <2>1. nh = [h EXCEPT !.attrs = at, !.made = more]
    BY DEF made
  <2> HIDE DEF at, nh, more
  <2>2. nh = [attrs |-> at, group |-> h.group, mu |-> h.mu, made |-> more]
    BY <1>4, <2>1, Redone, ZenonT(20)
  <2> QED
    BY <2>2 DEF at
<1> HIDE DEF nh, more
<1>13. Faithful(heap', nh)
  <2>1. nh.attrs.array = Len(heap) + 1 /\ nh.attrs.len = Len(new) /\ nh.group = h.group /\ nh.made = more
        /\ nh.mu = h.mu
    BY <1>12
  <2>2. IsHandler(nh)
    BY <1>12 DEF IsHandler
  <2>3. heap'[nh.attrs.array] = new /\ nh.attrs.array \in DOMAIN heap'
    BY <1>11, <2>1
  <2>4. FlatMap(WriteStored, new) = Given(more) /\ Opened(more, Len(more)) = h.group
    BY <1>7, <1>10 DEF made
  <2> QED
    BY <1>10, <2>1, <2>2, <2>3, <2>4 DEF Faithful
<1> QED
  BY <1>2, <1>11, <1>13, SlicesDerived

\* WithGroup shares the array, which nobody writes to again.
LEMMA WithGroupSlices ==
    ASSUME Slices, IsSeq(handlers), NEW i \in DOMAIN handlers, NEW name \in Name,
           WithGroup(handlers[i], name)
    PROVE  Slices'
<1> DEFINE h == handlers[i]
           c == [op |-> "group", name |-> name]
           nh == [h EXCEPT !.group = joinGroup(@, <<name>>), !.made = Append(@, c)]
<1>1. Faithful(heap, h) /\ heap \in Seq(Seq(Stored(Keys)))
  BY DEF Slices
<1>2. heap' = heap /\ handlers' = Append(handlers, nh)
  BY DEF WithGroup, Derive
<1> HIDE DEF h
<1>3. Given(h.made) \in Seq(Pair) /\ h.group \in Keys
  BY <1>1, SliceIs
<1>4. /\ h.made \in Seq(Made) /\ h.group = Opened(h.made, Len(h.made))
      /\ IsHandler(h)
      /\ h.attrs.array \in DOMAIN heap /\ h.attrs.len = Len(heap[h.attrs.array])
      /\ FlatMap(WriteStored, heap[h.attrs.array]) = Given(h.made)
  BY <1>1 DEF Faithful
<1>5. c \in Made /\ c.op # "attrs" /\ GroupOf(c) = <<name>>
  BY DEF Made, GroupOf
<1> DEFINE made == h.made
           more == Append(made, c)
<1>6. made \in Seq(Made) /\ h.group = Opened(made, Len(made)) /\ Given(made) \in Seq(Pair)
  BY <1>3, <1>4
<1> HIDE DEF c, made
<1>7. /\ more \in Seq(Made) /\ Len(more) = Len(made) + 1
      /\ Given(more) = Given(made)
      /\ Opened(more, Len(made) + 1) = h.group \o <<name>>
  <2>1. more \in Seq(Made) /\ Len(more) = Len(made) + 1
    BY <1>5, <1>6, AppendProperties
  <2>2. Given(more) = Given(made) \o <<>>
    BY <1>5, <1>6, GivenAppend
  <2>3. Given(made) \o <<>> = Given(made)
    BY <1>6
  <2>4. Opened(more, Len(made) + 1) = h.group \o <<name>>
    BY <1>5, <1>6, OpenedAppend
  <2> QED
    BY <2>1, <2>2, <2>3, <2>4
<1>8. nh = [attrs |-> h.attrs, group |-> h.group \o <<name>>, mu |-> h.mu, made |-> more]
  <2> DEFINE q == h.group \o <<name>>
  <2>1. nh = [h EXCEPT !.group = q, !.made = more]
    BY DEF joinGroup, made
  <2> HIDE DEF q, nh, more
  <2>2. nh = [attrs |-> h.attrs, group |-> q, mu |-> h.mu, made |-> more]
    BY <1>4, <2>1, Redone, ZenonT(20)
  <2> QED
    BY <2>2 DEF q
<1> HIDE DEF nh, more
<1>9. Faithful(heap', nh)
  <2>1. /\ nh.attrs.array = h.attrs.array /\ nh.attrs.len = h.attrs.len
        /\ nh.group = h.group \o <<name>> /\ nh.made = more /\ nh.mu = h.mu
    BY <1>8
  <2>2. IsHandler(nh)
    BY <1>8 DEF IsHandler
  <2>3. FlatMap(WriteStored, heap[h.attrs.array]) = Given(more)
        /\ Opened(more, Len(more)) = h.group \o <<name>>
    BY <1>4, <1>7 DEF made
  <2> QED
    BY <1>2, <1>4, <1>7, <2>1, <2>2, <2>3 DEF Faithful
<1> QED
  BY <1>1, <1>2, <1>9, SlicesDerived

-----------------------------------------------------------------------------
(* The second inductive invariant.                                         *)

\* The text is that of the line.
Kept(lines, line, text) ==
    Tail(text) = Promised(lines[line].made, lines[line].record.attrs)

\* The line a call carries, and the pieces that are out, are rendered right.
Texts ==
    /\ \A g \in Goroutine : calls[g].pc # "idle" => Kept(logged, calls[g].line, calls[g].text)
    /\ \A i \in DOMAIN out : Kept(logged, out[i].line, out[i].text)

\* Calls are records; there is one mutex and a bounded number of lines.
IsCall(c) == c = [pc |-> c.pc, mu |-> c.mu, line |-> c.line, text |-> c.text]

Calls ==
    /\ calls = [g \in Goroutine |-> calls[g]]
    /\ \A g \in Goroutine :
         /\ IsCall(calls[g])
         /\ calls[g].pc = "idle" => calls[g].mu = 0
    /\ locked \subseteq {1}
    /\ Len(logged) <= MaxLines

\* No piece of a line goes out twice.
Pieces ==
    /\ \A i \in DOMAIN out : out[i].part \in {"front", "rest"}
    /\ \A i, j \in DOMAIN out : out[i].line = out[j].line /\ out[i].part = out[j].part => i = j

RenderInv == LogInv /\ Slices /\ Texts /\ Calls /\ Pieces

LEMMA RenderInit == Init => RenderInv
<1> SUFFICES ASSUME Init PROVE RenderInv
  OBVIOUS
<1>1. LogInv /\ Slices
  BY LogInit, SlicesInit
<1>2. DOMAIN out = {} /\ Len(logged) = 0
  <2>1. out = <<>> /\ logged = <<>>
    BY DEF Init
  <2>2. DOMAIN <<>> = {} /\ Len(<<>>) = 0
    OBVIOUS
  <2> QED
    BY <2>1, <2>2
<1>3. calls = [g \in Goroutine |-> calls[g]] /\ \A g \in Goroutine : calls[g] = Idle
  BY DEF Init
<1>4. IsCall(Idle) /\ Idle.pc = "idle" /\ Idle.mu = 0
  BY DEF Idle, IsCall
<1>5. Calls
  BY <1>2, <1>3, <1>4, LogAssumption DEF Init, Calls
<1>6. Texts /\ Pieces
  BY <1>2, <1>3, <1>4 DEF Texts, Pieces
<1> QED
  BY <1>1, <1>5, <1>6 DEF RenderInv

\* A record that is logged later leaves the earlier lines theirs.
LEMMA KeptOn ==
    ASSUME IsSeq(logged), NEW e, logged' = Append(logged, e), NEW n \in 1 .. Len(logged), NEW text,
           Kept(logged, n, text)
    PROVE  Kept(logged', n, text)
<1>1. logged'[n] = logged[n]
  BY Appended
<1> QED
  BY <1>1 DEF Kept

\* Handle renders its line by the handler's history and the record.
LEMMA HandleRender ==
    ASSUME RenderInv, NEW g \in Goroutine, NEW i \in DOMAIN handlers, NEW attrs \in AttrList,
           NEW level \in Level, Handle(g, handlers[i], [level |-> level, attrs |-> attrs])
    PROVE  RenderInv'
<1> DEFINE r == [level |-> level, attrs |-> attrs]
           e == [made |-> handlers[i].made, record |-> r]
           n == Len(logged) + 1
           text == Render(handlers[i], r)
           c == [pc |-> "lock", mu |-> handlers[i].mu, line |-> n, text |-> text]
<1>1. LogInv'
  BY HandleStep DEF RenderInv
<1>2. /\ UNCHANGED <<heap, handlers, locked, out>> /\ Len(logged) < MaxLines
      /\ logged' = Append(logged, e) /\ calls' = [calls EXCEPT ![g] = c]
  BY DEF Handle
<1>3. Slices'
  BY <1>2 DEF Slices, RenderInv
<1>4. Tail(text) = Promised(handlers[i].made, attrs)
  <2>1. heap \in Seq(Seq(Stored(Keys))) /\ Faithful(heap, handlers[i])
    BY DEF RenderInv, Slices
  <2>2. r.attrs = attrs
    OBVIOUS
  <2> HIDE DEF r
  <2>3. r.attrs \in AttrList
    BY <2>2
  <2> QED
    BY <2>1, <2>2, <2>3, RenderIs
<1>5. e.made = handlers[i].made /\ e.record.attrs = attrs
  OBVIOUS
<1>6. c.pc = "lock" /\ c.line = n /\ c.text = text /\ IsCall(c)
  BY DEF IsCall
<1> HIDE DEF e, c, text, r
<1>7. IsSeq(logged) /\ IsSeq(out) /\ calls = [h \in Goroutine |-> calls[h]]
  BY DEF RenderInv, LogInv, OwnLine, Written, Calls
<1>8. Len(logged) \in Nat /\ logged'[n] = e /\ Len(logged') = n
  BY <1>2, <1>7, Appended
<1>9. /\ calls' = [h \in Goroutine |-> calls'[h]] /\ calls'[g] = c
      /\ \A h \in Goroutine : h # g => calls'[h] = calls[h]
  BY <1>2, <1>7
<1>10. Kept(logged', n, text)
  BY <1>4, <1>5, <1>8 DEF Kept
<1>11. Texts'
  <2>1. ASSUME NEW h \in Goroutine, calls'[h].pc # "idle"
        PROVE  Kept(logged', calls'[h].line, calls'[h].text)
    <3>1. CASE h = g
      BY <1>6, <1>9, <1>10, <3>1
    <3>2. CASE h # g
      <4>1. calls[h].line \in 1 .. Len(logged) /\ Kept(logged, calls[h].line, calls[h].text)
        BY <1>9, <2>1, <3>2 DEF RenderInv, LogInv, OwnLine, Texts
      <4> QED
        BY <1>2, <1>7, <1>9, <3>2, <4>1, KeptOn
    <3> QED
      BY <3>1, <3>2
  <2>2. ASSUME NEW j \in DOMAIN out'
        PROVE  Kept(logged', out'[j].line, out'[j].text)
    <3>1. out[j].line \in 1 .. Len(logged) /\ Kept(logged, out[j].line, out[j].text)
      BY <1>2, <2>2 DEF RenderInv, LogInv, Written, Texts
    <3> QED
      BY <1>2, <1>7, <3>1, KeptOn
  <2> QED
    BY <2>1, <2>2 DEF Texts
<1>12. Calls'
  BY <1>2, <1>6, <1>8, <1>9, LogAssumption DEF RenderInv, Calls
<1>13. Pieces'
  BY <1>2 DEF RenderInv, Pieces
<1> QED
  BY <1>1, <1>3, <1>11, <1>12, <1>13 DEF RenderInv

\* WithAttrs and WithGroup add a faithful handler and touch nothing that is logged.
LEMMA DeriveRender ==
    ASSUME RenderInv, NEW i \in DOMAIN handlers, NEW attrs, NEW name,
           \/ attrs \in AttrList /\ WithAttrs(handlers[i], attrs)
           \/ name \in Name /\ WithGroup(handlers[i], name)
    PROVE  RenderInv'
<1>1. LogInv'
  BY DeriveStep DEF RenderInv
<1>2. Slices'
  BY WithAttrsSlices, WithGroupSlices DEF RenderInv, LogInv, OneMutex
<1>3. UNCHANGED <<locked, calls, logged, out>>
  BY DEF WithAttrs, WithGroup, Derive
<1>4. Texts' /\ Calls' /\ Pieces'
  BY <1>3 DEF RenderInv, Texts, Calls, Pieces
<1> QED
  BY <1>1, <1>2, <1>4 DEF RenderInv

\* A step within a call leaves its line and text alone.
LEMMA StepsRender ==
    ASSUME RenderInv, NEW g \in Goroutine, NEW pc \in {"write", "rest", "unlock", "failed"}, Steps(g, pc),
           calls[g].pc # "idle", UNCHANGED <<heap, handlers, logged>>, locked' \subseteq {1}
    PROVE  /\ Slices' /\ Calls'
           /\ \A h \in Goroutine : calls'[h].pc # "idle" => Kept(logged', calls'[h].line, calls'[h].text)
<1>1. Slices'
  BY DEF RenderInv, Slices
<1>2. /\ calls' = [h \in Goroutine |-> calls'[h]] /\ calls'[g] = [calls[g] EXCEPT !.pc = pc]
      /\ \A h \in Goroutine : h # g => calls'[h] = calls[h]
  BY DEF RenderInv, Calls, Steps
<1>3. /\ IsCall(calls'[g]) /\ calls'[g].pc = pc
      /\ calls'[g].line = calls[g].line /\ calls'[g].text = calls[g].text
  <2> DEFINE c == calls[g]
  <2>1. IsCall(c)
    BY DEF RenderInv, Calls
  <2> HIDE DEF c
  <2>2. PICK p, m, l, t : c = [pc |-> p, mu |-> m, line |-> l, text |-> t]
    BY <2>1 DEF IsCall
  <2>3. /\ [c EXCEPT !.pc = pc] = [pc |-> pc, mu |-> m, line |-> l, text |-> t]
        /\ c.line = l /\ c.text = t
    BY <2>2
  <2> QED
    BY <1>2, <2>3 DEF IsCall, c
<1>4. Calls'
  BY <1>2, <1>3 DEF RenderInv, Calls
<1>5. ASSUME NEW h \in Goroutine, calls'[h].pc # "idle"
      PROVE  Kept(logged', calls'[h].line, calls'[h].text)
  <2>1. calls[h].pc # "idle" /\ calls'[h].line = calls[h].line /\ calls'[h].text = calls[h].text
    BY <1>2, <1>3, <1>5
  <2> QED
    BY <2>1 DEF RenderInv, Texts
<1> QED
  BY <1>1, <1>4, <1>5

\* Each half of the write puts out a piece that was not out before.
LEMMA WriteRender ==
    ASSUME RenderInv, NEW g \in Goroutine, WriteFront(g) \/ WriteRest(g)
    PROVE  RenderInv'
<1>1. LogInv'
  BY WriteFrontStep, WriteRestStep DEF RenderInv
<1>2. PICK pc \in {"rest", "unlock"}, part \in {"front", "rest"} :
        /\ Steps(g, pc) /\ out' = Append(out, Piece(g, part))
        /\ part = "front" => calls[g].pc = "write"
        /\ part = "rest" => calls[g].pc = "rest"
  BY DEF WriteFront, WriteRest, Steps
<1>3. calls[g].pc \in {"write", "rest"} /\ UNCHANGED <<heap, handlers, locked, logged>>
  BY DEF WriteFront, WriteRest
<1>4. /\ Slices' /\ Calls'
      /\ \A h \in Goroutine : calls'[h].pc # "idle" => Kept(logged', calls'[h].line, calls'[h].text)
  BY <1>2, <1>3, StepsRender DEF RenderInv, Calls
<1> DEFINE p == Piece(g, part)
           n == Len(out) + 1
<1>5. p.line = calls[g].line /\ p.part = part /\ p.text = calls[g].text
  BY DEF Piece
<1> HIDE DEF p
<1>6. /\ Len(out) \in Nat /\ DOMAIN out = 1 .. Len(out) /\ DOMAIN out' = 1 .. n
      /\ \A j \in 1 .. Len(out) : out'[j] = out[j]
      /\ out'[n] = p
  BY <1>2, Appended DEF RenderInv, LogInv, Written, p
<1>7. Kept(logged, p.line, p.text)
  BY <1>3, <1>5 DEF RenderInv, Texts
<1>8. \A j \in DOMAIN out' : Kept(logged', out'[j].line, out'[j].text)
  <2> TAKE j \in DOMAIN out'
  <2>1. CASE j = n
    BY <1>3, <1>6, <1>7, <2>1
  <2>2. CASE j \in 1 .. Len(out)
    <3>1. Kept(logged, out[j].line, out[j].text)
      BY <1>6, <2>2 DEF RenderInv, Texts
    <3> QED
      BY <1>3, <1>6, <2>2, <3>1
  <2> QED
    BY <1>6, <2>1, <2>2
<1>9. \A j \in 1 .. Len(out) : out[j].line # p.line \/ out[j].part # p.part
  <2> TAKE j \in 1 .. Len(out)
  <2>1. CASE part = "front"
    BY <1>2, <1>5, <1>6, <2>1 DEF RenderInv, LogInv, Written
  <2>2. CASE part = "rest"
    <3>1. calls[g].pc = "rest"
      BY <1>2, <2>2
    <3>2. out[Len(out)].part = "front" /\ (j < Len(out) => out[j].line # calls[g].line)
      BY <1>6, <3>1 DEF RenderInv, LogInv, Written
    <3>3. j < Len(out) \/ j = Len(out)
      BY <1>6
    <3> QED
      BY <1>5, <2>2, <3>2, <3>3
  <2> QED
    BY <2>1, <2>2
<1>10. Pieces'
  <2>1. \A j \in DOMAIN out' : out'[j].part \in {"front", "rest"}
    BY <1>5, <1>6 DEF RenderInv, Pieces
  <2>2. ASSUME NEW j \in DOMAIN out', NEW k \in DOMAIN out',
               out'[j].line = out'[k].line, out'[j].part = out'[k].part
        PROVE  j = k
    <3>1. CASE j \in 1 .. Len(out) /\ k \in 1 .. Len(out)
      BY <1>6, <2>2, <3>1 DEF RenderInv, Pieces
    <3>2. CASE j = n \/ k = n
      BY <1>6, <1>9, <2>2, <3>2
    <3> QED
      BY <1>6, <3>1, <3>2
  <2> QED
    BY <2>1, <2>2 DEF Pieces
<1> QED
  BY <1>1, <1>4, <1>8, <1>10 DEF RenderInv, Texts

LEMMA LockRender ==
    ASSUME RenderInv, NEW g \in Goroutine, Lock(g) \/ WriteFails(g)
    PROVE  RenderInv'
<1>1. LogInv'
  BY LockStep, WriteFailsStep DEF RenderInv
<1>2. PICK pc \in {"write", "failed"} : Steps(g, pc)
  BY DEF Lock, WriteFails, Steps
<1>3. calls[g].pc # "idle" /\ UNCHANGED <<heap, handlers, logged, out>>
  BY DEF Lock, WriteFails
<1>4. locked' \subseteq {1}
  BY <1>3 DEF Lock, WriteFails, RenderInv, Calls, LogInv, OneMutex
<1>5. /\ Slices' /\ Calls'
      /\ \A h \in Goroutine : calls'[h].pc # "idle" => Kept(logged', calls'[h].line, calls'[h].text)
  BY <1>2, <1>3, <1>4, StepsRender
<1>6. Texts' /\ Pieces'
  BY <1>3, <1>5 DEF RenderInv, Texts, Pieces
<1> QED
  BY <1>1, <1>5, <1>6 DEF RenderInv

LEMMA UnlockRender ==
    ASSUME RenderInv, NEW g \in Goroutine, Unlock(g)
    PROVE  RenderInv'
<1>1. LogInv'
  BY UnlockStep DEF RenderInv
<1>2. /\ UNCHANGED <<heap, handlers, logged, out>> /\ locked' \subseteq locked
      /\ calls' = [calls EXCEPT ![g] = Idle]
  BY DEF Unlock
<1>3. /\ calls' = [h \in Goroutine |-> calls'[h]] /\ calls'[g] = Idle
      /\ \A h \in Goroutine : h # g => calls'[h] = calls[h]
  BY <1>2 DEF RenderInv, Calls
<1>4. IsCall(Idle) /\ Idle.pc = "idle" /\ Idle.mu = 0
  BY DEF Idle, IsCall
<1>5. Slices' /\ Pieces'
  BY <1>2 DEF RenderInv, Slices, Pieces
<1>6. Calls'
  BY <1>2, <1>3, <1>4 DEF RenderInv, Calls
<1>7. Texts'
  BY <1>2, <1>3, <1>4 DEF RenderInv, Texts
<1> QED
  BY <1>1, <1>5, <1>6, <1>7 DEF RenderInv

LEMMA RenderStep == RenderInv /\ [Next]_vars => RenderInv'
<1> SUFFICES ASSUME RenderInv, [Next]_vars PROVE RenderInv'
  OBVIOUS
<1>1. CASE UNCHANGED vars
  <2>1. LogInv'
    BY <1>1, LogStep DEF RenderInv
  <2>2. UNCHANGED <<heap, handlers, locked, calls, logged, out>>
    BY <1>1 DEF vars
  <2> QED
    BY <2>1, <2>2 DEF RenderInv, Slices, Texts, Calls, Pieces
<1>2. ASSUME NEW i \in DOMAIN handlers, NEW attrs \in AttrList, WithAttrs(handlers[i], attrs)
      PROVE  RenderInv'
  BY <1>2, DeriveRender
<1>3. ASSUME NEW i \in DOMAIN handlers, NEW name \in Name, WithGroup(handlers[i], name)
      PROVE  RenderInv'
  BY <1>3, DeriveRender
<1>4. ASSUME NEW i \in DOMAIN handlers, NEW g \in Goroutine, NEW attrs \in AttrList,
             NEW level \in Level, Handle(g, handlers[i], [level |-> level, attrs |-> attrs])
      PROVE  RenderInv'
  BY <1>4, HandleRender
<1>5. ASSUME NEW g \in Goroutine,
             Lock(g) \/ WriteFront(g) \/ WriteRest(g) \/ WriteFails(g) \/ Unlock(g)
      PROVE  RenderInv'
  BY <1>5, LockRender, WriteRender, UnlockRender
<1> QED
  BY <1>1, <1>2, <1>3, <1>4, <1>5 DEF Next

\* The array of a slice is filled once and never written again, so what a handler
\* stores stays what its history of WithAttrs and WithGroup calls gives.
THEOREM RenderInvariance == Spec => []RenderInv
  BY RenderInit, RenderStep, PTL DEF Spec

\* A line that reaches the writer has the attributes of its handler's WithAttrs
\* calls, each under the groups opened before that call, then those of its record,
\* however deep they nest and whatever was derived from the handler meanwhile.
THEOREM LinesFaithfulHolds == Spec => []LinesFaithful
<1>1. RenderInv => LinesFaithful
  BY DEF RenderInv, Texts, Kept, LinesFaithful
<1> QED
  BY <1>1, RenderInvariance, PTL

\* Each line goes out in two pieces at most.
LEMMA OutBounded ==
    ASSUME RenderInv
    PROVE  Len(out) <= 2 * MaxLines
<1>1. /\ Len(out) \in Nat /\ DOMAIN out = 1 .. Len(out) /\ MaxLines \in Nat
      /\ Len(logged) \in Nat /\ Len(logged) <= MaxLines
  BY Appended, LogAssumption DEF RenderInv, LogInv, OwnLine, Written, Calls
<1> DEFINE place(i) == 2 * out[i].line - (IF out[i].part = "front" THEN 1 ELSE 0)
           S == 1 .. Len(out)
           T == 1 .. 2 * MaxLines
           f == [i \in S |-> place(i)]
<1>2. ASSUME NEW i \in S PROVE out[i].line \in 1 .. Len(logged) /\ out[i].part \in {"front", "rest"}
  BY <1>1 DEF RenderInv, LogInv, Written, Pieces
<1>3. ASSUME NEW i \in S PROVE place(i) \in T
  BY <1>1, <1>2
<1>4. ASSUME NEW i \in S, NEW j \in S, place(i) = place(j) PROVE i = j
  <2>1. out[i].line = out[j].line /\ (out[i].part = "front" <=> out[j].part = "front")
    BY <1>1, <1>2, <1>4, SMTT(20)
  <2>2. out[i].part = out[j].part
    BY <1>2, <2>1
  <2> QED
    BY <1>1, <2>1, <2>2 DEF RenderInv, Pieces
<1> HIDE DEF place
<1>5. f \in [S -> T] /\ \A i, j \in S : f[i] = f[j] => i = j
  BY <1>3, <1>4
<1>6. /\ IsFiniteSet(S) /\ Cardinality(S) = Len(out)
      /\ IsFiniteSet(T) /\ Cardinality(T) = 2 * MaxLines
  <2> DEFINE n == Len(out)
             m == 2 * MaxLines
  <2>1. 1 \in Int /\ n \in Nat /\ m \in Nat
    BY <1>1
  <2> HIDE DEF n, m
  <2>2. /\ IsFiniteSet(1 .. n) /\ Cardinality(1 .. n) = IF 1 > n THEN 0 ELSE n - 1 + 1
        /\ IsFiniteSet(1 .. m) /\ Cardinality(1 .. m) = IF 1 > m THEN 0 ELSE m - 1 + 1
    BY <2>1, FS_Interval
  <2>3. Cardinality(1 .. n) = n /\ Cardinality(1 .. m) = m
    BY <2>1, <2>2
  <2> QED
    BY <2>2, <2>3 DEF n, m
<1> HIDE DEF S, T, f
<1>7. ~ Cardinality(T) < Cardinality(S)
  BY <1>5, <1>6, FS_PigeonHole
<1> QED
  BY <1>1, <1>6, <1>7

\* No key on the heap has an empty name in it.
LEMMA HeapKeys ==
    ASSUME heap \in Seq(Seq(Stored(Keys))), NEW i \in DOMAIN heap, NEW j \in DOMAIN heap[i]
    PROVE  heap[i][j].key \in Keys
<1> DEFINE s == heap[i]
<1>1. s \in Seq(Stored(Keys))
  <2>1. i \in 1 .. Len(heap)
    BY LenProperties
  <2> QED
    BY <2>1, ElementOfSeq
<1>2. s[j] \in Stored(Keys)
  <2> HIDE DEF s
  <2>1. j \in 1 .. Len(s)
    BY <1>1, LenProperties DEF s
  <2> QED
    BY <1>1, <2>1, ElementOfSeq
<1> QED
  BY <1>2 DEF Stored

\* A slice is within its array, keys and groups have no leading or trailing dot,
\* and a record is written in two pieces at most, whatever fails.
THEOREM TypeCorrect == Spec => []TypeOK
<1>1. ASSUME RenderInv PROVE TypeOK
  <2>1. heap \in Seq(Seq(Stored(Keys))) /\ \A i \in DOMAIN handlers : Faithful(heap, handlers[i])
    BY <1>1 DEF RenderInv, Slices
  <2>2. ASSUME NEW i \in DOMAIN handlers
        PROVE  /\ handlers[i].attrs.array \in DOMAIN heap
               /\ handlers[i].attrs.len \in 0 .. Len(heap[handlers[i].attrs.array])
               /\ handlers[i].group \in Seq(Name)
    <3> DEFINE h == handlers[i]
    <3>1. Faithful(heap, h)
      BY <2>1
    <3> HIDE DEF h
    <3>2. h.group \in Keys /\ Slice(h) = heap[h.attrs.array] /\ Slice(h) \in Seq(Stored(Keys))
      BY <2>1, <3>1, SliceIs
    <3>3. Len(heap[h.attrs.array]) \in Nat
      BY <3>2, LenProperties
    <3>4. h.attrs.array \in DOMAIN heap /\ h.attrs.len = Len(heap[h.attrs.array])
      BY <3>1 DEF Faithful
    <3> QED
      BY <3>2, <3>3, <3>4 DEF Keys, h
  <2>3. \A i \in DOMAIN heap : \A j \in DOMAIN heap[i] : heap[i][j].key \in Seq(Name)
    BY <2>1, HeapKeys DEF Keys
  <2> DEFINE C == [pc : {"idle", "lock", "write", "rest", "unlock", "failed"},
                   mu : 0 .. MaxHandlers, line : 0 .. Len(logged),
                   text : {calls[g].text : g \in Goroutine}]
  <2>4. Len(logged) \in Nat /\ MaxHandlers \in Nat \ {0}
    BY <1>1, Appended, LogAssumption DEF RenderInv, LogInv, OwnLine
  <2>5. calls = [g \in Goroutine |-> calls[g]]
    BY <1>1 DEF RenderInv, Calls
  <2>6. ASSUME NEW g \in Goroutine PROVE calls[g] \in C
    <3>1. IsCall(calls[g])
      BY <1>1 DEF RenderInv, Calls
    <3>2. /\ calls[g].pc \in {"idle", "lock", "write", "rest", "unlock", "failed"}
          /\ calls[g].mu \in 0 .. MaxHandlers /\ calls[g].line \in 0 .. Len(logged)
      BY <1>1, <2>4 DEF RenderInv, Calls, LogInv, OneMutex, OwnLine
    <3>3. calls[g].text \in {calls[h].text : h \in Goroutine}
      OBVIOUS
    <3> QED
      BY <3>1, <3>2, <3>3 DEF IsCall
  <2>7. calls \in [Goroutine -> C]
    <3> HIDE DEF C
    <3> QED
      BY <2>5, <2>6
  <2>8. locked \subseteq 1 .. MaxHandlers /\ Len(logged) <= MaxLines
    BY <1>1, <2>4 DEF RenderInv, Calls
  <2>9. Len(out) <= 2 * MaxLines
    BY <1>1, OutBounded
  <2> QED
    BY <2>2, <2>3, <2>7, <2>8, <2>9 DEF TypeOK
<1> QED
  BY <1>1, RenderInvariance, PTL

-----------------------------------------------------------------------------
(* The mutex is never left behind.                                         *)

\* Whoever waits for the mutex waits for somebody: it is locked only while a call
\* is between Lock and Unlock.
Owned == (\A g \in Goroutine : calls[g].pc \in {"idle", "lock"}) => locked = {}

LEMMA OwnedStep == RenderInv /\ Owned /\ [Next]_vars => Owned'
<1> SUFFICES ASSUME RenderInv, Owned, [Next]_vars,
                    \A g \in Goroutine : calls'[g].pc \in {"idle", "lock"}
             PROVE  locked' = {}
  BY DEF Owned
<1>1. CASE UNCHANGED vars
  BY <1>1 DEF vars, Owned
<1>2. ASSUME UNCHANGED <<locked, calls>> PROVE locked' = {}
  BY <1>2 DEF Owned
<1>3. ASSUME NEW i \in DOMAIN handlers, NEW g \in Goroutine, NEW r, Handle(g, handlers[i], r)
      PROVE  locked' = {}
  <2>1. /\ calls[g].pc = "idle" /\ locked' = locked
        /\ \A h \in Goroutine : h # g => calls'[h] = calls[h]
    BY <1>3 DEF Handle, Idle, RenderInv, Calls
  <2> QED
    BY <2>1 DEF Owned
<1>4. ASSUME NEW g \in Goroutine, NEW pc \in {"write", "rest", "unlock", "failed"}, Steps(g, pc)
      PROVE  FALSE
  <2>1. calls'[g].pc = pc
    BY <1>4 DEF Steps, RenderInv, LogInv, OwnLine
  <2> QED
    BY <2>1
<1>5. ASSUME NEW g \in Goroutine, Unlock(g) PROVE locked' = {}
  <2>1. calls[g].mu = 1 /\ locked \subseteq {1} /\ locked' = locked \ {calls[g].mu}
    BY <1>5 DEF Unlock, RenderInv, Calls, LogInv, OneMutex
  <2> QED
    BY <2>1
<1>6. ASSUME NEW i \in DOMAIN handlers, NEW x, WithAttrs(handlers[i], x) \/ WithGroup(handlers[i], x)
      PROVE  locked' = {}
  BY <1>2, <1>6 DEF WithAttrs, WithGroup, Derive
<1>7. ASSUME NEW g \in Goroutine, Lock(g) \/ WriteFront(g) \/ WriteRest(g) \/ WriteFails(g)
      PROVE  FALSE
  BY <1>4, <1>7 DEF Lock, WriteFront, WriteRest, WriteFails, Steps
<1> QED
  BY <1>1, <1>3, <1>5, <1>6, <1>7 DEF Next

\* Handle's deferred Unlock: no call waits for a mutex that a failed write, or
\* anything else, has left locked.
THEOREM MutexReleased == Spec => []Owned
<1>1. Init => Owned
  BY DEF Init, Owned
<1> QED
  BY <1>1, OwnedStep, RenderInvariance, PTL DEF Spec

=============================================================================
