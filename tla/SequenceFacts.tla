---------------------------- MODULE SequenceFacts ----------------------------
(* Lemmas on the operators that the lists of the kernel are modelled with,   *)
(* and the induction that those on recursive functions rest on.              *)
EXTENDS SequencesExt, Integers, SequenceTheorems, FiniteSetTheorems,
        WellFoundedInduction, TLAPS

\* A set of numbers that is not empty has a least one.
LEMMA WellOrdering ==
    ASSUME NEW T \in SUBSET Nat, T # {}
    PROVE  \E m \in T : \A n \in T : m <= n
<1> DEFINE R == {ss \in Nat \X Nat : ss[1] < ss[2]}
<1>1. IsWellFoundedOn(R, Nat)
  <2>1. R = OpToRel(<, Nat)
    BY DEF OpToRel
  <2> QED BY <2>1, NatLessThanWellFounded
<1>2. PICK x \in T : \A y \in T : ~ (<<y, x>> \in R)
  <2> HIDE DEF R
  <2> QED BY <1>1, WFMin
<1>3. ASSUME NEW n \in T PROVE ~ (n < x)
  <2>1. n \in Nat /\ x \in Nat
    OBVIOUS
  <2>2. n < x => <<n, x>> \in R
    BY <2>1
  <2> HIDE DEF R
  <2> QED BY <1>2, <2>2
<1> HIDE DEF R
<1>4. \A n \in T : n \in Nat /\ x \in Nat
  OBVIOUS
<1> QED BY <1>3, <1>4

\* Induction over Nat, with the numbers that satisfy a property as a set.
LEMMA Induction ==
    ASSUME NEW T, 0 \in T, \A n \in Nat : n \in T => n + 1 \in T
    PROVE  \A n \in Nat : n \in T
<1> SUFFICES ASSUME NEW k \in Nat, k \notin T PROVE FALSE
  OBVIOUS
<1>1. PICK m \in Nat \ T : \A n \in Nat \ T : m <= n
  BY WellOrdering
<1> QED BY <1>1

\* Min of such a set is that one.
LEMMA MinInSet ==
    ASSUME NEW I \in SUBSET Nat, I # {}
    PROVE  Min(I) \in I /\ \A n \in I : Min(I) <= n
BY WellOrdering DEF Min
-----------------------------------------------------------------------------
\* No element twice.
Distinct(s) == \A i, j \in DOMAIN s : s[i] = s[j] => i = j

\* The elements of a sequence.
LEMMA ToSetType ==
    ASSUME NEW S, NEW s \in Seq(S)
    PROVE  /\ ToSet(s) \subseteq S
           /\ \A e : e \in ToSet(s) <=> \E i \in 1 .. Len(s) : s[i] = e
           /\ ToSet(s) = {} <=> s = <<>>
BY DEF ToSet

\* The empty list has no elements and none twice.
LEMMA EmptyList == ToSet(<<>>) = {} /\ Distinct(<<>>)
BY DEF ToSet, Distinct

\* The elements of the concatenation, and when none of them comes twice.
LEMMA ConcatList ==
    ASSUME NEW S, NEW s \in Seq(S), NEW t \in Seq(S)
    PROVE  /\ s \o t \in Seq(S)
           /\ ToSet(s \o t) = ToSet(s) \cup ToSet(t)
           /\ Distinct(s \o t) <=>
                 Distinct(s) /\ Distinct(t) /\ ToSet(s) \cap ToSet(t) = {}
<1> DEFINE u == s \o t
<1>1. /\ u \in Seq(S)
      /\ DOMAIN u = 1 .. Len(s) + Len(t)
      /\ \A i \in 1 .. Len(s) : i \in DOMAIN u /\ u[i] = s[i]
      /\ \A i \in 1 .. Len(t) : Len(s) + i \in DOMAIN u /\ u[Len(s) + i] = t[i]
  OBVIOUS
<1>2. DOMAIN s = 1 .. Len(s) /\ DOMAIN t = 1 .. Len(t) /\ Len(s) \in Nat /\ Len(t) \in Nat
  OBVIOUS
<1>3. \A i \in DOMAIN u : \/ i \in 1 .. Len(s)
                          \/ \E j \in 1 .. Len(t) : i = Len(s) + j
  <2> SUFFICES ASSUME NEW i \in 1 .. Len(s) + Len(t), ~ (i \in 1 .. Len(s))
               PROVE  \E j \in 1 .. Len(t) : i = Len(s) + j
    BY <1>1
  <2>1. i - Len(s) \in 1 .. Len(t) /\ i = Len(s) + (i - Len(s))
    BY <1>2
  <2> QED BY <2>1
<1> HIDE DEF u
<1>4. ToSet(u) = ToSet(s) \cup ToSet(t)
  <2>1. ASSUME NEW i \in DOMAIN u PROVE u[i] \in ToSet(s) \cup ToSet(t)
    <3>1. CASE i \in 1 .. Len(s)
      BY <1>1, <1>2, <3>1 DEF ToSet
    <3>2. ASSUME NEW j \in 1 .. Len(t), i = Len(s) + j PROVE u[i] \in ToSet(t)
      BY <1>1, <1>2, <3>2 DEF ToSet
    <3> QED BY <1>3, <3>1, <3>2
  <2>2. ASSUME NEW i \in DOMAIN s PROVE s[i] \in ToSet(u)
    <3>1. i \in DOMAIN u /\ u[i] = s[i]
      BY <1>1, <1>2
    <3> QED BY <3>1 DEF ToSet
  <2>3. ASSUME NEW i \in DOMAIN t PROVE t[i] \in ToSet(u)
    <3>1. Len(s) + i \in DOMAIN u /\ u[Len(s) + i] = t[i]
      BY <1>1, <1>2
    <3> QED BY <3>1 DEF ToSet
  <2>4. ToSet(u) \subseteq ToSet(s) \cup ToSet(t)
    BY <2>1 DEF ToSet
  <2>5. ToSet(s) \subseteq ToSet(u) /\ ToSet(t) \subseteq ToSet(u)
    BY <2>2, <2>3 DEF ToSet
  <2> QED BY <2>4, <2>5
<1>5. ASSUME Distinct(u) PROVE Distinct(s) /\ Distinct(t) /\ ToSet(s) \cap ToSet(t) = {}
  <2>0. \A i, j \in DOMAIN u : u[i] = u[j] => i = j
    BY <1>5 DEF Distinct
  <2>1. ASSUME NEW i \in 1 .. Len(s), NEW j \in 1 .. Len(s), s[i] = s[j] PROVE i = j
    <3>1. u[i] = u[j] /\ i \in DOMAIN u /\ j \in DOMAIN u
      BY <1>1, <2>1
    <3> QED BY <2>0, <3>1
  <2>2. ASSUME NEW i \in 1 .. Len(t), NEW j \in 1 .. Len(t), t[i] = t[j] PROVE i = j
    <3>1. u[Len(s) + i] = u[Len(s) + j] /\ Len(s) + i \in DOMAIN u /\ Len(s) + j \in DOMAIN u
      BY <1>1, <2>2
    <3>2. Len(s) + i = Len(s) + j
      BY <2>0, <3>1
    <3> QED BY <1>2, <3>2
  <2>3. ASSUME NEW i \in 1 .. Len(s), NEW j \in 1 .. Len(t), s[i] = t[j] PROVE FALSE
    <3>1. u[i] = u[Len(s) + j] /\ i \in DOMAIN u /\ Len(s) + j \in DOMAIN u
      BY <1>1, <2>3
    <3>2. i = Len(s) + j
      BY <2>0, <3>1
    <3> QED BY <1>2, <3>2
  <2>4. Distinct(s) /\ Distinct(t)
    BY <1>2, <2>1, <2>2 DEF Distinct
  <2>5. ToSet(s) \cap ToSet(t) = {}
    BY <1>2, <2>3 DEF ToSet
  <2> QED BY <2>4, <2>5
<1>6. ASSUME Distinct(s), Distinct(t), ToSet(s) \cap ToSet(t) = {} PROVE Distinct(u)
  <2>1. \A i \in 1 .. Len(s), j \in 1 .. Len(t) : s[i] # t[j]
    BY <1>2, <1>6 DEF ToSet
  <2>2. SUFFICES ASSUME NEW i \in DOMAIN u, NEW j \in DOMAIN u, u[i] = u[j] PROVE i = j
    BY DEF Distinct
  <2>3. CASE i \in 1 .. Len(s) /\ j \in 1 .. Len(s)
    <3>1. s[i] = s[j]
      BY <1>1, <2>2, <2>3
    <3> QED BY <1>2, <1>6, <2>3, <3>1 DEF Distinct
  <2>4. CASE i \in 1 .. Len(s) /\ ~ (j \in 1 .. Len(s))
    BY <1>1, <1>3, <2>1, <2>2, <2>4
  <2>5. CASE ~ (i \in 1 .. Len(s)) /\ j \in 1 .. Len(s)
    BY <1>1, <1>3, <2>1, <2>2, <2>5
  <2>6. CASE ~ (i \in 1 .. Len(s)) /\ ~ (j \in 1 .. Len(s))
    <3>1. PICK m \in 1 .. Len(t) : i = Len(s) + m
      BY <1>3, <2>6
    <3>2. PICK n \in 1 .. Len(t) : j = Len(s) + n
      BY <1>3, <2>6
    <3>3. t[m] = t[n]
      BY <1>1, <2>2, <3>1, <3>2
    <3> QED BY <1>2, <1>6, <3>1, <3>2, <3>3 DEF Distinct
  <2> QED BY <2>3, <2>4, <2>5, <2>6
<1> QED BY <1>1, <1>4, <1>5, <1>6 DEF u

\* The list of one element.
LEMMA Singleton ==
    ASSUME NEW S, NEW e \in S
    PROVE  <<e>> \in Seq(S) /\ ToSet(<<e>>) = {e} /\ Distinct(<<e>>)
BY DEF ToSet, Distinct

\* A list with one element more at either end.
LEMMA WithOne ==
    ASSUME NEW S, NEW s \in Seq(S), NEW e \in S
    PROVE  /\ s \o <<e>> \in Seq(S) /\ <<e>> \o s \in Seq(S)
           /\ ToSet(s \o <<e>>) = ToSet(s) \cup {e}
           /\ ToSet(<<e>> \o s) = ToSet(s) \cup {e}
           /\ Distinct(s \o <<e>>) <=> Distinct(s) /\ e \notin ToSet(s)
           /\ Distinct(<<e>> \o s) <=> Distinct(s) /\ e \notin ToSet(s)
<1> DEFINE t == <<e>>
<1>1. t \in Seq(S) /\ ToSet(t) = {e} /\ Distinct(t)
  BY Singleton
<1> HIDE DEF t
<1>2. /\ s \o t \in Seq(S) /\ t \o s \in Seq(S)
      /\ ToSet(s \o t) = ToSet(s) \cup {e}
      /\ ToSet(t \o s) = ToSet(s) \cup {e}
      /\ Distinct(s \o t) <=> Distinct(s) /\ e \notin ToSet(s)
      /\ Distinct(t \o s) <=> Distinct(s) /\ e \notin ToSet(s)
  <2>1. /\ s \o t \in Seq(S)
        /\ ToSet(s \o t) = ToSet(s) \cup ToSet(t)
        /\ Distinct(s \o t) <=> Distinct(s) /\ Distinct(t) /\ ToSet(s) \cap ToSet(t) = {}
    BY <1>1, ConcatList
  <2>2. /\ t \o s \in Seq(S)
        /\ ToSet(t \o s) = ToSet(t) \cup ToSet(s)
        /\ Distinct(t \o s) <=> Distinct(t) /\ Distinct(s) /\ ToSet(t) \cap ToSet(s) = {}
    BY <1>1, ConcatList
  <2> QED BY <1>1, <2>1, <2>2
<1> QED BY <1>2 DEF t

\* Append in the same terms.
LEMMA AppendList ==
    ASSUME NEW S, NEW s \in Seq(S), NEW e \in S
    PROVE  /\ Append(s, e) \in Seq(S)
           /\ ToSet(Append(s, e)) = ToSet(s) \cup {e}
           /\ Distinct(Append(s, e)) <=> Distinct(s) /\ e \notin ToSet(s)
<1> DEFINE t == s \o <<e>>
<1>1. Append(s, e) = t
  OBVIOUS
<1>2. /\ t \in Seq(S) /\ ToSet(t) = ToSet(s) \cup {e}
      /\ Distinct(t) <=> Distinct(s) /\ e \notin ToSet(s)
  BY WithOne
<1> HIDE DEF t
<1> QED BY <1>1, <1>2

\* The first of a list leaves it.
LEMMA TailList ==
    ASSUME NEW S, NEW s \in Seq(S), s # <<>>
    PROVE  /\ Head(s) \in S /\ Tail(s) \in Seq(S)
           /\ ToSet(s) = ToSet(Tail(s)) \cup {Head(s)}
           /\ Distinct(s) <=> Distinct(Tail(s)) /\ Head(s) \notin ToSet(Tail(s))
<1> DEFINE h == Head(s)
           t == Tail(s)
<1>1. s = <<h>> \o t /\ h \in S /\ t \in Seq(S)
  OBVIOUS
<1> HIDE DEF h, t
<1>2. /\ ToSet(<<h>> \o t) = ToSet(t) \cup {h}
      /\ Distinct(<<h>> \o t) <=> Distinct(t) /\ h \notin ToSet(t)
  BY <1>1, WithOne
<1>3. /\ h \in S /\ t \in Seq(S) /\ ToSet(s) = ToSet(t) \cup {h}
      /\ Distinct(s) <=> Distinct(t) /\ h \notin ToSet(t)
  BY <1>1, <1>2
<1> QED BY <1>3 DEF h, t

\* A list is what precedes a place and what follows it.
LEMMA SplitList ==
    ASSUME NEW S, NEW s \in Seq(S), NEW n \in 0 .. Len(s)
    PROVE  /\ SubSeq(s, 1, n) \in Seq(S) /\ SubSeq(s, n + 1, Len(s)) \in Seq(S)
           /\ s = SubSeq(s, 1, n) \o SubSeq(s, n + 1, Len(s))
<1>1. /\ 1 \in 1 .. Len(s) + 1 /\ n \in 1 - 1 .. Len(s) /\ Len(s) \in n .. Len(s)
      /\ \A i \in 1 .. n : s[i] \in S
      /\ \A i \in n + 1 .. Len(s) : s[i] \in S
  OBVIOUS
<1>2. SubSeq(s, 1, n) \o SubSeq(s, n + 1, Len(s)) = SubSeq(s, 1, Len(s))
  BY <1>1, ConcatAdjacentSubSeq
<1>3. SubSeq(s, 1, n) \in Seq(S) /\ SubSeq(s, n + 1, Len(s)) \in Seq(S)
  <2>1. 1 \in Int /\ n \in Int /\ n + 1 \in Int /\ Len(s) \in Int
    OBVIOUS
  <2> QED BY <1>1, <2>1, SubSeqProperties
<1> QED BY <1>2, <1>3, SubSeqFull

\* The places of the elements after an insertion, and after a cut.
LEMMA InsertPlaces ==
    ASSUME NEW S, NEW s \in Seq(S), NEW n \in 1 .. Len(s) + 1, NEW e \in S
    PROVE  /\ DOMAIN InsertAt(s, n, e) = 1 .. Len(s) + 1
           /\ \A i \in 1 .. Len(s) + 1 :
                 InsertAt(s, n, e)[i] =
                    IF i < n THEN s[i] ELSE IF i = n THEN e ELSE s[i - 1]
<1> DEFINE a == SubSeq(s, 1, n - 1)
           b == SubSeq(s, n, Len(s))
           t == <<e>>
<1>1. /\ a \in Seq(S) /\ Len(a) = n - 1 /\ \A i \in 1 .. n - 1 : a[i] = s[i]
  <2>1. 1 \in Int /\ n - 1 \in Int /\ \A i \in 1 .. n - 1 : s[i] \in S
    OBVIOUS
  <2> QED BY <2>1, SubSeqProperties
<1>2. /\ b \in Seq(S) /\ Len(b) = Len(s) + 1 - n
      /\ \A i \in 1 .. Len(s) + 1 - n : b[i] = s[n + i - 1]
  <2>1. n \in Int /\ Len(s) \in Int /\ \A i \in n .. Len(s) : s[i] \in S
    OBVIOUS
  <2> QED BY <2>1, SubSeqProperties
<1>3. t \in Seq(S) /\ Len(t) = 1 /\ t[1] = e
  OBVIOUS
<1> DEFINE u == a \o t
           v == u \o b
<1>4. InsertAt(s, n, e) = v
  BY DEF InsertAt
<1> HIDE DEF a, b, t
<1>5. /\ u \in Seq(S) /\ Len(u) = n
      /\ \A i \in 1 .. n : u[i] = IF i < n THEN s[i] ELSE e
  <2>1. /\ u \in Seq(S) /\ Len(u) = Len(a) + Len(t)
        /\ \A i \in 1 .. Len(a) + Len(t) : u[i] = IF i <= Len(a) THEN a[i] ELSE t[i - Len(a)]
    BY <1>1, <1>3, ConcatProperties
  <2>2. Len(a) + Len(t) = n
    BY <1>1, <1>3
  <2> HIDE DEF u
  <2>3. ASSUME NEW i \in 1 .. n PROVE u[i] = IF i < n THEN s[i] ELSE e
    <3>1. CASE i < n
      <4>1. i \in 1 .. n - 1 /\ i <= Len(a) /\ i \in 1 .. Len(a) + Len(t)
        BY <1>1, <2>2, <3>1
      <4>2. u[i] = a[i] /\ a[i] = s[i]
        BY <1>1, <2>1, <4>1
      <4> QED BY <3>1, <4>2
    <3>2. CASE i = n
      <4>1. i - Len(a) = 1 /\ ~ (i <= Len(a))
        BY <1>1, <3>2
      <4> QED BY <1>3, <2>1, <2>2, <3>2, <4>1
    <3> QED BY <3>1, <3>2
  <2> QED BY <2>1, <2>2, <2>3
<1> HIDE DEF u
<1>6. /\ v \in Seq(S) /\ Len(v) = Len(s) + 1
      /\ \A i \in 1 .. Len(s) + 1 : v[i] = IF i <= n THEN u[i] ELSE b[i - n]
  <2>1. /\ v \in Seq(S) /\ Len(v) = Len(u) + Len(b)
        /\ \A i \in 1 .. Len(u) + Len(b) : v[i] = IF i <= Len(u) THEN u[i] ELSE b[i - Len(u)]
    BY <1>2, <1>5, ConcatProperties
  <2>2. Len(u) + Len(b) = Len(s) + 1 /\ Len(u) = n
    BY <1>2, <1>5
  <2> HIDE DEF v
  <2> QED BY <2>1, <2>2
<1> HIDE DEF v
<1>7. ASSUME NEW i \in 1 .. Len(s) + 1
      PROVE  v[i] = IF i < n THEN s[i] ELSE IF i = n THEN e ELSE s[i - 1]
  <2>1. CASE i <= n
    BY <1>5, <1>6, <2>1
  <2>2. CASE i > n
    <3>1. i - n \in 1 .. Len(s) + 1 - n /\ n + (i - n) - 1 = i - 1
      BY <2>2
    <3>2. b[i - n] = s[i - 1]
      BY <1>2, <3>1
    <3> QED BY <1>6, <2>2, <3>2
  <2> QED BY <2>1, <2>2
<1>8. DOMAIN v = 1 .. Len(s) + 1
  BY <1>6
<1> QED BY <1>4, <1>7, <1>8

\* The places of both halves of a cut list.
LEMMA CutPlaces ==
    ASSUME NEW S, NEW s \in Seq(S), NEW n \in 0 .. Len(s)
    PROVE  /\ SubSeq(s, 1, n) \in Seq(S) /\ DOMAIN SubSeq(s, 1, n) = 1 .. n
           /\ \A i \in 1 .. n : SubSeq(s, 1, n)[i] = s[i]
           /\ SubSeq(s, n + 1, Len(s)) \in Seq(S)
           /\ DOMAIN SubSeq(s, n + 1, Len(s)) = 1 .. Len(s) - n
           /\ \A i \in 1 .. Len(s) - n : SubSeq(s, n + 1, Len(s))[i] = s[n + i]
<1>1. /\ 1 \in Int /\ n \in Int /\ n + 1 \in Int /\ Len(s) \in Int
      /\ \A i \in 1 .. n : s[i] \in S
      /\ \A i \in n + 1 .. Len(s) : s[i] \in S
  OBVIOUS
<1>2. /\ SubSeq(s, 1, n) \in Seq(S) /\ Len(SubSeq(s, 1, n)) = n
      /\ \A i \in 1 .. n : SubSeq(s, 1, n)[i] = s[i]
  BY <1>1, SubSeqProperties
<1> DEFINE b == SubSeq(s, n + 1, Len(s))
<1>3. /\ b \in Seq(S) /\ Len(b) = Len(s) - n
      /\ \A i \in 1 .. Len(s) - (n + 1) + 1 : b[i] = s[(n + 1) + i - 1]
  BY <1>1, SubSeqProperties
<1> HIDE DEF b
<1>4. ASSUME NEW i \in 1 .. Len(s) - n PROVE b[i] = s[n + i]
  <2>1. i \in 1 .. Len(s) - (n + 1) + 1 /\ (n + 1) + i - 1 = n + i
    OBVIOUS
  <2> QED BY <1>3, <2>1
<1>5. b \in Seq(S) /\ DOMAIN b = 1 .. Len(s) - n
  BY <1>3
<1>6. DOMAIN SubSeq(s, 1, n) = 1 .. n
  BY <1>2
<1> QED BY <1>2, <1>4, <1>5, <1>6 DEF b

\* InsertAt adds one element, and keeps all distinct if it is new.
LEMMA InsertList ==
    ASSUME NEW S, NEW s \in Seq(S), NEW n \in 1 .. Len(s) + 1, NEW e \in S
    PROVE  /\ InsertAt(s, n, e) \in Seq(S)
           /\ ToSet(InsertAt(s, n, e)) = ToSet(s) \cup {e}
           /\ Distinct(InsertAt(s, n, e)) <=> Distinct(s) /\ e \notin ToSet(s)
<1> DEFINE a == SubSeq(s, 1, n - 1)
           b == SubSeq(s, n, Len(s))
<1>1. a \in Seq(S) /\ b \in Seq(S) /\ s = a \o b
  <2>1. n - 1 \in 0 .. Len(s) /\ (n - 1) + 1 = n
    OBVIOUS
  <2> QED BY <2>1, SplitList
<1>2. InsertAt(s, n, e) = (a \o <<e>>) \o b
  BY DEF InsertAt
<1> HIDE DEF a, b
<1>3. /\ a \o <<e>> \in Seq(S)
      /\ ToSet(a \o <<e>>) = ToSet(a) \cup {e}
      /\ Distinct(a \o <<e>>) <=> Distinct(a) /\ e \notin ToSet(a)
  BY <1>1, WithOne
<1>4. /\ ToSet(s) = ToSet(a) \cup ToSet(b)
      /\ Distinct(s) <=> Distinct(a) /\ Distinct(b) /\ ToSet(a) \cap ToSet(b) = {}
  BY <1>1, ConcatList
<1>5. /\ (a \o <<e>>) \o b \in Seq(S)
      /\ ToSet((a \o <<e>>) \o b) = (ToSet(a) \cup {e}) \cup ToSet(b)
      /\ Distinct((a \o <<e>>) \o b) <=>
            /\ Distinct(a \o <<e>>) /\ Distinct(b)
            /\ (ToSet(a) \cup {e}) \cap ToSet(b) = {}
  <2> DEFINE c == a \o <<e>>
  <2>1. c \in Seq(S) /\ ToSet(c) = ToSet(a) \cup {e}
    BY <1>3
  <2> HIDE DEF c
  <2>2. /\ c \o b \in Seq(S) /\ ToSet(c \o b) = ToSet(c) \cup ToSet(b)
        /\ Distinct(c \o b) <=>
              Distinct(c) /\ Distinct(b) /\ ToSet(c) \cap ToSet(b) = {}
    BY <1>1, <2>1, ConcatList
  <2>3. ToSet(c) \cap ToSet(b) = (ToSet(a) \cup {e}) \cap ToSet(b)
    BY <2>1
  <2> QED BY <2>1, <2>2, <2>3 DEF c
<1>6. ToSet((a \o <<e>>) \o b) = ToSet(s) \cup {e}
  BY <1>4, <1>5
<1>7. Distinct((a \o <<e>>) \o b) <=> Distinct(s) /\ e \notin ToSet(s)
  <2>1. (ToSet(a) \cup {e}) \cap ToSet(b) = {} <=>
           ToSet(a) \cap ToSet(b) = {} /\ e \notin ToSet(b)
    OBVIOUS
  <2>2. e \notin ToSet(s) <=> e \notin ToSet(a) /\ e \notin ToSet(b)
    BY <1>4
  <2> QED BY <1>3, <1>4, <1>5, <2>1, <2>2, Zenon
<1> QED BY <1>2, <1>5, <1>6, <1>7

\* Detaching the first occurrence of e from a list where it is once.
LEMMA RemoveFirstList ==
    ASSUME NEW S, NEW s \in Seq(S), NEW e, Distinct(s)
    PROVE  /\ RemoveFirst(s, e) \in Seq(S)
           /\ ToSet(RemoveFirst(s, e)) = ToSet(s) \ {e}
           /\ Distinct(RemoveFirst(s, e))
<1>1. CASE ~ \E i \in 1 .. Len(s) : s[i] = e
  <2>1. RemoveFirst(s, e) = s
    BY <1>1 DEF RemoveFirst
  <2>2. e \notin ToSet(s)
    BY <1>1 DEF ToSet
  <2> QED BY <2>1, <2>2
<1>2. CASE \E i \in 1 .. Len(s) : s[i] = e
  <2> DEFINE I == {i \in 1 .. Len(s) : s[i] = e}
             n == Min(I)
             a == SubSeq(s, 1, n - 1)
             b == SubSeq(s, n + 1, Len(s))
  <2>1. n \in 1 .. Len(s) /\ s[n] = e
    <3>1. I \in SUBSET Nat /\ I # {}
      BY <1>2
    <3>2. n \in I
      BY <3>1, MinInSet
    <3> QED BY <3>2
  <2>2. SelectInSeq(s, LAMBDA v : v = e) = n
    <3>1. I # {}
      BY <1>2
    <3> QED BY <3>1 DEF SelectInSeq
  <2>3. RemoveFirst(s, e) = RemoveAt(s, n)
    BY <1>2, <2>2 DEF RemoveFirst
  <2>4. RemoveFirst(s, e) = a \o b
    BY <2>3 DEF RemoveAt
  <2> HIDE DEF n
  <2>5. a \in Seq(S) /\ b \in Seq(S) /\ s = (a \o <<e>>) \o b
    <3>1. n \in 0 .. Len(s) /\ n - 1 \in 0 .. Len(s)
      BY <2>1
    <3>2. s = SubSeq(s, 1, n) \o b /\ b \in Seq(S) /\ a \in Seq(S)
      BY <3>1, SplitList
    <3>3. SubSeq(s, 1, n) = a \o <<e>>
      <4>1. 1 \in 1 .. Len(s) /\ n \in 1 .. Len(s)
        BY <2>1
      <4> QED BY <2>1, <4>1, SubSeqRecursiveSecond
    <3> QED BY <3>2, <3>3
  <2> HIDE DEF a, b
  <2>6. e \in S
    BY <2>1
  <2>7. /\ a \o <<e>> \in Seq(S)
        /\ ToSet(a \o <<e>>) = ToSet(a) \cup {e}
        /\ Distinct(a \o <<e>>) <=> Distinct(a) /\ e \notin ToSet(a)
    BY <2>5, <2>6, WithOne
  <2>8. /\ ToSet(s) = (ToSet(a) \cup {e}) \cup ToSet(b)
        /\ Distinct(a \o <<e>>) /\ Distinct(b)
        /\ (ToSet(a) \cup {e}) \cap ToSet(b) = {}
    <3> DEFINE c == a \o <<e>>
    <3>1. c \in Seq(S) /\ ToSet(c) = ToSet(a) \cup {e} /\ s = c \o b
      BY <2>5, <2>7
    <3> HIDE DEF c
    <3>2. /\ ToSet(c \o b) = ToSet(c) \cup ToSet(b)
          /\ Distinct(c \o b) <=>
                Distinct(c) /\ Distinct(b) /\ ToSet(c) \cap ToSet(b) = {}
      BY <2>5, <3>1, ConcatList
    <3>3. Distinct(c) /\ Distinct(b) /\ ToSet(c) \cap ToSet(b) = {}
      BY <3>1, <3>2
    <3> QED BY <3>1, <3>2, <3>3 DEF c
  <2>9. /\ a \o b \in Seq(S) /\ ToSet(a \o b) = ToSet(a) \cup ToSet(b)
        /\ Distinct(a \o b) <=> Distinct(a) /\ Distinct(b) /\ ToSet(a) \cap ToSet(b) = {}
    BY <2>5, ConcatList
  <2>10. ToSet(a) \cap ToSet(b) = {} /\ e \notin ToSet(a) \cup ToSet(b)
    BY <2>7, <2>8
  <2>11. ToSet(a \o b) = ToSet(s) \ {e}
    BY <2>8, <2>9, <2>10
  <2>12. Distinct(a \o b)
    BY <2>7, <2>8, <2>9, <2>10
  <2> QED BY <2>4, <2>9, <2>11, <2>12
<1> QED BY <1>1, <1>2

\* A list without repetition is as long as the set of its elements.
LEMMA DistinctLength ==
    ASSUME NEW S, NEW s \in Seq(S), Distinct(s)
    PROVE  IsFiniteSet(ToSet(s)) /\ Cardinality(ToSet(s)) = Len(s)
<1>1. DOMAIN s = 1 .. Len(s) /\ Len(s) \in Nat
  OBVIOUS
<1>2. s \in Bijection(1 .. Len(s), ToSet(s))
  BY <1>1 DEF Distinct, ToSet, Bijection, Injection, Surjection, IsInjective
<1>3. IsFiniteSet(1 .. Len(s)) /\ Cardinality(1 .. Len(s)) = Len(s)
  BY <1>1, FS_Interval
<1> QED BY <1>2, <1>3, FS_Bijection DEF ExistsBijection
=============================================================================
