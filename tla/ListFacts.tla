----------------------------- MODULE ListFacts -----------------------------
(***************************************************************************)
(* What the Redis list commands that the task queue uses do to the tasks   *)
(* in a list: LPUSH (Cons), the two halves of RPOPLPUSH (Last and Front)   *)
(* and LREM 1 (RemoveFirst).                                               *)
(***************************************************************************)
EXTENDS Naturals, SequencesExt, SequenceTheorems, WellFoundedInduction, TLAPS

\* A nonempty set of numbers has a least element.
LEMMA LeastExists ==
  ASSUME NEW I, I # {}, I \subseteq Nat
  PROVE  \E i \in I : \A j \in I : i =< j
<1> DEFINE R == OpToRel(<, Nat)
<1>1. \E i \in I : \A j \in I : ~ (<<j, i>> \in R)
  <2>1. IsWellFoundedOn(R, Nat)
    BY NatLessThanWellFounded
  <2> HIDE DEF R
  <2>. QED  BY <2>1, WFMin
<1>2. ASSUME NEW i \in I, NEW j \in I, ~ (<<j, i>> \in R)
      PROVE  i =< j
  BY <1>2 DEF OpToRel
<1>. QED  BY <1>1, <1>2

\* LPUSH adds one element and keeps a list of distinct elements distinct if
\* the element is new to it.
LEMMA PushLemma ==
  ASSUME NEW S, NEW s \in Seq(S), NEW x \in S
  PROVE  /\ Cons(x, s) \in Seq(S)
         /\ ToSet(Cons(x, s)) = ToSet(s) \cup {x}
         /\ IsInjective(s) /\ x \notin ToSet(s) => IsInjective(Cons(x, s))
<1> DEFINE c == Cons(x, s)
<1>1. /\ c \in Seq(S)
      /\ Len(c) = Len(s) + 1
      /\ c[1] = x
      /\ \A i \in 2..Len(c) : c[i] = s[i - 1]
  BY DEF Cons
<1>2. /\ DOMAIN c = 1..(Len(s) + 1)
      /\ DOMAIN s = 1..Len(s)
      /\ Len(s) \in Nat
  BY <1>1
<1>3. ToSet(c) = ToSet(s) \cup {x}
  <2>1. ASSUME NEW i \in DOMAIN c
        PROVE  c[i] \in ToSet(s) \cup {x}
    BY <1>1, <1>2 DEF ToSet
  <2>2. ASSUME NEW i \in DOMAIN s
        PROVE  s[i] \in ToSet(c)
    <3>1. i + 1 \in 2..Len(c) /\ (i + 1) - 1 = i
      BY <1>1, <1>2
    <3>2. c[i + 1] = s[i]
      BY <3>1, <1>1
    <3>. QED  BY <3>1, <3>2, <1>1, <1>2 DEF ToSet
  <2>3. x \in ToSet(c)
    BY <1>1, <1>2 DEF ToSet
  <2>. QED  BY <2>1, <2>2, <2>3 DEF ToSet
<1>4. ASSUME IsInjective(s), x \notin ToSet(s)
      PROVE  IsInjective(c)
  <2>1. ASSUME NEW i \in DOMAIN c, NEW j \in DOMAIN c, c[i] = c[j]
        PROVE  i = j
    <3>1. CASE i = 1 /\ j = 1
      BY <3>1
    <3>2. CASE i = 1 /\ j # 1
      BY <3>2, <2>1, <1>1, <1>2, <1>4 DEF ToSet
    <3>3. CASE i # 1 /\ j = 1
      BY <3>3, <2>1, <1>1, <1>2, <1>4 DEF ToSet
    <3>4. CASE i # 1 /\ j # 1
      <4>1. i - 1 \in DOMAIN s /\ j - 1 \in DOMAIN s /\ s[i - 1] = s[j - 1]
        BY <3>4, <2>1, <1>1, <1>2
      <4>. QED  BY <4>1, <1>4, <1>2 DEF IsInjective
    <3>. QED  BY <3>1, <3>2, <3>3, <3>4
  <2>. QED  BY <2>1 DEF IsInjective
<1>. QED  BY <1>1, <1>3, <1>4

\* RPOPLPUSH takes the last element out; of a list of distinct elements
\* nothing else goes with it.
LEMMA PopLemma ==
  ASSUME NEW S, NEW s \in Seq(S), s # <<>>
  PROVE  /\ Front(s) \in Seq(S)
         /\ Last(s) \in S
         /\ ToSet(s) = ToSet(Front(s)) \cup {Last(s)}
         /\ IsInjective(s) =>
              IsInjective(Front(s)) /\ Last(s) \notin ToSet(Front(s))
<1> DEFINE f == Front(s)
<1>1. Len(s) \in Nat \ {0} /\ DOMAIN s = 1..Len(s)
  BY EmptySeq
<1>2. /\ f \in Seq(S)
      /\ Len(f) = Len(s) - 1
      /\ DOMAIN f = 1..(Len(s) - 1)
      /\ \A i \in 1..(Len(s) - 1) : f[i] = s[i]
  BY <1>1, SubSeqProperties DEF Front
<1>3. Last(s) \in S
  BY <1>1 DEF Last
<1>4. ToSet(s) = ToSet(f) \cup {Last(s)}
  <2>1. \A i \in DOMAIN s : i = Len(s) \/ i \in DOMAIN f
    BY <1>1, <1>2
  <2>2. \A i \in DOMAIN f : i \in DOMAIN s /\ f[i] = s[i]
    BY <1>1, <1>2
  <2>. QED  BY <2>1, <2>2, <1>1 DEF ToSet, Last
<1>5. ASSUME IsInjective(s)
      PROVE  IsInjective(f) /\ Last(s) \notin ToSet(f)
  <2>1. \A i \in DOMAIN f : i \in DOMAIN s /\ f[i] = s[i] /\ i # Len(s)
    BY <1>1, <1>2
  <2>2. Len(s) \in DOMAIN s
    BY <1>1
  <2>. QED  BY <2>1, <2>2, <1>5 DEF IsInjective, ToSet, Last
<1>. QED  BY <1>2, <1>3, <1>4, <1>5

\* What is left of a list when the element at n is cut out.
LEMMA CutLemma ==
  ASSUME NEW S, NEW s \in Seq(S), NEW n \in 1..Len(s)
  PROVE  /\ RemoveAt(s, n) \in Seq(S)
         /\ DOMAIN RemoveAt(s, n) = 1..(Len(s) - 1)
         /\ \A i \in 1..(Len(s) - 1) :
              RemoveAt(s, n)[i] = s[IF i < n THEN i ELSE i + 1]
<1> DEFINE a == SubSeq(s, 1, n - 1)
           b == SubSeq(s, n + 1, Len(s))
           f == RemoveAt(s, n)
<1>1. Len(s) \in Nat \ {0} /\ n \in Nat \ {0} /\ n <= Len(s)
  OBVIOUS
<1>2. /\ a \in Seq(S)
      /\ Len(a) = n - 1
      /\ \A i \in 1..(n - 1) : a[i] = s[i]
  BY <1>1, SubSeqProperties
<1>3. /\ b \in Seq(S)
      /\ Len(b) = Len(s) - n
      /\ \A i \in 1..(Len(s) - n) : b[i] = s[n + i]
  BY <1>1, SubSeqProperties
<1>4. /\ f \in Seq(S)
      /\ Len(f) = Len(s) - 1
      /\ \A i \in 1..Len(f) : f[i] = IF i <= n - 1 THEN a[i] ELSE b[i - (n - 1)]
  <2>1. f = a \o b
    BY DEF RemoveAt
  <2> HIDE DEF a, b, f
  <2>. QED  BY <1>1, <1>2, <1>3, <2>1, ConcatProperties
<1>5. ASSUME NEW i \in 1..(Len(s) - 1)
      PROVE  f[i] = s[IF i < n THEN i ELSE i + 1]
  <2> HIDE DEF a, b, f
  <2>1. CASE i < n
    BY <2>1, <1>1, <1>2, <1>4
  <2>2. CASE ~ (i < n)
    <3>1. /\ i - (n - 1) \in 1..(Len(s) - n)
          /\ n + (i - (n - 1)) = i + 1
      BY <2>2, <1>1
    <3>2. b[i - (n - 1)] = s[i + 1]
      BY <3>1, <1>3
    <3>. QED  BY <2>2, <3>2, <1>1, <1>4
  <2>. QED  BY <2>1, <2>2
<1>. QED  BY <1>4, <1>5

\* LREM 1 removes an element from a list of distinct elements and keeps the
\* others, and does nothing to a list without it.
LEMMA RemLemma ==
  ASSUME NEW S, NEW s \in Seq(S), NEW x
  PROVE  /\ RemoveFirst(s, x) \in Seq(S)
         /\ ToSet(RemoveFirst(s, x)) \subseteq ToSet(s)
         /\ ToSet(s) \ {x} \subseteq ToSet(RemoveFirst(s, x))
         /\ IsInjective(s) => /\ IsInjective(RemoveFirst(s, x))
                              /\ x \notin ToSet(RemoveFirst(s, x))
<1>1. CASE ~ \E i \in 1..Len(s) : s[i] = x
  <2>1. RemoveFirst(s, x) = s
    BY <1>1 DEF RemoveFirst
  <2>. QED  BY <1>1, <2>1 DEF ToSet
<1>2. CASE \E i \in 1..Len(s) : s[i] = x
  <2> DEFINE f == RemoveFirst(s, x)
  <2>1. PICK n \in 1..Len(s) : s[n] = x /\ f = RemoveAt(s, n)
    <3> DEFINE I == {i \in 1..Len(s) : s[i] = x}
    <3>1. I # {} /\ I \subseteq Nat
      BY <1>2
    <3>2. Min(I) \in I
      BY <3>1, LeastExists DEF Min
    <3>3. f = RemoveAt(s, Min(I))
      BY <1>2 DEF RemoveFirst, SelectInSeq
    <3>. QED  BY <3>2, <3>3
  <2> HIDE DEF f
  <2>2. /\ f \in Seq(S)
        /\ DOMAIN f = 1..(Len(s) - 1)
        /\ \A i \in 1..(Len(s) - 1) : f[i] = s[IF i < n THEN i ELSE i + 1]
    BY <2>1, CutLemma
  <2>3. DOMAIN s = 1..Len(s) /\ Len(s) \in Nat /\ n \in Nat
    OBVIOUS
  <2>4. ASSUME NEW i \in DOMAIN f
        PROVE  \E j \in DOMAIN s : f[i] = s[j] /\ j = (IF i < n THEN i ELSE i + 1)
    BY <2>1, <2>2, <2>3
  <2>5. ASSUME NEW j \in DOMAIN s, j # n
        PROVE  \E i \in DOMAIN f : f[i] = s[j]
    <3>1. CASE j < n
      BY <3>1, <2>1, <2>2, <2>3
    <3>2. CASE j > n
      <4>1. j - 1 \in DOMAIN f /\ (j - 1) + 1 = j /\ ~ (j - 1 < n)
        BY <3>2, <2>1, <2>2, <2>3
      <4>. QED  BY <4>1, <2>2
    <3>. QED  BY <3>1, <3>2, <2>5, <2>3
  <2>6. ToSet(f) \subseteq ToSet(s)
    BY <2>4 DEF ToSet
  <2>7. ToSet(s) \ {x} \subseteq ToSet(f)
    BY <2>5, <2>1 DEF ToSet
  <2>8. ASSUME IsInjective(s)
        PROVE  IsInjective(f) /\ x \notin ToSet(f)
    <3>1. ASSUME NEW i \in DOMAIN f, NEW k \in DOMAIN f, f[i] = f[k]
          PROVE  i = k
      <4>1. PICK j \in DOMAIN s : f[i] = s[j] /\ j = (IF i < n THEN i ELSE i + 1)
        BY <2>4
      <4>2. PICK l \in DOMAIN s : f[k] = s[l] /\ l = (IF k < n THEN k ELSE k + 1)
        BY <2>4
      <4>3. j = l
        BY <4>1, <4>2, <3>1, <2>8 DEF IsInjective
      <4>. QED  BY <4>1, <4>2, <4>3, <2>2, <2>3
    <3>2. ASSUME NEW i \in DOMAIN f, f[i] = x
          PROVE  FALSE
      <4>1. PICK j \in DOMAIN s : f[i] = s[j] /\ j = (IF i < n THEN i ELSE i + 1)
        BY <2>4
      <4>2. j = n
        BY <4>1, <3>2, <2>8, <2>1, <2>3 DEF IsInjective
      <4>. QED  BY <4>1, <4>2, <2>2, <2>3
    <3>. QED  BY <3>1, <3>2 DEF IsInjective, ToSet
  <2>. QED  BY <2>2, <2>6, <2>7, <2>8 DEF f
<1>. QED  BY <1>1, <1>2
=============================================================================
