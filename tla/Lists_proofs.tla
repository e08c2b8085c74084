---------------------------- MODULE Lists_proofs ----------------------------
(***************************************************************************)
(* Lemmas about the operations on lists that the handlers are made of: what  *)
(* they return, and that they keep lists without repetitions as they are.    *)
(***************************************************************************)
EXTENDS Integers, Sequences, FiniteSets, SequencesExt, WellFoundedInduction,
        FiniteSetTheorems, TLAPS

(* A set of positions has a first one.                                       *)
LEMMA MinIn ==
    ASSUME NEW I \in SUBSET Nat, I # {}
    PROVE  Min(I) \in I
  <1> DEFINE less == OpToRel(<, Nat)
  <1>1. \A x, y \in Nat : y < x => <<y, x>> \in less
    BY DEF OpToRel
  <1>2. \E x \in I : \A y \in I : ~(<<y, x>> \in less)
    BY NatLessThanWellFounded, WFMin
  <1> HIDE DEF less
  <1>3. PICK x \in I : \A y \in I : ~(<<y, x>> \in less)
    BY <1>2
  <1>4. \A y \in I : ~(y < x)
    BY <1>1, <1>3
  <1>5. \A y \in I : x <= y
    BY <1>4
  <1>6. QED
    BY <1>5 DEF Min

(* The elements of a list that is put together from two.                     *)
LEMMA ConcatElements ==
    ASSUME NEW M, NEW s \in Seq(M), NEW t \in Seq(M)
    PROVE  /\ s \o t \in Seq(M)
           /\ ToSet(s \o t) = ToSet(s) \cup ToSet(t)
           /\ IsInjective(s) /\ IsInjective(t) /\ ToSet(s) \cap ToSet(t) = {} => IsInjective(s \o t)
  <1>1. s \o t \in Seq(M) /\ Len(s) \in Nat /\ DOMAIN s = 1..Len(s) /\ DOMAIN t = 1..Len(t)
    OBVIOUS
  <1>2. \A n \in DOMAIN (s \o t) :
          \/ n \in DOMAIN s /\ (s \o t)[n] = s[n]
          \/ n \in Nat /\ n > Len(s) /\ n - Len(s) \in DOMAIN t /\ (s \o t)[n] = t[n - Len(s)]
    OBVIOUS
  <1>3. /\ \A n \in DOMAIN s : n \in DOMAIN (s \o t) /\ (s \o t)[n] = s[n]
        /\ \A n \in DOMAIN t : Len(s) + n \in DOMAIN (s \o t) /\ (s \o t)[Len(s) + n] = t[n]
    OBVIOUS
  <1>4. ToSet(s \o t) = ToSet(s) \cup ToSet(t)
    <2> DEFINE u == s \o t
    <2>1. \A n \in DOMAIN u : u[n] \in ToSet(s) \cup ToSet(t)
      BY <1>2 DEF ToSet
    <2>2. \A n \in DOMAIN s : s[n] \in ToSet(u)
      BY <1>3 DEF ToSet
    <2>3. \A n \in DOMAIN t : t[n] \in ToSet(u)
      BY <1>3 DEF ToSet
    <2> HIDE DEF u
    <2>4. ToSet(u) = ToSet(s) \cup ToSet(t)
      BY <2>1, <2>2, <2>3 DEF ToSet
    <2>5. QED
      BY <2>4 DEF u
  <1>5. ASSUME IsInjective(s), IsInjective(t), ToSet(s) \cap ToSet(t) = {},
               NEW a \in DOMAIN (s \o t), NEW b \in DOMAIN (s \o t), (s \o t)[a] = (s \o t)[b]
        PROVE  a = b
    <2>1. \A i \in DOMAIN s, k \in DOMAIN t : s[i] # t[k]
      BY <1>5 DEF ToSet
    <2>2. CASE a \in DOMAIN s /\ (s \o t)[a] = s[a]
      BY <1>2, <1>5, <2>1, <2>2 DEF IsInjective
    <2>3. CASE a \in Nat /\ a - Len(s) \in DOMAIN t /\ (s \o t)[a] = t[a - Len(s)]
      <3>1. b \in Nat /\ b - Len(s) \in DOMAIN t /\ (s \o t)[b] = t[b - Len(s)]
        BY <1>2, <1>5, <2>1, <2>3
      <3>2. a - Len(s) = b - Len(s)
        BY <1>5, <2>3, <3>1 DEF IsInjective
      <3>3. QED
        BY <1>1, <2>3, <3>1, <3>2
    <2>4. QED
      BY <1>2, <2>2, <2>3
  <1>6. QED
    BY <1>1, <1>4, <1>5 DEF IsInjective

(* The elements of a list with one more in front.                            *)
LEMMA PrependElements ==
    ASSUME NEW M, NEW e \in M, NEW s \in Seq(M)
    PROVE  /\ <<e>> \o s \in Seq(M)
           /\ ToSet(<<e>> \o s) = {e} \cup ToSet(s)
           /\ IsInjective(s) /\ e \notin ToSet(s) => IsInjective(<<e>> \o s)
  <1> DEFINE o == <<e>>
  <1>1. o \in Seq(M) /\ ToSet(o) = {e} /\ IsInjective(o)
    BY DEF ToSet, IsInjective
  <1> HIDE DEF o
  <1>2. /\ o \o s \in Seq(M) /\ ToSet(o \o s) = ToSet(o) \cup ToSet(s)
        /\ IsInjective(o) /\ IsInjective(s) /\ ToSet(o) \cap ToSet(s) = {} => IsInjective(o \o s)
    BY <1>1, ConcatElements
  <1>3. QED
    BY <1>1, <1>2 DEF o

(* A part of a list.                                                         *)
LEMMA PartElements ==
    ASSUME NEW M, NEW s \in Seq(M), NEW a \in 1..(Len(s) + 1), NEW b \in 0..Len(s)
    PROVE  /\ SubSeq(s, a, b) \in Seq(M)
           /\ \A i \in DOMAIN SubSeq(s, a, b) :
                i \in Nat /\ i >= 1 /\ a + i - 1 \in DOMAIN s /\ a + i - 1 <= b
                /\ SubSeq(s, a, b)[i] = s[a + i - 1]
           /\ ToSet(SubSeq(s, a, b)) = {s[i] : i \in a..b}
           /\ IsInjective(s) => IsInjective(SubSeq(s, a, b))
  <1> DEFINE p == SubSeq(s, a, b)
  <1>1. p \in Seq(M) /\ \A i \in DOMAIN p : i \in Nat /\ i >= 1 /\ a + i - 1 \in DOMAIN s
                                         /\ a + i - 1 <= b /\ p[i] = s[a + i - 1]
    OBVIOUS
  <1>2. \A i \in a..b : i \in Nat /\ i - a + 1 \in DOMAIN p /\ p[i - a + 1] = s[i]
    OBVIOUS
  <1> HIDE DEF p
  <1>3. \A i \in DOMAIN p : a + i - 1 \in a..b
    BY <1>1
  <1>4. ToSet(p) = {s[i] : i \in a..b}
    BY <1>1, <1>2, <1>3 DEF ToSet
  <1>5. ASSUME IsInjective(s), NEW i \in DOMAIN p, NEW k \in DOMAIN p, p[i] = p[k] PROVE i = k
    <2>1. a + i - 1 = a + k - 1
      BY <1>1, <1>5 DEF IsInjective
    <2>2. QED
      BY <1>1, <2>1
  <1>6. QED
    BY <1>1, <1>4, <1>5 DEF p, IsInjective

(* A part of a list without repetitions.                                     *)
LEMMA PartIs ==
    ASSUME NEW M, NEW s \in Seq(M), IsInjective(s), NEW a \in 1..(Len(s) + 1), NEW b \in 0..Len(s),
           NEW p, p = SubSeq(s, a, b)
    PROVE  p \in Seq(M) /\ ToSet(p) = {s[i] : i \in a..b} /\ IsInjective(p)
  <1>1. SubSeq(s, a, b) \in Seq(M)
    BY PartElements, ZenonT(60)
  <1>2. ToSet(SubSeq(s, a, b)) = {s[i] : i \in a..b}
    BY PartElements, ZenonT(60)
  <1>3. IsInjective(SubSeq(s, a, b))
    BY PartElements, ZenonT(60)
  <1>4. QED
    BY <1>1, <1>2, <1>3

(* A list that is cut in two.                                                *)
LEMMA CutElements ==
    ASSUME NEW M, NEW s \in Seq(M), IsInjective(s), NEW n \in 0..Len(s)
    PROVE  LET a == SubSeq(s, 1, n)
               b == SubSeq(s, n + 1, Len(s))
           IN /\ a \in Seq(M) /\ b \in Seq(M) /\ IsInjective(a)
              /\ ToSet(a) \subseteq ToSet(s) /\ ToSet(b) \subseteq ToSet(s)
              /\ ToSet(a) \cap ToSet(b) = {}
  <1> DEFINE a == SubSeq(s, 1, n)
             b == SubSeq(s, n + 1, Len(s))
  <1>1. /\ a \in Seq(M) /\ IsInjective(a) /\ ToSet(a) = {s[i] : i \in 1..n}
        /\ b \in Seq(M) /\ ToSet(b) = {s[i] : i \in (n + 1)..Len(s)}
    <2>1. Len(s) \in Nat /\ n + 1 \in 1..(Len(s) + 1) /\ 1 \in 1..(Len(s) + 1) /\ Len(s) \in 0..Len(s)
      OBVIOUS
    <2>2. a \in Seq(M) /\ ToSet(a) = {s[i] : i \in 1..n} /\ (IsInjective(s) => IsInjective(a))
      BY <2>1, PartElements, ZenonT(60)
    <2>3. b \in Seq(M) /\ ToSet(b) = {s[i] : i \in (n + 1)..Len(s)}
      BY <2>1, PartElements, ZenonT(60)
    <2>4. QED
      BY <2>2, <2>3
  <1>2. \A i \in 1..n : i \in DOMAIN s
    OBVIOUS
  <1>3. \A i \in (n + 1)..Len(s) : i \in DOMAIN s /\ i \notin 1..n
    OBVIOUS
  <1> HIDE DEF a, b
  <1>4. ToSet(a) \cap ToSet(b) = {}
    <2>1. ASSUME NEW i \in 1..n, NEW k \in (n + 1)..Len(s), s[i] = s[k] PROVE FALSE
      BY <1>2, <1>3, <2>1 DEF IsInjective
    <2>2. QED
      BY <1>1, <2>1
  <1>5. QED
    BY <1>1, <1>2, <1>3, <1>4 DEF a, b, ToSet

(* A list without its head.                                                  *)
LEMMA TailElements ==
    ASSUME NEW M, NEW s \in Seq(M), s # <<>>, IsInjective(s)
    PROVE  /\ Head(s) \in M /\ Head(s) \in ToSet(s)
           /\ Tail(s) \in Seq(M) /\ IsInjective(Tail(s)) /\ ToSet(Tail(s)) = ToSet(s) \ {Head(s)}
           /\ \A i \in DOMAIN Tail(s) : i \in Nat /\ i + 1 \in DOMAIN s /\ i + 1 # 1 /\ Tail(s)[i] = s[i + 1]
  <1> DEFINE t == Tail(s)
  <1>1. /\ Head(s) \in M /\ 1 \in DOMAIN s /\ Head(s) = s[1] /\ t \in Seq(M)
        /\ \A i \in DOMAIN t : i \in Nat /\ i + 1 \in DOMAIN s /\ i + 1 # 1 /\ t[i] = s[i + 1]
        /\ \A i \in DOMAIN s : i # 1 => i \in Nat /\ i - 1 \in DOMAIN t /\ t[i - 1] = s[i]
    OBVIOUS
  <1> HIDE DEF t
  <1>2. ASSUME NEW i \in DOMAIN t, NEW k \in DOMAIN t, t[i] = t[k] PROVE i = k
    <2>1. i + 1 = k + 1
      BY <1>1, <1>2 DEF IsInjective
    <2>2. QED
      BY <1>1, <2>1
  <1>3. \A i \in DOMAIN s : i # 1 => s[i] # Head(s)
    BY <1>1 DEF IsInjective
  <1>4. ToSet(t) = ToSet(s) \ {Head(s)}
    <2>1. \A i \in DOMAIN t : t[i] \in ToSet(s) /\ t[i] # Head(s)
      BY <1>1, <1>3 DEF ToSet
    <2>2. \A i \in DOMAIN s : s[i] = Head(s) \/ s[i] \in ToSet(t)
      BY <1>1 DEF ToSet
    <2>3. QED
      BY <2>1, <2>2 DEF ToSet
  <1>5. QED
    BY <1>1, <1>2, <1>4 DEF t, ToSet, IsInjective

(* A list turned round.                                                      *)
LEMMA ReverseElements ==
    ASSUME NEW M, NEW s \in Seq(M)
    PROVE  /\ Reverse(s) \in Seq(M) /\ ToSet(Reverse(s)) = ToSet(s)
           /\ IsInjective(s) => IsInjective(Reverse(s))
  <1>1. /\ Len(s) \in Nat /\ DOMAIN s = 1..Len(s) /\ DOMAIN Reverse(s) = 1..Len(s)
        /\ \A i \in 1..Len(s) : Len(s) - i + 1 \in 1..Len(s) /\ Reverse(s)[i] = s[Len(s) - i + 1]
    BY DEF Reverse
  <1>2. Reverse(s) \in Seq(M)
    BY <1>1 DEF Reverse
  <1>3. \A i \in 1..Len(s) : s[i] = Reverse(s)[Len(s) - i + 1]
    BY <1>1
  <1>4. ToSet(Reverse(s)) = ToSet(s)
    BY <1>1, <1>3 DEF ToSet
  <1>5. ASSUME IsInjective(s), NEW i \in 1..Len(s), NEW k \in 1..Len(s), Reverse(s)[i] = Reverse(s)[k]
        PROVE  i = k
    <2>1. Len(s) - i + 1 = Len(s) - k + 1
      BY <1>1, <1>5 DEF IsInjective
    <2>2. QED
      BY <1>1, <2>1
  <1>6. QED
    BY <1>1, <1>2, <1>4, <1>5 DEF IsInjective

(* A list without its first e.                                               *)
LEMMA RemoveElements ==
    ASSUME NEW M, NEW s \in Seq(M), NEW e
    PROVE  /\ RemoveFirst(s, e) \in Seq(M) /\ ToSet(RemoveFirst(s, e)) \subseteq ToSet(s)
           /\ ToSet(s) \subseteq ToSet(RemoveFirst(s, e)) \cup {e}
           /\ IsInjective(s) => IsInjective(RemoveFirst(s, e)) /\ e \notin ToSet(RemoveFirst(s, e))
  <1>1. CASE ~\E i \in 1..Len(s) : s[i] = e
    BY <1>1 DEF RemoveFirst, ToSet
  <1>2. CASE \E i \in 1..Len(s) : s[i] = e
    <2> DEFINE I == {i \in 1..Len(s) : s[i] = e}
               n == Min(I)
    <2>1. n \in 1..Len(s) /\ s[n] = e
      <3>1. I \in SUBSET Nat /\ I # {}
        BY <1>2
      <3>2. n \in I
        BY <3>1, MinIn
      <3>3. QED
        BY <3>2
    <2>2. RemoveFirst(s, e) = SubSeq(s, 1, n - 1) \o SubSeq(s, n + 1, Len(s))
      BY <1>2 DEF RemoveFirst, RemoveAt, SelectInSeq
    <2> HIDE DEF n
    <2> DEFINE a == SubSeq(s, 1, n - 1)
               b == SubSeq(s, n + 1, Len(s))
    <2>3. /\ a \in Seq(M) /\ ToSet(a) = {s[i] : i \in 1..(n - 1)} /\ (IsInjective(s) => IsInjective(a))
          /\ b \in Seq(M) /\ ToSet(b) = {s[i] : i \in (n + 1)..Len(s)} /\ (IsInjective(s) => IsInjective(b))
      <3>1. /\ Len(s) \in Nat /\ n + 1 \in 1..(Len(s) + 1) /\ 1 \in 1..(Len(s) + 1)
            /\ Len(s) \in 0..Len(s) /\ n - 1 \in 0..Len(s)
        BY <2>1
      <3>2. a \in Seq(M) /\ ToSet(a) = {s[i] : i \in 1..(n - 1)} /\ (IsInjective(s) => IsInjective(a))
        BY <3>1, PartElements, ZenonT(60)
      <3>3. b \in Seq(M) /\ ToSet(b) = {s[i] : i \in (n + 1)..Len(s)} /\ (IsInjective(s) => IsInjective(b))
        BY <3>1, PartElements, ZenonT(60)
      <3>4. QED
        BY <3>2, <3>3
    <2>4. /\ \A i \in 1..(n - 1) : i \in DOMAIN s /\ i # n /\ i \notin (n + 1)..Len(s)
          /\ \A i \in (n + 1)..Len(s) : i \in DOMAIN s /\ i # n
          /\ n \in DOMAIN s
      BY <2>1
    <2> HIDE DEF a, b
    <2>5. ASSUME IsInjective(s) PROVE ToSet(a) \cap ToSet(b) = {} /\ e \notin ToSet(a) /\ e \notin ToSet(b)
      <3>1. \A i \in 1..(n - 1), k \in (n + 1)..Len(s) : s[i] # s[k]
        BY <2>4, <2>5 DEF IsInjective
      <3>2. \A i \in 1..(n - 1) : s[i] # e
        BY <2>1, <2>4, <2>5 DEF IsInjective
      <3>3. \A i \in (n + 1)..Len(s) : s[i] # e
        BY <2>1, <2>4, <2>5 DEF IsInjective
      <3>4. QED
        BY <2>3, <3>1, <3>2, <3>3
    <2>6. ToSet(a) \subseteq ToSet(s) /\ ToSet(b) \subseteq ToSet(s)
      BY <2>3, <2>4 DEF ToSet
    <2>7. ToSet(s) \subseteq ToSet(a) \cup ToSet(b) \cup {e}
      <3>1. \A i \in DOMAIN s : i \in 1..(n - 1) \/ i \in (n + 1)..Len(s) \/ i = n
        BY <2>1
      <3>2. QED
        BY <2>1, <2>3, <3>1 DEF ToSet
    <2>8. RemoveFirst(s, e) = a \o b
      BY <2>2 DEF a, b
    <2>9. /\ a \o b \in Seq(M) /\ ToSet(a \o b) = ToSet(a) \cup ToSet(b)
          /\ IsInjective(a) /\ IsInjective(b) /\ ToSet(a) \cap ToSet(b) = {} => IsInjective(a \o b)
      BY <2>3, ConcatElements, ZenonT(60)
    <2>10. QED
      BY <2>3, <2>5, <2>6, <2>7, <2>8, <2>9
  <1>3. QED
    BY <1>1, <1>2

-----------------------------------------------------------------------------
(* Lists without repetitions.                                                *)
Lists(S) == {s \in Seq(S) : IsInjective(s)}

(* A set of positions of a list has a last one.                              *)
LEMMA MaxIn ==
    ASSUME NEW n \in Nat, NEW I \in SUBSET (1..n), I # {}
    PROVE  Max(I) \in I /\ \A i \in I : i <= Max(I)
  <1> DEFINE J == {n - i : i \in I}
  <1>1. J \in SUBSET Nat /\ J # {}
    <2>1. \A i \in I : i \in 1..n
      OBVIOUS
    <2>2. \A i \in 1..n : n - i \in Nat
      OBVIOUS
    <2>3. QED
      BY <2>1, <2>2
  <1>3. \E x \in J : \A y \in J : x <= y
    <2> DEFINE less == OpToRel(<, Nat)
    <2>1. \A x, y \in Nat : y < x => <<y, x>> \in less
      BY DEF OpToRel
    <2>2. \E x \in J : \A y \in J : ~(<<y, x>> \in less)
      BY <1>1, NatLessThanWellFounded, WFMin
    <2> HIDE DEF less, J
    <2>3. PICK x \in J : \A y \in J : ~(<<y, x>> \in less)
      BY <2>2
    <2>4. \A y \in J : ~(y < x)
      BY <1>1, <2>1, <2>3
    <2>5. \A y \in J : x <= y
      BY <1>1, <2>4
    <2>6. QED
      BY <2>5
  <1>4. \E i \in I : \A k \in I : i >= k
    <2>1. PICK x \in J : \A y \in J : x <= y
      BY <1>3
    <2>8. PICK i \in I : x = n - i
      BY <2>1
    <2>2. \A k \in I : k \in 1..n /\ n - k \in J
      OBVIOUS
    <2> HIDE DEF J
    <2>3. \A k \in I : k \in Int /\ n - i <= n - k
      <3>1. \A k \in I : x <= n - k
        BY <2>1, <2>2
      <3>2. QED
        BY <2>2, <2>8, <3>1
    <2>5. i \in Int
      BY <2>2
    <2>6. \A k \in I : i >= k
      BY <2>3, <2>5
    <2>7. QED
      BY <2>6
  <1>5. QED
    BY <1>4 DEF Max

(* The empty list, the list of one name, and a list with one more at its end.*)
LEMMA NoElements ==
    ASSUME NEW M
    PROVE  <<>> \in Lists(M) /\ ToSet(<<>>) = {}
  BY DEF Lists, ToSet, IsInjective

LEMMA OneElement ==
    ASSUME NEW M, NEW e \in M
    PROVE  <<e>> \in Lists(M) /\ ToSet(<<e>>) = {e}
  BY DEF Lists, ToSet, IsInjective

LEMMA AppendElements ==
    ASSUME NEW M, NEW s \in Lists(M), NEW e \in M
    PROVE  /\ ToSet(Append(s, e)) = ToSet(s) \cup {e}
           /\ e \notin ToSet(s) => Append(s, e) \in Lists(M)
  <1> DEFINE t == Append(s, e)
  <1>1. /\ s \in Seq(M) /\ IsInjective(s) /\ t \in Seq(M) /\ Len(s) \in Nat
        /\ DOMAIN s = 1..Len(s) /\ DOMAIN t = 1..(Len(s) + 1)
        /\ \A i \in 1..Len(s) : t[i] = s[i]
        /\ t[Len(s) + 1] = e
    BY DEF Lists
  <1> HIDE DEF t
  <1>3. ToSet(t) = ToSet(s) \cup {e}
    <2>1. \A i \in DOMAIN t : i \in DOMAIN s \/ i = Len(s) + 1
      BY <1>1
    <2>2. \A i \in DOMAIN s : i \in DOMAIN t
      BY <1>1
    <2>3. Len(s) + 1 \in DOMAIN t
      BY <1>1
    <2>4. QED
      BY <1>1, <2>1, <2>2, <2>3 DEF ToSet
  <1>4. ASSUME e \notin ToSet(s) PROVE IsInjective(t)
    <2>1. \A i \in DOMAIN s : s[i] # e
      BY <1>4 DEF ToSet
    <2>2. QED
      BY <1>1, <2>1 DEF IsInjective
  <1>5. QED
    BY <1>1, <1>3, <1>4 DEF t, Lists

(* A list without the element at k.                                          *)
LEMMA RemoveAtElements ==
    ASSUME NEW M, NEW s \in Lists(M), NEW k \in DOMAIN s
    PROVE  /\ RemoveAt(s, k) \in Lists(M) /\ ToSet(RemoveAt(s, k)) = ToSet(s) \ {s[k]}
           /\ Len(RemoveAt(s, k)) = Len(s) - 1
           /\ s[k] \in M /\ s[k] \in ToSet(s)
  <1> DEFINE a == SubSeq(s, 1, k - 1)
             b == SubSeq(s, k + 1, Len(s))
  <1>1. s \in Seq(M) /\ IsInjective(s) /\ Len(s) \in Nat /\ DOMAIN s = 1..Len(s)
    BY DEF Lists
  <1>2. /\ k \in 1..Len(s) /\ k + 1 \in 1..(Len(s) + 1) /\ 1 \in 1..(Len(s) + 1)
        /\ Len(s) \in 0..Len(s) /\ k - 1 \in 0..Len(s)
    BY <1>1
  <1>3. a \in Seq(M) /\ ToSet(a) = {s[i] : i \in 1..(k - 1)} /\ IsInjective(a)
    BY <1>1, <1>2, PartIs
  <1>4. b \in Seq(M) /\ ToSet(b) = {s[i] : i \in (k + 1)..Len(s)} /\ IsInjective(b)
    BY <1>1, <1>2, PartIs
  <1>5. Len(a) = k - 1 /\ Len(b) = Len(s) - k /\ RemoveAt(s, k) = a \o b
    BY <1>1, <1>2 DEF RemoveAt
  <1>6. /\ \A i \in 1..(k - 1) : i \in DOMAIN s /\ i # k /\ i \notin (k + 1)..Len(s)
        /\ \A i \in (k + 1)..Len(s) : i \in DOMAIN s /\ i # k
        /\ \A i \in DOMAIN s : i \in 1..(k - 1) \/ i \in (k + 1)..Len(s) \/ i = k
    BY <1>1, <1>2
  <1> HIDE DEF a, b
  <1>7. ToSet(a) \cap ToSet(b) = {} /\ ToSet(a) \cup ToSet(b) = ToSet(s) \ {s[k]}
    <2>1. \A i \in 1..(k - 1), j \in (k + 1)..Len(s) : s[i] # s[j]
      BY <1>1, <1>6 DEF IsInjective
    <2>2. /\ \A i \in 1..(k - 1) : s[i] # s[k] /\ s[i] \in ToSet(s)
          /\ \A i \in (k + 1)..Len(s) : s[i] # s[k] /\ s[i] \in ToSet(s)
      BY <1>1, <1>6 DEF IsInjective, ToSet
    <2>3. \A x \in ToSet(s) : x # s[k] => x \in ToSet(a) \cup ToSet(b)
      BY <1>3, <1>4, <1>6 DEF ToSet
    <2>4. QED
      BY <1>3, <1>4, <2>1, <2>2, <2>3
  <1>8. /\ a \o b \in Seq(M) /\ ToSet(a \o b) = ToSet(a) \cup ToSet(b) /\ IsInjective(a \o b)
    BY <1>3, <1>4, <1>7, ConcatElements, ZenonT(60)
  <1>9. Len(a \o b) = Len(s) - 1
    <2>1. Len(a \o b) = Len(a) + Len(b)
      BY <1>3, <1>4
    <2>2. QED
      BY <1>1, <1>2, <1>5, <2>1
  <1>10. s[k] \in M /\ s[k] \in ToSet(s)
    BY <1>1 DEF ToSet
  <1>11. QED
    BY <1>5, <1>7, <1>8, <1>9, <1>10 DEF Lists

(* A list with e put in at j.                                                *)
LEMMA InsertAtElements ==
    ASSUME NEW M, NEW s \in Lists(M), NEW e \in M, NEW j \in 1..(Len(s) + 1)
    PROVE  e \notin ToSet(s) =>
             InsertAt(s, j, e) \in Lists(M) /\ ToSet(InsertAt(s, j, e)) = ToSet(s) \cup {e}
  <1> DEFINE a == SubSeq(s, 1, j - 1)
             b == SubSeq(s, j, Len(s))
  <1>1. s \in Seq(M) /\ IsInjective(s) /\ Len(s) \in Nat /\ DOMAIN s = 1..Len(s)
    BY DEF Lists
  <1>2. /\ 1 \in 1..(Len(s) + 1) /\ Len(s) \in 0..Len(s) /\ j - 1 \in 0..Len(s)
        /\ j \in 1..(Len(s) + 1)
    BY <1>1
  <1>3. a \in Seq(M) /\ ToSet(a) = {s[i] : i \in 1..(j - 1)} /\ IsInjective(a)
    BY <1>1, <1>2, PartIs
  <1>4. b \in Seq(M) /\ ToSet(b) = {s[i] : i \in j..Len(s)} /\ IsInjective(b)
    BY <1>1, <1>2, PartIs
  <1> DEFINE o == <<e>>
  <1>5. o \in Seq(M) /\ ToSet(o) = {e} /\ IsInjective(o) /\ InsertAt(s, j, e) = (a \o o) \o b
    BY DEF InsertAt, ToSet, IsInjective
  <1>6. /\ \A i \in 1..(j - 1) : i \in DOMAIN s /\ i \notin j..Len(s)
        /\ \A i \in j..Len(s) : i \in DOMAIN s
        /\ \A i \in DOMAIN s : i \in 1..(j - 1) \/ i \in j..Len(s)
    BY <1>1
  <1> HIDE DEF a, b
  <1>7. ToSet(a) \cap ToSet(b) = {} /\ ToSet(a) \cup ToSet(b) = ToSet(s)
    <2>1. \A i \in 1..(j - 1), k \in j..Len(s) : s[i] # s[k]
      BY <1>1, <1>6 DEF IsInjective
    <2>2. \A x \in ToSet(s) : x \in ToSet(a) \cup ToSet(b)
      BY <1>3, <1>4, <1>6 DEF ToSet
    <2>3. ToSet(a) \subseteq ToSet(s) /\ ToSet(b) \subseteq ToSet(s)
      BY <1>3, <1>4, <1>6 DEF ToSet
    <2>4. QED
      BY <1>3, <1>4, <2>1, <2>2, <2>3
  <1> HIDE DEF o
  <1>8. ASSUME e \notin ToSet(s) PROVE ToSet(a) \cap ToSet(o) = {} /\ ToSet(a) \cap ToSet(b) = {} /\ ToSet(o) \cap ToSet(b) = {}
    BY <1>5, <1>7, <1>8
  <1>9. /\ a \o o \in Seq(M) /\ ToSet(a \o o) = ToSet(a) \cup ToSet(o)
        /\ ToSet(a) \cap ToSet(o) = {} => IsInjective(a \o o)
    BY <1>3, <1>5, ConcatElements, ZenonT(60)
  <1> DEFINE c == a \o o
  <1> HIDE DEF c
  <1>10. c \in Seq(M)
    BY <1>9 DEF c
  <1>11. /\ c \o b \in Seq(M) /\ ToSet(c \o b) = ToSet(c) \cup ToSet(b)
         /\ IsInjective(c) /\ ToSet(c) \cap ToSet(b) = {} => IsInjective(c \o b)
    BY <1>4, <1>10, ConcatElements, ZenonT(60)
  <1>12. InsertAt(s, j, e) = c \o b
    BY <1>5 DEF c
  <1>13. ASSUME e \notin ToSet(s) PROVE IsInjective(c) /\ ToSet(c) \cap ToSet(b) = {}
    BY <1>8, <1>9, <1>13 DEF c
  <1>14. ToSet(c) \cup ToSet(b) = ToSet(s) \cup {e}
    BY <1>5, <1>7, <1>9 DEF c
  <1>15. QED
    BY <1>11, <1>12, <1>13, <1>14 DEF Lists

(* The first n positions.                                                    *)
LEMMA UpTo ==
    ASSUME NEW n \in Nat
    PROVE  IsFiniteSet(1..n) /\ Cardinality(1..n) = n
  BY FS_Interval

(* A list without repetitions is as long as it has elements.                 *)
LEMMA DistinctList ==
    ASSUME NEW M, NEW s \in Lists(M)
    PROVE  Cardinality(ToSet(s)) = Len(s)
  <1>1. Len(s) \in Nat /\ DOMAIN s = 1..Len(s) /\ s \in [1..Len(s) -> ToSet(s)] /\ IsInjective(s)
    BY DEF Lists, ToSet
  <1>2. IsFiniteSet(1..Len(s)) /\ Cardinality(1..Len(s)) = Len(s)
    BY <1>1, FS_Interval
  <1>3. s \in Surjection(1..Len(s), ToSet(s)) /\ s \in Injection(1..Len(s), ToSet(s))
    BY <1>1 DEF Surjection, Injection, ToSet
  <1>4. QED
    BY <1>2, <1>3, FS_Surjection

=============================================================================
