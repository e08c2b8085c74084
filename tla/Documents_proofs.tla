--------------------------- MODULE Documents_proofs -------------------------
(***************************************************************************)
(* Proofs about the documents on the disk and the documents of the rows, for *)
(* every set of names and any number of deaths between two writes.           *)
(***************************************************************************)
EXTENDS Documents, Lists_proofs, SequenceTheorems, FiniteSetTheorems, TLAPS

-----------------------------------------------------------------------------
(* The inductive invariant.                                                  *)

Content  == {c \in [is : {"absent", "broken", "intact"}, names : Lists(Lines \cup Flows \cup {Archived})] :
               c.is # "intact" => c.names = <<>>}
Command  == [file : Files, content : Content]
Rows     == UNION {[D -> Lists(Flows)] : D \in SUBSET Lines}
Gui      == [on : BOOLEAN, pending : SUBSET Projects, shown : SUBSET Projects,
             doc : [Projects -> Lists(Lines)], row : [Projects -> Rows],
             project : Projects \cup {Nothing}, line : Lines \cup {Nothing}, browser : Lists(Flows),
             cache : SUBSET Flows, clip : Flows \cup {Nothing}]

ListedIn(B) == UNION {B[p] : p \in Projects}

(* Every document names what is of its kind, was made and was not deleted,   *)
(* and shares it with no other, B[f] being what f names.                     *)
Apart(B, m, gone) ==
    /\ \A p \in Projects : B[p] \subseteq (Lines \cap m) \ gone
    /\ \A l \in Lines : B[l] \subseteq (Flows \cap m) \cup {Archived}
    /\ \A l \in ListedIn(B) : B[l] \subseteq (Flows \cap m) \ gone
    /\ \A l \in Lines : B[l] \cap gone \subseteq {Archived}
    /\ \A f \in Flows : B[f] = {}
    /\ \A p, q \in Projects : p # q => B[p] \cap B[q] = {}
    /\ \A l, k \in Lines : l # k => B[l] \cap B[k] \subseteq {Archived}
    /\ \A l, k \in ListedIn(B) : l # k => B[l] \cap B[k] = {}

NamesIn(d) == [f \in Files |-> ToSet(d[f].names)]

DiskOK(d, m, gone) ==
    /\ d \in [Files -> Content]
    /\ \A f \in Files : f \notin m \/ f \in gone => d[f] = Absent
    /\ Apart(NamesIn(d), m, gone)

RowsOK(d, g) ==
    /\ g.pending \cap g.shown = {}
    /\ \A p \in g.shown :
         /\ d[p] = Intact(g.doc[p])
         /\ DOMAIN g.row[p] \subseteq ToSet(g.doc[p])
         /\ \A l \in DOMAIN g.row[p] : d[l] = Intact(g.row[p][l])
    /\ \A p \in Projects \ g.shown : g.doc[p] = <<>> /\ DOMAIN g.row[p] = {}

SelectionOK(g) ==
    /\ g.project # Nothing => g.project \in g.shown
    /\ g.line # Nothing =>
         /\ g.project # Nothing /\ g.line \in DOMAIN g.row[g.project]
         /\ ToSet(g.browser) \subseteq ToSet(g.row[g.project][g.line])
    /\ g.line = Nothing => g.browser = <<>>

Whole(d, g) ==
    /\ \A f \in Files : d[f].is # "broken"
    /\ \A l \in Lines : d[l] # Absent <=> \E p \in Projects : l \in ToSet(d[p].names)
    /\ \A f \in Flows : d[f] # Absent <=> \E l \in Lines : f \in ToSet(d[l].names)
    /\ \A p \in g.shown : ToSet(g.doc[p]) \subseteq DOMAIN g.row[p]

(* Elements of both lists come in the same order in both.                    *)
InOrder(s, t) ==
    \A x, y \in ToSet(s) : Before(s, x, y) => Before(t, x, y)

(* The browser shows flows in the order of the line, from the cache, and     *)
(* what is cached has its file unless it was deleted.                        *)
BrowserOK(d, g, gone) ==
    /\ g.line # Nothing => InOrder(g.browser, g.row[g.project][g.line])
    /\ ToSet(g.browser) \subseteq g.cache
    /\ \A f \in g.cache : f \in gone \/ d[f].is = "intact"

DInv ==
    /\ made \subseteq Files /\ crashes \in Nat /\ drags \in Nat
    /\ drags = 0 => /\ deleted \subseteq made
                    /\ DiskOK(disk, made, deleted)
                    /\ gui \in Gui /\ RowsOK(disk, gui) /\ SelectionOK(gui)
                    /\ BrowserOK(disk, gui, deleted)
                    /\ crashes = 0 => Whole(disk, gui)

-----------------------------------------------------------------------------
(* The order of lists.                                                       *)

(* A list without repetitions: places and names determine each other.        *)
LEMMA AtIs ==
    ASSUME NEW M, NEW s \in Lists(M)
    PROVE  /\ \A i \in DOMAIN s : At(s, s[i]) = i /\ s[i] \in ToSet(s)
           /\ \A x \in ToSet(s) : At(s, x) \in 1..Len(s) /\ s[At(s, x)] = x
           /\ \A x, y \in ToSet(s) : At(s, x) = At(s, y) => x = y
  <1>1. IsInjective(s) /\ DOMAIN s = 1..Len(s)
    BY DEF Lists
  <1>2. \A i \in DOMAIN s : At(s, s[i]) = i /\ s[i] \in ToSet(s)
    BY <1>1 DEF At, IsInjective, ToSet
  <1>3. \A x \in ToSet(s) : \E i \in DOMAIN s : s[i] = x
    BY DEF ToSet
  <1>4. \A x \in ToSet(s) : At(s, x) \in 1..Len(s) /\ s[At(s, x)] = x
    BY <1>1, <1>2, <1>3
  <1>5. QED
    BY <1>2, <1>4

(* What comes before what, by the places.                                    *)
LEMMA BeforeAt ==
    ASSUME NEW M, NEW s \in Lists(M), NEW x \in ToSet(s), NEW y \in ToSet(s)
    PROVE  Before(s, x, y) <=> At(s, x) < At(s, y)
  <1>1. DOMAIN s = 1..Len(s)
    BY DEF Lists
  <1>2. ASSUME NEW i \in DOMAIN s, NEW j \in DOMAIN s, i < j, s[i] = x, s[j] = y
        PROVE  At(s, x) < At(s, y)
    BY <1>2, AtIs
  <1>3. ASSUME At(s, x) < At(s, y)
        PROVE  \E i, j \in DOMAIN s : i < j /\ s[i] = x /\ s[j] = y
    BY <1>1, <1>3, AtIs
  <1>4. QED
    BY <1>2, <1>3 DEF Before

(* The places of a concatenation.                                            *)
LEMMA ConcatPlaces ==
    ASSUME NEW M, NEW a \in Seq(M), NEW b \in Seq(M), NEW r, r = a \o b
    PROVE  /\ r \in Seq(M) /\ Len(r) = Len(a) + Len(b)
           /\ \A i \in 1..Len(a) : r[i] = a[i]
           /\ \A i \in 1..Len(b) : r[Len(a) + i] = b[i]
  OBVIOUS

(* The places of a part.                                                     *)
LEMMA PartPlaces ==
    ASSUME NEW M, NEW s \in Seq(M), NEW k \in 1..(Len(s) + 1), NEW n \in 0..Len(s), k <= n + 1
    PROVE  /\ SubSeq(s, k, n) \in Seq(M) /\ Len(SubSeq(s, k, n)) = n - k + 1
           /\ \A i \in 1..(n - k + 1) : SubSeq(s, k, n)[i] = s[k + i - 1]
  OBVIOUS

(* When a name goes, those behind it move up by one place.                   *)
LEMMA RemovePlaces ==
    ASSUME NEW M, NEW s \in Lists(M), NEW e \in ToSet(s)
    PROVE  LET r == RemoveFirst(s, e)
           IN /\ r \in Lists(M) /\ ToSet(r) = ToSet(s) \ {e} /\ Len(r) = Len(s) - 1
              /\ \A x \in ToSet(r) : At(r, x) = IF At(s, x) < At(s, e) THEN At(s, x) ELSE At(s, x) - 1
  <1> DEFINE r == RemoveFirst(s, e)
             k == At(s, e)
             a == SubSeq(s, 1, k - 1)
             b == SubSeq(s, k + 1, Len(s))
  <1>1. s \in Seq(M) /\ IsInjective(s) /\ Len(s) \in Nat /\ DOMAIN s = 1..Len(s)
    BY DEF Lists
  <1>2. k \in 1..Len(s) /\ s[k] = e
    BY AtIs
  <1>3. r = RemoveAt(s, k)
    <2> DEFINE I == {i \in 1..Len(s) : s[i] = e}
    <2>1. I = {k}
      BY <1>1, <1>2 DEF IsInjective
    <2>2. Min(I) \in I
      <3>1. I \in SUBSET Nat /\ I # {}
        BY <1>2
      <3> HIDE DEF I
      <3>2. QED
        BY <3>1, MinIn
    <2>3. Min(I) = k
      BY <2>1, <2>2
    <2>4. QED
      BY <1>2, <2>1, <2>3 DEF RemoveFirst, SelectInSeq
  <1>4. r \in Lists(M) /\ ToSet(r) = ToSet(s) \ {e} /\ Len(r) = Len(s) - 1
    <2>1. k \in DOMAIN s
      BY <1>1, <1>2
    <2> HIDE DEF k, r
    <2>2. /\ RemoveAt(s, k) \in Lists(M) /\ ToSet(RemoveAt(s, k)) = ToSet(s) \ {s[k]}
          /\ Len(RemoveAt(s, k)) = Len(s) - 1
      BY <2>1, RemoveAtElements
    <2>3. QED
      BY <1>2, <1>3, <2>2
  <1>5. \A i \in 1..Len(s) - 1 : r[i] = IF i < k THEN s[i] ELSE s[i + 1]
    <2>1. r = a \o b
      BY <1>3 DEF RemoveAt
    <2>a. /\ 1 \in 1..(Len(s) + 1) /\ k - 1 \in 0..Len(s) /\ 1 <= (k - 1) + 1
          /\ k + 1 \in 1..(Len(s) + 1) /\ Len(s) \in 0..Len(s) /\ k + 1 <= Len(s) + 1
      BY <1>1, <1>2
    <2> HIDE DEF k
    <2>b. /\ a \in Seq(M) /\ Len(a) = (k - 1) - 1 + 1 /\ \A i \in 1..((k - 1) - 1 + 1) : a[i] = s[1 + i - 1]
      BY <1>1, <2>a, PartPlaces, ZenonT(60)
    <2>c. /\ b \in Seq(M) /\ Len(b) = Len(s) - (k + 1) + 1
          /\ \A i \in 1..(Len(s) - (k + 1) + 1) : b[i] = s[(k + 1) + i - 1]
      BY <1>1, <2>a, PartPlaces, ZenonT(60)
    <2> HIDE DEF a, b, r
    <2>2. /\ Len(a) = k - 1 /\ \A i \in 1..(k - 1) : a[i] = s[i]
          /\ Len(b) = Len(s) - k /\ \A i \in 1..(Len(s) - k) : b[i] = s[k + i]
      BY <1>1, <1>2, <2>b, <2>c
    <2>d. /\ \A i \in 1..Len(a) : r[i] = a[i]
          /\ \A i \in 1..Len(b) : r[Len(a) + i] = b[i]
      BY <2>1, <2>b, <2>c, ConcatPlaces
    <2> SUFFICES ASSUME NEW i \in 1..Len(s) - 1 PROVE r[i] = IF i < k THEN s[i] ELSE s[i + 1]
      OBVIOUS
    <2>3. CASE i < k
      BY <1>1, <1>2, <2>2, <2>d, <2>3
    <2>4. CASE i >= k
      <3> DEFINE j == i - k + 1
      <3>1. j \in 1..Len(b) /\ Len(a) + j = i /\ k + j = i + 1 /\ j \in 1..(Len(s) - k)
        BY <1>1, <1>2, <2>2, <2>4
      <3> HIDE DEF j
      <3>2. r[i] = b[j] /\ b[j] = s[i + 1]
        BY <2>2, <2>d, <3>1
      <3>3. QED
        BY <1>1, <1>2, <2>4, <3>2
    <2>5. QED
      BY <1>1, <1>2, <2>3, <2>4
  <1> HIDE DEF r, k
  <1>6. ASSUME NEW x \in ToSet(r)
        PROVE  At(r, x) = IF At(s, x) < k THEN At(s, x) ELSE At(s, x) - 1
    <2> DEFINE i == At(s, x)
               j == IF i < k THEN i ELSE i - 1
    <2>1. i \in 1..Len(s) /\ s[i] = x /\ i # k
      BY <1>2, <1>4, AtIs
    <2> HIDE DEF i
    <2>2. j \in 1..Len(s) - 1 /\ r[j] = x
      BY <1>1, <1>2, <1>5, <2>1
    <2> HIDE DEF j
    <2>3. j \in DOMAIN r
      BY <1>4, <2>2 DEF Lists
    <2>4. At(r, x) = j
      BY <1>4, <2>2, <2>3, AtIs
    <2>5. QED
      BY <2>4 DEF j, i
  <1>7. QED
    BY <1>4, <1>6 DEF r, k

(* When a name is put at place j, those from j on move down by one.          *)
LEMMA InsertPlaces ==
    ASSUME NEW M, NEW s \in Lists(M), NEW e \in M, e \notin ToSet(s), NEW j \in 1..(Len(s) + 1)
    PROVE  LET t == InsertAt(s, j, e)
           IN /\ t \in Lists(M) /\ ToSet(t) = ToSet(s) \cup {e}
              /\ At(t, e) = j
              /\ \A x \in ToSet(s) : At(t, x) = IF At(s, x) < j THEN At(s, x) ELSE At(s, x) + 1
  <1> DEFINE t == InsertAt(s, j, e)
             a == SubSeq(s, 1, j - 1)
             b == SubSeq(s, j, Len(s))
             o == <<e>>
  <1>1. s \in Seq(M) /\ Len(s) \in Nat /\ DOMAIN s = 1..Len(s)
    BY DEF Lists
  <1>2. t \in Lists(M) /\ ToSet(t) = ToSet(s) \cup {e}
    BY InsertAtElements
  <1>3. Len(t) = Len(s) + 1 /\ t[j] = e /\ \A i \in 1..Len(s) : t[IF i < j THEN i ELSE i + 1] = s[i]
    <2>a. /\ 1 \in 1..(Len(s) + 1) /\ j - 1 \in 0..Len(s) /\ 1 <= (j - 1) + 1
          /\ Len(s) \in 0..Len(s) /\ j <= Len(s) + 1
      BY <1>1
    <2>b. /\ a \in Seq(M) /\ Len(a) = (j - 1) - 1 + 1 /\ \A i \in 1..((j - 1) - 1 + 1) : a[i] = s[1 + i - 1]
      BY <1>1, <2>a, PartPlaces, ZenonT(60)
    <2>c. /\ b \in Seq(M) /\ Len(b) = Len(s) - j + 1 /\ \A i \in 1..(Len(s) - j + 1) : b[i] = s[j + i - 1]
      BY <1>1, <2>a, PartPlaces, ZenonT(60)
    <2>d. o \in Seq(M) /\ Len(o) = 1 /\ o[1] = e
      OBVIOUS
    <2> HIDE DEF a, b, o
    <2>1. /\ a \in Seq(M) /\ Len(a) = j - 1 /\ \A i \in 1..(j - 1) : a[i] = s[i]
          /\ b \in Seq(M) /\ Len(b) = Len(s) - j + 1 /\ \A i \in 1..(Len(s) - j + 1) : b[i] = s[j + i - 1]
          /\ o \in Seq(M) /\ Len(o) = 1 /\ o[1] = e
      BY <1>1, <2>b, <2>c, <2>d
    <2>2. t = (a \o o) \o b
      BY DEF InsertAt, a, b, o
    <2> HIDE DEF t
    <2> DEFINE c == a \o o
    <2>e. /\ c \in Seq(M) /\ Len(c) = Len(a) + Len(o) /\ \A i \in 1..Len(a) : c[i] = a[i]
          /\ \A i \in 1..Len(o) : c[Len(a) + i] = o[i]
      <3>1. a \in Seq(M) /\ o \in Seq(M) /\ c = a \o o
        BY <2>1
      <3> HIDE DEF c
      <3>2. QED
        BY <3>1, ConcatPlaces
    <2> HIDE DEF c
    <2>3. c \in Seq(M) /\ Len(c) = j /\ c[j] = e /\ \A i \in 1..(j - 1) : c[i] = s[i]
      <3>1. 1 \in 1..Len(o) /\ Len(a) + 1 = j
        BY <1>1, <2>1
      <3>2. c[j] = e
        BY <2>1, <2>e, <3>1
      <3>3. QED
        BY <1>1, <2>1, <2>e, <3>1, <3>2
    <2>f. /\ Len(t) = Len(c) + Len(b) /\ \A i \in 1..Len(c) : t[i] = c[i]
          /\ \A i \in 1..Len(b) : t[Len(c) + i] = b[i]
      <3>1. c \in Seq(M) /\ b \in Seq(M) /\ t = c \o b
        BY <2>1, <2>2, <2>3 DEF c
      <3>2. QED
        BY <3>1, ConcatPlaces
    <2>4. Len(t) = Len(s) + 1 /\ t[j] = e
      BY <1>1, <2>1, <2>3, <2>f
    <2>5. ASSUME NEW i \in 1..Len(s) PROVE t[IF i < j THEN i ELSE i + 1] = s[i]
      <3>1. CASE i < j
        BY <1>1, <2>3, <2>f, <3>1
      <3>2. CASE i >= j
        <4> DEFINE k == i - j + 1
        <4>1. k \in 1..Len(b) /\ Len(c) + k = i + 1 /\ j + k - 1 = i /\ k \in 1..(Len(s) - j + 1)
          BY <1>1, <2>1, <2>3, <3>2
        <4> HIDE DEF k
        <4>2. t[i + 1] = b[k] /\ b[k] = s[i]
          BY <2>1, <2>f, <4>1
        <4>3. QED
          BY <1>1, <3>2, <4>2
      <3>3. QED
        BY <1>1, <3>1, <3>2
    <2>6. QED
      BY <2>4, <2>5
  <1> HIDE DEF t
  <1>4. DOMAIN t = 1..Len(s) + 1
    BY <1>2, <1>3 DEF Lists
  <1>5. At(t, e) = j
    BY <1>2, <1>3, <1>4, AtIs
  <1>6. ASSUME NEW x \in ToSet(s)
        PROVE  At(t, x) = IF At(s, x) < j THEN At(s, x) ELSE At(s, x) + 1
    <2> DEFINE i == At(s, x)
               k == IF i < j THEN i ELSE i + 1
    <2>1. i \in 1..Len(s) /\ s[i] = x
      BY AtIs
    <2> HIDE DEF i
    <2>2. k \in DOMAIN t /\ t[k] = x
      BY <1>1, <1>3, <1>4, <2>1
    <2> HIDE DEF k
    <2>3. At(t, x) = k
      BY <1>2, <2>2, AtIs
    <2>4. QED
      BY <2>3 DEF k, i
  <1>7. QED
    BY <1>2, <1>5, <1>6 DEF t

(* The places after e was moved beside the element g.                        *)
LEMMA BesidePlaces ==
    ASSUME NEW M, NEW s \in Lists(M), NEW f \in ToSet(s), NEW g \in ToSet(s), f # g, NEW after \in BOOLEAN
    PROVE  LET t == Beside(s, f, g, after)
           IN /\ t \in Lists(M) /\ ToSet(t) = ToSet(s)
              /\ \A x, y \in ToSet(s) : x # f /\ y # f =>
                   /\ At(t, x) < At(t, y) <=> At(s, x) < At(s, y)
                   /\ At(t, f) < At(t, x) <=> At(s, g) < At(s, x) \/ (~after /\ x = g)
                   /\ At(t, x) < At(t, f) <=> At(s, x) < At(s, g) \/ (after /\ x = g)
  <1> DEFINE r == RemoveFirst(s, f)
             j == At(r, g) + IF after THEN 1 ELSE 0
             t == InsertAt(r, j, f)
             n == Len(r)
  <1>1. /\ r \in Lists(M) /\ ToSet(r) = ToSet(s) \ {f}
        /\ \A x \in ToSet(r) : At(r, x) = IF At(s, x) < At(s, f) THEN At(s, x) ELSE At(s, x) - 1
    BY RemovePlaces
  <1>2. t = Beside(s, f, g, after) /\ f \in M
    BY DEF Beside, ToSet, Lists
  <1> HIDE DEF r
  <1>3. /\ \A x \in ToSet(r) : At(r, x) \in 1..n
        /\ \A x, y \in ToSet(r) : At(r, x) = At(r, y) => x = y
        /\ n \in Nat /\ j \in 1..(n + 1) /\ f \notin ToSet(r) /\ g \in ToSet(r)
    <2>1. n \in Nat /\ f \notin ToSet(r) /\ g \in ToSet(r)
      BY <1>1 DEF Lists
    <2>2. /\ \A x \in ToSet(r) : At(r, x) \in 1..n
          /\ \A x, y \in ToSet(r) : At(r, x) = At(r, y) => x = y
      BY <1>1, AtIs
    <2> HIDE DEF n
    <2>3. j \in 1..(n + 1)
      BY <2>1, <2>2
    <2>4. QED
      BY <2>1, <2>2, <2>3
  <1> HIDE DEF j, t
  <1>4. /\ t \in Lists(M) /\ ToSet(t) = ToSet(r) \cup {f} /\ At(t, f) = j
        /\ \A x \in ToSet(r) : At(t, x) = IF At(r, x) < j THEN At(r, x) ELSE At(r, x) + 1
    BY <1>1, <1>2, <1>3, InsertPlaces DEF t
  <1>5. /\ \A x \in ToSet(s) : At(s, x) \in Nat
        /\ \A x, y \in ToSet(s) : At(s, x) = At(s, y) => x = y
    BY AtIs
  <1> HIDE DEF n
  <1>6. ASSUME NEW x \in ToSet(s), NEW y \in ToSet(s), x # f, y # f
        PROVE  At(t, x) < At(t, y) <=> At(s, x) < At(s, y)
    <2>1. x \in ToSet(r) /\ y \in ToSet(r)
      BY <1>1, <1>6
    <2>2. At(r, x) < At(r, y) <=> At(s, x) < At(s, y)
      BY <1>1, <1>5, <1>6, <2>1
    <2>3. At(t, x) < At(t, y) <=> At(r, x) < At(r, y)
      BY <1>3, <1>4, <2>1
    <2>4. QED
      BY <2>2, <2>3
  <1>7. ASSUME NEW x \in ToSet(s), x # f
        PROVE  /\ At(t, f) < At(t, x) <=> At(s, g) < At(s, x) \/ (~after /\ x = g)
               /\ At(t, x) < At(t, f) <=> At(s, x) < At(s, g) \/ (after /\ x = g)
    <2>1. x \in ToSet(r) /\ g \in ToSet(r)
      BY <1>1, <1>7
    <2>2. /\ At(r, x) < At(r, g) <=> At(s, x) < At(s, g)
          /\ At(r, g) < At(r, x) <=> At(s, g) < At(s, x)
          /\ At(r, x) = At(r, g) <=> x = g
      BY <1>1, <1>3, <1>5, <1>7, <2>1
    <2>3. /\ At(t, f) < At(t, x) <=> At(r, g) < At(r, x) \/ (~after /\ At(r, x) = At(r, g))
          /\ At(t, x) < At(t, f) <=> At(r, x) < At(r, g) \/ (after /\ At(r, x) = At(r, g))
      <3>1. At(r, x) \in Nat /\ At(r, g) \in Nat /\ At(t, f) = j
            /\ At(t, x) = IF At(r, x) < j THEN At(r, x) ELSE At(r, x) + 1
        BY <1>3, <1>4, <2>1
      <3>2. CASE after
        BY <3>1, <3>2 DEF j
      <3>3. CASE ~after
        BY <3>1, <3>3 DEF j
      <3>4. QED
        BY <3>2, <3>3
    <2>4. QED
      BY <2>2, <2>3
  <1>8. ToSet(t) = ToSet(s)
    BY <1>1, <1>4
  <1>9. QED
    BY <1>2, <1>4, <1>6, <1>7, <1>8

(* The same row and reference dragged beside the same other: the rows still follow the line. *)
LEMMA BesideOrder ==
    ASSUME NEW M, NEW b \in Lists(M), NEW s \in Lists(M), ToSet(b) \subseteq ToSet(s), InOrder(b, s),
           NEW f \in ToSet(b), NEW g \in ToSet(b), f # g, NEW after \in BOOLEAN
    PROVE  InOrder(Beside(b, f, g, after), Beside(s, f, g, after))
  <1> DEFINE u == Beside(b, f, g, after)
             t == Beside(s, f, g, after)
  <1>1. /\ u \in Lists(M) /\ ToSet(u) = ToSet(b)
        /\ \A x, y \in ToSet(b) : x # f /\ y # f =>
             /\ At(u, x) < At(u, y) <=> At(b, x) < At(b, y)
             /\ At(u, f) < At(u, x) <=> At(b, g) < At(b, x) \/ (~after /\ x = g)
             /\ At(u, x) < At(u, f) <=> At(b, x) < At(b, g) \/ (after /\ x = g)
    BY BesidePlaces
  <1>2. /\ t \in Lists(M) /\ ToSet(t) = ToSet(s)
        /\ \A x, y \in ToSet(s) : x # f /\ y # f =>
             /\ At(t, x) < At(t, y) <=> At(s, x) < At(s, y)
             /\ At(t, f) < At(t, x) <=> At(s, g) < At(s, x) \/ (~after /\ x = g)
             /\ At(t, x) < At(t, f) <=> At(s, x) < At(s, g) \/ (after /\ x = g)
    BY BesidePlaces
  <1> HIDE DEF u, t
  <1>3. \A x, y \in ToSet(b) : At(b, x) < At(b, y) => At(s, x) < At(s, y)
    BY BeforeAt DEF InOrder
  <1>4. ASSUME NEW x \in ToSet(b), NEW y \in ToSet(b), At(u, x) < At(u, y) PROVE At(t, x) < At(t, y)
    <2>1. x \in ToSet(s) /\ y \in ToSet(s) /\ ~(At(u, f) < At(u, f))
      BY <1>1, AtIs
    <2>2. CASE x # f /\ y # f
      BY <1>1, <1>2, <1>3, <1>4, <2>1, <2>2
    <2>3. CASE x = f /\ y # f
      BY <1>1, <1>2, <1>3, <1>4, <2>1, <2>3
    <2>4. CASE x # f /\ y = f
      BY <1>1, <1>2, <1>3, <1>4, <2>1, <2>4
    <2>5. QED
      BY <1>4, <2>1, <2>2, <2>3, <2>4
  <1>5. ASSUME NEW x \in ToSet(u), NEW y \in ToSet(u), Before(u, x, y) PROVE Before(t, x, y)
    <2>1. x \in ToSet(b) /\ y \in ToSet(b) /\ At(u, x) < At(u, y)
      BY <1>1, <1>5, BeforeAt
    <2>2. x \in ToSet(t) /\ y \in ToSet(t) /\ At(t, x) < At(t, y)
      BY <1>2, <1>4, <2>1
    <2>3. QED
      BY <1>2, <2>2, BeforeAt
  <1>6. QED
    BY <1>5 DEF InOrder, u, t

(* The same name taken from both.                                            *)
LEMMA RemoveOrder ==
    ASSUME NEW M, NEW b \in Lists(M), NEW s \in Lists(M), ToSet(b) \subseteq ToSet(s), InOrder(b, s),
           NEW f \in ToSet(b)
    PROVE  InOrder(RemoveFirst(b, f), RemoveFirst(s, f))
  <1> DEFINE u == RemoveFirst(b, f)
             t == RemoveFirst(s, f)
  <1>1. /\ u \in Lists(M) /\ ToSet(u) = ToSet(b) \ {f}
        /\ \A x \in ToSet(u) : At(u, x) = IF At(b, x) < At(b, f) THEN At(b, x) ELSE At(b, x) - 1
    BY RemovePlaces
  <1>2. /\ t \in Lists(M) /\ ToSet(t) = ToSet(s) \ {f}
        /\ \A x \in ToSet(t) : At(t, x) = IF At(s, x) < At(s, f) THEN At(s, x) ELSE At(s, x) - 1
    BY RemovePlaces
  <1> HIDE DEF u, t
  <1>3. \A x, y \in ToSet(b) : At(b, x) < At(b, y) => At(s, x) < At(s, y)
    BY BeforeAt DEF InOrder
  <1>4. /\ \A x \in ToSet(b) : At(b, x) \in Nat /\ (x # f => At(b, x) # At(b, f))
        /\ \A x \in ToSet(s) : At(s, x) \in Nat /\ (x # f => At(s, x) # At(s, f))
    BY AtIs
  <1>5. ASSUME NEW x \in ToSet(u), NEW y \in ToSet(u), Before(u, x, y) PROVE Before(t, x, y)
    <2>1. /\ x \in ToSet(b) /\ y \in ToSet(b) /\ x # f /\ y # f /\ f \in ToSet(s)
          /\ x \in ToSet(s) /\ y \in ToSet(s) /\ x \in ToSet(t) /\ y \in ToSet(t)
      BY <1>1, <1>2
    <2>2. At(u, x) < At(u, y)
      BY <1>1, <1>5, BeforeAt
    <2>3. At(b, x) < At(b, y)
      BY <1>1, <1>4, <2>1, <2>2
    <2>4. At(s, x) < At(s, y)
      BY <1>3, <2>1, <2>3
    <2>5. At(t, x) < At(t, y)
      BY <1>2, <1>4, <2>1, <2>4
    <2>6. QED
      BY <1>2, <2>1, <2>5, BeforeAt
  <1>6. QED
    BY <1>5 DEF InOrder, u, t

(* The same new name at the end of both.                                     *)
LEMMA AppendOrder ==
    ASSUME NEW M, NEW b \in Lists(M), NEW s \in Lists(M), ToSet(b) \subseteq ToSet(s), InOrder(b, s),
           NEW e, e \notin ToSet(s)
    PROVE  InOrder(Append(b, e), Append(s, e))
  <1>1. /\ b \in Seq(M) /\ DOMAIN b = 1..Len(b) /\ Len(b) \in Nat
        /\ s \in Seq(M) /\ DOMAIN s = 1..Len(s) /\ Len(s) \in Nat
    BY DEF Lists
  <1> DEFINE u == Append(b, e)
             t == Append(s, e)
  <1>2. /\ DOMAIN u = 1..Len(b) + 1 /\ u[Len(b) + 1] = e /\ \A i \in 1..Len(b) : u[i] = b[i]
        /\ DOMAIN t = 1..Len(s) + 1 /\ t[Len(s) + 1] = e /\ \A i \in 1..Len(s) : t[i] = s[i]
    BY <1>1
  <1> HIDE DEF u, t
  <1>3. ASSUME NEW i \in DOMAIN u, NEW j \in DOMAIN u, i < j PROVE Before(t, u[i], u[j])
    <2>1. i \in 1..Len(b) /\ i \in DOMAIN b
      BY <1>1, <1>2, <1>3
    <2>2. PICK k \in 1..Len(s) : s[k] = u[i]
      <3>1. b[i] \in ToSet(s) /\ u[i] = b[i]
        BY <1>2, <2>1 DEF ToSet
      <3>2. QED
        BY <1>1, <3>1 DEF ToSet
    <2>3. CASE j = Len(b) + 1
      <3>1. k \in DOMAIN t /\ Len(s) + 1 \in DOMAIN t /\ k < Len(s) + 1 /\ t[k] = u[i] /\ t[Len(s) + 1] = u[j]
        BY <1>1, <1>2, <2>2, <2>3
      <3>2. QED
        BY <3>1 DEF Before
    <2>4. CASE j # Len(b) + 1
      <3>1. j \in DOMAIN b /\ j \in 1..Len(b)
        BY <1>1, <1>2, <2>4
      <3>2. Before(b, b[i], b[j]) /\ b[i] \in ToSet(b) /\ b[j] \in ToSet(b)
        BY <1>3, <2>1, <3>1 DEF Before, ToSet
      <3>3. Before(s, b[i], b[j])
        BY <3>2 DEF InOrder
      <3>4. PICK m, n \in DOMAIN s : m < n /\ s[m] = b[i] /\ s[n] = b[j]
        BY <3>3 DEF Before
      <3>5. m \in DOMAIN t /\ n \in DOMAIN t /\ t[m] = u[i] /\ t[n] = u[j]
        BY <1>1, <1>2, <2>1, <3>1, <3>4
      <3>6. QED
        BY <3>4, <3>5 DEF Before
    <2>5. QED
      BY <2>3, <2>4
  <1>4. QED
    BY <1>3 DEF InOrder, Before, u, t

(* A list that has elements of another, each at a later place the later it   *)
(* comes.                                                                    *)
LEMMA ThinnedOrder ==
    ASSUME NEW s, NEW t, NEW at, \A i \in DOMAIN s : at[i] \in DOMAIN t /\ t[at[i]] = s[i],
           \A i, j \in DOMAIN s : i < j => at[i] < at[j]
    PROVE  InOrder(s, t)
  BY DEF InOrder, Before

(* The order of lists is transitive.                                         *)
LEMMA OrderThrough ==
    ASSUME NEW s, NEW t, NEW u, InOrder(s, t), InOrder(t, u), ToSet(s) \subseteq ToSet(t)
    PROVE  InOrder(s, u)
  BY DEF InOrder

-----------------------------------------------------------------------------
(* The operators of the model.                                               *)

(* The names of a list that are in keep: a list of just those, and the whole *)
(* list when all are in keep.                                                *)
LEMMA AmongElements ==
    ASSUME NEW M, NEW s \in Lists(M), NEW keep
    PROVE  /\ Among(s, keep) \in Lists(M)
           /\ ToSet(Among(s, keep)) = ToSet(s) \cap keep
           /\ ToSet(s) \subseteq keep => Among(s, keep) = s
           /\ InOrder(Among(s, keep), s)
  <1> DEFINE K == {i \in DOMAIN s : s[i] \in keep}
             n == Cardinality(K)
             R(i) == {k \in K : k <= i}
             at(m) == CHOOSE i \in K : Cardinality(R(i)) = m
             rank == [i \in K |-> Cardinality(R(i))]
  <1>1. s \in Seq(M) /\ IsInjective(s) /\ Len(s) \in Nat /\ DOMAIN s = 1..Len(s)
    BY DEF Lists
  <1>2. IsFiniteSet(K) /\ n \in Nat
    <2>1. IsFiniteSet(1..Len(s)) /\ K \in SUBSET (1..Len(s))
      BY <1>1, UpTo
    <2>2. IsFiniteSet(K)
      BY <2>1, FS_Subset
    <2>3. QED
      BY <2>2, FS_CardinalityType
  <1>3. \A i \in K : i \in Int /\ i \in R(i) /\ R(i) \in SUBSET K
    BY <1>1
  <1>4. \A i \in K : IsFiniteSet(R(i)) /\ Cardinality(R(i)) \in 1..n
    <2> SUFFICES ASSUME NEW i \in K PROVE IsFiniteSet(R(i)) /\ Cardinality(R(i)) \in 1..n
      OBVIOUS
    <2>1. R(i) \in SUBSET K /\ i \in R(i)
      BY <1>3
    <2> HIDE DEF K, R
    <2>2. IsFiniteSet(R(i)) /\ Cardinality(R(i)) <= n
      BY <1>2, <2>1, FS_Subset
    <2>3. Cardinality(R(i)) \in Nat /\ Cardinality(R(i)) # 0
      BY <2>1, <2>2, FS_CardinalityType, FS_EmptySet
    <2>4. QED
      BY <1>2, <2>2, <2>3
  <1>5. \A i, k \in K : i < k => Cardinality(R(i)) # Cardinality(R(k))
    <2> SUFFICES ASSUME NEW i \in K, NEW k \in K, i < k PROVE Cardinality(R(i)) # Cardinality(R(k))
      OBVIOUS
    <2>1. R(i) \in SUBSET R(k)
      BY <1>3
    <2>2. R(i) # R(k)
      <3>1. k \in R(k) /\ k \notin R(i)
        BY <1>3
      <3>2. QED
        BY <3>1
    <2>3. IsFiniteSet(R(k))
      BY <1>4
    <2> HIDE DEF K, R
    <2>4. QED
      BY <2>1, <2>2, <2>3, FS_Subset
  <1>6. \A i, k \in K : Cardinality(R(i)) = Cardinality(R(k)) => i = k
    <2> SUFFICES ASSUME NEW i \in K, NEW k \in K, Cardinality(R(i)) = Cardinality(R(k)) PROVE i = k
      OBVIOUS
    <2>1. i \in Int /\ k \in Int
      BY <1>3
    <2>2. ~(i < k) /\ ~(k < i)
      BY <1>5
    <2>3. QED
      BY <2>1, <2>2
  <1>7. \A m \in 1..n : \E i \in K : Cardinality(R(i)) = m
    <2>1. rank \in Injection(K, 1..n)
      <3>1. rank \in [K -> 1..n]
        BY <1>4
      <3>2. \A i, k \in DOMAIN rank : rank[i] = rank[k] => i = k
        BY <1>6
      <3>3. QED
        BY <3>1, <3>2 DEF Injection, IsInjective
    <2>2. IsFiniteSet(1..n) /\ Cardinality(1..n) = n
      BY <1>2, UpTo
    <2>3. rank \in Surjection(K, 1..n)
      <3> HIDE DEF rank, K
      <3>1. QED
        BY <2>1, <2>2, FS_Injection DEF n
    <2>4. QED
      BY <2>3 DEF Surjection
  <1>8. \A m \in 1..n : at(m) \in K /\ Cardinality(R(at(m))) = m
    BY <1>7
  <1>9. \A i \in K : at(Cardinality(R(i))) = i
    <2> SUFFICES ASSUME NEW i \in K PROVE at(Cardinality(R(i))) = i
      OBVIOUS
    <2>1. Cardinality(R(i)) \in 1..n
      BY <1>4
    <2>2. at(Cardinality(R(i))) \in K /\ Cardinality(R(at(Cardinality(R(i))))) = Cardinality(R(i))
      BY <1>8, <2>1
    <2>3. QED
      BY <1>6, <2>2
  <1>10. Among(s, keep) = [m \in 1..n |-> s[at(m)]]
    BY DEF Among
  <1>11. \A i \in K : i \in DOMAIN s /\ s[i] \in keep
    OBVIOUS
  <1>12. \A i \in DOMAIN s : s[i] \in keep => i \in K
    OBVIOUS
  <1>13. ASSUME ToSet(s) \subseteq keep PROVE n = Len(s) /\ \A m \in 1..n : at(m) = m
    <2>1. K = 1..Len(s)
      BY <1>1, <1>13 DEF ToSet
    <2>2. n = Len(s)
      BY <1>1, <2>1, UpTo
    <2>3. ASSUME NEW m \in 1..n PROVE at(m) = m
      <3>1. m \in K /\ m \in Nat /\ R(m) = 1..m
        <4> DEFINE Q == K
        <4>1. Q = 1..Len(s) /\ R(m) = {k \in Q : k <= m} /\ m \in 1..Len(s)
          BY <2>1, <2>2
        <4> HIDE DEF Q, R, K, n, at, rank
        <4>2. R(m) = {k \in 1..Len(s) : k <= m} /\ m \in Q /\ m \in Nat
          BY <4>1
        <4>3. {k \in 1..Len(s) : k <= m} = 1..m
          BY <1>1, <4>1
        <4>4. QED
          BY <4>2, <4>3 DEF Q
      <3>2. Cardinality(R(m)) = m
        BY <3>1, UpTo
      <3>3. QED
        BY <1>9, <3>1, <3>2
    <2>4. QED
      BY <2>2, <2>3
  <1>o. \A m, k \in 1..n : m < k => at(m) < at(k)
    <2> SUFFICES ASSUME NEW m \in 1..n, NEW k \in 1..n, m < k PROVE at(m) < at(k)
      OBVIOUS
    <2> DEFINE i == at(m)
               j == at(k)
    <2>1. i \in K /\ j \in K /\ Cardinality(R(i)) = m /\ Cardinality(R(j)) = k
      BY <1>8
    <2> HIDE DEF i, j
    <2>2. i \in Int /\ j \in Int
      BY <1>3, <2>1
    <2>3. ASSUME j < i PROVE FALSE
      <3>1. R(j) \in SUBSET R(i) /\ IsFiniteSet(R(i))
        BY <1>3, <1>4, <2>1, <2>2, <2>3
      <3> DEFINE a == R(i)
                 b == R(j)
      <3> HIDE DEF a, b
      <3>2. Cardinality(b) <= Cardinality(a)
        BY <3>1, FS_Subset DEF a, b
      <3>3. QED
        BY <1>2, <2>1, <3>2 DEF a, b
    <2>4. i < j
      BY <2>1, <2>2, <2>3
    <2>5. QED
      BY <2>4 DEF i, j
  <1> HIDE DEF K, n, R, at, rank
  <1> DEFINE a == [m \in 1..n |-> s[at(m)]]
  <1>14. a \in Seq(M) /\ DOMAIN a = 1..n
    <2>1. \A m \in 1..n : s[at(m)] \in M
      BY <1>1, <1>8, <1>11
    <2>2. QED
      BY <1>2, <2>1
  <1>15. IsInjective(a)
    <2> SUFFICES ASSUME NEW i \in 1..n, NEW k \in 1..n, s[at(i)] = s[at(k)] PROVE i = k
      BY DEF IsInjective
    <2>1. at(i) = at(k)
      BY <1>1, <1>8, <1>11 DEF IsInjective
    <2>2. QED
      BY <1>8, <2>1
  <1>16. ToSet(a) = ToSet(s) \cap keep
    <2>1. \A m \in 1..n : a[m] \in ToSet(s) \cap keep
      BY <1>8, <1>11 DEF ToSet
    <2>2. ASSUME NEW i \in DOMAIN s, s[i] \in keep PROVE s[i] \in ToSet(a)
      <3>1. i \in K
        BY <1>12, <2>2
      <3>2. Cardinality(R(i)) \in 1..n /\ at(Cardinality(R(i))) = i
        BY <1>4, <1>9, <3>1
      <3>3. a[Cardinality(R(i))] = s[i]
        BY <3>2
      <3>4. QED
        BY <1>14, <3>2, <3>3 DEF ToSet
    <2> HIDE DEF a
    <2>3. QED
      BY <1>14, <2>1, <2>2 DEF ToSet
  <1>17. ASSUME ToSet(s) \subseteq keep PROVE a = s
    BY <1>1, <1>13, <1>17
  <1>18. InOrder(a, s)
    <2> DEFINE place == [m \in 1..n |-> at(m)]
    <2>1. \A m \in DOMAIN a : place[m] \in DOMAIN s /\ s[place[m]] = a[m]
      BY <1>8, <1>11, <1>14
    <2>2. \A m, k \in DOMAIN a : m < k => place[m] < place[k]
      BY <1>14, <1>o
    <2> HIDE DEF a, place
    <2>3. QED
      BY <2>1, <2>2, ThinnedOrder
  <1>19. QED
    BY <1>10, <1>14, <1>15, <1>16, <1>17, <1>18 DEF Lists

-----------------------------------------------------------------------------
(* The writes of a handler.                                                  *)

(* The first n writes of s turn the content old of the file f into new.      *)
Turns(s, n, f, old, new) ==
    \/ (\A i \in 1..n : s[i].file # f) /\ new = old
    \/ \E i \in 1..n : /\ s[i].file = f /\ new = s[i].content
                       /\ \A k \in 1..n : s[k].file = f => k <= i

(* A file holds what the last of the writes to it has put there.             *)
LEMMA WrittenIs ==
    ASSUME NEW s \in Seq(Command), NEW n \in 0..Len(s), NEW f \in Files
    PROVE  Turns(s, n, f, disk[f], Written(s, n)[f])
  <1> DEFINE last == {i \in 1..n : s[i].file = f}
  <1>1. Written(s, n)[f] = IF last = {} THEN disk[f] ELSE s[Max(last)].content
    BY DEF Written
  <1>2. CASE last = {}
    BY <1>1, <1>2 DEF Turns
  <1>3. CASE last # {}
    <2>1. Max(last) \in last /\ \A i \in last : i <= Max(last)
      <3>1. n \in Nat /\ last \in SUBSET (1..n)
        OBVIOUS
      <3> HIDE DEF last
      <3>2. QED
        BY <1>3, <3>1, MaxIn
    <2>2. QED
      BY <1>1, <1>3, <2>1 DEF Turns
  <1>4. QED
    BY <1>2, <1>3

LEMMA CommandAt ==
    ASSUME NEW s \in Seq(Command), NEW i \in 1..Len(s)
    PROVE  s[i] \in Command /\ s[i].file \in Files /\ s[i].content \in Content
  <1>1. s[i] \in Command
    OBVIOUS
  <1>2. QED
    BY <1>1 DEF Command

LEMMA WrittenTypes ==
    ASSUME NEW s \in Seq(Command), NEW n \in 0..Len(s), disk \in [Files -> Content]
    PROVE  Written(s, n) \in [Files -> Content]
  <1>1. \A f \in Files : Written(s, n)[f] \in Content
    <2> SUFFICES ASSUME NEW f \in Files PROVE Written(s, n)[f] \in Content
      OBVIOUS
    <2>1. \A i \in 1..n : s[i].content \in Content
      <3>1. \A i \in 1..n : i \in 1..Len(s)
        OBVIOUS
      <3>2. QED
        BY <3>1, CommandAt
    <2>2. QED
      BY <2>1, WrittenIs DEF Turns
  <1>2. QED
    BY <1>1 DEF Written

(* The kinds of contents, and the writes.                                    *)
LEMMA Contents ==
    /\ Absent \in Content /\ Broken \in Content
    /\ \A s \in Lists(Lines \cup Flows \cup {Archived}) : Intact(s) \in Content
    /\ \A c \in Content : /\ c.is \in {"absent", "broken", "intact"}
                          /\ c.names \in Lists(Lines \cup Flows \cup {Archived})
                          /\ c.is = "absent" <=> c = Absent
                          /\ c.is = "broken" <=> c = Broken
                          /\ c.is = "intact" <=> c = Intact(c.names)
  <1>1. <<>> \in Lists(Lines \cup Flows \cup {Archived})
    BY DEF Lists, IsInjective
  <1>2. QED
    BY <1>1 DEF Content, Absent, Broken, Intact

LEMMA ScriptTypes ==
    /\ \A f \in Files : Make(f) \in Seq(Command) /\ Unlink(f) \in Seq(Command)
    /\ \A f \in Files, s \in Lists(Lines \cup Flows \cup {Archived}) : Save(f, s) \in Seq(Command)
    /\ <<>> \in Seq(Command)
  <1>1. \A f \in Files, c \in Content : Write(f, c) \in Command
    BY DEF Write, Command
  <1>2. \A f \in Files : Write(f, Broken) \in Command /\ Write(f, Absent) \in Command
    BY <1>1, Contents
  <1>3. \A f \in Files, s \in Lists(Lines \cup Flows \cup {Archived}) : Write(f, Intact(s)) \in Command
    BY <1>1, Contents
  <1>4. QED
    BY <1>2, <1>3 DEF Make, Save, Unlink

-----------------------------------------------------------------------------
(* Documents that share nothing.                                             *)

LEMMA ApartSmaller ==
    ASSUME NEW B, NEW C, NEW m, NEW gone, NEW M, NEW X, Apart(B, m, gone),
           \A f \in Files : C[f] \subseteq B[f], m \subseteq M, X \subseteq gone
    PROVE  Apart(C, M, X)
  <1>1. /\ \A p \in Projects : p \in Files
        /\ \A l \in Lines : l \in Files
        /\ \A f \in Flows : f \in Files
    BY DEF Files
  <1>2. \A l \in ListedIn(C) : l \in ListedIn(B)
    BY <1>1 DEF ListedIn
  <1>3. \A l \in ListedIn(B) : l \in Lines
    BY DEF Apart, ListedIn
  <1>4. QED
    BY <1>1, <1>2, <1>3 DEF Apart

(* A new line of a project.                                                  *)
LEMMA ApartNewLine ==
    ASSUME NEW B, NEW C, NEW m, NEW gone, NEW p \in Projects, NEW l \in Lines,
           Apart(B, m, gone), gone \subseteq m, l \notin m, B[l] = {},
           C[p] \subseteq B[p] \cup {l}, \A f \in Files : f # p => C[f] \subseteq B[f]
    PROVE  Apart(C, m \cup {l}, gone)
  <1>1. /\ \A q \in Projects : q \in Files /\ q \notin Lines
        /\ \A k \in Lines : k \in Files /\ k \notin Projects
        /\ \A f \in Flows : f \in Files /\ f \notin Projects
    BY NamesAssumption DEF Files
  <1>2. \A k \in ListedIn(C) : k \in ListedIn(B) \/ k = l
    BY <1>1 DEF ListedIn
  <1>3. \A k \in ListedIn(B) : k \in Lines /\ k \in m
    BY DEF Apart, ListedIn
  <1>4. \A k \in Lines : C[k] \subseteq B[k]
    BY <1>1
  <1>5. C[l] = {}
    BY <1>4
  <1>6. \A k \in ListedIn(C) : C[k] \subseteq (Flows \cap (m \cup {l})) \ gone
    BY <1>2, <1>3, <1>4, <1>5 DEF Apart
  <1>7. \A k, j \in ListedIn(C) : k # j => C[k] \cap C[j] = {}
    BY <1>2, <1>3, <1>4, <1>5 DEF Apart
  <1>8. \A q \in Projects : C[q] \subseteq (Lines \cap (m \cup {l})) \ gone
    BY <1>1 DEF Apart
  <1>9. \A q, r \in Projects : q # r => C[q] \cap C[r] = {}
    BY <1>1 DEF Apart
  <1>10. QED
    BY <1>1, <1>4, <1>6, <1>7, <1>8, <1>9 DEF Apart

(* A new flow of a line.                                                     *)
LEMMA ApartNewFlow ==
    ASSUME NEW B, NEW C, NEW m, NEW gone, NEW l \in Lines, NEW f \in Flows,
           Apart(B, m, gone), gone \subseteq m, f \notin m,
           C[l] \subseteq B[l] \cup {f}, \A g \in Files : g # l => C[g] \subseteq B[g]
    PROVE  Apart(C, m \cup {f}, gone)
  <1>1. /\ \A q \in Projects : q \in Files /\ q \notin Lines
        /\ \A k \in Lines : k \in Files /\ k \notin Projects
        /\ \A g \in Flows : g \in Files /\ g \notin Lines
    BY NamesAssumption DEF Files
  <1>2. \A k \in ListedIn(C) : k \in ListedIn(B)
    BY <1>1 DEF ListedIn
  <1>3. \A k \in ListedIn(B) : k \in Lines
    BY DEF Apart, ListedIn
  <1>4. \A k \in Lines : C[k] \subseteq B[k] \/ k = l
    BY <1>1
  <1>5. \A k \in ListedIn(C) : C[k] \subseteq (Flows \cap (m \cup {f})) \ gone
    BY <1>2, <1>3, <1>4 DEF Apart
  <1>6. \A k, j \in ListedIn(C) : k # j => C[k] \cap C[j] = {}
    BY <1>2, <1>3, <1>4 DEF Apart
  <1>7. \A k, j \in Lines : k # j => C[k] \cap C[j] \subseteq {Archived}
    BY <1>4 DEF Apart
  <1>8. \A k \in Lines : C[k] \subseteq (Flows \cap (m \cup {f})) \cup {Archived} /\ C[k] \cap gone \subseteq {Archived}
    BY <1>4 DEF Apart
  <1>9. \A g \in Flows : C[g] = {}
    BY <1>1 DEF Apart
  <1>10. \A q \in Projects : C[q] \subseteq B[q]
    BY <1>1
  <1>11. QED
    BY <1>5, <1>6, <1>7, <1>8, <1>9, <1>10 DEF Apart

-----------------------------------------------------------------------------
(* Handlers that are interrupted, and handlers that end.                     *)

(* The writes of s put nothing into a file that B and m do not allow.        *)
Within(s, B, m, gone) ==
    \A i \in 1..Len(s) : /\ ToSet(s[i].content.names) \subseteq B[s[i].file]
                         /\ s[i].file \in m
                         /\ s[i].file \in gone => s[i].content = Absent

LEMMA WithinConcat ==
    ASSUME NEW s \in Seq(Command), NEW t \in Seq(Command), NEW B, NEW m, NEW gone,
           Within(s, B, m, gone), Within(t, B, m, gone)
    PROVE  s \o t \in Seq(Command) /\ Within(s \o t, B, m, gone)
  <1> DEFINE u == s \o t
  <1>1. /\ u \in Seq(Command)
        /\ \A i \in 1..Len(u) : \/ i \in 1..Len(s) /\ u[i] = s[i]
                                \/ i - Len(s) \in 1..Len(t) /\ u[i] = t[i - Len(s)]
    OBVIOUS
  <1> HIDE DEF u
  <1>2. Within(u, B, m, gone)
    BY <1>1 DEF Within
  <1>3. QED
    BY <1>1, <1>2 DEF u

LEMMA WithinParts ==
    ASSUME NEW B, NEW m, NEW gone, NEW f \in m
    PROVE  /\ Within(<<>>, B, m, gone)
           /\ Within(Unlink(f), B, m, gone)
           /\ f \notin gone => Within(Make(f), B, m, gone)
           /\ \A names : f \notin gone /\ ToSet(names) \subseteq B[f] => Within(Save(f, names), B, m, gone)
  <1>1. ToSet(<<>>) = {}
    BY DEF ToSet
  <1>2. QED
    BY <1>1 DEF Within, Unlink, Make, Save, Write, Broken, Absent, Intact

(* Documents that were apart and have got only what is allowed are apart.    *)
LEMMA OverOK ==
    ASSUME NEW D, NEW E, NEW B, NEW m, NEW gone, Apart(B, m, gone),
           D \in [Files -> Content], E \in [Files -> Content],
           \A f \in Files : f \notin m \/ f \in gone => D[f] = Absent,
           \A f \in Files : ToSet(D[f].names) \subseteq B[f],
           \A f \in Files : \/ E[f] = D[f]
                            \/ ToSet(E[f].names) \subseteq B[f] /\ f \in m /\ (f \in gone => E[f] = Absent)
    PROVE  DiskOK(E, m, gone)
  <1>1. \A f \in Files : NamesIn(E)[f] \subseteq B[f]
    BY DEF NamesIn
  <1>2. Apart(NamesIn(E), m, gone)
    BY <1>1, ApartSmaller
  <1>3. QED
    BY <1>2 DEF DiskOK

LEMMA WrittenOK ==
    ASSUME NEW s \in Seq(Command), NEW n \in 0..Len(s), NEW B, NEW m,
           DiskOK(disk, made, deleted), made \subseteq m,
           Apart(B, m, deleted), Within(s, B, m, deleted),
           \A f \in Files : ToSet(disk[f].names) \subseteq B[f]
    PROVE  DiskOK(Written(s, n), m, deleted)
  <1>1. disk \in [Files -> Content] /\ \A f \in Files : f \notin m \/ f \in deleted => disk[f] = Absent
    BY DEF DiskOK
  <1>2. Written(s, n) \in [Files -> Content]
    BY <1>1, WrittenTypes
  <1>3. \A i \in 1..n : i \in 1..Len(s)
    OBVIOUS
  <1>4. ASSUME NEW f \in Files
        PROVE  \/ Written(s, n)[f] = disk[f]
               \/ /\ ToSet(Written(s, n)[f].names) \subseteq B[f] /\ f \in m
                  /\ f \in deleted => Written(s, n)[f] = Absent
    <2>1. Turns(s, n, f, disk[f], Written(s, n)[f])
      BY WrittenIs
    <2>2. QED
      BY <1>3, <2>1 DEF Turns, Within
  <1>5. QED
    BY <1>1, <1>2, <1>4, OverOK

(* The writes of two scripts, one after the other.                           *)
LEMMA WrittenConcat ==
    ASSUME NEW s \in Seq(Command), NEW t \in Seq(Command), NEW f \in Files
    PROVE  /\ \A n \in 0..Len(s) : Written(s \o t, n)[f] = Written(s, n)[f]
           /\ \A n \in 0..Len(t) :
                Turns(t, n, f, Written(s, Len(s))[f], Written(s \o t, Len(s) + n)[f])
  <1> DEFINE u == s \o t
  <1>1. /\ u \in Seq(Command) /\ Len(s) \in Nat /\ Len(t) \in Nat /\ Len(u) = Len(s) + Len(t)
        /\ \A i \in 1..Len(s) : u[i] = s[i]
        /\ \A i \in 1..Len(t) : Len(s) + i \in 1..Len(u) /\ u[Len(s) + i] = t[i]
    OBVIOUS
  <1> HIDE DEF u
  <1>2. ASSUME NEW n \in 0..Len(s) PROVE Written(u, n)[f] = Written(s, n)[f]
    <2>1. \A i \in 1..n : u[i] = s[i]
      <3>1. (\A i \in 1..Len(s) : u[i] = s[i]) /\ Len(s) \in Nat
        BY <1>1
      <3>2. 1..n \subseteq 1..Len(s)
        BY <3>1
      <3>3. QED
        BY <3>1, <3>2, Zenon
    <2>2. {i \in 1..n : u[i].file = f} = {i \in 1..n : s[i].file = f}
      BY <2>1
    <2>3. Written(s, n)[f] = LET last == {i \in 1..n : s[i].file = f}
                             IN IF last = {} THEN disk[f] ELSE s[Max(last)].content
      BY DEF Written
    <2>4. Written(u, n)[f] = LET last == {i \in 1..n : s[i].file = f}
                             IN IF last = {} THEN disk[f] ELSE u[Max(last)].content
      BY <2>2 DEF Written
    <2>5. ASSUME {i \in 1..n : s[i].file = f} # {}
          PROVE  Max({i \in 1..n : s[i].file = f}) \in 1..n
      <3> DEFINE last == {i \in 1..n : s[i].file = f}
      <3>1. last \in SUBSET (1..n) /\ n \in Nat
        BY <1>1
      <3>2. last # {}
        BY <2>5
      <3> HIDE DEF last
      <3>3. Max(last) \in 1..n
        BY <3>1, <3>2, MaxIn
      <3>4. QED
        BY <3>3 DEF last
    <2>6. QED
      BY <2>1, <2>3, <2>4, <2>5
  <1>3. ASSUME NEW n \in 0..Len(t)
        PROVE  Turns(t, n, f, Written(s, Len(s))[f], Written(u, Len(s) + n)[f])
    <2>1. /\ Len(s) + n \in 0..Len(u) /\ Len(s) \in 0..Len(s) /\ Len(s) \in 0..Len(u)
          /\ \A i \in 1..n : Len(s) + i \in 1..(Len(s) + n) /\ u[Len(s) + i] = t[i]
          /\ \A i \in 1..(Len(s) + n) : i > Len(s) => i - Len(s) \in 1..n /\ u[i] = t[i - Len(s)]
          /\ \A i \in 1..(Len(s) + n) : i <= Len(s) => i \in 1..Len(s) /\ u[i] = s[i]
          /\ \A i \in 1..Len(s) : i \in 1..(Len(s) + n) /\ i \in Int
      BY <1>1
    <2>2. \/ (\A i \in 1..(Len(s) + n) : u[i].file # f) /\ Written(u, Len(s) + n)[f] = disk[f]
          \/ \E i \in 1..(Len(s) + n) :
               /\ u[i].file = f /\ Written(u, Len(s) + n)[f] = u[i].content
               /\ \A k \in 1..(Len(s) + n) : u[k].file = f => k <= i
      <3>1. u \in Seq(Command) /\ Len(s) + n \in 0..Len(u)
        BY <1>1, <2>1
      <3>2. Turns(u, Len(s) + n, f, disk[f], Written(u, Len(s) + n)[f])
        BY <3>1, WrittenIs
      <3>3. QED
        BY <3>2 DEF Turns
    <2>3. \/ (\A i \in 1..Len(s) : s[i].file # f) /\ Written(s, Len(s))[f] = disk[f]
          \/ \E i \in 1..Len(s) : /\ s[i].file = f /\ Written(s, Len(s))[f] = s[i].content
                                  /\ \A k \in 1..Len(s) : s[k].file = f => k <= i
      <3>1. Turns(s, Len(s), f, disk[f], Written(s, Len(s))[f])
        BY <2>1, WrittenIs
      <3>2. QED
        BY <3>1 DEF Turns
    <2>4. CASE (\A i \in 1..(Len(s) + n) : u[i].file # f) /\ Written(u, Len(s) + n)[f] = disk[f]
      <3>1. \A i \in 1..Len(s) : s[i].file # f
        BY <1>1, <2>1, <2>4
      <3>2. \A i \in 1..n : t[i].file # f
        BY <2>1, <2>4
      <3>3. QED
        BY <2>3, <2>4, <3>1, <3>2 DEF Turns
    <2>5. ASSUME NEW i \in 1..(Len(s) + n), u[i].file = f, Written(u, Len(s) + n)[f] = u[i].content,
                 \A k \in 1..(Len(s) + n) : u[k].file = f => k <= i
          PROVE  Turns(t, n, f, Written(s, Len(s))[f], Written(u, Len(s) + n)[f])
      <3>1. CASE i > Len(s)
        <4>1. i - Len(s) \in 1..n /\ u[i] = t[i - Len(s)]
          BY <2>1, <3>1
        <4>2. \A k \in 1..n : t[k].file = f => k <= i - Len(s)
          <5> SUFFICES ASSUME NEW k \in 1..n, t[k].file = f PROVE k <= i - Len(s)
            OBVIOUS
          <5>1. Len(s) + k \in 1..(Len(s) + n) /\ u[Len(s) + k].file = f
            BY <2>1
          <5>2. Len(s) + k <= i
            BY <2>5, <5>1
          <5>3. QED
            BY <1>1, <5>2
        <4>3. QED
          BY <2>5, <4>1, <4>2 DEF Turns
      <3>2. CASE i <= Len(s)
        <4>1. i \in 1..Len(s) /\ u[i] = s[i]
          BY <2>1, <3>2
        <4>2. \A k \in 1..n : t[k].file # f
          <5> SUFFICES ASSUME NEW k \in 1..n, t[k].file = f PROVE FALSE
            OBVIOUS
          <5>1. Len(s) + k \in 1..(Len(s) + n) /\ u[Len(s) + k].file = f
            BY <2>1
          <5>2. Len(s) + k <= i
            BY <2>5, <5>1
          <5>3. QED
            BY <1>1, <3>2, <5>2
        <4>3. PICK j \in 1..Len(s) : /\ s[j].file = f /\ Written(s, Len(s))[f] = s[j].content
                                     /\ \A k \in 1..Len(s) : s[k].file = f => k <= j
          BY <2>3, <2>5, <4>1
        <4>4. j \in 1..(Len(s) + n) /\ u[j].file = f
          BY <1>1, <2>1, <4>3
        <4>5. j <= i /\ i <= j
          BY <2>5, <4>1, <4>3, <4>4
        <4>6. j = i
          BY <4>5
        <4>7. QED
          BY <2>5, <4>1, <4>2, <4>3, <4>6 DEF Turns
      <3>3. QED
        BY <1>1, <3>1, <3>2
    <2>6. QED
      BY <2>2, <2>4, <2>5
  <1>4. QED
    BY <1>2, <1>3 DEF u

(* The directory after the whole script.                                     *)
After(s) == Written(s, Len(s))

AnyNames == Lists(Lines \cup Flows \cup {Archived})

LEMMA AfterConcat ==
    ASSUME NEW s \in Seq(Command), NEW t \in Seq(Command), NEW f \in Files
    PROVE  Turns(t, Len(t), f, After(s)[f], After(s \o t)[f])
  <1>1. Len(t) \in 0..Len(t) /\ Len(s \o t) = Len(s) + Len(t)
    OBVIOUS
  <1>2. Turns(t, Len(t), f, Written(s, Len(s))[f], Written(s \o t, Len(s) + Len(t))[f])
    BY <1>1, WrittenConcat
  <1>3. QED
    BY <1>1, <1>2 DEF After

LEMMA AfterMore ==
    ASSUME NEW s \in Seq(Command), NEW f \in Files
    PROVE  /\ After(s \o <<>>) = After(s)
           /\ After(s \o Make(f)) = [After(s) EXCEPT ![f] = Broken]
           /\ After(s \o Unlink(f)) = [After(s) EXCEPT ![f] = Absent]
           /\ \A names \in AnyNames : After(s \o Save(f, names)) = [After(s) EXCEPT ![f] = Intact(names)]
  <1>1. \A t : /\ DOMAIN After(t) = Files
               /\ After(t) = [g \in Files |-> After(t)[g]]
    BY DEF After, Written
  <1>2. After(s \o <<>>) = After(s)
    <2>1. s \o <<>> = s
      OBVIOUS
    <2>2. QED
      BY <2>1
  <1>3. ASSUME NEW c \in Content, <<Write(f, c)>> \in Seq(Command)
        PROVE  After(s \o <<Write(f, c)>>) = [After(s) EXCEPT ![f] = c]
    <2> DEFINE t == <<Write(f, c)>>
    <2>1. Len(t) = 1 /\ t[1].file = f /\ t[1].content = c /\ \A i \in 1..Len(t) : i = 1
      BY DEF Write
    <2>2. t \in Seq(Command)
      BY <1>3
    <2> HIDE DEF t
    <2>3. \A g \in Files : After(s \o t)[g] = IF g = f THEN c ELSE After(s)[g]
      BY <2>1, <2>2, AfterConcat DEF Turns
    <2>4. After(s \o t) = [After(s) EXCEPT ![f] = c]
      BY <1>1, <2>3
    <2>5. QED
      BY <2>4 DEF t
  <1>4. After(s \o Make(f)) = [After(s) EXCEPT ![f] = Broken]
    BY <1>3, Contents, ScriptTypes DEF Make
  <1>5. After(s \o Unlink(f)) = [After(s) EXCEPT ![f] = Absent]
    BY <1>3, Contents, ScriptTypes DEF Unlink
  <1>6. ASSUME NEW names \in AnyNames PROVE After(s \o Save(f, names)) = [After(s) EXCEPT ![f] = Intact(names)]
    <2> DEFINE t == Save(f, names)
    <2>1. /\ Len(t) = 2 /\ t[1].file = f /\ t[2].file = f /\ t[2].content = Intact(names)
          /\ \A i \in 1..Len(t) : i \in {1, 2}
          /\ ~(2 <= 1)
      BY DEF Save, Write
    <2>2. t \in Seq(Command)
      BY ScriptTypes DEF AnyNames
    <2> HIDE DEF t
    <2>5. 1 \in 1..Len(t) /\ 2 \in 1..Len(t)
      BY <2>1
    <2>3. \A g \in Files : After(s \o t)[g] = IF g = f THEN Intact(names) ELSE After(s)[g]
      <3> SUFFICES ASSUME NEW g \in Files PROVE After(s \o t)[g] = IF g = f THEN Intact(names) ELSE After(s)[g]
        OBVIOUS
      <3>1. Turns(t, Len(t), g, After(s)[g], After(s \o t)[g])
        BY <2>2, AfterConcat
      <3>2. QED
        BY <2>1, <2>5, <3>1 DEF Turns
    <2>4. After(s \o t) = [After(s) EXCEPT ![f] = Intact(names)]
      BY <1>1, <2>3
    <2>6. QED
      BY <2>4 DEF t
  <1>7. QED
    BY <1>2, <1>4, <1>5, <1>6

LEMMA AfterSave ==
    ASSUME NEW s \in Seq(Command), NEW f \in Files, NEW names \in AnyNames
    PROVE  After(s \o Save(f, names)) = [After(s) EXCEPT ![f] = Intact(names)]
  BY AfterMore

LEMMA AfterFirst ==
    ASSUME NEW f \in Files, disk \in [Files -> Content]
    PROVE  /\ After(<<>>) = disk
           /\ After(Make(f)) = [disk EXCEPT ![f] = Broken]
           /\ After(Unlink(f)) = [disk EXCEPT ![f] = Absent]
           /\ \A names \in AnyNames : After(Save(f, names)) = [disk EXCEPT ![f] = Intact(names)]
  <1>1. After(<<>>) = disk
    <2>1. \A g \in Files : After(<<>>)[g] = disk[g]
      BY DEF After, Written
    <2>2. DOMAIN After(<<>>) = Files /\ After(<<>>) = [g \in Files |-> After(<<>>)[g]]
      BY DEF After, Written
    <2>3. QED
      BY <2>1, <2>2
  <1> DEFINE e == <<>>
  <1>2. e \in Seq(Command) /\ After(e) = disk
    BY <1>1
  <1>3. \A t \in Seq(Command) : e \o t = t
    OBVIOUS
  <1>4. e \o Make(f) = Make(f) /\ e \o Unlink(f) = Unlink(f)
        /\ \A names \in AnyNames : e \o Save(f, names) = Save(f, names)
    BY <1>3, ScriptTypes DEF AnyNames
  <1> HIDE DEF e
  <1>5. /\ After(e \o Make(f)) = [After(e) EXCEPT ![f] = Broken]
        /\ After(e \o Unlink(f)) = [After(e) EXCEPT ![f] = Absent]
        /\ \A names \in AnyNames : After(e \o Save(f, names)) = [After(e) EXCEPT ![f] = Intact(names)]
    BY <1>2, AfterMore
  <1>6. QED
    BY <1>1, <1>2, <1>4, <1>5

(* A handler keeps the invariant when every death in it leaves documents     *)
(* that are apart, and its end leaves rows that match them.                  *)
StateOK(d, g, m, gone) ==
    /\ m \subseteq Files /\ gone \subseteq m
    /\ DiskOK(d, m, gone)
    /\ g \in Gui /\ RowsOK(d, g) /\ SelectionOK(g) /\ BrowserOK(d, g, gone)
    /\ crashes = 0 => Whole(d, g)

LEMMA ClosedOK ==
    ASSUME NEW d
    PROVE  /\ Closed \in Gui /\ RowsOK(d, Closed) /\ SelectionOK(Closed)
           /\ Closed.shown = {} /\ Closed.line = Nothing
           /\ \A gone : BrowserOK(d, Closed, gone)
  <1>1. <<>> \in Lists(Lines) /\ <<>> \in Lists(Flows)
    BY DEF Lists, IsInjective
  <1>2. NoRows \in Rows /\ DOMAIN NoRows = {}
    BY DEF NoRows, Rows
  <1>3. Closed \in Gui
    BY <1>1, <1>2 DEF Closed, Gui
  <1>4. QED
    BY <1>2, <1>3 DEF Closed, RowsOK, SelectionOK, BrowserOK, ToSet

LEMMA PerformInv ==
    ASSUME NEW g, NEW s, NEW gone, DInv, drags = 0, drags' = drags, Perform(g, s, gone),
           made' \subseteq Files, made \subseteq made',
           \A n \in 1..(Len(s) - 1) : DiskOK(Written(s, n), made', deleted),
           StateOK(After(s), g, made', deleted \cup gone)
    PROVE  DInv'
  <1>1. CASE gui' = g /\ disk' = After(s) /\ deleted' = deleted \cup gone /\ crashes' = crashes
    BY <1>1 DEF DInv, StateOK
  <1>2. CASE /\ crashes' = crashes + 1 /\ gui' = Closed /\ deleted' = deleted
             /\ \E n \in 1..(Len(s) - 1) : disk' = Written(s, n)
    <2>1. crashes' \in Nat /\ crashes' # 0
      BY <1>2 DEF DInv
    <2>2. /\ Closed \in Gui /\ RowsOK(disk', Closed) /\ SelectionOK(Closed)
          /\ BrowserOK(disk', Closed, deleted')
      BY ClosedOK
    <2>3. DiskOK(disk', made', deleted')
      BY <1>2
    <2>4. QED
      BY <1>2, <2>1, <2>2, <2>3 DEF DInv
  <1>3. QED
    BY <1>1, <1>2 DEF Perform, After

(* The kinds of names do not meet.                                           *)
LEMMA Kinds ==
    /\ \A p \in Projects : p \in Files /\ p \notin Lines /\ p \notin Flows /\ p # Nothing
    /\ \A l \in Lines : l \in Files /\ l \notin Projects /\ l \notin Flows /\ l # Nothing
    /\ \A f \in Flows : f \in Files /\ f \notin Projects /\ f \notin Lines /\ f # Nothing
    /\ ToSet(<<>>) = {}
    /\ \A s, t : Intact(s) # Absent /\ Intact(s) # Broken /\ (Intact(s) = Intact(t) => s = t)
                 /\ Intact(s).names = s /\ Intact(s).is = "intact"
    /\ Absent.names = <<>> /\ Absent.is = "absent" /\ Broken.names = <<>> /\ Broken.is = "broken"
  BY NamesAssumption DEF Files, ToSet, Intact, Absent, Broken

(* A script that writes what is allowed leaves documents that are apart,     *)
(* wherever it ends.                                                         *)
LEMMA ScriptOK ==
    ASSUME NEW s \in Seq(Command), NEW B, NEW m,
           DiskOK(disk, made, deleted), made \subseteq m,
           Apart(B, m, deleted), Within(s, B, m, deleted),
           \A f \in Files : ToSet(disk[f].names) \subseteq B[f]
    PROVE  /\ \A n \in 1..(Len(s) - 1) : DiskOK(Written(s, n), m, deleted)
           /\ DiskOK(After(s), m, deleted)
  <1>1. Len(s) \in 0..Len(s) /\ \A n \in 1..(Len(s) - 1) : n \in 0..Len(s)
    OBVIOUS
  <1>2. \A n \in 0..Len(s) : DiskOK(Written(s, n), m, deleted)
    BY WrittenOK
  <1>3. QED
    BY <1>1, <1>2 DEF After

(* What has lost its file and its names may be counted as deleted.           *)
Forgotten(D, X) ==
    \A f \in X : /\ D[f] = Absent
                 /\ \A p \in Projects : f \notin ToSet(D[p].names)
                 /\ \A l \in Lines : f \in ToSet(D[l].names) =>
                       f = Archived /\ \A p \in Projects : l \notin ToSet(D[p].names)

LEMMA GoneOK ==
    ASSUME NEW D, NEW m, NEW gone, NEW X, DiskOK(D, m, gone), Forgotten(D, X)
    PROVE  DiskOK(D, m, gone \cup X)
  <1> DEFINE B == NamesIn(D)
  <1>1. \A f \in Files : B[f] = ToSet(D[f].names)
    BY DEF NamesIn
  <1>2. \A l : l \in ListedIn(B) <=> \E p \in Projects : l \in B[p]
    BY DEF ListedIn
  <1>3. Apart(B, m, gone) /\ D \in [Files -> Content]
        /\ \A f \in Files : f \notin m \/ f \in gone => D[f] = Absent
    BY DEF DiskOK
  <1>4. \A l \in ListedIn(B) : l \in Lines
    BY <1>2, <1>3 DEF Apart
  <1> HIDE DEF B
  <1>5. /\ \A p \in Projects : B[p] \cap X = {}
        /\ \A l \in Lines : B[l] \cap X \subseteq {Archived}
        /\ \A l \in ListedIn(B) : B[l] \cap X = {}
    BY <1>1, <1>2, <1>4, Kinds DEF Forgotten
  <1>6. Apart(B, m, gone \cup X)
    BY <1>3, <1>5 DEF Apart
  <1>7. QED
    BY <1>3, <1>6 DEF DiskOK, B, Forgotten

-----------------------------------------------------------------------------
(* The handlers, one by one.                                                 *)

LEMMA StartInv ==
    ASSUME DInv, drags = 0, drags' = 0, Start
    PROVE  DInv'
  <1>1. /\ gui' \in Gui /\ gui'.shown = {} /\ gui'.line = Nothing /\ gui'.project = Nothing
        /\ gui'.browser = <<>> /\ gui'.cache = {}
        /\ \A p \in Projects : gui'.doc[p] = <<>> /\ DOMAIN gui'.row[p] = {}
    <2> DEFINE g == Closed
    <2>1. g \in Gui /\ RowsOK(disk, g) /\ SelectionOK(g) /\ g.shown = {} /\ g.line = Nothing /\ g.project = Nothing
          /\ g.cache = {}
      BY ClosedOK DEF Closed
    <2>2. gui' = [g EXCEPT !.on = TRUE, !.pending = {p \in Projects : disk[p].is # "absent"}]
      BY DEF Start
    <2> HIDE DEF g
    <2>3. QED
      BY <2>1, <2>2 DEF Gui, RowsOK, SelectionOK
  <1>2. RowsOK(disk, gui') /\ SelectionOK(gui') /\ BrowserOK(disk, gui', deleted)
    BY <1>1, Kinds DEF RowsOK, SelectionOK, BrowserOK
  <1>3. crashes = 0 => Whole(disk, gui')
    BY <1>1 DEF DInv, Whole
  <1>4. QED
    BY <1>1, <1>2, <1>3 DEF DInv, Start

LEMMA QuitInv ==
    ASSUME DInv, drags = 0, drags' = 0, Quit
    PROVE  DInv'
  <1>1. Closed \in Gui /\ RowsOK(disk, Closed) /\ SelectionOK(Closed) /\ BrowserOK(disk, Closed, deleted)
    BY ClosedOK
  <1>2. crashes = 0 => Whole(disk, Closed)
    BY ClosedOK DEF DInv, Whole
  <1>3. QED
    BY <1>1, <1>2 DEF DInv, Quit

(* Nothing but the selection changes.                                        *)
LEMMA UnselectedOK ==
    ASSUME NEW d, NEW g \in Gui, NEW p \in g.shown \cup {Nothing}, RowsOK(d, g)
    PROVE  LET h == [Unselected(g) EXCEPT !.project = p]
           IN /\ h \in Gui /\ RowsOK(d, h) /\ SelectionOK(h)
              /\ h.line = Nothing /\ h.shown = g.shown /\ h.doc = g.doc /\ h.row = g.row
              /\ h.pending = g.pending /\ h.on = g.on
              /\ h.browser = <<>> /\ h.project = p /\ h.cache = g.cache
  <1>1. <<>> \in Lists(Flows)
    BY DEF Lists, IsInjective
  <1> DEFINE h == [Unselected(g) EXCEPT !.project = p]
  <1>2. /\ h \in Gui /\ h.line = Nothing /\ h.shown = g.shown /\ h.doc = g.doc /\ h.row = g.row
        /\ h.pending = g.pending /\ h.on = g.on /\ h.browser = <<>> /\ h.project = p /\ h.cache = g.cache
    BY <1>1 DEF Unselected, Gui
  <1> HIDE DEF h
  <1>3. RowsOK(d, h) /\ SelectionOK(h)
    BY <1>2 DEF RowsOK, SelectionOK
  <1>4. QED
    BY <1>2, <1>3 DEF h

LEMMA SelectProjectInv ==
    ASSUME DInv, drags = 0, drags' = 0, NEW p \in Projects, SelectProject(p)
    PROVE  DInv'
  <1>1. gui \in Gui /\ RowsOK(disk, gui) /\ p \in gui.shown
    BY DEF DInv, SelectProject
  <1>2. /\ gui' \in Gui /\ RowsOK(disk, gui') /\ SelectionOK(gui')
        /\ gui'.line = Nothing /\ gui'.shown = gui.shown /\ gui'.doc = gui.doc /\ gui'.row = gui.row
        /\ gui'.browser = <<>> /\ gui'.cache = gui.cache
    BY <1>1, UnselectedOK DEF SelectProject
  <1>3. crashes = 0 => Whole(disk, gui')
    BY <1>2 DEF DInv, Whole
  <1>4. BrowserOK(disk, gui', deleted)
    BY <1>2, Kinds DEF DInv, BrowserOK
  <1>5. QED
    BY <1>2, <1>3, <1>4 DEF DInv, SelectProject

LEMMA FlowCopyInv ==
    ASSUME DInv, drags = 0, drags' = 0, NEW f \in Flows, FlowCopy(f)
    PROVE  DInv'
  <1>1. gui \in Gui /\ gui' = [gui EXCEPT !.clip = f]
    BY DEF DInv, FlowCopy
  <1>2. /\ gui' \in Gui /\ gui'.shown = gui.shown /\ gui'.doc = gui.doc /\ gui'.row = gui.row
        /\ gui'.pending = gui.pending
        /\ gui'.project = gui.project /\ gui'.line = gui.line /\ gui'.browser = gui.browser
        /\ gui'.cache = gui.cache
    BY <1>1 DEF Gui
  <1>3. RowsOK(disk, gui') /\ SelectionOK(gui') /\ BrowserOK(disk, gui', deleted)
    BY <1>2 DEF DInv, RowsOK, SelectionOK, BrowserOK
  <1>4. crashes = 0 => Whole(disk, gui')
    BY <1>2 DEF DInv, Whole
  <1>5. QED
    BY <1>2, <1>3, <1>4 DEF DInv, FlowCopy

(* What the invariant says of the documents and of the rows.                 *)
LEMMA Facts ==
    ASSUME DInv, drags = 0
    PROVE  /\ made \subseteq Files /\ deleted \subseteq made /\ gui \in Gui
           /\ disk \in [Files -> Content] /\ DiskOK(disk, made, deleted)
           /\ Apart(NamesIn(disk), made, deleted)
           /\ \A f \in Files : NamesIn(disk)[f] = ToSet(disk[f].names) /\ disk[f].names \in AnyNames
           /\ \A f \in Files : disk[f] # Absent => f \in made /\ f \notin deleted
           /\ RowsOK(disk, gui) /\ SelectionOK(gui) /\ (crashes = 0 => Whole(disk, gui))
           /\ BrowserOK(disk, gui, deleted)
  <1>1. disk \in [Files -> Content] /\ DiskOK(disk, made, deleted) /\ gui \in Gui
    BY DEF DInv, DiskOK
  <1>2. \A f \in Files : disk[f] \in Content
    BY <1>1
  <1>3. \A f \in Files : disk[f].names \in AnyNames
    BY <1>2, Contents DEF AnyNames
  <1>4. QED
    BY <1>1, <1>3 DEF DInv, DiskOK, NamesIn

LEMMA RowFacts ==
    ASSUME DInv, drags = 0, NEW p \in gui.shown
    PROVE  /\ p \in Projects /\ p \in Files /\ p \in made /\ p \notin deleted
           /\ gui.doc[p] \in Lists(Lines) /\ disk[p] = Intact(gui.doc[p]) /\ disk[p].names = gui.doc[p]
           /\ gui.row[p] \in Rows /\ DOMAIN gui.row[p] \subseteq Lines
           /\ DOMAIN gui.row[p] \subseteq ToSet(gui.doc[p])
           /\ \A l \in DOMAIN gui.row[p] :
                /\ l \in Lines /\ l \in Files /\ l \in made /\ l \notin deleted
                /\ gui.row[p][l] \in Lists(Flows) /\ disk[l] = Intact(gui.row[p][l])
                /\ disk[l].names = gui.row[p][l]
  <1>1. gui \in Gui /\ RowsOK(disk, gui)
    BY Facts
  <1>2. p \in Projects /\ gui.doc[p] \in Lists(Lines) /\ gui.row[p] \in Rows
    BY <1>1 DEF Gui
  <1>3. /\ disk[p] = Intact(gui.doc[p]) /\ DOMAIN gui.row[p] \subseteq ToSet(gui.doc[p])
        /\ \A l \in DOMAIN gui.row[p] : disk[l] = Intact(gui.row[p][l])
    BY <1>1 DEF RowsOK
  <1>4. DOMAIN gui.row[p] \subseteq Lines /\ \A l \in DOMAIN gui.row[p] : gui.row[p][l] \in Lists(Flows)
    BY <1>2 DEF Rows
  <1>5. QED
    BY <1>2, <1>3, <1>4, Facts, Kinds

(* The flows F are cached, and no other file of a flow that is cached        *)
(* changes, except for those that go.                                        *)
LEMMA BrowserKept ==
    ASSUME DInv, drags = 0, NEW g, NEW E, NEW gone, NEW F,
           g.cache = gui.cache \cup F, ToSet(g.browser) \subseteq g.cache,
           g.line # Nothing => InOrder(g.browser, g.row[g.project][g.line]),
           \A f \in F : E[f].is = "intact",
           \A f \in Flows : f \in F \/ f \in gone \/ E[f] = disk[f] \/ disk[f].is # "intact"
    PROVE  BrowserOK(E, g, deleted \cup gone)
  <1>1. gui.cache \subseteq Flows /\ \A f \in gui.cache : f \in deleted \/ disk[f].is = "intact"
    BY Facts DEF Gui, BrowserOK
  <1>2. QED
    BY <1>1 DEF BrowserOK

(* A handler that leaves the cache, and whose rows follow the line it selects. *)
LEMMA BrowserSame ==
    ASSUME DInv, drags = 0, NEW g, NEW E, NEW gone,
           g.cache = gui.cache, ToSet(g.browser) \subseteq g.cache,
           g.line # Nothing => InOrder(g.browser, g.row[g.project][g.line]),
           \A f \in Flows : f \in gone \/ E[f] = disk[f] \/ disk[f].is # "intact"
    PROVE  BrowserOK(E, g, deleted \cup gone)
  <1>1. gui.cache \subseteq Flows /\ \A f \in gui.cache : f \in deleted \/ disk[f].is = "intact"
    BY Facts DEF Gui, BrowserOK
  <1>2. QED
    BY <1>1 DEF BrowserOK

(* A handler after which no flow is shown.                                   *)
LEMMA BrowserEmpty ==
    ASSUME DInv, drags = 0, NEW g, NEW E, NEW gone, g.cache = gui.cache, g.browser = <<>>,
           \A f \in Flows : f \in gone \/ E[f] = disk[f] \/ disk[f].is # "intact"
    PROVE  BrowserOK(E, g, deleted \cup gone)
  <1>1. gui.cache \subseteq Flows /\ \A f \in gui.cache : f \in deleted \/ disk[f].is = "intact"
    BY Facts DEF Gui, BrowserOK
  <1>2. InOrder(<<>>, g.row[g.project][g.line]) /\ ToSet(<<>>) = {}
    BY Kinds DEF InOrder
  <1>3. QED
    BY <1>1, <1>2 DEF BrowserOK

(* What a document on the disk names.                                        *)
LEMMA NamedBy ==
    ASSUME DInv, drags = 0
    PROVE  /\ \A p \in Projects : ToSet(disk[p].names) \subseteq (Lines \cap made) \ deleted
           /\ \A l \in Lines : ToSet(disk[l].names) \subseteq (Flows \cap made) \cup {Archived}
           /\ \A p \in Projects : \A l \in ToSet(disk[p].names) :
                ToSet(disk[l].names) \subseteq (Flows \cap made) \ deleted
           /\ \A f \in Flows : ToSet(disk[f].names) = {}
           /\ \A p, q \in Projects : p # q => ToSet(disk[p].names) \cap ToSet(disk[q].names) = {}
           /\ \A l, k \in Lines : l # k => ToSet(disk[l].names) \cap ToSet(disk[k].names) \subseteq {Archived}
           /\ \A p, q \in Projects : \A l \in ToSet(disk[p].names), k \in ToSet(disk[q].names) :
                l # k => ToSet(disk[l].names) \cap ToSet(disk[k].names) = {}
  <1> DEFINE B == NamesIn(disk)
  <1>1. Apart(B, made, deleted) /\ \A f \in Files : B[f] = ToSet(disk[f].names)
    BY Facts
  <1> HIDE DEF B
  <1>2. \A p \in Projects : B[p] = ToSet(disk[p].names) /\ B[p] \subseteq (Lines \cap made) \ deleted
    BY <1>1, Kinds DEF Apart
  <1>3. \A p \in Projects : \A l \in ToSet(disk[p].names) : l \in ListedIn(B) /\ B[l] = ToSet(disk[l].names)
    BY <1>1, <1>2, Kinds DEF ListedIn
  <1>4. \A l \in Lines \cup Flows : B[l] = ToSet(disk[l].names)
    BY <1>1, Kinds
  <1>5. QED
    BY <1>1, <1>2, <1>3, <1>4 DEF Apart

(* The disk may be taken for what limits its documents.                      *)
LEMMA HandlerInv ==
    ASSUME NEW g, NEW s \in Seq(Command), NEW gone, NEW B, NEW E,
           DInv, drags = 0, drags' = drags, Perform(g, s, gone),
           made' \subseteq Files, made \subseteq made',
           Apart(B, made', deleted), Within(s, B, made', deleted),
           \A f \in Files : ToSet(disk[f].names) \subseteq B[f],
           After(s) = E, gone \subseteq made', Forgotten(E, gone),
           g \in Gui, RowsOK(E, g), SelectionOK(g), BrowserOK(E, g, deleted \cup gone),
           crashes = 0 => Whole(E, g)
    PROVE  DInv'
  <1>1. DiskOK(disk, made, deleted) /\ deleted \subseteq made
    BY Facts
  <1>2. /\ \A n \in 1..(Len(s) - 1) : DiskOK(Written(s, n), made', deleted)
        /\ DiskOK(After(s), made', deleted)
    BY <1>1, ScriptOK
  <1>3. DiskOK(E, made', deleted \cup gone)
    BY <1>2, GoneOK
  <1>4. StateOK(After(s), g, made', deleted \cup gone)
    BY <1>1, <1>3 DEF StateOK
  <1>5. QED
    BY <1>2, <1>4, PerformInv

(* A file that is written as it is.                                          *)
LEMMA SaveSame ==
    ASSUME DInv, drags = 0, drags' = drags, NEW f \in Files, NEW names, disk[f] = Intact(names),
           Perform(gui, Save(f, names), {}), made' = made
    PROVE  DInv'
  <1> DEFINE s == Save(f, names)
  <1>1. names \in AnyNames /\ f \in made /\ f \notin deleted
    BY Facts, Kinds
  <1>2. s \in Seq(Command)
    BY <1>1, ScriptTypes DEF AnyNames
  <1>3. ToSet(names) \subseteq NamesIn(disk)[f]
    BY Facts, Kinds
  <1>4. Within(s, NamesIn(disk), made, deleted)
    BY <1>1, <1>3, WithinParts
  <1>5. After(s) = disk
    BY <1>1, Facts, AfterFirst
  <1> HIDE DEF s
  <1>6. Perform(gui, s, {})
    BY DEF s
  <1>7. /\ Apart(NamesIn(disk), made, deleted) /\ made \subseteq Files
        /\ \A g \in Files : ToSet(disk[g].names) \subseteq NamesIn(disk)[g]
        /\ gui \in Gui /\ RowsOK(disk, gui) /\ SelectionOK(gui) /\ (crashes = 0 => Whole(disk, gui))
        /\ BrowserOK(disk, gui, deleted \cup {})
    <2>1. deleted \cup {} = deleted
      OBVIOUS
    <2>2. QED
      BY <2>1, Facts
  <1>8. QED
    BY <1>2, <1>4, <1>5, <1>6, <1>7, HandlerInv DEF Forgotten

LEMMA SaveProjectInv ==
    ASSUME DInv, drags = 0, drags' = 0, SaveProject
    PROVE  DInv'
  <1>1. /\ gui.project \in Files /\ disk[gui.project] = Intact(gui.doc[gui.project])
    BY Kinds DEF DInv, SelectionOK, RowsOK, SaveProject, Gui
  <1>2. Perform(gui, Save(gui.project, gui.doc[gui.project]), {}) /\ made' = made /\ drags' = drags
    BY DEF SaveProject
  <1>3. QED
    BY <1>1, <1>2, SaveSame

LEMMA SaveLineInv ==
    ASSUME DInv, drags = 0, drags' = 0, NEW p \in Projects, NEW l \in Lines, SaveLine(p, l)
    PROVE  DInv'
  <1>1. l \in DOMAIN gui.row[p] /\ Perform(gui, Save(l, gui.row[p][l]), {}) /\ made' = made /\ drags' = drags
    BY DEF SaveLine
  <1>2. p \in gui.shown
    BY <1>1, Facts DEF RowsOK
  <1>3. l \in Files /\ disk[l] = Intact(gui.row[p][l])
    BY <1>1, <1>2, RowFacts
  <1>4. QED
    BY <1>1, <1>3, SaveSame

LEMMA ProjectNewInv ==
    ASSUME DInv, drags = 0, drags' = 0, NEW p \in Projects, ProjectNew(p)
    PROVE  DInv'
  <1> DEFINE s == Make(p) \o Save(p, <<>>)
             E == [[disk EXCEPT ![p] = Broken] EXCEPT ![p] = Intact(<<>>)]
             g == [Unselected(gui) EXCEPT !.shown = @ \cup {p}, !.project = p]
             B == NamesIn(disk)
  <1>1. /\ Perform(g, s, {}) /\ drags' = drags /\ made' = made \cup {p} /\ p \notin made
        /\ gui.pending = {}
    BY DEF ProjectNew, Fresh, Up
  <1>2. p \in Files /\ disk[p] = Absent /\ p \notin gui.shown /\ p \notin deleted
    BY <1>1, Facts, Kinds DEF DiskOK, RowsOK
  <1>3. <<>> \in AnyNames /\ Make(p) \in Seq(Command) /\ Save(p, <<>>) \in Seq(Command)
    <2>1. <<>> \in AnyNames
      BY <1>2, Facts, Kinds
    <2>2. QED
      BY <1>2, <2>1, ScriptTypes DEF AnyNames
  <1>4. Within(Make(p), B, made', deleted) /\ Within(Save(p, <<>>), B, made', deleted)
    BY <1>1, <1>2, Kinds, WithinParts
  <1>5. s \in Seq(Command) /\ Within(s, B, made', deleted)
    BY <1>3, <1>4, WithinConcat
  <1>6. After(s) = E
    <2>1. After(Make(p)) = [disk EXCEPT ![p] = Broken]
      BY <1>2, Facts, AfterFirst
    <2>2. After(Make(p) \o Save(p, <<>>)) = [After(Make(p)) EXCEPT ![p] = Intact(<<>>)]
      BY <1>2, <1>3, AfterMore
    <2>3. QED
      BY <2>1, <2>2
  <1>7. /\ E[p] = Intact(<<>>) /\ \A f \in Files : f # p => E[f] = disk[f]
        /\ \A f \in Files : E[f].names = disk[f].names
    BY <1>2, Facts, Kinds
  <1>9. /\ g \in Gui /\ g.shown = gui.shown \cup {p} /\ g.project = p /\ g.line = Nothing
        /\ g.browser = <<>> /\ g.doc = gui.doc /\ g.row = gui.row /\ g.pending = {} /\ g.cache = gui.cache
    <2>1. <<>> \in Lists(Flows)
      BY DEF Lists, IsInjective
    <2>2. QED
      BY <1>1, <2>1, Facts DEF Unselected, Gui
  <1> HIDE DEF s, E, g, B
  <1>10. gui.doc[p] = <<>> /\ DOMAIN gui.row[p] = {}
    BY <1>2, Facts DEF RowsOK
  <1>11. RowsOK(E, g)
    <2>1. ASSUME NEW q \in gui.shown
          PROVE  /\ E[q] = Intact(gui.doc[q])
                 /\ DOMAIN gui.row[q] \subseteq ToSet(gui.doc[q])
                 /\ \A l \in DOMAIN gui.row[q] : E[l] = Intact(gui.row[q][l])
      BY <1>2, <1>7, RowFacts, Kinds
    <2>2. QED
      BY <1>2, <1>7, <1>9, <1>10, <2>1, Facts, Kinds DEF RowsOK
  <1>12. SelectionOK(g)
    BY <1>2, <1>9, Kinds DEF SelectionOK
  <1>13. ASSUME crashes = 0 PROVE Whole(E, g)
    <2>1. Whole(disk, gui)
      BY <1>13, Facts
    <2>2. /\ \A l \in Lines : E[l] = disk[l]
          /\ \A f \in Flows : E[f] = disk[f]
          /\ \A f \in Files : E[f].is # "broken"
      BY <1>2, <1>7, <2>1, Kinds DEF Whole
    <2>3. QED
      BY <1>7, <1>9, <1>10, <2>1, <2>2, Kinds DEF Whole
  <1>14. /\ Apart(B, made', deleted) /\ \A f \in Files : ToSet(disk[f].names) \subseteq B[f]
         /\ made' \subseteq Files /\ made \subseteq made'
    <2>1. \A f \in Files : ToSet(disk[f].names) \subseteq B[f] /\ B[f] \subseteq NamesIn(disk)[f]
      BY Facts DEF B
    <2>2. QED
      BY <1>1, <1>2, <2>1, Facts, ApartSmaller
  <1>15. BrowserOK(E, g, deleted \cup {})
    BY <1>7, <1>9, Kinds, BrowserEmpty
  <1>16. QED
    BY <1>1, <1>5, <1>6, <1>9, <1>11, <1>12, <1>13, <1>14, <1>15, HandlerInv DEF Forgotten

LEMMA ProjectDeleteInv ==
    ASSUME DInv, drags = 0, drags' = 0, NEW p \in Projects, ProjectDelete(p)
    PROVE  DInv'
  <1> DEFINE s == Unlink(p)
             E == [disk EXCEPT ![p] = Absent]
             g == [Unselected(gui) EXCEPT !.shown = @ \ {p}, !.doc[p] = <<>>]
             B == NamesIn(disk)
  <1>1. /\ Perform(g, s, {p}) /\ drags' = drags /\ made' = made
        /\ p \in gui.shown /\ DOMAIN gui.row[p] = {} /\ gui.pending = {}
    BY DEF ProjectDelete, Up
  <1>2. p \in Files /\ p \in made
    BY <1>1, RowFacts
  <1>3. s \in Seq(Command) /\ Within(s, B, made', deleted) /\ After(s) = E
    BY <1>1, <1>2, ScriptTypes, WithinParts, AfterFirst, Facts
  <1>4. E[p] = Absent /\ \A f \in Files : f # p => E[f] = disk[f]
    BY <1>2, Facts
  <1>5. /\ g \in Gui /\ g.shown = gui.shown \ {p} /\ g.project = Nothing /\ g.line = Nothing
        /\ g.browser = <<>> /\ g.row = gui.row /\ g.pending = {} /\ g.cache = gui.cache
        /\ g.doc[p] = <<>> /\ \A q \in Projects : q # p => g.doc[q] = gui.doc[q]
    <2>1. <<>> \in Lists(Flows) /\ <<>> \in Lists(Lines)
      BY DEF Lists, IsInjective
    <2>2. QED
      BY <1>1, <2>1, Facts DEF Unselected, Gui
  <1>6. /\ Apart(B, made', deleted) /\ \A f \in Files : ToSet(disk[f].names) \subseteq B[f]
        /\ made' \subseteq Files /\ made \subseteq made'
    BY <1>1, Facts
  <1> HIDE DEF s, E, g, B
  <1>7. RowsOK(E, g)
    <2>1. ASSUME NEW q \in gui.shown, q # p
          PROVE  /\ E[q] = Intact(gui.doc[q])
                 /\ DOMAIN gui.row[q] \subseteq ToSet(gui.doc[q])
                 /\ \A l \in DOMAIN gui.row[q] : E[l] = Intact(gui.row[q][l])
      BY <1>4, <2>1, RowFacts, Kinds
    <2>2. QED
      BY <1>1, <1>5, <2>1, Facts, RowFacts DEF RowsOK
  <1>8. SelectionOK(g)
    BY <1>5 DEF SelectionOK
  <1>9. ASSUME crashes = 0 PROVE Whole(E, g)
    <2>1. Whole(disk, gui)
      BY <1>9, Facts
    <2>2. /\ \A l \in Lines : E[l] = disk[l]
          /\ \A f \in Flows : E[f] = disk[f]
          /\ \A f \in Files : E[f].is # "broken"
      BY <1>4, <2>1, Kinds DEF Whole
    <2>3. ToSet(disk[p].names) = {}
      BY <1>1, <2>1, RowFacts DEF Whole
    <2>4. \A q \in Projects : ToSet(E[q].names) = ToSet(disk[q].names)
      BY <1>4, <2>3, Kinds
    <2>5. QED
      BY <1>5, <2>1, <2>2, <2>4, RowFacts DEF Whole
  <1>10. {p} \subseteq made' /\ Forgotten(E, {p})
    <2>3. \A q \in Projects : ToSet(E[q].names) \subseteq ToSet(disk[q].names)
      BY <1>4, Kinds
    <2>4. QED
      BY <1>1, <1>2, <1>4, <2>3, Kinds, NamedBy DEF Forgotten
  <1>11. BrowserOK(E, g, deleted \cup {p})
    BY <1>4, <1>5, Kinds, BrowserEmpty
  <1>12. QED
    BY <1>1, <1>3, <1>5, <1>6, <1>7, <1>8, <1>9, <1>10, <1>11, HandlerInv

(* A row is put among the rows of a project.                                 *)
LEMMA RowPut ==
    ASSUME NEW R \in Rows, NEW l \in Lines, NEW v \in Lists(Flows)
    PROVE  /\ RowAdded(R, l, v) \in Rows /\ DOMAIN RowAdded(R, l, v) = {l} \cup DOMAIN R
           /\ RowAdded(R, l, v)[l] = v
           /\ \A k \in DOMAIN R : k # l => RowAdded(R, l, v)[k] = R[k]
  <1> DEFINE r == RowAdded(R, l, v)
  <1>1. PICK D \in SUBSET Lines : R \in [D -> Lists(Flows)]
    BY DEF Rows
  <1>2. r = [k \in D \cup {l} |-> IF k = l THEN v ELSE R[k]]
    BY <1>1 DEF RowAdded
  <1>3. r \in [D \cup {l} -> Lists(Flows)] /\ D \cup {l} \in SUBSET Lines
    BY <1>1, <1>2
  <1>4. r \in Rows
    BY <1>3 DEF Rows
  <1> HIDE DEF r
  <1>5. DOMAIN r = {l} \cup DOMAIN R /\ r[l] = v /\ \A k \in DOMAIN R : k # l => r[k] = R[k]
    BY <1>1, <1>2
  <1>6. QED
    BY <1>4, <1>5 DEF r

(* The selected project has got the line l, which names the new flows v.     *)
WithLine(E, g, l, v) ==
    LET p == gui.project
    IN /\ p # Nothing /\ l \notin made /\ ToSet(v) \cap made = {} /\ gui.pending = {}
       /\ g.pending = {} /\ g.shown = gui.shown /\ g.project = p /\ g.line = l /\ g.browser = v
       /\ g.doc = [gui.doc EXCEPT ![p] = Append(@, l)]
       /\ g.row = [gui.row EXCEPT ![p] = RowAdded(@, l, v)]
       /\ g.cache = gui.cache \cup ToSet(v)
       /\ E[p] = Intact(Append(gui.doc[p], l)) /\ E[l] = Intact(v)
       /\ \A f \in Files : f # p /\ f # l /\ f \notin ToSet(v) => E[f] = disk[f]
       /\ \A f \in ToSet(v) : E[f] = Intact(<<>>)

LEMMA NewLineOK ==
    ASSUME DInv, drags = 0, NEW g \in Gui, NEW E, NEW l \in Lines, NEW v \in Lists(Flows),
           WithLine(E, g, l, v)
    PROVE  /\ RowsOK(E, g) /\ SelectionOK(g) /\ BrowserOK(E, g, deleted \cup {})
           /\ crashes = 0 => Whole(E, g)
  <1> DEFINE p == gui.project
  <1>a. /\ p # Nothing /\ l \notin made /\ ToSet(v) \cap made = {} /\ gui.pending = {}
        /\ g.pending = {} /\ g.shown = gui.shown /\ g.project = p /\ g.line = l /\ g.browser = v
        /\ g.doc = [gui.doc EXCEPT ![p] = Append(@, l)]
        /\ g.row = [gui.row EXCEPT ![p] = RowAdded(@, l, v)]
        /\ g.cache = gui.cache \cup ToSet(v)
    BY DEF WithLine
  <1>b. /\ E[p] = Intact(Append(gui.doc[p], l)) /\ E[l] = Intact(v)
        /\ \A f \in Files : f # p /\ f # l /\ f \notin ToSet(v) => E[f] = disk[f]
        /\ \A f \in ToSet(v) : E[f] = Intact(<<>>)
    BY DEF WithLine
  <1>1. p \in gui.shown /\ p \in Projects /\ gui.doc[p] \in Lists(Lines) /\ disk[p].names = gui.doc[p]
    <2>1. p \in gui.shown
      BY <1>a, Facts DEF SelectionOK
    <2>2. QED
      BY <2>1, RowFacts
  <1> HIDE DEF p
  <1>2. ToSet(Append(gui.doc[p], l)) = ToSet(gui.doc[p]) \cup {l}
    BY <1>1, AppendElements
  <1>3. /\ DOMAIN g.row[p] = {l} \cup DOMAIN gui.row[p] /\ g.row[p][l] = v
        /\ \A k \in DOMAIN gui.row[p] : k # l => g.row[p][k] = gui.row[p][k]
        /\ g.doc[p] = Append(gui.doc[p], l)
        /\ \A q \in Projects : q # p => g.row[q] = gui.row[q] /\ g.doc[q] = gui.doc[q]
    <2>1. gui.row[p] \in Rows
      BY <1>1, RowFacts
    <2>2. p \in DOMAIN gui.row /\ p \in DOMAIN gui.doc
      BY <1>1, Facts DEF Gui
    <2>3. g.row[p] = RowAdded(gui.row[p], l, v) /\ g.doc[p] = Append(gui.doc[p], l)
          /\ \A q \in Projects : q # p => g.row[q] = gui.row[q] /\ g.doc[q] = gui.doc[q]
      BY <1>a, <2>2, Facts DEF Gui
    <2> DEFINE R == gui.row[p]
    <2> HIDE DEF R
    <2> DEFINE r == RowAdded(R, l, v)
    <2>4. R \in Rows
      BY <2>1 DEF R
    <2>5. DOMAIN r = {l} \cup DOMAIN R /\ r[l] = v /\ \A k \in DOMAIN R : k # l => r[k] = R[k]
      BY <2>4, RowPut
    <2> HIDE DEF r
    <2>6. g.row[p] = r /\ R = gui.row[p]
      BY <2>3 DEF r, R
    <2>7. QED
      BY <2>3, <2>5, <2>6
  <1>4. disk[l] = Absent /\ l \in Files /\ \A q \in Projects : l \notin DOMAIN gui.row[q]
    <2>1. \A q \in gui.shown : l \notin DOMAIN gui.row[q]
      BY <1>a, RowFacts
    <2>2. QED
      BY <1>a, <2>1, Facts, Kinds DEF DiskOK, RowsOK
  <1>5. ToSet(v) \subseteq Flows /\ \A f \in ToSet(v) : disk[f] = Absent
    <2>1. ToSet(v) \subseteq Flows
      BY DEF Lists, ToSet
    <2>2. QED
      BY <1>a, <2>1, Facts, Kinds DEF DiskOK
  <1>6. /\ \A q \in Projects : q # p => E[q] = disk[q]
        /\ \A k \in Lines : k # l => E[k] = disk[k]
        /\ \A f \in Flows : f \notin ToSet(v) => E[f] = disk[f]
    BY <1>b, <1>1, <1>4, <1>5, Kinds
  <1>7. RowsOK(E, g)
    <2>1. ASSUME NEW q \in gui.shown, q # p
          PROVE  /\ E[q] = Intact(g.doc[q])
                 /\ DOMAIN g.row[q] \subseteq ToSet(g.doc[q])
                 /\ \A k \in DOMAIN g.row[q] : E[k] = Intact(g.row[q][k])
      BY <1>a, <1>b, <1>3, <1>4, <1>6, <2>1, RowFacts
    <2>2. /\ E[p] = Intact(g.doc[p])
          /\ DOMAIN g.row[p] \subseteq ToSet(g.doc[p])
          /\ \A k \in DOMAIN g.row[p] : E[k] = Intact(g.row[p][k])
      BY <1>a, <1>b, <1>1, <1>2, <1>3, <1>4, <1>6, RowFacts
    <2>3. \A q \in Projects \ gui.shown : g.doc[q] = <<>> /\ DOMAIN g.row[q] = {}
      BY <1>a, <1>b, <1>1, <1>3, Facts DEF RowsOK
    <2>4. QED
      BY <1>a, <1>b, <2>1, <2>2, <2>3 DEF RowsOK
  <1>8. SelectionOK(g)
    BY <1>a, <1>b, <1>1, <1>3, Kinds DEF SelectionOK
  <1>9. ASSUME crashes = 0 PROVE Whole(E, g)
    <2>1. Whole(disk, gui)
      BY <1>a, <1>b, <1>9, Facts
    <2>2. \A f \in Files : E[f].is # "broken"
      BY <1>a, <1>b, <1>1, <1>4, <2>1, Kinds DEF Whole
    <2>3. ASSUME NEW k \in Lines PROVE E[k] # Absent <=> \E q \in Projects : k \in ToSet(E[q].names)
      <3>1. CASE k = l
        BY <1>a, <1>b, <1>1, <1>2, <3>1, Kinds
      <3>2. CASE k # l
        <4>1. \A q \in Projects : k \in ToSet(E[q].names) <=> k \in ToSet(disk[q].names)
          BY <1>a, <1>b, <1>1, <1>2, <1>6, <3>2, Kinds
        <4>2. QED
          BY <1>a, <1>b, <1>6, <2>1, <3>2, <4>1 DEF Whole
      <3>3. QED
        BY <3>1, <3>2
    <2>4. ASSUME NEW f \in Flows PROVE E[f] # Absent <=> \E k \in Lines : f \in ToSet(E[k].names)
      <3>1. CASE f \in ToSet(v)
        BY <1>a, <1>b, <3>1, Kinds
      <3>2. CASE f \notin ToSet(v)
        <4>1. \A k \in Lines : f \in ToSet(E[k].names) <=> f \in ToSet(disk[k].names)
          BY <1>a, <1>b, <1>4, <1>6, <3>2, Kinds
        <4>2. QED
          BY <1>a, <1>b, <1>6, <2>1, <3>2, <4>1 DEF Whole
      <3>3. QED
        BY <3>1, <3>2
    <2>5. \A q \in g.shown : ToSet(g.doc[q]) \subseteq DOMAIN g.row[q]
      BY <1>a, <1>b, <1>1, <1>2, <1>3, <2>1, RowFacts DEF Whole
    <2>6. QED
      BY <1>a, <1>b, <2>2, <2>3, <2>4, <2>5 DEF Whole
  <1>10. BrowserOK(E, g, deleted \cup {})
    <2>1. InOrder(g.browser, g.row[g.project][g.line])
      BY <1>a, <1>3 DEF InOrder
    <2>2. /\ \A f \in ToSet(v) : E[f].is = "intact"
          /\ \A f \in Flows : f \in ToSet(v) \/ E[f] = disk[f]
      BY <1>b, <1>6, Kinds
    <2>3. QED
      BY <1>a, <2>1, <2>2, BrowserKept
  <1>11. QED
    BY <1>7, <1>8, <1>9, <1>10

LEMMA LineNewInv ==
    ASSUME DInv, drags = 0, drags' = 0, NEW l \in Lines, LineNew(l)
    PROVE  DInv'
  <1> DEFINE p == gui.project
             names == Append(gui.doc[p], l)
             s == Make(l) \o Save(p, names) \o Save(l, <<>>)
             E == [[[disk EXCEPT ![l] = Broken] EXCEPT ![p] = Intact(names)] EXCEPT ![l] = Intact(<<>>)]
             g == [gui EXCEPT !.doc[p] = names, !.row[p] = RowAdded(@, l, <<>>), !.line = l, !.browser = <<>>]
             B == [f \in Files |-> IF f = p THEN NamesIn(disk)[p] \cup {l} ELSE NamesIn(disk)[f]]
  <1>1. /\ Perform(g, s, {}) /\ drags' = drags /\ made' = made \cup {l} /\ l \notin made
        /\ gui.pending = {} /\ p # Nothing
    BY DEF LineNew, Fresh, Up
  <1>2. p \in gui.shown
    BY <1>1, Facts DEF SelectionOK
  <1>3. /\ l \in Files /\ l \in made' /\ disk[l] = Absent /\ l \notin deleted
        /\ p \in Projects /\ p \in Files /\ p \in made' /\ p \notin deleted
        /\ disk[p].names = gui.doc[p] /\ gui.doc[p] \in Lists(Lines) /\ gui.row[p] \in Rows
    BY <1>1, <1>2, Facts, RowFacts, Kinds DEF DiskOK
  <1>4. <<>> \in AnyNames /\ <<>> \in Lists(Flows) /\ <<>> \in Lists(Lines)
    BY DEF Lists, IsInjective, AnyNames
  <1>5. names \in Lists(Lines) /\ names \in AnyNames /\ ToSet(names) = ToSet(gui.doc[p]) \cup {l}
    <2>1. l \notin ToSet(gui.doc[p])
      BY <1>1, <1>3, NamedBy
    <2> DEFINE d == gui.doc[p]
    <2>2. names \in Lists(Lines) /\ ToSet(names) = ToSet(gui.doc[p]) \cup {l}
      <3>1. d \in Lists(Lines) /\ l \notin ToSet(d)
        BY <1>3, <2>1
      <3> HIDE DEF d
      <3>2. Append(d, l) \in Lists(Lines) /\ ToSet(Append(d, l)) = ToSet(d) \cup {l}
        BY <3>1, AppendElements
      <3>3. QED
        BY <3>2 DEF d
    <2>3. QED
      BY <2>2 DEF Lists, AnyNames
  <1> HIDE DEF names, p
  <1>6. Make(l) \in Seq(Command) /\ Save(p, names) \in Seq(Command) /\ Save(l, <<>>) \in Seq(Command)
    BY <1>3, <1>4, <1>5, ScriptTypes DEF AnyNames
  <1>7. /\ B[p] = NamesIn(disk)[p] \cup {l} /\ \A f \in Files : f # p => B[f] = NamesIn(disk)[f]
        /\ \A f \in Files : ToSet(disk[f].names) \subseteq B[f]
    BY <1>3, Facts
  <1> HIDE DEF B
  <1>8. ToSet(names) \subseteq B[p] /\ ToSet(<<>>) \subseteq B[l]
    BY <1>3, <1>5, <1>7, Facts, Kinds
  <1>9. /\ Within(Make(l), B, made', deleted) /\ Within(Save(p, names), B, made', deleted)
        /\ Within(Save(l, <<>>), B, made', deleted)
    BY <1>3, <1>8, WithinParts
  <1>10. Make(l) \o Save(p, names) \in Seq(Command) /\ Within(Make(l) \o Save(p, names), B, made', deleted)
    BY <1>6, <1>9, WithinConcat
  <1>11. s \in Seq(Command) /\ Within(s, B, made', deleted)
    BY <1>6, <1>9, <1>10, WithinConcat
  <1>12. After(s) = E
    <2>1. After(Make(l)) = [disk EXCEPT ![l] = Broken]
      BY <1>3, Facts, AfterFirst
    <2>2. After(Make(l) \o Save(p, names)) = [After(Make(l)) EXCEPT ![p] = Intact(names)]
      BY <1>3, <1>5, <1>6, AfterMore
    <2> DEFINE t == Make(l) \o Save(p, names)
    <2>3. After(s) = [After(t) EXCEPT ![l] = Intact(<<>>)]
      <3>1. t \in Seq(Command) /\ s = t \o Save(l, <<>>)
        BY <1>10
      <3> HIDE DEF t, s
      <3>2. QED
        BY <1>3, <1>4, <3>1, AfterMore
    <2>4. QED
      BY <2>1, <2>2, <2>3
  <1>13. /\ E[p] = Intact(names) /\ E[l] = Intact(<<>>)
         /\ \A f \in Files : f # p /\ f # l => E[f] = disk[f]
    BY <1>3, Facts, Kinds
  <1>14. Apart(B, made', deleted) /\ made' \subseteq Files /\ made \subseteq made'
    <2>1. Apart(NamesIn(disk), made, deleted) /\ deleted \subseteq made /\ made \subseteq Files
      BY Facts
    <2>2. NamesIn(disk)[l] = {}
      BY <1>3, Facts, Kinds
    <2>3. B[p] \subseteq NamesIn(disk)[p] \cup {l} /\ \A f \in Files : f # p => B[f] \subseteq NamesIn(disk)[f]
      BY <1>7
    <2>4. Apart(B, made \cup {l}, deleted)
      BY <1>1, <1>3, <2>1, <2>2, <2>3, ApartNewLine
    <2>5. QED
      BY <1>1, <1>3, <2>1, <2>4
  <1>15. /\ g \in Gui /\ g.pending = {} /\ g.shown = gui.shown /\ g.project = p /\ g.line = l /\ g.browser = <<>>
         /\ g.doc = [gui.doc EXCEPT ![p] = Append(@, l)]
         /\ g.row = [gui.row EXCEPT ![p] = RowAdded(@, l, <<>>)] /\ g.cache = gui.cache
    <2>1. RowAdded(gui.row[p], l, <<>>) \in Rows
      BY <1>3, <1>4, RowPut
    <2>2. QED
      BY <1>1, <1>3, <1>4, <1>5, <2>1, Facts DEF Gui, names, p
  <1> HIDE DEF s, E, g
  <1>16. p = gui.project /\ names = Append(gui.doc[p], l) /\ ToSet(<<>>) = {}
    BY Kinds DEF p, names
  <1>17. /\ RowsOK(E, g) /\ SelectionOK(g) /\ BrowserOK(E, g, deleted \cup {})
         /\ crashes = 0 => Whole(E, g)
    <2>1. WithLine(E, g, l, <<>>)
      BY <1>1, <1>4, <1>13, <1>15, <1>16 DEF WithLine
    <2>2. QED
      BY <1>4, <1>15, <2>1, NewLineOK
  <1>18. QED
    BY <1>1, <1>7, <1>11, <1>12, <1>14, <1>15, <1>17, HandlerInv DEF Forgotten

(* The line l of the project p has got the flows names, and is selected.     *)
WithFlows(E, g, p, l, names, shown) ==
    /\ p \in gui.shown /\ l \in DOMAIN gui.row[p] /\ gui.pending = {}
    /\ g.pending = {} /\ g.shown = gui.shown /\ g.project = p /\ g.line = l /\ g.browser = shown
    /\ g.doc = gui.doc /\ g.row = [gui.row EXCEPT ![p][l] = names]
    /\ E[l] = Intact(names) /\ ToSet(shown) \subseteq ToSet(names) /\ InOrder(shown, names)
    /\ \A f \in Files \ Flows : f # l => E[f] = disk[f]

FlowFiles(E, old, names) ==
    \A f \in Flows : /\ E[f].is # "broken"
                     /\ E[f] # Absent <=> f \in ToSet(names) \/ (f \notin ToSet(old) /\ disk[f] # Absent)

LEMMA FlowsOK ==
    ASSUME DInv, drags = 0, NEW g \in Gui, NEW E, NEW p, NEW l, NEW names \in Lists(Flows), NEW shown,
           WithFlows(E, g, p, l, names, shown)
    PROVE  /\ RowsOK(E, g) /\ SelectionOK(g)
           /\ InOrder(g.browser, g.row[g.project][g.line])
           /\ crashes = 0 /\ FlowFiles(E, gui.row[p][l], names) => Whole(E, g)
  <1>1. /\ p \in gui.shown /\ l \in DOMAIN gui.row[p] /\ gui.pending = {}
        /\ g.pending = {} /\ g.shown = gui.shown /\ g.project = p /\ g.line = l /\ g.browser = shown
        /\ g.doc = gui.doc /\ g.row = [gui.row EXCEPT ![p][l] = names]
    BY DEF WithFlows
  <1>2. /\ E[l] = Intact(names) /\ ToSet(shown) \subseteq ToSet(names) /\ InOrder(shown, names)
        /\ \A f \in Files \ Flows : f # l => E[f] = disk[f]
    BY DEF WithFlows
  <1>3. p \in Projects /\ l \in Lines /\ l \in ToSet(gui.doc[p]) /\ disk[l] = Intact(gui.row[p][l])
        /\ disk[p].names = gui.doc[p] /\ gui.row \in [Projects -> Rows]
    BY <1>1, Facts, RowFacts DEF Gui
  <1>4. /\ DOMAIN g.row[p] = DOMAIN gui.row[p] /\ g.row[p][l] = names
        /\ \A k \in DOMAIN gui.row[p] : k # l => g.row[p][k] = gui.row[p][k]
        /\ \A q \in Projects : q # p => g.row[q] = gui.row[q]
    BY <1>1, <1>3
  <1>5. /\ \A q \in Projects : E[q] = disk[q]
        /\ \A k \in Lines : k # l => E[k] = disk[k]
    BY <1>2, <1>3, Kinds
  <1>6. \A q \in gui.shown : q # p => l \notin DOMAIN gui.row[q]
    <2> SUFFICES ASSUME NEW q \in gui.shown, q # p, l \in DOMAIN gui.row[q] PROVE FALSE
      OBVIOUS
    <2>1. l \in ToSet(disk[q].names) /\ q \in Projects /\ l \in ToSet(disk[p].names)
      BY <1>3, RowFacts
    <2>2. ToSet(disk[q].names) \cap ToSet(disk[p].names) = {}
      BY <1>3, <2>1, NamedBy
    <2>3. QED
      BY <2>1, <2>2
  <1>7. RowsOK(E, g)
    <2>1. ASSUME NEW q \in gui.shown
          PROVE  /\ E[q] = Intact(g.doc[q])
                 /\ DOMAIN g.row[q] \subseteq ToSet(g.doc[q])
                 /\ \A k \in DOMAIN g.row[q] : E[k] = Intact(g.row[q][k])
      BY <1>1, <1>2, <1>4, <1>5, <1>6, RowFacts
    <2>2. \A q \in Projects \ gui.shown : g.doc[q] = <<>> /\ DOMAIN g.row[q] = {}
      BY <1>1, <1>4, Facts DEF RowsOK
    <2>3. QED
      BY <1>1, <2>1, <2>2 DEF RowsOK
  <1>8. SelectionOK(g)
    BY <1>1, <1>2, <1>3, <1>4, Kinds DEF SelectionOK
  <1>9. ASSUME crashes = 0, FlowFiles(E, gui.row[p][l], names) PROVE Whole(E, g)
    <2>1. Whole(disk, gui)
      BY <1>9, Facts
    <2>2. \A f \in Files : E[f].is # "broken"
      BY <1>2, <1>5, <1>9, <2>1, Kinds DEF Whole, FlowFiles, Files
    <2>3. \A k \in Lines : E[k] # Absent <=> \E q \in Projects : k \in ToSet(E[q].names)
      <3>1. disk[l] # Absent /\ E[l] # Absent
        BY <1>2, <1>3, Kinds
      <3>2. QED
        BY <1>5, <2>1, <3>1 DEF Whole
    <2>4. ASSUME NEW f \in Flows PROVE E[f] # Absent <=> \E k \in Lines : f \in ToSet(E[k].names)
      <3>1. ToSet(E[l].names) = ToSet(names) /\ ToSet(disk[l].names) = ToSet(gui.row[p][l])
        BY <1>2, <1>3, Kinds
      <3>2. ASSUME NEW k \in Lines, k # l, f \in ToSet(E[k].names)
            PROVE  f \notin ToSet(gui.row[p][l]) /\ disk[f] # Absent
        <4>1. f \in ToSet(disk[k].names) /\ disk[k] # Absent
          BY <1>5, <3>2, Kinds
        <4>2. PICK q \in Projects : k \in ToSet(disk[q].names)
          BY <2>1, <4>1 DEF Whole
        <4>3. ToSet(disk[k].names) \cap ToSet(disk[l].names) = {}
          BY <1>3, <3>2, <4>2, NamedBy
        <4>4. QED
          BY <2>1, <3>1, <4>1, <4>3 DEF Whole
      <3>3. CASE f \in ToSet(names)
        BY <1>3, <1>9, <3>1, <3>3 DEF FlowFiles
      <3>4. CASE f \notin ToSet(names) /\ f \notin ToSet(gui.row[p][l]) /\ disk[f] # Absent
        <4>1. PICK k \in Lines : f \in ToSet(disk[k].names)
          BY <2>1, <3>4 DEF Whole
        <4>2. k # l
          BY <3>1, <3>4, <4>1
        <4>3. QED
          BY <1>5, <1>9, <3>4, <4>1, <4>2 DEF FlowFiles
      <3>5. CASE E[f] = Absent
        BY <1>9, <3>1, <3>2, <3>5 DEF FlowFiles
      <3>6. QED
        BY <1>9, <3>3, <3>4, <3>5 DEF FlowFiles
    <2>5. \A q \in g.shown : ToSet(g.doc[q]) \subseteq DOMAIN g.row[q]
      BY <1>1, <1>4, <2>1, RowFacts DEF Whole
    <2>6. QED
      BY <2>2, <2>3, <2>4, <2>5 DEF Whole
  <1>10. InOrder(g.browser, g.row[g.project][g.line])
    BY <1>1, <1>2, <1>4
  <1>11. QED
    BY <1>7, <1>8, <1>9, <1>10

(* The selected line.                                                        *)
LEMMA SelectedFacts ==
    ASSUME DInv, drags = 0, LineSelected
    PROVE  /\ gui.project \in gui.shown /\ gui.line \in DOMAIN gui.row[gui.project] /\ gui.pending = {}
           /\ gui.project \in Projects /\ gui.project \in Files
           /\ gui.line \in Lines /\ gui.line \in Files /\ gui.line \in made /\ gui.line \notin deleted
           /\ gui.line \in ToSet(disk[gui.project].names)
           /\ Line \in Lists(Flows) /\ disk[gui.line] = Intact(Line) /\ disk[gui.line].names = Line
           /\ gui.browser \in Lists(Flows) /\ ToSet(gui.browser) \subseteq ToSet(Line)
           /\ ToSet(Line) \subseteq (Flows \cap made) \ deleted
           /\ InOrder(gui.browser, Line) /\ ToSet(gui.browser) \subseteq gui.cache
  <1>1. gui.line # Nothing /\ gui.pending = {}
    BY DEF LineSelected, Up
  <1>2. /\ gui.project \in gui.shown /\ gui.line \in DOMAIN gui.row[gui.project]
        /\ ToSet(gui.browser) \subseteq ToSet(Line) /\ gui.browser \in Lists(Flows)
        /\ InOrder(gui.browser, Line) /\ ToSet(gui.browser) \subseteq gui.cache
    BY <1>1, Facts DEF SelectionOK, BrowserOK, Line, Gui
  <1>3. /\ gui.project \in Projects /\ gui.project \in Files
        /\ gui.line \in Lines /\ gui.line \in Files /\ gui.line \in made /\ gui.line \notin deleted
        /\ Line \in Lists(Flows) /\ disk[gui.line] = Intact(Line) /\ disk[gui.line].names = Line
        /\ gui.line \in ToSet(disk[gui.project].names)
    BY <1>2, RowFacts DEF Line
  <1>4. ToSet(Line) \subseteq (Flows \cap made) \ deleted
    BY <1>3, NamedBy
  <1>5. QED
    BY <1>1, <1>2, <1>3, <1>4

(* The selected line has got the new flow f.                                 *)
LEMMA FlowAddedInv ==
    ASSUME DInv, drags = 0, drags' = drags, LineSelected, NEW f \in Flows, f \notin made,
           made' = made \cup {f}, NEW s \in Seq(Command),
           Perform([Relisted(Append(Line, f)) EXCEPT !.browser = Append(@, f), !.cache = @ \cup {f}], s, {}),
           Within(s, [h \in Files |-> IF h = gui.line THEN NamesIn(disk)[h] \cup {f} ELSE NamesIn(disk)[h]],
                  made', deleted),
           After(s)[gui.line] = Intact(Append(Line, f)), After(s)[f] = Intact(<<>>),
           \A h \in Files : h # gui.line /\ h # f => After(s)[h] = disk[h]
    PROVE  DInv'
  <1> DEFINE p == gui.project
             l == gui.line
             names == Append(Line, f)
             shown == Append(gui.browser, f)
             E == After(s)
             g == [Relisted(names) EXCEPT !.browser = shown, !.cache = @ \cup {f}]
             B == [h \in Files |-> IF h = l THEN NamesIn(disk)[h] \cup {f} ELSE NamesIn(disk)[h]]
  <1>1. f \in Files /\ f \notin ToSet(Line) /\ f \notin ToSet(gui.browser) /\ f \notin Lines
    BY SelectedFacts, Kinds
  <1>2. names \in Lists(Flows) /\ ToSet(names) = ToSet(Line) \cup {f}
    BY <1>1, SelectedFacts, AppendElements
  <1>3. shown \in Lists(Flows) /\ ToSet(shown) = ToSet(gui.browser) \cup {f}
    <2> DEFINE b == gui.browser
    <2>1. b \in Lists(Flows) /\ f \notin ToSet(b)
      BY <1>1, SelectedFacts
    <2> HIDE DEF b
    <2>2. Append(b, f) \in Lists(Flows) /\ ToSet(Append(b, f)) = ToSet(b) \cup {f}
      BY <2>1, AppendElements
    <2>3. QED
      BY <2>2 DEF b
  <1>o. InOrder(shown, names)
    <2> DEFINE b == gui.browser
               ll == Line
    <2>1. b \in Lists(Flows) /\ ll \in Lists(Flows) /\ ToSet(b) \subseteq ToSet(ll) /\ InOrder(b, ll) /\ f \notin ToSet(ll)
      BY <1>1, SelectedFacts
    <2> HIDE DEF b, ll
    <2>2. InOrder(Append(b, f), Append(ll, f))
      BY <2>1, AppendOrder
    <2>3. QED
      BY <2>2 DEF b, ll
  <1> HIDE DEF names, shown
  <1>4. /\ g \in Gui /\ g.pending = {} /\ g.shown = gui.shown /\ g.project = p /\ g.line = l /\ g.browser = shown
        /\ g.doc = gui.doc /\ g.row = [gui.row EXCEPT ![p][l] = names]
        /\ g.cache = gui.cache \cup {f}
    <2>1. [gui.row[p] EXCEPT ![l] = names] \in Rows
      <3>1. gui.row[p] \in Rows
        BY SelectedFacts, RowFacts
      <3>2. QED
        BY <1>2, <3>1 DEF Rows
    <2>2. QED
      BY <1>2, <1>3, <2>1, SelectedFacts, Facts DEF Gui, Relisted
  <1>5. E[l] = Intact(names) /\ \A h \in Files \ Flows : h # l => E[h] = disk[h]
    BY DEF names
  <1>6. Perform(g, s, {})
    <2>1. [Relisted(Append(Line, f)) EXCEPT !.browser = Append(@, f), !.cache = @ \cup {f}] = g
      BY Facts DEF Relisted, Gui, names, shown
    <2>2. QED
      BY <2>1
  <1> HIDE DEF E, g
  <1>7. WithFlows(E, g, p, l, names, shown)
    BY <1>2, <1>3, <1>4, <1>5, <1>o, SelectedFacts DEF WithFlows
  <1>8. /\ RowsOK(E, g) /\ SelectionOK(g) /\ InOrder(g.browser, g.row[g.project][g.line])
        /\ crashes = 0 /\ FlowFiles(E, gui.row[p][l], names) => Whole(E, g)
    BY <1>2, <1>4, <1>7, FlowsOK
  <1>b. BrowserOK(E, g, deleted \cup {})
    <2>1. g.cache = gui.cache \cup {f} /\ ToSet(g.browser) \subseteq g.cache
      BY <1>3, <1>4, SelectedFacts
    <2>2. \A h \in {f} : E[h].is = "intact"
      BY Kinds DEF E
    <2>3. \A h \in Flows : h \in {f} \/ E[h] = disk[h]
      BY SelectedFacts, Kinds DEF E
    <2>4. QED
      BY <1>8, <2>1, <2>2, <2>3, BrowserKept
  <1>9. ASSUME crashes = 0 PROVE FlowFiles(E, gui.row[p][l], names)
    <2>2. Whole(disk, gui)
      BY <1>9, Facts
    <2>3. ASSUME NEW h \in Flows
          PROVE  /\ E[h].is # "broken"
                 /\ E[h] # Absent <=> h \in ToSet(names) \/ (h \notin ToSet(Line) /\ disk[h] # Absent)
      <3>1. CASE h = f
        BY <1>2, <3>1, Kinds DEF E
      <3>2. CASE h # f
        <4>1. E[h] = disk[h] /\ disk[h].is # "broken"
          BY <2>2, <3>2, SelectedFacts, Kinds DEF E, Whole
        <4>2. h \in ToSet(Line) => disk[h] # Absent
          BY <2>2, SelectedFacts DEF Whole
        <4>3. QED
          BY <1>2, <3>2, <4>1, <4>2
      <3>3. QED
        BY <3>1, <3>2
    <2>4. QED
      BY <2>3 DEF FlowFiles, Line
  <1>10. Apart(B, made', deleted) /\ \A h \in Files : ToSet(disk[h].names) \subseteq B[h]
    <2>1. B[l] \subseteq NamesIn(disk)[l] \cup {f} /\ \A h \in Files : h # l => B[h] \subseteq NamesIn(disk)[h]
      BY SelectedFacts
    <2>2. \A h \in Files : NamesIn(disk)[h] \subseteq B[h]
      OBVIOUS
    <2> HIDE DEF B
    <2>3. Apart(B, made \cup {f}, deleted)
      BY <2>1, Facts, SelectedFacts, ApartNewFlow
    <2>4. QED
      BY <2>2, <2>3, Facts
  <1>11. Within(s, B, made', deleted)
    OBVIOUS
  <1>12. made' \subseteq Files /\ made \subseteq made'
    BY <1>1, Facts
  <1> HIDE DEF B
  <1>13. QED
    BY <1>4, <1>6, <1>8, <1>b, <1>9, <1>10, <1>11, <1>12, HandlerInv DEF Forgotten, E

(* What the scripts of flow_new, of the import and of flow_paste have in     *)
(* common.                                                                   *)
LEMMA FlowAddedFacts ==
    ASSUME DInv, drags = 0, LineSelected, NEW f \in Flows, f \notin made, NEW m, m = made \cup {f}, NEW B,
           B = [h \in Files |-> IF h = gui.line THEN NamesIn(disk)[h] \cup {f} ELSE NamesIn(disk)[h]]
    PROVE  /\ disk \in [Files -> Content] /\ f \in Files /\ f # gui.line /\ gui.line \in Files
           /\ Line \in AnyNames /\ <<>> \in AnyNames /\ Append(Line, f) \in AnyNames
           /\ Make(f) \in Seq(Command) /\ Save(f, <<>>) \in Seq(Command)
           /\ Save(gui.line, Line) \in Seq(Command) /\ Save(gui.line, Append(Line, f)) \in Seq(Command)
           /\ Within(Make(f), B, m, deleted) /\ Within(Save(f, <<>>), B, m, deleted)
           /\ Within(<<>>, B, m, deleted) /\ Within(Save(gui.line, Line), B, m, deleted)
           /\ Within(Save(gui.line, Append(Line, f)), B, m, deleted)
  <1>1. /\ disk \in [Files -> Content] /\ f \in Files /\ f # gui.line /\ gui.line \in Files
        /\ f \notin deleted /\ f \in m /\ gui.line \in m /\ gui.line \notin deleted /\ f \notin ToSet(Line)
    BY SelectedFacts, Facts, Kinds
  <1>2. Append(Line, f) \in Lists(Flows) /\ ToSet(Append(Line, f)) = ToSet(Line) \cup {f}
    BY <1>1, SelectedFacts, AppendElements
  <1>3. Line \in AnyNames /\ <<>> \in AnyNames /\ Append(Line, f) \in AnyNames
    BY <1>2, SelectedFacts, NoElements DEF Lists, AnyNames
  <1>4. /\ ToSet(Line) \subseteq B[gui.line] /\ ToSet(<<>>) \subseteq B[f]
        /\ ToSet(Append(Line, f)) \subseteq B[gui.line]
    <2>1. NamesIn(disk)[gui.line] = ToSet(Line)
      BY SelectedFacts, Facts
    <2>2. B[gui.line] = ToSet(Line) \cup {f}
      BY <1>1, <2>1
    <2>3. QED
      BY <1>2, <2>2, Kinds
  <1> DEFINE u == Append(Line, f)
  <1> HIDE DEF u
  <1>5. u = Append(Line, f) /\ u \in AnyNames /\ ToSet(u) \subseteq B[gui.line]
    BY <1>3, <1>4 DEF u
  <1>6. /\ Make(f) \in Seq(Command) /\ Save(f, <<>>) \in Seq(Command)
        /\ Save(gui.line, Line) \in Seq(Command) /\ Save(gui.line, u) \in Seq(Command)
    BY <1>1, <1>3, <1>5, ScriptTypes DEF AnyNames
  <1>7. /\ Within(Make(f), B, m, deleted) /\ Within(Save(f, <<>>), B, m, deleted)
        /\ Within(<<>>, B, m, deleted) /\ Within(Save(gui.line, Line), B, m, deleted)
        /\ Within(Save(gui.line, u), B, m, deleted)
    BY <1>1, <1>4, <1>5, WithinParts
  <1>8. QED
    BY <1>1, <1>3, <1>5, <1>6, <1>7

LEMMA FlowNewInv ==
    ASSUME DInv, drags = 0, drags' = 0, NEW f \in Flows, FlowNew(f)
    PROVE  DInv'
  <1> DEFINE names == Append(Line, f)
             l == gui.line
             m == made \cup {f}
             B == [h \in Files |-> IF h = l THEN NamesIn(disk)[h] \cup {f} ELSE NamesIn(disk)[h]]
  <1>1. /\ LineSelected /\ f \notin made /\ made' = m /\ drags' = drags
    BY DEF FlowNew, Fresh
  <1>2. PICK import \in BOOLEAN :
            Perform([Relisted(names) EXCEPT !.browser = Append(@, f), !.cache = @ \cup {f}],
                    Make(f) \o (IF import THEN Save(l, Line) ELSE <<>>) \o Save(l, names) \o Save(f, <<>>), {})
    BY DEF FlowNew
  <1> DEFINE x == IF import THEN Save(l, Line) ELSE <<>>
             a == Make(f) \o x
             b == a \o Save(l, names)
             s == b \o Save(f, <<>>)
  <1>3. /\ disk \in [Files -> Content] /\ f \in Files /\ f # l /\ l \in Files
        /\ Line \in AnyNames /\ <<>> \in AnyNames /\ names \in AnyNames
        /\ Make(f) \in Seq(Command) /\ Save(f, <<>>) \in Seq(Command)
        /\ x \in Seq(Command) /\ Save(l, names) \in Seq(Command)
        /\ Within(Make(f), B, m, deleted) /\ Within(Save(f, <<>>), B, m, deleted)
        /\ Within(x, B, m, deleted) /\ Within(Save(l, names), B, m, deleted)
    <2>1. /\ disk \in [Files -> Content] /\ f \in Files /\ f # l /\ l \in Files
          /\ Line \in AnyNames /\ <<>> \in AnyNames /\ names \in AnyNames
          /\ Make(f) \in Seq(Command) /\ Save(f, <<>>) \in Seq(Command)
          /\ Save(l, Line) \in Seq(Command) /\ Save(l, names) \in Seq(Command)
          /\ Within(Make(f), B, m, deleted) /\ Within(Save(f, <<>>), B, m, deleted)
          /\ Within(<<>>, B, m, deleted)
          /\ Within(Save(l, Line), B, m, deleted) /\ Within(Save(l, names), B, m, deleted)
      BY <1>1, FlowAddedFacts
    <2>2. CASE import
      BY <2>1, <2>2
    <2>3. CASE ~import
      <3>1. x = <<>> /\ <<>> \in Seq(Command)
        BY <2>3
      <3> HIDE DEF x
      <3>2. x \in Seq(Command) /\ Within(x, B, m, deleted)
        BY <2>1, <3>1
      <3>3. QED
        BY <2>1, <3>2
    <2>4. QED
      BY <2>2, <2>3
  <1>4. /\ After(a)[f] = Broken /\ DOMAIN After(a) = Files
        /\ \A h \in Files : h # l /\ h # f => After(a)[h] = disk[h]
    <2>1. After(Make(f)) = [disk EXCEPT ![f] = Broken]
      BY <1>3, AfterFirst
    <2>2. After(a) = After(Make(f)) \/ After(a) = [After(Make(f)) EXCEPT ![l] = Intact(Line)]
      BY <1>3, AfterMore
    <2>3. QED
      BY <1>3, <2>1, <2>2
  <1> HIDE DEF names, B, l, x
  <1>5. a \in Seq(Command) /\ Within(a, B, m, deleted)
    BY <1>3, WithinConcat
  <1> HIDE DEF a
  <1>6. b \in Seq(Command) /\ Within(b, B, m, deleted) /\ After(b) = [After(a) EXCEPT ![l] = Intact(names)]
    BY <1>3, <1>5, WithinConcat, AfterMore
  <1> HIDE DEF b
  <1>7. s \in Seq(Command) /\ Within(s, B, m, deleted) /\ After(s) = [After(b) EXCEPT ![f] = Intact(<<>>)]
    BY <1>3, <1>6, WithinConcat, AfterMore
  <1>8. Perform([Relisted(names) EXCEPT !.browser = Append(@, f), !.cache = @ \cup {f}], s, {})
    BY <1>2 DEF b, a, x, l, names
  <1> HIDE DEF s
  <1>9. /\ After(s)[l] = Intact(names) /\ After(s)[f] = Intact(<<>>)
        /\ \A h \in Files : h # l /\ h # f => After(s)[h] = disk[h]
    BY <1>3, <1>4, <1>6, <1>7
  <1>10. QED
    BY <1>1, <1>7, <1>8, <1>9, FlowAddedInv DEF l, names, B

LEMMA FlowPasteInv ==
    ASSUME DInv, drags = 0, drags' = 0, NEW f \in Flows, FlowPaste(f)
    PROVE  DInv'
  <1> DEFINE names == Append(Line, f)
             l == gui.line
             m == made \cup {f}
             B == [h \in Files |-> IF h = l THEN NamesIn(disk)[h] \cup {f} ELSE NamesIn(disk)[h]]
             a == Make(f) \o Save(f, <<>>)
             s == a \o Save(l, names)
  <1>1. /\ LineSelected /\ f \notin made /\ made' = m /\ drags' = drags
        /\ Perform([Relisted(names) EXCEPT !.browser = Append(@, f), !.cache = @ \cup {f}], s, {})
    BY DEF FlowPaste, Fresh
  <1>2. /\ disk \in [Files -> Content] /\ f \in Files /\ f # l /\ l \in Files
        /\ <<>> \in AnyNames /\ names \in AnyNames
        /\ Make(f) \in Seq(Command) /\ Save(f, <<>>) \in Seq(Command) /\ Save(l, names) \in Seq(Command)
        /\ Within(Make(f), B, m, deleted) /\ Within(Save(f, <<>>), B, m, deleted)
        /\ Within(Save(l, names), B, m, deleted)
    BY <1>1, FlowAddedFacts
  <1>3. After(a) = [[disk EXCEPT ![f] = Broken] EXCEPT ![f] = Intact(<<>>)]
    <2>1. After(Make(f)) = [disk EXCEPT ![f] = Broken]
      BY <1>2, AfterFirst
    <2>2. After(a) = [After(Make(f)) EXCEPT ![f] = Intact(<<>>)]
      BY <1>2, AfterMore
    <2>3. QED
      BY <2>1, <2>2
  <1> HIDE DEF names, B, l
  <1>4. a \in Seq(Command) /\ Within(a, B, m, deleted)
    BY <1>2, WithinConcat
  <1> HIDE DEF a
  <1>5. s \in Seq(Command) /\ Within(s, B, m, deleted) /\ After(s) = [After(a) EXCEPT ![l] = Intact(names)]
    BY <1>2, <1>4, WithinConcat, AfterMore
  <1> HIDE DEF s
  <1>6. /\ After(s)[l] = Intact(names) /\ After(s)[f] = Intact(<<>>)
        /\ \A h \in Files : h # l /\ h # f => After(s)[h] = disk[h]
    BY <1>2, <1>3, <1>5
  <1>7. QED
    BY <1>1, <1>5, <1>6, FlowAddedInv DEF l, names, B

(* The selected line names, and the browser shows, other lists than before.  *)
LEMMA RelistedGui ==
    ASSUME DInv, drags = 0, LineSelected, NEW names \in Lists(Flows), NEW shown \in Lists(Flows)
    PROVE  LET g == [Relisted(names) EXCEPT !.browser = shown]
           IN /\ g \in Gui /\ g.pending = {} /\ g.shown = gui.shown /\ g.project = gui.project /\ g.line = gui.line
              /\ g.browser = shown /\ g.doc = gui.doc /\ g.cache = gui.cache
              /\ g.row = [gui.row EXCEPT ![gui.project][gui.line] = names]
  <1>1. [gui.row[gui.project] EXCEPT ![gui.line] = names] \in Rows
    <2>1. gui.row[gui.project] \in Rows
      BY SelectedFacts, RowFacts
    <2>2. QED
      BY <2>1 DEF Rows
  <1>2. QED
    BY <1>1, SelectedFacts, Facts DEF Gui, Relisted

LEMMA FlowDeleteInv ==
    ASSUME DInv, drags = 0, drags' = 0, NEW f \in Flows, FlowDelete(f)
    PROVE  DInv'
  <1> DEFINE p == gui.project
             l == gui.line
             names == RemoveFirst(Line, f)
             shown == RemoveFirst(gui.browser, f)
             s == Save(l, names) \o Unlink(f)
             E == [[disk EXCEPT ![l] = Intact(names)] EXCEPT ![f] = Absent]
             g == [Relisted(names) EXCEPT !.browser = shown]
             B == NamesIn(disk)
  <1>1. LineSelected /\ f \in ToSet(gui.browser) /\ made' = made /\ drags' = drags
    BY DEF FlowDelete
  <1>2. f \in Files /\ f \in ToSet(Line) /\ f \in made /\ f \notin deleted /\ f # l /\ l \in Files /\ l \in Lines
    BY <1>1, SelectedFacts, Kinds
  <1>3. /\ names \in Lists(Flows) /\ ToSet(names) = ToSet(Line) \ {f}
        /\ shown \in Lists(Flows) /\ ToSet(shown) \subseteq ToSet(names) /\ ToSet(shown) \subseteq ToSet(gui.browser)
        /\ InOrder(shown, names)
    <2>1. Line \in Seq(Flows) /\ IsInjective(Line) /\ gui.browser \in Seq(Flows) /\ IsInjective(gui.browser)
      BY <1>1, SelectedFacts DEF Lists
    <2>2. /\ names \in Seq(Flows) /\ ToSet(names) \subseteq ToSet(Line) /\ ToSet(Line) \subseteq ToSet(names) \cup {f}
          /\ IsInjective(names) /\ f \notin ToSet(names)
      BY <2>1, RemoveElements
    <2> DEFINE b == gui.browser
    <2> HIDE DEF b
    <2>3. b \in Seq(Flows) /\ IsInjective(b)
      BY <2>1 DEF b
    <2>4. /\ RemoveFirst(b, f) \in Seq(Flows) /\ ToSet(RemoveFirst(b, f)) \subseteq ToSet(b)
          /\ IsInjective(RemoveFirst(b, f)) /\ f \notin ToSet(RemoveFirst(b, f))
      BY <2>3, RemoveElements
    <2>5. /\ shown \in Seq(Flows) /\ ToSet(shown) \subseteq ToSet(gui.browser)
          /\ IsInjective(shown) /\ f \notin ToSet(shown)
      BY <2>4 DEF b
    <2>o. InOrder(shown, names)
      <3> DEFINE ll == Line
      <3>1. b \in Lists(Flows) /\ ll \in Lists(Flows) /\ ToSet(b) \subseteq ToSet(ll) /\ InOrder(b, ll) /\ f \in ToSet(b)
        BY <1>1, SelectedFacts DEF b
      <3> HIDE DEF ll
      <3>2. InOrder(RemoveFirst(b, f), RemoveFirst(ll, f))
        BY <3>1, RemoveOrder
      <3>3. QED
        BY <3>2 DEF b, ll
    <2> HIDE DEF names, shown
    <2>6. ToSet(names) = ToSet(Line) \ {f}
      BY <2>2
    <2>7. ToSet(shown) \subseteq ToSet(names)
      BY <1>1, <2>5, <2>6, SelectedFacts
    <2>8. QED
      BY <2>2, <2>5, <2>6, <2>7, <2>o DEF Lists
  <1>4. Perform(g, s, {f})
    <2>1. Perform([Relisted(names) EXCEPT !.browser = RemoveFirst(@, f)],
                  (IF names # Line THEN Save(l, names) ELSE <<>>) \o Unlink(f), {f})
      BY DEF FlowDelete
    <2>2. [Relisted(names) EXCEPT !.browser = RemoveFirst(@, f)] = g
      BY Facts DEF Relisted, Gui
    <2> HIDE DEF names
    <2>3. names # Line
      BY <1>2, <1>3
    <2>4. QED
      BY <2>1, <2>2, <2>3
  <1> HIDE DEF names, shown
  <1>5. names \in AnyNames
    BY <1>3 DEF Lists, AnyNames
  <1>6. s \in Seq(Command) /\ Within(s, B, made', deleted) /\ After(s) = E
    <2>1. Save(l, names) \in Seq(Command) /\ Unlink(f) \in Seq(Command)
      BY <1>2, <1>5, ScriptTypes DEF AnyNames
    <2>2. l \in made /\ l \notin deleted /\ f \in made /\ made' = made /\ ToSet(names) \subseteq B[l]
      BY <1>1, <1>2, <1>3, SelectedFacts, Facts
    <2>3. Within(Save(l, names), B, made', deleted) /\ Within(Unlink(f), B, made', deleted)
      BY <2>2, WithinParts
    <2>4. After(Save(l, names)) = [disk EXCEPT ![l] = Intact(names)]
      BY <1>2, <1>5, Facts, AfterFirst
    <2>5. After(s) = [After(Save(l, names)) EXCEPT ![f] = Absent]
      BY <1>2, <2>1, AfterMore
    <2>6. s \in Seq(Command) /\ Within(s, B, made', deleted)
      BY <2>1, <2>3, WithinConcat
    <2>7. QED
      BY <2>4, <2>5, <2>6
  <1>7. E[l] = Intact(names) /\ E[f] = Absent /\ \A h \in Files : h # l /\ h # f => E[h] = disk[h]
    BY <1>2, Facts
  <1>8. /\ g \in Gui /\ g.pending = {} /\ g.shown = gui.shown /\ g.project = p /\ g.line = l
        /\ g.browser = shown /\ g.doc = gui.doc /\ g.cache = gui.cache /\ g.row = [gui.row EXCEPT ![p][l] = names]
    BY <1>1, <1>3, RelistedGui
  <1> HIDE DEF s, E, g
  <1>9. WithFlows(E, g, p, l, names, shown)
    BY <1>1, <1>3, <1>7, <1>8, SelectedFacts DEF WithFlows
  <1>10. /\ RowsOK(E, g) /\ SelectionOK(g) /\ InOrder(g.browser, g.row[g.project][g.line])
         /\ crashes = 0 /\ FlowFiles(E, gui.row[p][l], names) => Whole(E, g)
    BY <1>3, <1>8, <1>9, FlowsOK
  <1>b. BrowserOK(E, g, deleted \cup {f})
    <2>1. g.cache = gui.cache /\ ToSet(g.browser) \subseteq g.cache
      BY <1>1, <1>3, <1>8, SelectedFacts
    <2>2. \A h \in Flows : h \in {f} \/ E[h] = disk[h] \/ disk[h].is # "intact"
      BY <1>2, <1>7, Kinds
    <2>3. QED
      BY <1>10, <2>1, <2>2, BrowserSame
  <1>11. ASSUME crashes = 0 PROVE FlowFiles(E, gui.row[p][l], names)
    <2>2. Whole(disk, gui)
      BY <1>11, Facts
    <2>3. ASSUME NEW h \in Flows
          PROVE  /\ E[h].is # "broken"
                 /\ E[h] # Absent <=> h \in ToSet(names) \/ (h \notin ToSet(Line) /\ disk[h] # Absent)
      <3>1. CASE h = f
        BY <1>2, <1>3, <1>7, <3>1, Kinds
      <3>2. CASE h # f
        <4>1. E[h] = disk[h] /\ disk[h].is # "broken"
          BY <1>2, <1>7, <2>2, <3>2, Kinds DEF Whole
        <4>2. h \in ToSet(Line) => disk[h] # Absent
          BY <1>1, <2>2, SelectedFacts DEF Whole
        <4>3. QED
          BY <1>3, <3>2, <4>1, <4>2
      <3>3. QED
        BY <3>1, <3>2
    <2>4. QED
      BY <2>3 DEF FlowFiles, Line
  <1>12. Forgotten(E, {f}) /\ {f} \subseteq made'
    <2>1. \A q \in Projects : ToSet(E[q].names) = ToSet(disk[q].names) /\ f \notin ToSet(disk[q].names)
      BY <1>2, <1>7, NamedBy, Kinds
    <2>2. ASSUME NEW k \in Lines, f \in ToSet(E[k].names)
          PROVE  f = Archived /\ \A q \in Projects : k \notin ToSet(E[q].names)
      <3>1. k # l
        BY <1>3, <1>7, <2>2, Kinds
      <3>2. f \in ToSet(disk[k].names)
        BY <1>2, <1>7, <2>2, <3>1, Kinds
      <3>3. f \in ToSet(disk[l].names) /\ p \in Projects /\ l \in ToSet(disk[p].names)
        BY <1>1, <1>2, SelectedFacts
      <3>4. f = Archived
        BY <1>2, <3>1, <3>2, <3>3, NamedBy
      <3>5. ASSUME NEW q \in Projects, k \in ToSet(disk[q].names) PROVE FALSE
        <4>1. ToSet(disk[k].names) \cap ToSet(disk[l].names) = {}
          BY <3>1, <3>3, <3>5, NamedBy
        <4>2. QED
          BY <3>2, <3>3, <4>1
      <3>6. QED
        BY <2>1, <3>4, <3>5
    <2>3. QED
      BY <1>1, <1>2, <1>7, <2>1, <2>2 DEF Forgotten
  <1>13. /\ Apart(B, made', deleted) /\ \A h \in Files : ToSet(disk[h].names) \subseteq B[h]
         /\ made' \subseteq Files /\ made \subseteq made'
    BY <1>1, Facts
  <1> HIDE DEF B
  <1>14. QED
    BY <1>1, <1>4, <1>6, <1>8, <1>10, <1>b, <1>11, <1>12, <1>13, HandlerInv

LEMMA FlowMoveInv ==
    ASSUME DInv, drags = 0, drags' = 0, NEW f \in Flows, NEW h \in Flows, FlowMove(f, h)
    PROVE  DInv'
  <1>1. /\ LineSelected /\ f # h /\ f \in ToSet(gui.browser) /\ h \in ToSet(gui.browser)
        /\ made' = made /\ drags' = drags
    BY DEF FlowMove
  <1>2. PICK after \in BOOLEAN :
         LET names == Beside(Line, f, h, after)
         IN Perform([Relisted(names) EXCEPT !.browser = Beside(@, f, h, after)],
                    Save(gui.line, names), {})
    BY DEF FlowMove
  <1> DEFINE p == gui.project
             l == gui.line
             b == gui.browser
             names == Beside(Line, f, h, after)
             shown == Beside(b, f, h, after)
             s == Save(l, names)
             E == [disk EXCEPT ![l] = Intact(names)]
             g == [Relisted(names) EXCEPT !.browser = shown]
             B == NamesIn(disk)
  <1>3. /\ Line \in Lists(Flows) /\ b \in Lists(Flows) /\ ToSet(b) \subseteq ToSet(Line)
        /\ InOrder(b, Line) /\ ToSet(b) \subseteq gui.cache /\ l \in Files /\ l \in Lines
        /\ f \in ToSet(b) /\ h \in ToSet(b) /\ f \in ToSet(Line) /\ h \in ToSet(Line)
    BY <1>1, SelectedFacts
  <1>4. Perform(g, s, {})
    <2>1. [Relisted(names) EXCEPT !.browser = Beside(@, f, h, after)] = g
      BY Facts DEF Relisted, Gui
    <2>2. QED
      BY <1>2, <2>1
  <1> HIDE DEF b
  <1>6. /\ names \in Lists(Flows) /\ ToSet(names) = ToSet(Line)
        /\ shown \in Lists(Flows) /\ ToSet(shown) = ToSet(b) /\ InOrder(shown, names)
    <2> DEFINE ll == Line
    <2>1. /\ ll \in Lists(Flows) /\ b \in Lists(Flows) /\ ToSet(b) \subseteq ToSet(ll) /\ InOrder(b, ll)
          /\ f \in ToSet(b) /\ h \in ToSet(b) /\ f \in ToSet(ll) /\ h \in ToSet(ll) /\ f # h
      BY <1>1, <1>3
    <2> HIDE DEF ll
    <2>2. Beside(ll, f, h, after) \in Lists(Flows) /\ ToSet(Beside(ll, f, h, after)) = ToSet(ll)
      BY <2>1, BesidePlaces
    <2>3. Beside(b, f, h, after) \in Lists(Flows) /\ ToSet(Beside(b, f, h, after)) = ToSet(b)
      BY <2>1, BesidePlaces
    <2>4. InOrder(Beside(b, f, h, after), Beside(ll, f, h, after))
      BY <2>1, BesideOrder
    <2>5. QED
      BY <2>2, <2>3, <2>4 DEF ll
  <1> HIDE DEF names, shown
  <1>7. names \in AnyNames
    BY <1>6 DEF Lists, AnyNames
  <1>8. s \in Seq(Command) /\ Within(s, B, made', deleted) /\ After(s) = E
    <2>1. l \in made' /\ l \notin deleted /\ ToSet(names) \subseteq B[l]
      BY <1>1, <1>6, SelectedFacts, Facts
    <2>2. Within(s, B, made', deleted)
      BY <2>1, WithinParts
    <2>3. QED
      BY <1>3, <1>7, <2>2, Facts, AfterFirst, ScriptTypes DEF AnyNames
  <1>9. E[l] = Intact(names) /\ \A k \in Files : k # l => E[k] = disk[k]
    BY <1>3, Facts
  <1>10. /\ g \in Gui /\ g.pending = {} /\ g.shown = gui.shown /\ g.project = p /\ g.line = l
         /\ g.browser = shown /\ g.doc = gui.doc /\ g.cache = gui.cache /\ g.row = [gui.row EXCEPT ![p][l] = names]
    BY <1>1, <1>6, RelistedGui
  <1> HIDE DEF s, E, g
  <1>11. WithFlows(E, g, p, l, names, shown)
    BY <1>1, <1>3, <1>6, <1>9, <1>10, SelectedFacts DEF WithFlows
  <1>12. /\ RowsOK(E, g) /\ SelectionOK(g) /\ InOrder(g.browser, g.row[g.project][g.line])
         /\ crashes = 0 /\ FlowFiles(E, gui.row[p][l], names) => Whole(E, g)
    BY <1>6, <1>10, <1>11, FlowsOK
  <1>b. BrowserOK(E, g, deleted \cup {})
    <2>1. g.cache = gui.cache /\ ToSet(g.browser) \subseteq g.cache
      BY <1>3, <1>6, <1>10
    <2>2. \A k \in Flows : k \in {} \/ E[k] = disk[k] \/ disk[k].is # "intact"
      BY <1>3, <1>9, Kinds
    <2>3. QED
      BY <1>12, <2>1, <2>2, BrowserSame
  <1>13. ASSUME crashes = 0 PROVE FlowFiles(E, gui.row[p][l], names)
    <2>1. Whole(disk, gui)
      BY <1>13, Facts
    <2>2. \A k \in Flows : E[k] = disk[k] /\ disk[k].is # "broken"
      BY <1>3, <1>9, <2>1, Kinds DEF Whole
    <2>3. \A k \in Flows : k \in ToSet(Line) => disk[k] # Absent
      BY <1>1, <2>1, SelectedFacts DEF Whole
    <2>4. QED
      BY <1>6, <2>2, <2>3 DEF FlowFiles, Line
  <1>14. /\ Apart(B, made', deleted) /\ \A k \in Files : ToSet(disk[k].names) \subseteq B[k]
         /\ made' \subseteq Files /\ made \subseteq made'
    BY <1>1, Facts
  <1> HIDE DEF B
  <1>15. QED
    BY <1>1, <1>4, <1>8, <1>10, <1>12, <1>b, <1>13, <1>14, HandlerInv DEF Forgotten

(* The files of all the names go.                                            *)
LEMMA UnlinkAllOK ==
    ASSUME NEW v \in Lists(Flows), disk \in [Files -> Content]
    PROVE  /\ UnlinkAll(v) \in Seq(Command)
           /\ After(UnlinkAll(v)) = [h \in Files |-> IF h \in ToSet(v) THEN Absent ELSE disk[h]]
           /\ \A B, m, gone : ToSet(v) \subseteq m => Within(UnlinkAll(v), B, m, gone)
  <1> DEFINE s == UnlinkAll(v)
  <1>1. v \in Seq(Flows) /\ DOMAIN v = 1..Len(v) /\ Len(v) \in Nat /\ \A i \in 1..Len(v) : v[i] \in Flows
    BY DEF Lists
  <1>2. \A h \in Flows : h \in Files /\ Write(h, Absent) \in Command
    BY Contents, Kinds DEF Write, Command
  <1>3. s = [i \in 1..Len(v) |-> Write(v[i], Absent)]
    BY <1>1 DEF UnlinkAll
  <1>4. s \in Seq(Command) /\ Len(s) = Len(v)
    BY <1>1, <1>2, <1>3
  <1>5. \A i \in 1..Len(s) : s[i].file = v[i] /\ s[i].content = Absent
    BY <1>3, <1>4 DEF Write
  <1> HIDE DEF s
  <1>6. \A h : h \in ToSet(v) <=> \E i \in 1..Len(s) : s[i].file = h
    BY <1>1, <1>4, <1>5 DEF ToSet
  <1>7. ASSUME NEW h \in Files PROVE After(s)[h] = IF h \in ToSet(v) THEN Absent ELSE disk[h]
    <2>1. Len(s) \in 0..Len(s)
      BY <1>1, <1>4
    <2>2. Turns(s, Len(s), h, disk[h], After(s)[h])
      BY <1>4, <2>1, WrittenIs DEF After
    <2>3. QED
      BY <1>5, <1>6, <2>2 DEF Turns
  <1>8. After(s) = [h \in Files |-> IF h \in ToSet(v) THEN Absent ELSE disk[h]]
    <2>1. DOMAIN After(s) = Files /\ After(s) = [h \in Files |-> After(s)[h]]
      BY DEF After, Written
    <2>2. QED
      BY <1>7, <2>1
  <1>9. ASSUME NEW B, NEW m, NEW gone, ToSet(v) \subseteq m PROVE Within(s, B, m, gone)
    BY <1>5, <1>6, <1>9, Kinds DEF Within
  <1>10. QED
    BY <1>4, <1>8, <1>9 DEF s

(* line_delete                                                               *)
LEMMA LineDeleteInv ==
    ASSUME DInv, drags = 0, drags' = 0, NEW p \in Projects, NEW l \in Lines, LineDelete(p, l)
    PROVE  DInv'
  <1> DEFINE flows == gui.row[p][l]
             names == RemoveFirst(gui.doc[p], l)
             a == UnlinkAll(flows)
             t == Save(p, names) \o Unlink(l)
             s == a \o t
             E == [[After(a) EXCEPT ![p] = Intact(names)] EXCEPT ![l] = Absent]
             g == [Unselected(RowRemoved(gui, p, l)) EXCEPT !.doc[p] = names]
             B == NamesIn(disk)
             X == {l} \cup ToSet(flows)
  <1>1. /\ l \in DOMAIN gui.row[p] /\ made' = made /\ drags' = drags /\ gui.pending = {}
        /\ Perform(g, a \o IF l \in ToSet(gui.doc[p]) THEN t ELSE <<>>, X)
    BY DEF LineDelete, Up
  <1>2. p \in gui.shown
    BY <1>1, Facts DEF RowsOK
  <1>3. /\ p \in Files /\ p \in made /\ p \notin deleted /\ p # l
        /\ l \in Files /\ l \in made /\ l \notin deleted
        /\ l \in ToSet(gui.doc[p]) /\ gui.doc[p] \in Lists(Lines) /\ disk[p].names = gui.doc[p]
        /\ flows \in Lists(Flows) /\ disk[l].names = flows
    BY <1>1, <1>2, RowFacts, Kinds
  <1>4. Perform(g, s, X)
    BY <1>1, <1>3
  <1>5. names \in Lists(Lines) /\ ToSet(names) = ToSet(gui.doc[p]) \ {l}
    <2> DEFINE d == gui.doc[p]
    <2>1. d \in Seq(Lines) /\ IsInjective(d)
      BY <1>3 DEF Lists
    <2> HIDE DEF d
    <2>2. /\ RemoveFirst(d, l) \in Seq(Lines) /\ ToSet(RemoveFirst(d, l)) \subseteq ToSet(d)
          /\ ToSet(d) \subseteq ToSet(RemoveFirst(d, l)) \cup {l}
          /\ IsInjective(RemoveFirst(d, l)) /\ l \notin ToSet(RemoveFirst(d, l))
      BY <2>1, RemoveElements
    <2>3. names = RemoveFirst(d, l) /\ d = gui.doc[p]
      BY DEF d
    <2> HIDE DEF names
    <2>4. QED
      BY <2>2, <2>3 DEF Lists
  <1> HIDE DEF names
  <1>6. ToSet(flows) \subseteq (Flows \cap made) \ deleted
    BY <1>3, NamedBy
  <1> HIDE DEF flows
  <1>7. /\ a \in Seq(Command)
        /\ After(a) = [h \in Files |-> IF h \in ToSet(flows) THEN Absent ELSE disk[h]]
        /\ Within(a, B, made', deleted)
    <2>1. ToSet(flows) \subseteq made'
      BY <1>1, <1>6
    <2>2. QED
      BY <1>3, <2>1, Facts, UnlinkAllOK
  <1> HIDE DEF a
  <1>8. s \in Seq(Command) /\ Within(s, B, made', deleted) /\ After(s) = E
    <2>1. names \in AnyNames
      BY <1>5 DEF Lists, AnyNames
    <2>2. Save(p, names) \in Seq(Command) /\ Unlink(l) \in Seq(Command)
      BY <1>3, <2>1, ScriptTypes DEF AnyNames
    <2>3. ToSet(names) \subseteq B[p] /\ p \in made' /\ l \in made'
      BY <1>1, <1>3, <1>5, Facts
    <2>4. Within(Save(p, names), B, made', deleted) /\ Within(Unlink(l), B, made', deleted)
      BY <1>3, <2>3, WithinParts
    <2> DEFINE b == a \o Save(p, names)
    <2>5. b \in Seq(Command) /\ Within(b, B, made', deleted) /\ After(b) = [After(a) EXCEPT ![p] = Intact(names)]
      <3>1. After(b) = [After(a) EXCEPT ![p] = Intact(names)]
        BY <1>3, <1>7, <2>1, AfterMore
      <3>2. b \in Seq(Command) /\ Within(b, B, made', deleted)
        BY <1>7, <2>2, <2>4, WithinConcat
      <3>3. QED
        BY <3>1, <3>2
    <2>6. s = b \o Unlink(l)
      <3> DEFINE x == Save(p, names)
                 y == Unlink(l)
      <3>1. x \in Seq(Command) /\ y \in Seq(Command) /\ a \in Seq(Command)
        BY <1>7, <2>2
      <3> HIDE DEF x, y
      <3>2. a \o (x \o y) = (a \o x) \o y
        BY <3>1, ConcatAssociative
      <3>3. QED
        BY <3>2 DEF x, y
    <2> HIDE DEF b
    <2>7. /\ b \o Unlink(l) \in Seq(Command) /\ Within(b \o Unlink(l), B, made', deleted)
          /\ After(b \o Unlink(l)) = [After(b) EXCEPT ![l] = Absent]
      BY <1>3, <2>2, <2>4, <2>5, WithinConcat, AfterMore
    <2>8. QED
      BY <2>5, <2>6, <2>7
  <1>9. /\ E[p] = Intact(names) /\ E[l] = Absent
        /\ \A h \in ToSet(flows) : E[h] = Absent
        /\ \A h \in Files : h # p /\ h # l /\ h \notin ToSet(flows) => E[h] = disk[h]
    BY <1>3, <1>6, <1>7, Kinds
  <1>10. /\ g \in Gui /\ g.pending = {} /\ g.shown = gui.shown /\ g.project = Nothing /\ g.line = Nothing
         /\ g.browser = <<>> /\ g.cache = gui.cache /\ g.doc = [gui.doc EXCEPT ![p] = names]
         /\ g.row = [gui.row EXCEPT ![p] = [k \in DOMAIN gui.row[p] \ {l} |-> gui.row[p][k]]]
    <2>1. [k \in DOMAIN gui.row[p] \ {l} |-> gui.row[p][k]] \in Rows
      <3>0. gui.row[p] \in Rows
        BY <1>2, RowFacts
      <3>1. PICK D \in SUBSET Lines : gui.row[p] \in [D -> Lists(Flows)]
        BY <3>0 DEF Rows
      <3> DEFINE r == [k \in DOMAIN gui.row[p] \ {l} |-> gui.row[p][k]]
      <3>2. r \in [D \ {l} -> Lists(Flows)] /\ D \ {l} \in SUBSET Lines
        BY <3>1
      <3> HIDE DEF r
      <3>3. r \in Rows
        BY <3>2 DEF Rows
      <3>4. QED
        BY <3>3 DEF r
    <2>2. <<>> \in Lists(Flows)
      BY NoElements
    <2>3. QED
      BY <1>1, <1>5, <2>1, <2>2, Facts DEF Unselected, RowRemoved, Gui
  <1>11. /\ DOMAIN g.row[p] = DOMAIN gui.row[p] \ {l} /\ g.doc[p] = names
         /\ \A k \in DOMAIN g.row[p] : g.row[p][k] = gui.row[p][k]
         /\ \A q \in Projects : q # p => g.row[q] = gui.row[q] /\ g.doc[q] = gui.doc[q]
    BY <1>10, Facts DEF Gui
  <1> HIDE DEF s, E, g, B
  <1>12. /\ \A q \in Projects : q # p => E[q] = disk[q] /\ l \notin ToSet(disk[q].names)
         /\ \A k \in Lines : k # l => E[k] = disk[k]
         /\ ToSet(E[p].names) = ToSet(disk[p].names) \ {l} /\ ToSet(E[l].names) = {}
         /\ l \in ToSet(disk[p].names)
    <2>1. \A q \in Projects : q # p => l \notin ToSet(disk[q].names)
      BY <1>3, NamedBy
    <2>2. QED
      BY <1>3, <1>5, <1>6, <1>9, <2>1, Kinds
  <1>13. \A q \in gui.shown : q # p => l \notin DOMAIN gui.row[q]
    BY <1>12, RowFacts
  <1>14. RowsOK(E, g)
    <2>1. ASSUME NEW q \in gui.shown, q # p
          PROVE  /\ E[q] = Intact(g.doc[q])
                 /\ DOMAIN g.row[q] \subseteq ToSet(g.doc[q])
                 /\ \A k \in DOMAIN g.row[q] : E[k] = Intact(g.row[q][k])
      BY <1>11, <1>12, <1>13, <2>1, RowFacts
    <2>2. /\ E[p] = Intact(g.doc[p])
          /\ DOMAIN g.row[p] \subseteq ToSet(g.doc[p])
          /\ \A k \in DOMAIN g.row[p] : E[k] = Intact(g.row[p][k])
      BY <1>2, <1>5, <1>9, <1>11, <1>12, RowFacts
    <2>3. \A q \in Projects \ gui.shown : g.doc[q] = <<>> /\ DOMAIN g.row[q] = {}
      BY <1>2, <1>11, Facts DEF RowsOK
    <2>4. QED
      BY <1>10, <2>1, <2>2, <2>3 DEF RowsOK
  <1>15. SelectionOK(g)
    BY <1>10 DEF SelectionOK
  <1>16. ASSUME NEW h \in ToSet(flows), NEW k \in Lines, k # l, h \in ToSet(disk[k].names)
         PROVE  h = Archived /\ \A q \in Projects : k \notin ToSet(disk[q].names)
    <2>1. h = Archived
      BY <1>3, <1>16, NamedBy
    <2>2. ASSUME NEW q \in Projects, k \in ToSet(disk[q].names) PROVE FALSE
      <3>1. ToSet(disk[k].names) \cap ToSet(disk[l].names) = {}
        BY <1>12, <1>16, <2>2, NamedBy
      <3>2. QED
        BY <1>3, <1>16, <3>1
    <2>3. QED
      BY <2>1, <2>2
  <1>17. ASSUME crashes = 0 PROVE Whole(E, g)
    <2>1. Whole(disk, gui)
      BY <1>17, Facts
    <2>2. \A h \in Files : E[h].is # "broken"
      BY <1>9, <2>1, Kinds DEF Whole
    <2>3. ASSUME NEW k \in Lines PROVE E[k] # Absent <=> \E q \in Projects : k \in ToSet(E[q].names)
      <3>1. CASE k = l
        BY <1>9, <1>12, <3>1
      <3>2. CASE k # l
        <4>1. \A q \in Projects : k \in ToSet(E[q].names) <=> k \in ToSet(disk[q].names)
          BY <1>12, <3>2
        <4>2. QED
          BY <1>12, <2>1, <3>2, <4>1 DEF Whole
      <3>3. QED
        BY <3>1, <3>2
    <2>4. ASSUME NEW f \in Flows PROVE E[f] # Absent <=> \E k \in Lines : f \in ToSet(E[k].names)
      <3>1. CASE f \in ToSet(flows)
        <4>1. ASSUME NEW k \in Lines, f \in ToSet(E[k].names) PROVE FALSE
          <5>1. k # l /\ f \in ToSet(disk[k].names) /\ disk[k] # Absent
            BY <1>12, <4>1, Kinds
          <5>2. QED
            BY <1>16, <2>1, <3>1, <5>1 DEF Whole
        <4>2. QED
          BY <1>9, <3>1, <4>1
      <3>2. CASE f \notin ToSet(flows)
        <4>1. \A k \in Lines : f \in ToSet(E[k].names) <=> f \in ToSet(disk[k].names)
          BY <1>3, <1>12, <3>2
        <4>2. E[f] = disk[f]
          BY <1>9, <3>2, Kinds
        <4>3. QED
          BY <2>1, <4>1, <4>2 DEF Whole
      <3>3. QED
        BY <3>1, <3>2
    <2>5. \A q \in g.shown : ToSet(g.doc[q]) \subseteq DOMAIN g.row[q]
      BY <1>2, <1>5, <1>10, <1>11, <2>1, RowFacts DEF Whole
    <2>6. QED
      BY <1>10, <2>2, <2>3, <2>4, <2>5 DEF Whole
  <1>18. Forgotten(E, X) /\ X \subseteq made'
    <2>1. \A h \in X : h \in made' /\ E[h] = Absent
      BY <1>1, <1>3, <1>6, <1>9
    <2>2. \A q \in Projects, h \in X : h \notin ToSet(E[q].names)
      <3>1. \A q \in Projects : ToSet(disk[q].names) \subseteq Lines
        BY NamedBy
      <3>2. QED
        BY <1>6, <1>12, <3>1, Kinds
    <2>3. ASSUME NEW k \in Lines, NEW h \in X, h \in ToSet(E[k].names)
          PROVE  h = Archived /\ \A q \in Projects : k \notin ToSet(E[q].names)
      <3>1. k # l /\ h \in ToSet(disk[k].names) /\ \A q \in Projects : ToSet(E[q].names) \subseteq ToSet(disk[q].names)
        BY <1>12, <2>3
      <3>2. CASE h \in ToSet(flows)
        BY <1>16, <3>1, <3>2
      <3>3. CASE h = l
        BY <3>1, <3>3, NamedBy, Kinds
      <3>4. QED
        BY <3>2, <3>3
    <2>4. QED
      BY <2>1, <2>2, <2>3 DEF Forgotten
  <1>19. /\ Apart(B, made', deleted) /\ \A h \in Files : ToSet(disk[h].names) \subseteq B[h]
         /\ made' \subseteq Files /\ made \subseteq made'
    BY <1>1, Facts DEF B
  <1>20. BrowserOK(E, g, deleted \cup X)
    <2>1. \A h \in Flows : h \in X \/ E[h] = disk[h]
      BY <1>3, <1>9, Kinds
    <2>2. QED
      BY <1>10, <2>1, BrowserEmpty
  <1> HIDE DEF X
  <1>21. QED
    BY <1>1, <1>4, <1>8, <1>10, <1>14, <1>15, <1>17, <1>18, <1>19, <1>20, HandlerInv

(* A script in two halves, with other limits in the second.                  *)
LEMMA HalvesOK ==
    ASSUME NEW a \in Seq(Command), NEW t \in Seq(Command), NEW B, NEW C, NEW m,
           DiskOK(disk, made, deleted), made \subseteq m,
           Apart(B, m, deleted), Within(a, B, m, deleted),
           Apart(C, m, deleted), Within(t, C, m, deleted),
           \A f \in Files : ToSet(disk[f].names) \subseteq B[f] /\ ToSet(After(a)[f].names) \subseteq C[f]
    PROVE  \A n \in 0..Len(a \o t) : DiskOK(Written(a \o t, n), m, deleted)
  <1> DEFINE s == a \o t
  <1>1. s \in Seq(Command) /\ Len(s) = Len(a) + Len(t) /\ Len(a) \in Nat /\ Len(t) \in Nat
    OBVIOUS
  <1>2. disk \in [Files -> Content]
    BY DEF DiskOK
  <1>3. \A n \in 0..Len(a) : DiskOK(Written(a, n), m, deleted)
    BY WrittenOK
  <1>4. \A n \in 0..Len(a) : Written(s, n) = Written(a, n)
    <2> SUFFICES ASSUME NEW n \in 0..Len(a) PROVE Written(s, n) = Written(a, n)
      OBVIOUS
    <2>1. \A f \in Files : Written(s, n)[f] = Written(a, n)[f]
      BY WrittenConcat
    <2> HIDE DEF s
    <2>2. /\ DOMAIN Written(s, n) = Files /\ Written(s, n) = [f \in Files |-> Written(s, n)[f]]
          /\ DOMAIN Written(a, n) = Files /\ Written(a, n) = [f \in Files |-> Written(a, n)[f]]
      BY DEF Written
    <2>3. QED
      BY <2>1, <2>2
  <1>5. After(a) \in [Files -> Content] /\ \A f \in Files : f \notin m \/ f \in deleted => After(a)[f] = Absent
    <2>1. DiskOK(Written(a, Len(a)), m, deleted)
      BY <1>1, <1>3
    <2>2. QED
      BY <2>1 DEF After, DiskOK
  <1>6. ASSUME NEW n \in 0..Len(t) PROVE DiskOK(Written(s, Len(a) + n), m, deleted)
    <2>1. Len(a) + n \in 0..Len(s)
      BY <1>1
    <2>2. Written(s, Len(a) + n) \in [Files -> Content]
      BY <1>1, <1>2, <2>1, WrittenTypes
    <2>3. ASSUME NEW f \in Files
          PROVE  \/ Written(s, Len(a) + n)[f] = After(a)[f]
                 \/ /\ ToSet(Written(s, Len(a) + n)[f].names) \subseteq C[f] /\ f \in m
                    /\ f \in deleted => Written(s, Len(a) + n)[f] = Absent
      <3>1. Turns(t, n, f, After(a)[f], Written(s, Len(a) + n)[f])
        BY WrittenConcat DEF After
      <3>2. \A i \in 1..n : i \in 1..Len(t)
        BY <1>1
      <3>3. QED
        BY <3>1, <3>2 DEF Turns, Within
    <2> HIDE DEF s
    <2> DEFINE D == After(a)
               F == Written(s, Len(a) + n)
    <2>4. /\ D \in [Files -> Content] /\ F \in [Files -> Content]
          /\ \A f \in Files : f \notin m \/ f \in deleted => D[f] = Absent
          /\ \A f \in Files : ToSet(D[f].names) \subseteq C[f]
          /\ \A f \in Files : \/ F[f] = D[f]
                              \/ ToSet(F[f].names) \subseteq C[f] /\ f \in m /\ (f \in deleted => F[f] = Absent)
      BY <1>5, <2>2, <2>3
    <2> HIDE DEF D, F
    <2>5. DiskOK(F, m, deleted)
      BY <2>4, OverOK
    <2>6. QED
      BY <2>5 DEF F
  <1>7. ASSUME NEW n \in 0..Len(s) PROVE DiskOK(Written(s, n), m, deleted)
    <2>1. CASE n <= Len(a)
      <3>1. n \in 0..Len(a)
        BY <1>1, <2>1
      <3>2. QED
        BY <1>3, <1>4, <3>1
    <2>2. CASE n > Len(a)
      <3>1. n - Len(a) \in 0..Len(t) /\ n = Len(a) + (n - Len(a))
        BY <1>1, <2>2
      <3>2. QED
        BY <1>6, <3>1
    <2>3. QED
      BY <1>1, <2>1, <2>2
  <1>8. QED
    BY <1>7

LEMMA HalvesInv ==
    ASSUME NEW g, NEW a \in Seq(Command), NEW t \in Seq(Command), NEW B, NEW C, NEW E,
           DInv, drags = 0, drags' = drags, Perform(g, a \o t, {}),
           made' \subseteq Files, made \subseteq made',
           Apart(B, made', deleted), Within(a, B, made', deleted),
           Apart(C, made', deleted), Within(t, C, made', deleted),
           \A f \in Files : ToSet(disk[f].names) \subseteq B[f] /\ ToSet(After(a)[f].names) \subseteq C[f],
           After(a \o t) = E,
           g \in Gui, RowsOK(E, g), SelectionOK(g), BrowserOK(E, g, deleted \cup {}),
           crashes = 0 => Whole(E, g)
    PROVE  DInv'
  <1> DEFINE s == a \o t
  <1>1. DiskOK(disk, made, deleted) /\ deleted \subseteq made
    BY Facts
  <1>2. \A n \in 0..Len(s) : DiskOK(Written(s, n), made', deleted)
    BY <1>1, HalvesOK
  <1>3. Perform(g, s, {}) /\ After(s) = E /\ s \in Seq(Command)
    OBVIOUS
  <1> HIDE DEF s
  <1>4. Len(s) \in 0..Len(s) /\ \A n \in 1..(Len(s) - 1) : n \in 0..Len(s)
    BY <1>3
  <1>5. DiskOK(E, made', deleted)
    BY <1>2, <1>3, <1>4 DEF After
  <1>6. StateOK(After(s), g, made', deleted \cup {})
    <2>1. deleted \cup {} = deleted
      OBVIOUS
    <2>2. QED
      BY <1>1, <1>3, <1>5, <2>1 DEF StateOK
  <1>7. QED
    BY <1>2, <1>3, <1>4, <1>6, PerformInv

(* The line under its new name still names what the archive names; when its  *)
(* project names it, it names its own flow.                                  *)
LEMMA ApartImported ==
    ASSUME DInv, drags = 0, NEW p \in Projects, NEW l \in Lines, NEW f \in Flows, l \notin made, f \notin made,
           NEW m, m = made \cup {l, f}, NEW B, NEW C,
           B = [h \in Files |-> IF h = l THEN {Archived, f} ELSE NamesIn(disk)[h]],
           C = [h \in Files |-> IF h = l THEN {f} ELSE IF h = p THEN NamesIn(disk)[p] \cup {l} ELSE NamesIn(disk)[h]]
    PROVE  Apart(B, m, deleted) /\ Apart(C, m, deleted)
  <1> DEFINE A == NamesIn(disk)
  <1>1. /\ Apart(A, made, deleted) /\ deleted \subseteq made
        /\ \A q \in Projects : \A k \in A[q] : A[k] \subseteq (Flows \cap made) \ deleted
        /\ \A q, r \in Projects : \A k \in A[q], j \in A[r] : k # j => A[k] \cap A[j] = {}
    <2>1. Apart(A, made, deleted) /\ deleted \subseteq made
      BY Facts
    <2> HIDE DEF A
    <2>2. \A q \in Projects : \A k \in A[q] : k \in ListedIn(A)
      BY DEF ListedIn
    <2>3. QED
      BY <2>1, <2>2 DEF Apart
  <1> HIDE DEF A
  <1>2. /\ \A q \in Projects : q \in Files /\ q # l
        /\ \A k \in Lines : k \in Files /\ k # p
        /\ \A h \in Flows : h \in Files /\ h # l /\ h # p
    BY Kinds
  <1>3. /\ \A q \in Projects : B[q] = A[q]
        /\ \A k \in Lines : B[k] = IF k = l THEN {Archived, f} ELSE A[k]
        /\ \A h \in Flows : B[h] = A[h]
    BY <1>2 DEF A
  <1>4. /\ \A q \in Projects : C[q] = IF q = p THEN A[p] \cup {l} ELSE A[q]
        /\ \A k \in Lines : C[k] = IF k = l THEN {f} ELSE A[k]
        /\ \A h \in Flows : C[h] = A[h]
    BY <1>2 DEF A
  <1>5. /\ \A q \in Projects : A[q] \subseteq (Lines \cap made) \ deleted /\ l \notin A[q]
        /\ \A k \in Lines : A[k] \subseteq (Flows \cap made) \cup {Archived} /\ A[k] \cap deleted \subseteq {Archived}
                            /\ A[k] \cap {f} \subseteq {Archived}
        /\ \A k, j \in Lines : k # j => A[k] \cap A[j] \subseteq {Archived}
        /\ \A q, r \in Projects : q # r => A[q] \cap A[r] = {}
        /\ \A h \in Flows : A[h] = {}
    BY <1>1 DEF Apart
  <1>6. f \in m /\ f \notin deleted /\ l \in m /\ l \notin deleted /\ made \subseteq m
    BY <1>1
  <1>7. Apart(B, m, deleted)
    <2>1. \A k : k \in ListedIn(B) <=> \E q \in Projects : k \in A[q]
      BY <1>3 DEF ListedIn
    <2>2. \A k \in ListedIn(B) : k \in Lines /\ k # l /\ B[k] = A[k]
      BY <1>3, <1>5, <2>1
    <2>3. \A k \in ListedIn(B) : B[k] \subseteq (Flows \cap m) \ deleted
      BY <1>1, <1>6, <2>1, <2>2
    <2>4. \A k, j \in ListedIn(B) : k # j => B[k] \cap B[j] = {}
      BY <1>1, <2>1, <2>2
    <2>5. \A k, j \in Lines : k # j => B[k] \cap B[j] \subseteq {Archived}
      BY <1>3, <1>5
    <2>6. \A k \in Lines : B[k] \subseteq (Flows \cap m) \cup {Archived} /\ B[k] \cap deleted \subseteq {Archived}
      BY <1>3, <1>5, <1>6
    <2>7. QED
      BY <1>3, <1>5, <1>6, <2>3, <2>4, <2>5, <2>6 DEF Apart
  <1>8. Apart(C, m, deleted)
    <2>1. \A k : k \in ListedIn(C) => k = l \/ (k \in Lines /\ k # l /\ \E q \in Projects : k \in A[q])
      BY <1>4, <1>5 DEF ListedIn
    <2>2. \A k \in ListedIn(C) : k # l => k \in Lines /\ C[k] = A[k] /\ C[k] \subseteq (Flows \cap made) \ deleted
      BY <1>1, <1>4, <2>1
    <2>3. C[l] = {f}
      BY <1>4
    <2>4. \A k \in ListedIn(C) : C[k] \subseteq (Flows \cap m) \ deleted
      BY <1>6, <2>2, <2>3
    <2>5. ASSUME NEW k \in ListedIn(C), NEW j \in ListedIn(C), k # j PROVE C[k] \cap C[j] = {}
      <3>1. CASE k # l /\ j # l
        BY <1>1, <2>1, <2>2, <2>5, <3>1
      <3>2. CASE k = l \/ j = l
        BY <2>2, <2>3, <2>5, <3>2
      <3>3. QED
        BY <3>1, <3>2
    <2>6. \A k, j \in Lines : k # j => C[k] \cap C[j] \subseteq {Archived}
      BY <1>4, <1>5
    <2>7. \A k \in Lines : C[k] \subseteq (Flows \cap m) \cup {Archived} /\ C[k] \cap deleted \subseteq {Archived}
      BY <1>4, <1>5, <1>6
    <2>8. \A q \in Projects : C[q] \subseteq (Lines \cap m) \ deleted
      BY <1>4, <1>5, <1>6
    <2>9. \A q, r \in Projects : q # r => C[q] \cap C[r] = {}
      BY <1>4, <1>5
    <2>10. QED
      BY <1>4, <1>5, <2>4, <2>5, <2>6, <2>7, <2>8, <2>9 DEF Apart
  <1>9. QED
    BY <1>7, <1>8

LEMMA LineImportInv ==
    ASSUME DInv, drags = 0, drags' = 0, NEW l \in Lines, NEW f \in Flows, LineImport(l, f)
    PROVE  DInv'
  <1> DEFINE p == gui.project
             names == Append(gui.doc[p], l)
             own == <<f>>
             arch == <<Archived>>
             m == made \cup {l, f}
             a1 == Make(l) \o Save(l, arch)
             a2 == a1 \o Make(f)
             a3 == a2 \o Save(f, <<>>)
             a == a3 \o Save(l, own)
             t == Save(p, names) \o Save(l, own)
             s == (a \o Save(p, names)) \o Save(l, own)
             E == After(s)
             g == [gui EXCEPT !.doc[p] = names, !.row[p] = RowAdded(@, l, own), !.line = l,
                              !.browser = own, !.cache = @ \cup {f}]
             B == [h \in Files |-> IF h = l THEN {Archived, f} ELSE NamesIn(disk)[h]]
             C == [h \in Files |-> IF h = l THEN {f}
                                    ELSE IF h = p THEN NamesIn(disk)[p] \cup {l} ELSE NamesIn(disk)[h]]
  <1>1. /\ Perform(g, s, {}) /\ drags' = drags /\ made' = m /\ l \notin made /\ f \notin made
        /\ gui.pending = {} /\ p # Nothing
    BY DEF LineImport, Up
  <1>2. p \in gui.shown
    BY <1>1, Facts DEF SelectionOK
  <1>3. /\ disk \in [Files -> Content] /\ l \in Files /\ f \in Files /\ p \in Files /\ p \in Projects
        /\ l # f /\ l # p /\ f # p
        /\ l \in m /\ f \in m /\ p \in m /\ l \notin deleted /\ f \notin deleted /\ p \notin deleted
        /\ gui.doc[p] \in Lists(Lines) /\ l \notin ToSet(gui.doc[p]) /\ disk[p].names = gui.doc[p]
    <2>1. p \in Projects /\ gui.doc[p] \in Lists(Lines) /\ disk[p].names = gui.doc[p]
          /\ p \in made /\ p \notin deleted
      BY <1>2, RowFacts
    <2>2. l \notin ToSet(gui.doc[p])
      BY <1>1, <2>1, NamedBy
    <2>3. QED
      BY <1>1, <2>1, <2>2, Facts, Kinds
  <1>4. /\ own \in Lists(Flows) /\ ToSet(own) = {f} /\ own \in AnyNames
        /\ arch \in AnyNames /\ ToSet(arch) = {Archived} /\ <<>> \in AnyNames
    BY OneElement, NoElements DEF AnyNames
  <1>5. names \in Lists(Lines) /\ ToSet(names) = ToSet(gui.doc[p]) \cup {l}
    <2> DEFINE d == gui.doc[p]
    <2>1. d \in Lists(Lines) /\ l \notin ToSet(d)
      BY <1>3
    <2> HIDE DEF d
    <2>2. Append(d, l) \in Lists(Lines) /\ ToSet(Append(d, l)) = ToSet(d) \cup {l}
      BY <2>1, AppendElements
    <2>3. QED
      BY <2>2 DEF d
  <1>6. Apart(B, m, deleted) /\ Apart(C, m, deleted)
    BY <1>1, <1>3, ApartImported
  <1>7. /\ g \in Gui /\ g.pending = {} /\ g.shown = gui.shown /\ g.project = p /\ g.line = l /\ g.browser = own
        /\ g.doc = [gui.doc EXCEPT ![p] = Append(@, l)]
        /\ g.row = [gui.row EXCEPT ![p] = RowAdded(@, l, own)] /\ g.cache = gui.cache \cup {f}
    <2>1. RowAdded(gui.row[p], l, own) \in Rows
      <3>1. gui.row[p] \in Rows
        BY <1>2, RowFacts
      <3> HIDE DEF own
      <3>2. QED
        BY <1>4, <3>1, RowPut
    <2> HIDE DEF own
    <2>2. QED
      BY <1>1, <1>3, <1>4, <1>5, <2>1, Facts DEF Gui
  <1>8. names \in AnyNames
    BY <1>5 DEF Lists, AnyNames
  <1>9. /\ B[l] = {Archived, f} /\ B[f] = {} /\ C[l] = {f} /\ C[p] = ToSet(names)
        /\ \A h \in Files : h # l => B[h] = ToSet(disk[h].names)
        /\ \A h \in Files : h # l /\ h # p => C[h] = ToSet(disk[h].names)
        /\ ToSet(disk[l].names) = {} /\ ToSet(disk[f].names) = {}
    <2>1. disk[l] = Absent /\ disk[f] = Absent
      BY <1>1, <1>3, Facts
    <2>2. QED
      BY <1>3, <1>5, <2>1, Facts, Kinds
  <1>10. names = Append(gui.doc[p], l) /\ ToSet(<<>>) = {}
    BY Kinds
  <1> HIDE DEF own, arch, names, B, C, g
  <1>11. /\ Make(l) \in Seq(Command) /\ Save(l, arch) \in Seq(Command) /\ Make(f) \in Seq(Command)
         /\ Save(f, <<>>) \in Seq(Command) /\ Save(l, own) \in Seq(Command) /\ Save(p, names) \in Seq(Command)
    BY <1>3, <1>4, <1>8, ScriptTypes DEF AnyNames
  <1>12. /\ Within(Make(l), B, m, deleted) /\ Within(Save(l, arch), B, m, deleted)
         /\ Within(Make(f), B, m, deleted) /\ Within(Save(f, <<>>), B, m, deleted)
         /\ Within(Save(l, own), B, m, deleted)
         /\ Within(Save(p, names), C, m, deleted) /\ Within(Save(l, own), C, m, deleted)
    <2>1. /\ ToSet(arch) \subseteq B[l] /\ ToSet(own) \subseteq B[l] /\ ToSet(own) \subseteq C[l]
          /\ ToSet(<<>>) \subseteq B[f] /\ ToSet(names) \subseteq C[p]
      BY <1>4, <1>9, <1>10
    <2>2. QED
      BY <1>3, <2>1, WithinParts
  <1>13. /\ a1 \in Seq(Command) /\ Within(a1, B, m, deleted)
         /\ After(a1) = [[disk EXCEPT ![l] = Broken] EXCEPT ![l] = Intact(arch)]
    <2>1. After(Make(l)) = [disk EXCEPT ![l] = Broken]
      BY <1>3, AfterFirst
    <2>2. After(a1) = [After(Make(l)) EXCEPT ![l] = Intact(arch)]
      BY <1>3, <1>4, <1>11, AfterMore
    <2>3. QED
      BY <1>11, <1>12, <2>1, <2>2, WithinConcat
  <1> HIDE DEF a1
  <1>14. a2 \in Seq(Command) /\ Within(a2, B, m, deleted) /\ After(a2) = [After(a1) EXCEPT ![f] = Broken]
    BY <1>3, <1>11, <1>12, <1>13, WithinConcat, AfterMore
  <1> HIDE DEF a2
  <1>15. a3 \in Seq(Command) /\ Within(a3, B, m, deleted) /\ After(a3) = [After(a2) EXCEPT ![f] = Intact(<<>>)]
    <2>1. a3 \in Seq(Command) /\ Within(a3, B, m, deleted)
      BY <1>11, <1>12, <1>14, WithinConcat
    <2>2. After(a3) = [After(a2) EXCEPT ![f] = Intact(<<>>)]
      <3> DEFINE none == <<>>
      <3>1. none \in AnyNames /\ a2 \in Seq(Command) /\ f \in Files
        BY <1>3, <1>4, <1>14
      <3> HIDE DEF none
      <3>2. After(a2 \o Save(f, none)) = [After(a2) EXCEPT ![f] = Intact(none)]
        BY <3>1, AfterSave
      <3>3. QED
        BY <3>2 DEF none
    <2>3. QED
      BY <2>1, <2>2
  <1> HIDE DEF a3
  <1>16. a \in Seq(Command) /\ Within(a, B, m, deleted) /\ After(a) = [After(a3) EXCEPT ![l] = Intact(own)]
    BY <1>3, <1>4, <1>11, <1>12, <1>15, WithinConcat, AfterMore
  <1> HIDE DEF a
  <1>17. /\ After(a)[l] = Intact(own) /\ After(a)[f] = Intact(<<>>) /\ DOMAIN After(a) = Files
         /\ \A h \in Files : h # l /\ h # f => After(a)[h] = disk[h]
    BY <1>3, <1>13, <1>14, <1>15, <1>16
  <1>18. t \in Seq(Command) /\ Within(t, C, m, deleted) /\ s = a \o t
    <2> DEFINE x == Save(p, names)
               y == Save(l, own)
    <2>1. x \in Seq(Command) /\ y \in Seq(Command) /\ Within(x, C, m, deleted) /\ Within(y, C, m, deleted)
      BY <1>11, <1>12
    <2> HIDE DEF x, y
    <2>2. x \o y \in Seq(Command) /\ Within(x \o y, C, m, deleted) /\ (a \o x) \o y = a \o (x \o y)
      BY <1>16, <2>1, WithinConcat, ConcatAssociative
    <2>3. QED
      BY <2>2 DEF x, y
  <1>19. E[p] = Intact(names) /\ E[l] = Intact(own) /\ E[f] = Intact(<<>>)
         /\ \A h \in Files : h # p /\ h # l /\ h # f => E[h] = disk[h]
    <2> DEFINE b == a \o Save(p, names)
    <2>1. After(b) = [After(a) EXCEPT ![p] = Intact(names)] /\ b \in Seq(Command)
      <3>1. After(b) = [After(a) EXCEPT ![p] = Intact(names)]
        BY <1>3, <1>8, <1>16, AfterSave
      <3> DEFINE x == Save(p, names)
      <3>2. x \in Seq(Command)
        BY <1>11
      <3> HIDE DEF x
      <3>3. a \o x \in Seq(Command)
        BY <1>16, <3>2
      <3>4. QED
        BY <3>1, <3>3 DEF x
    <2> HIDE DEF b
    <2>2. After(b \o Save(l, own)) = [After(b) EXCEPT ![l] = Intact(own)]
      BY <1>3, <1>4, <2>1, AfterMore
    <2>3. E = After(b \o Save(l, own))
      BY DEF b
    <2> HIDE DEF E
    <2>4. QED
      BY <1>3, <1>17, <2>1, <2>2, <2>3
  <1>20. \A h \in Files : ToSet(disk[h].names) \subseteq B[h] /\ ToSet(After(a)[h].names) \subseteq C[h]
    <2>1. ToSet(names) = ToSet(disk[p].names) \cup {l}
      BY <1>3, <1>5
    <2>2. QED
      BY <1>3, <1>4, <1>9, <1>17, <2>1, Kinds
  <1> HIDE DEF E, s, t
  <1>21. WithLine(E, g, l, own)
    <2>1. \A h \in ToSet(own) : E[h] = Intact(<<>>)
      BY <1>4, <1>19
    <2>2. ToSet(own) \cap made = {}
      BY <1>1, <1>4
    <2>3. QED
      BY <1>1, <1>4, <1>7, <1>10, <1>19, <2>1, <2>2 DEF WithLine
  <1>22. /\ RowsOK(E, g) /\ SelectionOK(g) /\ BrowserOK(E, g, deleted \cup {})
         /\ crashes = 0 => Whole(E, g)
    BY <1>4, <1>7, <1>21, NewLineOK
  <1>23. made' \subseteq Files /\ made \subseteq made'
    BY <1>1, <1>3, Facts
  <1>24. Perform(g, a \o t, {}) /\ After(a \o t) = E
    BY <1>1, <1>18 DEF E
  <1>25. QED
    BY <1>1, <1>6, <1>7, <1>12, <1>16, <1>18, <1>20, <1>22, <1>23, <1>24, HalvesInv

-----------------------------------------------------------------------------
(* Loading.                                                                  *)

(* What is loaded of a list: all of it is shown, or what precedes the first  *)
(* reference that is dropped, from the list and from the parent's file.      *)
Loads(r, M, names, parent, cached) ==
    /\ r.names \in Lists(M) /\ r.shown \in Lists(M)
    /\ ToSet(r.shown) \subseteq ToSet(r.names) /\ ToSet(r.names) \subseteq ToSet(names)
    /\ InOrder(r.shown, r.names)
    /\ \A f \in ToSet(r.shown) : f \in cached \/ disk[f].is = "intact"
    /\ \/ r.names = names /\ r.script = <<>>
       \/ \E f \in ToSet(names) :
            /\ ToSet(r.names) = ToSet(names) \ {f} /\ disk[f].is # "intact"
            /\ r.script = Save(parent, r.names) \o IF disk[f].is = "broken" THEN Unlink(f) ELSE <<>>
    /\ (\A f \in ToSet(names) : disk[f].is = "intact") =>
          r.names = names /\ r.shown = names /\ r.script = <<>>

(* The rows before the reference that is dropped follow the rest of the line. *)
LEMMA FirstPart ==
    ASSUME NEW M, NEW s \in Lists(M), NEW k \in DOMAIN s
    PROVE  InOrder(SubSeq(s, 1, k - 1), RemoveAt(s, k))
  <1> DEFINE a == SubSeq(s, 1, k - 1)
             b == SubSeq(s, k + 1, Len(s))
             r == a \o b
             at == [i \in 1..(k - 1) |-> i]
  <1>1. s \in Seq(M) /\ Len(s) \in Nat /\ k \in 1..Len(s)
    BY DEF Lists
  <1>2. a \in Seq(M) /\ Len(a) = k - 1 /\ DOMAIN a = 1..(k - 1) /\ b \in Seq(M)
    BY <1>1
  <1>3. r = RemoveAt(s, k)
    BY DEF RemoveAt
  <1> HIDE DEF a, b, r
  <1>4. r \in Seq(M) /\ Len(r) = Len(a) + Len(b) /\ \A i \in 1..Len(a) : r[i] = a[i]
    <2>1. a \in Seq(M) /\ b \in Seq(M) /\ r = a \o b
      BY <1>2 DEF r
    <2>2. QED
      BY <2>1, ConcatPlaces
  <1>5. Len(b) \in Nat /\ DOMAIN r = 1..Len(r)
    BY <1>2, <1>4
  <1>6. \A i \in DOMAIN a : at[i] \in DOMAIN r /\ r[at[i]] = a[i]
    BY <1>1, <1>2, <1>4, <1>5
  <1>7. \A i, j \in DOMAIN a : i < j => at[i] < at[j]
    BY <1>2
  <1> HIDE DEF at
  <1>8. InOrder(a, r)
    BY <1>6, <1>7, ThinnedOrder
  <1>9. QED
    BY <1>3, <1>8 DEF a

LEMMA LoadedOK ==
    ASSUME NEW M, NEW names \in Lists(M), NEW parent, NEW cached, NEW ignored
    PROVE  Loads(Loaded(parent, names, cached, ignored), M, names, parent, cached)
  <1> DEFINE ok == {f \in ToSet(names) : f \in cached \/ disk[f].is = "intact"}
             stops == {i \in DOMAIN names : names[i] \notin ok /\ ~(names[i] \in ignored /\ disk[names[i]].is = "broken")}
             k == IF stops = {} THEN 0 ELSE Min(stops)
             r == Loaded(parent, names, cached, ignored)
  <1>1. names \in Seq(M) /\ IsInjective(names) /\ DOMAIN names = 1..Len(names) /\ Len(names) \in Nat
    BY DEF Lists
  <1>2. r = IF k = 0 THEN [names |-> names, shown |-> Among(names, ok), script |-> <<>>]
            ELSE [names  |-> RemoveAt(names, k),
                  shown  |-> Among(SubSeq(names, 1, k - 1), ok),
                  script |-> Save(parent, RemoveAt(names, k))
                             \o IF disk[names[k]].is = "broken" THEN Unlink(names[k]) ELSE <<>>]
    BY DEF Loaded
  <1>3. \A f : f \in ok <=> f \in ToSet(names) /\ (f \in cached \/ disk[f].is = "intact")
    OBVIOUS
  <1>4. \A i \in stops : i \in DOMAIN names /\ names[i] \in ToSet(names) /\ disk[names[i]].is # "intact"
    BY DEF ToSet
  <1>5. k = 0 \/ k \in stops
    <2>1. stops \in SUBSET Nat
      BY <1>1
    <2> HIDE DEF stops
    <2>2. QED
      BY <2>1, MinIn
  <1>6. ASSUME k = 0
        PROVE  /\ r.names = names /\ r.script = <<>> /\ r.shown = Among(names, ok)
    <2> HIDE DEF ok, stops, k, r
    <2>1. r = [names |-> names, shown |-> Among(names, ok), script |-> <<>>]
      BY <1>2, <1>6
    <2>2. QED
      BY <2>1
  <1>7. ASSUME k # 0
        PROVE  /\ r.names = RemoveAt(names, k) /\ r.shown = Among(SubSeq(names, 1, k - 1), ok)
               /\ r.script = Save(parent, RemoveAt(names, k))
                             \o IF disk[names[k]].is = "broken" THEN Unlink(names[k]) ELSE <<>>
    <2> DEFINE x == Save(parent, RemoveAt(names, k)) \o IF disk[names[k]].is = "broken" THEN Unlink(names[k]) ELSE <<>>
    <2> HIDE DEF ok, stops, k, r
    <2>1. r = [names  |-> RemoveAt(names, k), shown  |-> Among(SubSeq(names, 1, k - 1), ok), script |-> x]
      BY <1>2, <1>7
    <2> HIDE DEF x
    <2>2. /\ r.names = RemoveAt(names, k) /\ r.shown = Among(SubSeq(names, 1, k - 1), ok) /\ r.script = x
      BY <2>1
    <2>3. QED
      BY <2>2 DEF x
  <1>8. k \notin stops => k = 0
    BY <1>5
  <1>9. (\A f \in ToSet(names) : disk[f].is = "intact") => k = 0 /\ ToSet(names) \subseteq ok
    BY <1>3, <1>4, <1>5
  <1> HIDE DEF ok, stops, k, r
  <1>10. CASE k = 0
    <2>1. /\ Among(names, ok) \in Lists(M) /\ ToSet(Among(names, ok)) = ToSet(names) \cap ok
          /\ ToSet(names) \subseteq ok => Among(names, ok) = names
          /\ InOrder(Among(names, ok), names)
      BY AmongElements
    <2>2. QED
      BY <1>3, <1>6, <1>9, <1>10, <2>1 DEF r, Loads
  <1>11. CASE k # 0
    <2>1. k \in DOMAIN names /\ disk[names[k]].is # "intact"
      BY <1>4, <1>5, <1>11
    <2>2. RemoveAt(names, k) \in Lists(M) /\ ToSet(RemoveAt(names, k)) = ToSet(names) \ {names[k]} /\ names[k] \in ToSet(names)
      BY <2>1, RemoveAtElements
    <2> DEFINE b == SubSeq(names, 1, k - 1)
    <2>3. b \in Lists(M) /\ ToSet(b) \subseteq ToSet(names) \ {names[k]}
      <3>1. 1 \in 1..(Len(names) + 1) /\ k - 1 \in 0..Len(names) /\ k \in Nat
        BY <1>1, <2>1
      <3> DEFINE n == k - 1
                 c == SubSeq(names, 1, n)
      <3>a. 1 \in 1..(Len(names) + 1) /\ n \in 0..Len(names)
        BY <3>1
      <3> HIDE DEF n
      <3>b. c \in Seq(M) /\ ToSet(c) = {names[i] : i \in 1..n} /\ (IsInjective(names) => IsInjective(c))
        BY <1>1, <3>a, PartElements
      <3>2. b \in Seq(M) /\ ToSet(b) = {names[i] : i \in 1..(k - 1)} /\ IsInjective(b)
        BY <1>1, <3>b DEF n
      <3>3. \A i \in 1..(k - 1) : i \in DOMAIN names /\ i # k
        BY <1>1, <2>1
      <3>4. \A i \in 1..(k - 1) : names[i] \in ToSet(names) /\ names[i] # names[k]
        BY <1>1, <2>1, <3>3 DEF ToSet, IsInjective
      <3> HIDE DEF b
      <3>5. QED
        BY <3>2, <3>4 DEF Lists
    <2>p. InOrder(b, RemoveAt(names, k))
      BY <2>1, FirstPart
    <2> HIDE DEF b
    <2>4. /\ Among(b, ok) \in Lists(M) /\ ToSet(Among(b, ok)) = ToSet(b) \cap ok
          /\ InOrder(Among(b, ok), b)
      BY <2>3, AmongElements
    <2>q. InOrder(r.shown, r.names)
      <3>1. InOrder(Among(b, ok), RemoveAt(names, k))
        BY <2>4, <2>p, OrderThrough
      <3>2. QED
        BY <1>7, <1>11, <3>1 DEF b
    <2>5. /\ r.names \in Lists(M) /\ r.shown \in Lists(M) /\ ToSet(r.names) = ToSet(names) \ {names[k]}
          /\ ToSet(r.shown) = ToSet(b) \cap ok
      BY <1>7, <1>11, <2>2, <2>4 DEF b
    <2>6. r.script = Save(parent, r.names) \o IF disk[names[k]].is = "broken" THEN Unlink(names[k]) ELSE <<>>
      BY <1>7, <1>11
    <2>7. ~(\A f \in ToSet(names) : disk[f].is = "intact")
      BY <1>9, <1>11
    <2>8. \A f \in ToSet(r.shown) : f \in cached \/ disk[f].is = "intact"
      BY <1>3, <2>5
    <2>9. ToSet(r.shown) \subseteq ToSet(r.names) /\ ToSet(r.names) \subseteq ToSet(names)
      BY <2>3, <2>5
    <2>10. QED
      BY <2>1, <2>2, <2>5, <2>6, <2>7, <2>8, <2>9, <2>q DEF r, Loads
  <1>12. QED
    BY <1>10, <1>11

(* What a load writes, after writes a that have changed nothing.             *)
LEMMA LoadScript ==
    ASSUME DInv, drags = 0, NEW M \in {Lines, Flows}, NEW names \in Lists(M), NEW parent \in Files \ M, NEW cached, NEW ignored,
           disk[parent] = Intact(names), NEW a \in Seq(Command), After(a) = disk, NEW r, r = Loaded(parent, names, cached, ignored)
    PROVE  /\ r.script \in Seq(Command) /\ Within(r.script, NamesIn(disk), made, deleted)
           /\ After(a \o r.script)[parent] = Intact(r.names)
           /\ \A f \in Files : f # parent =>
                \/ After(a \o r.script)[f] = disk[f]
                \/ f \in M /\ disk[f].is = "broken" /\ After(a \o r.script)[f] = Absent
  <1>1. /\ r.names \in Lists(M) /\ ToSet(r.names) \subseteq ToSet(names)
        /\ \/ r.names = names /\ r.script = <<>>
           \/ \E f \in ToSet(names) :
                /\ ToSet(r.names) = ToSet(names) \ {f} /\ disk[f].is # "intact"
                /\ r.script = Save(parent, r.names) \o IF disk[f].is = "broken" THEN Unlink(f) ELSE <<>>
    <2>1. Loads(r, M, names, parent, cached)
      BY LoadedOK
    <2>2. QED
      BY <2>1 DEF Loads
  <1>2. /\ disk \in [Files -> Content] /\ parent \in made /\ parent \notin deleted
        /\ NamesIn(disk)[parent] = ToSet(names)
    BY Facts, Kinds
  <1>3. ToSet(names) \subseteq M /\ M \subseteq Files /\ r.names \in AnyNames
    BY <1>1, Kinds DEF Lists, ToSet, AnyNames
  <1> DEFINE x == Save(parent, r.names)
             B == NamesIn(disk)
  <1>4. x \in Seq(Command) /\ Within(x, B, made, deleted) /\ After(a \o x) = [disk EXCEPT ![parent] = Intact(r.names)]
    <2>1. ToSet(r.names) \subseteq B[parent]
      BY <1>1, <1>2
    <2>2. Within(x, B, made, deleted)
      BY <1>2, <2>1, WithinParts
    <2>3. x \in Seq(Command)
      BY <1>3, ScriptTypes DEF AnyNames
    <2>4. After(a \o x) = [disk EXCEPT ![parent] = Intact(r.names)]
      BY <1>3, AfterSave
    <2>5. QED
      BY <2>2, <2>3, <2>4
  <1> HIDE DEF x, B
  <1>5. CASE r.names = names /\ r.script = <<>>
    <2>1. After(a \o <<>>) = After(a) /\ <<>> \in Seq(Command)
      BY AfterMore, Kinds
    <2>2. Within(<<>>, B, made, deleted)
      BY <1>2, WithinParts
    <2>3. QED
      BY <1>5, <2>1, <2>2 DEF B
  <1>6. ASSUME NEW f \in ToSet(names), disk[f].is # "intact",
               r.script = x \o IF disk[f].is = "broken" THEN Unlink(f) ELSE <<>>
        PROVE  /\ r.script \in Seq(Command) /\ Within(r.script, B, made, deleted)
               /\ \/ After(a \o r.script) = [disk EXCEPT ![parent] = Intact(r.names)]
                  \/ /\ After(a \o r.script) = [[disk EXCEPT ![parent] = Intact(r.names)] EXCEPT ![f] = Absent]
                     /\ disk[f].is = "broken"
    <2>1. CASE disk[f].is = "broken"
      <3> DEFINE y == Unlink(f)
      <3>1. f \in Files /\ f \in made
        BY <1>3, <2>1, Facts, Kinds
      <3>2. y \in Seq(Command) /\ Within(y, B, made, deleted)
        BY <3>1, ScriptTypes, WithinParts
      <3>3. a \o x \in Seq(Command)
        BY <1>4
      <3>4. After((a \o x) \o y) = [After(a \o x) EXCEPT ![f] = Absent]
        BY <3>1, <3>3, AfterMore
      <3> HIDE DEF y
      <3>5. x \o y \in Seq(Command) /\ Within(x \o y, B, made, deleted) /\ (a \o x) \o y = a \o (x \o y)
        BY <1>4, <3>2, WithinConcat, ConcatAssociative
      <3>6. r.script = x \o y
        BY <1>6, <2>1 DEF y
      <3>7. QED
        BY <1>4, <2>1, <3>4, <3>5, <3>6
    <2>2. CASE disk[f].is # "broken"
      <3>1. r.script = x
        <4>1. r.script = x \o <<>>
          BY <1>6, <2>2
        <4>2. QED
          BY <1>4, <4>1, ConcatEmptySeq
      <3>2. QED
        BY <1>4, <3>1
    <2>3. QED
      BY <2>1, <2>2
  <1>7. ASSUME NEW f \in ToSet(names), disk[f].is # "intact",
               r.script = x \o IF disk[f].is = "broken" THEN Unlink(f) ELSE <<>>
        PROVE  /\ After(a \o r.script)[parent] = Intact(r.names)
               /\ \A h \in Files : h # parent =>
                    \/ After(a \o r.script)[h] = disk[h]
                    \/ h \in M /\ disk[h].is = "broken" /\ After(a \o r.script)[h] = Absent
    <2>1. f \in M /\ f \in Files /\ f # parent
      BY <1>3
    <2>2. \/ After(a \o r.script) = [disk EXCEPT ![parent] = Intact(r.names)]
          \/ /\ After(a \o r.script) = [[disk EXCEPT ![parent] = Intact(r.names)] EXCEPT ![f] = Absent]
             /\ disk[f].is = "broken"
      BY <1>6, <1>7
    <2>3. QED
      BY <1>2, <2>1, <2>2
  <1>8. CASE \E f \in ToSet(names) :
                /\ disk[f].is # "intact"
                /\ r.script = x \o IF disk[f].is = "broken" THEN Unlink(f) ELSE <<>>
    BY <1>6, <1>7, <1>8 DEF B
  <1>9. QED
    BY <1>1, <1>5, <1>8 DEF x

(* The selection of a line whose flows are loaded.                           *)
LEMMA LoadFlowsInv ==
    ASSUME DInv, drags = 0, drags' = 0, NEW p \in Projects, NEW l \in DOMAIN gui.row[p],
           gui.pending = {}, made' = made, NEW ignored,
           Perform(LoadFlows(gui, p, l, ignored).gui, LoadFlows(gui, p, l, ignored).script, {})
    PROVE  DInv'
  <1>1. l \in DOMAIN gui.row[p] /\ made' = made /\ drags' = drags /\ gui.pending = {}
    OBVIOUS
  <1> DEFINE names == gui.row[p][l]
             r == Loaded(l, names, gui.cache, ignored)
             g == [gui EXCEPT !.project = p, !.line = l, !.browser = r.shown,
                              !.cache = @ \cup ToSet(r.shown), !.row[p][l] = r.names]
             none == <<>>
             s == r.script
             E == After(none \o s)
             B == NamesIn(disk)
  <1>3. Perform(g, s, {})
    BY DEF LoadFlows
  <1>4. p \in gui.shown
    BY <1>1, Facts DEF RowsOK
  <1>5. /\ names \in Lists(Flows) /\ disk[l] = Intact(names) /\ l \in Files \ Flows /\ l \in made /\ l \in Lines
        /\ gui.row[p] \in Rows /\ p \in Projects /\ disk[l].names = names
    BY <1>1, <1>4, RowFacts, Kinds
  <1>6. none \in Seq(Command) /\ After(none) = disk
    BY Facts, AfterFirst, <1>5
  <1> HIDE DEF names, r, none
  <1>7. /\ s \in Seq(Command) /\ Within(s, B, made, deleted)
        /\ E[l] = Intact(r.names)
        /\ \A f \in Files : f # l => E[f] = disk[f] \/ (f \in Flows /\ disk[f].is = "broken" /\ E[f] = Absent)
    <2>1. r = Loaded(l, names, gui.cache, ignored) /\ Flows \in {Lines, Flows}
      BY DEF r
    <2>2. QED
      BY <1>5, <1>6, <2>1, LoadScript
  <1>8. /\ r.names \in Lists(Flows) /\ r.shown \in Lists(Flows)
        /\ ToSet(r.shown) \subseteq ToSet(r.names) /\ InOrder(r.shown, r.names)
        /\ ToSet(r.names) \subseteq ToSet(names)
        /\ \A f \in ToSet(r.shown) : f \in gui.cache \/ disk[f].is = "intact"
        /\ (\A f \in ToSet(names) : disk[f].is = "intact") => r.names = names /\ r.shown = names /\ s = <<>>
    <2>1. Loads(r, Flows, names, l, gui.cache)
      BY <1>5, LoadedOK DEF r
    <2>2. QED
      BY <2>1 DEF Loads
  <1>9. none \o s = s
    BY <1>7, ConcatEmptySeq DEF none
  <1>10. After(s) = E
    BY <1>9
  <1>11. /\ g \in Gui /\ g.pending = {} /\ g.shown = gui.shown /\ g.project = p /\ g.line = l
         /\ g.browser = r.shown /\ g.cache = gui.cache \cup ToSet(r.shown)
         /\ g.doc = gui.doc /\ g.row = [gui.row EXCEPT ![p][l] = r.names]
    <2>1. [gui.row[p] EXCEPT ![l] = r.names] \in Rows
      <3>1. PICK D \in SUBSET Lines : gui.row[p] \in [D -> Lists(Flows)]
        BY <1>5 DEF Rows
      <3> DEFINE w == [gui.row[p] EXCEPT ![l] = r.names]
      <3>2. w \in [D -> Lists(Flows)]
        BY <1>8, <3>1
      <3> HIDE DEF w
      <3>3. w \in Rows
        BY <3>2 DEF Rows
      <3>4. QED
        BY <3>3 DEF w
    <2>2. ToSet(r.shown) \subseteq Flows
      BY <1>8 DEF Lists, ToSet
    <2> DEFINE w == [gui.row[p] EXCEPT ![l] = r.names]
               rows == [gui.row EXCEPT ![p] = w]
               cache == gui.cache \cup ToSet(r.shown)
    <2>3. /\ gui \in Gui /\ gui.row \in [Projects -> Rows] /\ cache \subseteq Flows
          /\ rows \in [Projects -> Rows] /\ rows = [gui.row EXCEPT ![p][l] = r.names]
      BY <1>1, <1>5, <2>1, <2>2, Facts DEF Gui
    <2>4. g = [gui EXCEPT !.project = p, !.line = l, !.browser = r.shown, !.cache = cache, !.row = rows]
      BY <2>3 DEF Gui
    <2> HIDE DEF g, w, rows, cache
    <2>5. /\ g \in Gui /\ g.pending = gui.pending /\ g.shown = gui.shown /\ g.project = p /\ g.line = l
          /\ g.browser = r.shown /\ g.cache = cache /\ g.doc = gui.doc /\ g.row = rows
      BY <1>5, <1>8, <2>3, <2>4 DEF Gui
    <2>6. QED
      BY <1>1, <2>3, <2>5 DEF cache
  <1> HIDE DEF s, E, g
  <1>12. WithFlows(E, g, p, l, r.names, r.shown)
    BY <1>1, <1>4, <1>5, <1>7, <1>8, <1>11 DEF WithFlows
  <1>13. /\ RowsOK(E, g) /\ SelectionOK(g) /\ InOrder(g.browser, g.row[g.project][g.line])
         /\ crashes = 0 /\ FlowFiles(E, gui.row[p][l], r.names) => Whole(E, g)
    BY <1>8, <1>11, <1>12, FlowsOK
  <1>c. ToSet(names) \subseteq Flows
    <2>1. names \in Seq(Flows)
      BY <1>5 DEF Lists
    <2>2. QED
      BY <2>1 DEF ToSet
  <1>b. BrowserOK(E, g, deleted \cup {})
    <2>1. ASSUME NEW f \in ToSet(r.shown) PROVE disk[f].is = "intact" /\ f \in Flows /\ f \in Files /\ f # l
      <3>1. f \in ToSet(names) /\ f \in Flows
        BY <1>8, <1>c
      <3>2. l \in ToSet(disk[p].names)
        BY <1>1, <1>4, RowFacts
      <3>3. f \notin deleted
        BY <1>5, <3>1, <3>2, NamedBy
      <3>4. f \in gui.cache => disk[f].is = "intact"
        BY <3>3, Facts DEF BrowserOK
      <3>5. QED
        BY <1>5, <1>8, <3>1, <3>4, Kinds
    <2>2. \A f \in ToSet(r.shown) : E[f].is = "intact"
      BY <1>7, <2>1
    <2>3. \A f \in Flows : E[f] = disk[f] \/ disk[f].is # "intact"
      BY <1>5, <1>7, Kinds
    <2>4. g.cache = gui.cache \cup ToSet(r.shown) /\ ToSet(g.browser) \subseteq g.cache
      BY <1>11
    <2>5. QED
      BY <1>13, <2>2, <2>3, <2>4, BrowserKept
  <1>14. ASSUME crashes = 0 PROVE FlowFiles(E, gui.row[p][l], r.names)
    <2>1. Whole(disk, gui)
      BY <1>14, Facts
    <2>2. \A f \in ToSet(names) : f \in Flows /\ disk[f] # Absent
      BY <1>5, <1>c, <2>1 DEF Whole
    <2>3. \A f \in Files : disk[f] \in Content /\ disk[f].is # "broken"
      BY <2>1, Facts DEF Whole
    <2>4. \A f \in ToSet(names) : disk[f].is = "intact"
      BY <2>2, <2>3, Contents, Kinds
    <2>5. r.names = names /\ r.shown = names
      BY <1>8, <2>4
    <2>6. \A f \in Flows : E[f] = disk[f] /\ E[f].is # "broken"
      BY <1>5, <1>7, <2>3, Kinds
    <2>7. QED
      BY <2>2, <2>5, <2>6 DEF FlowFiles, names
  <1>15. /\ Apart(B, made', deleted) /\ \A h \in Files : ToSet(disk[h].names) \subseteq B[h]
         /\ made' \subseteq Files /\ made \subseteq made'
    BY <1>1, Facts
  <1> HIDE DEF B
  <1>16. QED
    BY <1>1, <1>3, <1>7, <1>10, <1>11, <1>13, <1>b, <1>14, <1>15, HandlerInv DEF Forgotten

(* The line is selected and no flow of it is loaded.                         *)
LEMMA UnloadedInv ==
    ASSUME DInv, drags = 0, drags' = 0, NEW p \in Projects, NEW l \in DOMAIN gui.row[p],
           gui.pending = {}, made' = made,
           Perform([gui EXCEPT !.project = p, !.line = l, !.browser = <<>>], <<>>, {})
    PROVE  DInv'
  <1> DEFINE g == [gui EXCEPT !.project = p, !.line = l, !.browser = <<>>]
             s == <<>>
  <1>1. p \in gui.shown
    BY Facts DEF RowsOK
  <1>2. l \in Lines /\ <<>> \in Lists(Flows)
    BY <1>1, RowFacts, NoElements
  <1>3. /\ g \in Gui /\ g.pending = gui.pending /\ g.shown = gui.shown /\ g.doc = gui.doc /\ g.row = gui.row
        /\ g.project = p /\ g.line = l /\ g.browser = <<>> /\ g.cache = gui.cache
    BY <1>2, Facts DEF Gui
  <1>4. After(s) = disk /\ Len(s) = 0
    BY Facts, AfterFirst, <1>1, RowFacts
  <1> HIDE DEF g, s
  <1>5. RowsOK(disk, g) /\ SelectionOK(g) /\ (crashes = 0 => Whole(disk, g))
    BY <1>1, <1>2, <1>3, Facts, Kinds DEF RowsOK, SelectionOK, Whole
  <1>6. BrowserOK(disk, g, deleted \cup {})
    BY <1>3, BrowserEmpty
  <1>7. StateOK(disk, g, made', deleted \cup {})
    <2>1. deleted \cup {} = deleted
      OBVIOUS
    <2>2. QED
      BY <1>3, <1>5, <1>6, <2>1, Facts DEF StateOK
  <1>8. Perform(g, s, {}) /\ drags' = drags /\ made' \subseteq Files /\ made \subseteq made'
    BY Facts DEF g, s
  <1>9. \A n \in 1..(Len(s) - 1) : FALSE
    BY <1>4
  <1>10. QED
    BY <1>4, <1>7, <1>8, <1>9, PerformInv

(* The selection of a line, with its flows or without.                       *)
LEMMA SelectLineInv ==
    ASSUME DInv, drags = 0, drags' = 0, NEW p \in Projects, NEW l \in Lines, SelectLine(p, l)
    PROVE  DInv'
  <1>1. l \in DOMAIN gui.row[p] /\ made' = made /\ drags' = drags /\ gui.pending = {}
    BY DEF SelectLine, Up
  <1>2. PICK lf \in Selections(gui, p, l) : Perform(lf.gui, lf.script, {})
    BY DEF SelectLine
  <1>3. ASSUME NEW ignored, lf = LoadFlows(gui, p, l, ignored) PROVE DInv'
    BY <1>1, <1>2, <1>3, LoadFlowsInv
  <1>4. ASSUME lf = [gui |-> [gui EXCEPT !.project = p, !.line = l, !.browser = <<>>], script |-> <<>>] PROVE DInv'
    <2>1. Perform([gui EXCEPT !.project = p, !.line = l, !.browser = <<>>], <<>>, {})
      BY <1>2, <1>4
    <2>2. QED
      BY <1>1, <2>1, UnloadedInv
  <1>5. QED
    BY <1>3, <1>4 DEF Selections

(* Intact files are saved as they are.                                       *)
LEMMA ResavedOK ==
    ASSUME DInv, drags = 0, NEW v \in Lists(Lines), \A l \in ToSet(v) : disk[l].is = "intact"
    PROVE  /\ Resaved(v) \in Seq(Command) /\ Within(Resaved(v), NamesIn(disk), made, deleted)
           /\ After(Resaved(v)) = disk
  <1> DEFINE s == Resaved(v)
             n == Len(v)
             m == 2 * n
             at(i) == (i + 1) \div 2
             odd(i) == i % 2 = 1
  <1>1. v \in Seq(Lines) /\ n \in Nat /\ DOMAIN v = 1..n /\ m \in Nat
    BY DEF Lists
  <1>2. \A i \in 1..m : at(i) \in 1..n
    BY <1>1
  <1>3. \A i \in 1..m : odd(i) => i + 1 \in 1..m
    BY <1>1
  <1>4. \A i \in 1..m : odd(i) => at(i + 1) = at(i)
    BY <1>1
  <1>5. \A i \in 1..n : v[i] \in Lines /\ v[i] \in Files /\ disk[v[i]] = Intact(disk[v[i]].names)
                       /\ v[i] \in made /\ v[i] \notin deleted /\ disk[v[i]] \in Content
    <2> SUFFICES ASSUME NEW i \in 1..n
                 PROVE  v[i] \in Lines /\ v[i] \in Files /\ disk[v[i]] = Intact(disk[v[i]].names)
                        /\ v[i] \in made /\ v[i] \notin deleted /\ disk[v[i]] \in Content
      OBVIOUS
    <2>1. v[i] \in Lines /\ v[i] \in Files /\ disk[v[i]].is = "intact"
      BY <1>1, Kinds DEF ToSet
    <2>2. disk[v[i]] \in Content
      BY <2>1, Facts
    <2>3. disk[v[i]] = Intact(disk[v[i]].names)
      BY <2>1, <2>2, Contents
    <2>4. disk[v[i]] # Absent
      BY <2>1, Kinds
    <2>5. QED
      BY <2>1, <2>2, <2>3, <2>4, Facts
  <1> DEFINE c(i) == IF odd(i) THEN Broken ELSE Intact(disk[v[at(i)]].names)
             I == 1..m
  <1>6. s = [i \in I |-> Write(v[at(i)], c(i))]
    BY DEF Resaved
  <1>7. \A i \in I : i \in Int /\ at(i) \in 1..n /\ (odd(i) => i + 1 \in I /\ at(i + 1) = at(i))
    BY <1>2, <1>3, <1>4
  <1> HIDE DEF at, s, odd, m
  <1>8. \A i \in I : Write(v[at(i)], c(i)) \in Command
    <2>1. \A i \in I : c(i) \in Content
      BY <1>5, <1>7, Contents
    <2>2. \A i \in I : v[at(i)] \in Files
      BY <1>5, <1>7
    <2> HIDE DEF c, I
    <2>3. QED
      BY <2>1, <2>2 DEF Write, Command
  <1>9. /\ s \in Seq(Command) /\ Len(s) = m
        /\ \A i \in I : s[i].file = v[at(i)] /\ s[i].content = c(i)
    <2> HIDE DEF c
    <2>1. \A i \in I : s[i] = Write(v[at(i)], c(i))
      BY <1>6
    <2>2. s \in Seq(Command) /\ Len(s) = m
      BY <1>1, <1>6, <1>8
    <2>3. QED
      BY <2>1, <2>2 DEF Write
  <1>10. 1..Len(s) = I /\ Len(s) \in 0..Len(s)
    BY <1>1, <1>9
  <1> HIDE DEF I
  <1>11. Within(s, NamesIn(disk), made, deleted)
    <2> SUFFICES ASSUME NEW i \in I
                 PROVE  /\ ToSet(s[i].content.names) \subseteq NamesIn(disk)[s[i].file]
                        /\ s[i].file \in made
                        /\ s[i].file \in deleted => s[i].content = Absent
      BY <1>10 DEF Within
    <2>1. at(i) \in 1..n
      BY <1>7
    <2>2. s[i].file = v[at(i)] /\ s[i].content = c(i)
      BY <1>9
    <2> DEFINE f == v[at(i)]
    <2>3. f \in Files /\ f \in made /\ f \notin deleted
      BY <1>5, <2>1
    <2>4. c(i) = Broken \/ c(i) = Intact(disk[f].names)
      OBVIOUS
    <2> HIDE DEF f, c
    <2>5. ToSet(c(i).names) \subseteq ToSet(disk[f].names) /\ NamesIn(disk)[f] = ToSet(disk[f].names)
      BY <2>3, <2>4, Facts, Kinds
    <2>6. QED
      BY <2>2, <2>3, <2>5 DEF f
  <1>12. \A f \in Files : After(s)[f] = disk[f]
    <2> SUFFICES ASSUME NEW f \in Files PROVE After(s)[f] = disk[f]
      OBVIOUS
    <2>1. Turns(s, Len(s), f, disk[f], After(s)[f])
      BY <1>9, <1>10, WrittenIs DEF After
    <2>2. ASSUME NEW i \in I, s[i].file = f, After(s)[f] = s[i].content,
                 \A k \in I : s[k].file = f => k <= i
          PROVE  After(s)[f] = disk[f]
      <3>1. f = v[at(i)] /\ at(i) \in 1..n
        BY <1>7, <1>9, <2>2
      <3>2. ~odd(i)
        <4> SUFFICES ASSUME odd(i) PROVE FALSE
          OBVIOUS
        <4>1. i + 1 \in I /\ at(i + 1) = at(i) /\ i \in Int
          BY <1>7
        <4>2. s[i + 1].file = f
          BY <1>9, <3>1, <4>1
        <4>3. i + 1 <= i
          BY <2>2, <4>1, <4>2
        <4>4. QED
          BY <4>1, <4>3
      <3>3. c(i) = Intact(disk[f].names)
        BY <3>1, <3>2
      <3>4. QED
        BY <1>5, <1>9, <2>2, <3>1, <3>3
    <2>3. QED
      BY <1>10, <2>1, <2>2 DEF Turns
  <1>13. After(s) = disk
    <2>1. DOMAIN After(s) = Files /\ After(s) = [f \in Files |-> After(s)[f]] /\ disk \in [Files -> Content]
      BY Facts DEF After, Written
    <2>2. QED
      BY <1>12, <2>1
  <1>14. QED
    BY <1>9, <1>11, <1>13 DEF s

(* A project whose file cannot be read: the user keeps it or has it deleted. *)
LEMMA LoadBrokenInv ==
    ASSUME DInv, drags = 0, drags' = drags, NEW p \in Projects, p \in gui.pending, disk[p].is # "intact",
           made' = made, NEW s \in {<<>>, Unlink(p)}, Perform([gui EXCEPT !.pending = @ \ {p}], s, {})
    PROVE  DInv'
  <1> DEFINE g == [gui EXCEPT !.pending = @ \ {p}]
             E == After(s)
  <1>1. /\ g \in Gui /\ g.pending = gui.pending \ {p} /\ g.shown = gui.shown /\ g.doc = gui.doc /\ g.row = gui.row
        /\ g.project = gui.project /\ g.line = gui.line /\ g.browser = gui.browser /\ g.cache = gui.cache
    BY Facts DEF Gui
  <1>2. p \in Files /\ p \notin gui.shown
    BY Facts, Kinds DEF RowsOK
  <1>3. disk[p] \in Content /\ disk \in [Files -> Content]
    BY <1>2, Facts
  <1>4. disk[p].names = <<>> /\ (disk[p] = Absent \/ disk[p] = Broken)
    BY <1>3, Contents, Kinds
  <1>5. \A n \in 1..(Len(s) - 1) : FALSE
    <2>1. s = <<>> => Len(s) = 0
      OBVIOUS
    <2>2. s = Unlink(p) => Len(s) = 1
      BY DEF Unlink
    <2>3. Len(s) = 0 \/ Len(s) = 1
      BY <2>1, <2>2
    <2> DEFINE k == Len(s)
    <2> HIDE DEF k
    <2>4. k = 0 \/ k = 1
      BY <2>3 DEF k
    <2>5. \A n \in 1..(k - 1) : FALSE
      BY <2>4
    <2>6. QED
      BY <2>5 DEF k
  <1>6. E \in {disk, [disk EXCEPT ![p] = Absent]}
    BY <1>2, <1>3, AfterFirst
  <1> HIDE DEF g, E
  <1>7. /\ \A f \in Files : f # p => E[f] = disk[f]
        /\ E[p] = disk[p] \/ E[p] = Absent
        /\ E \in [Files -> Content]
    BY <1>2, <1>3, <1>6, Contents
  <1>8. /\ \A f \in Files : ToSet(E[f].names) = ToSet(disk[f].names)
        /\ \A f \in Files : E[f] = disk[f] \/ E[f] = Absent
    BY <1>4, <1>7, Kinds
  <1>9. DiskOK(E, made, deleted)
    <2>1. \A f \in Files : NamesIn(E)[f] \subseteq NamesIn(disk)[f]
      BY <1>8 DEF NamesIn
    <2>2. Apart(NamesIn(E), made, deleted)
      BY <2>1, Facts, ApartSmaller
    <2>3. \A f \in Files : f \notin made \/ f \in deleted => E[f] = Absent
      BY <1>8, Facts DEF DiskOK
    <2>4. QED
      BY <1>7, <2>2, <2>3 DEF DiskOK
  <1>10. RowsOK(E, g)
    <2>1. ASSUME NEW q \in gui.shown
          PROVE  /\ E[q] = Intact(gui.doc[q])
                 /\ DOMAIN gui.row[q] \subseteq ToSet(gui.doc[q])
                 /\ \A l \in DOMAIN gui.row[q] : E[l] = Intact(gui.row[q][l])
      BY <1>2, <1>7, RowFacts, Kinds
    <2>2. QED
      BY <1>1, <2>1, Facts DEF RowsOK
  <1>11. SelectionOK(g)
    BY <1>1, Facts DEF SelectionOK
  <1>12. ASSUME crashes = 0 PROVE Whole(E, g)
    <2>1. Whole(disk, gui)
      BY <1>12, Facts
    <2>2. disk[p] = Absent
      BY <1>2, <1>4, <2>1, Kinds DEF Whole
    <2>3. E = disk
      BY <1>3, <1>7, <2>2
    <2>4. QED
      BY <1>1, <2>1, <2>3 DEF Whole
  <1>b. BrowserOK(E, g, deleted)
    <2>1. \A f \in Flows : E[f] = disk[f] /\ f \in Files
      BY <1>7, Kinds
    <2>2. gui.cache \subseteq Flows
      BY Facts DEF Gui
    <2>3. QED
      BY <1>1, <2>1, <2>2, Facts DEF BrowserOK
  <1>13. StateOK(E, g, made', deleted \cup {})
    <2>1. deleted \cup {} = deleted
      OBVIOUS
    <2>2. QED
      BY <1>1, <1>9, <1>10, <1>11, <1>12, <1>b, <2>1, Facts DEF StateOK
  <1>14. Perform(g, s, {}) /\ After(s) = E
    BY DEF g, E
  <1>15. made' \subseteq Files /\ made \subseteq made'
    BY Facts
  <1>16. QED
    BY <1>5, <1>13, <1>14, <1>15, PerformInv

(* A project whose file can be read comes up with the lines that can.        *)
LEMMA LoadIntactInv ==
    ASSUME DInv, drags = 0, drags' = drags, NEW p \in Projects, p \in gui.pending, disk[p].is = "intact",
           made' = made, NEW ignored, NEW unclaimed, NEW r, r = Loaded(p, disk[p].names, {}, ignored),
           Perform([gui EXCEPT !.pending = @ \ {p}, !.shown = @ \cup {p}, !.doc[p] = r.names,
                               !.row[p] = [l \in ToSet(r.shown) |-> disk[l].names]],
                   Resaved(Among(r.shown, unclaimed)) \o r.script, {})
    PROVE  DInv'
  <1> DEFINE names == disk[p].names
             v == Among(r.shown, unclaimed)
             a == Resaved(v)
             s == a \o r.script
             E == After(s)
             w == [l \in ToSet(r.shown) |-> disk[l].names]
             none == {}
             g == [gui EXCEPT !.pending = @ \ {p}, !.shown = @ \cup {p}, !.doc[p] = r.names, !.row[p] = w]
             B == NamesIn(disk)
  <1>1. Perform(g, s, {}) /\ After(s) = E
    OBVIOUS
  <1>2. p \in Files /\ p \in made /\ p \notin gui.shown /\ p \notin Lines
    BY Facts, Kinds DEF RowsOK
  <1>3. disk[p] = Intact(names) /\ ToSet(names) \subseteq Lines
    <2>1. disk[p] \in Content
      BY <1>2, Facts
    <2>2. disk[p] = Intact(disk[p].names)
      BY <2>1, Contents
    <2>3. QED
      BY <2>2, NamedBy
  <1>4. names \in Lists(Lines)
    <2>1. names \in AnyNames
      BY <1>2, Facts
    <2> HIDE DEF names
    <2>2. names \in Seq(Lines) /\ IsInjective(names)
      <3>1. names \in Seq(Lines \cup Flows \cup {Archived}) /\ IsInjective(names)
        BY <2>1 DEF AnyNames, Lists
      <3>2. \A i \in 1..Len(names) : names[i] \in Lines
        BY <1>3, <3>1 DEF ToSet
      <3>3. QED
        BY <3>1, <3>2
    <2>3. QED
      BY <2>2 DEF Lists
  <1> HIDE DEF names
  <1>5. /\ r.names \in Lists(Lines) /\ r.shown \in Lists(Lines)
        /\ ToSet(r.shown) \subseteq ToSet(r.names) /\ ToSet(r.names) \subseteq ToSet(names)
        /\ \A f \in ToSet(r.shown) : disk[f].is = "intact"
        /\ (\A f \in ToSet(names) : disk[f].is = "intact") => r.names = names /\ r.shown = names /\ r.script = <<>>
    <2>1. Loads(r, Lines, names, p, none)
      BY <1>4, LoadedOK DEF names
    <2>2. QED
      BY <2>1 DEF Loads
  <1>6. v \in Lists(Lines) /\ \A l \in ToSet(v) : disk[l].is = "intact"
    <2>1. v \in Lists(Lines) /\ ToSet(v) = ToSet(r.shown) \cap unclaimed
      BY <1>5, AmongElements
    <2>2. QED
      BY <1>5, <2>1
  <1> HIDE DEF v
  <1>7. a \in Seq(Command) /\ Within(a, B, made, deleted) /\ After(a) = disk
    BY <1>6, ResavedOK
  <1> HIDE DEF a
  <1>8. /\ r.script \in Seq(Command) /\ Within(r.script, B, made, deleted)
        /\ E[p] = Intact(r.names)
        /\ \A f \in Files : f # p => E[f] = disk[f] \/ (f \in Lines /\ disk[f].is = "broken" /\ E[f] = Absent)
    <2>1. r = Loaded(p, names, none, ignored) /\ Lines \in {Lines, Flows} /\ p \in Files \ Lines
      BY <1>2 DEF names
    <2> HIDE DEF none
    <2>2. QED
      BY <1>3, <1>4, <1>7, <2>1, LoadScript
  <1>9. s \in Seq(Command) /\ Within(s, B, made, deleted)
    <2> DEFINE t == r.script
    <2>1. t \in Seq(Command) /\ Within(t, B, made, deleted)
      BY <1>8
    <2> HIDE DEF t, B
    <2>2. a \o t \in Seq(Command) /\ Within(a \o t, B, made, deleted)
      BY <1>7, <2>1, WithinConcat
    <2>3. QED
      BY <2>2 DEF t, B
  <1>10. w \in Rows /\ DOMAIN w = ToSet(r.shown) /\ \A l \in ToSet(r.shown) : l \in Lines /\ disk[l] = Intact(w[l])
    <2>1. ASSUME NEW l \in ToSet(r.shown)
          PROVE  l \in Lines /\ disk[l].names \in Lists(Flows) /\ disk[l] = Intact(disk[l].names)
      <3>1. l \in ToSet(names) /\ l \in Lines /\ l \in Files
        BY <1>3, <1>5, Kinds
      <3>2. disk[l] \in Content /\ disk[l].is = "intact" /\ disk[l].names \in AnyNames
        BY <1>5, <3>1, Facts
      <3>3. ToSet(disk[l].names) \subseteq Flows
        BY <3>1, NamedBy DEF names
      <3> DEFINE u == disk[l].names
      <3> HIDE DEF u
      <3>4. u \in Seq(Lines \cup Flows \cup {Archived}) /\ IsInjective(u)
        BY <3>2 DEF AnyNames, Lists, u
      <3>5. \A i \in 1..Len(u) : u[i] \in Flows
        BY <3>3, <3>4 DEF ToSet, u
      <3>6. u \in Lists(Flows)
        BY <3>4, <3>5 DEF Lists
      <3>7. QED
        BY <3>1, <3>2, <3>6, Contents DEF u
    <2>2. w \in [ToSet(r.shown) -> Lists(Flows)] /\ ToSet(r.shown) \in SUBSET Lines
      BY <2>1
    <2>3. w \in Rows
      BY <2>2 DEF Rows
    <2>4. QED
      BY <2>1, <2>3
  <1> HIDE DEF w
  <1>11. /\ g \in Gui /\ g.pending = gui.pending \ {p} /\ g.shown = gui.shown \cup {p}
         /\ g.doc[p] = r.names /\ g.row[p] = w
         /\ \A q \in Projects : q # p => g.doc[q] = gui.doc[q] /\ g.row[q] = gui.row[q]
         /\ g.project = gui.project /\ g.line = gui.line /\ g.browser = gui.browser /\ g.cache = gui.cache
    BY <1>5, <1>10, Facts DEF Gui
  <1> HIDE DEF s, E, g, B
  <1>12. RowsOK(E, g)
    <2>1. ASSUME NEW q \in gui.shown
          PROVE  /\ q # p /\ q \in Projects /\ E[q] = Intact(gui.doc[q])
                 /\ DOMAIN gui.row[q] \subseteq ToSet(gui.doc[q])
                 /\ \A l \in DOMAIN gui.row[q] : E[l] = Intact(gui.row[q][l])
      <3>1. q # p /\ q \in Projects /\ E[q] = Intact(gui.doc[q])
        BY <1>2, <1>8, RowFacts, Kinds
      <3>2. DOMAIN gui.row[q] \subseteq ToSet(gui.doc[q])
        BY RowFacts
      <3>3. ASSUME NEW l \in DOMAIN gui.row[q] PROVE E[l] = Intact(gui.row[q][l])
        <4>1. l \in Files /\ l # p /\ disk[l] = Intact(gui.row[q][l])
          BY RowFacts, <1>2
        <4>2. disk[l].is # "broken"
          BY <4>1, Kinds
        <4>3. QED
          BY <1>8, <4>1, <4>2
      <3>4. QED
        BY <3>1, <3>2, <3>3
    <2>2. ASSUME NEW l \in ToSet(r.shown) PROVE E[l] = Intact(w[l])
      <3>1. l \in Files /\ l # p /\ disk[l].is = "intact" /\ disk[l] = Intact(w[l])
        BY <1>2, <1>5, <1>10, Kinds
      <3>2. QED
        BY <1>8, <3>1
    <2>3. gui.pending \cap gui.shown = {} /\ \A q \in Projects \ gui.shown : gui.doc[q] = <<>> /\ DOMAIN gui.row[q] = {}
      BY Facts DEF RowsOK
    <2>4. ASSUME NEW q \in g.shown
          PROVE  /\ E[q] = Intact(g.doc[q])
                 /\ DOMAIN g.row[q] \subseteq ToSet(g.doc[q])
                 /\ \A l \in DOMAIN g.row[q] : E[l] = Intact(g.row[q][l])
      <3>1. CASE q = p
        BY <1>5, <1>8, <1>10, <1>11, <2>2, <3>1
      <3>2. CASE q # p
        BY <1>11, <2>1, <3>2
      <3>3. QED
        BY <3>1, <3>2
    <2>5. QED
      BY <1>11, <2>3, <2>4 DEF RowsOK
  <1>13. SelectionOK(g)
    <2>1. SelectionOK(gui) /\ gui.project # p /\ (gui.project # Nothing => gui.project \in Projects)
      BY <1>2, Facts, Kinds DEF SelectionOK, Gui
    <2>2. gui.project # Nothing => g.row[gui.project] = gui.row[gui.project]
      BY <1>11, <2>1
    <2>3. QED
      BY <1>11, <2>1, <2>2 DEF SelectionOK
  <1>14. ASSUME crashes = 0 PROVE Whole(E, g)
    <2>1. Whole(disk, gui)
      BY <1>14, Facts
    <2>2. ASSUME NEW l \in ToSet(names) PROVE disk[l].is = "intact"
      <3>1. l \in Lines /\ l \in Files
        BY <1>3, Kinds
      <3>2. disk[l] # Absent /\ disk[l].is # "broken" /\ disk[l] \in Content
        BY <2>1, <3>1, Facts DEF Whole, names
      <3>3. QED
        BY <3>2, Contents
    <2>3. r.names = names /\ r.shown = names
      BY <1>5, <2>2
    <2>4. \A f \in Files : E[f] = disk[f]
      BY <1>3, <1>8, <2>1, <2>3 DEF Whole
    <2>5. \A q \in g.shown : ToSet(g.doc[q]) \subseteq DOMAIN g.row[q]
      BY <1>10, <1>11, <2>1, <2>3, Facts DEF Whole, Gui
    <2>6. gui.line # Nothing => gui.project \in Projects /\ gui.project # p
      BY <1>2, Facts DEF SelectionOK, Gui
    <2>7. \A f \in Projects \cup Lines \cup Flows : E[f] = disk[f]
      BY <2>4 DEF Files
    <2>8. QED
      BY <1>11, <2>1, <2>4, <2>5, <2>6, <2>7 DEF Whole
  <1>15. /\ Apart(B, made', deleted) /\ \A f \in Files : ToSet(disk[f].names) \subseteq B[f]
         /\ made' \subseteq Files /\ made \subseteq made'
    BY Facts DEF B
  <1>16. Forgotten(E, none) /\ none \subseteq made' /\ Perform(g, s, none)
    BY <1>1 DEF Forgotten
  <1> HIDE DEF none
  <1>17. /\ s \in Seq(Command) /\ Within(s, B, made', deleted)
         /\ After(s) = E /\ g \in Gui
    BY <1>1, <1>9, <1>11
  <1>18. BrowserOK(E, g, deleted \cup none)
    <2>1. \A f \in Flows : E[f] = disk[f] /\ f \in Files
      BY <1>2, <1>8, Kinds
    <2>2. gui.cache \subseteq Flows /\ deleted \cup none = deleted /\ gui.project # p
      BY <1>2, Facts, Kinds DEF Gui, SelectionOK, none
    <2>3. gui.line # Nothing => g.row[gui.project] = gui.row[gui.project]
      BY <1>11, <2>2, Facts DEF SelectionOK, Gui
    <2>4. QED
      BY <1>11, <2>1, <2>2, <2>3, Facts DEF BrowserOK
  <1>19. QED
    BY <1>12, <1>13, <1>14, <1>15, <1>16, <1>17, <1>18, HandlerInv

LEMMA LoadProjectInv ==
    ASSUME DInv, drags = 0, drags' = 0, NEW p \in Projects, LoadProject(p)
    PROVE  DInv'
  <1>1. made' = made /\ drags' = drags /\ p \in gui.pending
    BY DEF LoadProject
  <1>2. PICK ignored, unclaimed :
           IF disk[p].is = "intact"
           THEN LET ls == Loaded(p, disk[p].names, {}, ignored)
                IN Perform([gui EXCEPT !.pending = @ \ {p}, !.shown = @ \cup {p},
                                       !.doc[p] = ls.names,
                                       !.row[p] = [l \in ToSet(ls.shown) |-> disk[l].names]],
                           Resaved(Among(ls.shown, unclaimed)) \o ls.script, {})
           ELSE Perform([gui EXCEPT !.pending = @ \ {p}],
                        IF p \in ignored THEN <<>> ELSE Unlink(p), {})
    BY DEF LoadProject
  <1>3. CASE disk[p].is = "intact"
    <2> DEFINE r == Loaded(p, disk[p].names, {}, ignored)
    <2>1. Perform([gui EXCEPT !.pending = @ \ {p}, !.shown = @ \cup {p}, !.doc[p] = r.names,
                              !.row[p] = [l \in ToSet(r.shown) |-> disk[l].names]],
                  Resaved(Among(r.shown, unclaimed)) \o r.script, {})
      BY <1>2, <1>3
    <2>2. r = Loaded(p, disk[p].names, {}, ignored)
      OBVIOUS
    <2> HIDE DEF r
    <2>3. QED
      BY <1>1, <1>3, <2>1, <2>2, LoadIntactInv
  <1>4. CASE disk[p].is # "intact"
    <2> DEFINE s == IF p \in ignored THEN <<>> ELSE Unlink(p)
    <2>1. s \in {<<>>, Unlink(p)} /\ Perform([gui EXCEPT !.pending = @ \ {p}], s, {})
      BY <1>2, <1>4
    <2> HIDE DEF s
    <2>2. QED
      BY <1>1, <1>4, <2>1, LoadBrokenInv
  <1>5. QED
    BY <1>3, <1>4

-----------------------------------------------------------------------------
(* The specification.                                                        *)

LEMMA InitInv == Init => DInv
  <1> SUFFICES ASSUME Init PROVE DInv
    OBVIOUS
  <1>1. /\ disk = [f \in Files |-> Absent] /\ gui = Closed
        /\ made = {} /\ deleted = {} /\ crashes = 0 /\ drags = 0
    BY DEF Init
  <1>2. disk \in [Files -> Content] /\ \A f \in Files : disk[f] = Absent
    BY <1>1, Contents
  <1>3. \A f \in Files : NamesIn(disk)[f] = {}
    BY <1>2, Kinds DEF NamesIn
  <1>4. ListedIn(NamesIn(disk)) = {}
    BY <1>3, Kinds DEF ListedIn
  <1>5. Apart(NamesIn(disk), made, deleted)
    BY <1>3, <1>4, Kinds DEF Apart
  <1>6. DiskOK(disk, made, deleted)
    BY <1>2, <1>5 DEF DiskOK
  <1>7. /\ gui \in Gui /\ RowsOK(disk, gui) /\ SelectionOK(gui) /\ gui.shown = {} /\ gui.line = Nothing
        /\ BrowserOK(disk, gui, deleted)
    BY <1>1, ClosedOK
  <1>8. Whole(disk, gui)
    <2>1. \A f \in Files : disk[f].is # "broken" /\ ToSet(disk[f].names) = {}
      BY <1>2, Kinds
    <2>2. QED
      BY <1>2, <1>7, <2>1, Kinds DEF Whole
  <1>9. QED
    BY <1>1, <1>6, <1>7, <1>8 DEF DInv

(* What holds after a line was dragged, too, and that a drag is counted.     *)
LEMMA CountersInv ==
    ASSUME DInv, Next
    PROVE  /\ made' \subseteq Files /\ crashes' \in Nat /\ drags' \in Nat
           /\ drags' = drags \/ drags' = drags + 1
           /\ drags' = drags \/ \E p, q \in Projects, l \in Lines : LineMove(p, l, q)
  <1>1. made \subseteq Files /\ crashes \in Nat /\ drags \in Nat
    BY DEF DInv
  <1>2. \A g, s, gone : Perform(g, s, gone) => crashes' \in Nat
    BY <1>1 DEF Perform
  <1>3. \A f \in Files : Fresh(f) => made' \subseteq Files
    BY <1>1 DEF Fresh
  <1>4. CASE Start \/ Quit \/ SaveProject
    BY <1>1, <1>2, <1>4 DEF Start, Quit, SaveProject
  <1>5. ASSUME NEW p \in Projects, LoadProject(p) \/ ProjectNew(p) \/ ProjectDelete(p) \/ SelectProject(p)
        PROVE  made' \subseteq Files /\ crashes' \in Nat /\ drags' = drags
    <2>1. CASE LoadProject(p)
      BY <1>1, <1>2, <2>1 DEF LoadProject
    <2>2. CASE ProjectNew(p)
      BY <1>2, <1>3, <2>2, Kinds DEF ProjectNew
    <2>3. CASE ProjectDelete(p)
      BY <1>1, <1>2, <2>3 DEF ProjectDelete
    <2>4. CASE SelectProject(p)
      BY <1>1, <2>4 DEF SelectProject
    <2>5. QED
      BY <1>5, <2>1, <2>2, <2>3, <2>4
  <1>6. ASSUME NEW l \in Lines, LineNew(l)
        PROVE  made' \subseteq Files /\ crashes' \in Nat /\ drags' = drags
    BY <1>2, <1>3, <1>6, Kinds DEF LineNew
  <1>7. ASSUME NEW p \in Projects, NEW l \in Lines, LineDelete(p, l) \/ SelectLine(p, l) \/ SaveLine(p, l)
        PROVE  made' \subseteq Files /\ crashes' \in Nat /\ drags' = drags
    <2>1. CASE LineDelete(p, l)
      BY <1>1, <1>2, <2>1 DEF LineDelete
    <2>2. CASE SelectLine(p, l)
      BY <1>1, <1>2, <2>2 DEF SelectLine
    <2>3. CASE SaveLine(p, l)
      BY <1>1, <1>2, <2>3 DEF SaveLine
    <2>4. QED
      BY <1>7, <2>1, <2>2, <2>3
  <1>8. ASSUME NEW p \in Projects, NEW q \in Projects, NEW l \in Lines, LineMove(p, l, q)
        PROVE  made' \subseteq Files /\ crashes' \in Nat /\ drags' = drags + 1
    BY <1>1, <1>2, <1>8 DEF LineMove
  <1>9. ASSUME NEW l \in Lines, NEW f \in Flows, LineImport(l, f)
        PROVE  made' \subseteq Files /\ crashes' \in Nat /\ drags' = drags
    <2>1. made' = made \cup {l, f} /\ l \in Files /\ f \in Files /\ drags' = drags
      BY <1>9, Kinds DEF LineImport
    <2>2. crashes' \in Nat
      BY <1>2, <1>9 DEF LineImport
    <2>3. QED
      BY <1>1, <2>1, <2>2
  <1>10. ASSUME NEW f \in Flows, FlowNew(f) \/ FlowDelete(f) \/ FlowCopy(f) \/ FlowPaste(f)
         PROVE  made' \subseteq Files /\ crashes' \in Nat /\ drags' = drags
    <2>1. CASE FlowNew(f)
      BY <1>2, <1>3, <2>1, Kinds DEF FlowNew
    <2>2. CASE FlowDelete(f)
      BY <1>1, <1>2, <2>2 DEF FlowDelete
    <2>3. CASE FlowCopy(f)
      BY <1>1, <2>3 DEF FlowCopy
    <2>4. CASE FlowPaste(f)
      BY <1>2, <1>3, <2>4, Kinds DEF FlowPaste
    <2>5. QED
      BY <1>10, <2>1, <2>2, <2>3, <2>4
  <1>11. ASSUME NEW f \in Flows, NEW g \in Flows, FlowMove(f, g)
         PROVE  made' \subseteq Files /\ crashes' \in Nat /\ drags' = drags
    BY <1>1, <1>2, <1>11 DEF FlowMove
  <1>12. QED
    BY <1>1, <1>4, <1>5, <1>6, <1>7, <1>8, <1>9, <1>10, <1>11 DEF Next

LEMMA NextInv == DInv /\ [Next]_vars => DInv'
  <1> SUFFICES ASSUME DInv, [Next]_vars PROVE DInv'
    OBVIOUS
  <1>1. CASE UNCHANGED vars
    BY <1>1 DEF vars, DInv
  <1>2. CASE Next
    <2>1. /\ made' \subseteq Files /\ crashes' \in Nat /\ drags' \in Nat /\ drags \in Nat
          /\ drags' = drags \/ drags' = drags + 1
      BY <1>2, CountersInv DEF DInv
    <2>2. CASE drags' # 0
      BY <2>1, <2>2 DEF DInv
    <2>3. CASE drags' = 0
      <3>1. drags = 0 /\ drags' = 0
        BY <2>1, <2>3
      <3>2. CASE Start \/ Quit \/ SaveProject
        BY <3>1, <3>2, StartInv, QuitInv, SaveProjectInv
      <3>3. CASE \E p \in Projects : LoadProject(p) \/ ProjectNew(p) \/ ProjectDelete(p) \/ SelectProject(p)
        BY <3>1, <3>3, LoadProjectInv, ProjectNewInv, ProjectDeleteInv, SelectProjectInv
      <3>4. CASE \E l \in Lines : LineNew(l)
        BY <3>1, <3>4, LineNewInv
      <3>5. CASE \E p \in Projects, l \in Lines : LineDelete(p, l) \/ SelectLine(p, l) \/ SaveLine(p, l)
        BY <3>1, <3>5, LineDeleteInv, SelectLineInv, SaveLineInv
      <3>6. CASE \E p, q \in Projects, l \in Lines : LineMove(p, l, q)
        <4>1. drags' = drags + 1
          BY <3>6 DEF LineMove
        <4>2. QED
          BY <3>1, <4>1
      <3>7. CASE \E l \in Lines, f \in Flows : LineImport(l, f)
        BY <3>1, <3>7, LineImportInv
      <3>8. CASE \E f \in Flows : FlowNew(f) \/ FlowDelete(f) \/ FlowCopy(f) \/ FlowPaste(f)
        BY <3>1, <3>8, FlowNewInv, FlowDeleteInv, FlowCopyInv, FlowPasteInv
      <3>9. CASE \E f, g \in Flows : FlowMove(f, g)
        BY <3>1, <3>9, FlowMoveInv
      <3>10. QED
        BY <1>2, <3>2, <3>3, <3>4, <3>5, <3>6, <3>7, <3>8, <3>9 DEF Next
    <2>4. QED
      BY <2>2, <2>3
  <1>3. QED
    BY <1>1, <1>2

(* Until a line is dragged, whatever was interrupted, no document has two    *)
(* parents, what was deleted or never made has no file, and the rows hold    *)
(* what the files hold (project.c, line.c, flow.c, document.c).              *)
THEOREM DocumentsInvariant == Spec => []DInv
  <1>1. QED
    BY InitInv, NextInv, PTL DEF Spec

-----------------------------------------------------------------------------
(* The properties.                                                           *)

LEMMA TypesFollow == DInv => (drags = 0 => TypeOK)
  <1> SUFFICES ASSUME DInv, drags = 0 PROVE TypeOK
    OBVIOUS
  <1>1. ASSUME NEW f \in Files
        PROVE  disk[f].is \in {"absent", "broken", "intact"} /\ Distinct(disk[f].names)
    <2>1. disk[f] \in Content
      BY Facts
    <2>2. disk[f].is \in {"absent", "broken", "intact"} /\ disk[f].names \in Lists(Lines \cup Flows \cup {Archived})
      BY <2>1, Contents
    <2>3. QED
      BY <2>2, DistinctList DEF Distinct
  <1>2. ASSUME NEW p \in Projects
        PROVE  /\ Names(p) \subseteq Lines /\ ToSet(gui.doc[p]) \subseteq Lines
               /\ DOMAIN gui.row[p] \subseteq Lines /\ Distinct(gui.doc[p])
    <2>1. gui.doc[p] \in Lists(Lines) /\ gui.row[p] \in Rows
      BY Facts DEF Gui
    <2>2. DOMAIN gui.row[p] \subseteq Lines
      BY <2>1 DEF Rows
    <2>3. ToSet(gui.doc[p]) \subseteq Lines
      BY <2>1 DEF Lists, ToSet
    <2>4. QED
      BY <2>1, <2>2, <2>3, NamedBy, DistinctList DEF Names, Distinct
  <1>3. \A l \in Lines : Names(l) \subseteq Flows \cup {Archived}
    BY NamedBy DEF Names
  <1>4. \A f \in Flows : Names(f) = {}
    BY NamedBy DEF Names
  <1>5. Distinct(gui.browser)
    <2>1. gui.browser \in Lists(Flows)
      BY Facts DEF Gui
    <2>2. QED
      BY <2>1, DistinctList DEF Distinct
  <1>6. gui.pending \cap gui.shown = {} /\ made \subseteq Files /\ deleted \subseteq made
    BY Facts DEF RowsOK
  <1>7. QED
    BY <1>1, <1>2, <1>3, <1>4, <1>5, <1>6 DEF TypeOK

(* Documents keep their types until a line is dragged: projects name lines,  *)
(* lines name flows, and no list has a document twice, however handlers are  *)
(* interrupted (geoxml/document.c, project.c, line.c).                       *)
THEOREM TypesUntilDrag == Spec => [](drags = 0 => TypeOK)
  <1>1. QED
    BY DocumentsInvariant, TypesFollow, PTL

LEMMA MemoryFollows == DInv => MemoryIsDisk
  <1> SUFFICES ASSUME DInv, drags = 0 PROVE MemoryIsDisk
    BY DEF MemoryIsDisk
  <1>1. RowsOK(disk, gui)
    BY Facts
  <1>2. QED
    BY <1>1 DEF RowsOK, MemoryIsDisk

(* What the rows hold is what the files hold, for any sequence of handlers   *)
(* and any number of deaths between two writes of one of them                *)
(* (document_load_path_with_parent, project_load_with_lines, document_save). *)
THEOREM MemoryStaysDisk == Spec => []MemoryIsDisk
  <1>1. QED
    BY DocumentsInvariant, MemoryFollows, PTL

LEMMA ParentsFollow == DInv => OneParent
  <1> SUFFICES ASSUME DInv, drags = 0 PROVE OneParent
    BY DEF OneParent
  <1>1. \A p, q \in Projects : p # q => Names(p) \cap Names(q) = {}
    BY NamedBy DEF Names
  <1>2. ASSUME NEW l \in Lines, NEW k \in Lines, l # k
        PROVE  Names(l) \cap Names(k) \subseteq IF {l, k} \subseteq Listed THEN {} ELSE {Archived}
    <2>1. CASE l \in Listed /\ k \in Listed
      <3>1. PICK p \in Projects, q \in Projects : l \in Names(p) /\ k \in Names(q)
        BY <2>1 DEF Listed
      <3>2. Names(l) \cap Names(k) = {}
        BY <1>2, <3>1, NamedBy DEF Names
      <3>3. QED
        BY <2>1, <3>2
    <2>2. CASE ~(l \in Listed /\ k \in Listed)
      <3>1. Names(l) \cap Names(k) \subseteq {Archived}
        BY <1>2, NamedBy DEF Names
      <3>2. QED
        BY <2>2, <3>1
    <2>3. QED
      BY <2>1, <2>2
  <1>3. QED
    BY <1>1, <1>2 DEF OneParent

(* No line is in two projects and no flow in two lines, wherever a handler   *)
(* that moves a reference or makes a document is interrupted (line_new,      *)
(* flow_new, flow_paste, line_import).                                       *)
THEOREM OneParentAlways == Spec => []OneParent
  <1>1. QED
    BY DocumentsInvariant, ParentsFollow, PTL

LEMMA PlacesFollow == DInv => NothingLost
  <1> SUFFICES ASSUME DInv, crashes = 0, drags = 0 PROVE NothingLost
    BY DEF NothingLost
  <1>1. Whole(disk, gui)
    BY Facts
  <1>2. QED
    BY <1>1 DEF Whole, NothingLost, Names

(* While GeBR is not killed every file has its reference and every reference *)
(* its file (line_new, line_delete, line_import, flow_new, flow_delete,      *)
(* flow_paste).                                                              *)
THEOREM NothingLostUntilCrash == Spec => []NothingLost
  <1>1. QED
    BY DocumentsInvariant, PlacesFollow, PTL

LEMMA DeletedFollows == DInv => StaysDeleted
  <1> SUFFICES ASSUME DInv, drags = 0, NEW f \in deleted
               PROVE  /\ disk[f] = Absent
                      /\ f \notin gui.shown \cup ToSet(gui.browser)
                      /\ \A p \in Projects : f \notin DOMAIN gui.row[p] /\ f \notin Names(p)
                      /\ \A l \in Lines : f \in Names(l) => f = Archived /\ l \notin Listed
    BY DEF StaysDeleted
  <1>1. f \in made /\ f \in Files /\ disk[f] = Absent
    BY Facts DEF DiskOK
  <1>2. f \notin gui.shown
    BY RowFacts
  <1>3. \A p \in Projects : f \notin DOMAIN gui.row[p]
    BY Facts, RowFacts DEF RowsOK
  <1>4. \A p \in Projects : f \notin Names(p)
    BY NamedBy DEF Names
  <1>5. \A p \in Projects : \A l \in Names(p) : f \notin Names(l)
    BY NamedBy DEF Names
  <1>6. f \notin ToSet(gui.browser)
    <2>1. CASE gui.line = Nothing
      BY <2>1, Facts, Kinds DEF SelectionOK
    <2>2. CASE gui.line # Nothing
      <3> DEFINE p == gui.project
                 l == gui.line
      <3>1. /\ p \in gui.shown /\ l \in DOMAIN gui.row[p]
            /\ ToSet(gui.browser) \subseteq ToSet(gui.row[p][l])
        BY <2>2, Facts DEF SelectionOK
      <3> HIDE DEF p, l
      <3>2. /\ p \in Projects /\ disk[p].names = gui.doc[p] /\ l \in ToSet(gui.doc[p])
            /\ disk[l].names = gui.row[p][l]
        BY <3>1, RowFacts
      <3>3. f \notin ToSet(gui.row[p][l])
        BY <1>5, <3>2 DEF Names
      <3>4. QED
        BY <3>1, <3>3
    <2>3. QED
      BY <2>1, <2>2
  <1>7. \A l \in Lines : f \in Names(l) => f = Archived /\ l \notin Listed
    <2> SUFFICES ASSUME NEW l \in Lines, f \in Names(l) PROVE f = Archived /\ l \notin Listed
      OBVIOUS
    <2> DEFINE B == NamesIn(disk)
    <2>1. Apart(B, made, deleted) /\ B[l] = Names(l)
      BY Facts, Kinds DEF Names
    <2> HIDE DEF B
    <2>2. B[l] \cap deleted \subseteq {Archived}
      BY <2>1 DEF Apart
    <2>3. f = Archived
      BY <2>1, <2>2
    <2>4. l \notin Listed
      BY <1>5 DEF Listed
    <2>5. QED
      BY <2>3, <2>4
  <1>8. QED
    BY <1>1, <1>2, <1>3, <1>4, <1>6, <1>7

(* What the user deletes has no file, no row and no reference afterwards,    *)
(* although the cache keeps its document and a death may come at any write   *)
(* (project_delete, line_delete, flow_delete).                               *)
THEOREM DeletedStaysDeleted == Spec => []StaysDeleted
  <1>1. QED
    BY DocumentsInvariant, DeletedFollows, PTL

LEMMA BrowserFollows == DInv => BrowserInOrder
  <1> SUFFICES ASSUME DInv, drags = 0, gui.line # Nothing
               PROVE  /\ \A f \in ToSet(gui.browser) : f \in ToSet(Line) /\ disk[f].is = "intact"
                      /\ InOrder(gui.browser, Line)
    BY DEF BrowserInOrder, InOrder
  <1> DEFINE p == gui.project
             l == gui.line
  <1>1. p \in gui.shown /\ l \in DOMAIN gui.row[p] /\ ToSet(gui.browser) \subseteq ToSet(gui.row[p][l])
    BY Facts DEF SelectionOK
  <1>2. l \in ToSet(disk[p].names) /\ p \in Projects /\ disk[l].names = gui.row[p][l]
    BY <1>1, RowFacts
  <1>3. ToSet(gui.row[p][l]) \cap deleted = {}
    BY <1>2, NamedBy
  <1>4. /\ InOrder(gui.browser, gui.row[p][l]) /\ ToSet(gui.browser) \subseteq gui.cache
        /\ \A f \in gui.cache : f \in deleted \/ disk[f].is = "intact"
    BY Facts DEF BrowserOK
  <1>5. QED
    BY <1>1, <1>3, <1>4 DEF Line

(* The browser shows flows of the selected line, each with a file that can   *)
(* be read, in the order of the line, although some references have no row   *)
(* and the rows are dragged, added and removed apart from the references     *)
(* (line_load_flows, reorder_flows_or_programs, flow_delete): for any number *)
(* of flows and of deaths, until a line is dragged.                          *)
THEOREM BrowserOrder == Spec => []BrowserInOrder
  <1>1. QED
    BY DocumentsInvariant, BrowserFollows, PTL

=============================================================================
