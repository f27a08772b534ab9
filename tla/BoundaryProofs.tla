---------------------------- MODULE BoundaryProofs ----------------------------
(***************************************************************************)
(* The boundary, for any number of documents, pages, CMaps and calls, and  *)
(* any history: a void call leaves no trace, and what JavaScript sees is   *)
(* one Python process (PythonProcess).                                     *)
(*                                                                         *)
(* Five invariants, each inductive with some of those before it.           *)
(*                                                                         *)
(* CoreSane: the names are right.  A handle has its document; an identity  *)
(* is given once; what an entry of the history names was made for its      *)
(* document; a call under way keeps what it found.                         *)
(*                                                                         *)
(* Rebuildable: the entries of a document tell its log, one for one        *)
(* (Told), and its objects are those they made (Known).  To tell is to be  *)
(* run again with the same effect: an entry found every CMap it asked for, *)
(* or its call is void and takes it back.  During a replay, each document  *)
(* is what its log was after as many events as it has entries replayed     *)
(* (Rebuilt): where no entry is left, it is what the call found.           *)
(*                                                                         *)
(* Marks: a document without a history is marked, and only when no call    *)
(* can be void any more.                                                   *)
(*                                                                         *)
(* Roomy: while the table does not fill, a replay that goes by a history   *)
(* does not fail, so only a document without one is lost.                  *)
(*                                                                         *)
(* Followed: Python is as far with the running call as the core, as long   *)
(* as it missed nothing.  The call that ends with nothing missed is then   *)
(* Python's whole call; the steps before it, and a void call with its      *)
(* replay, are not seen.                                                   *)
(*                                                                         *)
(* A history is a selection of a sequence.  What a selection has is proved *)
(* by taking a sequence apart at its end (ByAppending, LeastNumber).       *)
(***************************************************************************)
EXTENDS Boundary, FiniteSetTheorems, SequenceTheorems, WellFoundedInduction, TLAPS

-----------------------------------------------------------------------------

(* Sequences: the least of some numbers, and the members of a sequence at some places. *)

\* Smaller numbers first.
Less == {ss \in Nat \X Nat : ss[1] < ss[2]}

\* There is no endless descent among the numbers.
LEMMA LessWellFounded == IsWellFoundedOn(Less, Nat)
BY NatLessThanWellFounded, Zenon DEF OpToRel, Less

\* A set of numbers with a member has a least one.
LEMMA Least ==
    ASSUME NEW S, S \subseteq Nat, S # {}
    PROVE  \E n \in S : \A m \in S : n <= m
<1>1. PICK n \in S : \A m \in S : ~(<<m, n>> \in Less)
  BY LessWellFounded, WFMin
<1>2. ASSUME NEW m \in S  PROVE n <= m
  <2>1. n \in Nat /\ m \in Nat /\ <<m, n>> \in Nat \X Nat  OBVIOUS
  <2>2. ~(m < n)  BY <1>1, <2>1 DEF Less
  <2> QED  BY <2>1, <2>2
<1> QED  BY <1>2

\* ... so has one of numbers up to n.
LEMMA LeastNumber ==
    ASSUME NEW n, n \in Nat, NEW T, T \subseteq 0 .. n, T # {}
    PROVE  \E k \in T : \A m \in T : k <= m
<1>1. T \subseteq Nat  OBVIOUS
<1> QED  BY <1>1, Least

\* A set of sequences with the empty one and, with each, those one longer.
LEMMA ByAppending ==
    ASSUME NEW R, NEW T, <<>> \in T,
           \A s \in Seq(R) : \A e \in R : s \in T => Append(s, e) \in T
    PROVE  Seq(R) \subseteq T
<1> SUFFICES ASSUME NEW t \in Seq(R), t \notin T  PROVE FALSE
  OBVIOUS
<1> DEFINE L == {n \in 0 .. Len(t) : SubSeq(t, 1, n) \notin T}
<1>1. Len(t) \in Nat /\ SubSeq(t, 1, Len(t)) = t  BY SubSeqFull
<1>2. Len(t) \in L
  <2>1. Len(t) \in 0 .. Len(t)  BY <1>1
  <2>2. SubSeq(t, 1, Len(t)) \notin T  BY <1>1
  <2> QED  BY <2>1, <2>2
<1>3. PICK n \in L : \A m \in L : n <= m
  <2> HIDE DEF L
  <2>1. L \subseteq 0 .. Len(t)  BY DEF L
  <2> QED  BY <1>1, <1>2, <2>1, LeastNumber
<1>4. n \in 0 .. Len(t) /\ SubSeq(t, 1, n) \notin T  OBVIOUS
<1>5. n # 0
  <2>1. SubSeq(t, 1, 0) = <<>>  BY SubSeqEmpty
  <2> QED  BY <1>4, <2>1
<1>6. n - 1 \in 0 .. Len(t) /\ n - 1 \notin L  BY <1>1, <1>3, <1>4, <1>5
<1>7. SubSeq(t, 1, n - 1) \in T  BY <1>6
<1>8. SubSeq(t, 1, n) = Append(SubSeq(t, 1, n - 1), t[n])
  BY <1>1, <1>4, <1>5
<1>9. SubSeq(t, 1, n - 1) \in Seq(R) /\ t[n] \in R
  BY <1>1, <1>4, <1>5
<1> QED  BY <1>4, <1>7, <1>8, <1>9

\* The first i of the members that are kept, by i.
KeptUpTo(s, S, i, f) ==
    f = [j \in 0 .. i |-> IF j = 0 THEN <<>>
                          ELSE IF j \in S THEN Append(f[j - 1], s[j]) ELSE f[j - 1]]

\* There is such a function for any sequence and any places.
LEMMA KeptExists ==
    ASSUME NEW s, NEW S, NEW n, n \in Nat
    PROVE  \E f : KeptUpTo(s, S, n, f)
<1> SUFFICES ASSUME \A f : ~KeptUpTo(s, S, n, f)  PROVE FALSE
  OBVIOUS
<1> DEFINE L == {k \in 0 .. n : \A f : ~KeptUpTo(s, S, k, f)}
<1>1. n \in L  OBVIOUS
<1>2. PICK k \in L : \A m \in L : k <= m
  <2> HIDE DEF L
  <2>1. L \subseteq 0 .. n  BY DEF L
  <2> QED  BY <1>1, <2>1, LeastNumber
<1>3. k \in 0 .. n /\ \A f : ~KeptUpTo(s, S, k, f)  OBVIOUS
<1>4. k # 0
  <2>1. KeptUpTo(s, S, 0, [j \in 0 .. 0 |-> <<>>])  BY DEF KeptUpTo
  <2> QED  BY <1>3, <2>1
<1>5. k - 1 \in 0 .. n /\ k - 1 \notin L  BY <1>2, <1>3, <1>4
<1>6. PICK f : KeptUpTo(s, S, k - 1, f)  BY <1>5
<1> DEFINE g == [j \in 0 .. k |-> IF j = k
                   THEN IF k \in S THEN Append(f[k - 1], s[k]) ELSE f[k - 1]
                   ELSE f[j]]
<1>7. KeptUpTo(s, S, k, g)
  <2>1. ASSUME NEW j \in 0 .. k
        PROVE  g[j] = IF j = 0 THEN <<>>
                      ELSE IF j \in S THEN Append(g[j - 1], s[j]) ELSE g[j - 1]
    <3>1. CASE j = k
      <4>1. g[k - 1] = f[k - 1]  BY <1>3, <1>4
      <4> QED  BY <3>1, <4>1, <1>3, <1>4
    <3>2. CASE j # k
      <4>1. j \in 0 .. k - 1 /\ g[j] = f[j]  BY <3>2, <1>3, <1>4
      <4>2. j # 0 => j - 1 \in 0 .. k /\ j - 1 # k /\ g[j - 1] = f[j - 1]  BY <4>1, <1>3
      <4>3. f[j] = IF j = 0 THEN <<>>
                   ELSE IF j \in S THEN Append(f[j - 1], s[j]) ELSE f[j - 1]
        BY <1>6, <4>1 DEF KeptUpTo
      <4> HIDE DEF g
      <4> QED  BY <4>1, <4>2, <4>3
    <3> QED  BY <3>1, <3>2
  <2>2. g = [j \in 0 .. k |-> g[j]]  OBVIOUS
  <2> HIDE DEF g
  <2> QED  BY <2>1, <2>2 DEF KeptUpTo
<1> QED  BY <1>3, <1>7

\* Two such functions agree where both are defined.
LEMMA KeptAgree ==
    ASSUME NEW s, NEW S, NEW n, n \in Nat, NEW t, NEW m, m \in Nat, NEW T,
           NEW f, NEW g, KeptUpTo(s, S, n, f), KeptUpTo(t, T, m, g),
           n <= m, \A i \in 1 .. n : (i \in S <=> i \in T) /\ (i \in S => s[i] = t[i])
    PROVE  f[n] = g[n]
<1> DEFINE L == {i \in 0 .. n : f[i] # g[i]}
<1> SUFFICES ASSUME n \in L  PROVE FALSE
  OBVIOUS
<1>2. PICK i \in L : \A j \in L : i <= j
  <2> HIDE DEF L
  <2>1. L \subseteq 0 .. n  BY DEF L
  <2> QED  BY <2>1, LeastNumber
<1>3. i \in 0 .. n /\ f[i] # g[i]  OBVIOUS
<1>4. i # 0  BY <1>3 DEF KeptUpTo
<1>5. i - 1 \in 0 .. n /\ f[i - 1] = g[i - 1]
  <2>1. i - 1 \in 0 .. n /\ i - 1 \notin L  BY <1>2, <1>3, <1>4
  <2> QED  BY <2>1
<1> HIDE DEF L
<1>9. i \in 0 .. m  BY <1>3
<1>6. f[i] = IF i \in S THEN Append(f[i - 1], s[i]) ELSE f[i - 1]
  BY <1>3, <1>4 DEF KeptUpTo
<1>7. g[i] = IF i \in T THEN Append(g[i - 1], t[i]) ELSE g[i - 1]
  BY <1>9, <1>4 DEF KeptUpTo
<1>8. (i \in S <=> i \in T) /\ (i \in S => s[i] = t[i])  BY <1>3, <1>4
<1> QED  BY <1>3, <1>5, <1>6, <1>7, <1>8

\* What Selected is: the last value of the one such function.
LEMMA SelectedIs ==
    ASSUME NEW s, NEW S, Len(s) \in Nat
    PROVE  \E f : KeptUpTo(s, S, Len(s), f) /\ Selected(s, S) = f[Len(s)]
<1> DEFINE kept[i \in 0 .. Len(s)] ==
             IF i = 0 THEN <<>>
             ELSE IF i \in S THEN Append(kept[i - 1], s[i])
             ELSE kept[i - 1]
<1>1. Selected(s, S) = kept[Len(s)]  BY DEF Selected
<1>2. kept = CHOOSE f : KeptUpTo(s, S, Len(s), f)  BY DEF KeptUpTo
<1> HIDE DEF kept
<1>3. KeptUpTo(s, S, Len(s), kept)  BY <1>2, KeptExists
<1> QED  BY <1>1, <1>3

\* The selection of no members.
LEMMA SelectedEmpty ==
    ASSUME NEW S
    PROVE  Selected(<<>>, S) = <<>>
<1>1. Len(<<>>) = 0  OBVIOUS
<1>2. PICK f : KeptUpTo(<<>>, S, 0, f) /\ Selected(<<>>, S) = f[0]
  BY <1>1, SelectedIs
<1> QED  BY <1>2 DEF KeptUpTo

\* One member more.
LEMMA SelectedAppend ==
    ASSUME NEW R, NEW s \in Seq(R), NEW e \in R, NEW S
    PROVE  Selected(Append(s, e), S) =
             IF Len(s) + 1 \in S THEN Append(Selected(s, S), e) ELSE Selected(s, S)
<1> DEFINE t == Append(s, e)
           n == Len(s)
<1>1. n \in Nat /\ Len(t) = n + 1 /\ t[n + 1] = e /\ \A i \in 1 .. n : t[i] = s[i]
  OBVIOUS
<1>2. PICK f : KeptUpTo(s, S, n, f) /\ Selected(s, S) = f[n]
  BY <1>1, SelectedIs
<1>3. PICK g : KeptUpTo(t, S, n + 1, g) /\ Selected(t, S) = g[n + 1]
  <2> HIDE DEF t
  <2>1. Len(t) \in Nat  BY <1>1
  <2>2. \E g : KeptUpTo(t, S, Len(t), g) /\ Selected(t, S) = g[Len(t)]
    BY <2>1, SelectedIs
  <2> QED  BY <1>1, <2>2
<1>4. f[n] = g[n]
  <2> HIDE DEF t, n
  <2>2. \A i \in 1 .. n : (i \in S <=> i \in S) /\ (i \in S => s[i] = t[i])  BY <1>1
  <2> DEFINE m == n + 1
  <2>1. m \in Nat /\ n <= m /\ n <= n  BY <1>1
  <2>3. KeptUpTo(t, S, m, g)  BY <1>3
  <2> HIDE DEF m
  <2> QED  BY <1>1, <1>2, <2>1, <2>2, <2>3, KeptAgree
<1>5. g[n + 1] = IF n + 1 \in S THEN Append(g[n], t[n + 1]) ELSE g[n]
  <2> HIDE DEF t, n
  <2>1. n + 1 \in 0 .. n + 1 /\ n + 1 # 0 /\ (n + 1) - 1 = n  BY <1>1
  <2> QED  BY <1>3, <2>1 DEF KeptUpTo
<1> QED  BY <1>1, <1>2, <1>3, <1>4, <1>5

\* Places where there is nothing make no difference.
LEMMA SelectedSame ==
    ASSUME NEW R, NEW s \in Seq(R), NEW S, NEW T, S \cap DOMAIN s = T \cap DOMAIN s
    PROVE  Selected(s, S) = Selected(s, T)
<1> DEFINE n == Len(s)
<1>1. n \in Nat /\ DOMAIN s = 1 .. n  OBVIOUS
<1>2. PICK f : KeptUpTo(s, S, n, f) /\ Selected(s, S) = f[n]
  BY <1>1, SelectedIs
<1>3. PICK g : KeptUpTo(s, T, n, g) /\ Selected(s, T) = g[n]
  BY <1>1, SelectedIs
<1>4. \A i \in 1 .. n : i \in S <=> i \in T  BY <1>1
<1> HIDE DEF n
<1>5. n <= n  BY <1>1
<1> QED  BY <1>1, <1>2, <1>3, <1>4, <1>5, KeptAgree

\* What is selected is a sequence of members at the places.
LEMMA SelectedType ==
    ASSUME NEW R, NEW s \in Seq(R), NEW S
    PROVE  /\ Selected(s, S) \in Seq(R)
           /\ \A k \in DOMAIN Selected(s, S) :
                \E i \in DOMAIN s : i \in S /\ Selected(s, S)[k] = s[i]
           /\ \A i \in DOMAIN s : i \in S =>
                \E k \in DOMAIN Selected(s, S) : Selected(s, S)[k] = s[i]
<1> DEFINE P(q) == /\ Selected(q, S) \in Seq(R)
                   /\ \A k \in DOMAIN Selected(q, S) :
                        \E i \in DOMAIN q : i \in S /\ Selected(q, S)[k] = q[i]
                   /\ \A i \in DOMAIN q : i \in S =>
                        \E k \in DOMAIN Selected(q, S) : Selected(q, S)[k] = q[i]
           T == {q \in Seq(R) : P(q)}
<1>1. <<>> \in T
  <2>1. Selected(<<>>, S) = <<>>  BY SelectedEmpty
  <2>2. <<>> \in Seq(R) /\ DOMAIN <<>> = {}  OBVIOUS
  <2>3. P(<<>>)
    <3> DEFINE z == Selected(<<>>, S)
    <3>1. z \in Seq(R) /\ DOMAIN z = {}  BY <2>1, <2>2
    <3> HIDE DEF z
    <3> QED  BY <3>1, <2>2 DEF z
  <2> HIDE DEF P
  <2> QED  BY <2>2, <2>3
<1>2. ASSUME NEW q \in Seq(R), NEW e \in R, q \in T  PROVE Append(q, e) \in T
  <2> DEFINE a == Append(q, e)
             x == Selected(q, S)
             y == Selected(a, S)
  <2>1. y = IF Len(q) + 1 \in S THEN Append(x, e) ELSE x  BY SelectedAppend
  <2>2. P(q)  BY <1>2
  <2>3. a \in Seq(R) /\ Len(a) = Len(q) + 1 /\ a[Len(q) + 1] = e /\ Len(q) \in Nat
        /\ \A i \in 1 .. Len(q) : a[i] = q[i]  OBVIOUS
  <2>4. DOMAIN a = 1 .. Len(q) + 1 /\ DOMAIN q = 1 .. Len(q)  BY <2>3
  <2>5. x \in Seq(R)  BY <2>2
  <2>6. DOMAIN x = 1 .. Len(x) /\ Len(x) \in Nat  BY <2>5
  <2> HIDE DEF x, y, a
  <2>7. CASE Len(q) + 1 \in S
    <3>1. y = Append(x, e)  BY <2>1, <2>7
    <3>2. y \in Seq(R) /\ DOMAIN y = 1 .. Len(x) + 1 /\ y[Len(x) + 1] = e
          /\ \A i \in 1 .. Len(x) : y[i] = x[i]  BY <3>1, <2>5, <2>6
    <3>3. ASSUME NEW k \in DOMAIN y  PROVE \E i \in DOMAIN a : i \in S /\ y[k] = a[i]
      <4>1. CASE k = Len(x) + 1
        BY <4>1, <3>2, <2>3, <2>4, <2>7
      <4>2. CASE k # Len(x) + 1
        <5>1. k \in DOMAIN x /\ y[k] = x[k]  BY <4>2, <3>2, <2>6
        <5>2. PICK i \in DOMAIN q : i \in S /\ x[k] = q[i]  BY <5>1, <2>2 DEF x
        <5>3. i \in DOMAIN a /\ a[i] = q[i]  BY <5>2, <2>3, <2>4
        <5> QED  BY <5>1, <5>2, <5>3
      <4> QED  BY <4>1, <4>2
    <3>4. ASSUME NEW i \in DOMAIN a, i \in S  PROVE \E k \in DOMAIN y : y[k] = a[i]
      <4>1. CASE i = Len(q) + 1
        <5>1. Len(x) + 1 \in DOMAIN y  BY <3>2, <2>6
        <5> QED  BY <4>1, <3>2, <2>3, <5>1
      <4>2. CASE i # Len(q) + 1
        <5>1. i \in DOMAIN q /\ a[i] = q[i]  BY <4>2, <2>3, <2>4
        <5>2. PICK k \in DOMAIN x : x[k] = q[i]  BY <5>1, <3>4, <2>2 DEF x
        <5>3. k \in DOMAIN y /\ y[k] = x[k]  BY <5>2, <3>2, <2>6
        <5> QED  BY <5>1, <5>2, <5>3
      <4> QED  BY <4>1, <4>2
    <3> QED  BY <2>3, <3>2, <3>3, <3>4 DEF y, a
  <2>8. CASE Len(q) + 1 \notin S
    <3>1. y = x  BY <2>1, <2>8
    <3>2. \A k \in DOMAIN y : \E i \in DOMAIN a : i \in S /\ y[k] = a[i]
      BY <3>1, <2>2, <2>3, <2>4 DEF x
    <3>3. ASSUME NEW i \in DOMAIN a, i \in S  PROVE \E k \in DOMAIN y : y[k] = a[i]
      <4>1. i \in DOMAIN q /\ a[i] = q[i]  BY <2>3, <2>4, <2>8, <3>3
      <4> QED  BY <3>1, <3>3, <4>1, <2>2 DEF x
    <3> QED  BY <3>1, <3>2, <3>3, <2>3, <2>5 DEF y, a
  <2> QED  BY <2>7, <2>8
<1> HIDE DEF P
<1>3. Seq(R) \subseteq T
  <2> HIDE DEF T
  <2> QED  BY <1>1, <1>2, ByAppending
<1> QED  BY <1>3 DEF P

-----------------------------------------------------------------------------

(* The entries of one document in a history. *)

\* The entries of a document: none, one more.
LEMMA NoEntries ==
    ASSUME NEW d
    PROVE  EntriesOf(<<>>, d) = <<>>
BY SelectedEmpty DEF EntriesOf

\* One entry more is one more of its document, and none of another.
LEMMA OneEntryMore ==
    ASSUME NEW R, NEW s \in Seq(R), NEW e \in R, NEW d
    PROVE  EntriesOf(Append(s, e), d) =
             IF e.doc = d THEN Append(EntriesOf(s, d), e) ELSE EntriesOf(s, d)
<1> DEFINE t == Append(s, e)
<1>1. t \in Seq(R) /\ Len(t) = Len(s) + 1 /\ t[Len(s) + 1] = e /\ Len(s) \in Nat
      /\ \A i \in 1 .. Len(s) : t[i] = s[i]
  OBVIOUS
<1>2. DOMAIN t = 1 .. Len(s) + 1 /\ DOMAIN s = 1 .. Len(s)  BY <1>1
<1>3. Selected(t, Of(t, d)) =
        IF Len(s) + 1 \in Of(t, d) THEN Append(Selected(s, Of(t, d)), e)
        ELSE Selected(s, Of(t, d))
  BY SelectedAppend
<1> HIDE DEF t
<1>4. Len(s) + 1 \in Of(t, d) <=> e.doc = d  BY <1>1, <1>2 DEF Of
<1>5. Of(t, d) \cap DOMAIN s = Of(s, d) \cap DOMAIN s  BY <1>1, <1>2 DEF Of
<1>6. Selected(s, Of(t, d)) = Selected(s, Of(s, d))  BY <1>5, SelectedSame
<1> QED  BY <1>3, <1>4, <1>6 DEF EntriesOf, t

\* They are entries, and the document's.
LEMMA EntriesType ==
    ASSUME NEW R, NEW s \in Seq(R), NEW d
    PROVE  /\ EntriesOf(s, d) \in Seq(R)
           /\ \A k \in DOMAIN EntriesOf(s, d) :
                /\ EntriesOf(s, d)[k].doc = d
                /\ \E i \in DOMAIN s : EntriesOf(s, d)[k] = s[i]
           /\ \A i \in DOMAIN s : s[i].doc = d =>
                \E k \in DOMAIN EntriesOf(s, d) : EntriesOf(s, d)[k] = s[i]
<1> DEFINE x == Selected(s, Of(s, d))
<1>1. /\ x \in Seq(R)
      /\ \A k \in DOMAIN x : \E i \in DOMAIN s : i \in Of(s, d) /\ x[k] = s[i]
      /\ \A i \in DOMAIN s : i \in Of(s, d) => \E k \in DOMAIN x : x[k] = s[i]
  BY SelectedType
<1> HIDE DEF x
<1>2. \A i \in DOMAIN s : i \in Of(s, d) <=> s[i].doc = d  BY DEF Of
<1>3. x = EntriesOf(s, d)  BY DEF EntriesOf, x
<1> QED  BY <1>1, <1>2, <1>3

\* One member more at the end of two parts is one more at the end of the second.
EndsAlike(s, t, e) == Append(s \o t, e) = s \o Append(t, e)

\* ... for any two parts.
LEMMA AppendAfter ==
    ASSUME NEW R, NEW s \in Seq(R), NEW t \in Seq(R), NEW e \in R
    PROVE  EndsAlike(s, t, e)
BY DEF EndsAlike

\* Those of two parts are those of the one, then those of the other.
LEMMA EntriesConcat ==
    ASSUME NEW R, NEW s \in Seq(R), NEW t \in Seq(R), NEW d
    PROVE  EntriesOf(s \o t, d) = EntriesOf(s, d) \o EntriesOf(t, d)
<1> DEFINE T == {q \in Seq(R) : EntriesOf(s \o q, d) = EntriesOf(s, d) \o EntriesOf(q, d)}
<1>1. <<>> \in T
  <2>1. s \o <<>> = s /\ EntriesOf(<<>>, d) = <<>>  BY NoEntries, ConcatEmptySeq
  <2>2. EntriesOf(s, d) \o <<>> = EntriesOf(s, d)  BY EntriesType, ConcatEmptySeq
  <2>3. EntriesOf(s \o <<>>, d) = EntriesOf(s, d) \o EntriesOf(<<>>, d)  BY <2>1, <2>2
  <2> QED  BY <2>3
<1>2. ASSUME NEW q \in Seq(R), NEW e \in R, q \in T  PROVE Append(q, e) \in T
  <2>1. s \o Append(q, e) = Append(s \o q, e)  OBVIOUS
  <2>2. s \o q \in Seq(R) /\ Append(q, e) \in Seq(R)  OBVIOUS
  <2>3. EntriesOf(s \o q, d) = EntriesOf(s, d) \o EntriesOf(q, d)  BY <1>2
  <2>4. EntriesOf(Append(s \o q, e), d) =
          IF e.doc = d THEN Append(EntriesOf(s \o q, d), e) ELSE EntriesOf(s \o q, d)
    <3> DEFINE u == s \o q
    <3>1. u \in Seq(R)  BY <2>2
    <3> HIDE DEF u
    <3>2. EntriesOf(Append(u, e), d) =
            IF e.doc = d THEN Append(EntriesOf(u, d), e) ELSE EntriesOf(u, d)
      BY <3>1, OneEntryMore
    <3> QED  BY <3>2 DEF u
  <2>5. EntriesOf(Append(q, e), d) =
          IF e.doc = d THEN Append(EntriesOf(q, d), e) ELSE EntriesOf(q, d)
    BY OneEntryMore
  <2>6. EntriesOf(s, d) \in Seq(R) /\ EntriesOf(q, d) \in Seq(R)  BY EntriesType
  <2>7. Append(EntriesOf(s, d) \o EntriesOf(q, d), e) =
          EntriesOf(s, d) \o Append(EntriesOf(q, d), e)
    <3>1. EndsAlike(EntriesOf(s, d), EntriesOf(q, d), e)  BY <2>6, AppendAfter
    <3> QED  BY <3>1 DEF EndsAlike
  <2>8. EntriesOf(s \o Append(q, e), d) = EntriesOf(s, d) \o EntriesOf(Append(q, e), d)
    BY <2>1, <2>3, <2>4, <2>5, <2>7
  <2> QED  BY <2>2, <2>8
<1>3. Seq(R) \subseteq T
  <2> HIDE DEF T
  <2> QED  BY <1>1, <1>2, ByAppending
<1> QED  BY <1>3

\* A selection with all of a document's entries leaves it all of them.
LEMMA EntriesKept ==
    ASSUME NEW R, NEW s \in Seq(R), NEW d, NEW S, Of(s, d) \subseteq S
    PROVE  EntriesOf(Selected(s, S), d) = EntriesOf(s, d)
<1> DEFINE P(q) == Of(q, d) \subseteq S => EntriesOf(Selected(q, S), d) = EntriesOf(q, d)
           T == {q \in Seq(R) : P(q)}
<1>1. <<>> \in T
  <2>1. Selected(<<>>, S) = <<>>  BY SelectedEmpty
  <2> QED  BY <2>1
<1>2. ASSUME NEW q \in Seq(R), NEW e \in R, q \in T  PROVE Append(q, e) \in T
  <2> DEFINE a == Append(q, e)
             x == Selected(q, S)
  <2> SUFFICES ASSUME Of(a, d) \subseteq S
               PROVE  EntriesOf(Selected(a, S), d) = EntriesOf(a, d)
    OBVIOUS
  <2>1. a \in Seq(R) /\ Len(a) = Len(q) + 1 /\ a[Len(q) + 1] = e /\ Len(q) \in Nat
        /\ \A i \in 1 .. Len(q) : a[i] = q[i]  OBVIOUS
  <2>2. DOMAIN a = 1 .. Len(q) + 1 /\ DOMAIN q = 1 .. Len(q)  BY <2>1
  <2>3. Selected(a, S) = IF Len(q) + 1 \in S THEN Append(x, e) ELSE x  BY SelectedAppend
  <2>4. EntriesOf(a, d) = IF e.doc = d THEN Append(EntriesOf(q, d), e) ELSE EntriesOf(q, d)
    BY OneEntryMore
  <2>5. x \in Seq(R)  BY SelectedType
  <2> HIDE DEF a, x
  <2>6. EntriesOf(Append(x, e), d) = IF e.doc = d THEN Append(EntriesOf(x, d), e)
                                     ELSE EntriesOf(x, d)
    BY <2>5, OneEntryMore
  <2>7. Of(q, d) \subseteq S  BY <2>1, <2>2 DEF Of
  <2>8. EntriesOf(x, d) = EntriesOf(q, d)  BY <1>2, <2>7 DEF x
  <2>9. e.doc = d => Len(q) + 1 \in S  BY <2>1, <2>2 DEF Of
  <2>10. CASE Len(q) + 1 \in S
    <3>1. Selected(a, S) = Append(x, e)  BY <2>3, <2>10
    <3> QED  BY <3>1, <2>4, <2>6, <2>8
  <2>11. CASE Len(q) + 1 \notin S
    <3>1. Selected(a, S) = x  BY <2>3, <2>11
    <3> QED  BY <3>1, <2>4, <2>8, <2>9, <2>11
  <2> QED  BY <2>10, <2>11
<1> HIDE DEF P
<1>3. Seq(R) \subseteq T
  <2> HIDE DEF T
  <2> QED  BY <1>1, <1>2, ByAppending
<1> QED  BY <1>3 DEF P

\* The selection of all is all.
LEMMA SelectedAll ==
    ASSUME NEW R, NEW s \in Seq(R), NEW S, DOMAIN s \subseteq S
    PROVE  Selected(s, S) = s
<1> DEFINE P(q) == DOMAIN q \subseteq S => Selected(q, S) = q
           T == {q \in Seq(R) : P(q)}
<1>1. <<>> \in T  BY SelectedEmpty
<1>2. ASSUME NEW q \in Seq(R), NEW e \in R, q \in T  PROVE Append(q, e) \in T
  <2> SUFFICES ASSUME DOMAIN Append(q, e) \subseteq S
               PROVE  Selected(Append(q, e), S) = Append(q, e)
    OBVIOUS
  <2>1. Len(q) + 1 \in DOMAIN Append(q, e) /\ DOMAIN q \subseteq DOMAIN Append(q, e)  OBVIOUS
  <2>2. Selected(q, S) = q  BY <1>2, <2>1
  <2>3. Selected(Append(q, e), S) =
          IF Len(q) + 1 \in S THEN Append(Selected(q, S), e) ELSE Selected(q, S)
    BY SelectedAppend
  <2> QED  BY <2>1, <2>2, <2>3
<1> HIDE DEF P
<1>3. Seq(R) \subseteq T
  <2> HIDE DEF T
  <2> QED  BY <1>1, <1>2, ByAppending
<1> QED  BY <1>3 DEF P

\* The selection of the first part is the first part.
LEMMA SelectedFirst ==
    ASSUME NEW R, NEW s \in Seq(R), NEW t \in Seq(R), NEW S,
           S \cap DOMAIN (s \o t) = DOMAIN s
    PROVE  Selected(s \o t, S) = s
<1> DEFINE P(q) == S \cap DOMAIN (s \o q) = DOMAIN s => Selected(s \o q, S) = s
           T == {q \in Seq(R) : P(q)}
<1>1. <<>> \in T
  <2>1. s \o <<>> = s  BY ConcatEmptySeq
  <2>2. P(<<>>)
    <3> SUFFICES ASSUME S \cap DOMAIN s = DOMAIN s  PROVE Selected(s, S) = s
      BY <2>1
    <3>1. DOMAIN s \subseteq S  OBVIOUS
    <3> QED  BY <3>1, SelectedAll
  <2> HIDE DEF P
  <2> QED  BY <2>2
<1>2. ASSUME NEW q \in Seq(R), NEW e \in R, q \in T  PROVE Append(q, e) \in T
  <2> DEFINE u == s \o q
             a == Append(u, e)
  <2>1. s \o Append(q, e) = a  OBVIOUS
  <2>2. u \in Seq(R) /\ Len(u) = Len(s) + Len(q) /\ Len(s) \in Nat /\ Len(q) \in Nat
    OBVIOUS
  <2>3. P(q)  BY <1>2
  <2> HIDE DEF u
  <2>4. DOMAIN a = 1 .. Len(u) + 1 /\ DOMAIN u = 1 .. Len(u) /\ DOMAIN s = 1 .. Len(s)
    BY <2>2
  <2>5. Selected(a, S) = IF Len(u) + 1 \in S THEN Append(Selected(u, S), e)
                         ELSE Selected(u, S)
    BY <2>2, SelectedAppend
  <2>6. ASSUME S \cap DOMAIN a = DOMAIN s  PROVE Selected(a, S) = s
    <3>1. Len(u) + 1 \notin S  BY <2>6, <2>4, <2>2
    <3>2. S \cap DOMAIN u = DOMAIN s  BY <2>6, <3>1, <2>4, <2>2
    <3>3. Selected(u, S) = s  BY <3>2, <2>3 DEF u
    <3> QED  BY <2>5, <3>1, <3>3
  <2>7. P(Append(q, e))  BY <2>1, <2>6
  <2> HIDE DEF P
  <2> QED  BY <2>7
<1> HIDE DEF P
<1>3. Seq(R) \subseteq T
  <2> HIDE DEF T
  <2> QED  BY <1>1, <1>2, ByAppending
<1> QED  BY <1>3 DEF P

-----------------------------------------------------------------------------

(* The invariants. *)

\* The types of the state.
Ops == DocumentOps \cup PageOps \cup {"open"}
\* The CMap an operation asks for, or none.
MaybeCMap == CMaps \cup {NoCMap}
\* How an operation ends, and how a call may.
Endings == {"done", "RecursionError"}
Outcomes == Endings \cup {"MemoryError", "RuntimeError"}
\* What an operation leaves in the log of its document.
Events == [op : Ops, on : Nat, cmap : MaybeCMap, saw : {"nothing", "full", "empty"},
           outcome : Endings]
Kinds == {"document", "page", "derived"}
\* The objects of the table, their documents' flags, the entries of the history, the
\* requests of a call and the record of a running one.
TableObjects == [kind : Kinds, doc : Nat, value : Nat, log : Seq(Events)]
Flags == [broken : BOOLEAN, unrecorded : BOOLEAN, scanned : BOOLEAN]
HistoryEntries ==
    [op : Ops, cmap : MaybeCMap, target : Nat, created : Seq(Nat \ {0}), doc : Nat,
     call : Nat, process : Process, outcome : Endings \cup {"MemoryError"}]
Requests == [op : DocumentOps \cup PageOps, on : Nat, cmap : MaybeCMap]
\* The record of a running call, its start as it is.
RunFields(w) ==
    [request : Seq(Requests), objects : {w.objects}, process : Process,
     created : Seq(Handles), touched : SUBSET Handles, missed : SUBSET CMaps,
     outcome : Outcomes, page : Nat]

\* A handle table: every object has its document in it.
Table(os) ==
    /\ DOMAIN os \subseteq Handles
    /\ os \in [DOMAIN os -> TableObjects]
    /\ \A h \in DOMAIN os :
         /\ os[h].doc \in DOMAIN os
         /\ os[os[h].doc].kind = "document"
         /\ os[h].kind = "document" => os[h].doc = h /\ os[h].value = 1
         /\ os[h].kind # "document" => os[h].log = <<>>

\* The handles have identities, all different.
Named(os, ids, next) ==
    /\ next \in Nat \ {0}
    /\ ids \in [DOMAIN os -> Nat \ {0}]
    /\ \A h \in DOMAIN ids : ids[h] < next
    /\ \A h, k \in DOMAIN ids : ids[h] = ids[k] => h = k

\* The kind of the object an operation makes.
KindMade(op) ==
    IF op = "open" THEN "document" ELSE IF op = "crop" THEN "derived" ELSE "page"

\* What an entry says of identities is true of the handles that have them.
EntryNamed(e, os, ids, next) ==
    /\ e.doc \in DocumentsOf(os)
    /\ e.target < next
    /\ \A h \in DOMAIN ids : ids[h] = e.target => os[h].doc = e.doc
    /\ e.op \in {"pages", "annots"} => ids[e.doc] = e.target
    /\ e.created # <<>> =>
         /\ e.created = <<e.created[1]>>
         /\ e.created[1] < next
         /\ \A h \in DOMAIN ids : ids[h] = e.created[1] =>
              /\ os[h].doc = e.doc
              /\ os[h].kind = KindMade(e.op)

\* The request r can be made of the objects.
Allowed(r, os) ==
    /\ r.on \in DOMAIN os
    /\ r.op \in IF os[r.on].kind = "document" THEN DocumentOps ELSE PageOps

\* Two tables hold the same handles, for objects of the same kinds and documents.
Alike(os, ps) ==
    /\ DOMAIN os = DOMAIN ps
    /\ \A h \in DOMAIN os : os[h].kind = ps[h].kind /\ os[h].doc = ps[h].doc

\* The types of the state, and the names its history uses.
CoreTypes ==
    /\ Table(objects)
    /\ Named(objects, oids, nextOid)
    /\ flags \in [DocumentsOf(objects) -> Flags]
    /\ history \in Seq(HistoryEntries)
    /\ \A i \in DOMAIN history : EntryNamed(history[i], objects, oids, nextOid)
    /\ process \in Process
    /\ loaded \subseteq CMaps
    /\ phase \in {"idle", "running", "replaying"}
    /\ calls \in Nat
    /\ pending.request \in Seq(Requests)

\* Between two calls.
AtRest ==
    /\ todo = <<>> /\ replay = <<>> /\ failed = FALSE /\ ghosts = <<>>
    /\ \A i \in DOMAIN pending.request : Allowed(pending.request[i], objects)
    /\ \A i \in DOMAIN history :
         history[i].call <= calls /\ (history[i].call = calls => pending = NoRequest)

\* During a call: what it found, which a void call must leave.
InCall ==
    /\ running \in RunFields(running)
    /\ Table(running.objects)
    /\ before = [oids |-> before.oids, history |-> before.history]
    /\ before.oids = [h \in DOMAIN running.objects |-> oids[h]]
    /\ before.history \in Seq(HistoryEntries)
    /\ \A i \in DOMAIN before.history : before.history[i].call < calls
    /\ running.touched \subseteq DocumentsOf(running.objects) \ Broken
    /\ \A i \in DOMAIN running.request : Allowed(running.request[i], running.objects)
    /\ DocumentsOf(objects) = DocumentsOf(running.objects)
    /\ DOMAIN running.objects \subseteq DOMAIN objects
    /\ \A h \in DOMAIN running.objects :
         /\ objects[h].kind = running.objects[h].kind
         /\ objects[h].doc = running.objects[h].doc
         /\ running.objects[h].doc \notin running.touched => objects[h] = running.objects[h]

\* While it runs.
InRun ==
    /\ InCall
    /\ DOMAIN objects = DOMAIN running.objects \cup Made
    /\ Made \cap DOMAIN running.objects = {}
    /\ \A h \in DOMAIN running.objects :
         objects[h].kind # "document" => objects[h] = running.objects[h]
    /\ Len(before.history) <= Len(history)
    /\ \A i \in DOMAIN history :
         IF i <= Len(before.history) THEN history[i] = before.history[i]
         ELSE history[i].call = calls /\ history[i].doc \in running.touched
    /\ todo \in Seq(Requests)
    /\ \A i \in DOMAIN todo : Allowed(todo[i], objects)
    /\ replay = <<>> /\ failed = FALSE /\ ghosts = <<>>

\* While the documents it reached are rebuilt.
InReplay ==
    /\ InCall
    /\ DOMAIN objects = DOMAIN running.objects
    /\ oids = before.oids
    /\ history = before.history
    /\ pending.request = running.request
    /\ pending # NoRequest
    /\ todo = <<>>
    /\ failed \in BOOLEAN
    /\ \A o \in DOMAIN ghosts : ghosts[o].value \in Nat
    /\ replay \in Seq(HistoryEntries)
    /\ \A i \in DOMAIN replay :
         /\ replay[i].doc \in running.touched
         /\ \E k \in DOMAIN history : replay[i] = history[k]

\* The inductive invariant that the names in the state are right: those of the table, of
\* the history, of what a call found and of what is to be replayed.
CoreSane ==
    /\ CoreTypes
    /\ phase = "idle" => AtRest
    /\ phase = "running" => InRun
    /\ phase = "replaying" => InReplay

\* The value of the object that the n-th event of a log made.
ValueMade(log, n) == IF n = 1 THEN 1 ELSE PageAnswered(SubSeq(log, 1, n))

\* The entry e made a page of pdf.pages.
MakesPage(e) == e.op \in {"pages", "annots"} /\ e.created # <<>>

\* The n-th event is to make an object, by the entries of the document before it.
ToMake(entries, log, n) ==
    /\ ValueMade(log, n) # 0
    /\ log[n].op = "annots" =>
         \A m \in 1 .. n - 1 :
           MakesPage(entries[m]) => ValueMade(log, m) # ValueMade(log, n)

\* The n-th event acts on the object its entry names, made before it.
ActsOn(entries, log, n) ==
    \E m \in 1 .. n - 1 :
      entries[m].created = <<entries[n].target>> /\ log[n].on = ValueMade(log, m)

\* The entry e tells the event v, the n-th of the log: run again from the state it
\* names, with the CMaps given or more, the operation does what it did.
EventTold(entries, log, n, given) ==
    LET e == entries[n]
        was == SubSeq(log, 1, n - 1)
    IN  /\ e.op = log[n].op /\ e.cmap = log[n].cmap
        /\ e.op = "open" <=> n = 1
        /\ n = 1 =>
             log[1] = Opening /\ e.target = 0 /\ e.created # <<>> /\ e.outcome = "done"
        /\ n # 1 =>
             /\ ActsOn(entries, log, n)
             /\ log[n].saw = Saw(e.cmap, was, e.process, given)
             /\ Missed(e.cmap, was, e.process, given) = {}
             /\ log[n].outcome = Outcome(e.op, e.process)
             /\ e.op \in {"pages", "annots"} => log[n].on = 1
        /\ ToMake(entries, log, n) <=> e.created # <<>> \/ e.outcome = "MemoryError"
        /\ e.outcome # "MemoryError" => e.outcome = log[n].outcome
        /\ e.created # <<>> => e.outcome # "MemoryError"

\* The entries of a document tell its log, one for one.
Told(entries, log, given) ==
    /\ log # <<>> /\ entries # <<>>
    /\ Len(entries) = Len(log)
    /\ \A n \in DOMAIN log : EventTold(entries, log, n, given)
    /\ \A m, n \in DOMAIN log :
         entries[m].created # <<>> /\ entries[m].created = entries[n].created => m = n

\* The objects of a document are those its entries made; only derived pages are
\* freed before it.
Known(os, ids, d, entries, log) ==
    /\ \A h \in DOMAIN os : os[h].doc = d =>
         \E n \in DOMAIN entries :
           /\ entries[n].created = <<ids[h]>>
           /\ os[h].value = ValueMade(log, n)
           /\ os[h].kind = KindMade(entries[n].op)
    /\ \A n \in DOMAIN entries :
         entries[n].created # <<>> /\ entries[n].op # "crop" =>
           \E h \in DOMAIN os : entries[n].created = <<ids[h]>>

\* An identity was made for one document.
MadeOnce(entries) ==
    \A i, j \in DOMAIN entries :
      entries[i].created # <<>> /\ entries[i].created = entries[j].created =>
        entries[i].doc = entries[j].doc

\* The documents that a void call can rebuild.
Recorded(fs) == {d \in DOMAIN fs : ~fs[d].broken /\ ~fs[d].unrecorded}

\* The history tells what every document went through that it can rebuild.
HistoryTells(os, ids, entries, fs, given) ==
    /\ MadeOnce(entries)
    /\ \A d \in Recorded(fs) :
         /\ Told(EntriesOf(entries, d), os[d].log, given)
         /\ Known(os, ids, d, EntriesOf(entries, d), os[d].log)

\* What a void call has to replay, and has replayed.
ToReplay == Selected(history, UNION {Of(history, d) : d \in running.touched})
Replayed == SubSeq(ToReplay, 1, Len(ToReplay) - Len(replay))
HowFar(d) == Len(EntriesOf(Replayed, d))

\* The document d is as it was when its history had k entries: its log, its pages,
\* those freed since among the ghosts gs.
RebuiltTo(os, ids, gs, entries, log, d, k) ==
    /\ os[d].log = SubSeq(log, 1, k)
    /\ \A h \in DOMAIN os \ {d} : os[h].doc = d =>
         \A n \in DOMAIN entries : entries[n].created = <<ids[h]>> =>
           os[h].value = IF n <= k THEN ValueMade(log, n) ELSE 0
    /\ \A n \in 1 .. k :
         LET o == entries[n].created[1] IN
           entries[n].created # <<>> /\ (\A h \in DOMAIN ids : ids[h] # o) =>
             o \in DOMAIN gs /\ gs[o] = Page(d, ValueMade(log, n), entries[n].op)

\* So far the documents the call reached are as they were when their history was
\* that long.
Rebuilt ==
    /\ ToReplay = Replayed \o replay
    /\ running.missed = {}
    /\ running.touched \subseteq Recorded(flags)
    /\ \A d \in running.touched :
         RebuiltTo(objects, oids, ghosts, EntriesOf(history, d), running.objects[d].log,
                   d, HowFar(d))

\* The inductive invariant of what a replay rebuilds: between two calls the history tells
\* every document; during a call so does the history it found, of the objects it found, and the
\* one it makes, as long as no CMap was missed; during a replay, what was replayed is rebuilt.
Rebuildable ==
    /\ phase = "idle" => HistoryTells(objects, oids, history, flags, loaded)
    /\ phase = "running" =>
         /\ HistoryTells(running.objects, before.oids, before.history, flags, loaded)
         /\ MadeOnce(history)
         /\ running.missed = {} => HistoryTells(objects, oids, history, flags, loaded)
    /\ phase = "replaying" =>
         /\ HistoryTells(running.objects, oids, history, flags, loaded)
         /\ failed \/ Rebuilt

\* The documents with no history any more: once one is marked, all are, no CMap can be
\* missed, and a document that is not marked has entries, also in what a void call leaves.
Marks ==
    /\ (\E d \in DOMAIN flags : flags[d].unrecorded) =>
         Complete /\ \A d \in DOMAIN flags : flags[d].unrecorded
    /\ \A d \in DOMAIN flags : flags[d].unrecorded \/ Of(history, d) # {}
    /\ phase # "idle" =>
         /\ \A d \in DOMAIN flags : flags[d].unrecorded \/ Of(before.history, d) # {}
         /\ Complete => \A d \in DOMAIN flags : flags[d].unrecorded

\* What holds as long as the handle table was never full: no entry is of an operation that
\* found it so, and a replay gives up only on documents with no history.
Roomy ==
    /\ \A i \in DOMAIN history : history[i].outcome # "MemoryError"
    /\ phase # "idle" => \A i \in DOMAIN before.history : before.history[i].outcome # "MemoryError"
    /\ OnlyUnrecordedAreLost
    /\ phase = "replaying" /\ failed => \A d \in running.touched : flags[d].unrecorded

-----------------------------------------------------------------------------

(* The table, and what one operation sees and does. *)

\* The least free handle is free.
LEMMA FreshIsFree ==
    ASSUME NEW used, ~ Handles \subseteq used
    PROVE  Fresh(used) \in Handles \ used
<1> DEFINE S == Handles \ used
<1>1. S # {} /\ S \subseteq Handles  OBVIOUS
<1>2. S \subseteq Nat
  <2>1. Handles \subseteq Nat \ {0}  BY OperationsAssumption
  <2> HIDE DEF S
  <2> QED  BY <1>1, <2>1
<1> HIDE DEF S
<1>4. \E h \in S : \A k \in S : h <= k  BY <1>1, <1>2, Least
<1>5. Fresh(used) \in S  BY <1>4 DEF Fresh, S
<1> QED  BY <1>5 DEF S

\* The table, one object at a time.
LEMMA WithIs ==
    ASSUME NEW f, NEW x, NEW y
    PROVE  /\ DOMAIN With(f, x, y) = DOMAIN f \cup {x}
           /\ With(f, x, y)[x] = y
           /\ \A z \in DOMAIN f : z # x => With(f, x, y)[z] = f[z]
BY DEF With

\* ... and without some objects.
LEMMA WithoutIs ==
    ASSUME NEW f, NEW S
    PROVE  /\ DOMAIN Without(f, S) = DOMAIN f \ S
           /\ \A z \in DOMAIN f \ S : Without(f, S)[z] = f[z]
BY DEF Without

\* What an object of a table is.
LEMMA TableGives ==
    ASSUME NEW os, Table(os), NEW h \in DOMAIN os
    PROVE  /\ os[h] \in TableObjects /\ h \in Handles /\ h \in Nat \ {0}
           /\ os[h].doc \in DocumentsOf(os) /\ os[h].doc \in DOMAIN os
           /\ os[h].kind \in Kinds /\ os[h].value \in Nat /\ os[h].log \in Seq(Events)
           /\ os[h] = [kind |-> os[h].kind, doc |-> os[h].doc, value |-> os[h].value,
                       log |-> os[h].log]
<1>1. os[h] \in TableObjects /\ h \in Handles  BY DEF Table
<1>2. h \in Nat \ {0}  BY <1>1, OperationsAssumption
<1>3. os[h].doc \in DOMAIN os /\ os[os[h].doc].kind = "document"  BY DEF Table
<1> QED  BY <1>1, <1>2, <1>3 DEF TableObjects, DocumentsOf

\* The operations allowed on an object, as a request.
LEMMA AllowedGives ==
    ASSUME NEW os, Table(os), NEW r \in Requests, Allowed(r, os)
    PROVE  /\ r.on \in DOMAIN os
           /\ r.op \in DocumentOps \cup PageOps /\ r.op \in Ops /\ r.op # "open"
           /\ r.cmap \in MaybeCMap
           /\ r.op \in {"pages", "annots", "close"} => os[r.on].kind = "document"
           /\ r.op = "crop" => os[r.on].kind # "document"
           /\ os[r.on].kind = "document" => os[r.on].doc = r.on /\ os[r.on].value = 1
BY DEF Allowed, Requests, Ops, DocumentOps, PageOps, Table

\* What an operation sees and leaves has its type.
LEMMA EffectType ==
    ASSUME NEW op \in Ops, NEW cmap \in MaybeCMap, NEW value \in Nat, NEW log \in Seq(Events),
           NEW before1 \in Process, NEW given \in SUBSET CMaps
    PROVE  LET e == Effect(op, cmap, value, log, before1, given) IN
           /\ e.event \in Events
           /\ e.event = Event(op, value, cmap, Saw(cmap, log, before1, given), Outcome(op, before1))
           /\ e.event.op = op /\ e.event.on = value /\ e.event.cmap = cmap
           /\ e.event.saw = Saw(cmap, log, before1, given)
           /\ e.event.outcome = Outcome(op, before1)
           /\ Outcome(op, before1) \in Endings
           /\ e.process = ProcessAfter(op, cmap, log, before1, given)
           /\ e.process \in Process
           /\ e.missed = Missed(cmap, log, before1, given)
           /\ e.missed \in SUBSET CMaps
<1>1. Saw(cmap, log, before1, given) \in {"nothing", "full", "empty"}
  <2>1. CASE cmap = NoCMap  BY <2>1 DEF Saw
  <2>2. CASE cmap # NoCMap /\ InFontCache(cmap, log)
    <3>1. \E i \in DOMAIN log : log[i].cmap = cmap  BY <2>2 DEF InFontCache
    <3> DEFINE k == CHOOSE i \in DOMAIN log : log[i].cmap = cmap
    <3>2. k \in DOMAIN log  BY <3>1
    <3> HIDE DEF k
    <3>3. log[k] \in Events  BY <3>2
    <3>4. log[k].saw \in {"nothing", "full", "empty"}  BY <3>3 DEF Events
    <3>5. Saw(cmap, log, before1, given) = log[k].saw  BY <2>2 DEF Saw, k
    <3> QED  BY <3>4, <3>5
  <2>3. CASE cmap # NoCMap /\ ~InFontCache(cmap, log)  BY <2>3 DEF Saw
  <2> QED  BY <2>1, <2>2, <2>3
<1>2. Outcome(op, before1) \in Endings  BY DEF Outcome, Endings
<1>3. ProcessAfter(op, cmap, log, before1, given) \in Process
  BY DEF ProcessAfter, Process
<1>4. Missed(cmap, log, before1, given) \in SUBSET CMaps
  BY DEF Missed, MaybeCMap
<1>5. Event(op, value, cmap, Saw(cmap, log, before1, given), Outcome(op, before1)) \in Events
  BY <1>1, <1>2 DEF Event, Events
<1> QED  BY <1>2, <1>3, <1>4, <1>5 DEF Effect, Event

\* The page an operation answers with is a number.
LEMMA PageAnsweredZero ==
    ASSUME NEW log
    PROVE  log[Len(log)].op \notin {"pages", "annots", "crop"} => PageAnswered(log) = 0
BY DEF PageAnswered

-----------------------------------------------------------------------------

(* One operation of a call. *)

\* The operation RunOp runs: its request, its document, what it does to them.
Op == Head(todo)
\* Its document, what it does, the log and the table it leaves, the entry it is recorded
\* by, and whether it needs a handle, and which.
OpDoc == objects[Op.on].doc
OpEffect == Effect(Op.op, Op.cmap, objects[Op.on].value, objects[OpDoc].log, process, loaded)
OpLog == Append(objects[OpDoc].log, OpEffect.event)
OpObjects == [objects EXCEPT ![OpDoc].log = OpLog]
OpEntry(created, outcome) ==
    Entry(Op.op, Op.cmap, oids[Op.on], created, OpDoc, process, outcome)
OpNeeds == NeedsHandle(OpObjects, OpDoc, OpLog)
OpHandle == Fresh(DOMAIN objects)

\* The running call, its start as it was.
RunningAfter(created, touched, missed, outcome, page) ==
    [ request |-> running.request, objects |-> running.objects, process |-> running.process,
      created |-> created, touched |-> touched, missed |-> missed, outcome |-> outcome,
      page |-> page ]

\* What RunOp does: the document is lost, or the operation runs; it makes no
\* object, or one, or finds no room for it.
OpRefused ==
    /\ OpDoc \in Broken
    /\ UNCHANGED <<objects, oids, nextOid, process, history, flags>>
    /\ running' = RunningAfter(running.created, running.touched, running.missed,
                               "RuntimeError", 0)
    /\ todo' = <<>>

\* ... and on another: the process, the missed CMaps and the history after it.
OpRan ==
    /\ OpDoc \notin Broken
    /\ process' = OpEffect.process
    /\ flags' = IF Complete THEN [flags EXCEPT ![OpDoc].unrecorded = TRUE] ELSE flags

\* ... an operation that makes no object, or finds no handle for it,
OpMakesNone(outcome) ==
    /\ objects' = OpObjects /\ oids' = oids /\ nextOid' = nextOid
    /\ history' = IF Complete THEN history ELSE Append(history, OpEntry(<<>>, outcome))
    /\ running'.request = running.request
    /\ running'.objects = running.objects
    /\ running'.process = running.process
    /\ running'.created = running.created
    /\ running'.touched = running.touched \cup {OpDoc}
    /\ running'.missed = running.missed \cup OpEffect.missed
    /\ running'.outcome = outcome
    /\ running'.page = IF outcome = "MemoryError" THEN 0 ELSE PageAnswered(OpLog)
    /\ running' = RunningAfter(running'.created, running'.touched, running'.missed,
                               outcome, running'.page)
    /\ todo' = IF outcome = "done" THEN Tail(todo) ELSE <<>>

\* ... and one that makes an object.
OpMakesOne ==
    /\ objects' = With(OpObjects, OpHandle, Page(OpDoc, PageAnswered(OpLog), Op.op))
    /\ oids' = With(oids, OpHandle, nextOid)
    /\ nextOid' = nextOid + 1
    /\ history' = IF Complete THEN history
                  ELSE Append(history, OpEntry(<<nextOid>>, OpEffect.event.outcome))
    /\ running' = RunningAfter(Append(running.created, OpHandle),
                               running.touched \cup {OpDoc},
                               running.missed \cup OpEffect.missed,
                               OpEffect.event.outcome, PageAnswered(OpLog))
    /\ todo' = IF OpEffect.event.outcome = "done" THEN Tail(todo) ELSE <<>>

\* The record of a call, field by field.
IsCall(w, q, o, p, c, t, m, e, g) ==
    w = [ request |-> q, objects |-> o, process |-> p, created |-> c, touched |-> t,
          missed |-> m, outcome |-> e, page |-> g ]

\* The fields of the record of a call, and the record with one of them changed.
LEMMA CallFields ==
    ASSUME NEW w, NEW q, NEW o, NEW p, NEW c, NEW t, NEW m, NEW e, NEW g,
           IsCall(w, q, o, p, c, t, m, e, g)
    PROVE  /\ w.request = q /\ w.objects = o /\ w.process = p /\ w.created = c
           /\ w.touched = t /\ w.missed = m /\ w.outcome = e /\ w.page = g
           /\ \A x : IsCall([w EXCEPT !.objects = x], q, x, p, c, t, m, e, g)
           /\ \A x : IsCall([w EXCEPT !.process = x], q, o, x, c, t, m, e, g)
           /\ \A x : IsCall([w EXCEPT !.created = x], q, o, p, x, t, m, e, g)
           /\ \A x : IsCall([w EXCEPT !.touched = x], q, o, p, c, x, m, e, g)
           /\ \A x : IsCall([w EXCEPT !.missed = x], q, o, p, c, t, x, e, g)
           /\ \A x : IsCall([w EXCEPT !.outcome = x], q, o, p, c, t, m, x, g)
           /\ \A x : IsCall([w EXCEPT !.page = x], q, o, p, c, t, m, e, x)
BY DEF IsCall

\* ... with the table and the process changed,
LEMMA CallWithTwo ==
    ASSUME NEW w, NEW q, NEW o, NEW p, NEW c, NEW t, NEW m, NEW e, NEW g,
           IsCall(w, q, o, p, c, t, m, e, g), NEW o2, NEW p2
    PROVE  IsCall([w EXCEPT !.objects = o2, !.process = p2], q, o2, p2, c, t, m, e, g)
<1> DEFINE w1 == [w EXCEPT !.objects = o2]
<1>1. IsCall(w1, q, o2, p, c, t, m, e, g)  BY CallFields
<1> HIDE DEF w1
<1>2. IsCall([w1 EXCEPT !.process = p2], q, o2, p2, c, t, m, e, g)  BY <1>1, CallFields
<1> QED  BY <1>2 DEF w1

\* ... with the way it ended and its page,
LEMMA CallWithEnd ==
    ASSUME NEW w, NEW q, NEW o, NEW p, NEW c, NEW t, NEW m, NEW e, NEW g,
           IsCall(w, q, o, p, c, t, m, e, g), NEW e2, NEW g2
    PROVE  IsCall([w EXCEPT !.outcome = e2, !.page = g2], q, o, p, c, t, m, e2, g2)
<1> DEFINE w1 == [w EXCEPT !.outcome = e2]
<1>1. IsCall(w1, q, o, p, c, t, m, e2, g)  BY CallFields
<1> HIDE DEF w1
<1>2. IsCall([w1 EXCEPT !.page = g2], q, o, p, c, t, m, e2, g2)  BY <1>1, CallFields
<1> QED  BY <1>2 DEF w1

\* ... with the object an operation made,
LEMMA CallWithObject ==
    ASSUME NEW w, NEW q, NEW o, NEW p, NEW c, NEW t, NEW m, NEW e, NEW g,
           IsCall(w, q, o, p, c, t, m, e, g), NEW o2, NEW h
    PROVE  IsCall([w EXCEPT !.objects = o2, !.created = Append(@, h)],
                  q, o2, p, Append(c, h), t, m, e, g)
<1> DEFINE w1 == [w EXCEPT !.objects = o2]
           c2 == Append(w1.created, h)
<1>1. IsCall(w1, q, o2, p, c, t, m, e, g)  BY CallFields
<1> HIDE DEF w1
<1>2. c2 = Append(c, h)  BY <1>1, CallFields
<1> HIDE DEF c2
<1>3. IsCall([w1 EXCEPT !.created = c2], q, o2, p, c2, t, m, e, g)  BY <1>1, CallFields
<1> QED  BY <1>2, <1>3 DEF w1, c2

\* ... and with all that an operation changes.
LEMMA CallWithOp ==
    ASSUME NEW w, NEW q, NEW o, NEW p, NEW c, NEW t, NEW m, NEW e, NEW g,
           IsCall(w, q, o, p, c, t, m, e, g),
           NEW o2, NEW p2, NEW t2, NEW m2, NEW e2, NEW g2
    PROVE  IsCall([w EXCEPT !.objects = o2, !.process = p2, !.touched = @ \cup t2,
                            !.missed = @ \cup m2, !.outcome = e2, !.page = g2],
                  q, o2, p2, c, t \cup t2, m \cup m2, e2, g2)
<1> DEFINE w1 == [w EXCEPT !.objects = o2, !.process = p2]
           t1 == w1.touched \cup t2
           w2 == [w1 EXCEPT !.touched = t1]
           m1 == w2.missed \cup m2
           w3 == [w2 EXCEPT !.missed = m1]
<1>1. IsCall(w1, q, o2, p2, c, t, m, e, g)  BY CallWithTwo
<1> HIDE DEF w1
<1>2. t1 = t \cup t2  BY <1>1, CallFields
<1> HIDE DEF t1
<1>3. IsCall(w2, q, o2, p2, c, t1, m, e, g)  BY <1>1, CallFields
<1> HIDE DEF w2
<1>4. m1 = m \cup m2  BY <1>3, CallFields
<1> HIDE DEF m1
<1>5. IsCall(w3, q, o2, p2, c, t1, m1, e, g)  BY <1>3, CallFields
<1> HIDE DEF w3
<1>6. IsCall([w3 EXCEPT !.outcome = e2, !.page = g2], q, o2, p2, c, t1, m1, e2, g2)
  BY <1>5, CallWithEnd
<1> QED  BY <1>2, <1>4, <1>6 DEF w3, m1, w2, t1, w1

\* RunOp does one of four things: its document is lost; it makes no object; it finds the
\* table full; it makes one (ops.rs `run_op`).
LEMMA RunOpCases ==
    ASSUME CoreTypes, InRun, RunOp
    PROVE  \/ OpRefused
           \/ OpRan /\ ~OpNeeds /\ OpMakesNone(OpEffect.event.outcome)
           \/ OpRan /\ OpNeeds /\ Handles \subseteq DOMAIN objects /\ OpMakesNone("MemoryError")
           \/ OpRan /\ OpNeeds /\ ~ Handles \subseteq DOMAIN objects /\ OpMakesOne
<1> DEFINE w == [running EXCEPT !.objects = objects, !.process = process]
           ran == Do(w, Op, loaded, Broken)
           new == DOMAIN ran.objects \ DOMAIN objects
<1>1. /\ objects' = ran.objects
      /\ process' = ran.process
      /\ running' = [ran EXCEPT !.objects = running.objects, !.process = running.process]
      /\ oids' = [h \in DOMAIN oids \cup new |-> IF h \in new THEN nextOid ELSE oids[h]]
      /\ nextOid' = nextOid + Cardinality(new)
      /\ history' = IF OpDoc \notin Broken /\ ~Complete
                    THEN Append(history, OpEntry(IF new = {} THEN <<>> ELSE <<nextOid>>, ran.outcome))
                    ELSE history
      /\ flags' = IF OpDoc \notin Broken /\ Complete
                  THEN [flags EXCEPT ![OpDoc].unrecorded = TRUE] ELSE flags
      /\ todo' = IF ran.outcome = "done" THEN Tail(todo) ELSE <<>>
  BY DEF RunOp, Op, OpDoc, OpEntry
<1>2. IsCall(running, running.request, running.objects, running.process, running.created,
             running.touched, running.missed, running.outcome, running.page)
  BY DEF InRun, InCall, RunFields, IsCall
<1>3. IsCall(w, running.request, objects, process, running.created, running.touched,
             running.missed, running.outcome, running.page)
  BY <1>2, CallWithTwo
<1> HIDE DEF w
<1>4. oids = [h \in DOMAIN oids |-> oids[h]] /\ nextOid + 0 = nextOid
      /\ DOMAIN oids = DOMAIN objects
  BY DEF CoreTypes, Named
<1>5. Cardinality({}) = 0 /\ \A x : Cardinality({x}) = 1
  BY FS_EmptySet, FS_Singleton
<1>14. ASSUME new = {}  PROVE oids' = oids /\ nextOid' = nextOid
  <2> HIDE DEF new
  <2>1. oids' = [h \in DOMAIN oids |-> oids[h]]  BY <1>1, <1>14
  <2>2. nextOid' = nextOid + 0  BY <1>1, <1>5, <1>14
  <2> QED  BY <1>4, <2>1, <2>2
<1>6. w.objects = objects /\ w.process = process /\ w.created = running.created
      /\ w.touched = running.touched /\ w.missed = running.missed
      /\ w.request = running.request
  BY <1>3, CallFields
<1> DEFINE d == OpDoc
           base == [w EXCEPT !.objects = OpObjects, !.process = OpEffect.process,
                             !.touched = @ \cup {d}, !.missed = @ \cup OpEffect.missed,
                             !.outcome = OpEffect.event.outcome, !.page = PageAnswered(OpLog)]
<1>7. IsCall(base, running.request, OpObjects, OpEffect.process, running.created,
             running.touched \cup {d}, running.missed \cup OpEffect.missed,
             OpEffect.event.outcome, PageAnswered(OpLog))
  <2> HIDE DEF OpObjects, OpEffect, OpLog, d
  <2> QED  BY <1>3, CallWithOp
<1>8. DOMAIN OpObjects = DOMAIN objects  BY DEF OpObjects
<1>9. ran = CASE d \in Broken -> [w EXCEPT !.outcome = "RuntimeError", !.page = 0]
              [] d \notin Broken /\ ~OpNeeds -> base
              [] d \notin Broken /\ OpNeeds ->
                   IF Handles \subseteq DOMAIN OpObjects
                   THEN [base EXCEPT !.outcome = "MemoryError", !.page = 0]
                   ELSE [base EXCEPT !.objects =
                           With(OpObjects, Fresh(DOMAIN OpObjects), Page(d, base.page, Op.op)),
                                     !.created = Append(@, Fresh(DOMAIN OpObjects))]
  BY <1>6 DEF Do, OpNeeds, OpObjects, OpLog, OpEffect, OpDoc
<1> HIDE DEF ran, base
<1>15. ASSUME NEW c, NEW t, NEW m, NEW e, NEW g, NEW os, NEW p,
              IsCall(ran, running.request, os, p, c, t, m, e, g)
       PROVE  /\ ran.objects = os /\ ran.process = p /\ ran.outcome = e
              /\ running' = RunningAfter(c, t, m, e, g)
  <2>1. ran.objects = os /\ ran.process = p /\ ran.outcome = e
    BY <1>15, CallFields
  <2>2. IsCall([ran EXCEPT !.objects = running.objects, !.process = running.process],
               running.request, running.objects, running.process, c, t, m, e, g)
    BY <1>15, CallWithTwo
  <2> QED  BY <1>1, <2>1, <2>2 DEF IsCall, RunningAfter
<1>10. CASE d \in Broken
  <2>1. ran = [w EXCEPT !.outcome = "RuntimeError", !.page = 0]  BY <1>9, <1>10
  <2>2. IsCall(ran, running.request, objects, process, running.created, running.touched,
               running.missed, "RuntimeError", 0)
    BY <1>3, <2>1, CallWithEnd
  <2>3. /\ ran.objects = objects /\ ran.process = process /\ ran.outcome = "RuntimeError"
        /\ running' = RunningAfter(running.created, running.touched, running.missed,
                                   "RuntimeError", 0)
    BY <1>15, <2>2
  <2>4. oids' = oids /\ nextOid' = nextOid  BY <1>14, <2>3
  <2> QED  BY <1>1, <1>10, <2>3, <2>4 DEF OpRefused
<1>11. CASE d \notin Broken /\ ~OpNeeds
  <2>1. ran = base  BY <1>9, <1>11
  <2>2. /\ ran.objects = OpObjects /\ ran.process = OpEffect.process
        /\ ran.outcome = OpEffect.event.outcome
        /\ running' = RunningAfter(running.created, running.touched \cup {d},
                                   running.missed \cup OpEffect.missed,
                                   OpEffect.event.outcome, PageAnswered(OpLog))
    BY <1>7, <1>15, <2>1
  <2>3. new = {}  BY <1>8, <2>2
  <2>4. oids' = oids /\ nextOid' = nextOid  BY <1>14, <2>3
  <2>5. OpRan  BY <1>1, <1>11, <2>2 DEF OpRan
  <2>6. OpEffect.event.outcome # "MemoryError"
    BY DEF OpEffect, Effect, Event, Outcome
  <2>7. OpMakesNone(OpEffect.event.outcome)
    <3> DEFINE e == OpEffect.event.outcome  ms == running.missed \cup OpEffect.missed
               ts == running.touched \cup {d}  g == PageAnswered(OpLog)
    <3>1. running' = RunningAfter(running.created, ts, ms, e, g)  BY <2>2
    <3>2. history' = IF Complete THEN history ELSE Append(history, OpEntry(<<>>, e))
      BY <1>1, <1>11, <2>2, <2>3
    <3>3. objects' = OpObjects /\ todo' = IF e = "done" THEN Tail(todo) ELSE <<>>
      BY <1>1, <2>2
    <3>4. e # "MemoryError"  BY <2>6
    <3> HIDE DEF e, ms, ts, g
    <3>5. /\ running'.request = running.request /\ running'.objects = running.objects
          /\ running'.process = running.process /\ running'.created = running.created
          /\ running'.touched = ts /\ running'.missed = ms /\ running'.outcome = e
          /\ running'.page = g
      BY <3>1 DEF RunningAfter
    <3> QED  BY <2>4, <3>1, <3>2, <3>3, <3>4, <3>5 DEF OpMakesNone, e, ms, ts, g
  <2> QED  BY <1>11, <2>5, <2>7
<1>12. CASE d \notin Broken /\ OpNeeds /\ Handles \subseteq DOMAIN objects
  <2>1. ran = [base EXCEPT !.outcome = "MemoryError", !.page = 0]  BY <1>8, <1>9, <1>12
  <2>2. IsCall(ran, running.request, OpObjects, OpEffect.process, running.created,
               running.touched \cup {d}, running.missed \cup OpEffect.missed,
               "MemoryError", 0)
    BY <1>7, <2>1, CallWithEnd
  <2>3. /\ ran.objects = OpObjects /\ ran.process = OpEffect.process
        /\ ran.outcome = "MemoryError"
        /\ running' = RunningAfter(running.created, running.touched \cup {d},
                                   running.missed \cup OpEffect.missed, "MemoryError", 0)
    BY <1>15, <2>2
  <2>4. new = {}  BY <1>8, <2>3
  <2>5. oids' = oids /\ nextOid' = nextOid  BY <1>14, <2>4
  <2>6. OpRan  BY <1>1, <1>12, <2>3 DEF OpRan
  <2>7. OpMakesNone("MemoryError")
    <3> DEFINE e == "MemoryError"  ms == running.missed \cup OpEffect.missed
               ts == running.touched \cup {d}  g == 0
    <3>1. running' = RunningAfter(running.created, ts, ms, e, g)  BY <2>3
    <3>2. history' = IF Complete THEN history ELSE Append(history, OpEntry(<<>>, e))
      BY <1>1, <1>12, <2>3, <2>4
    <3>3. objects' = OpObjects /\ todo' = IF e = "done" THEN Tail(todo) ELSE <<>>
      BY <1>1, <2>3
    <3>4. e = "MemoryError"  OBVIOUS
    <3> HIDE DEF e, ms, ts, g
    <3>5. /\ running'.request = running.request /\ running'.objects = running.objects
          /\ running'.process = running.process /\ running'.created = running.created
          /\ running'.touched = ts /\ running'.missed = ms /\ running'.outcome = e
          /\ running'.page = g
      BY <3>1 DEF RunningAfter
    <3> QED  BY <2>5, <3>1, <3>2, <3>3, <3>4, <3>5 DEF OpMakesNone, e, ms, ts, g
  <2> QED  BY <1>12, <2>6, <2>7
<1>13. CASE d \notin Broken /\ OpNeeds /\ ~ Handles \subseteq DOMAIN objects
  <2> DEFINE os == With(OpObjects, OpHandle, Page(d, PageAnswered(OpLog), Op.op))
  <2>1. OpHandle \in Handles \ DOMAIN objects  BY <1>13, FreshIsFree DEF OpHandle
  <2>2. base.page = PageAnswered(OpLog)  BY <1>7, CallFields
  <2>3. ran = [base EXCEPT !.objects = os, !.created = Append(@, OpHandle)]
    BY <1>8, <1>9, <1>13, <2>2 DEF OpHandle
  <2>4. DOMAIN os = DOMAIN objects \cup {OpHandle}  BY <1>8 DEF With
  <2> HIDE DEF os
  <2>5. IsCall(ran, running.request, os, OpEffect.process, Append(running.created, OpHandle),
               running.touched \cup {d}, running.missed \cup OpEffect.missed,
               OpEffect.event.outcome, PageAnswered(OpLog))
    BY <1>7, <2>3, CallWithObject
  <2>6. /\ ran.objects = os /\ ran.process = OpEffect.process
        /\ ran.outcome = OpEffect.event.outcome
        /\ running' = RunningAfter(Append(running.created, OpHandle), running.touched \cup {d},
                                   running.missed \cup OpEffect.missed,
                                   OpEffect.event.outcome, PageAnswered(OpLog))
    BY <1>15, <2>5
  <2>7. new = {OpHandle}  BY <2>1, <2>4, <2>6
  <2>8. oids' = With(oids, OpHandle, nextOid) /\ nextOid' = nextOid + 1
    <3>1. oids' = [h \in DOMAIN oids \cup {OpHandle} |->
                    IF h \in {OpHandle} THEN nextOid ELSE oids[h]]
      BY <1>1, <2>7
    <3> QED  BY <1>1, <1>5, <2>7, <3>1 DEF With
  <2>9. OpRan  BY <1>1, <1>13, <2>6 DEF OpRan
  <2>10. OpMakesOne
    BY <1>1, <1>13, <2>6, <2>7, <2>8 DEF OpMakesOne, os
  <2> QED  BY <1>13, <2>9, <2>10
<1> QED  BY <1>8, <1>10, <1>11, <1>12, <1>13

-----------------------------------------------------------------------------

(* CoreSane: the names are right in every state. *)

\* A function is typed by its values.
LEMMA FunctionType ==
    ASSUME NEW f, NEW S, NEW T, NEW U, f = [x \in S |-> f[x]], S = U,
           \A x \in U : f[x] \in T
    PROVE  f \in [U -> T]
<1>1. f \in [S -> T]  OBVIOUS
<1> QED  BY <1>1

\* The history and the flags once a call starts.
LEMMA KeptFacts ==
    ASSUME CoreTypes
    PROVE  /\ KeptHistory \in Seq(HistoryEntries)
           /\ \A i \in DOMAIN KeptHistory : i \in DOMAIN history /\ KeptHistory[i] = history[i]
           /\ KeptFlags \in [DocumentsOf(objects) -> Flags]
           /\ \A d \in DOMAIN flags : KeptFlags[d].broken = flags[d].broken
<1>1. KeptHistory = <<>> \/ KeptHistory = history  BY DEF KeptHistory
<1>2. KeptHistory \in Seq(HistoryEntries)
  <2>1. history \in Seq(HistoryEntries)  BY DEF CoreTypes
  <2>2. <<>> \in Seq(HistoryEntries)  OBVIOUS
  <2> QED  BY <1>1, <2>1, <2>2
<1>3. \A i \in DOMAIN KeptHistory : i \in DOMAIN history /\ KeptHistory[i] = history[i]
  BY <1>1
<1>4. flags \in [DocumentsOf(objects) -> Flags]  BY DEF CoreTypes
<1>5. \A f \in Flags : [f EXCEPT !.unrecorded = TRUE] \in Flags
                       /\ [f EXCEPT !.unrecorded = TRUE].broken = f.broken
  BY DEF Flags
<1> QED  BY <1>2, <1>3, <1>4, <1>5 DEF KeptFlags

\* The page of pdf.pages, in a log whose last event reads it.
LEMMA PageOfIs ==
    ASSUME NEW log \in Seq(Events), log # <<>>, ReadsPages(log[Len(log)])
    PROVE  PageOf(log) \in 1 .. Len(log)
<1> DEFINE n == Len(log)
           T == {i \in 1 .. n : ReadsPages(log[i])
                                /\ \A j \in i + 1 .. n : log[j].op # "close"}
<1>1. n \in Nat /\ n >= 1 /\ DOMAIN log = 1 .. n  OBVIOUS
<1>2. n \in T  BY <1>1
<1>3. T \subseteq 0 .. n  BY <1>1
<1> HIDE DEF n
<1>4. PICK i \in T : \A m \in T : i <= m
  <2> HIDE DEF T
  <2> QED  BY <1>1, <1>2, <1>3, LeastNumber
<1>5. \A j \in 1 .. i - 1 : ReadsPages(log[j]) => \E k \in j + 1 .. i : log[k].op = "close"
  <2> SUFFICES ASSUME NEW j \in 1 .. i - 1, ReadsPages(log[j])
               PROVE  \E k \in j + 1 .. i : log[k].op = "close"
    OBVIOUS
  <2>1. i \in 1 .. n  OBVIOUS
  <2>2. j \in 1 .. n /\ j < i  BY <1>1, <2>1
  <2>3. j \notin T
    <3> HIDE DEF T
    <3> QED  BY <1>1, <1>4, <2>1, <2>2
  <2>4. PICK k \in j + 1 .. n : log[k].op = "close"  BY <2>2, <2>3
  <2>5. ~ k >= i + 1  BY <1>1, <2>1, <2>2, <2>4
  <2> QED  BY <1>1, <2>1, <2>2, <2>4, <2>5
<1>6. \A j \in i + 1 .. Len(log) : log[j].op # "close"  BY DEF n
<1>7. i \in DOMAIN log /\ ReadsPages(log[i])  BY <1>1
<1>8. PageOf(log) \in DOMAIN log
  <2> HIDE DEF T
  <2> QED  BY <1>5, <1>6, <1>7 DEF PageOf
<1> QED  BY <1>1, <1>8 DEF n

\* The page an operation answers with: 0, or a step of the log.
LEMMA PageAnsweredIs ==
    ASSUME NEW log \in Seq(Events), log # <<>>,
           log[Len(log)].op \in {"pages", "annots"} => log[Len(log)].on = 1
    PROVE  /\ PageAnswered(log) \in 0 .. Len(log)
           /\ log[Len(log)].op \in {"pages", "annots", "crop"} => PageAnswered(log) # 0
<1>1. Len(log) \in Nat /\ Len(log) >= 1  OBVIOUS
<1>2. CASE log[Len(log)].op \in {"pages", "annots"}
  <2>1. ReadsPages(log[Len(log)])  BY <1>2 DEF ReadsPages
  <2>2. PageOf(log) \in 1 .. Len(log)  BY <2>1, PageOfIs
  <2>3. PageAnswered(log) = PageOf(log)  BY <1>2 DEF PageAnswered
  <2> QED  BY <1>1, <2>2, <2>3
<1>3. CASE log[Len(log)].op = "crop"
  <2>1. PageAnswered(log) = Len(log)  BY <1>3 DEF PageAnswered
  <2> QED  BY <1>1, <2>1
<1>4. CASE log[Len(log)].op \notin {"pages", "annots", "crop"}
  BY <1>1, <1>4, PageAnsweredZero
<1> QED  BY <1>2, <1>3, <1>4

\* The handles of os2 are those of os, with their identities and for objects of
\* the same kinds and documents, or new ones.
Continues(os, ids, next, os2, ids2) ==
    /\ DOMAIN ids = DOMAIN os /\ DOMAIN ids2 = DOMAIN os2
    /\ \A h \in DOMAIN os2 :
         \/ h \in DOMAIN os /\ ids2[h] = ids[h]
              /\ os2[h].kind = os[h].kind /\ os2[h].doc = os[h].doc
         \/ ids2[h] >= next

\* What an entry says of identities stays true while its document is there.
LEMMA EntryNamedKept ==
    ASSUME NEW e \in HistoryEntries, NEW os, NEW ids, NEW next \in Nat, NEW os2, NEW ids2,
           NEW next2 \in Nat,
           EntryNamed(e, os, ids, next), Continues(os, ids, next, os2, ids2),
           e.doc \in DOMAIN os2, ids2[e.doc] \in Nat, ids2[e.doc] < next, next <= next2,
           \A h \in DOMAIN ids2 : ids2[h] \in Nat
    PROVE  EntryNamed(e, os2, ids2, next2)
<1>1. e.target \in Nat /\ e.doc \in Nat  BY DEF HistoryEntries
<1>2. e.doc \in DocumentsOf(os2) /\ ids2[e.doc] = ids[e.doc]
  BY DEF EntryNamed, Continues, DocumentsOf
<1>3. \A h \in DOMAIN ids2 : ids2[h] < next =>
        h \in DOMAIN ids /\ ids2[h] = ids[h]
        /\ os2[h].kind = os[h].kind /\ os2[h].doc = os[h].doc
  BY DEF Continues
<1>4. ASSUME e.created # <<>>
      PROVE  /\ e.created = <<e.created[1]>>
             /\ e.created[1] < next /\ e.created[1] \in Nat
             /\ \A h \in DOMAIN ids : ids[h] = e.created[1] =>
                  /\ os[h].doc = e.doc
                  /\ os[h].kind = KindMade(e.op)
  <2>1. e.created \in Seq(Nat \ {0})  BY DEF HistoryEntries
  <2>2. e.created[1] \in Nat  BY <1>4, <2>1
  <2> QED  BY <1>4, <2>2 DEF EntryNamed
<1>5. e.target < next2 /\ e.target < next  BY <1>1 DEF EntryNamed
<1>6. \A h \in DOMAIN ids2 : ids2[h] = e.target => os2[h].doc = e.doc
  BY <1>3, <1>5 DEF EntryNamed
<1>7. e.op \in {"pages", "annots"} => ids2[e.doc] = e.target
  BY <1>2 DEF EntryNamed
<1>8. e.created # <<>> =>
         /\ e.created = <<e.created[1]>>
         /\ e.created[1] < next2
         /\ \A h \in DOMAIN ids2 : ids2[h] = e.created[1] =>
              /\ os2[h].doc = e.doc
              /\ os2[h].kind = KindMade(e.op)
  BY <1>3, <1>4
<1> QED  BY <1>2, <1>5, <1>6, <1>7, <1>8 DEF EntryNamed

\* A table with one object more.
LEMMA TableWith ==
    ASSUME NEW os, Table(os), NEW h \in Handles \ DOMAIN os, NEW o \in TableObjects,
           IF o.kind = "document" THEN o.doc = h /\ o.value = 1
           ELSE o.doc \in DocumentsOf(os) /\ o.log = <<>>
    PROVE  /\ Table(With(os, h, o))
           /\ DocumentsOf(With(os, h, o)) =
                DocumentsOf(os) \cup (IF o.kind = "document" THEN {h} ELSE {})
<1> DEFINE t == With(os, h, o)
<1>1. /\ DOMAIN t = DOMAIN os \cup {h} /\ t[h] = o
      /\ \A k \in DOMAIN os : t[k] = os[k]
      /\ t = [k \in DOMAIN os \cup {h} |-> t[k]]
  BY DEF With
<1> HIDE DEF t
<1>2. t \in [DOMAIN t -> TableObjects] /\ DOMAIN t \subseteq Handles
  <2> DEFINE D == DOMAIN os \cup {h}
  <2>1. \A k \in DOMAIN t : t[k] \in TableObjects  BY <1>1 DEF Table
  <2>2. t = [k \in D |-> t[k]]  BY <1>1
  <2>3. D = DOMAIN t  BY <1>1
  <2>4. DOMAIN t \subseteq Handles  BY <1>1 DEF Table
  <2> HIDE DEF D
  <2>5. t \in [D -> TableObjects]  BY <2>1, <2>2, <2>3
  <2> QED  BY <2>3, <2>4, <2>5
<1>3. ASSUME NEW k \in DOMAIN t
      PROVE  /\ t[k].doc \in DOMAIN t
             /\ t[t[k].doc].kind = "document"
             /\ t[k].kind = "document" => t[k].doc = k /\ t[k].value = 1
             /\ t[k].kind # "document" => t[k].log = <<>>
  <2>1. CASE k \in DOMAIN os  BY <1>1, <2>1 DEF Table
  <2>2. CASE k = h  BY <1>1, <2>2 DEF Table, DocumentsOf
  <2> QED  BY <1>1, <2>1, <2>2
<1>4. Table(t)  BY <1>2, <1>3 DEF Table
<1>5. DocumentsOf(t) = DocumentsOf(os) \cup (IF o.kind = "document" THEN {h} ELSE {})
  BY <1>1 DEF DocumentsOf
<1> QED  BY <1>4, <1>5 DEF t

\* The identity of a new object is the next one, which no other has.
LEMMA NamedWith ==
    ASSUME NEW os, NEW ids, NEW next, Named(os, ids, next), NEW h, h \notin DOMAIN os, NEW os2,
           DOMAIN os2 = DOMAIN os \cup {h}
    PROVE  Named(os2, With(ids, h, next), next + 1)
<1> DEFINE t == With(ids, h, next)
<1>1. /\ DOMAIN t = DOMAIN os2 /\ t[h] = next
      /\ \A k \in DOMAIN ids : k # h => t[k] = ids[k]
      /\ t = [k \in DOMAIN ids \cup {h} |-> t[k]]
  BY DEF With, Named
<1> HIDE DEF t
<1>2. DOMAIN ids = DOMAIN os /\ next \in Nat \ {0} /\ \A k \in DOMAIN os : ids[k] \in Nat \ {0} /\ ids[k] < next
  BY DEF Named
<1>3. \A k \in DOMAIN os2 : t[k] \in Nat \ {0} /\ t[k] < next + 1  BY <1>1, <1>2
<1>4. t \in [DOMAIN os2 -> Nat \ {0}]
  <2> DEFINE D == DOMAIN ids \cup {h}
  <2>1. D = DOMAIN os2 /\ t = [k \in D |-> t[k]]  BY <1>1, <1>2
  <2> HIDE DEF D
  <2>2. t \in [D -> Nat \ {0}]  BY <1>3, <2>1
  <2> QED  BY <2>1, <2>2
<1>5. \A k, l \in DOMAIN t : t[k] = t[l] => k = l
  <2> SUFFICES ASSUME NEW k \in DOMAIN t, NEW l \in DOMAIN t, t[k] = t[l]
               PROVE  k = l
    OBVIOUS
  <2>1. CASE k \in DOMAIN os /\ l \in DOMAIN os  BY <1>1, <1>2, <2>1 DEF Named
  <2>2. CASE k = h \/ l = h  BY <1>1, <1>2, <2>2
  <2> QED  BY <1>1, <2>1, <2>2
<1>6. next + 1 \in Nat \ {0}  BY <1>2
<1> QED  BY <1>1, <1>3, <1>4, <1>5, <1>6 DEF Named, t

\* A table without some pages, or without a document and all its pages.
LEMMA TableWithout ==
    ASSUME NEW os, Table(os), NEW S,
           \A h \in DOMAIN os \ S : os[h].doc \notin S
    PROVE  /\ Table(Without(os, S))
           /\ DocumentsOf(Without(os, S)) = DocumentsOf(os) \ S
<1> DEFINE t == Without(os, S)
<1>1. /\ DOMAIN t = DOMAIN os \ S
      /\ \A k \in DOMAIN t : t[k] = os[k]
      /\ t = [k \in DOMAIN os \ S |-> t[k]]
  BY DEF Without
<1> HIDE DEF t
<1>2. t \in [DOMAIN t -> TableObjects] /\ DOMAIN t \subseteq Handles
  <2> DEFINE D == DOMAIN os \ S
  <2>1. \A k \in DOMAIN t : t[k] \in TableObjects  BY <1>1 DEF Table
  <2>2. t = [k \in D |-> t[k]]  BY <1>1
  <2>3. D = DOMAIN t  BY <1>1
  <2>4. DOMAIN t \subseteq Handles  BY <1>1 DEF Table
  <2> HIDE DEF D
  <2>5. t \in [D -> TableObjects]  BY <2>1, <2>2, <2>3
  <2> QED  BY <2>3, <2>4, <2>5
<1>3. ASSUME NEW k \in DOMAIN t
      PROVE  /\ t[k].doc \in DOMAIN t
             /\ t[t[k].doc].kind = "document"
             /\ t[k].kind = "document" => t[k].doc = k /\ t[k].value = 1
             /\ t[k].kind # "document" => t[k].log = <<>>
  BY <1>1 DEF Table
<1>4. Table(t)  BY <1>2, <1>3 DEF Table
<1>5. DocumentsOf(t) = DocumentsOf(os) \ S  BY <1>1 DEF DocumentsOf
<1> QED  BY <1>4, <1>5 DEF t

\* The identities of the objects that stay are still all different.
LEMMA NamedWithout ==
    ASSUME NEW os, NEW ids, NEW next, Named(os, ids, next), NEW S, NEW os2,
           DOMAIN os2 = DOMAIN os \ S
    PROVE  Named(os2, Without(ids, S), next)
<1> DEFINE t == Without(ids, S)
<1>1. /\ DOMAIN t = DOMAIN os2 /\ DOMAIN t \subseteq DOMAIN ids
      /\ \A k \in DOMAIN t : t[k] = ids[k]
      /\ t = [k \in DOMAIN ids \ S |-> t[k]]
  BY DEF Without, Named
<1> HIDE DEF t
<1>3. \A k \in DOMAIN os2 : t[k] \in Nat \ {0} /\ t[k] < next  BY <1>1 DEF Named
<1>4. t \in [DOMAIN os2 -> Nat \ {0}]
  <2> DEFINE D == DOMAIN ids \ S
  <2>1. D = DOMAIN os2 /\ t = [k \in D |-> t[k]]  BY <1>1 DEF Named
  <2> HIDE DEF D
  <2>2. t \in [D -> Nat \ {0}]  BY <1>3, <2>1
  <2> QED  BY <2>1, <2>2
<1>5. \A k, l \in DOMAIN t : t[k] = t[l] => k = l  BY <1>1 DEF Named
<1>6. next \in Nat \ {0}  BY DEF Named
<1> QED  BY <1>1, <1>3, <1>4, <1>5, <1>6 DEF Named, t

\* A table whose objects change, and keep their kinds and documents.
LEMMA TableAlike ==
    ASSUME NEW os, Table(os), NEW os2, os2 \in [DOMAIN os -> TableObjects],
           \A h \in DOMAIN os :
             /\ os2[h].kind = os[h].kind /\ os2[h].doc = os[h].doc
             /\ os[h].kind = "document" => os2[h].value = 1
             /\ os[h].kind # "document" => os2[h].log = <<>>
    PROVE  Table(os2) /\ DocumentsOf(os2) = DocumentsOf(os)
BY DEF Table, DocumentsOf

\* The objects of the documents ds, reset.
LEMMA ResetAllIs ==
    ASSUME NEW os, Table(os), NEW ds
    PROVE  /\ DOMAIN ResetAll(os, ds) = DOMAIN os
           /\ Table(ResetAll(os, ds))
           /\ DocumentsOf(ResetAll(os, ds)) = DocumentsOf(os)
           /\ \A h \in DOMAIN os :
                LET o == ResetAll(os, ds)[h] IN
                /\ o.kind = os[h].kind /\ o.doc = os[h].doc
                /\ os[h].doc \notin ds => o = os[h]
                /\ os[h].doc \in ds /\ os[h].kind = "document" => o.log = <<>>
                /\ os[h].doc \in ds /\ os[h].kind # "document" => o.value = 0
<1> DEFINE t == ResetAll(os, ds)
<1>1. /\ DOMAIN t = DOMAIN os /\ t = [h \in DOMAIN os |-> t[h]]
      /\ \A h \in DOMAIN os : t[h] = IF os[h].doc \in ds THEN Reset(os[h]) ELSE os[h]
  BY DEF ResetAll
<1>2. \A o \in TableObjects :
        /\ Reset(o) \in TableObjects /\ Reset(o).kind = o.kind /\ Reset(o).doc = o.doc
        /\ o.kind = "document" => Reset(o).value = o.value /\ Reset(o).log = <<>>
        /\ o.kind # "document" => Reset(o).value = 0 /\ Reset(o).log = o.log
  <2> SUFFICES ASSUME NEW o \in TableObjects
               PROVE  /\ Reset(o) \in TableObjects /\ Reset(o).kind = o.kind
                      /\ Reset(o).doc = o.doc
                      /\ o.kind = "document" => Reset(o).value = o.value /\ Reset(o).log = <<>>
                      /\ o.kind # "document" => Reset(o).value = 0 /\ Reset(o).log = o.log
    OBVIOUS
  <2>1. <<>> \in Seq(Events) /\ 0 \in Nat  OBVIOUS
  <2>2. CASE o.kind = "document"
    <3>1. Reset(o) = [o EXCEPT !.log = <<>>]  BY <2>2 DEF Reset
    <3> HIDE DEF Events
    <3> QED  BY <2>1, <2>2, <3>1 DEF TableObjects
  <2>3. CASE o.kind # "document"
    <3>1. Reset(o) = [o EXCEPT !.value = 0]  BY <2>3 DEF Reset
    <3> QED  BY <2>1, <2>3, <3>1 DEF TableObjects
  <2> QED  BY <2>2, <2>3
<1> HIDE DEF t
<1>3. \A h \in DOMAIN os :
        /\ t[h] \in TableObjects /\ t[h].kind = os[h].kind /\ t[h].doc = os[h].doc
        /\ os[h].kind = "document" => t[h].value = 1
        /\ os[h].kind # "document" => t[h].log = <<>>
  BY <1>1, <1>2 DEF Table
<1>4. t \in [DOMAIN os -> TableObjects]  BY <1>1, <1>3, FunctionType
<1>5. Table(t) /\ DocumentsOf(t) = DocumentsOf(os)
  BY <1>3, <1>4, TableAlike
<1>6. \A h \in DOMAIN os : os[h] \in TableObjects  BY DEF Table
<1> QED  BY <1>1, <1>2, <1>3, <1>5, <1>6 DEF t

\* An empty core is sane.
LEMMA CoreSaneInit ==
    ASSUME Init
    PROVE  CoreSane
<1>1. DOMAIN objects = {} /\ DOMAIN oids = {} /\ DOMAIN flags = {} /\ DOMAIN history = {}
  BY DEF Init
<1>2. Table(objects)
  <2>1. objects \in [DOMAIN objects -> TableObjects]  BY <1>1 DEF Init
  <2> QED  BY <1>1, <2>1 DEF Table
<1>3. Named(objects, oids, nextOid)
  <2>1. oids \in [DOMAIN objects -> Nat \ {0}]  BY <1>1 DEF Init
  <2> QED  BY <1>1, <2>1 DEF Named, Init
<1>4. DocumentsOf(objects) = {}  BY <1>1 DEF DocumentsOf
<1>5. flags \in [DocumentsOf(objects) -> Flags]  BY <1>1, <1>4 DEF Init
<1>6. history \in Seq(HistoryEntries) /\ pending.request \in Seq(Requests)
      /\ DOMAIN pending.request = {}
  BY DEF Init, NoRequest
<1>7. process \in Process /\ loaded \subseteq CMaps /\ phase = "idle" /\ calls \in Nat
  BY DEF Init, Process
<1>8. CoreTypes  BY <1>1, <1>2, <1>3, <1>5, <1>6, <1>7 DEF CoreTypes
<1>9. AtRest  BY <1>1, <1>6 DEF AtRest, Init
<1> QED  BY <1>7, <1>8, <1>9 DEF CoreSane

\* The new object of Open.
LEMMA OpenObject ==
    ASSUME NEW h \in Nat
    PROVE  LET o == Document(h, <<Opening>>) IN
           o \in TableObjects /\ o.kind = "document" /\ o.doc = h /\ o.value = 1
           /\ o.log = <<Opening>> /\ Opening \in Events
<1>1. Opening \in Events
  BY DEF Opening, Event, Events, Ops, MaybeCMap, Endings
<1> HIDE DEF Events
<1>2. <<Opening>> \in Seq(Events)  BY <1>1
<1> QED  BY <1>1, <1>2 DEF Document, TableObjects, Kinds

\* Opening a document names it in the table and in its first entry.
LEMMA CoreSaneOpen ==
    ASSUME CoreSane, Open
    PROVE  CoreSane'
<1> DEFINE h == Fresh(DOMAIN objects)
           e == Entry("open", NoCMap, 0, <<nextOid>>, h, process, "done")
<1>1. /\ phase = "idle" /\ pending = NoRequest /\ calls' = calls + 1
      /\ ~ Handles \subseteq DOMAIN objects
      /\ objects' = With(objects, h, Document(h, <<Opening>>))
      /\ oids' = With(oids, h, nextOid)
      /\ flags' = With(KeptFlags, h, [NoFlags EXCEPT !.unrecorded = Complete])
      /\ history' = IF Complete THEN <<>> ELSE Append(history, e)
      /\ nextOid' = nextOid + 1
      /\ UNCHANGED <<process, cmapState, callState, pending>>
  BY DEF Open, NewCall
<1>2. CoreTypes /\ AtRest  BY <1>1 DEF CoreSane
<1>3. h \in Handles \ DOMAIN objects  BY <1>1, FreshIsFree
<1>4. h \in Nat \ {0}  BY <1>3, OperationsAssumption
<1> DEFINE o == Document(h, <<Opening>>)
<1>5. o \in TableObjects /\ o.kind = "document" /\ o.doc = h /\ o.value = 1
  BY <1>4, OpenObject
<1> HIDE DEF o, h
<1>6. /\ Table(objects')
      /\ DocumentsOf(objects') = DocumentsOf(objects) \cup {h}
  BY <1>1, <1>2, <1>3, <1>5, TableWith DEF CoreTypes, o
<1>7. /\ DOMAIN objects' = DOMAIN objects \cup {h} /\ objects'[h] = o
      /\ \A k \in DOMAIN objects : objects'[k] = objects[k]
  <2>1. objects' = With(objects, h, o)  BY <1>1 DEF o
  <2> QED  BY <1>3, <2>1 DEF With
<1>8. Named(objects', oids', nextOid')
  BY <1>1, <1>2, <1>3, <1>7, NamedWith DEF CoreTypes
<1>9. /\ DOMAIN oids = DOMAIN objects /\ DOMAIN oids' = DOMAIN objects'
      /\ oids'[h] = nextOid /\ \A k \in DOMAIN oids : oids'[k] = oids[k]
      /\ nextOid \in Nat \ {0} /\ \A k \in DOMAIN oids : oids[k] \in Nat \ {0} /\ oids[k] < nextOid
  <2>1. Named(objects, oids, nextOid)  BY <1>2 DEF CoreTypes
  <2>2. DOMAIN oids = DOMAIN objects /\ nextOid \in Nat \ {0}
    BY <2>1 DEF Named
  <2>3. \A k \in DOMAIN oids : oids[k] \in Nat \ {0} /\ oids[k] < nextOid
    BY <2>1 DEF Named
  <2>4. DOMAIN oids' = DOMAIN oids \cup {h} /\ oids'[h] = nextOid
    BY <1>1 DEF With
  <2>5. \A k \in DOMAIN oids : oids'[k] = oids[k]  BY <1>1, <1>3, <2>2 DEF With
  <2> QED  BY <1>7, <2>2, <2>3, <2>4, <2>5
<1>10. Continues(objects, oids, nextOid, objects', oids')
  BY <1>7, <1>9 DEF Continues
<1>11. flags' \in [DocumentsOf(objects') -> Flags]
  <2> DEFINE f == [NoFlags EXCEPT !.unrecorded = Complete]
  <2>1. Complete \in BOOLEAN  BY DEF Complete
  <2>2. f \in Flags  BY <2>1 DEF NoFlags, Flags
  <2>3. KeptFlags \in [DocumentsOf(objects) -> Flags]  BY <1>2, KeptFacts
  <2> HIDE DEF f
  <2>4. flags' = [z \in DocumentsOf(objects) \cup {h} |-> IF z = h THEN f ELSE KeptFlags[z]]
    BY <1>1, <2>3 DEF With, f
  <2> QED  BY <1>6, <2>2, <2>3, <2>4
<1>12. e \in HistoryEntries
  <2>1. <<nextOid>> \in Seq(Nat \ {0})  BY <1>9
  <2>2. process \in Process /\ calls \in Nat  BY <1>2 DEF CoreTypes
  <2> QED  BY <1>4, <2>1, <2>2 DEF Entry, HistoryEntries, Ops, MaybeCMap, Endings
<1>13. EntryNamed(e, objects', oids', nextOid')
  <2>1. e.doc = h /\ e.target = 0 /\ e.op = "open" /\ e.created = <<nextOid>>
    BY DEF Entry
  <2>2. h \in DocumentsOf(objects')  BY <1>6
  <2>3. \A k \in DOMAIN oids' : oids'[k] # 0 /\ (oids'[k] = nextOid => k = h)
    BY <1>7, <1>9
  <2>4. objects'[h].doc = h /\ objects'[h].kind = KindMade("open")
    BY <1>5, <1>7 DEF KindMade
  <2> HIDE DEF e
  <2> QED  BY <1>1, <1>9, <2>1, <2>2, <2>3, <2>4 DEF EntryNamed
<1>14. \A i \in DOMAIN history : EntryNamed(history[i], objects', oids', nextOid')
  <2> SUFFICES ASSUME NEW i \in DOMAIN history
               PROVE  EntryNamed(history[i], objects', oids', nextOid')
    OBVIOUS
  <2>1. history[i] \in HistoryEntries /\ EntryNamed(history[i], objects, oids, nextOid)
    BY <1>2 DEF CoreTypes
  <2>2. history[i].doc \in DOMAIN objects  BY <2>1 DEF EntryNamed, DocumentsOf
  <2>3. history[i].doc \in DOMAIN objects' /\ oids'[history[i].doc] \in Nat
        /\ oids'[history[i].doc] < nextOid
    BY <1>7, <1>9, <2>2
  <2>4. nextOid \in Nat /\ nextOid' \in Nat /\ nextOid <= nextOid'  BY <1>1, <1>9
  <2>5. \A k \in DOMAIN oids' : oids'[k] \in Nat  BY <1>7, <1>9
  <2> QED  BY <1>10, <2>1, <2>3, <2>4, <2>5, EntryNamedKept
<1> HIDE DEF e
<1>15. /\ history' \in Seq(HistoryEntries)
       /\ \A i \in DOMAIN history' : history'[i] = e \/ \E k \in DOMAIN history : history'[i] = history[k]
  <2>1. history \in Seq(HistoryEntries)  BY <1>2 DEF CoreTypes
  <2>2. CASE Complete  BY <1>1, <2>2
  <2>3. CASE ~Complete  BY <1>1, <1>12, <2>1, <2>3
  <2> QED  BY <2>2, <2>3
<1>16. /\ process' = process /\ loaded' = loaded /\ phase' = "idle" /\ pending' = NoRequest
       /\ todo' = todo /\ replay' = replay /\ failed' = failed /\ ghosts' = ghosts
  BY <1>1 DEF cmapState, callState
<1>17. CoreTypes'
  BY <1>1, <1>2, <1>6, <1>8, <1>11, <1>13, <1>14, <1>15, <1>16 DEF CoreTypes
<1>18. AtRest'
  <2>1. DOMAIN pending'.request = {}  BY <1>16 DEF NoRequest
  <2>2. \A i \in DOMAIN history' : history'[i].call <= calls'
    <3>1. e.call = calls /\ calls \in Nat /\ calls' = calls + 1
      BY <1>1, <1>2 DEF e, Entry, CoreTypes
    <3>2. \A i \in DOMAIN history : history[i].call <= calls /\ history[i].call \in Nat
      <4>1. history \in Seq(HistoryEntries)  BY <1>2 DEF CoreTypes
      <4>2. \A i \in DOMAIN history : history[i] \in HistoryEntries  BY <4>1
      <4> QED  BY <1>2, <4>2 DEF AtRest, HistoryEntries
    <3> QED  BY <1>15, <3>1, <3>2
  <2> QED  BY <1>2, <1>16, <2>1, <2>2 DEF AtRest
<1> QED  BY <1>16, <1>17, <1>18 DEF CoreSane

\* Freeing a document takes its entries with it; freeing a derived page leaves entries that
\* name an identity nothing has, and nothing will have again.
LEMMA CoreSaneFree ==
    ASSUME CoreSane, NEW h \in Handles, Free(h)
    PROVE  CoreSane'
<1> DEFINE gone == FreedWith(objects, h)
<1>1. /\ phase = "idle" /\ pending = NoRequest /\ calls' = calls + 1
      /\ h \in DOMAIN objects
      /\ objects[h].kind # "page"
      /\ objects' = Without(objects, gone)
      /\ oids' = Without(oids, gone)
      /\ flags' = Without(KeptFlags, gone)
      /\ history' = HistoryWithout(h)
      /\ UNCHANGED <<nextOid, process, cmapState, callState, pending>>
  BY DEF Free, NewCall
<1>2. CoreTypes /\ AtRest  BY <1>1 DEF CoreSane
<1>3. Table(objects) /\ Named(objects, oids, nextOid)  BY <1>2 DEF CoreTypes
<1>4. \A k \in DOMAIN objects \ gone : objects[k].doc \notin gone
  BY <1>1, <1>3 DEF Table, FreedWith
<1>5. \A d \in DocumentsOf(objects) : d \in gone => d = h
  BY <1>1, <1>3 DEF Table, FreedWith, DocumentsOf
<1> HIDE DEF gone
<1>6. Table(objects') /\ DocumentsOf(objects') = DocumentsOf(objects) \ gone
  BY <1>1, <1>3, <1>4, TableWithout
<1>7. DOMAIN objects' = DOMAIN objects \ gone /\ \A k \in DOMAIN objects' : objects'[k] = objects[k]
  BY <1>1 DEF Without
<1>8. Named(objects', oids', nextOid')  BY <1>1, <1>3, <1>7, NamedWithout
<1>9. /\ DOMAIN oids = DOMAIN objects /\ DOMAIN oids' = DOMAIN objects'
      /\ \A k \in DOMAIN oids' : oids'[k] = oids[k]
      /\ nextOid \in Nat \ {0} /\ \A k \in DOMAIN oids : oids[k] \in Nat \ {0} /\ oids[k] < nextOid
  <2>1. DOMAIN oids = DOMAIN objects /\ nextOid \in Nat \ {0}
    BY <1>3 DEF Named
  <2>2. \A k \in DOMAIN oids : oids[k] \in Nat \ {0} /\ oids[k] < nextOid
    BY <1>3 DEF Named
  <2>3. DOMAIN oids' = DOMAIN oids \ gone /\ \A k \in DOMAIN oids' : oids'[k] = oids[k]
    BY <1>1 DEF Without
  <2> QED  BY <1>7, <2>1, <2>2, <2>3
<1>10. Continues(objects, oids, nextOid, objects', oids')
  BY <1>7, <1>9 DEF Continues
<1>11. flags' \in [DocumentsOf(objects') -> Flags]
  <2>1. KeptFlags \in [DocumentsOf(objects) -> Flags]  BY <1>2, KeptFacts
  <2>2. flags' = [z \in DocumentsOf(objects) \ gone |-> KeptFlags[z]]
    BY <1>1, <2>1 DEF Without
  <2> QED  BY <1>6, <2>1, <2>2
<1>12. /\ history' \in Seq(HistoryEntries)
       /\ \A i \in DOMAIN history' :
            \E k \in DOMAIN history : history'[i] = history[k] /\ history[k].doc # h
  <2> DEFINE S == DOMAIN KeptHistory \ Of(KeptHistory, h)
  <2>1. KeptHistory \in Seq(HistoryEntries)  BY <1>2, KeptFacts
  <2>2. history' = Selected(KeptHistory, S)  BY <1>1 DEF HistoryWithout
  <2>3. \A i \in S : i \in DOMAIN history /\ KeptHistory[i] = history[i] /\ history[i].doc # h
    BY <1>2, KeptFacts DEF Of
  <2> HIDE DEF S
  <2>4. /\ Selected(KeptHistory, S) \in Seq(HistoryEntries)
        /\ \A k \in DOMAIN Selected(KeptHistory, S) :
             \E i \in DOMAIN KeptHistory : i \in S /\ Selected(KeptHistory, S)[k] = KeptHistory[i]
    BY <2>1, SelectedType
  <2> QED  BY <2>2, <2>3, <2>4
<1>13. \A i \in DOMAIN history' : EntryNamed(history'[i], objects', oids', nextOid')
  <2> SUFFICES ASSUME NEW i \in DOMAIN history'
               PROVE  EntryNamed(history'[i], objects', oids', nextOid')
    OBVIOUS
  <2>1. PICK k \in DOMAIN history : history'[i] = history[k] /\ history[k].doc # h
    BY <1>12
  <2>2. history[k] \in HistoryEntries /\ EntryNamed(history[k], objects, oids, nextOid)
    BY <1>2 DEF CoreTypes
  <2>3. history[k].doc \in DocumentsOf(objects)  BY <2>2 DEF EntryNamed
  <2>4. history[k].doc \in DOMAIN objects'
    BY <1>5, <1>7, <2>1, <2>3 DEF DocumentsOf
  <2>5. oids'[history[k].doc] \in Nat /\ oids'[history[k].doc] < nextOid
    BY <1>7, <1>9, <2>4
  <2>6. nextOid \in Nat /\ nextOid' \in Nat /\ nextOid <= nextOid'  BY <1>1, <1>9
  <2>7. \A m \in DOMAIN oids' : oids'[m] \in Nat  BY <1>7, <1>9
  <2>8. EntryNamed(history[k], objects', oids', nextOid')
    BY <1>10, <2>2, <2>4, <2>5, <2>6, <2>7, EntryNamedKept
  <2> QED  BY <2>1, <2>8
<1>14. /\ process' = process /\ loaded' = loaded /\ phase' = "idle" /\ pending' = NoRequest
       /\ todo' = todo /\ replay' = replay /\ failed' = failed /\ ghosts' = ghosts
  BY <1>1 DEF cmapState, callState
<1>15. CoreTypes'
  BY <1>1, <1>2, <1>6, <1>8, <1>11, <1>12, <1>13, <1>14 DEF CoreTypes
<1>16. AtRest'
  <2>1. DOMAIN pending'.request = {}  BY <1>14 DEF NoRequest
  <2>2. \A i \in DOMAIN history' : history'[i].call <= calls'
    <3>1. calls \in Nat /\ calls' = calls + 1
      BY <1>1, <1>2 DEF CoreTypes
    <3>2. \A i \in DOMAIN history : history[i].call <= calls /\ history[i].call \in Nat
      <4>1. history \in Seq(HistoryEntries)  BY <1>2 DEF CoreTypes
      <4>2. \A i \in DOMAIN history : history[i] \in HistoryEntries  BY <4>1
      <4> QED  BY <1>2, <4>2 DEF AtRest, HistoryEntries
    <3> QED  BY <1>12, <3>1, <3>2
  <2> QED  BY <1>2, <1>14, <2>1, <2>2 DEF AtRest
<1> QED  BY <1>14, <1>15, <1>16 DEF CoreSane

\* The calls JavaScript can make are requests its objects allow.
LEMMA RequestsAllowed ==
    ASSUME NEW os, Table(os), NEW rs \in RequestsOn(os)
    PROVE  /\ rs \in Seq(Requests)
           /\ \A i \in DOMAIN rs : Allowed(rs[i], os)
           /\ rs # <<>>
<1>9. PICK s \in Scripts : \E on \in [DOMAIN s -> DOMAIN os] :
        /\ rs = [i \in DOMAIN s |-> Request(s[i].op, on[i], s[i].cmap)]
        /\ \A i \in DOMAIN s :
             s[i].op \in IF os[on[i]].kind = "document" THEN DocumentOps ELSE PageOps
  BY DEF RequestsOn
<1>1. PICK on \in [DOMAIN s -> DOMAIN os] :
        /\ rs = [i \in DOMAIN s |-> Request(s[i].op, on[i], s[i].cmap)]
        /\ \A i \in DOMAIN s :
             s[i].op \in IF os[on[i]].kind = "document" THEN DocumentOps ELSE PageOps
  BY <1>9
<1>2. s \in Seq([op : DocumentOps \cup PageOps, cmap : CMaps \cup {NoCMap}]) /\ s # <<>>
  BY OperationsAssumption
<1>3. \A i \in DOMAIN s : on[i] \in Nat
  BY OperationsAssumption DEF Table
<1>4. \A i \in DOMAIN s :
        Request(s[i].op, on[i], s[i].cmap) \in Requests
        /\ Allowed(Request(s[i].op, on[i], s[i].cmap), os)
  <2> SUFFICES ASSUME NEW i \in DOMAIN s
               PROVE  Request(s[i].op, on[i], s[i].cmap) \in Requests
                      /\ Allowed(Request(s[i].op, on[i], s[i].cmap), os)
    OBVIOUS
  <2>1. s[i] \in [op : DocumentOps \cup PageOps, cmap : CMaps \cup {NoCMap}]
    <3> DEFINE R == [op : DocumentOps \cup PageOps, cmap : CMaps \cup {NoCMap}]
    <3>1. s \in Seq(R)  BY <1>2
    <3> HIDE DEF R
    <3>2. s[i] \in R  BY <3>1
    <3> QED  BY <3>2 DEF R
  <2>2. on[i] \in DOMAIN os /\ on[i] \in Nat  BY <1>3
  <2> QED  BY <1>1, <2>1, <2>2 DEF Request, Requests, MaybeCMap, Allowed
<1>5. DOMAIN s = 1 .. Len(s) /\ Len(s) \in Nat /\ Len(s) # 0  BY <1>2
<1>6. rs \in Seq(Requests)  BY <1>1, <1>4, <1>5
<1>7. DOMAIN rs = DOMAIN s /\ \A i \in DOMAIN s : rs[i] = Request(s[i].op, on[i], s[i].cmap)
  BY <1>1
<1> QED  BY <1>4, <1>5, <1>6, <1>7

\* The history of an idle core, or less of it, its flags or others of their kind.
LEMMA CoreSaneKept ==
    ASSUME CoreSane, phase = "idle", phase' = "idle",
           UNCHANGED <<objects, oids, nextOid, process, callState, calls>>,
           pending' = pending \/ pending' = NoRequest,
           history' = history \/ history' = KeptHistory,
           flags' = flags \/ flags' = KeptFlags,
           loaded' \subseteq CMaps
    PROVE  CoreSane'
<1>1. CoreTypes /\ AtRest  BY DEF CoreSane
<1>2. history' \in Seq(HistoryEntries)
      /\ \A i \in DOMAIN history' : i \in DOMAIN history /\ history'[i] = history[i]
  <2>1. history \in Seq(HistoryEntries)  BY <1>1 DEF CoreTypes
  <2> QED  BY <1>1, <2>1, KeptFacts
<1>3. flags' \in [DocumentsOf(objects) -> Flags]
  BY <1>1, KeptFacts DEF CoreTypes
<1>4. pending'.request \in Seq(Requests)
      /\ \A i \in DOMAIN pending'.request : Allowed(pending'.request[i], objects)
      /\ (pending = NoRequest => pending' = NoRequest)
  <2>1. pending.request \in Seq(Requests)
        /\ \A i \in DOMAIN pending.request : Allowed(pending.request[i], objects)
    BY <1>1 DEF CoreTypes, AtRest
  <2>2. NoRequest.request \in Seq(Requests) /\ DOMAIN NoRequest.request = {}
    BY DEF NoRequest
  <2> QED  BY <2>1, <2>2
<1>5. CoreTypes'  BY <1>1, <1>2, <1>3, <1>4 DEF CoreTypes
<1>6. \A i \in DOMAIN history' :
        history'[i].call <= calls' /\ (history'[i].call = calls' => pending' = NoRequest)
  BY <1>1, <1>2, <1>4 DEF AtRest
<1>7. AtRest'  BY <1>1, <1>4, <1>6 DEF AtRest, callState
<1> QED  BY <1>5, <1>7 DEF CoreSane

\* Handing CMaps over, or giving a call up, names nothing.
LEMMA CoreSaneCMaps ==
    ASSUME CoreSane,
           (\E c \in CMaps : AddCMap(c)) \/ (\E got \in SUBSET CMaps : HandOver(got)) \/ Abandon
    PROVE  CoreSane'
<1>1. phase = "idle" /\ phase' = "idle" /\ UNCHANGED callState
  BY DEF AddCMap, HandOver, Abandon, callState
<1>2. UNCHANGED <<objects, oids, nextOid, process, calls>>
  BY DEF AddCMap, HandOver, Abandon, documents
<1>3. loaded \subseteq CMaps  BY <1>1 DEF CoreSane, CoreTypes
<1>4. loaded' \subseteq CMaps
  BY <1>3 DEF AddCMap, HandOver, Abandon, cmapState
<1>5. (history' = history \/ history' = KeptHistory) /\ (flags' = flags \/ flags' = KeptFlags)
  BY DEF AddCMap, HandOver, Abandon, documents
<1>6. pending' = pending \/ pending' = NoRequest
  BY DEF AddCMap, HandOver, Abandon, js
<1> QED  BY <1>1, <1>2, <1>4, <1>5, <1>6, CoreSaneKept

\* A call starts with requests its objects allow, and what it found is kept.
LEMMA CoreSaneBegin ==
    ASSUME CoreSane, NEW rs \in Seq(Requests), \A i \in DOMAIN rs : Allowed(rs[i], objects),
           Begin(rs), \/ pending = NoRequest /\ calls' = calls + 1
                      \/ pending # NoRequest /\ calls' = calls
    PROVE  CoreSane'
<1>1. /\ phase = "idle" /\ phase' = "running" /\ todo' = rs
      /\ running' = Start(rs, objects, process)
      /\ history' = KeptHistory
      /\ flags' = KeptFlags
      /\ before' = [oids |-> oids, history |-> KeptHistory]
      /\ objects' = objects /\ oids' = oids /\ nextOid' = nextOid /\ process' = process
      /\ loaded' = loaded /\ replay' = replay /\ failed' = failed /\ ghosts' = ghosts
      /\ pending' = pending
  BY DEF Begin, cmapState, js
<1>2. CoreTypes /\ AtRest  BY <1>1 DEF CoreSane
<1>3. /\ KeptHistory \in Seq(HistoryEntries)
      /\ \A i \in DOMAIN KeptHistory : i \in DOMAIN history /\ KeptHistory[i] = history[i]
      /\ KeptFlags \in [DocumentsOf(objects) -> Flags]
      /\ DOMAIN flags = DocumentsOf(objects)
  BY <1>2, KeptFacts DEF CoreTypes
<1>4. calls' \in Nat  BY <1>2 DEF CoreTypes
<1>5. CoreTypes'  BY <1>1, <1>2, <1>3, <1>4 DEF CoreTypes
<1>6. /\ running'.request = rs /\ running'.objects = objects /\ running'.process = process
      /\ running'.created = <<>> /\ running'.touched = {} /\ running'.missed = {}
      /\ running'.outcome = "done" /\ running'.page = 0
  BY <1>1 DEF Start
<1>7. running' \in RunFields(running')
  <2>1. process \in Process  BY <1>2 DEF CoreTypes
  <2>2. <<>> \in Seq(Handles) /\ 0 \in Nat  OBVIOUS
  <2>3. "done" \in Outcomes  BY DEF Outcomes, Endings
  <2> HIDE DEF Outcomes
  <2> QED  BY <1>1, <1>6, <2>1, <2>2, <2>3 DEF RunFields, Start
<1>8. \A i \in DOMAIN KeptHistory : KeptHistory[i].call < calls'
  <2>1. calls \in Nat  BY <1>2 DEF CoreTypes
  <2>2. history \in Seq(HistoryEntries)  BY <1>2 DEF CoreTypes
  <2>3. \A i \in DOMAIN history : history[i] \in HistoryEntries  BY <2>2
  <2>4. \A i \in DOMAIN history : history[i].call \in Nat  BY <2>3 DEF HistoryEntries
  <2> QED  BY <1>2, <1>3, <2>1, <2>4 DEF AtRest
<1>9. DOMAIN oids = DOMAIN objects /\ oids = [h \in DOMAIN objects |-> oids[h]]
      /\ Table(objects)
  BY <1>2 DEF CoreTypes, Named
<1>10. before'.oids = oids /\ before'.history = KeptHistory  BY <1>1
<1>11. InCall'
  <2>1. Table(running'.objects)  BY <1>6, <1>9
  <2>2. before' = [oids |-> before'.oids, history |-> before'.history]  BY <1>1
  <2>3. before'.oids = [h \in DOMAIN running'.objects |-> oids'[h]]
    BY <1>1, <1>6, <1>9, <1>10
  <2>4. before'.history \in Seq(HistoryEntries)
        /\ \A i \in DOMAIN before'.history : before'.history[i].call < calls'
    BY <1>3, <1>8, <1>10
  <2>5. running'.touched \subseteq DocumentsOf(running'.objects) \ Broken'  BY <1>6
  <2>6. \A i \in DOMAIN running'.request : Allowed(running'.request[i], running'.objects)
    BY <1>6
  <2>7. /\ DocumentsOf(objects') = DocumentsOf(running'.objects)
        /\ DOMAIN running'.objects \subseteq DOMAIN objects'
        /\ \A h \in DOMAIN running'.objects :
             /\ objects'[h].kind = running'.objects[h].kind
             /\ objects'[h].doc = running'.objects[h].doc
             /\ running'.objects[h].doc \notin running'.touched =>
                  objects'[h] = running'.objects[h]
    BY <1>1, <1>6
  <2> QED  BY <1>7, <2>1, <2>2, <2>3, <2>4, <2>5, <2>6, <2>7 DEF InCall
<1>12. InRun'
  <2>1. Made' = {}  BY <1>6 DEF Made
  <2>2. DOMAIN objects' = DOMAIN running'.objects \cup Made'
        /\ Made' \cap DOMAIN running'.objects = {}
    BY <1>1, <1>6, <2>1
  <2>3. \A h \in DOMAIN running'.objects :
          objects'[h].kind # "document" => objects'[h] = running'.objects[h]
    BY <1>1, <1>6
  <2>4. history' = before'.history /\ Len(history') \in Nat
        /\ \A i \in DOMAIN history' : i <= Len(history')
    BY <1>1, <1>3, <1>10
  <2>5. Len(before'.history) <= Len(history')  BY <2>4
  <2>6. \A i \in DOMAIN history' :
          IF i <= Len(before'.history) THEN history'[i] = before'.history[i]
          ELSE history'[i].call = calls' /\ history'[i].doc \in running'.touched
    BY <2>4
  <2>7. todo' \in Seq(Requests) /\ \A i \in DOMAIN todo' : Allowed(todo'[i], objects')
    BY <1>1
  <2>8. replay' = <<>> /\ failed' = FALSE /\ ghosts' = <<>>
    BY <1>1, <1>2 DEF AtRest
  <2> QED  BY <1>11, <2>2, <2>3, <2>5, <2>6, <2>7, <2>8 DEF InRun
<1> QED  BY <1>1, <1>5, <1>12 DEF CoreSane

\* ... a new one, or one made again after a void one.
LEMMA CoreSaneCall ==
    ASSUME CoreSane, (\E rs \in RequestsOn(objects) : Call(rs)) \/ CallAgain
    PROVE  CoreSane'
<1>1. CASE \E rs \in RequestsOn(objects) : Call(rs)
  <2>1. PICK rs \in RequestsOn(objects) : Call(rs)  BY <1>1
  <2>2. Begin(rs) /\ pending = NoRequest /\ calls' = calls + 1
    BY <2>1 DEF Call, NewCall
  <2>3. Table(objects)  BY DEF CoreSane, CoreTypes
  <2>4. rs \in Seq(Requests) /\ \A i \in DOMAIN rs : Allowed(rs[i], objects)
    BY <2>3, RequestsAllowed
  <2> QED  BY <2>2, <2>4, CoreSaneBegin
<1>2. CASE CallAgain
  <2>1. Begin(pending.request) /\ pending # NoRequest /\ calls' = calls
    BY <1>2 DEF CallAgain
  <2>2. phase = "idle"  BY <2>1 DEF Begin
  <2>3. pending.request \in Seq(Requests)
        /\ \A i \in DOMAIN pending.request : Allowed(pending.request[i], objects)
    BY <2>2 DEF CoreSane, CoreTypes, AtRest
  <2> QED  BY <2>1, <2>3, CoreSaneBegin
<1> QED  BY <1>1, <1>2

\* What the request that RunOp runs is of, and does.
LEMMA OpFacts ==
    ASSUME CoreTypes, InRun, todo # <<>>
    PROVE  /\ Op \in Requests /\ Allowed(Op, objects)
           /\ Op.on \in DOMAIN objects /\ OpDoc \in DocumentsOf(objects) /\ OpDoc \in DOMAIN objects
           /\ Op.op \in Ops /\ Op.op \in DocumentOps \cup PageOps /\ Op.op # "open"
           /\ Op.cmap \in MaybeCMap
           /\ objects[OpDoc].log \in Seq(Events) /\ objects[Op.on].value \in Nat
           /\ OpEffect.event \in Events /\ OpEffect.process \in Process
           /\ OpEffect.missed \in SUBSET CMaps /\ OpEffect.event.outcome \in Endings
           /\ OpEffect.event.op = Op.op /\ OpEffect.event.on = objects[Op.on].value
           /\ OpEffect.event.cmap = Op.cmap
           /\ OpLog \in Seq(Events) /\ OpLog # <<>>
           /\ Len(OpLog) = Len(objects[OpDoc].log) + 1
           /\ OpLog[Len(OpLog)] = OpEffect.event
           /\ Op.op \in {"pages", "annots"} =>
                objects[Op.on].value = 1 /\ OpDoc = Op.on
           /\ PageAnswered(OpLog) \in 0 .. Len(OpLog)
           /\ Tail(todo) \in Seq(Requests) /\ \A i \in DOMAIN Tail(todo) : Allowed(Tail(todo)[i], objects)
<1>1. Table(objects) /\ todo \in Seq(Requests) /\ \A i \in DOMAIN todo : Allowed(todo[i], objects)
  BY DEF CoreTypes, InRun
<1>2. Op = todo[1] /\ 1 \in DOMAIN todo  BY <1>1 DEF Op
<1>3. Op \in Requests /\ Allowed(Op, objects)  BY <1>1, <1>2
<1>4. /\ Op.on \in DOMAIN objects
      /\ Op.op \in Ops /\ Op.op \in DocumentOps \cup PageOps /\ Op.op # "open"
      /\ Op.cmap \in MaybeCMap
      /\ Op.op \in {"pages", "annots", "close"} => objects[Op.on].kind = "document"
      /\ objects[Op.on].kind = "document" =>
           objects[Op.on].doc = Op.on /\ objects[Op.on].value = 1
  BY <1>1, <1>3, AllowedGives
<1>5. OpDoc \in DocumentsOf(objects) /\ OpDoc \in DOMAIN objects /\ objects[Op.on].value \in Nat
  BY <1>1, <1>4, TableGives DEF OpDoc
<1>6. objects[OpDoc].log \in Seq(Events)  BY <1>1, <1>5, TableGives
<1>7. process \in Process /\ loaded \in SUBSET CMaps  BY DEF CoreTypes
<1>8. /\ OpEffect.event \in Events /\ OpEffect.process \in Process
      /\ OpEffect.missed \in SUBSET CMaps /\ OpEffect.event.outcome \in Endings
      /\ OpEffect.event.op = Op.op /\ OpEffect.event.on = objects[Op.on].value
      /\ OpEffect.event.cmap = Op.cmap
  <2> DEFINE v == objects[Op.on].value  l == objects[OpDoc].log
  <2> HIDE DEF v, l
  <2>1. OpEffect = Effect(Op.op, Op.cmap, v, l, process, loaded)
    BY DEF OpEffect, v, l
  <2>2. v \in Nat /\ l \in Seq(Events)  BY <1>5, <1>6 DEF v, l
  <2> QED  BY <1>4, <1>7, <2>1, <2>2, EffectType DEF v
<1>9. /\ OpLog \in Seq(Events) /\ OpLog # <<>>
      /\ Len(OpLog) = Len(objects[OpDoc].log) + 1
      /\ OpLog[Len(OpLog)] = OpEffect.event
  <2> DEFINE l == objects[OpDoc].log  v == OpEffect.event
  <2>1. OpLog = Append(l, v)  BY DEF OpLog
  <2>2. l \in Seq(Events) /\ v \in Events  BY <1>6, <1>8
  <2> HIDE DEF l, v
  <2>3. Append(l, v) \in Seq(Events) /\ Append(l, v) # <<>> /\ Len(Append(l, v)) = Len(l) + 1
        /\ Append(l, v)[Len(l) + 1] = v
    BY <2>2
  <2> QED  BY <2>1, <2>3 DEF l, v
<1>10. Op.op \in {"pages", "annots"} => objects[Op.on].value = 1 /\ OpDoc = Op.on
  BY <1>4 DEF OpDoc
<1>11. PageAnswered(OpLog) \in 0 .. Len(OpLog)
  <2>1. OpLog[Len(OpLog)].op \in {"pages", "annots"} => OpLog[Len(OpLog)].on = 1
    BY <1>8, <1>9, <1>10
  <2> HIDE DEF Events
  <2> QED  BY <1>9, <2>1, PageAnsweredIs
<1>12. Tail(todo) \in Seq(Requests)
       /\ \A i \in DOMAIN Tail(todo) : Allowed(Tail(todo)[i], objects)
  <2>1. Tail(todo) \in Seq(Requests)  BY <1>1
  <2>2. \A i \in DOMAIN Tail(todo) : Tail(todo)[i] = todo[i + 1] /\ i + 1 \in DOMAIN todo
    BY <1>1
  <2> QED  BY <1>1, <2>1, <2>2
<1> QED  BY <1>3, <1>4, <1>5, <1>6, <1>8, <1>9, <1>10, <1>11, <1>12

\* The documents the operation leaves.
LEMMA OpObjectsIs ==
    ASSUME CoreTypes, InRun, todo # <<>>
    PROVE  /\ Table(OpObjects) /\ DocumentsOf(OpObjects) = DocumentsOf(objects)
           /\ DOMAIN OpObjects = DOMAIN objects
           /\ OpObjects[OpDoc].log = OpLog
           /\ \A h \in DOMAIN objects :
                /\ OpObjects[h].kind = objects[h].kind /\ OpObjects[h].doc = objects[h].doc
                /\ OpObjects[h].value = objects[h].value
                /\ h # OpDoc => OpObjects[h] = objects[h]
<1>1. Table(objects) /\ OpDoc \in DOMAIN objects /\ OpLog \in Seq(Events)
      /\ OpDoc \in DocumentsOf(objects)
  BY OpFacts DEF CoreTypes
<1>2. \A h \in DOMAIN objects : objects[h] \in TableObjects  BY <1>1 DEF Table
<1>3. objects[OpDoc] \in TableObjects /\ objects[OpDoc].kind = "document"
  BY <1>1, <1>2 DEF DocumentsOf
<1> DEFINE o == [objects[OpDoc] EXCEPT !.log = OpLog]
<1>4. o \in TableObjects /\ o.kind = objects[OpDoc].kind /\ o.doc = objects[OpDoc].doc
      /\ o.value = objects[OpDoc].value /\ o.log = OpLog
  <2> HIDE DEF Events
  <2> QED  BY <1>1, <1>3 DEF TableObjects
<1>5. OpObjects = [objects EXCEPT ![OpDoc] = o]  BY DEF OpObjects
<1> HIDE DEF o
<1>6. /\ DOMAIN OpObjects = DOMAIN objects /\ OpObjects[OpDoc] = o
      /\ \A h \in DOMAIN objects : h # OpDoc => OpObjects[h] = objects[h]
  BY <1>1, <1>5
<1>7. objects \in [DOMAIN objects -> TableObjects]  BY <1>1 DEF Table
<1>8. OpObjects \in [DOMAIN objects -> TableObjects]  BY <1>4, <1>5, <1>7
<1>9. \A h \in DOMAIN objects :
             /\ OpObjects[h].kind = objects[h].kind /\ OpObjects[h].doc = objects[h].doc
             /\ OpObjects[h].value = objects[h].value
             /\ objects[h].kind = "document" => OpObjects[h].value = 1
             /\ objects[h].kind # "document" => OpObjects[h].log = <<>>
  BY <1>1, <1>3, <1>4, <1>6 DEF Table
<1>10. Table(OpObjects) /\ DocumentsOf(OpObjects) = DocumentsOf(objects)
  BY <1>1, <1>8, <1>9, TableAlike
<1> QED  BY <1>4, <1>6, <1>9, <1>10

\* The entry the operation leaves.
LEMMA OpEntryIs ==
    ASSUME CoreTypes, InRun, todo # <<>>, NEW created \in Seq(Nat \ {0}),
           NEW outcome \in Endings \cup {"MemoryError"}
    PROVE  LET e == OpEntry(created, outcome) IN
           /\ e \in HistoryEntries
           /\ e.op = Op.op /\ e.cmap = Op.cmap /\ e.target = oids[Op.on] /\ e.created = created
           /\ e.doc = OpDoc /\ e.call = calls /\ e.process = process /\ e.outcome = outcome
<1>1. /\ Op.op \in Ops /\ Op.cmap \in MaybeCMap /\ Op.on \in DOMAIN objects
      /\ OpDoc \in DOMAIN objects
  BY OpFacts
<1>2. process \in Process /\ calls \in Nat /\ oids[Op.on] \in Nat /\ OpDoc \in Nat
  BY <1>1, OperationsAssumption DEF CoreTypes, Named, Table
<1> QED  BY <1>1, <1>2 DEF OpEntry, Entry, HistoryEntries

\* What every operation of the running call keeps of CoreSane.
LEMMA CoreSaneAfterOp ==
    ASSUME CoreTypes, InRun, todo # <<>>, phase = "running",
           UNCHANGED <<cmapState, phase, replay, failed, ghosts, before, js, calls>>,
           Table(objects'), Named(objects', oids', nextOid'),
           DocumentsOf(objects') = DocumentsOf(objects),
           NEW new, DOMAIN objects' = DOMAIN objects \cup new, new \cap DOMAIN objects = {},
           \A h \in DOMAIN objects :
             /\ oids'[h] = oids[h]
             /\ objects'[h].kind = objects[h].kind /\ objects'[h].doc = objects[h].doc
             /\ h # OpDoc => objects'[h] = objects[h],
           \A h \in new : oids'[h] = nextOid,
           nextOid' \in {nextOid, nextOid + 1},
           flags' = flags \/ flags' = [flags EXCEPT ![OpDoc].unrecorded = TRUE],
           process' \in Process,
           running' = RunningAfter(running'.created, running'.touched, running'.missed,
                                   running'.outcome, running'.page),
           running'.created \in Seq(Handles), Made' = Made \cup new,
           running'.missed \in SUBSET CMaps, running'.outcome \in Outcomes,
           running'.page \in Nat,
           \/ running'.touched = running.touched /\ objects' = objects
           \/ running'.touched = running.touched \cup {OpDoc} /\ OpDoc \notin Broken,
           todo' = <<>> \/ todo' = Tail(todo),
           \/ history' = history
           \/ \E e \in HistoryEntries :
                /\ history' = Append(history, e) /\ EntryNamed(e, objects', oids', nextOid')
                /\ e.call = calls /\ e.doc \in running'.touched
    PROVE  CoreSane'
<1>1. /\ Table(objects) /\ Named(objects, oids, nextOid)
      /\ flags \in [DocumentsOf(objects) -> Flags] /\ history \in Seq(HistoryEntries)
      /\ \A i \in DOMAIN history : EntryNamed(history[i], objects, oids, nextOid)
      /\ loaded \subseteq CMaps /\ calls \in Nat /\ pending.request \in Seq(Requests)
  BY DEF CoreTypes
<1>2. /\ loaded' = loaded /\ phase' = "running" /\ calls' = calls /\ pending' = pending
      /\ replay' = replay /\ failed' = failed /\ ghosts' = ghosts /\ before' = before
  BY DEF cmapState, js
<1>3. /\ Op.on \in DOMAIN objects /\ OpDoc \in DocumentsOf(objects) /\ OpDoc \in DOMAIN objects
      /\ Tail(todo) \in Seq(Requests) /\ \A i \in DOMAIN Tail(todo) : Allowed(Tail(todo)[i], objects)
  BY OpFacts
<1>4. flags' \in [DocumentsOf(objects') -> Flags] /\ Broken' = Broken
  <2>1. \A f \in Flags : [f EXCEPT !.unrecorded = TRUE] \in Flags
                       /\ [f EXCEPT !.unrecorded = TRUE].broken = f.broken
    BY DEF Flags
  <2>2. CASE flags' = flags  BY <1>1, <2>2 DEF Broken
  <2>3. CASE flags' = [flags EXCEPT ![OpDoc].unrecorded = TRUE]
    <3>1. flags' \in [DocumentsOf(objects) -> Flags]  BY <1>1, <1>3, <2>1, <2>3
    <3>2. \A d \in DOMAIN flags : flags'[d].broken = flags[d].broken
      BY <1>1, <1>3, <2>1, <2>3
    <3>3. DOMAIN flags' = DOMAIN flags  BY <1>1, <3>1
    <3> QED  BY <3>1, <3>2, <3>3 DEF Broken
  <2> QED  BY <2>2, <2>3
<1>5. Continues(objects, oids, nextOid, objects', oids')
  BY <1>1 DEF Continues, Named
<1>6. \A i \in DOMAIN history : EntryNamed(history[i], objects', oids', nextOid')
  <2> SUFFICES ASSUME NEW i \in DOMAIN history
               PROVE  EntryNamed(history[i], objects', oids', nextOid')
    OBVIOUS
  <2>1. history[i] \in HistoryEntries /\ EntryNamed(history[i], objects, oids, nextOid)
    BY <1>1
  <2>2. history[i].doc \in DOMAIN objects  BY <2>1 DEF EntryNamed, DocumentsOf
  <2>3. nextOid \in Nat /\ oids[history[i].doc] \in Nat /\ oids[history[i].doc] < nextOid
    BY <1>1, <2>2 DEF Named
  <2>4. history[i].doc \in DOMAIN objects' /\ oids'[history[i].doc] \in Nat
        /\ oids'[history[i].doc] < nextOid
    BY <2>2, <2>3
  <2>5. nextOid' \in Nat /\ nextOid <= nextOid'  BY <2>3
  <2>6. \A h \in DOMAIN oids' : oids'[h] \in Nat  BY DEF Named
  <2> QED  BY <1>5, <2>1, <2>3, <2>4, <2>5, <2>6, EntryNamedKept
<1>7. /\ history' \in Seq(HistoryEntries)
      /\ \A i \in DOMAIN history' : EntryNamed(history'[i], objects', oids', nextOid')
      /\ Len(history) <= Len(history')
      /\ \A i \in DOMAIN history' :
           IF i <= Len(history) THEN history'[i] = history[i]
           ELSE history'[i].call = calls /\ history'[i].doc \in running'.touched
  <2>1. CASE history' = history  BY <1>1, <1>6, <2>1
  <2>2. CASE \E e \in HistoryEntries :
                /\ history' = Append(history, e) /\ EntryNamed(e, objects', oids', nextOid')
                /\ e.call = calls /\ e.doc \in running'.touched
    <3>1. PICK e \in HistoryEntries :
                /\ history' = Append(history, e) /\ EntryNamed(e, objects', oids', nextOid')
                /\ e.call = calls /\ e.doc \in running'.touched
      BY <2>2
    <3>2. /\ history' \in Seq(HistoryEntries) /\ Len(history') = Len(history) + 1
          /\ Len(history) \in Nat
          /\ history'[Len(history) + 1] = e
          /\ \A i \in 1 .. Len(history) : history'[i] = history[i]
      BY <1>1, <3>1
    <3> QED  BY <1>1, <1>6, <3>1, <3>2
  <2> QED  BY <2>1, <2>2
<1>8. CoreTypes'
  BY <1>1, <1>2, <1>4, <1>7 DEF CoreTypes
<1>9. /\ running \in RunFields(running) /\ Table(running.objects)
      /\ before = [oids |-> before.oids, history |-> before.history]
      /\ before.oids = [h \in DOMAIN running.objects |-> oids[h]]
      /\ before.history \in Seq(HistoryEntries)
      /\ \A i \in DOMAIN before.history : before.history[i].call < calls
      /\ running.touched \subseteq DocumentsOf(running.objects) \ Broken
      /\ \A i \in DOMAIN running.request : Allowed(running.request[i], running.objects)
      /\ DocumentsOf(objects) = DocumentsOf(running.objects)
      /\ DOMAIN running.objects \subseteq DOMAIN objects
      /\ \A h \in DOMAIN running.objects :
         /\ objects[h].kind = running.objects[h].kind
         /\ objects[h].doc = running.objects[h].doc
         /\ running.objects[h].doc \notin running.touched => objects[h] = running.objects[h]
  BY DEF InRun, InCall
<1>10. /\ running'.request = running.request /\ running'.objects = running.objects
       /\ running'.process = running.process
  BY DEF RunningAfter
<1>11. running'.touched \in SUBSET Handles
       /\ running'.touched \subseteq DocumentsOf(running'.objects) \ Broken'
       /\ running.touched \subseteq running'.touched
  <2>1. running.touched \in SUBSET Handles  BY <1>9 DEF RunFields
  <2>2. OpDoc \in Handles  BY <1>1, <1>3 DEF Table
  <2> QED  BY <1>3, <1>4, <1>9, <1>10, <2>1, <2>2
<1>12. running' \in RunFields(running')
  <2>1. running.request \in Seq(Requests) /\ running.process \in Process
    BY <1>9 DEF RunFields
  <2> DEFINE c == running'.created  t == running'.touched  m == running'.missed
             e == running'.outcome  g == running'.page  w == running'
  <2>2. w = RunningAfter(c, t, m, e, g)  OBVIOUS
  <2>3. c \in Seq(Handles) /\ t \in SUBSET Handles /\ m \in SUBSET CMaps /\ e \in Outcomes
        /\ g \in Nat /\ w.objects = running.objects
    BY <1>10, <1>11
  <2> HIDE DEF c, t, m, e, g, w
  <2>4. w \in RunFields(w)  BY <2>1, <2>2, <2>3 DEF RunFields, RunningAfter
  <2> QED  BY <2>4 DEF w
<1>13. \A h \in DOMAIN running.objects :
         /\ objects'[h].kind = running.objects[h].kind
         /\ objects'[h].doc = running.objects[h].doc
         /\ running.objects[h].doc \notin running'.touched => objects'[h] = running.objects[h]
         /\ objects'[h].kind # "document" => objects'[h] = running.objects[h]
  <2> SUFFICES ASSUME NEW h \in DOMAIN running.objects
               PROVE  /\ objects'[h].kind = running.objects[h].kind
                      /\ objects'[h].doc = running.objects[h].doc
                      /\ running.objects[h].doc \notin running'.touched =>
                           objects'[h] = running.objects[h]
                      /\ objects'[h].kind # "document" => objects'[h] = running.objects[h]
    OBVIOUS
  <2>1. h \in DOMAIN objects  BY <1>9
  <2>2. objects[h].kind = running.objects[h].kind /\ objects[h].doc = running.objects[h].doc
        /\ (objects[h].kind # "document" => objects[h] = running.objects[h])
    BY <1>9 DEF InRun
  <2>3. objects'[h].kind = objects[h].kind /\ objects'[h].doc = objects[h].doc
        /\ (h # OpDoc => objects'[h] = objects[h])
    BY <2>1
  <2>4. objects'[h].kind # "document" => h # OpDoc  BY <1>3, <2>3 DEF DocumentsOf
  <2>5. ASSUME running.objects[h].doc \notin running'.touched
        PROVE  objects'[h] = running.objects[h]
    <3>1. objects[h] = running.objects[h]  BY <1>9, <1>11, <2>5
    <3>2. CASE objects' = objects  BY <3>1, <3>2
    <3>3. CASE running'.touched = running.touched \cup {OpDoc}
      <4>1. running.objects[h].doc # OpDoc  BY <2>5, <3>3
      <4>2. h # OpDoc
        BY <1>1, <1>3, <2>1, <2>2, <4>1 DEF Table, DocumentsOf
      <4> QED  BY <2>3, <3>1, <4>2
    <3> QED  BY <3>2, <3>3
  <2> QED  BY <2>2, <2>3, <2>4, <2>5
<1>14. before.oids = [h \in DOMAIN running.objects |-> oids'[h]]
  <2>1. \A h \in DOMAIN running.objects : oids'[h] = oids[h]  BY <1>9
  <2> QED  BY <1>9, <2>1
<1>15. InCall'
  BY <1>2, <1>9, <1>10, <1>11, <1>12, <1>13, <1>14 DEF InCall
<1>16. DOMAIN objects = DOMAIN running.objects \cup Made /\ Made \cap DOMAIN running.objects = {}
  BY DEF InRun
<1>17. DOMAIN objects' = DOMAIN running'.objects \cup Made'
       /\ Made' \cap DOMAIN running'.objects = {}
  BY <1>9, <1>10, <1>16
<1>18. Len(before'.history) <= Len(history')
       /\ \A i \in DOMAIN history' :
            IF i <= Len(before'.history) THEN history'[i] = before'.history[i]
            ELSE history'[i].call = calls' /\ history'[i].doc \in running'.touched
  <2>1. Len(before.history) <= Len(history) /\ Len(before.history) \in Nat
        /\ \A i \in DOMAIN history :
             IF i <= Len(before.history) THEN history[i] = before.history[i]
             ELSE history[i].call = calls /\ history[i].doc \in running.touched
    BY <1>9 DEF InRun
  <2> DEFINE m == Len(before.history)  n == Len(history)  n2 == Len(history')
  <2>2. /\ n \in Nat /\ n2 \in Nat /\ m \in Nat /\ n <= n2 /\ m <= n
        /\ DOMAIN history = 1 .. n /\ DOMAIN history' = 1 .. n2
    BY <1>1, <1>7, <2>1
  <2>8. \A i \in DOMAIN history' :
           IF i <= n THEN history'[i] = history[i]
           ELSE history'[i].call = calls /\ history'[i].doc \in running'.touched
    BY <1>7
  <2>6. \A i \in 1 .. n :
          IF i <= m THEN history[i] = before.history[i]
          ELSE history[i].call = calls /\ history[i].doc \in running.touched
    BY <2>1, <2>2
  <2> HIDE DEF m, n, n2
  <2>3. \A i \in 1 .. n : history'[i] = history[i]  BY <2>2, <2>8
  <2>5. \A i \in 1 .. n2 : i > n =>
          history'[i].call = calls /\ history'[i].doc \in running'.touched
    BY <2>2, <2>8
  <2>4. m <= n2
        /\ \A i \in 1 .. n2 :
            IF i <= m THEN history'[i] = before.history[i]
            ELSE history'[i].call = calls /\ history'[i].doc \in running'.touched
    <3>1. m <= n2  BY <2>2
    <3>2. ASSUME NEW i \in 1 .. n2
          PROVE  IF i <= m THEN history'[i] = before.history[i]
                 ELSE history'[i].call = calls /\ history'[i].doc \in running'.touched
      <4>1. CASE i <= n
        <5>1. i \in 1 .. n  BY <2>2, <4>1
        <5> QED  BY <1>11, <2>3, <2>6, <5>1
      <4>2. CASE ~ i <= n
        <5>1. i > n /\ ~ i <= m  BY <2>2, <4>2
        <5> QED  BY <2>5, <5>1
      <4> QED  BY <4>1, <4>2
    <3> QED  BY <3>1, <3>2
  <2>7. before' = before /\ calls' = calls  BY <1>2
  <2> QED  BY <2>2, <2>4, <2>7 DEF m, n, n2
<1>19. todo' \in Seq(Requests) /\ \A i \in DOMAIN todo' : Allowed(todo'[i], objects')
  <2>1. \A r : Allowed(r, objects) => Allowed(r, objects')
    BY DEF Allowed
  <2>2. CASE todo' = <<>>  BY <2>2
  <2>3. CASE todo' = Tail(todo)
    <3> DEFINE s == Tail(todo)
    <3>1. s \in Seq(Requests) /\ \A i \in DOMAIN s : Allowed(s[i], objects)  BY <1>3
    <3>2. todo' = s  BY <2>3
    <3> HIDE DEF s
    <3> QED  BY <2>1, <3>1, <3>2
  <2> QED  BY <2>2, <2>3
<1>20. InRun'
  <2>1. replay' = <<>> /\ failed' = FALSE /\ ghosts' = <<>>
    BY <1>2 DEF InRun
  <2> QED  BY <1>10, <1>13, <1>15, <1>17, <1>18, <1>19, <2>1 DEF InRun
<1> QED  BY <1>2, <1>8, <1>20 DEF CoreSane

\* One operation of a call: the page it makes has a new identity, its entry names its object.
LEMMA CoreSaneRunOp ==
    ASSUME CoreSane, RunOp
    PROVE  CoreSane'
<1>1. phase = "running" /\ todo # <<>>
      /\ UNCHANGED <<cmapState, phase, replay, failed, ghosts, before, js, calls>>
  BY DEF RunOp
<1>2. CoreTypes /\ InRun  BY <1>1 DEF CoreSane
<1>3. /\ Table(objects) /\ Named(objects, oids, nextOid)
      /\ DOMAIN oids = DOMAIN objects /\ nextOid \in Nat \ {0}
      /\ \A h \in DOMAIN oids : oids[h] \in Nat \ {0} /\ oids[h] < nextOid
      /\ process \in Process /\ calls \in Nat
      /\ \A h, k \in DOMAIN oids : oids[h] = oids[k] => h = k
  BY <1>2 DEF CoreTypes, Named
<1>4. /\ running.created \in Seq(Handles) /\ running.missed \in SUBSET CMaps
      /\ running.request \in Seq(Requests)
  BY <1>2 DEF InRun, InCall, RunFields
<1>5. /\ Op.on \in DOMAIN objects /\ OpDoc \in DocumentsOf(objects) /\ OpDoc \in DOMAIN objects
      /\ Op.op \in Ops /\ Op.op # "open" /\ OpDoc \in Nat
      /\ Op.op \in {"pages", "annots"} => OpDoc = Op.on
      /\ PageAnswered(OpLog) \in Nat
      /\ OpEffect.process \in Process /\ OpEffect.missed \in SUBSET CMaps
      /\ OpEffect.event.outcome \in Endings
      /\ objects[Op.on].doc = OpDoc
  <2>1. OpLog \in Seq(Events)  BY <1>1, <1>2, OpFacts
  <2>2. Len(OpLog) \in Nat  BY <2>1
  <2>3. OpDoc \in Nat  BY <1>1, <1>2, <1>3, OpFacts, OperationsAssumption DEF Table
  <2>4. PageAnswered(OpLog) \in 0 .. Len(OpLog)  BY <1>1, <1>2, OpFacts
  <2>5. PageAnswered(OpLog) \in Nat  BY <2>2, <2>4
  <2> QED  BY <1>1, <1>2, <2>3, <2>5, OpFacts DEF OpDoc
<1>6. /\ Table(OpObjects) /\ DocumentsOf(OpObjects) = DocumentsOf(objects)
      /\ DOMAIN OpObjects = DOMAIN objects
      /\ \A h \in DOMAIN objects :
           /\ OpObjects[h].kind = objects[h].kind /\ OpObjects[h].doc = objects[h].doc
           /\ h # OpDoc => OpObjects[h] = objects[h]
  BY <1>1, <1>2, OpObjectsIs
<1>7. Endings \subseteq Outcomes /\ "MemoryError" \in Outcomes /\ "RuntimeError" \in Outcomes
  BY DEF Outcomes
<1>8. ASSUME NEW created \in Seq(Nat \ {0}), NEW outcome \in Endings \cup {"MemoryError"},
             NEW os, NEW ids, NEW next,
             DocumentsOf(os) = DocumentsOf(objects),
             next \in {nextOid, nextOid + 1},
             \A h \in DOMAIN ids : \/ h \in DOMAIN objects /\ ids[h] = oids[h] /\ os[h].doc = objects[h].doc
                                   \/ ids[h] = nextOid /\ next = nextOid + 1
                                      /\ os[h].doc = OpDoc /\ os[h].kind = KindMade(Op.op),
             ids[OpDoc] = oids[OpDoc],
             \/ created = <<>>
             \/ created = <<nextOid>> /\ next = nextOid + 1
      PROVE  EntryNamed(OpEntry(created, outcome), os, ids, next)
  <2> DEFINE e == OpEntry(created, outcome)
  <2>1. e \in HistoryEntries /\ e.op = Op.op /\ e.target = oids[Op.on] /\ e.created = created
        /\ e.doc = OpDoc
    BY <1>1, <1>2, <1>8, OpEntryIs
  <2> HIDE DEF e
  <2>2. e.doc \in DocumentsOf(os)  BY <1>5, <1>8, <2>1
  <2>3. e.target \in Nat /\ e.target < nextOid /\ e.target < next /\ next \in Nat
    BY <1>3, <1>5, <1>8, <2>1
  <2>4. \A h \in DOMAIN ids : ids[h] = e.target => os[h].doc = e.doc
    <3> SUFFICES ASSUME NEW h \in DOMAIN ids, ids[h] = e.target
                 PROVE  os[h].doc = OpDoc
      BY <2>1
    <3>1. h \in DOMAIN objects /\ ids[h] = oids[h] /\ os[h].doc = objects[h].doc
      BY <1>3, <1>8, <2>3
    <3>2. h = Op.on  BY <1>3, <1>5, <2>1, <3>1
    <3> QED  BY <1>5, <3>1, <3>2
  <2>5. e.op \in {"pages", "annots"} => ids[e.doc] = e.target
    BY <1>5, <1>8, <2>1
  <2>6. ASSUME e.created # <<>>
        PROVE  /\ e.created = <<e.created[1]>>
               /\ e.created[1] < next
               /\ \A h \in DOMAIN ids : ids[h] = e.created[1] =>
                    /\ os[h].doc = e.doc
                    /\ os[h].kind = KindMade(e.op)
    <3>1. e.created = <<nextOid>> /\ next = nextOid + 1  BY <1>8, <2>1, <2>6
    <3>2. e.created[1] = nextOid  BY <3>1
    <3>3. \A h \in DOMAIN ids : ids[h] = nextOid => os[h].doc = OpDoc /\ os[h].kind = KindMade(Op.op)
      BY <1>3, <1>8
    <3> QED  BY <1>3, <2>1, <3>1, <3>2, <3>3
  <2> QED  BY <2>2, <2>3, <2>4, <2>5, <2>6 DEF EntryNamed, e
<1>9. ASSUME NEW outcome \in Endings \cup {"MemoryError"}, OpRan, OpMakesNone(outcome)
      PROVE  CoreSane'
  <2>1. /\ objects' = OpObjects /\ oids' = oids /\ nextOid' = nextOid
        /\ running' = RunningAfter(running'.created, running'.touched, running'.missed,
                                   running'.outcome, running'.page)
        /\ running'.created = running.created /\ running'.outcome = outcome
        /\ running'.touched = running.touched \cup {OpDoc}
        /\ running'.missed = running.missed \cup OpEffect.missed
        /\ running'.page = IF outcome = "MemoryError" THEN 0 ELSE PageAnswered(OpLog)
    BY <1>9 DEF OpMakesNone
  <2>2. /\ Table(objects') /\ Named(objects', oids', nextOid')
        /\ DocumentsOf(objects') = DocumentsOf(objects)
    BY <1>3, <1>6, <2>1 DEF Named
  <2>3. /\ DOMAIN objects' = DOMAIN objects \cup {} /\ {} \cap DOMAIN objects = {}
        /\ \A h \in DOMAIN objects :
             /\ oids'[h] = oids[h]
             /\ objects'[h].kind = objects[h].kind /\ objects'[h].doc = objects[h].doc
             /\ h # OpDoc => objects'[h] = objects[h]
        /\ \A h \in {} : oids'[h] = nextOid
        /\ nextOid' \in {nextOid, nextOid + 1}
    BY <1>6, <2>1
  <2>4. /\ flags' = flags \/ flags' = [flags EXCEPT ![OpDoc].unrecorded = TRUE]
        /\ process' \in Process
    BY <1>5, <1>9 DEF OpRan
  <2>5. /\ running'.created \in Seq(Handles) /\ Made' = Made \cup {}
        /\ running'.missed \in SUBSET CMaps /\ running'.outcome \in Outcomes
        /\ running'.page \in Nat
    BY <1>4, <1>5, <1>7, <2>1 DEF Made
  <2>6. running'.touched = running.touched \cup {OpDoc} /\ OpDoc \notin Broken
    BY <1>9, <2>1 DEF OpRan
  <2>7. todo' = <<>> \/ todo' = Tail(todo)  BY <1>9 DEF OpMakesNone
  <2>8. \/ history' = history
        \/ \E e \in HistoryEntries :
                /\ history' = Append(history, e) /\ EntryNamed(e, objects', oids', nextOid')
                /\ e.call = calls /\ e.doc \in running'.touched
    <3>1. history' = history \/ history' = Append(history, OpEntry(<<>>, outcome))
      BY <1>9 DEF OpMakesNone
    <3>2. <<>> \in Seq(Nat \ {0})  OBVIOUS
    <3>3. OpEntry(<<>>, outcome) \in HistoryEntries /\ OpEntry(<<>>, outcome).call = calls
          /\ OpEntry(<<>>, outcome).doc = OpDoc
      BY <1>1, <1>2, <3>2, OpEntryIs
    <3>4. EntryNamed(OpEntry(<<>>, outcome), OpObjects, oids, nextOid)
      BY <1>3, <1>6, <1>8, <3>2
    <3>5. EntryNamed(OpEntry(<<>>, outcome), objects', oids', nextOid')
      BY <2>1, <3>4
    <3> QED  BY <2>6, <3>1, <3>3, <3>5
  <2> QED
    BY <1>1, <1>2, <2>1, <2>2, <2>3, <2>4, <2>5, <2>6, <2>7, <2>8, CoreSaneAfterOp
<1>10. CASE OpRefused
  <2>1. /\ UNCHANGED <<objects, oids, nextOid, process, history, flags>>
        /\ running' = RunningAfter(running.created, running.touched, running.missed,
                                   "RuntimeError", 0)
        /\ todo' = <<>>
    BY <1>10 DEF OpRefused
  <2>2. /\ running'.created = running.created /\ running'.touched = running.touched
        /\ running'.missed = running.missed /\ running'.outcome = "RuntimeError"
        /\ running'.page = 0
        /\ running' = RunningAfter(running'.created, running'.touched, running'.missed,
                                   running'.outcome, running'.page)
    BY <2>1 DEF RunningAfter
  <2>3. /\ DOMAIN objects' = DOMAIN objects \cup {} /\ {} \cap DOMAIN objects = {}
        /\ \A h \in {} : oids'[h] = nextOid
        /\ Made' = Made \cup {}
    BY <2>1, <2>2 DEF Made
  <2>4. /\ Table(objects') /\ Named(objects', oids', nextOid')
        /\ DocumentsOf(objects') = DocumentsOf(objects)
        /\ \A h \in DOMAIN objects :
             /\ oids'[h] = oids[h]
             /\ objects'[h].kind = objects[h].kind /\ objects'[h].doc = objects[h].doc
             /\ h # OpDoc => objects'[h] = objects[h]
        /\ nextOid' \in {nextOid, nextOid + 1}
        /\ process' \in Process
    BY <1>3, <2>1
  <2>5. /\ running'.created \in Seq(Handles) /\ running'.missed \in SUBSET CMaps
        /\ running'.outcome \in Outcomes /\ running'.page \in Nat
    BY <1>4, <1>7, <2>2
  <2>6. flags' = flags /\ history' = history /\ objects' = objects /\ todo' = <<>>
    BY <2>1
  <2> QED
    BY <1>1, <1>2, <2>2, <2>3, <2>4, <2>5, <2>6, CoreSaneAfterOp
<1>11. CASE OpRan /\ ~OpNeeds /\ OpMakesNone(OpEffect.event.outcome)
  BY <1>5, <1>9, <1>11
<1>12. CASE OpRan /\ OpNeeds /\ Handles \subseteq DOMAIN objects /\ OpMakesNone("MemoryError")
  BY <1>9, <1>12
<1>13. CASE OpRan /\ OpNeeds /\ ~ Handles \subseteq DOMAIN objects /\ OpMakesOne
  <2> DEFINE h == OpHandle  p == Page(OpDoc, PageAnswered(OpLog), Op.op)
             out == OpEffect.event.outcome
  <2>1. h \in Handles \ DOMAIN objects  BY <1>13, FreshIsFree DEF OpHandle
  <2>2. /\ objects' = With(OpObjects, h, p) /\ oids' = With(oids, h, nextOid)
        /\ nextOid' = nextOid + 1
        /\ history' = history \/ history' = Append(history, OpEntry(<<nextOid>>, out))
        /\ running' = RunningAfter(Append(running.created, h), running.touched \cup {OpDoc},
                                   running.missed \cup OpEffect.missed, out, PageAnswered(OpLog))
        /\ todo' = Tail(todo) \/ todo' = <<>>
    BY <1>13 DEF OpMakesOne
  <2>3. /\ p.kind = KindMade(Op.op) /\ p.kind # "document" /\ p.doc = OpDoc
        /\ p.log = <<>> /\ p \in TableObjects
    <3>1. <<>> \in Seq(Events)  OBVIOUS
    <3> HIDE DEF Events
    <3> QED  BY <1>5, <3>1 DEF Page, KindMade, TableObjects, Kinds
  <2>4. out \in Endings  BY <1>5
  <2> HIDE DEF h, p, out
  <2>5. Table(objects') /\ DocumentsOf(objects') = DocumentsOf(objects)
    <3>1. h \in Handles \ DOMAIN OpObjects  BY <1>6, <2>1
    <3>2. IF p.kind = "document" THEN p.doc = h /\ p.value = 1
          ELSE p.doc \in DocumentsOf(OpObjects) /\ p.log = <<>>
      BY <1>5, <1>6, <2>3
    <3>3. /\ Table(With(OpObjects, h, p))
          /\ DocumentsOf(With(OpObjects, h, p)) =
               DocumentsOf(OpObjects) \cup (IF p.kind = "document" THEN {h} ELSE {})
      BY <1>6, <2>3, <3>1, <3>2, TableWith
    <3> QED  BY <1>6, <2>2, <2>3, <3>3
  <2>6. DOMAIN objects' = DOMAIN objects \cup {h} /\ objects'[h] = p
        /\ \A k \in DOMAIN objects : objects'[k] = OpObjects[k]
    BY <1>6, <2>1, <2>2 DEF With
  <2>7. Named(objects', oids', nextOid')
    BY <1>3, <2>1, <2>2, <2>6, NamedWith
  <2>8. DOMAIN oids' = DOMAIN objects \cup {h} /\ oids'[h] = nextOid
        /\ \A k \in DOMAIN objects : oids'[k] = oids[k]
    BY <1>3, <2>1, <2>2 DEF With
  <2>9. \A k \in DOMAIN objects :
             /\ oids'[k] = oids[k]
             /\ objects'[k].kind = objects[k].kind /\ objects'[k].doc = objects[k].doc
             /\ k # OpDoc => objects'[k] = objects[k]
    BY <1>6, <2>6, <2>8
  <2>10. {h} \cap DOMAIN objects = {} /\ \A k \in {h} : oids'[k] = nextOid
    BY <2>1, <2>8
  <2>11. nextOid' \in {nextOid, nextOid + 1}  BY <2>2
  <2>12. /\ flags' = flags \/ flags' = [flags EXCEPT ![OpDoc].unrecorded = TRUE]
         /\ process' \in Process /\ OpDoc \notin Broken
    BY <1>5, <1>13 DEF OpRan
  <2>13. /\ running'.created = Append(running.created, h)
         /\ running'.touched = running.touched \cup {OpDoc}
         /\ running'.missed = running.missed \cup OpEffect.missed
         /\ running'.outcome = out /\ running'.page = PageAnswered(OpLog)
         /\ running' = RunningAfter(running'.created, running'.touched, running'.missed,
                                    running'.outcome, running'.page)
    BY <2>2 DEF RunningAfter
  <2>14. running'.created \in Seq(Handles) /\ Made' = Made \cup {h}
    <3> DEFINE c == running.created  c2 == Append(c, h)
    <3>1. c \in Seq(Handles) /\ h \in Handles  BY <1>4, <2>1
    <3> HIDE DEF c
    <3>2. c2 \in Seq(Handles) /\ Len(c2) = Len(c) + 1 /\ c2[Len(c) + 1] = h
          /\ \A i \in 1 .. Len(c) : c2[i] = c[i]
      BY <3>1
    <3>3. {c2[i] : i \in DOMAIN c2} = {c[i] : i \in DOMAIN c} \cup {h}
      <4>1. DOMAIN c = 1 .. Len(c) /\ DOMAIN c2 = 1 .. Len(c) + 1 /\ Len(c) \in Nat
        BY <3>1, <3>2
      <4>2. \A i \in DOMAIN c2 : i \in DOMAIN c \/ i = Len(c) + 1  BY <4>1
      <4>3. Len(c) + 1 \in DOMAIN c2 /\ DOMAIN c \subseteq DOMAIN c2  BY <4>1
      <4> HIDE DEF c2
      <4> QED  BY <3>2, <4>1, <4>2, <4>3
    <3>4. Made = {c[i] : i \in DOMAIN c} /\ running'.created = c2
      BY <2>13 DEF Made, c
    <3>5. Made' = {c2[i] : i \in DOMAIN c2}
      <4>1. Made' = {running'.created[i] : i \in DOMAIN running'.created}  BY DEF Made
      <4> HIDE DEF c2
      <4> QED  BY <3>4, <4>1
    <3> QED  BY <3>2, <3>3, <3>4, <3>5
  <2>15. running'.missed \in SUBSET CMaps /\ running'.outcome \in Outcomes
         /\ running'.page \in Nat
    BY <1>4, <1>5, <1>7, <2>4, <2>13
  <2>16. \/ history' = history
         \/ \E e \in HistoryEntries :
                /\ history' = Append(history, e) /\ EntryNamed(e, objects', oids', nextOid')
                /\ e.call = calls /\ e.doc \in running'.touched
    <3> DEFINE e == OpEntry(<<nextOid>>, out)
    <3>1. <<nextOid>> \in Seq(Nat \ {0}) /\ out \in Endings \cup {"MemoryError"}
      BY <1>3, <2>4
    <3>2. e \in HistoryEntries /\ e.call = calls /\ e.doc = OpDoc
      BY <1>1, <1>2, <3>1, OpEntryIs
    <3>3. \A k \in DOMAIN oids' :
            \/ k \in DOMAIN objects /\ oids'[k] = oids[k] /\ objects'[k].doc = objects[k].doc
            \/ oids'[k] = nextOid /\ nextOid' = nextOid + 1
               /\ objects'[k].doc = OpDoc /\ objects'[k].kind = KindMade(Op.op)
      BY <2>2, <2>3, <2>6, <2>8, <2>9
    <3>4. oids'[OpDoc] = oids[OpDoc]  BY <1>5, <2>9
    <3>5. EntryNamed(e, objects', oids', nextOid')
      BY <1>8, <2>2, <2>5, <2>11, <3>1, <3>3, <3>4
    <3>6. e.doc \in running'.touched  BY <2>13, <3>2
    <3> HIDE DEF e
    <3>7. history' = history \/ history' = Append(history, e)  BY <2>2 DEF e
    <3> QED  BY <3>2, <3>5, <3>6, <3>7
  <2> QED
    BY <1>1, <1>2, <2>2, <2>5, <2>6, <2>7, <2>9, <2>10, <2>11, <2>12, <2>13, <2>14,
       <2>15, <2>16, CoreSaneAfterOp
<1> QED  BY <1>2, <1>10, <1>11, <1>12, <1>13, RunOpCases

\* A history whose documents, kinds and identities stay keeps its names.
LEMMA NamesKept ==
    ASSUME NEW hs \in Seq(HistoryEntries), NEW os, NEW ids, NEW next, NEW os2, NEW ids2,
           \A i \in DOMAIN hs : EntryNamed(hs[i], os, ids, next),
           DOMAIN ids2 \subseteq DOMAIN ids, DOMAIN ids = DOMAIN os, DOMAIN ids2 = DOMAIN os2,
           DocumentsOf(os2) = DocumentsOf(os),
           \A h \in DOMAIN os2 :
             ids2[h] = ids[h] /\ os2[h].kind = os[h].kind /\ os2[h].doc = os[h].doc
    PROVE  \A i \in DOMAIN hs : EntryNamed(hs[i], os2, ids2, next)
<1> SUFFICES ASSUME NEW i \in DOMAIN hs
             PROVE  EntryNamed(hs[i], os2, ids2, next)
  OBVIOUS
<1>1. EntryNamed(hs[i], os, ids, next)  OBVIOUS
<1>2. hs[i].doc \in DOMAIN os2  BY <1>1 DEF EntryNamed, DocumentsOf
<1> QED  BY <1>1, <1>2 DEF EntryNamed

\* A call that ends with an answer leaves what it made.
LEMMA CoreSaneRespond ==
    ASSUME CoreSane, Respond
    PROVE  CoreSane'
<1>1. /\ phase = "running" /\ todo = <<>> /\ phase' = "idle" /\ pending' = NoRequest
      /\ UNCHANGED <<documents, process, cmapState, todo, replay, failed, ghosts, calls>>
  BY DEF Respond
<1>2. CoreTypes /\ InRun  BY <1>1 DEF CoreSane
<1>3. NoRequest.request \in Seq(Requests) /\ DOMAIN NoRequest.request = {}
  BY DEF NoRequest
<1>4. CoreTypes'  BY <1>1, <1>2, <1>3 DEF CoreTypes, documents, cmapState
<1>5. \A i \in DOMAIN history : history[i].call <= calls
  <2>1. /\ \A i \in DOMAIN before.history : before.history[i].call < calls
        /\ \A i \in DOMAIN history :
             IF i <= Len(before.history) THEN history[i] = before.history[i]
             ELSE history[i].call = calls
        /\ history \in Seq(HistoryEntries) /\ before.history \in Seq(HistoryEntries)
        /\ calls \in Nat
    BY <1>2 DEF InRun, InCall, CoreTypes
  <2>2. \A i \in DOMAIN history : history[i] \in HistoryEntries  BY <2>1
  <2>3. \A i \in DOMAIN history : history[i].call \in Nat  BY <2>2 DEF HistoryEntries
  <2>4. \A i \in DOMAIN history : i <= Len(before.history) => i \in DOMAIN before.history
    BY <2>1
  <2> HIDE DEF HistoryEntries
  <2> QED  BY <2>1, <2>3, <2>4
<1>6. AtRest'
  BY <1>1, <1>2, <1>3, <1>5 DEF AtRest, InRun, documents
<1> QED  BY <1>1, <1>4, <1>6 DEF CoreSane

\* The end of a void call: the documents lost are reset.
LEMMA CoreSaneEndVoid ==
    ASSUME CoreSane, EndVoid
    PROVE  CoreSane'
<1> DEFINE broken == IF failed \/ running.missed # {} THEN Reached ELSE {}
<1>1. /\ phase = "replaying" /\ phase' = "idle"
      /\ objects' = ResetAll(objects, broken)
      /\ flags' = [d \in DOMAIN flags |->
                     IF d \in broken THEN [flags[d] EXCEPT !.broken = TRUE] ELSE flags[d]]
      /\ process' = running.process /\ replay' = <<>> /\ failed' = FALSE /\ ghosts' = <<>>
      /\ oids' = oids /\ nextOid' = nextOid /\ history' = history /\ loaded' = loaded
      /\ todo' = todo /\ pending' = pending /\ calls' = calls
  BY DEF EndVoid, ProcessBefore, cmapState, js
<1>2. CoreTypes /\ InReplay /\ InCall  BY <1>1 DEF CoreSane, InReplay
<1>3. Table(objects) /\ Named(objects, oids, nextOid) /\ history \in Seq(HistoryEntries)
      /\ DOMAIN oids = DOMAIN objects /\ flags \in [DocumentsOf(objects) -> Flags]
  BY <1>2 DEF CoreTypes, Named
<1> HIDE DEF broken
<1>4. /\ DOMAIN objects' = DOMAIN objects /\ Table(objects')
      /\ DocumentsOf(objects') = DocumentsOf(objects)
      /\ \A h \in DOMAIN objects : objects'[h].kind = objects[h].kind /\ objects'[h].doc = objects[h].doc
  BY <1>1, <1>3, ResetAllIs
<1>5. flags' \in [DocumentsOf(objects') -> Flags]
  <2>1. \A f \in Flags : [f EXCEPT !.broken = TRUE] \in Flags  BY DEF Flags
  <2>2. \A d \in DOMAIN flags :
          (IF d \in broken THEN [flags[d] EXCEPT !.broken = TRUE] ELSE flags[d]) \in Flags
    BY <1>3, <2>1
  <2> QED  BY <1>1, <1>3, <1>4, <2>2
<1>6. Named(objects', oids', nextOid')  BY <1>1, <1>3, <1>4 DEF Named
<1>7. \A i \in DOMAIN history : EntryNamed(history[i], objects', oids', nextOid)
  <2>1. \A i \in DOMAIN history : EntryNamed(history[i], objects, oids, nextOid)
    BY <1>2 DEF CoreTypes
  <2>2. /\ DOMAIN oids' \subseteq DOMAIN oids /\ DOMAIN oids' = DOMAIN objects'
        /\ \A h \in DOMAIN objects' : oids'[h] = oids[h]
             /\ objects'[h].kind = objects[h].kind /\ objects'[h].doc = objects[h].doc
    BY <1>1, <1>3, <1>4
  <2> QED  BY <1>3, <1>4, <2>1, <2>2, NamesKept
<1>8. running.process \in Process  BY <1>2 DEF InCall, RunFields
<1>9. CoreTypes'  BY <1>1, <1>2, <1>4, <1>5, <1>6, <1>7, <1>8 DEF CoreTypes
<1>10. \A i \in DOMAIN pending'.request : Allowed(pending'.request[i], objects')
  <2>1. /\ pending.request = running.request /\ DOMAIN objects = DOMAIN running.objects
        /\ \A i \in DOMAIN running.request : Allowed(running.request[i], running.objects)
        /\ \A h \in DOMAIN objects : objects[h].kind = running.objects[h].kind
    BY <1>2 DEF InReplay, InCall
  <2>2. \A r : Allowed(r, running.objects) => Allowed(r, objects')
    BY <1>4, <2>1 DEF Allowed
  <2> QED  BY <1>1, <2>1, <2>2
<1>11. \A i \in DOMAIN history' : history'[i].call < calls /\ history'[i].call \in Nat /\ calls \in Nat
  <2>1. history = before.history /\ \A i \in DOMAIN before.history : before.history[i].call < calls
    BY <1>2 DEF InReplay, InCall
  <2>2. \A i \in DOMAIN history : history[i] \in HistoryEntries  BY <1>3
  <2>3. \A i \in DOMAIN history : history[i].call \in Nat  BY <2>2 DEF HistoryEntries
  <2>4. calls \in Nat  BY <1>2 DEF CoreTypes
  <2> QED  BY <1>1, <2>1, <2>3, <2>4
<1>12. todo' = <<>>  BY <1>1, <1>2 DEF InReplay
<1>13. \A i \in DOMAIN history' :
         history'[i].call <= calls' /\ (history'[i].call = calls' => pending' = NoRequest)
  BY <1>1, <1>11
<1>14. AtRest'  BY <1>1, <1>10, <1>12, <1>13 DEF AtRest
<1> QED  BY <1>1, <1>9, <1>14 DEF CoreSane

\* The history of before the call is what a void call leaves of it.
LEMMA VoidHistory ==
    ASSUME CoreTypes, InRun
    PROVE  KeptByVoid = before.history
<1> DEFINE s == before.history  n == Len(before.history)
           t == SubSeq(history, n + 1, Len(history))
           S == {i \in DOMAIN history : history[i].call # calls}
<1>1. /\ history \in Seq(HistoryEntries) /\ s \in Seq(HistoryEntries)
      /\ n <= Len(history) /\ n \in Nat /\ Len(history) \in Nat
      /\ calls \in Nat
      /\ \A i \in DOMAIN s : s[i].call < calls
      /\ \A i \in DOMAIN history :
           IF i <= n THEN history[i] = s[i] ELSE history[i].call = calls
  BY DEF CoreTypes, InRun, InCall
<1>2. \A i \in DOMAIN s : s[i].call \in Nat
  <2>1. \A i \in DOMAIN s : s[i] \in HistoryEntries  BY <1>1
  <2> QED  BY <2>1 DEF HistoryEntries
<1>3. t \in Seq(HistoryEntries) /\ Len(t) = Len(history) - n
      /\ \A i \in 1 .. Len(t) : t[i] = history[n + i]
  <2> HIDE DEF HistoryEntries, n
  <2> QED  BY <1>1
<1>4. history = s \o t
  <2>1. s \o t \in Seq(HistoryEntries) /\ Len(s \o t) = Len(history)
    <3> HIDE DEF HistoryEntries, t, s
    <3>1. n = Len(s)  BY DEF s
    <3> HIDE DEF n
    <3> QED  BY <1>1, <1>3, <3>1
  <2>2. \A i \in 1 .. Len(history) : history[i] = (s \o t)[i]
    <3> SUFFICES ASSUME NEW i \in 1 .. Len(history)
                 PROVE  history[i] = (s \o t)[i]
      OBVIOUS
    <3>1. n = Len(s) /\ i \in DOMAIN history  BY <1>1
    <3> HIDE DEF n, s, t, HistoryEntries
    <3>2. CASE i <= n
      <4>1. (s \o t)[i] = s[i]  BY <1>1, <1>3, <3>1, <3>2
      <4> QED  BY <1>1, <3>1, <3>2, <4>1
    <3>3. CASE ~ i <= n
      <4>1. (s \o t)[i] = t[i - n]  BY <1>1, <1>3, <3>1, <3>3
      <4>2. i - n \in 1 .. Len(t)  BY <1>1, <1>3, <3>3
      <4>3. t[i - n] = history[n + (i - n)]  BY <1>3, <4>2
      <4> QED  BY <1>1, <4>1, <4>3
    <3> QED  BY <3>2, <3>3
  <2> DEFINE u == s \o t
  <2>3. u \in Seq(HistoryEntries) /\ Len(u) = Len(history) /\ history \in Seq(HistoryEntries)
        /\ \A i \in 1 .. Len(history) : history[i] = u[i]
    BY <1>1, <2>1, <2>2
  <2> HIDE DEF u, HistoryEntries
  <2>4. history = u  BY <2>3, SeqEqual
  <2> QED  BY <2>4 DEF u
<1>5. S \cap DOMAIN (s \o t) = DOMAIN s
  <2>1. S \cap DOMAIN history = DOMAIN s
    <3>1. DOMAIN s = 1 .. n /\ DOMAIN history = 1 .. Len(history)  BY <1>1
    <3>2. \A i \in DOMAIN history : i <= n <=> i \in DOMAIN s  BY <1>1, <3>1
    <3>3. \A i \in DOMAIN s : i \in DOMAIN history  BY <1>1, <3>1
    <3>4. \A i \in DOMAIN history : history[i].call # calls <=> i \in DOMAIN s
      <4> SUFFICES ASSUME NEW i \in DOMAIN history
                   PROVE  history[i].call # calls <=> i \in DOMAIN s
        OBVIOUS
      <4>1. CASE i \in DOMAIN s
        <5>1. history[i] = s[i] /\ s[i].call < calls /\ s[i].call \in Nat
          BY <1>1, <1>2, <3>2, <4>1
        <5> QED  BY <1>1, <4>1, <5>1
      <4>2. CASE i \notin DOMAIN s  BY <1>1, <3>2, <4>2
      <4> QED  BY <4>1, <4>2
    <3> HIDE DEF s, n
    <3> QED  BY <3>3, <3>4 DEF S
  <2> HIDE DEF S, s, t
  <2> QED  BY <1>4, <2>1
<1>6. Selected(s \o t, S) = s
  <2> HIDE DEF S, s, t, HistoryEntries
  <2> QED  BY <1>1, <1>3, <1>5, SelectedFirst
<1> HIDE DEF s, t
<1>7. Selected(history, S) = s  BY <1>4, <1>6
<1> QED  BY <1>7 DEF KeptByVoid, s

\* Without the objects the call made, the table has the objects it started with.
LEMMA WithoutMade ==
    ASSUME CoreTypes, InRun
    PROVE  /\ Table(Without(objects, Made))
           /\ DocumentsOf(Without(objects, Made)) = DocumentsOf(objects)
           /\ DOMAIN Without(objects, Made) = DOMAIN running.objects
           /\ \A h \in DOMAIN running.objects : Without(objects, Made)[h] = objects[h]
           /\ DOMAIN Without(oids, Made) = DOMAIN running.objects
           /\ \A h \in DOMAIN running.objects : Without(oids, Made)[h] = oids[h]
           /\ Without(oids, Made) = before.oids
<1>1. /\ Table(objects) /\ DOMAIN oids = DOMAIN objects
      /\ DOMAIN objects = DOMAIN running.objects \cup Made
      /\ Made \cap DOMAIN running.objects = {}
      /\ DocumentsOf(objects) = DocumentsOf(running.objects)
      /\ before.oids = [h \in DOMAIN running.objects |-> oids[h]]
  BY DEF CoreTypes, InRun, InCall, Named
<1>2. DOMAIN objects \ Made = DOMAIN running.objects  BY <1>1
<1>3. DocumentsOf(objects) \cap Made = {}  BY <1>1 DEF DocumentsOf
<1>4. \A h \in DOMAIN objects : objects[h].doc \in DocumentsOf(objects)  BY <1>1, TableGives
<1> HIDE DEF Made
<1>5. /\ Table(Without(objects, Made))
      /\ DocumentsOf(Without(objects, Made)) = DocumentsOf(objects) \ Made
  BY <1>1, <1>3, <1>4, TableWithout
<1>6. /\ DOMAIN Without(objects, Made) = DOMAIN running.objects
      /\ \A h \in DOMAIN running.objects : Without(objects, Made)[h] = objects[h]
  BY <1>2 DEF Without
<1>7. /\ DOMAIN Without(oids, Made) = DOMAIN running.objects
      /\ \A h \in DOMAIN running.objects : Without(oids, Made)[h] = oids[h]
  BY <1>1, <1>2 DEF Without
<1>8. Without(oids, Made) = before.oids
  <2> DEFINE D == DOMAIN oids \ Made
  <2>1. Without(oids, Made) = [h \in D |-> oids[h]]  BY DEF Without
  <2>2. D = DOMAIN running.objects  BY <1>1, <1>2
  <2> HIDE DEF D
  <2> QED  BY <1>1, <2>1, <2>2
<1> QED  BY <1>3, <1>5, <1>6, <1>7, <1>8

\* A void call leaves the table and the history it found, and takes what to replay from it.
LEMMA CoreSaneVoid ==
    ASSUME CoreSane, Void
    PROVE  CoreSane'
<1> DEFINE os == Without(objects, Made)
<1>1. /\ phase = "running" /\ phase' = "replaying" /\ todo = <<>> /\ running.missed # {}
      /\ objects' = ResetAll(os, running.touched)
      /\ oids' = Without(oids, Made)
      /\ history' = KeptByVoid
      /\ flags' = [d \in DOMAIN flags |->
                     IF d \in running.touched THEN [flags[d] EXCEPT !.scanned = TRUE]
                     ELSE flags[d]]
      /\ pending' = [request |-> running.request, names |-> Asked]
      /\ running' = [running EXCEPT !.missed = {}]
      /\ nextOid' = nextOid /\ process' = process /\ loaded' = loaded /\ todo' = todo
      /\ ghosts' = ghosts /\ before' = before /\ calls' = calls
      /\ failed' = (\E d \in Reached : flags[d].unrecorded)
      /\ \/ replay' = <<>>
         \/ replay' = Selected(KeptByVoid, UNION {Of(KeptByVoid, d) : d \in running.touched})
  BY DEF Void, Reached, cmapState
<1>2. CoreTypes /\ InRun /\ InCall  BY <1>1 DEF CoreSane, InRun
<1>3. /\ Table(os) /\ DocumentsOf(os) = DocumentsOf(objects)
      /\ DOMAIN os = DOMAIN running.objects
      /\ \A h \in DOMAIN running.objects : os[h] = objects[h]
      /\ DOMAIN oids' = DOMAIN running.objects
      /\ \A h \in DOMAIN running.objects : oids'[h] = oids[h]
      /\ oids' = before.oids
  BY <1>1, <1>2, WithoutMade
<1>4. history' = before.history  BY <1>1, <1>2, VoidHistory
<1>5. /\ running \in RunFields(running) /\ Table(running.objects)
      /\ before = [oids |-> before.oids, history |-> before.history]
      /\ before.oids = [h \in DOMAIN running.objects |-> oids[h]]
      /\ before.history \in Seq(HistoryEntries)
      /\ \A i \in DOMAIN before.history : before.history[i].call < calls
      /\ running.touched \subseteq DocumentsOf(running.objects) \ Broken
      /\ \A i \in DOMAIN running.request : Allowed(running.request[i], running.objects)
      /\ DocumentsOf(objects) = DocumentsOf(running.objects)
      /\ DOMAIN running.objects \subseteq DOMAIN objects
      /\ \A h \in DOMAIN running.objects :
         /\ objects[h].kind = running.objects[h].kind
         /\ objects[h].doc = running.objects[h].doc
         /\ running.objects[h].doc \notin running.touched => objects[h] = running.objects[h]
  BY <1>2 DEF InCall
<1> HIDE DEF os
<1>6. /\ DOMAIN objects' = DOMAIN running.objects /\ Table(objects')
      /\ DocumentsOf(objects') = DocumentsOf(objects)
      /\ \A h \in DOMAIN running.objects :
           /\ objects'[h].kind = objects[h].kind /\ objects'[h].doc = objects[h].doc
           /\ objects[h].doc \notin running.touched => objects'[h] = objects[h]
  <2>1. /\ DOMAIN objects' = DOMAIN os /\ Table(objects')
        /\ DocumentsOf(objects') = DocumentsOf(os)
        /\ \A h \in DOMAIN os :
             /\ objects'[h].kind = os[h].kind /\ objects'[h].doc = os[h].doc
             /\ os[h].doc \notin running.touched => objects'[h] = os[h]
    BY <1>1, <1>3, ResetAllIs
  <2> QED  BY <1>3, <2>1
<1>7. Named(objects', oids', nextOid')
  <2>1. Named(objects, oids, nextOid)  BY <1>2 DEF CoreTypes
  <2>2. DOMAIN objects' = DOMAIN objects \ Made  BY <1>2, <1>6 DEF InRun
  <2> HIDE DEF Made
  <2> QED  BY <1>1, <2>1, <2>2, NamedWithout
<1>8. flags \in [DocumentsOf(objects) -> Flags]  BY <1>2 DEF CoreTypes
<1>9. flags' \in [DocumentsOf(objects') -> Flags] /\ Broken' = Broken
  <2>1. \A f \in Flags : [f EXCEPT !.scanned = TRUE] \in Flags
                         /\ [f EXCEPT !.scanned = TRUE].broken = f.broken
    BY DEF Flags
  <2>2. \A d \in DOMAIN flags :
          flags'[d] \in Flags /\ flags'[d].broken = flags[d].broken
    BY <1>1, <1>8, <2>1
  <2>3. DOMAIN flags' = DOMAIN flags  BY <1>1
  <2>4. flags' \in [DocumentsOf(objects') -> Flags]
    <3>1. flags' = [d \in DOMAIN flags |-> flags'[d]]  BY <1>1
    <3>2. DOMAIN flags = DocumentsOf(objects')  BY <1>6, <1>8
    <3> QED  BY <2>2, <3>1, <3>2
  <2> QED  BY <2>2, <2>3, <2>4 DEF Broken
<1>10. \A i \in DOMAIN history' : EntryNamed(history'[i], objects', oids', nextOid')
  <2>1. \A i \in DOMAIN history : EntryNamed(history[i], objects, oids, nextOid)
    BY <1>2 DEF CoreTypes
  <2>2. \A i \in DOMAIN before.history : i \in DOMAIN history /\ before.history[i] = history[i]
    <3>1. /\ Len(before.history) <= Len(history)
          /\ \A i \in DOMAIN history :
               i <= Len(before.history) => history[i] = before.history[i]
          /\ history \in Seq(HistoryEntries)
      BY <1>2 DEF InRun, CoreTypes
    <3>2. DOMAIN history = 1 .. Len(history) /\ DOMAIN before.history = 1 .. Len(before.history)
          /\ Len(history) \in Nat /\ Len(before.history) \in Nat
      BY <1>5, <3>1
    <3> QED  BY <3>1, <3>2
  <2>3. \A i \in DOMAIN before.history : EntryNamed(before.history[i], objects, oids, nextOid)
    BY <2>1, <2>2
  <2>4. /\ DOMAIN oids' \subseteq DOMAIN oids /\ DOMAIN oids = DOMAIN objects
        /\ DOMAIN oids' = DOMAIN objects'
        /\ DocumentsOf(objects') = DocumentsOf(objects)
        /\ \A h \in DOMAIN objects' :
             oids'[h] = oids[h] /\ objects'[h].kind = objects[h].kind
             /\ objects'[h].doc = objects[h].doc
    BY <1>2, <1>3, <1>5, <1>6 DEF CoreTypes, Named
  <2>5. \A i \in DOMAIN before.history :
          EntryNamed(before.history[i], objects', oids', nextOid)
    <3> DEFINE hs == before.history  os2 == objects'  ids2 == oids'
    <3>1. hs \in Seq(HistoryEntries) /\ \A i \in DOMAIN hs : EntryNamed(hs[i], objects, oids, nextOid)
      BY <1>5, <2>3
    <3>2. /\ DOMAIN ids2 \subseteq DOMAIN oids /\ DOMAIN oids = DOMAIN objects
          /\ DOMAIN ids2 = DOMAIN os2 /\ DocumentsOf(os2) = DocumentsOf(objects)
          /\ \A h \in DOMAIN os2 :
               ids2[h] = oids[h] /\ os2[h].kind = objects[h].kind
               /\ os2[h].doc = objects[h].doc
      BY <2>4
    <3> HIDE DEF hs, os2, ids2
    <3>3. \A i \in DOMAIN hs : EntryNamed(hs[i], os2, ids2, nextOid)
      BY <3>1, <3>2, NamesKept
    <3> QED  BY <3>3 DEF hs, os2, ids2
  <2> QED  BY <1>1, <1>4, <2>5
<1>11. /\ running'.request = running.request /\ running'.objects = running.objects
       /\ running'.touched = running.touched /\ running' \in RunFields(running')
  BY <1>1, <1>5 DEF RunFields
<1>12. pending'.request = running.request /\ pending' # NoRequest
  <2>1. Asked # {} /\ pending'.names = Asked  BY <1>1 DEF Asked
  <2>2. NoRequest.names = {}  BY DEF NoRequest
  <2> QED  BY <1>1, <2>1, <2>2
<1>13. running.request \in Seq(Requests)  BY <1>5 DEF RunFields
<1>14. CoreTypes'
  BY <1>1, <1>2, <1>4, <1>5, <1>6, <1>7, <1>9, <1>10, <1>12, <1>13 DEF CoreTypes
<1>15. InCall'
  <2>1. before'.oids = [h \in DOMAIN running'.objects |-> oids'[h]]
    <3>1. \A h \in DOMAIN running.objects : oids'[h] = oids[h]  BY <1>3
    <3> QED  BY <1>1, <1>5, <1>11, <3>1
  <2>2. running'.touched \subseteq DocumentsOf(running'.objects) \ Broken'
    BY <1>5, <1>9, <1>11
  <2>3. /\ DocumentsOf(objects') = DocumentsOf(running'.objects)
        /\ DOMAIN running'.objects \subseteq DOMAIN objects'
        /\ \A h \in DOMAIN running'.objects :
             /\ objects'[h].kind = running'.objects[h].kind
             /\ objects'[h].doc = running'.objects[h].doc
             /\ running'.objects[h].doc \notin running'.touched =>
                  objects'[h] = running'.objects[h]
    BY <1>5, <1>6, <1>11
  <2> QED  BY <1>1, <1>5, <1>11, <2>1, <2>2, <2>3 DEF InCall
<1>16. /\ replay' \in Seq(HistoryEntries)
       /\ \A i \in DOMAIN replay' :
            /\ replay'[i].doc \in running'.touched
            /\ \E k \in DOMAIN history' : replay'[i] = history'[k]
  <2> DEFINE S == UNION {Of(KeptByVoid, d) : d \in running.touched}
  <2>1. CASE replay' = <<>>  BY <2>1
  <2>2. CASE replay' = Selected(KeptByVoid, S)
    <3>1. KeptByVoid = history' /\ history' \in Seq(HistoryEntries)
      BY <1>1, <1>4, <1>5
    <3>2. \A i \in S : history'[i].doc \in running.touched  BY <3>1 DEF Of
    <3> HIDE DEF S
    <3>3. /\ Selected(KeptByVoid, S) \in Seq(HistoryEntries)
          /\ \A k \in DOMAIN Selected(KeptByVoid, S) :
               \E i \in DOMAIN KeptByVoid :
                 i \in S /\ Selected(KeptByVoid, S)[k] = KeptByVoid[i]
      BY <3>1, SelectedType
    <3> QED  BY <1>11, <2>2, <3>1, <3>2, <3>3
  <2> QED  BY <1>1, <2>1, <2>2
<1>17. InReplay'
  <2>1. failed' \in BOOLEAN  BY <1>1
  <2>2. DOMAIN ghosts' = {}  BY <1>1, <1>2 DEF InRun
  <2>3. DOMAIN objects' = DOMAIN running'.objects  BY <1>6, <1>11
  <2>4. oids' = before'.oids /\ history' = before'.history  BY <1>1, <1>3, <1>4
  <2>5. pending'.request = running'.request  BY <1>11, <1>12
  <2> QED  BY <1>1, <1>12, <1>15, <1>16, <2>1, <2>2, <2>3, <2>4, <2>5 DEF InReplay
<1> QED  BY <1>1, <1>14, <1>17 DEF CoreSane

\* The handle of a live object.
LEMMA HandleOfIs ==
    ASSUME NEW o, Live(o)
    PROVE  HandleOf(o) \in DOMAIN oids /\ oids[HandleOf(o)] = o
BY DEF Live, HandleOf

\* The entry that is replayed next, and what its operation does again.
Again == Head(replay)
\* Its object is in the table or among the ghosts; what the operation does again; the log,
\* the table and the page it leaves; how it ends.
AgainAlive == Live(Again.target)
AgainOn ==
    IF AgainAlive THEN objects[HandleOf(Again.target)].value ELSE ghosts[Again.target].value
AgainEffect ==
    Effect(Again.op, Again.cmap, AgainOn, objects[Again.doc].log, ProcessOf(Again), loaded)
AgainLog == Append(objects[Again.doc].log, AgainEffect.event)
AgainObjects == [objects EXCEPT ![Again.doc].log = AgainLog]
AgainMakes == NeedsHandle(AgainObjects, Again.doc, AgainLog)
AgainPage == Page(Again.doc, PageAnswered(AgainLog), Again.op)
AgainOutcome ==
    IF AgainMakes /\ Again.created = <<>> THEN "RuntimeError" ELSE AgainEffect.event.outcome

\* An entry whose object is gone: the replay fails.
AgainRefused ==
    /\ ~AgainAlive
    /\ Again.target \notin DOMAIN ghosts \/ Handles \subseteq DOMAIN objects
    /\ failed' = TRUE /\ process' = ProcessOf(Again)
    /\ UNCHANGED <<objects, running, ghosts>>

\* ... and one that runs: its page takes its place in the table, or among the ghosts.
AgainRan ==
    /\ AgainAlive \/ (Again.target \in DOMAIN ghosts /\ ~ Handles \subseteq DOMAIN objects)
    /\ process' = AgainEffect.process
    /\ running' = [running EXCEPT !.missed = @ \cup AgainEffect.missed]
    /\ failed' = (AgainOutcome # Again.outcome \/ (~AgainMakes /\ Again.created # <<>>))
    /\ \/ /\ ~AgainMakes \/ Again.created = <<>>
          /\ objects' = AgainObjects /\ ghosts' = ghosts
       \/ /\ AgainMakes /\ Again.created # <<>> /\ Live(Again.created[1])
          /\ objects' = [AgainObjects EXCEPT ![HandleOf(Again.created[1])] = AgainPage]
          /\ ghosts' = ghosts
       \/ /\ AgainMakes /\ Again.created # <<>> /\ ~Live(Again.created[1])
          /\ objects' = AgainObjects
          /\ ghosts' = With(ghosts, Again.created[1], AgainPage)

\* ReplayOp does one of these two (ops.rs `replay_entry`).
LEMMA ReplayOpCases ==
    ASSUME ReplayOp
    PROVE  /\ phase = "replaying" /\ ~failed /\ replay # <<>> /\ Again.op # "open"
           /\ AgainRefused \/ AgainRan
           /\ replay' = Tail(replay)
           /\ UNCHANGED <<oids, nextOid, flags, history, cmapState, phase, todo, before,
                          js, calls>>
<1>1. /\ phase = "replaying" /\ ~failed /\ replay # <<>> /\ Again.op # "open"
      /\ replay' = Tail(replay)
      /\ UNCHANGED <<oids, nextOid, flags, history, cmapState, phase, todo, before,
                          js, calls>>
  BY DEF ReplayOp, Again
<1>2. IF ~AgainAlive /\ (Again.target \notin DOMAIN ghosts \/ Handles \subseteq DOMAIN objects)
       THEN /\ failed' = TRUE
            /\ process' = ProcessOf(Again)
            /\ UNCHANGED <<objects, running, ghosts>>
       ELSE /\ process' = AgainEffect.process
            /\ running' = [running EXCEPT !.missed = @ \cup AgainEffect.missed]
            /\ failed' = (\/ AgainOutcome # Again.outcome
                          \/ ~AgainMakes /\ Again.created # <<>>)
            /\ IF ~AgainMakes \/ Again.created = <<>>
               THEN objects' = AgainObjects /\ UNCHANGED ghosts
               ELSE IF Live(Again.created[1])
               THEN /\ objects' = [AgainObjects EXCEPT ![HandleOf(Again.created[1])] = AgainPage]
                    /\ UNCHANGED ghosts
               ELSE /\ objects' = AgainObjects
                    /\ ghosts' = With(ghosts, Again.created[1], AgainPage)
  BY DEF ReplayOp, Again, AgainAlive, AgainOn, AgainEffect, AgainLog, AgainObjects, AgainMakes,
         AgainPage, AgainOutcome
<1> HIDE DEF Again, AgainAlive, AgainEffect, AgainLog, AgainObjects, AgainMakes, AgainPage, AgainOutcome
<1>3. AgainRefused \/ AgainRan  BY <1>2 DEF AgainRefused, AgainRan
<1> QED  BY <1>1, <1>3

\* What is known of that entry.
LEMMA AgainFacts ==
    ASSUME CoreTypes, InReplay, replay # <<>>
    PROVE  /\ Again \in HistoryEntries /\ Again.doc \in running.touched
           /\ EntryNamed(Again, objects, oids, nextOid)
           /\ Again.doc \in DocumentsOf(objects) /\ Again.doc \in DOMAIN objects
           /\ Tail(replay) \in Seq(HistoryEntries)
           /\ \A i \in DOMAIN Tail(replay) :
                /\ Tail(replay)[i].doc \in running.touched
                /\ \E k \in DOMAIN history : Tail(replay)[i] = history[k]
<1>1. /\ replay \in Seq(HistoryEntries)
      /\ \A i \in DOMAIN replay :
         /\ replay[i].doc \in running.touched
         /\ \E k \in DOMAIN history : replay[i] = history[k]
      /\ \A i \in DOMAIN history : EntryNamed(history[i], objects, oids, nextOid)
  BY DEF InReplay, CoreTypes
<1>2. Again = replay[1] /\ 1 \in DOMAIN replay /\ Again \in HistoryEntries
  <2> HIDE DEF HistoryEntries
  <2> QED  BY <1>1 DEF Again
<1>3. PICK k \in DOMAIN history : Again = history[k]  BY <1>1, <1>2
<1>4. EntryNamed(Again, objects, oids, nextOid)  BY <1>1, <1>3
<1>5. Again.doc \in DocumentsOf(objects)  BY <1>4 DEF EntryNamed
<1>6. Again.doc \in DOMAIN objects  BY <1>5 DEF DocumentsOf
<1>7. Tail(replay) \in Seq(HistoryEntries)
      /\ \A i \in DOMAIN Tail(replay) : Tail(replay)[i] = replay[i + 1] /\ i + 1 \in DOMAIN replay
  <2> HIDE DEF HistoryEntries
  <2> QED  BY <1>1
<1> QED  BY <1>1, <1>2, <1>4, <1>5, <1>6, <1>7

\* What its operation does has its type.
LEMMA AgainIs ==
    ASSUME CoreTypes, InReplay, replay # <<>>, Again.op # "open",
           AgainAlive \/ Again.target \in DOMAIN ghosts
    PROVE  /\ AgainOn \in Nat /\ objects[Again.doc].log \in Seq(Events)
           /\ AgainEffect.event \in Events /\ AgainEffect.process \in Process
           /\ AgainEffect.missed \in SUBSET CMaps
           /\ AgainEffect.event.op = Again.op /\ AgainEffect.event.on = AgainOn
           /\ AgainLog \in Seq(Events) /\ AgainLog # <<>>
           /\ Len(AgainLog) = Len(objects[Again.doc].log) + 1
           /\ AgainLog[Len(AgainLog)] = AgainEffect.event
           /\ Again.op \in {"pages", "annots"} => AgainOn = 1
           /\ PageAnswered(AgainLog) \in 0 .. Len(AgainLog)
           /\ PageAnswered(AgainLog) \in Nat
           /\ Table(AgainObjects) /\ DocumentsOf(AgainObjects) = DocumentsOf(objects)
           /\ DOMAIN AgainObjects = DOMAIN objects
           /\ AgainObjects[Again.doc].log = AgainLog
           /\ \A h \in DOMAIN objects :
                /\ AgainObjects[h].kind = objects[h].kind /\ AgainObjects[h].doc = objects[h].doc
                /\ AgainObjects[h].value = objects[h].value
                /\ h # Again.doc => AgainObjects[h] = objects[h]
           /\ AgainPage \in TableObjects /\ AgainPage.kind = KindMade(Again.op)
           /\ AgainPage.doc = Again.doc /\ AgainPage.log = <<>> /\ AgainPage.kind # "document"
           /\ AgainPage.value = PageAnswered(AgainLog)
<1>1. /\ Again \in HistoryEntries /\ EntryNamed(Again, objects, oids, nextOid)
      /\ Again.doc \in DocumentsOf(objects) /\ Again.doc \in DOMAIN objects
  BY AgainFacts
<1>2. Table(objects) /\ DOMAIN oids = DOMAIN objects /\ loaded \in SUBSET CMaps
      /\ \A h, k \in DOMAIN oids : oids[h] = oids[k] => h = k
  BY DEF CoreTypes, Named
<1>3. AgainOn \in Nat
  <2>1. CASE AgainAlive
    <3>1. HandleOf(Again.target) \in DOMAIN objects  BY <1>2, <2>1, HandleOfIs DEF AgainAlive
    <3> QED  BY <1>2, <2>1, <3>1, TableGives DEF AgainOn
  <2>2. CASE ~AgainAlive  BY <2>2 DEF AgainOn, InReplay
  <2> QED  BY <2>1, <2>2
<1>4. Again.op \in {"pages", "annots"} => AgainOn = 1
  <2> SUFFICES ASSUME Again.op \in {"pages", "annots"}
               PROVE  AgainOn = 1
    OBVIOUS
  <2>1. oids[Again.doc] = Again.target  BY <1>1 DEF EntryNamed
  <2>2. Live(Again.target)  BY <1>1, <1>2, <2>1 DEF Live
  <2>3. HandleOf(Again.target) = Again.doc  BY <1>1, <1>2, <2>1, <2>2, HandleOfIs
  <2>4. objects[Again.doc].value = 1  BY <1>1, <1>2 DEF Table, DocumentsOf
  <2> QED  BY <2>2, <2>3, <2>4 DEF AgainOn, AgainAlive
<1>5. objects[Again.doc].log \in Seq(Events)  BY <1>1, <1>2, TableGives
<1>6. Again.op \in Ops /\ Again.cmap \in MaybeCMap /\ ProcessOf(Again) \in Process
      /\ Again.doc \in Nat
  BY <1>1 DEF HistoryEntries, ProcessOf
<1>7. /\ AgainEffect.event \in Events /\ AgainEffect.process \in Process
      /\ AgainEffect.missed \in SUBSET CMaps
      /\ AgainEffect.event.op = Again.op /\ AgainEffect.event.on = AgainOn
  <2> DEFINE v == AgainOn  l == objects[Again.doc].log  p == ProcessOf(Again)
  <2>1. AgainEffect = Effect(Again.op, Again.cmap, v, l, p, loaded)
    BY DEF AgainEffect
  <2>2. v \in Nat /\ l \in Seq(Events) /\ p \in Process  BY <1>3, <1>5, <1>6
  <2> HIDE DEF v, l, p
  <2> QED  BY <1>2, <1>6, <2>1, <2>2, EffectType DEF v
<1>8. /\ AgainLog \in Seq(Events) /\ AgainLog # <<>>
      /\ Len(AgainLog) = Len(objects[Again.doc].log) + 1
      /\ AgainLog[Len(AgainLog)] = AgainEffect.event
  <2> DEFINE l == objects[Again.doc].log  v == AgainEffect.event
  <2>1. AgainLog = Append(l, v)  BY DEF AgainLog
  <2>2. l \in Seq(Events) /\ v \in Events  BY <1>5, <1>7
  <2> HIDE DEF l, v
  <2>3. Append(l, v) \in Seq(Events) /\ Append(l, v) # <<>> /\ Len(Append(l, v)) = Len(l) + 1
        /\ Append(l, v)[Len(l) + 1] = v
    BY <2>2
  <2> QED  BY <2>1, <2>3 DEF l, v
<1>9. PageAnswered(AgainLog) \in 0 .. Len(AgainLog)
  <2>1. AgainLog[Len(AgainLog)].op \in {"pages", "annots"} => AgainLog[Len(AgainLog)].on = 1
    BY <1>4, <1>7, <1>8
  <2> HIDE DEF Events
  <2> QED  BY <1>8, <2>1, PageAnsweredIs
<1>10. PageAnswered(AgainLog) \in Nat
  <2>1. Len(AgainLog) \in Nat  BY <1>8
  <2> QED  BY <1>9, <2>1
<1> DEFINE o == [objects[Again.doc] EXCEPT !.log = AgainLog]
<1>11. \A h \in DOMAIN objects : objects[h] \in TableObjects  BY <1>2 DEF Table
<1>12. objects[Again.doc] \in TableObjects /\ objects[Again.doc].kind = "document"
  BY <1>1, <1>11 DEF DocumentsOf
<1>13. o \in TableObjects /\ o.kind = objects[Again.doc].kind /\ o.doc = objects[Again.doc].doc
      /\ o.value = objects[Again.doc].value /\ o.log = AgainLog
  <2> HIDE DEF Events
  <2> QED  BY <1>8, <1>12 DEF TableObjects
<1>14. AgainObjects = [objects EXCEPT ![Again.doc] = o]  BY DEF AgainObjects
<1> HIDE DEF o
<1>15. /\ DOMAIN AgainObjects = DOMAIN objects /\ AgainObjects[Again.doc] = o
       /\ \A h \in DOMAIN objects : h # Again.doc => AgainObjects[h] = objects[h]
  BY <1>1, <1>14
<1>16. objects \in [DOMAIN objects -> TableObjects]  BY <1>2 DEF Table
<1>17. AgainObjects \in [DOMAIN objects -> TableObjects]  BY <1>13, <1>14, <1>16
<1>18. \A h \in DOMAIN objects :
             /\ AgainObjects[h].kind = objects[h].kind /\ AgainObjects[h].doc = objects[h].doc
             /\ AgainObjects[h].value = objects[h].value
             /\ objects[h].kind = "document" => AgainObjects[h].value = 1
             /\ objects[h].kind # "document" => AgainObjects[h].log = <<>>
  BY <1>2, <1>12, <1>13, <1>15 DEF Table
<1>19. Table(AgainObjects) /\ DocumentsOf(AgainObjects) = DocumentsOf(objects)
  BY <1>2, <1>17, <1>18, TableAlike
<1>20. /\ AgainPage \in TableObjects /\ AgainPage.kind = KindMade(Again.op)
       /\ AgainPage.doc = Again.doc /\ AgainPage.log = <<>> /\ AgainPage.kind # "document"
       /\ AgainPage.value = PageAnswered(AgainLog)
  <2>1. <<>> \in Seq(Events)  OBVIOUS
  <2> HIDE DEF Events
  <2> QED  BY <1>6, <1>10, <2>1 DEF AgainPage, Page, KindMade, TableObjects, Kinds
<1> QED
  BY <1>3, <1>4, <1>5, <1>7, <1>8, <1>9, <1>10, <1>13, <1>15, <1>18, <1>19, <1>20

\* What every entry replayed keeps of CoreSane.
LEMMA CoreSaneAfterReplay ==
    ASSUME CoreTypes, InReplay, phase = "replaying", replay # <<>>, replay' = Tail(replay),
           UNCHANGED <<oids, nextOid, history, cmapState, phase, todo, before, js, calls>>,
           Table(objects'), DOMAIN objects' = DOMAIN objects,
           DocumentsOf(objects') = DocumentsOf(objects),
           \A h \in DOMAIN objects :
             /\ objects'[h].kind = objects[h].kind /\ objects'[h].doc = objects[h].doc
             /\ objects[h].doc # Again.doc => objects'[h] = objects[h],
           flags' = flags \/ flags' = [flags EXCEPT ![Again.doc] = NoFlags],
           process' \in Process,
           \/ running' = running
           \/ \E m \in SUBSET CMaps : running' = [running EXCEPT !.missed = @ \cup m],
           failed' \in BOOLEAN,
           \A o \in DOMAIN ghosts' : ghosts'[o].value \in Nat
    PROVE  CoreSane'
<1>1. /\ Table(objects) /\ Named(objects, oids, nextOid)
      /\ flags \in [DocumentsOf(objects) -> Flags] /\ history \in Seq(HistoryEntries)
      /\ \A i \in DOMAIN history : EntryNamed(history[i], objects, oids, nextOid)
      /\ loaded \subseteq CMaps /\ calls \in Nat /\ pending.request \in Seq(Requests)
      /\ DOMAIN oids = DOMAIN objects
  BY DEF CoreTypes, Named
<1>2. /\ loaded' = loaded /\ phase' = "replaying" /\ calls' = calls /\ pending' = pending
      /\ before' = before /\ oids' = oids /\ nextOid' = nextOid /\ history' = history
      /\ todo' = todo
  BY DEF cmapState, js
<1>3. /\ Again.doc \in running.touched /\ Again.doc \in DocumentsOf(objects)
      /\ Tail(replay) \in Seq(HistoryEntries)
      /\ \A i \in DOMAIN Tail(replay) :
           /\ Tail(replay)[i].doc \in running.touched
           /\ \E k \in DOMAIN history : Tail(replay)[i] = history[k]
  BY AgainFacts
<1>4. flags' \in [DocumentsOf(objects') -> Flags] /\ Broken' \subseteq Broken
  <2>1. NoFlags \in Flags /\ NoFlags.broken = FALSE  BY DEF NoFlags, Flags
  <2>2. CASE flags' = flags  BY <1>1, <2>2 DEF Broken
  <2>3. CASE flags' = [flags EXCEPT ![Again.doc] = NoFlags]
    BY <1>1, <1>3, <2>1, <2>3 DEF Broken
  <2> QED  BY <2>2, <2>3
<1>5. Named(objects', oids', nextOid')  BY <1>1, <1>2 DEF Named
<1>6. \A i \in DOMAIN history : EntryNamed(history[i], objects', oids', nextOid)
  <2> DEFINE os2 == objects'  ids2 == oids'
  <2>1. /\ DOMAIN ids2 \subseteq DOMAIN oids /\ DOMAIN ids2 = DOMAIN os2
        /\ DocumentsOf(os2) = DocumentsOf(objects)
        /\ \A h \in DOMAIN os2 :
             ids2[h] = oids[h] /\ os2[h].kind = objects[h].kind /\ os2[h].doc = objects[h].doc
    BY <1>1, <1>2
  <2> HIDE DEF os2, ids2
  <2>2. \A i \in DOMAIN history : EntryNamed(history[i], os2, ids2, nextOid)
    <3>1. history \in Seq(HistoryEntries) /\ DOMAIN oids = DOMAIN objects  BY <1>1
    <3>2. \A i \in DOMAIN history : EntryNamed(history[i], objects, oids, nextOid)
      BY <1>1
    <3> HIDE DEF HistoryEntries
    <3> QED  BY <2>1, <3>1, <3>2, NamesKept
  <2> QED  BY <2>2 DEF os2, ids2
<1>7. CoreTypes'
  BY <1>1, <1>2, <1>4, <1>5, <1>6 DEF CoreTypes
<1>8. /\ running \in RunFields(running) /\ Table(running.objects)
      /\ before = [oids |-> before.oids, history |-> before.history]
      /\ before.oids = [h \in DOMAIN running.objects |-> oids[h]]
      /\ before.history \in Seq(HistoryEntries)
      /\ \A i \in DOMAIN before.history : before.history[i].call < calls
      /\ running.touched \subseteq DocumentsOf(running.objects) \ Broken
      /\ \A i \in DOMAIN running.request : Allowed(running.request[i], running.objects)
      /\ DocumentsOf(objects) = DocumentsOf(running.objects)
      /\ DOMAIN running.objects \subseteq DOMAIN objects
      /\ \A h \in DOMAIN running.objects :
         /\ objects[h].kind = running.objects[h].kind
         /\ objects[h].doc = running.objects[h].doc
         /\ running.objects[h].doc \notin running.touched => objects[h] = running.objects[h]
      /\ DOMAIN objects = DOMAIN running.objects
  BY DEF InReplay, InCall
<1>9. /\ running'.request = running.request /\ running'.objects = running.objects
      /\ running'.touched = running.touched /\ running' \in RunFields(running')
  <2>1. CASE running' = running  BY <1>8, <2>1
  <2>2. CASE \E m \in SUBSET CMaps : running' = [running EXCEPT !.missed = @ \cup m]
    <3>1. PICK m \in SUBSET CMaps : running' = [running EXCEPT !.missed = @ \cup m]  BY <2>2
    <3>2. running.missed \cup m \in SUBSET CMaps  BY <1>8 DEF RunFields
    <3> QED  BY <1>8, <3>1, <3>2 DEF RunFields
  <2> QED  BY <2>1, <2>2
<1>10. \A h \in DOMAIN running.objects :
         /\ objects'[h].kind = running.objects[h].kind
         /\ objects'[h].doc = running.objects[h].doc
         /\ running.objects[h].doc \notin running.touched => objects'[h] = running.objects[h]
  BY <1>3, <1>8
<1>11. InCall'
  BY <1>2, <1>4, <1>8, <1>9, <1>10 DEF InCall
<1>12. InReplay'
  <2>1. /\ oids = before.oids /\ history = before.history
        /\ pending.request = running.request /\ pending # NoRequest /\ todo = <<>>
    BY DEF InReplay
  <2>2. DOMAIN objects' = DOMAIN running'.objects  BY <1>8, <1>9
  <2>3. /\ replay' \in Seq(HistoryEntries)
        /\ \A i \in DOMAIN replay' :
            /\ replay'[i].doc \in running'.touched
            /\ \E k \in DOMAIN history' : replay'[i] = history'[k]
    BY <1>2, <1>3, <1>9
  <2> QED  BY <1>2, <1>9, <1>11, <2>1, <2>2, <2>3 DEF InReplay
<1> QED  BY <1>2, <1>7, <1>12 DEF CoreSane

\* A document opened again is in its slot.
LEMMA CoreSaneReplayOpen ==
    ASSUME CoreSane, ReplayOpen
    PROVE  CoreSane'
<1> DEFINE o == Document(Again.doc, <<Opening>>)
<1>1. /\ phase = "replaying" /\ replay # <<>> /\ replay' = Tail(replay)
      /\ objects' = [objects EXCEPT ![Again.doc] = o]
      /\ flags' = [flags EXCEPT ![Again.doc] = NoFlags]
      /\ process' = ProcessOf(Again)
      /\ UNCHANGED <<oids, nextOid, history, cmapState, phase, todo, before, js, calls>>
      /\ running' = running /\ failed' = failed /\ ghosts' = ghosts
  BY DEF ReplayOpen, Again
<1>2. CoreTypes /\ InReplay  BY <1>1 DEF CoreSane
<1>3. /\ Again \in HistoryEntries /\ Again.doc \in DocumentsOf(objects)
      /\ Again.doc \in DOMAIN objects /\ Table(objects)
  BY <1>1, <1>2, AgainFacts DEF CoreTypes
<1>4. Again.doc \in Nat /\ process' \in Process
  BY <1>1, <1>3 DEF HistoryEntries, ProcessOf
<1>5. /\ o \in TableObjects /\ o.kind = "document" /\ o.doc = Again.doc /\ o.value = 1
  BY <1>4, OpenObject
<1> HIDE DEF o
<1>6. objects[Again.doc].kind = "document" /\ objects[Again.doc].doc = Again.doc
  BY <1>3 DEF Table, DocumentsOf
<1>7. /\ DOMAIN objects' = DOMAIN objects /\ objects'[Again.doc] = o
      /\ \A h \in DOMAIN objects : h # Again.doc => objects'[h] = objects[h]
  BY <1>1, <1>3
<1>8. objects' \in [DOMAIN objects -> TableObjects]
  BY <1>1, <1>3, <1>5 DEF Table
<1>9. \A h \in DOMAIN objects :
        /\ objects'[h].kind = objects[h].kind /\ objects'[h].doc = objects[h].doc
        /\ objects[h].kind = "document" => objects'[h].value = 1
        /\ objects[h].kind # "document" => objects'[h].log = <<>>
        /\ objects[h].doc # Again.doc => objects'[h] = objects[h]
  BY <1>3, <1>5, <1>6, <1>7 DEF Table
<1>10. Table(objects') /\ DocumentsOf(objects') = DocumentsOf(objects)
  BY <1>3, <1>8, <1>9, TableAlike
<1>11. failed' \in BOOLEAN /\ \A g \in DOMAIN ghosts' : ghosts'[g].value \in Nat
  BY <1>1, <1>2 DEF InReplay
<1> QED
  BY <1>1, <1>2, <1>4, <1>7, <1>9, <1>10, <1>11, CoreSaneAfterReplay

\* An operation replayed makes no new identity.
LEMMA CoreSaneReplayOp ==
    ASSUME CoreSane, ReplayOp
    PROVE  CoreSane'
<1>1. /\ phase = "replaying" /\ replay # <<>> /\ Again.op # "open"
      /\ AgainRefused \/ AgainRan
      /\ replay' = Tail(replay) /\ flags' = flags
      /\ UNCHANGED <<oids, nextOid, history, cmapState, phase, todo, before, js, calls>>
  BY ReplayOpCases
<1>2. CoreTypes /\ InReplay  BY <1>1 DEF CoreSane
<1>3. /\ Again \in HistoryEntries /\ Again.doc \in DocumentsOf(objects)
      /\ Again.doc \in DOMAIN objects /\ Table(objects)
      /\ EntryNamed(Again, objects, oids, nextOid) /\ DOMAIN oids = DOMAIN objects
  BY <1>1, <1>2, AgainFacts DEF CoreTypes, Named
<1>4. \A o \in DOMAIN ghosts : ghosts[o].value \in Nat  BY <1>2 DEF InReplay
<1>5. CASE AgainRefused
  <2>1. /\ objects' = objects /\ running' = running /\ ghosts' = ghosts /\ failed' = TRUE
        /\ process' = Again.process
    BY <1>5 DEF AgainRefused, ProcessOf
  <2>2. process' \in Process  BY <1>3, <2>1 DEF HistoryEntries
  <2>3. /\ Table(objects') /\ DOMAIN objects' = DOMAIN objects
        /\ DocumentsOf(objects') = DocumentsOf(objects)
        /\ \A h \in DOMAIN objects :
             /\ objects'[h].kind = objects[h].kind /\ objects'[h].doc = objects[h].doc
             /\ objects[h].doc # Again.doc => objects'[h] = objects[h]
    BY <1>3, <2>1
  <2>4. failed' \in BOOLEAN /\ \A o \in DOMAIN ghosts' : ghosts'[o].value \in Nat
    BY <1>4, <2>1
  <2> QED  BY <1>1, <1>2, <2>1, <2>2, <2>3, <2>4, CoreSaneAfterReplay
<1>6. CASE AgainRan
  <2>1. /\ AgainAlive \/ Again.target \in DOMAIN ghosts
        /\ process' = AgainEffect.process
        /\ running' = [running EXCEPT !.missed = @ \cup AgainEffect.missed]
        /\ failed' \in BOOLEAN
    BY <1>6 DEF AgainRan
  <2>2. /\ AgainEffect.process \in Process /\ AgainEffect.missed \in SUBSET CMaps
        /\ Table(AgainObjects) /\ DocumentsOf(AgainObjects) = DocumentsOf(objects)
        /\ DOMAIN AgainObjects = DOMAIN objects
        /\ \A h \in DOMAIN objects :
             /\ AgainObjects[h].kind = objects[h].kind /\ AgainObjects[h].doc = objects[h].doc
             /\ h # Again.doc => AgainObjects[h] = objects[h]
        /\ AgainPage \in TableObjects /\ AgainPage.kind = KindMade(Again.op)
        /\ AgainPage.doc = Again.doc /\ AgainPage.log = <<>> /\ AgainPage.kind # "document"
    BY <1>1, <1>2, <2>1, AgainIs
  <2>3. \A h \in DOMAIN objects : objects[h].doc # Again.doc => h # Again.doc
    BY <1>3 DEF Table, DocumentsOf
  <2>4. AgainPage.value \in Nat  BY <2>2 DEF TableObjects
  <2>5. objects' = AgainObjects \/ \E h \in DOMAIN objects :
          /\ objects[h].doc = Again.doc /\ objects[h].kind = KindMade(Again.op)
          /\ objects' = [AgainObjects EXCEPT ![h] = AgainPage]
    <3> SUFFICES ASSUME Again.created # <<>>, Live(Again.created[1]),
                        objects' = [AgainObjects EXCEPT ![HandleOf(Again.created[1])] = AgainPage]
                 PROVE  \E h \in DOMAIN objects :
                          /\ objects[h].doc = Again.doc /\ objects[h].kind = KindMade(Again.op)
                          /\ objects' = [AgainObjects EXCEPT ![h] = AgainPage]
      BY <1>6 DEF AgainRan
    <3>1. HandleOf(Again.created[1]) \in DOMAIN oids
          /\ oids[HandleOf(Again.created[1])] = Again.created[1]
      BY HandleOfIs
    <3> QED  BY <1>3, <3>1 DEF EntryNamed
  <2>6. /\ Table(objects') /\ DOMAIN objects' = DOMAIN objects
        /\ DocumentsOf(objects') = DocumentsOf(objects)
        /\ \A h \in DOMAIN objects :
             /\ objects'[h].kind = objects[h].kind /\ objects'[h].doc = objects[h].doc
             /\ objects[h].doc # Again.doc => objects'[h] = objects[h]
    <3>1. CASE objects' = AgainObjects  BY <2>2, <2>3, <3>1
    <3>2. CASE \E h \in DOMAIN objects :
            /\ objects[h].doc = Again.doc /\ objects[h].kind = KindMade(Again.op)
            /\ objects' = [AgainObjects EXCEPT ![h] = AgainPage]
      <4>1. PICK h \in DOMAIN objects :
            /\ objects[h].doc = Again.doc /\ objects[h].kind = KindMade(Again.op)
            /\ objects' = [AgainObjects EXCEPT ![h] = AgainPage]
        BY <3>2
      <4>2. /\ DOMAIN objects' = DOMAIN objects /\ objects'[h] = AgainPage
            /\ \A k \in DOMAIN objects : k # h => objects'[k] = AgainObjects[k]
        BY <2>2, <4>1
      <4>3. objects' \in [DOMAIN AgainObjects -> TableObjects]
        BY <2>2, <4>1 DEF Table
      <4>4. \A k \in DOMAIN AgainObjects :
             /\ objects'[k].kind = AgainObjects[k].kind /\ objects'[k].doc = AgainObjects[k].doc
             /\ AgainObjects[k].kind = "document" => objects'[k].value = 1
             /\ AgainObjects[k].kind # "document" => objects'[k].log = <<>>
        BY <2>2, <4>1, <4>2 DEF Table
      <4>5. Table(objects') /\ DocumentsOf(objects') = DocumentsOf(AgainObjects)
        BY <2>2, <4>3, <4>4, TableAlike
      <4> QED  BY <2>2, <2>3, <4>1, <4>2, <4>4, <4>5
    <3> QED  BY <2>5, <3>1, <3>2
  <2>7. \A o \in DOMAIN ghosts' : ghosts'[o].value \in Nat
    <3>1. ghosts' = ghosts \/ ghosts' = With(ghosts, Again.created[1], AgainPage)
      BY <1>6 DEF AgainRan
    <3> QED  BY <1>4, <2>4, <3>1 DEF With
  <2>8. process' \in Process /\ \E m \in SUBSET CMaps : running' = [running EXCEPT !.missed = @ \cup m]
    BY <2>1, <2>2
  <2> QED  BY <1>1, <1>2, <2>1, <2>6, <2>7, <2>8, CoreSaneAfterReplay
<1> QED  BY <1>1, <1>5, <1>6

\* Every step of the core keeps it sane.
LEMMA CoreSaneStep ==
    ASSUME CoreSane, [Next]_vars
    PROVE  CoreSane'
<1>1. CASE Open  BY <1>1, CoreSaneOpen
<1>2. CASE \E h \in Handles : Free(h)  BY <1>2, CoreSaneFree
<1>3. CASE (\E rs \in RequestsOn(objects) : Call(rs)) \/ CallAgain  BY <1>3, CoreSaneCall
<1>4. CASE RunOp  BY <1>4, CoreSaneRunOp
<1>5. CASE Respond  BY <1>5, CoreSaneRespond
<1>6. CASE Void  BY <1>6, CoreSaneVoid
<1>7. CASE ReplayOpen  BY <1>7, CoreSaneReplayOpen
<1>8. CASE ReplayOp  BY <1>8, CoreSaneReplayOp
<1>9. CASE EndVoid  BY <1>9, CoreSaneEndVoid
<1>10. CASE (\E c \in CMaps : AddCMap(c)) \/ (\E got \in SUBSET CMaps : HandOver(got)) \/ Abandon
  BY <1>10, CoreSaneCMaps
<1>11. CASE UNCHANGED vars
  <2>1. /\ objects' = objects /\ oids' = oids /\ nextOid' = nextOid /\ flags' = flags
        /\ history' = history /\ process' = process /\ loaded' = loaded /\ phase' = phase
        /\ calls' = calls /\ pending' = pending /\ todo' = todo /\ replay' = replay
        /\ failed' = failed /\ ghosts' = ghosts /\ running' = running /\ before' = before
    BY <1>11 DEF vars, documents, cmapState, callState, js
  <2>2. CoreTypes' <=> CoreTypes  BY <2>1 DEF CoreTypes
  <2>3. AtRest' <=> AtRest  BY <2>1 DEF AtRest
  <2>4. InCall' <=> InCall  BY <2>1 DEF InCall, Broken
  <2>5. InRun' <=> InRun  BY <2>1, <2>4 DEF InRun, Made
  <2>6. InReplay' <=> InReplay  BY <2>1, <2>4 DEF InReplay
  <2> QED  BY <2>1, <2>2, <2>3, <2>5, <2>6 DEF CoreSane
<1> QED
  BY <1>1, <1>2, <1>3, <1>4, <1>5, <1>6, <1>7, <1>8, <1>9, <1>10, <1>11 DEF Next

\* THEOREM: in every state the names are right, whatever the calls, their number and that of
\* the documents: each object has its document, each entry its object, each identity one
\* owner (ops.rs `Core`: handles, oids, live, history).
THEOREM CoreIsSane == Spec => []CoreSane
<1>1. Init => CoreSane  BY CoreSaneInit
<1>2. CoreSane /\ [Next]_vars => CoreSane'  BY CoreSaneStep
<1> QED  BY <1>1, <1>2, PTL DEF Spec

\* THEOREM: no two handles have one identity, and none has one that is still to be given:
\* an entry of the history that names the identity of an object never comes to name another
\* (IdentitiesAreUnique; ops.rs `oids` and `live`, `next_oid`).
THEOREM IdentitiesAlwaysUnique == Spec => []IdentitiesAreUnique
<1>1. CoreSane => IdentitiesAreUnique
  <2> SUFFICES ASSUME CoreSane  PROVE IdentitiesAreUnique
    OBVIOUS
  <2>1. Named(objects, oids, nextOid)
        /\ \A i \in DOMAIN history : EntryNamed(history[i], objects, oids, nextOid)
    BY DEF CoreSane, CoreTypes
  <2>2. \A h, k \in DOMAIN oids : oids[h] = oids[k] => h = k  BY <2>1 DEF Named
  <2>3. ASSUME NEW i \in DOMAIN history, Live(history[i].target)
        PROVE  objects[HandleOf(history[i].target)].doc = history[i].doc
    <3>1. HandleOf(history[i].target) \in DOMAIN oids
          /\ oids[HandleOf(history[i].target)] = history[i].target
      BY <2>3, HandleOfIs
    <3> QED  BY <2>1, <3>1 DEF EntryNamed
  <2>4. \A i \in DOMAIN history : history[i].doc \in DocumentsOf(objects)
    BY <2>1 DEF EntryNamed
  <2> QED  BY <2>2, <2>3, <2>4 DEF IdentitiesAreUnique
<1> QED  BY <1>1, CoreIsSane, PTL

-----------------------------------------------------------------------------

(* Rebuildable: the history tells the log. *)

\* The first events of a log, and the log with one more.
LEMMA FirstEvents ==
    ASSUME NEW R, NEW log \in Seq(R), NEW v \in R, NEW n \in 0 .. Len(log)
    PROVE  SubSeq(Append(log, v), 1, n) = SubSeq(log, 1, n)
<1> DEFINE t == Append(log, v)  k == Len(log)  s == SubSeq(t, 1, n)  u == SubSeq(log, 1, n)
<1>1. t \in Seq(R) /\ Len(t) = k + 1 /\ k \in Nat /\ n \in Nat /\ n <= k
      /\ \A i \in 1 .. k : t[i] = log[i]
  OBVIOUS
<1> HIDE DEF t, k
<1>2. s \in Seq(R) /\ Len(s) = n /\ \A i \in 1 .. n : s[i] = t[i]
  BY <1>1
<1>3. u \in Seq(R) /\ Len(u) = n /\ \A i \in 1 .. n : u[i] = log[i]
  BY <1>1 DEF k
<1>4. \A i \in 1 .. n : s[i] = u[i]
  <2> HIDE DEF s, u
  <2> QED  BY <1>1, <1>2, <1>3
<1> HIDE DEF s, u
<1>5. s = u  BY <1>2, <1>3, <1>4, SeqEqual
<1> QED  BY <1>5 DEF s, u, t

\* All the events of a log are the log.
LEMMA AllEvents ==
    ASSUME NEW R, NEW log \in Seq(R)
    PROVE  SubSeq(log, 1, Len(log)) = log
<1> DEFINE n == Len(log)  s == SubSeq(log, 1, n)
<1>1. n \in Nat /\ s \in Seq(R) /\ Len(s) = n /\ \A i \in 1 .. n : s[i] = log[i]
  OBVIOUS
<1>2. Len(log) = n /\ log \in Seq(R)  OBVIOUS
<1> HIDE DEF n, s
<1>3. s = log  BY <1>1, <1>2, SeqEqual
<1> QED  BY <1>3 DEF s, n

\* The first n events of a log are the n - 1 before, and the n-th.
LEMMA OneEventMore ==
    ASSUME NEW R, NEW log \in Seq(R), NEW n \in 1 .. Len(log)
    PROVE  SubSeq(log, 1, n) = Append(SubSeq(log, 1, n - 1), log[n])
<1> DEFINE s == SubSeq(log, 1, n)  u == SubSeq(log, 1, n - 1)  t == Append(u, log[n])
<1>1. n \in Nat /\ n >= 1 /\ n <= Len(log) /\ Len(log) \in Nat  OBVIOUS
<1>2. s \in Seq(R) /\ Len(s) = n /\ \A i \in 1 .. n : s[i] = log[i]
  BY <1>1
<1>3. u \in Seq(R) /\ Len(u) = n - 1 /\ \A i \in 1 .. n - 1 : u[i] = log[i]
  BY <1>1
<1>4. log[n] \in R  BY <1>1
<1> HIDE DEF s, u
<1>5. t \in Seq(R) /\ Len(t) = n /\ \A i \in 1 .. n : t[i] = log[i]
  BY <1>1, <1>3, <1>4
<1> HIDE DEF t
<1>6. s = t  BY <1>2, <1>5, SeqEqual
<1> QED  BY <1>6 DEF s, t, u

\* What an event made does not depend on what comes after it.
LEMMA ValueMadeBefore ==
    ASSUME NEW R, NEW log \in Seq(R), NEW v \in R, NEW n \in 1 .. Len(log)
    PROVE  ValueMade(Append(log, v), n) = ValueMade(log, n)
<1>1. SubSeq(Append(log, v), 1, n) = SubSeq(log, 1, n)  BY FirstEvents
<1> QED  BY <1>1 DEF ValueMade

\* The last event made what the log answers with.
LEMMA ValueMadeLast ==
    ASSUME NEW R, NEW log \in Seq(R), Len(log) # 1
    PROVE  ValueMade(log, Len(log)) = PageAnswered(log)
BY AllEvents DEF ValueMade

\* The CMaps given grow: what was found still is.
LEMMA SawMore ==
    ASSUME NEW c, NEW log, NEW p, NEW given, NEW given2, given \subseteq given2,
           Missed(c, log, p, given) = {}
    PROVE  /\ Saw(c, log, p, given2) = Saw(c, log, p, given)
           /\ Missed(c, log, p, given2) = {}
<1>1. c = NoCMap \/ InFontCache(c, log) \/ Found(c, p, given)  BY DEF Missed
<1>2. Found(c, p, given) => Found(c, p, given2)  BY DEF Found
<1>3. CASE c = NoCMap  BY <1>3 DEF Saw, Missed
<1>4. CASE c # NoCMap /\ InFontCache(c, log)  BY <1>4 DEF Saw, Missed
<1>5. CASE c # NoCMap /\ ~InFontCache(c, log)  BY <1>1, <1>2, <1>5 DEF Saw, Missed
<1> QED  BY <1>3, <1>4, <1>5

\* A log that is told with some CMaps is told with more.
LEMMA ToldMore ==
    ASSUME NEW entries, NEW log, NEW given, NEW given2, given \subseteq given2,
           Told(entries, log, given)
    PROVE  Told(entries, log, given2)
<1>1. ASSUME NEW n, EventTold(entries, log, n, given)
      PROVE  EventTold(entries, log, n, given2)
  <2> DEFINE e == entries[n]  was == SubSeq(log, 1, n - 1)
  <2>1. n # 1 => /\ Saw(e.cmap, was, e.process, given2) = Saw(e.cmap, was, e.process, given)
                 /\ Missed(e.cmap, was, e.process, given2) = {}
    BY <1>1, SawMore DEF EventTold
  <2> QED  BY <1>1, <2>1 DEF EventTold
<1> QED  BY <1>1 DEF Told

\* What an event tells does not depend on what comes after it.
LEMMA EventToldBefore ==
    ASSUME NEW entries \in Seq(HistoryEntries), NEW log \in Seq(Events),
           NEW e \in HistoryEntries, NEW v \in Events, Len(entries) = Len(log),
           NEW n \in 1 .. Len(log), NEW given
    PROVE  /\ ToMake(Append(entries, e), Append(log, v), n) <=> ToMake(entries, log, n)
           /\ EventTold(Append(entries, e), Append(log, v), n, given) <=>
                EventTold(entries, log, n, given)
<1> DEFINE es == Append(entries, e)  l == Append(log, v)  k == Len(log)
<1> HIDE DEF HistoryEntries, Events
<1>1. k \in Nat /\ n \in Nat /\ n >= 1 /\ n <= k /\ n - 1 \in 0 .. k  OBVIOUS
<1>2. \A m \in 1 .. k : es[m] = entries[m] /\ l[m] = log[m]  OBVIOUS
<1>3. \A m \in 1 .. k : ValueMade(l, m) = ValueMade(log, m)
  BY ValueMadeBefore
<1>4. SubSeq(l, 1, n - 1) = SubSeq(log, 1, n - 1)  BY <1>1, FirstEvents
<1> HIDE DEF es, l, k
<1>5. es[n] = entries[n] /\ l[n] = log[n] /\ ValueMade(l, n) = ValueMade(log, n)
      /\ (n = 1 => l[1] = log[1])
  BY <1>1, <1>2, <1>3
<1>6. \A m \in 1 .. n - 1 : es[m] = entries[m] /\ ValueMade(l, m) = ValueMade(log, m)
  BY <1>1, <1>2, <1>3
<1>7. ToMake(es, l, n) <=> ToMake(entries, log, n)
  BY <1>5, <1>6 DEF ToMake
<1>8. ActsOn(es, l, n) <=> ActsOn(entries, log, n)
  BY <1>5, <1>6 DEF ActsOn
<1>9. EventTold(es, l, n, given) <=> EventTold(entries, log, n, given)
  BY <1>4, <1>5, <1>7, <1>8 DEF EventTold
<1> QED  BY <1>7, <1>9 DEF es, l

\* The entries that made an object made a page, unless they opened the document or
\* derived a page.
LEMMA MadePages ==
    ASSUME NEW entries \in Seq(HistoryEntries), NEW log \in Seq(Events), NEW given,
           Told(entries, log, given), NEW m \in DOMAIN log,
           entries[m].created # <<>>, KindMade(entries[m].op) = "page"
    PROVE  MakesPage(entries[m]) /\ m # 1
<1> HIDE DEF HistoryEntries, Events
<1>1. EventTold(entries, log, m, given)  BY DEF Told
<1>2. m # 1 /\ entries[m].op = log[m].op /\ ToMake(entries, log, m)
      /\ entries[m].op # "open" /\ entries[m].op # "crop"
  BY <1>1 DEF EventTold, KindMade
<1>3. PageAnswered(SubSeq(log, 1, m)) # 0  BY <1>2 DEF ToMake, ValueMade
<1>4. m \in 1 .. Len(log) /\ Len(log) \in Nat  OBVIOUS
<1> DEFINE s == SubSeq(log, 1, m)
<1>5. Len(s) = m /\ s[m] = log[m]  BY <1>4
<1> HIDE DEF s
<1>6. PageAnswered(s) # 0 /\ Len(s) = m /\ s[m] = log[m]  BY <1>3, <1>5 DEF s
<1>7. log[m].op \in {"pages", "annots", "crop"}  BY <1>6, PageAnsweredZero
<1> QED  BY <1>2, <1>7 DEF MakesPage

\* The pages of a document hold what the first k events made, those after hold
\* nothing, and the pages of pdf.pages are there.
PagesHeld(os, ids, d, entries, log, k) ==
    /\ \A h \in DOMAIN os : os[h].kind = "page" /\ os[h].doc = d =>
         \E m \in DOMAIN entries :
           /\ entries[m].created = <<ids[h]>>
           /\ os[h].value = IF m <= k THEN ValueMade(log, m) ELSE 0
    /\ \A m \in DOMAIN entries :
         MakesPage(entries[m]) => \E h \in DOMAIN os : entries[m].created = <<ids[h]>>

\* A page is found among the objects when one of those events made it.
LEMMA FoundWhenMade ==
    ASSUME NEW entries \in Seq(HistoryEntries), NEW log \in Seq(Events), NEW given,
           Told(entries, log, given), NEW os, NEW ids, NEW next, NEW d,
           \A m \in DOMAIN entries : entries[m].doc = d /\ EntryNamed(entries[m], os, ids, next),
           NEW k \in 0 .. Len(log), PagesHeld(os, ids, d, entries, log, k),
           DOMAIN ids = DOMAIN os, NEW v, v # 0
    PROVE  (\A h \in DOMAIN os : ~ /\ os[h].kind = "page"
                                   /\ os[h].doc = d
                                   /\ os[h].value = v)
           <=> (\A m \in 1 .. k : MakesPage(entries[m]) => ValueMade(log, m) # v)
<1> HIDE DEF HistoryEntries, Events
<1>1. Len(entries) = Len(log) /\ DOMAIN entries = DOMAIN log /\ DOMAIN log = 1 .. Len(log)
      /\ Len(log) \in Nat /\ k \in Nat /\ k <= Len(log)
  BY DEF Told
<1>2. \A m \in DOMAIN entries, h \in DOMAIN os :
        entries[m].created = <<ids[h]>> =>
          entries[m].created # <<>> /\ os[h].doc = d /\ os[h].kind = KindMade(entries[m].op)
  <2> SUFFICES ASSUME NEW m \in DOMAIN entries, NEW h \in DOMAIN os,
                      entries[m].created = <<ids[h]>>
               PROVE  entries[m].created # <<>> /\ os[h].doc = d
                      /\ os[h].kind = KindMade(entries[m].op)
    OBVIOUS
  <2>1. entries[m].created # <<>> /\ entries[m].created[1] = ids[h]  OBVIOUS
  <2>2. EntryNamed(entries[m], os, ids, next) /\ entries[m].doc = d  OBVIOUS
  <2> QED  BY <2>1, <2>2 DEF EntryNamed
<1>3. ASSUME NEW h \in DOMAIN os, os[h].kind = "page", os[h].doc = d, os[h].value = v
      PROVE  \E m \in 1 .. k : MakesPage(entries[m]) /\ ValueMade(log, m) = v
  <2>1. PICK m \in DOMAIN entries :
          /\ entries[m].created = <<ids[h]>>
          /\ os[h].value = IF m <= k THEN ValueMade(log, m) ELSE 0
    BY <1>3 DEF PagesHeld
  <2>2. m <= k /\ ValueMade(log, m) = v  BY <1>3, <2>1
  <2>3. entries[m].created # <<>> /\ KindMade(entries[m].op) = "page"  BY <1>2, <1>3, <2>1
  <2>4. MakesPage(entries[m])  BY <1>1, <2>3, MadePages
  <2>5. m \in 1 .. k  BY <1>1, <2>2
  <2> QED  BY <2>2, <2>4, <2>5
<1>4. ASSUME NEW m \in 1 .. k, MakesPage(entries[m]), ValueMade(log, m) = v
      PROVE  \E h \in DOMAIN os : os[h].kind = "page" /\ os[h].doc = d /\ os[h].value = v
  <2>1. m \in DOMAIN entries /\ m <= k  BY <1>1
  <2>2. PICK h \in DOMAIN os : entries[m].created = <<ids[h]>>  BY <1>4, <2>1 DEF PagesHeld
  <2>3. os[h].doc = d /\ os[h].kind = KindMade(entries[m].op)  BY <1>2, <2>1, <2>2
  <2>4. os[h].kind = "page"  BY <1>4, <2>3 DEF MakesPage, KindMade
  <2>5. PICK n \in DOMAIN entries :
          /\ entries[n].created = <<ids[h]>>
          /\ os[h].value = IF n <= k THEN ValueMade(log, n) ELSE 0
    BY <2>3, <2>4 DEF PagesHeld
  <2>6. entries[m].created # <<>> /\ entries[m].created = entries[n].created
    BY <1>2, <2>1, <2>2, <2>5
  <2>7. n = m  BY <1>1, <2>1, <2>6 DEF Told
  <2> QED  BY <1>4, <2>1, <2>3, <2>4, <2>5, <2>7
<1> QED  BY <1>3, <1>4

\* Known pages are held.
LEMMA KnownHolds ==
    ASSUME NEW os, NEW ids, NEW d, NEW entries \in Seq(HistoryEntries), NEW log,
           Known(os, ids, d, entries, log)
    PROVE  PagesHeld(os, ids, d, entries, log, Len(entries))
<1>1. \A m \in DOMAIN entries : m <= Len(entries)  OBVIOUS
<1>2. \A m \in DOMAIN entries : MakesPage(entries[m]) =>
        entries[m].created # <<>> /\ entries[m].op # "crop"
  BY DEF MakesPage
<1> QED  BY <1>1, <1>2 DEF Known, PagesHeld

\* The log of a document that is told, with one entry and one event more.
LEMMA ToldOneMore ==
    ASSUME NEW entries \in Seq(HistoryEntries), NEW log \in Seq(Events), NEW given,
           Told(entries, log, given), NEW e \in HistoryEntries, NEW v \in Events,
           EventTold(Append(entries, e), Append(log, v), Len(log) + 1, given),
           e.created = <<>> \/ \A m \in DOMAIN entries : entries[m].created # e.created
    PROVE  Told(Append(entries, e), Append(log, v), given)
<1> DEFINE es == Append(entries, e)  l == Append(log, v)  k == Len(log)
<1> HIDE DEF HistoryEntries, Events
<1>1. /\ Len(entries) = k /\ k \in Nat /\ log # <<>>
      /\ \A n \in 1 .. k : EventTold(entries, log, n, given)
      /\ \A m, n \in 1 .. k :
           entries[m].created # <<>> /\ entries[m].created = entries[n].created => m = n
  BY DEF Told
<1>2. \A n \in 1 .. k : EventTold(es, l, n, given)
  BY <1>1, EventToldBefore
<1>3. EventTold(es, l, k + 1, given)  OBVIOUS
<1>4. l # <<>> /\ es # <<>> /\ Len(es) = k + 1 /\ Len(l) = k + 1 /\ DOMAIN l = 1 .. k + 1
      /\ es[k + 1] = e /\ \A m \in 1 .. k : es[m] = entries[m]
  BY <1>1
<1>5. \A m \in 1 .. k : m \in DOMAIN entries  BY <1>1
<1> HIDE DEF es, l, k
<1>6. \A n \in 1 .. k + 1 : n \in 1 .. k \/ n = k + 1  BY <1>1
<1>7. \A n \in DOMAIN l : EventTold(es, l, n, given)  BY <1>2, <1>3, <1>4, <1>6
<1>8. \A m, n \in DOMAIN l : es[m].created # <<>> /\ es[m].created = es[n].created => m = n
  BY <1>1, <1>4, <1>5, <1>6
<1>9. Told(es, l, given)  BY <1>4, <1>7, <1>8 DEF Told
<1> QED  BY <1>9 DEF es, l

\* What is known of a document, with one entry and one event more, and their object.
LEMMA KnownOneMore ==
    ASSUME NEW entries \in Seq(HistoryEntries), NEW log \in Seq(Events),
           Len(entries) = Len(log), NEW e \in HistoryEntries, NEW v \in Events,
           NEW os, NEW ids, NEW d, Known(os, ids, d, entries, log), NEW os2, NEW ids2,
           DOMAIN os \subseteq DOMAIN os2,
           \A h \in DOMAIN os : ids2[h] = ids[h],
           \A h \in DOMAIN os2 : os2[h].doc = d =>
             \/ /\ h \in DOMAIN os /\ os[h].doc = d /\ os2[h].kind = os[h].kind
                /\ os2[h].value = os[h].value
             \/ /\ e.created = <<ids2[h]>> /\ os2[h].kind = KindMade(e.op)
                /\ os2[h].value = ValueMade(Append(log, v), Len(log) + 1),
           e.created # <<>> => \E h \in DOMAIN os2 : e.created = <<ids2[h]>>
    PROVE  Known(os2, ids2, d, Append(entries, e), Append(log, v))
<1> DEFINE es == Append(entries, e)  l == Append(log, v)  k == Len(log)
<1> HIDE DEF HistoryEntries, Events
<1>1. Len(entries) = k /\ k \in Nat /\ DOMAIN es = 1 .. k + 1 /\ DOMAIN entries = 1 .. k
      /\ es[k + 1] = e /\ \A m \in 1 .. k : es[m] = entries[m]
  OBVIOUS
<1>2. \A m \in 1 .. k : ValueMade(l, m) = ValueMade(log, m)  BY ValueMadeBefore
<1> HIDE DEF es, k
<1>3. \A n \in DOMAIN es : n \in DOMAIN entries \/ n = k + 1  BY <1>1
<1>4. k + 1 \in DOMAIN es /\ DOMAIN entries \subseteq DOMAIN es  BY <1>1
<1>5. ASSUME NEW h \in DOMAIN os2, os2[h].doc = d
      PROVE  \E n \in DOMAIN es :
               /\ es[n].created = <<ids2[h]>>
               /\ os2[h].value = ValueMade(l, n)
               /\ os2[h].kind = KindMade(es[n].op)
  <2>1. CASE h \in DOMAIN os /\ os[h].doc = d /\ os2[h].kind = os[h].kind
             /\ os2[h].value = os[h].value
    <3>1. PICK n \in DOMAIN entries :
            /\ entries[n].created = <<ids[h]>>
            /\ os[h].value = ValueMade(log, n)
            /\ os[h].kind = KindMade(entries[n].op)
      BY <2>1 DEF Known
    <3>2. es[n] = entries[n] /\ ValueMade(l, n) = ValueMade(log, n) /\ ids2[h] = ids[h]
      BY <1>1, <1>2, <2>1
    <3> QED  BY <1>4, <2>1, <3>1, <3>2
  <2>2. CASE e.created = <<ids2[h]>> /\ os2[h].kind = KindMade(e.op)
             /\ os2[h].value = ValueMade(l, k + 1)
    BY <1>1, <1>4, <2>2
  <2> QED  BY <1>5, <2>1, <2>2 DEF k
<1>6. ASSUME NEW n \in DOMAIN es, es[n].created # <<>>, es[n].op # "crop"
      PROVE  \E h \in DOMAIN os2 : es[n].created = <<ids2[h]>>
  <2>1. CASE n \in DOMAIN entries
    <3>1. es[n] = entries[n]  BY <1>1, <2>1
    <3>2. PICK h \in DOMAIN os : entries[n].created = <<ids[h]>>
      BY <1>6, <2>1, <3>1 DEF Known
    <3> QED  BY <3>1, <3>2
  <2>2. CASE n = k + 1  BY <1>1, <1>6, <2>2
  <2> QED  BY <1>3, <2>1, <2>2
<1>7. Known(os2, ids2, d, es, l)
  <2> HIDE DEF l
  <2> QED  BY <1>5, <1>6 DEF Known
<1> QED  BY <1>7 DEF es

\* What is known of a document stays known while its objects are the same, derived
\* pages that are freed apart.
LEMMA KnownSame ==
    ASSUME NEW os, NEW ids, NEW d, NEW entries, NEW log, Known(os, ids, d, entries, log),
           NEW os2, NEW ids2,
           \A h \in DOMAIN os2 : os2[h].doc = d =>
             /\ h \in DOMAIN os /\ os[h].doc = d /\ ids2[h] = ids[h]
             /\ os2[h].kind = os[h].kind /\ os2[h].value = os[h].value,
           \A h \in DOMAIN os, n \in DOMAIN entries :
             entries[n].created = <<ids[h]>> /\ entries[n].op # "crop" =>
               h \in DOMAIN os2 /\ ids2[h] = ids[h]
    PROVE  Known(os2, ids2, d, entries, log)
<1>1. ASSUME NEW h \in DOMAIN os2, os2[h].doc = d
      PROVE  \E n \in DOMAIN entries :
               /\ entries[n].created = <<ids2[h]>>
               /\ os2[h].value = ValueMade(log, n)
               /\ os2[h].kind = KindMade(entries[n].op)
  <2>1. PICK n \in DOMAIN entries :
          /\ entries[n].created = <<ids[h]>>
          /\ os[h].value = ValueMade(log, n)
          /\ os[h].kind = KindMade(entries[n].op)
    BY <1>1 DEF Known
  <2> QED  BY <1>1, <2>1
<1>2. ASSUME NEW n \in DOMAIN entries, entries[n].created # <<>>, entries[n].op # "crop"
      PROVE  \E h \in DOMAIN os2 : entries[n].created = <<ids2[h]>>
  <2>1. PICK h \in DOMAIN os : entries[n].created = <<ids[h]>>  BY <1>2 DEF Known
  <2> QED  BY <1>2, <2>1
<1> QED  BY <1>1, <1>2 DEF Known

\* The entries of a document, in a history whose entries are named.
LEMMA EntriesNamed ==
    ASSUME NEW hs \in Seq(HistoryEntries), NEW d, NEW os, NEW ids, NEW next,
           \A i \in DOMAIN hs : EntryNamed(hs[i], os, ids, next)
    PROVE  /\ EntriesOf(hs, d) \in Seq(HistoryEntries)
           /\ \A n \in DOMAIN EntriesOf(hs, d) :
                /\ EntriesOf(hs, d)[n] \in HistoryEntries
                /\ EntriesOf(hs, d)[n].doc = d
                /\ EntryNamed(EntriesOf(hs, d)[n], os, ids, next)
                /\ \E i \in DOMAIN hs : EntriesOf(hs, d)[n] = hs[i]
<1> DEFINE es == EntriesOf(hs, d)
<1>1. /\ es \in Seq(HistoryEntries)
      /\ \A k \in DOMAIN es : es[k].doc = d /\ \E i \in DOMAIN hs : es[k] = hs[i]
  BY EntriesType
<1> HIDE DEF es, HistoryEntries
<1>2. \A n \in DOMAIN es : es[n] \in HistoryEntries  BY <1>1
<1>3. \A n \in DOMAIN es : EntryNamed(es[n], os, ids, next)  BY <1>1
<1> QED  BY <1>1, <1>2, <1>3 DEF es

\* A history that tells has entries for every document it can rebuild.
LEMMA TellsMore ==
    ASSUME NEW os, NEW ids, NEW hs, NEW fs, NEW fs2, NEW given, NEW given2,
           HistoryTells(os, ids, hs, fs, given), given \subseteq given2,
           Recorded(fs2) \subseteq Recorded(fs)
    PROVE  HistoryTells(os, ids, hs, fs2, given2)
<1>1. \A d \in Recorded(fs2) : Told(EntriesOf(hs, d), os[d].log, given2)
  BY ToldMore DEF HistoryTells
<1> QED  BY <1>1 DEF HistoryTells

\* ... the history and the flags at the start of a call among them.
LEMMA TellsKept ==
    ASSUME CoreTypes, NEW os, NEW ids, NEW given, NEW given2, given \subseteq given2,
           HistoryTells(os, ids, history, flags, given)
    PROVE  HistoryTells(os, ids, KeptHistory, KeptFlags, given2)
<1>1. CASE ~Complete  BY <1>1, TellsMore DEF KeptHistory, KeptFlags
<1>2. CASE Complete
  <2>1. KeptHistory = <<>>  BY <1>2 DEF KeptHistory
  <2>2. Recorded(KeptFlags) = {}
    <3>1. CASE history = <<>>
      <4>1. KeptFlags = flags  BY <3>1 DEF KeptFlags
      <4>2. ASSUME NEW d \in Recorded(flags)
            PROVE  FALSE
        <5>1. Told(EntriesOf(history, d), os[d].log, given)  BY <4>2 DEF HistoryTells
        <5>2. EntriesOf(history, d) = <<>>  BY <3>1, NoEntries
        <5> QED  BY <5>1, <5>2 DEF Told
      <4> QED  BY <4>1, <4>2
    <3>2. CASE history # <<>>
      <4>1. KeptFlags = [d \in DOMAIN flags |-> [flags[d] EXCEPT !.unrecorded = TRUE]]
        BY <1>2, <3>2 DEF KeptFlags
      <4>2. \A d \in DOMAIN flags : flags[d] \in Flags  BY DEF CoreTypes
      <4>3. \A d \in DOMAIN KeptFlags : KeptFlags[d].unrecorded = TRUE
        BY <4>1, <4>2 DEF Flags
      <4> QED  BY <4>3 DEF Recorded
    <3> QED  BY <3>1, <3>2
  <2>3. MadeOnce(<<>>)  BY DEF MadeOnce
  <2> QED  BY <2>1, <2>2, <2>3 DEF HistoryTells
<1> QED  BY <1>1, <1>2

-----------------------------------------------------------------------------

(* Rebuildable, step by step: opening, freeing, a call and its operations. *)

\* An empty core has nothing to tell.
LEMMA RebuildableInit ==
    ASSUME Init
    PROVE  Rebuildable
<1>1. phase = "idle" /\ history = <<>> /\ flags = <<>>  BY DEF Init
<1>2. Recorded(flags) = {} /\ MadeOnce(history)  BY <1>1 DEF Recorded, MadeOnce
<1>3. HistoryTells(objects, oids, history, flags, loaded)  BY <1>2 DEF HistoryTells
<1> QED  BY <1>1, <1>3 DEF Rebuildable

\* The first entry of a document tells its opening.
LEMMA RebuildableOpen ==
    ASSUME CoreSane, Rebuildable, Open
    PROVE  Rebuildable'
<1> DEFINE h == Fresh(DOMAIN objects)
           e == Entry("open", NoCMap, 0, <<nextOid>>, h, process, "done")
           o == Document(h, <<Opening>>)
           f == [NoFlags EXCEPT !.unrecorded = Complete]
<1>1. /\ phase = "idle" /\ phase' = "idle" /\ loaded' = loaded
      /\ ~ Handles \subseteq DOMAIN objects
      /\ objects' = With(objects, h, o)
      /\ oids' = With(oids, h, nextOid)
      /\ flags' = With(KeptFlags, h, f)
      /\ history' = IF Complete THEN <<>> ELSE Append(history, e)
  BY DEF Open, NewCall, callState, cmapState
<1>2. CoreTypes /\ HistoryTells(objects, oids, history, flags, loaded)
  BY <1>1 DEF CoreSane, Rebuildable
<1>3. h \in Handles \ DOMAIN objects  BY <1>1, FreshIsFree
<1>4. h \in Nat  BY <1>3, OperationsAssumption
<1>5. /\ Table(objects) /\ DOMAIN oids = DOMAIN objects /\ nextOid \in Nat \ {0}
      /\ history \in Seq(HistoryEntries) /\ DOMAIN flags = DocumentsOf(objects)
      /\ \A i \in DOMAIN history : EntryNamed(history[i], objects, oids, nextOid)
      /\ process \in Process /\ calls \in Nat
  BY <1>2 DEF CoreTypes, Named
<1>6. /\ o \in TableObjects /\ o.kind = "document" /\ o.doc = h /\ o.value = 1
      /\ o.log = <<Opening>> /\ Opening \in Events
  BY <1>4, OpenObject
<1>7. e \in HistoryEntries /\ e.doc = h /\ e.op = "open" /\ e.cmap = NoCMap /\ e.target = 0
      /\ e.created = <<nextOid>> /\ e.outcome = "done"
  <2>1. <<nextOid>> \in Seq(Nat \ {0})  BY <1>5
  <2> QED  BY <1>4, <1>5, <2>1 DEF Entry, HistoryEntries, Ops, MaybeCMap, Endings
<1>8. f.unrecorded = Complete /\ f.broken = FALSE  BY DEF NoFlags
<1> HIDE DEF h, e, o, f
<1>9. /\ DOMAIN objects' = DOMAIN objects \cup {h} /\ objects'[h] = o
      /\ \A k \in DOMAIN objects : objects'[k] = objects[k]
      /\ oids'[h] = nextOid /\ \A k \in DOMAIN objects : oids'[k] = oids[k]
  BY <1>1, <1>3, <1>5 DEF With
<1>10. CASE Complete
  <2>1. history' = <<>>  BY <1>1, <1>10
  <2>2. HistoryTells(objects, oids, KeptHistory, KeptFlags, loaded)
    BY <1>2, TellsKept
  <2>3. KeptHistory = <<>>  BY <1>10 DEF KeptHistory
  <2>4. Recorded(flags') = {}
    <3>1. ASSUME NEW d \in Recorded(KeptFlags)
          PROVE  FALSE
      <4>1. Told(EntriesOf(<<>>, d), objects[d].log, loaded)
        BY <2>2, <2>3, <3>1 DEF HistoryTells
      <4> QED  BY <4>1, NoEntries DEF Told
    <3>2. \A d \in DOMAIN flags' : d = h \/ (d \in DOMAIN KeptFlags /\ flags'[d] = KeptFlags[d])
      BY <1>1 DEF With
    <3>3. flags'[h] = f  BY <1>1 DEF With
    <3> QED  BY <1>8, <1>10, <3>1, <3>2, <3>3 DEF Recorded
  <2>5. MadeOnce(history')  BY <2>1 DEF MadeOnce
  <2>6. HistoryTells(objects', oids', history', flags', loaded')
    BY <2>4, <2>5 DEF HistoryTells
  <2> QED  BY <1>1, <2>6 DEF Rebuildable
<1>11. CASE ~Complete
  <2>1. history' = Append(history, e) /\ flags' = With(flags, h, f)
    BY <1>1, <1>11 DEF KeptFlags
  <2>2. /\ \A i \in DOMAIN history : history[i] \in HistoryEntries
        /\ Len(history) \in Nat /\ DOMAIN history' = 1 .. Len(history) + 1
        /\ DOMAIN history = 1 .. Len(history)
        /\ history'[Len(history) + 1] = e
        /\ \A i \in 1 .. Len(history) : history'[i] = history[i]
    <3> HIDE DEF HistoryEntries
    <3> QED  BY <1>5, <1>7, <2>1
  <2>3. \A i \in DOMAIN history : history[i].created # <<nextOid>> /\ history[i].doc \in DOMAIN objects
    <3> SUFFICES ASSUME NEW i \in DOMAIN history
                 PROVE  history[i].created # <<nextOid>> /\ history[i].doc \in DOMAIN objects
      OBVIOUS
    <3>1. EntryNamed(history[i], objects, oids, nextOid)  BY <1>5
    <3>2. history[i].doc \in DOMAIN objects  BY <3>1 DEF EntryNamed, DocumentsOf
    <3>3. ASSUME history[i].created = <<nextOid>>  PROVE FALSE
      <4>1. history[i].created # <<>> /\ history[i].created[1] = nextOid  BY <3>3
      <4> QED  BY <1>5, <3>1, <4>1 DEF EntryNamed
    <3> QED  BY <3>2, <3>3
  <2>4. MadeOnce(history')
    <3>1. \A i \in DOMAIN history' : i \in DOMAIN history \/ i = Len(history) + 1  BY <2>2
    <3>2. \A i, j \in DOMAIN history :
            history[i].created # <<>> /\ history[i].created = history[j].created =>
              history[i].doc = history[j].doc
      BY <1>2 DEF HistoryTells, MadeOnce
    <3> QED  BY <1>7, <2>2, <2>3, <3>1, <3>2 DEF MadeOnce
  <2>5. \A d \in Recorded(flags') : d = h \/ (d \in Recorded(flags) /\ d # h)
    BY <2>1 DEF With, Recorded
  <2>6. ASSUME NEW d \in Recorded(flags), d # h
        PROVE  /\ Told(EntriesOf(history', d), objects'[d].log, loaded)
               /\ Known(objects', oids', d, EntriesOf(history', d), objects'[d].log)
    <3>1. EntriesOf(history', d) = EntriesOf(history, d)
      <4> HIDE DEF HistoryEntries
      <4>1. EntriesOf(Append(history, e), d) =
              IF e.doc = d THEN Append(EntriesOf(history, d), e) ELSE EntriesOf(history, d)
        BY <1>5, <1>7, OneEntryMore
      <4> QED  BY <1>7, <2>1, <2>6, <4>1
    <3>2. d \in DOMAIN objects  BY <1>5 DEF Recorded, DocumentsOf
    <3>3. objects'[d].log = objects[d].log  BY <1>9, <3>2
    <3>4. Told(EntriesOf(history, d), objects[d].log, loaded)
          /\ Known(objects, oids, d, EntriesOf(history, d), objects[d].log)
      BY <1>2 DEF HistoryTells
    <3>5. /\ \A k \in DOMAIN objects' : objects'[k].doc = d =>
               /\ k \in DOMAIN objects /\ objects[k].doc = d /\ oids'[k] = oids[k]
               /\ objects'[k].kind = objects[k].kind /\ objects'[k].value = objects[k].value
          /\ \A k \in DOMAIN objects : k \in DOMAIN objects' /\ oids'[k] = oids[k]
      BY <1>6, <1>9, <2>6
    <3>6. Known(objects', oids', d, EntriesOf(history, d), objects[d].log)
      BY <3>4, <3>5, KnownSame
    <3> QED  BY <3>1, <3>3, <3>4, <3>6
  <2>7. /\ Told(EntriesOf(history', h), objects'[h].log, loaded)
        /\ Known(objects', oids', h, EntriesOf(history', h), objects'[h].log)
    <3>1. EntriesOf(history, h) = <<>>
      <4>1. \A k \in DOMAIN EntriesOf(history, h) :
              EntriesOf(history, h)[k].doc = h /\ \E i \in DOMAIN history : EntriesOf(history, h)[k] = history[i]
        BY <1>5, EntriesType
      <4>2. EntriesOf(history, h) \in Seq(HistoryEntries)  BY <1>5, EntriesType
      <4>3. DOMAIN EntriesOf(history, h) = {}  BY <1>3, <2>3, <4>1
      <4> HIDE DEF HistoryEntries
      <4> QED  BY <4>2, <4>3
    <3>2. EntriesOf(history', h) = <<e>>
      <4> HIDE DEF HistoryEntries
      <4>1. EntriesOf(Append(history, e), h) =
              IF e.doc = h THEN Append(EntriesOf(history, h), e) ELSE EntriesOf(history, h)
        BY <1>5, <1>7, OneEntryMore
      <4>2. Append(<<>>, e) = <<e>>  OBVIOUS
      <4> QED  BY <1>7, <2>1, <3>1, <4>1, <4>2
    <3>3. objects'[h].log = <<Opening>>  BY <1>6, <1>9
    <3> DEFINE es == <<e>>  l == <<Opening>>
    <3>4. /\ Len(es) = 1 /\ Len(l) = 1 /\ DOMAIN es = {1} /\ DOMAIN l = {1} /\ es[1] = e
          /\ l[1] = Opening /\ es # <<>> /\ l # <<>>
      OBVIOUS
    <3> HIDE DEF es, l
    <3>5. Opening.op = "open" /\ Opening.cmap = NoCMap /\ Opening.outcome = "done"
      BY DEF Opening, Event
    <3>6. ValueMade(l, 1) = 1  BY DEF ValueMade
    <3>7. e.created # <<>>  BY <1>7
    <3>8. ToMake(es, l, 1)  BY <3>4, <3>5, <3>6 DEF ToMake
    <3>9. EventTold(es, l, 1, loaded)
      BY <1>7, <3>4, <3>5, <3>7, <3>8 DEF EventTold
    <3>10. Told(es, l, loaded)  BY <3>4, <3>9 DEF Told
    <3>11. \A k \in DOMAIN objects' : objects'[k].doc = h => k = h
      BY <1>3, <1>5, <1>9 DEF Table
    <3>12. Known(objects', oids', h, es, l)
      <4>1. \A k \in DOMAIN objects' : objects'[k].doc = h =>
              /\ es[1].created = <<oids'[k]>>
              /\ objects'[k].value = ValueMade(l, 1)
              /\ objects'[k].kind = KindMade(es[1].op)
        BY <1>6, <1>7, <1>9, <3>4, <3>6, <3>11 DEF KindMade
      <4>2. h \in DOMAIN objects' /\ es[1].created = <<oids'[h]>>
        BY <1>7, <1>9, <3>4
      <4> QED  BY <3>4, <4>1, <4>2 DEF Known
    <3> QED  BY <3>2, <3>3, <3>10, <3>12 DEF es, l
  <2>8. HistoryTells(objects', oids', history', flags', loaded')
    BY <1>1, <2>4, <2>5, <2>6, <2>7 DEF HistoryTells
  <2> QED  BY <1>1, <2>8 DEF Rebuildable
<1> QED  BY <1>10, <1>11

\* A document takes its entries with it; without a derived page the others are as known.
LEMMA RebuildableFree ==
    ASSUME CoreSane, Rebuildable, NEW h \in Handles, Free(h)
    PROVE  Rebuildable'
<1> DEFINE gone == FreedWith(objects, h)
           S == DOMAIN KeptHistory \ Of(KeptHistory, h)
<1>1. /\ phase = "idle" /\ phase' = "idle" /\ loaded' = loaded
      /\ h \in DOMAIN objects
      /\ objects[h].kind # "page"
      /\ objects' = Without(objects, gone)
      /\ oids' = Without(oids, gone)
      /\ flags' = Without(KeptFlags, gone)
      /\ history' = Selected(KeptHistory, S)
  BY DEF Free, NewCall, callState, cmapState, HistoryWithout
<1>2. CoreTypes /\ HistoryTells(objects, oids, KeptHistory, KeptFlags, loaded)
  <2>1. CoreTypes /\ HistoryTells(objects, oids, history, flags, loaded)
    BY <1>1 DEF CoreSane, Rebuildable
  <2> QED  BY <2>1, TellsKept
<1>3. /\ Table(objects) /\ DOMAIN oids = DOMAIN objects
      /\ KeptHistory \in Seq(HistoryEntries) /\ DOMAIN KeptFlags = DocumentsOf(objects)
      /\ \A i \in DOMAIN KeptHistory : EntryNamed(KeptHistory[i], objects, oids, nextOid)
  <2>1. /\ KeptHistory \in Seq(HistoryEntries)
        /\ \A i \in DOMAIN KeptHistory : i \in DOMAIN history /\ KeptHistory[i] = history[i]
        /\ DOMAIN KeptFlags = DocumentsOf(objects)
    BY <1>2, KeptFacts
  <2>2. \A i \in DOMAIN history : EntryNamed(history[i], objects, oids, nextOid)
    BY <1>2 DEF CoreTypes
  <2>3. \A i \in DOMAIN KeptHistory : EntryNamed(KeptHistory[i], objects, oids, nextOid)
    BY <2>1, <2>2
  <2>4. Table(objects)  BY <1>2 DEF CoreTypes
  <2>5. Named(objects, oids, nextOid)  BY <1>2 DEF CoreTypes
  <2>6. DOMAIN oids = DOMAIN objects  BY <2>5 DEF Named
  <2> QED  BY <2>1, <2>3, <2>4, <2>6
<1>4. /\ DOMAIN objects' = DOMAIN objects \ gone
      /\ \A k \in DOMAIN objects' : objects'[k] = objects[k] /\ oids'[k] = oids[k]
  BY <1>1, <1>3 DEF Without
<1>5. \A k \in gone : k \in DOMAIN objects
        /\ \/ objects[h].kind = "document" /\ objects[k].doc = h
           \/ objects[h].kind = "derived" /\ k = h
  BY <1>1, <1>3, TableGives DEF FreedWith, Kinds
<1>6. MadeOnce(history')
  <2>1. \A k \in DOMAIN history' : \E i \in DOMAIN KeptHistory : history'[k] = KeptHistory[i]
    <3> HIDE DEF S, HistoryEntries
    <3> QED  BY <1>1, <1>3, SelectedType
  <2>2. MadeOnce(KeptHistory)  BY <1>2 DEF HistoryTells
  <2> QED  BY <2>1, <2>2 DEF MadeOnce
<1>7. ASSUME NEW d \in Recorded(flags')
      PROVE  /\ Told(EntriesOf(history', d), objects'[d].log, loaded)
             /\ Known(objects', oids', d, EntriesOf(history', d), objects'[d].log)
  <2> DEFINE es == EntriesOf(KeptHistory, d)
  <2>1. d \in Recorded(KeptFlags) /\ d \notin gone
    BY <1>1, <1>7 DEF Recorded, Without
  <2>2. d \in DOMAIN objects /\ objects[d].kind = "document"
    BY <1>3, <2>1 DEF Recorded, DocumentsOf
  <2>3. d # h
    <3>1. CASE objects[h].kind = "document"
      <4>1. objects[h].doc = h  BY <1>1, <1>3, <3>1 DEF Table
      <4> QED  BY <1>1, <2>1, <3>1, <4>1 DEF FreedWith
    <3>2. CASE objects[h].kind # "document"  BY <2>2, <3>2
    <3> QED  BY <3>1, <3>2
  <2>4. EntriesOf(history', d) = es
    <3>1. Of(KeptHistory, d) \subseteq S  BY <2>3 DEF Of
    <3> HIDE DEF S, HistoryEntries
    <3>2. EntriesOf(Selected(KeptHistory, S), d) = EntriesOf(KeptHistory, d)
      BY <1>3, <3>1, EntriesKept
    <3> QED  BY <1>1, <3>2
  <2>5. objects'[d].log = objects[d].log  BY <1>4, <2>1, <2>2
  <2>6. Told(es, objects[d].log, loaded) /\ Known(objects, oids, d, es, objects[d].log)
    BY <1>2, <2>1 DEF HistoryTells
  <2>7. \A k \in DOMAIN objects' : objects'[k].doc = d =>
               /\ k \in DOMAIN objects /\ objects[k].doc = d /\ oids'[k] = oids[k]
               /\ objects'[k].kind = objects[k].kind /\ objects'[k].value = objects[k].value
    BY <1>4
  <2>8. ASSUME NEW k \in DOMAIN objects, NEW n \in DOMAIN es, es[n].created = <<oids[k]>>,
               es[n].op # "crop"
        PROVE  k \in DOMAIN objects' /\ oids'[k] = oids[k]
    <3>1. es[n].doc = d /\ EntryNamed(es[n], objects, oids, nextOid)
      BY <1>3, EntriesNamed
    <3>2. es[n].created # <<>> /\ es[n].created[1] = oids[k]  BY <2>8
    <3>3. objects[k].doc = d /\ objects[k].kind = KindMade(es[n].op)
      BY <1>3, <3>1, <3>2 DEF EntryNamed
    <3>4. objects[k].kind # "derived"  BY <2>8, <3>3 DEF KindMade
    <3>5. k \notin gone  BY <1>5, <2>3, <3>3, <3>4
    <3> QED  BY <1>4, <3>5
  <2> HIDE DEF es
  <2>9. Known(objects', oids', d, es, objects[d].log)
    BY <2>6, <2>7, <2>8, KnownSame
  <2> QED  BY <2>4, <2>5, <2>6, <2>9
<1>8. HistoryTells(objects', oids', history', flags', loaded')
  BY <1>1, <1>6, <1>7 DEF HistoryTells
<1> QED  BY <1>1, <1>8 DEF Rebuildable

\* With more CMaps the history tells what it told.
LEMMA RebuildableCMaps ==
    ASSUME CoreSane, Rebuildable,
           (\E c \in CMaps : AddCMap(c)) \/ (\E got \in SUBSET CMaps : HandOver(got)) \/ Abandon
    PROVE  Rebuildable'
<1>1. phase = "idle" /\ phase' = "idle" /\ objects' = objects /\ oids' = oids
  BY DEF AddCMap, HandOver, Abandon, callState, documents
<1>2. \/ history' = KeptHistory /\ flags' = KeptFlags
      \/ history' = history /\ flags' = flags
  BY DEF AddCMap, HandOver, Abandon, documents
<1>3. loaded \subseteq loaded'  BY DEF AddCMap, HandOver, Abandon, cmapState
<1>4. CoreTypes /\ HistoryTells(objects, oids, history, flags, loaded)
  BY <1>1 DEF CoreSane, Rebuildable
<1>5. HistoryTells(objects, oids, KeptHistory, KeptFlags, loaded')
  BY <1>3, <1>4, TellsKept
<1>6. HistoryTells(objects, oids, history, flags, loaded')
  BY <1>3, <1>4, TellsMore
<1>7. HistoryTells(objects', oids', history', flags', loaded')
  BY <1>1, <1>2, <1>5, <1>6
<1> QED  BY <1>1, <1>7 DEF Rebuildable

\* What the history tells as a call starts is what the call found.
LEMMA RebuildableBegin ==
    ASSUME CoreSane, Rebuildable, NEW rs, Begin(rs)
    PROVE  Rebuildable'
<1>1. /\ phase = "idle" /\ phase' = "running"
      /\ running' = Start(rs, objects, process)
      /\ history' = KeptHistory
      /\ flags' = KeptFlags
      /\ before' = [oids |-> oids, history |-> KeptHistory]
      /\ objects' = objects /\ oids' = oids /\ loaded' = loaded
  BY DEF Begin, cmapState
<1>2. CoreTypes /\ HistoryTells(objects, oids, history, flags, loaded)
  BY <1>1 DEF CoreSane, Rebuildable
<1>3. HistoryTells(objects, oids, KeptHistory, KeptFlags, loaded)  BY <1>2, TellsKept
<1>4. running'.objects = objects /\ before'.oids = oids /\ before'.history = KeptHistory
  BY <1>1 DEF Start
<1>5. MadeOnce(KeptHistory)  BY <1>3 DEF HistoryTells
<1>6. HistoryTells(running'.objects, before'.oids, before'.history, flags', loaded')
  BY <1>1, <1>3, <1>4
<1>7. MadeOnce(history') /\ HistoryTells(objects', oids', history', flags', loaded')
  BY <1>1, <1>3, <1>5
<1> QED  BY <1>1, <1>6, <1>7 DEF Rebuildable

\* A call that ends, nothing missed, leaves a history that tells what it did.
LEMMA RebuildableRespond ==
    ASSUME Rebuildable, Respond
    PROVE  Rebuildable'
<1>1. /\ phase = "running" /\ running.missed = {} /\ phase' = "idle"
      /\ objects' = objects /\ oids' = oids /\ history' = history /\ flags' = flags
      /\ loaded' = loaded
  BY DEF Respond, documents, cmapState
<1>2. HistoryTells(objects, oids, history, flags, loaded)  BY <1>1 DEF Rebuildable
<1>3. HistoryTells(objects', oids', history', flags', loaded')  BY <1>1, <1>2
<1> QED  BY <1>1, <1>3 DEF Rebuildable

\* What an operation that ran leaves of the table.
OpLeaves ==
    /\ DOMAIN objects \subseteq DOMAIN objects'
    /\ \A h \in DOMAIN objects :
         /\ oids'[h] = oids[h]
         /\ objects'[h].kind = objects[h].kind /\ objects'[h].doc = objects[h].doc
         /\ objects'[h].value = objects[h].value
         /\ h # OpDoc => objects'[h] = objects[h]
    /\ objects'[OpDoc].log = OpLog
    /\ \A h \in DOMAIN objects' : h \notin DOMAIN objects =>
         /\ objects'[h] = Page(OpDoc, PageAnswered(OpLog), Op.op)
         /\ oids'[h] = nextOid

\* An operation that makes no object leaves the others as they were,
LEMMA OpLeavesNone ==
    ASSUME CoreTypes, InRun, todo # <<>>, objects' = OpObjects, oids' = oids
    PROVE  OpLeaves
<1>1. /\ DOMAIN OpObjects = DOMAIN objects
      /\ OpObjects[OpDoc].log = OpLog
      /\ \A h \in DOMAIN objects :
           /\ OpObjects[h].kind = objects[h].kind /\ OpObjects[h].doc = objects[h].doc
           /\ OpObjects[h].value = objects[h].value
           /\ h # OpDoc => OpObjects[h] = objects[h]
  BY OpObjectsIs
<1> QED  BY <1>1 DEF OpLeaves

\* ... and so does one that makes one.
LEMMA OpLeavesOne ==
    ASSUME CoreTypes, InRun, todo # <<>>, ~ Handles \subseteq DOMAIN objects,
           objects' = With(OpObjects, OpHandle, Page(OpDoc, PageAnswered(OpLog), Op.op)),
           oids' = With(oids, OpHandle, nextOid)
    PROVE  OpLeaves /\ OpHandle \in DOMAIN objects' /\ oids'[OpHandle] = nextOid
<1>1. /\ DOMAIN OpObjects = DOMAIN objects
      /\ OpObjects[OpDoc].log = OpLog
      /\ \A h \in DOMAIN objects :
           /\ OpObjects[h].kind = objects[h].kind /\ OpObjects[h].doc = objects[h].doc
           /\ OpObjects[h].value = objects[h].value
           /\ h # OpDoc => OpObjects[h] = objects[h]
  BY OpObjectsIs
<1>2. OpHandle \notin DOMAIN objects  BY FreshIsFree DEF OpHandle
<1>3. DOMAIN oids = DOMAIN objects  BY DEF CoreTypes, Named
<1>4. OpDoc \in DOMAIN objects  BY OpFacts
<1> DEFINE p == Page(OpDoc, PageAnswered(OpLog), Op.op)
           os == OpObjects
           x == OpHandle
           l == OpLog
<1>5. objects' = With(os, x, p) /\ oids' = With(oids, x, nextOid)  OBVIOUS
<1> HIDE DEF p, os, x, l
<1>6. /\ DOMAIN objects' = DOMAIN os \cup {x} /\ objects'[x] = p
      /\ \A z \in DOMAIN os : z # x => objects'[z] = os[z]
  <2>1. /\ DOMAIN With(os, x, p) = DOMAIN os \cup {x} /\ With(os, x, p)[x] = p
        /\ \A z \in DOMAIN os : z # x => With(os, x, p)[z] = os[z]
    BY DEF With
  <2> QED  BY <1>5, <2>1
<1>7. /\ oids'[x] = nextOid
      /\ \A z \in DOMAIN oids : z # x => oids'[z] = oids[z]
  <2> DEFINE f == oids y == nextOid
  <2>1. f = oids /\ y = nextOid  OBVIOUS
  <2> HIDE DEF f, y
  <2>2. /\ With(f, x, y)[x] = y
        /\ \A z \in DOMAIN f : z # x => With(f, x, y)[z] = f[z]
    BY DEF With
  <2> QED  BY <1>5, <2>1, <2>2
<1>8. /\ DOMAIN os = DOMAIN objects /\ x \notin DOMAIN objects
      /\ os[OpDoc].log = l
      /\ \A h \in DOMAIN objects :
           /\ os[h].kind = objects[h].kind /\ os[h].doc = objects[h].doc
           /\ os[h].value = objects[h].value
           /\ h # OpDoc => os[h] = objects[h]
  BY <1>1, <1>2 DEF os, x, l
<1>9. /\ DOMAIN objects \subseteq DOMAIN objects'
      /\ \A h \in DOMAIN objects : oids'[h] = oids[h] /\ objects'[h] = os[h]
      /\ objects'[OpDoc].log = l
      /\ \A h \in DOMAIN objects' : h \notin DOMAIN objects => objects'[h] = p /\ oids'[h] = nextOid
  BY <1>3, <1>4, <1>6, <1>7, <1>8
<1> QED  BY <1>6, <1>7, <1>8, <1>9 DEF OpLeaves, p, x, l

\* What is known of the other documents stays.
LEMMA OpKnownOthers ==
    ASSUME CoreTypes, InRun, todo # <<>>, OpLeaves, NEW d, d # OpDoc, NEW es, NEW log,
           d \in DOMAIN objects, Known(objects, oids, d, es, log)
    PROVE  Known(objects', oids', d, es, log) /\ objects'[d].log = objects[d].log
<1>1. /\ DOMAIN objects \subseteq DOMAIN objects'
      /\ \A h \in DOMAIN objects : oids'[h] = oids[h] /\ objects'[h].value = objects[h].value
           /\ objects'[h].kind = objects[h].kind /\ objects'[h].doc = objects[h].doc
  BY DEF OpLeaves
<1>2. \A h \in DOMAIN objects' : h \notin DOMAIN objects => objects'[h].doc = OpDoc
  BY DEF OpLeaves, Page
<1>3. \A h \in DOMAIN objects' : objects'[h].doc = d =>
             /\ h \in DOMAIN objects /\ objects[h].doc = d /\ oids'[h] = oids[h]
             /\ objects'[h].kind = objects[h].kind /\ objects'[h].value = objects[h].value
  BY <1>1, <1>2
<1>4. \A h \in DOMAIN objects, n \in DOMAIN es :
             es[n].created = <<oids[h]>> /\ es[n].op # "crop" =>
               h \in DOMAIN objects' /\ oids'[h] = oids[h]
  BY <1>1
<1>5. Known(objects', oids', d, es, log)  BY <1>3, <1>4, KnownSame
<1>6. objects'[d] = objects[d]  BY DEF OpLeaves
<1> QED  BY <1>5, <1>6

\* What the operation made of the entry it left: a place, or none, or no room.
OpMade(created, outcome) ==
    \/ ~OpNeeds /\ created = <<>> /\ outcome = OpEffect.event.outcome
    \/ OpNeeds /\ created = <<>> /\ outcome = "MemoryError"
    \/ OpNeeds /\ created = <<nextOid>> /\ outcome = OpEffect.event.outcome

\* The operation needs a handle when its event is to make an object.
LEMMA OpNeedsToMake ==
    ASSUME CoreTypes, InRun, todo # <<>>, NEW es \in Seq(HistoryEntries), NEW e \in HistoryEntries,
           \A m \in DOMAIN es : es[m].doc = OpDoc /\ EntryNamed(es[m], objects, oids, nextOid),
           Told(es, objects[OpDoc].log, loaded),
           Known(objects, oids, OpDoc, es, objects[OpDoc].log)
    PROVE  OpNeeds <=> ToMake(Append(es, e), OpLog, Len(objects[OpDoc].log) + 1)
<1> DEFINE log == objects[OpDoc].log
           v == OpEffect.event
           n == Len(log) + 1
           p == PageAnswered(OpLog)
<1>1. /\ log \in Seq(Events) /\ v \in Events /\ OpLog \in Seq(Events)
      /\ OpLog = Append(log, v) /\ Len(OpLog) = n /\ OpLog[n] = v /\ v.op = Op.op
  BY OpFacts DEF OpLog
<1>2. log # <<>> /\ Len(es) = Len(log)  BY DEF Told
<1>3. DOMAIN OpObjects = DOMAIN objects
      /\ \A h \in DOMAIN objects :
           /\ OpObjects[h].kind = objects[h].kind /\ OpObjects[h].doc = objects[h].doc
           /\ OpObjects[h].value = objects[h].value
  BY OpObjectsIs
<1>4. DOMAIN oids = DOMAIN objects  BY DEF CoreTypes, Named
<1>5. PagesHeld(objects, oids, OpDoc, es, log, Len(log))
  <2>1. PagesHeld(objects, oids, OpDoc, es, log, Len(es))
    <3> HIDE DEF log
    <3> QED  BY KnownHolds DEF log
  <2> QED  BY <1>2, <2>1
<1>6. ValueMade(OpLog, n) = p
  <2> HIDE DEF HistoryEntries, Events
  <2>1. Len(OpLog) # 1  BY <1>1, <1>2
  <2>2. ValueMade(OpLog, Len(OpLog)) = PageAnswered(OpLog)  BY <1>1, <2>1, ValueMadeLast
  <2> QED  BY <1>1, <2>2
<1>7. \A m \in 1 .. Len(log) :
        Append(es, e)[m] = es[m] /\ ValueMade(OpLog, m) = ValueMade(log, m)
  <2> HIDE DEF HistoryEntries, Events
  <2>1. \A m \in 1 .. Len(log) : Append(es, e)[m] = es[m]  BY <1>1, <1>2
  <2>2. \A m \in 1 .. Len(log) : ValueMade(Append(log, v), m) = ValueMade(log, m)
    <3> HIDE DEF log, v
    <3> QED  BY <1>1, ValueMadeBefore
  <2> QED  BY <1>1, <2>1, <2>2
<1>8. n - 1 = Len(log) /\ Len(log) \in 0 .. Len(log) /\ Len(log) \in Nat  BY <1>1
<1>9. ToMake(Append(es, e), OpLog, n) <=>
        /\ p # 0
        /\ Op.op = "annots" => \A m \in 1 .. Len(log) : MakesPage(es[m]) => ValueMade(log, m) # p
  <2> HIDE DEF log, v, p
  <2>1. ToMake(Append(es, e), OpLog, n) <=>
        /\ p # 0
        /\ Op.op = "annots" =>
             \A m \in 1 .. Len(log) : MakesPage(Append(es, e)[m]) => ValueMade(OpLog, m) # p
    BY <1>1, <1>6, <1>8 DEF ToMake
  <2> QED  BY <1>7, <2>1
<1>10. OpNeeds <=>
        /\ p # 0
        /\ Op.op = "annots" =>
             \A h \in DOMAIN objects :
               ~ /\ objects[h].kind = "page" /\ objects[h].doc = OpDoc /\ objects[h].value = p
  <2>1. OpLog[Len(OpLog)].op = Op.op  BY <1>1
  <2> HIDE DEF log, v
  <2> QED  BY <2>1, <1>3 DEF OpNeeds, NeedsHandle
<1>11. p # 0 => ((\A h \in DOMAIN objects :
               ~ /\ objects[h].kind = "page" /\ objects[h].doc = OpDoc /\ objects[h].value = p)
            <=> \A m \in 1 .. Len(log) : MakesPage(es[m]) => ValueMade(log, m) # p)
  <2>1. Told(es, log, loaded)  OBVIOUS
  <2>2. log \in Seq(Events) /\ Len(log) \in 0 .. Len(log)  BY <1>1, <1>8
  <2>3. \A m \in DOMAIN es : es[m].doc = OpDoc /\ EntryNamed(es[m], objects, oids, nextOid)
    OBVIOUS
  <2> DEFINE os == objects ids == oids next == nextOid d == OpDoc k == Len(log) given == loaded
  <2>4. /\ es \in Seq(HistoryEntries) /\ log \in Seq(Events) /\ Told(es, log, given)
        /\ \A m \in DOMAIN es : es[m].doc = d /\ EntryNamed(es[m], os, ids, next)
        /\ k \in 0 .. Len(log) /\ PagesHeld(os, ids, d, es, log, k)
        /\ DOMAIN ids = DOMAIN os
    BY <2>1, <2>2, <2>3, <1>4, <1>5
  <2>5. k = Len(log) /\ os = objects /\ d = OpDoc  OBVIOUS
  <2> HIDE DEF log, p, v, os, ids, next, d, k, given, HistoryEntries, Events
  <2>6. ASSUME p # 0
        PROVE  (\A h \in DOMAIN os : ~ /\ os[h].kind = "page"
                                       /\ os[h].doc = d
                                       /\ os[h].value = p)
               <=> (\A m \in 1 .. k : MakesPage(es[m]) => ValueMade(log, m) # p)
    BY <2>4, <2>6, FoundWhenMade
  <2> QED  BY <2>5, <2>6
<1> HIDE DEF log, p, v
<1>12. OpNeeds <=> ToMake(Append(es, e), OpLog, n)  BY <1>9, <1>10, <1>11
<1> QED  BY <1>12 DEF log

\* The entry the operation leaves tells its event.
LEMMA OpTold ==
    ASSUME CoreTypes, InRun, todo # <<>>, NEW es \in Seq(HistoryEntries),
           \A m \in DOMAIN es : es[m].doc = OpDoc /\ EntryNamed(es[m], objects, oids, nextOid),
           Told(es, objects[OpDoc].log, loaded),
           Known(objects, oids, OpDoc, es, objects[OpDoc].log),
           OpEffect.missed = {},
           NEW created \in Seq(Nat \ {0}), NEW outcome \in Endings \cup {"MemoryError"},
           OpMade(created, outcome)
    PROVE  EventTold(Append(es, OpEntry(created, outcome)), OpLog,
                     Len(objects[OpDoc].log) + 1, loaded)
<1> DEFINE log == objects[OpDoc].log
           v == OpEffect.event
           n == Len(log) + 1
           e == OpEntry(created, outcome)
           was == SubSeq(OpLog, 1, n - 1)
<1>1. /\ log \in Seq(Events) /\ v \in Events /\ OpLog \in Seq(Events)
      /\ OpLog = Append(log, v) /\ Len(OpLog) = n /\ OpLog[n] = v
      /\ v.op = Op.op /\ v.cmap = Op.cmap /\ v.on = objects[Op.on].value
      /\ Op.op # "open" /\ (Op.op \in {"pages", "annots"} => objects[Op.on].value = 1)
      /\ Op.op \in Ops /\ Op.cmap \in MaybeCMap /\ objects[Op.on].value \in Nat
      /\ Op.on \in DOMAIN objects /\ v.outcome \in Endings
  BY OpFacts DEF OpLog
<1>2. log # <<>> /\ Len(es) = Len(log)  BY DEF Told
<1>3. /\ e \in HistoryEntries
      /\ e.op = Op.op /\ e.cmap = Op.cmap /\ e.target = oids[Op.on] /\ e.created = created
      /\ e.process = process /\ e.outcome = outcome
  BY OpEntryIs
<1>4. Append(es, e)[n] = e /\ n # 1 /\ n - 1 = Len(log) /\ n \in Nat
      /\ \A m \in 1 .. Len(log) : Append(es, e)[m] = es[m]
  <2> HIDE DEF HistoryEntries, Events, e
  <2> QED  BY <1>1, <1>2, <1>3
<1>5. was = log
  <2> HIDE DEF log, v, HistoryEntries, Events
  <2>1. SubSeq(Append(log, v), 1, Len(log)) = SubSeq(log, 1, Len(log))
    <3>1. Len(log) \in 0 .. Len(log)  BY <1>1
    <3> QED  BY <1>1, <3>1, FirstEvents
  <2>2. SubSeq(log, 1, Len(log)) = log  BY <1>1, AllEvents
  <2> QED  BY <1>1, <1>4, <2>1, <2>2
<1>6. /\ v.saw = Saw(Op.cmap, log, process, loaded)
      /\ v.outcome = Outcome(Op.op, process)
      /\ Missed(Op.cmap, log, process, loaded) = {}
  <2>1. process \in Process /\ loaded \in SUBSET CMaps  BY DEF CoreTypes
  <2> DEFINE c == Op.cmap o == Op.op x == objects[Op.on].value
  <2>2. c \in MaybeCMap /\ o \in Ops /\ x \in Nat /\ OpEffect = Effect(o, c, x, log, process, loaded)
    BY <1>1 DEF OpEffect
  <2>3. LET f == Effect(o, c, x, log, process, loaded) IN
          /\ f.event.saw = Saw(c, log, process, loaded)
          /\ f.event.outcome = Outcome(o, process)
          /\ f.missed = Missed(c, log, process, loaded)
    <3> HIDE DEF c, o, x, log
    <3> QED  BY <1>1, <2>1, <2>2, EffectType
  <2> QED  BY <2>2, <2>3
<1>7. ActsOn(Append(es, e), OpLog, n)
  <2>1. objects[Op.on].doc = OpDoc  BY DEF OpDoc
  <2>2. PICK m \in DOMAIN es :
          es[m].created = <<oids[Op.on]>> /\ objects[Op.on].value = ValueMade(log, m)
    BY <1>1, <2>1 DEF Known
  <2>3. m \in 1 .. Len(log)  BY <1>2
  <2>4. ValueMade(OpLog, m) = ValueMade(log, m)
    <3> HIDE DEF log, v, Events
    <3> QED  BY <1>1, <2>3, ValueMadeBefore
  <2> HIDE DEF log, v, e
  <2>5. Append(es, e)[m].created = <<Append(es, e)[n].target>> /\ OpLog[n].on = ValueMade(OpLog, m)
    BY <1>1, <1>3, <1>4, <2>2, <2>3, <2>4
  <2> QED  BY <1>4, <2>3, <2>5 DEF ActsOn
<1>8. OpNeeds <=> ToMake(Append(es, e), OpLog, n)
  BY <1>3, OpNeedsToMake
<1>9. /\ OpNeeds <=> created # <<>> \/ outcome = "MemoryError"
      /\ outcome # "MemoryError" => outcome = v.outcome
      /\ created # <<>> => outcome # "MemoryError"
  <2>1. v.outcome # "MemoryError"  BY <1>1 DEF Endings
  <2>2. <<nextOid>> # <<>>  OBVIOUS
  <2> QED  BY <2>1, <2>2 DEF OpMade
<1> HIDE DEF log, v, e, was
<1>10. EventTold(Append(es, e), OpLog, n, loaded)
  BY <1>1, <1>3, <1>4, <1>5, <1>6, <1>7, <1>8, <1>9 DEF EventTold, was
<1> QED  BY <1>10 DEF log, e

\* An identity is made for one document still, with one entry more that made none,
\* or one not made before.
LEMMA MadeOnceMore ==
    ASSUME NEW hs \in Seq(HistoryEntries), NEW e \in HistoryEntries, MadeOnce(hs),
           e.created = <<>> \/ \A i \in DOMAIN hs : hs[i].created # e.created
    PROVE  MadeOnce(Append(hs, e))
<1> DEFINE s == Append(hs, e)
<1>1. DOMAIN s = 1 .. Len(hs) + 1 /\ s[Len(hs) + 1] = e
      /\ \A i \in DOMAIN hs : s[i] = hs[i]
  <2> HIDE DEF HistoryEntries
  <2> QED  OBVIOUS
<1>2. DOMAIN hs = 1 .. Len(hs) /\ Len(hs) \in Nat
  <2> HIDE DEF HistoryEntries
  <2> QED  OBVIOUS
<1> HIDE DEF s
<1>3. \A i \in DOMAIN s : i \in DOMAIN hs \/ i = Len(hs) + 1  BY <1>1, <1>2
<1>4. ASSUME NEW i \in DOMAIN s, NEW j \in DOMAIN s,
             s[i].created # <<>>, s[i].created = s[j].created
      PROVE  s[i].doc = s[j].doc
  <2>1. CASE i \in DOMAIN hs /\ j \in DOMAIN hs  BY <1>1, <1>4, <2>1 DEF MadeOnce
  <2>2. CASE i = Len(hs) + 1 /\ j = Len(hs) + 1  BY <2>2
  <2>3. CASE i \in DOMAIN hs /\ j = Len(hs) + 1  BY <1>1, <1>4, <2>3
  <2>4. CASE i = Len(hs) + 1 /\ j \in DOMAIN hs  BY <1>1, <1>4, <2>4
  <2> QED  BY <1>3, <2>1, <2>2, <2>3, <2>4
<1>5. MadeOnce(s)  BY <1>4 DEF MadeOnce
<1> QED  BY <1>5 DEF s

\* The entry of the operation made no identity, or one no entry made.
LEMMA OpMakesNew ==
    ASSUME CoreTypes, InRun, todo # <<>>, NEW created, NEW outcome, OpMade(created, outcome),
           NEW hs, \A i \in DOMAIN hs : EntryNamed(hs[i], objects, oids, nextOid)
    PROVE  created = <<>> \/ \A i \in DOMAIN hs : hs[i].created # created
<1>1. created = <<>> \/ created = <<nextOid>>  BY DEF OpMade
<1>2. nextOid \in Nat  BY DEF CoreTypes, Named
<1>3. ASSUME NEW i \in DOMAIN hs, hs[i].created = <<nextOid>>
      PROVE  FALSE
  <2>1. hs[i].created # <<>> /\ hs[i].created[1] = nextOid  BY <1>3
  <2>2. hs[i].created[1] < nextOid  BY <2>1 DEF EntryNamed
  <2> QED  BY <1>2, <2>1, <2>2
<1> QED  BY <1>1, <1>3

\* The document of the operation, its entry recorded.
LEMMA OpTellsIts ==
    ASSUME CoreTypes, InRun, todo # <<>>, OpLeaves, NEW es \in Seq(HistoryEntries),
           \A m \in DOMAIN es : es[m].doc = OpDoc /\ EntryNamed(es[m], objects, oids, nextOid),
           Told(es, objects[OpDoc].log, loaded),
           Known(objects, oids, OpDoc, es, objects[OpDoc].log),
           OpEffect.missed = {},
           NEW created \in Seq(Nat \ {0}), NEW outcome \in Endings \cup {"MemoryError"},
           OpMade(created, outcome),
           created = <<>> => DOMAIN objects' = DOMAIN objects,
           created # <<>> => \E h \in DOMAIN objects' : oids'[h] = nextOid
    PROVE  /\ Told(Append(es, OpEntry(created, outcome)), objects'[OpDoc].log, loaded)
           /\ Known(objects', oids', OpDoc, Append(es, OpEntry(created, outcome)),
                    objects'[OpDoc].log)
<1> DEFINE log == objects[OpDoc].log
           v == OpEffect.event
           n == Len(log) + 1
           e == OpEntry(created, outcome)
<1>1. /\ log \in Seq(Events) /\ v \in Events /\ OpLog = Append(log, v)
      /\ OpLog \in Seq(Events) /\ Len(OpLog) = n /\ OpDoc \in DOMAIN objects
  BY OpFacts DEF OpLog
<1>2. log # <<>> /\ Len(es) = Len(log)  BY DEF Told
<1>3. e \in HistoryEntries /\ e.created = created /\ e.op = Op.op  BY OpEntryIs
<1>4. created = <<>> \/ \A m \in DOMAIN es : es[m].created # created
  BY OpMakesNew
<1>5. EventTold(Append(es, e), OpLog, n, loaded)  BY OpTold
<1>6. objects'[OpDoc].log = OpLog  BY DEF OpLeaves
<1>7. Told(Append(es, e), Append(log, v), loaded)
  <2>1. Told(es, log, loaded)  OBVIOUS
  <2>2. EventTold(Append(es, e), Append(log, v), Len(log) + 1, loaded)  BY <1>1, <1>5
  <2> HIDE DEF log, v, e, n, HistoryEntries, Events
  <2> QED  BY <1>1, <1>3, <1>4, <2>1, <2>2, ToldOneMore
<1>8. ValueMade(OpLog, n) = PageAnswered(OpLog)
  <2>1. Len(OpLog) # 1
    <3> HIDE DEF Events
    <3> QED  BY <1>1, <1>2
  <2> HIDE DEF Events, log, v
  <2> QED  BY <1>1, <2>1, ValueMadeLast
<1>9. /\ DOMAIN objects \subseteq DOMAIN objects'
      /\ \A h \in DOMAIN objects : oids'[h] = oids[h]
      /\ \A h \in DOMAIN objects : objects'[h].doc = objects[h].doc
           /\ objects'[h].kind = objects[h].kind /\ objects'[h].value = objects[h].value
      /\ \A h \in DOMAIN objects' : h \notin DOMAIN objects =>
           objects'[h] = Page(OpDoc, PageAnswered(OpLog), Op.op) /\ oids'[h] = nextOid
  BY DEF OpLeaves
<1>10. \A h \in DOMAIN objects' : h \notin DOMAIN objects =>
         /\ e.created = <<oids'[h]>> /\ objects'[h].kind = KindMade(e.op)
         /\ objects'[h].value = ValueMade(OpLog, n)
  <2>1. SUFFICES ASSUME NEW h \in DOMAIN objects', h \notin DOMAIN objects
                 PROVE  /\ e.created = <<oids'[h]>> /\ objects'[h].kind = KindMade(e.op)
                        /\ objects'[h].value = ValueMade(OpLog, n)
    OBVIOUS
  <2>2. created = <<nextOid>>  BY <2>1 DEF OpMade
  <2>3. Op.op # "open"  BY OpFacts
  <2> HIDE DEF e
  <2> QED  BY <1>3, <1>8, <1>9, <2>1, <2>2, <2>3 DEF Page, KindMade
<1>11. e.created # <<>> => \E h \in DOMAIN objects' : e.created = <<oids'[h]>>
  BY <1>3 DEF OpMade
<1>12. Known(objects', oids', OpDoc, Append(es, e), Append(log, v))
  <2> DEFINE os == objects ids == oids os2 == objects' ids2 == oids' d == OpDoc l == OpLog
  <2>1. Known(os, ids, d, es, log)  OBVIOUS
  <2>2. \A h \in DOMAIN os2 : os2[h].doc = d =>
             \/ /\ h \in DOMAIN os /\ os[h].doc = d /\ os2[h].kind = os[h].kind
                /\ os2[h].value = os[h].value
             \/ /\ e.created = <<ids2[h]>> /\ os2[h].kind = KindMade(e.op)
                /\ os2[h].value = ValueMade(l, n)
    BY <1>9, <1>10
  <2>3. DOMAIN os \subseteq DOMAIN os2 /\ \A h \in DOMAIN os : ids2[h] = ids[h]
    BY <1>9
  <2>4. e.created # <<>> => \E h \in DOMAIN os2 : e.created = <<ids2[h]>>  BY <1>11
  <2>5. l = Append(log, v) /\ n = Len(log) + 1  BY <1>1
  <2> HIDE DEF os, ids, os2, ids2, d, l, n, log, v, e, HistoryEntries, Events
  <2>6. \A h \in DOMAIN os2 : os2[h].doc = d =>
             \/ /\ h \in DOMAIN os /\ os[h].doc = d /\ os2[h].kind = os[h].kind
                /\ os2[h].value = os[h].value
             \/ /\ e.created = <<ids2[h]>> /\ os2[h].kind = KindMade(e.op)
                /\ os2[h].value = ValueMade(Append(log, v), Len(log) + 1)
    BY <2>2, <2>5
  <2>7. /\ es \in Seq(HistoryEntries) /\ log \in Seq(Events) /\ Len(es) = Len(log)
        /\ e \in HistoryEntries /\ v \in Events
    BY <1>1, <1>2, <1>3
  <2>8. Known(os2, ids2, d, Append(es, e), Append(log, v))
    BY <2>1, <2>3, <2>4, <2>6, <2>7, KnownOneMore
  <2> QED  BY <2>8 DEF os2, ids2, d
<1> HIDE DEF log, v, e
<1>13. /\ Told(Append(es, e), objects'[OpDoc].log, loaded)
       /\ Known(objects', oids', OpDoc, Append(es, e), objects'[OpDoc].log)
  BY <1>1, <1>6, <1>7, <1>12
<1> QED  BY <1>13 DEF e

\* The history after an operation that missed no CMap tells all documents, whether the
\* operation is recorded or its document marked.
LEMMA OpTellsAll ==
    ASSUME CoreTypes, InRun, todo # <<>>, OpLeaves,
           HistoryTells(objects, oids, history, flags, loaded), OpEffect.missed = {},
           NEW created \in Seq(Nat \ {0}), NEW outcome \in Endings \cup {"MemoryError"},
           OpMade(created, outcome),
           created = <<>> => DOMAIN objects' = DOMAIN objects,
           created # <<>> => \E h \in DOMAIN objects' : oids'[h] = nextOid
    PROVE  /\ Complete /\ history' = history /\ flags' = [flags EXCEPT ![OpDoc].unrecorded = TRUE]
                => HistoryTells(objects', oids', history', flags', loaded)
           /\ history' = Append(history, OpEntry(created, outcome)) /\ flags' = flags
                => HistoryTells(objects', oids', history', flags', loaded)
<1>1. /\ history \in Seq(HistoryEntries)
      /\ \A i \in DOMAIN history : EntryNamed(history[i], objects, oids, nextOid)
      /\ flags \in [DocumentsOf(objects) -> Flags]
  BY DEF CoreTypes
<1>2. OpDoc \in DOMAIN flags /\ \A d \in DOMAIN flags : d \in DOMAIN objects
  BY <1>1, OpFacts DEF DocumentsOf
<1>3. ASSUME NEW d \in Recorded(flags), d # OpDoc
      PROVE  /\ Told(EntriesOf(history, d), objects'[d].log, loaded)
             /\ Known(objects', oids', d, EntriesOf(history, d), objects'[d].log)
  <2> DEFINE es == EntriesOf(history, d) log == objects[d].log
  <2>1. Told(es, log, loaded) /\ Known(objects, oids, d, es, log)
    BY <1>3 DEF HistoryTells
  <2>2. d \in DOMAIN objects  BY <1>2, <1>3 DEF Recorded
  <2> HIDE DEF es
  <2>3. Known(objects', oids', d, es, log) /\ objects'[d].log = log
    BY <1>3, <2>1, <2>2, OpKnownOthers
  <2> HIDE DEF log
  <2>4. Told(es, objects'[d].log, loaded) /\ Known(objects', oids', d, es, objects'[d].log)
    BY <2>1, <2>3
  <2> QED  BY <2>4 DEF es
<1>4. MadeOnce(history)  BY DEF HistoryTells
<1>5. ASSUME history' = history, flags' = [flags EXCEPT ![OpDoc].unrecorded = TRUE]
      PROVE  HistoryTells(objects', oids', history', flags', loaded)
  <2>1. \A d \in Recorded(flags') : d \in Recorded(flags) /\ d # OpDoc
    BY <1>1, <1>2, <1>5 DEF Recorded
  <2> QED  BY <1>3, <1>4, <1>5, <2>1 DEF HistoryTells
<1>6. ASSUME history' = Append(history, OpEntry(created, outcome)), flags' = flags
      PROVE  HistoryTells(objects', oids', history', flags', loaded)
  <2> DEFINE e == OpEntry(created, outcome)
  <2>1. e \in HistoryEntries /\ e.doc = OpDoc /\ e.created = created  BY OpEntryIs
  <2>2. created = <<>> \/ \A i \in DOMAIN history : history[i].created # created
    BY <1>1, OpMakesNew
  <2>3. MadeOnce(history')
    <3>1. history' = Append(history, e)  BY <1>6
    <3> HIDE DEF e, HistoryEntries
    <3>2. MadeOnce(Append(history, e))  BY <1>1, <1>4, <2>1, <2>2, MadeOnceMore
    <3> QED  BY <3>1, <3>2
  <2>4. ASSUME NEW d \in Recorded(flags)
        PROVE  /\ Told(EntriesOf(history', d), objects'[d].log, loaded)
               /\ Known(objects', oids', d, EntriesOf(history', d), objects'[d].log)
    <3>1. EntriesOf(history', d) =
             IF OpDoc = d THEN Append(EntriesOf(history, d), e) ELSE EntriesOf(history, d)
      <4>1. history' = Append(history, e)  BY <1>6
      <4> HIDE DEF e, HistoryEntries
      <4>2. EntriesOf(Append(history, e), d) =
             IF e.doc = d THEN Append(EntriesOf(history, d), e) ELSE EntriesOf(history, d)
        BY <1>1, <2>1, OneEntryMore
      <4> QED  BY <2>1, <4>1, <4>2
    <3>2. CASE d # OpDoc  BY <1>3, <3>1, <3>2
    <3>3. CASE d = OpDoc
      <4> DEFINE es == EntriesOf(history, d)
      <4>1. Told(es, objects[OpDoc].log, loaded) /\ Known(objects, oids, OpDoc, es, objects[OpDoc].log)
        BY <2>4, <3>3 DEF HistoryTells
      <4>2. es \in Seq(HistoryEntries)
            /\ \A m \in DOMAIN es : es[m].doc = OpDoc /\ EntryNamed(es[m], objects, oids, nextOid)
        BY <1>1, <3>3, EntriesNamed
      <4> HIDE DEF es
      <4>3. /\ Told(Append(es, OpEntry(created, outcome)), objects'[OpDoc].log, loaded)
            /\ Known(objects', oids', OpDoc, Append(es, OpEntry(created, outcome)),
                     objects'[OpDoc].log)
        BY <4>1, <4>2, OpTellsIts
      <4>4. EntriesOf(history', d) = Append(es, OpEntry(created, outcome))
        BY <3>1, <3>3 DEF es
      <4> QED  BY <3>3, <4>3, <4>4
    <3> QED  BY <3>2, <3>3
  <2> QED  BY <1>6, <2>3, <2>4 DEF HistoryTells
<1> QED  BY <1>5, <1>6

\* An operation of a call keeps the history it found, and tells itself if nothing was missed.
LEMMA RebuildableRunOp ==
    ASSUME CoreSane, Rebuildable, RunOp
    PROVE  Rebuildable'
<1>1. /\ phase = "running" /\ phase' = "running" /\ todo # <<>> /\ loaded' = loaded /\ before' = before
  BY DEF RunOp, cmapState
<1>2. CoreTypes /\ InRun  BY <1>1 DEF CoreSane
<1>3. /\ HistoryTells(running.objects, before.oids, before.history, flags, loaded)
      /\ MadeOnce(history)
      /\ running.missed = {} => HistoryTells(objects, oids, history, flags, loaded)
  BY <1>1 DEF Rebuildable
<1>4. /\ OpDoc \in DOMAIN flags
      /\ flags \in [DocumentsOf(objects) -> Flags]
      /\ \A i \in DOMAIN history : EntryNamed(history[i], objects, oids, nextOid)
      /\ history \in Seq(HistoryEntries)
  BY <1>1, <1>2, OpFacts DEF CoreTypes
<1>5. ASSUME Recorded(flags') \subseteq Recorded(flags), running'.objects = running.objects,
             MadeOnce(history'),
             running'.missed = {} => HistoryTells(objects', oids', history', flags', loaded)
      PROVE  Rebuildable'
  <2>1. loaded \subseteq loaded  OBVIOUS
  <2> DEFINE fs2 == flags'
  <2>2. Recorded(fs2) \subseteq Recorded(flags)  BY <1>5
  <2> HIDE DEF fs2
  <2>3. HistoryTells(running.objects, before.oids, before.history, fs2, loaded)
    BY <1>3, <2>1, <2>2, TellsMore
  <2> QED  BY <1>1, <1>5, <2>3 DEF Rebuildable, fs2
<1>6. CASE OpRefused
  <2>1. /\ objects' = objects /\ oids' = oids /\ history' = history /\ flags' = flags
        /\ running'.objects = running.objects /\ running'.missed = running.missed
    BY <1>6 DEF OpRefused, RunningAfter
  <2> QED  BY <1>3, <1>5, <2>1
<1>7. ASSUME OpRan, OpLeaves, running'.objects = running.objects,
             running'.missed = running.missed \cup OpEffect.missed,
             NEW created \in Seq(Nat \ {0}), NEW outcome \in Endings \cup {"MemoryError"},
             OpMade(created, outcome),
             created = <<>> => DOMAIN objects' = DOMAIN objects,
             created # <<>> => \E h \in DOMAIN objects' : oids'[h] = nextOid,
             history' = IF Complete THEN history ELSE Append(history, OpEntry(created, outcome))
      PROVE  Rebuildable'
  <2>1. flags' = IF Complete THEN [flags EXCEPT ![OpDoc].unrecorded = TRUE] ELSE flags
    BY <1>7 DEF OpRan
  <2>2. Recorded(flags') \subseteq Recorded(flags)  BY <1>4, <2>1 DEF Recorded
  <2>3. MadeOnce(history')
    <3> DEFINE e == OpEntry(created, outcome)
    <3>1. e \in HistoryEntries /\ e.created = created  BY <1>1, <1>2, <1>7, OpEntryIs
    <3>2. created = <<>> \/ \A i \in DOMAIN history : history[i].created # created
      BY <1>1, <1>2, <1>4, <1>7, OpMakesNew
    <3>3. history' = IF Complete THEN history ELSE Append(history, e)  BY <1>7
    <3> HIDE DEF e, HistoryEntries
    <3>4. MadeOnce(Append(history, e))  BY <1>3, <1>4, <3>1, <3>2, MadeOnceMore
    <3> QED  BY <1>3, <3>3, <3>4
  <2>4. ASSUME running'.missed = {}
        PROVE  HistoryTells(objects', oids', history', flags', loaded)
    <3>1. running.missed = {} /\ OpEffect.missed = {}  BY <1>7, <2>4
    <3>2. HistoryTells(objects, oids, history, flags, loaded)  BY <1>3, <3>1
    <3>3. /\ Complete /\ history' = history /\ flags' = [flags EXCEPT ![OpDoc].unrecorded = TRUE]
                => HistoryTells(objects', oids', history', flags', loaded)
          /\ history' = Append(history, OpEntry(created, outcome)) /\ flags' = flags
                => HistoryTells(objects', oids', history', flags', loaded)
      BY <1>1, <1>2, <1>7, <3>1, <3>2, OpTellsAll
    <3> QED  BY <1>7, <2>1, <3>3
  <2> QED  BY <1>5, <1>7, <2>2, <2>3, <2>4
<1>8. <<>> \in Seq(Nat \ {0}) /\ nextOid \in Nat \ {0} /\ <<nextOid>> \in Seq(Nat \ {0})
  BY <1>2 DEF CoreTypes, Named
<1>9. OpEffect.event.outcome \in Endings  BY <1>1, <1>2, OpFacts
<1>10. CASE OpRan /\ ~OpNeeds /\ OpMakesNone(OpEffect.event.outcome)
  <2>1. /\ objects' = OpObjects /\ oids' = oids
        /\ history' = IF Complete THEN history
                      ELSE Append(history, OpEntry(<<>>, OpEffect.event.outcome))
        /\ running'.objects = running.objects
        /\ running'.missed = running.missed \cup OpEffect.missed
    BY <1>10 DEF OpMakesNone
  <2>2. OpLeaves  BY <1>1, <1>2, <2>1, OpLeavesNone
  <2>3. DOMAIN objects' = DOMAIN objects  BY <1>1, <1>2, <2>1, OpObjectsIs
  <2>4. OpMade(<<>>, OpEffect.event.outcome)  BY <1>10 DEF OpMade
  <2> QED  BY <1>7, <1>8, <1>9, <1>10, <2>1, <2>2, <2>3, <2>4
<1>11. CASE OpRan /\ OpNeeds /\ Handles \subseteq DOMAIN objects /\ OpMakesNone("MemoryError")
  <2>1. /\ objects' = OpObjects /\ oids' = oids
        /\ history' = IF Complete THEN history
                      ELSE Append(history, OpEntry(<<>>, "MemoryError"))
        /\ running'.objects = running.objects
        /\ running'.missed = running.missed \cup OpEffect.missed
    BY <1>11 DEF OpMakesNone
  <2>2. OpLeaves  BY <1>1, <1>2, <2>1, OpLeavesNone
  <2>3. DOMAIN objects' = DOMAIN objects  BY <1>1, <1>2, <2>1, OpObjectsIs
  <2>4. OpMade(<<>>, "MemoryError")  BY <1>11 DEF OpMade
  <2>5. "MemoryError" \in Endings \cup {"MemoryError"}  OBVIOUS
  <2> QED  BY <1>7, <1>8, <1>11, <2>1, <2>2, <2>3, <2>4, <2>5
<1>12. CASE OpRan /\ OpNeeds /\ ~ Handles \subseteq DOMAIN objects /\ OpMakesOne
  <2>1. /\ objects' = With(OpObjects, OpHandle, Page(OpDoc, PageAnswered(OpLog), Op.op))
        /\ oids' = With(oids, OpHandle, nextOid)
        /\ history' = IF Complete THEN history
                      ELSE Append(history, OpEntry(<<nextOid>>, OpEffect.event.outcome))
        /\ running'.objects = running.objects
        /\ running'.missed = running.missed \cup OpEffect.missed
    BY <1>12 DEF OpMakesOne, RunningAfter
  <2>2. OpLeaves /\ OpHandle \in DOMAIN objects' /\ oids'[OpHandle] = nextOid
    BY <1>1, <1>2, <1>12, <2>1, OpLeavesOne
  <2>3. \E h \in DOMAIN objects' : oids'[h] = nextOid  BY <2>2
  <2>4. OpMade(<<nextOid>>, OpEffect.event.outcome)  BY <1>12 DEF OpMade
  <2>5. <<nextOid>> # <<>>  OBVIOUS
  <2> QED  BY <1>7, <1>8, <1>9, <1>12, <2>1, <2>2, <2>3, <2>4, <2>5
<1> QED  BY <1>2, <1>6, <1>10, <1>11, <1>12, RunOpCases

-----------------------------------------------------------------------------

(* Rebuildable, step by step: a void call and its replay. *)

\* The history of a document, among those to replay.
LEMMA ToReplayIs ==
    ASSUME CoreTypes
    PROVE  /\ ToReplay \in Seq(HistoryEntries)
           /\ \A d \in running.touched : EntriesOf(ToReplay, d) = EntriesOf(history, d)
<1> DEFINE S == UNION {Of(history, d) : d \in running.touched}
<1>1. history \in Seq(HistoryEntries)  BY DEF CoreTypes
<1>2. ToReplay = Selected(history, S)  BY DEF ToReplay
<1>3. \A d \in running.touched : Of(history, d) \subseteq S  OBVIOUS
<1> HIDE DEF S, HistoryEntries
<1>4. Selected(history, S) \in Seq(HistoryEntries)  BY <1>1, SelectedType
<1>5. \A d \in running.touched : EntriesOf(Selected(history, S), d) = EntriesOf(history, d)
  BY <1>1, <1>3, EntriesKept
<1> QED  BY <1>2, <1>4, <1>5

\* A void call goes back to the history it found, with nothing replayed yet.
LEMMA RebuildableVoid ==
    ASSUME CoreSane, Rebuildable, Void
    PROVE  Rebuildable'
<1> DEFINE os2 == ResetAll(Without(objects, Made), running.touched)
           ids2 == Without(oids, Made)
           fs2 == [d \in DOMAIN flags |->
                     IF d \in running.touched THEN [flags[d] EXCEPT !.scanned = TRUE]
                     ELSE flags[d]]
<1>1. /\ phase = "running" /\ phase' = "replaying" /\ loaded' = loaded
      /\ history' = KeptByVoid /\ objects' = os2 /\ oids' = ids2 /\ flags' = fs2
      /\ running' = [running EXCEPT !.missed = {}]
      /\ ghosts' = ghosts /\ before' = before
  BY DEF Void, cmapState, Reached
<1>2. CoreTypes /\ InRun  BY <1>1 DEF CoreSane
<1>3. HistoryTells(running.objects, before.oids, before.history, flags, loaded)
  BY <1>1 DEF Rebuildable
<1>4. KeptByVoid = before.history /\ ids2 = before.oids
  BY <1>2, VoidHistory, WithoutMade
<1>5. running \in RunFields(running)  BY <1>2 DEF InRun, InCall
<1>6. running'.objects = running.objects /\ running'.missed = {} /\ running'.touched = running.touched
  BY <1>1, <1>5 DEF RunFields
<1>7. flags \in [DocumentsOf(objects) -> Flags]  BY <1>2 DEF CoreTypes
<1>8. DOMAIN fs2 = DOMAIN flags /\ \A d \in DOMAIN flags :
        fs2[d].broken = flags[d].broken /\ fs2[d].unrecorded = flags[d].unrecorded
  BY <1>7 DEF Flags
<1>9. Recorded(fs2) = Recorded(flags)  BY <1>8 DEF Recorded
<1>10. HistoryTells(running.objects, ids2, before.history, fs2, loaded)
  <2> HIDE DEF fs2, ids2
  <2>1. HistoryTells(running.objects, before.oids, before.history, fs2, loaded)
    BY <1>3, <1>9, TellsMore
  <2> QED  BY <1>4, <2>1
<1>11. ASSUME ~failed'
       PROVE  Rebuilt'
  <2>1. /\ \A d \in running.touched : ~flags[d].unrecorded
        /\ replay' = Selected(KeptByVoid, UNION {Of(KeptByVoid, d) : d \in running.touched})
    BY <1>11 DEF Void, Reached
  <2>2. ToReplay' = replay'  BY <1>1, <1>6, <2>1 DEF ToReplay
  <2>3. replay' \in Seq(HistoryEntries)
    <3> DEFINE S == UNION {Of(KeptByVoid, d) : d \in running.touched} hs == before.history
    <3>1. hs \in Seq(HistoryEntries)  BY <1>2 DEF InRun, InCall
    <3>2. replay' = Selected(hs, S)  BY <1>4, <2>1
    <3> HIDE DEF S, hs, HistoryEntries
    <3>3. Selected(hs, S) \in Seq(HistoryEntries)  BY <3>1, SelectedType
    <3> QED  BY <3>2, <3>3
  <2>4. Replayed' = <<>>
    <3> HIDE DEF HistoryEntries
    <3>1. Replayed' = SubSeq(replay', 1, Len(replay') - Len(replay'))  BY <2>2 DEF Replayed
    <3>2. Len(replay') - Len(replay') = 0  BY <2>3
    <3>3. SubSeq(replay', 1, 0) = <<>>  BY <2>3
    <3> QED  BY <3>1, <3>2, <3>3
  <2>5. ToReplay' = Replayed' \o replay'
    <3> HIDE DEF HistoryEntries
    <3> QED  BY <2>2, <2>3, <2>4
  <2>6. running.touched \subseteq Recorded(flags')
    <3>1. running.touched \subseteq DocumentsOf(objects) \ Broken
      BY <1>2 DEF InRun, InCall
    <3>2. running.touched \subseteq Recorded(flags)
      BY <1>7, <2>1, <3>1 DEF Recorded, Broken
    <3> QED  BY <1>1, <1>9, <3>2
  <2>7. ASSUME NEW d \in running.touched
        PROVE  RebuiltTo(objects', oids', ghosts', EntriesOf(history', d),
                         running'.objects[d].log, d, HowFar(d)')
    <3>1. HowFar(d)' = 0
      <4>1. EntriesOf(<<>>, d) = <<>>  BY NoEntries
      <4> QED  BY <2>4, <4>1 DEF HowFar
    <3>2. Table(running.objects) /\ d \in DocumentsOf(running.objects)
      BY <1>2 DEF InRun, InCall
    <3>3. SubSeq(running.objects[d].log, 1, 0) = <<>>
      <4> DEFINE l == running.objects[d].log
      <4>1. l \in Seq(Events)  BY <3>2, TableGives DEF DocumentsOf
      <4> HIDE DEF l, Events
      <4>2. SubSeq(l, 1, 0) = <<>>  BY <4>1
      <4> QED  BY <4>2 DEF l
    <3>4. Table(Without(objects, Made)) /\ DOMAIN Without(objects, Made) = DOMAIN running.objects
          /\ DocumentsOf(Without(objects, Made)) = DocumentsOf(objects)
      BY <1>2, WithoutMade
    <3>5. /\ DOMAIN os2 = DOMAIN running.objects
          /\ \A h \in DOMAIN os2 : Without(objects, Made)[h].doc = d =>
               /\ Without(objects, Made)[h].kind = "document" => os2[h].log = <<>>
               /\ Without(objects, Made)[h].kind # "document" => os2[h].value = 0
          /\ \A h \in DOMAIN os2 : os2[h].doc = Without(objects, Made)[h].doc
               /\ os2[h].kind = Without(objects, Made)[h].kind
      <4> DEFINE os == Without(objects, Made) ds == running.touched
      <4>1. Table(os) /\ DOMAIN os = DOMAIN running.objects /\ d \in ds  BY <3>4
      <4> HIDE DEF os, ds
      <4>2. /\ DOMAIN ResetAll(os, ds) = DOMAIN os
            /\ \A h \in DOMAIN os :
                LET o == ResetAll(os, ds)[h] IN
                /\ o.kind = os[h].kind /\ o.doc = os[h].doc
                /\ os[h].doc \in ds /\ os[h].kind = "document" => o.log = <<>>
                /\ os[h].doc \in ds /\ os[h].kind # "document" => o.value = 0
        BY <4>1, ResetAllIs
      <4> QED  BY <4>1, <4>2 DEF os, ds
    <3>6. d \in DOMAIN os2 /\ os2[d].log = <<>>
      <4>1. d \in DocumentsOf(Without(objects, Made))
        BY <1>2, <3>2, <3>4 DEF InRun, InCall
      <4>2. d \in DOMAIN Without(objects, Made) /\ Without(objects, Made)[d].kind = "document"
        BY <4>1 DEF DocumentsOf
      <4>3. Without(objects, Made)[d].doc = d  BY <3>4, <4>2 DEF Table
      <4> QED  BY <3>4, <3>5, <4>2, <4>3
    <3>7. \A h \in DOMAIN os2 \ {d} : os2[h].doc = d => os2[h].value = 0
      <4>1. SUFFICES ASSUME NEW h \in DOMAIN os2 \ {d}, os2[h].doc = d
                     PROVE  os2[h].value = 0
        OBVIOUS
      <4>2. Without(objects, Made)[h].doc = d  BY <3>5, <4>1
      <4>3. Without(objects, Made)[h].kind # "document"  BY <3>4, <3>5, <4>1, <4>2 DEF Table
      <4> QED  BY <3>5, <4>2, <4>3
    <3> DEFINE es == EntriesOf(history', d) l == running.objects[d].log
    <3>8. \A n \in DOMAIN es : ~ n <= 0
      <4>1. es = EntriesOf(before.history, d)  BY <1>1, <1>4
      <4>2. before.history \in Seq(HistoryEntries)  BY <1>2 DEF InRun, InCall
      <4>3. EntriesOf(before.history, d) \in Seq(HistoryEntries)  BY <4>2, EntriesType
      <4> HIDE DEF es, HistoryEntries
      <4> QED  BY <4>1, <4>3
    <3> HIDE DEF os2, ids2, es, l
    <3>9. RebuiltTo(os2, ids2, ghosts, es, l, d, 0)
      BY <3>3, <3>6, <3>7, <3>8 DEF RebuiltTo, l
    <3> QED  BY <1>1, <1>6, <3>1, <3>9 DEF es, l
  <2> QED  BY <1>6, <2>5, <2>6, <2>7 DEF Rebuilt
<1>12. HistoryTells(running'.objects, oids', history', flags', loaded')
  BY <1>1, <1>4, <1>6, <1>10
<1> QED  BY <1>1, <1>11, <1>12 DEF Rebuildable

\* When the replay ended, the documents are as they were.
LEMMA RebuiltAll ==
    ASSUME CoreTypes, InReplay, Rebuilt, replay = <<>>,
           HistoryTells(running.objects, oids, history, flags, loaded)
    PROVE  objects = running.objects
<1>1. /\ Table(objects) /\ Table(running.objects) /\ DOMAIN objects = DOMAIN running.objects
      /\ \A h \in DOMAIN objects :
         /\ objects[h].kind = running.objects[h].kind
         /\ objects[h].doc = running.objects[h].doc
         /\ running.objects[h].doc \notin running.touched => objects[h] = running.objects[h]
      /\ history \in Seq(HistoryEntries)
      /\ \A i \in DOMAIN history : EntryNamed(history[i], objects, oids, nextOid)
      /\ DOMAIN oids = DOMAIN objects
  BY DEF CoreTypes, Named, InReplay, InCall
<1>2. Replayed = ToReplay
  <2> HIDE DEF HistoryEntries
  <2>1. ToReplay \in Seq(HistoryEntries)  BY ToReplayIs
  <2>2. Replayed = SubSeq(ToReplay, 1, Len(ToReplay) - Len(replay))  BY DEF Replayed
  <2>3. Len(replay) = 0  OBVIOUS
  <2>4. Len(ToReplay) - 0 = Len(ToReplay)  BY <2>1
  <2>5. SubSeq(ToReplay, 1, Len(ToReplay)) = ToReplay  BY <2>1
  <2> QED  BY <2>2, <2>3, <2>4, <2>5
<1>3. ASSUME NEW h \in DOMAIN objects, objects[h].doc \in running.touched
      PROVE  objects[h].log = running.objects[h].log /\ objects[h].value = running.objects[h].value
  <2> DEFINE d == objects[h].doc
             es == EntriesOf(history, d)
             log == running.objects[d].log
  <2>1. /\ Told(es, log, loaded) /\ Known(running.objects, oids, d, es, log)
        /\ RebuiltTo(objects, oids, ghosts, es, log, d, HowFar(d))
    BY <1>3 DEF HistoryTells, Rebuilt
  <2>2. HowFar(d) = Len(log)
    <3>1. EntriesOf(ToReplay, d) = es  BY <1>3, ToReplayIs
    <3> QED  BY <1>2, <2>1, <3>1 DEF HowFar, Told
  <2>3. es \in Seq(HistoryEntries) /\ Len(es) = Len(log)  BY <1>1, <2>1, EntriesNamed DEF Told
  <2>4. d \in DOMAIN objects /\ objects[d].kind = "document" /\ objects[d].doc = d
    BY <1>1 DEF Table
  <2>5. log \in Seq(Events)  BY <1>1, <2>4, TableGives
  <2>6. CASE h = d
    <3>1. objects[d].log = log
      <4> HIDE DEF log, Events
      <4>1. objects[d].log = SubSeq(log, 1, Len(log))  BY <2>1, <2>2 DEF RebuiltTo
      <4> QED  BY <2>5, <4>1, AllEvents
    <3>2. objects[h].value = 1 /\ running.objects[h].value = 1
      BY <1>1, <2>4, <2>6 DEF Table
    <3> QED  BY <2>6, <3>1, <3>2
  <2>7. CASE h # d
    <3>1. PICK n \in DOMAIN es :
            es[n].created = <<oids[h]>> /\ running.objects[h].value = ValueMade(log, n)
      BY <1>1, <2>1 DEF Known
    <3>2. n <= HowFar(d)
      <4> HIDE DEF es, HistoryEntries
      <4> QED  BY <2>2, <2>3, <3>1
    <3>3. objects[h].value = ValueMade(log, n)
      <4> HIDE DEF es, log
      <4> QED  BY <2>1, <2>7, <3>1, <3>2 DEF RebuiltTo
    <3>4. objects[h].kind # "document"  BY <1>1, <2>7 DEF Table
    <3>5. objects[h].log = <<>> /\ running.objects[h].log = <<>>
      BY <1>1, <3>4 DEF Table
    <3> QED  BY <3>1, <3>3, <3>5
  <2> QED  BY <2>6, <2>7
<1>4. ASSUME NEW h \in DOMAIN objects
      PROVE  objects[h] = running.objects[h]
  <2>1. CASE objects[h].doc \notin running.touched  BY <1>1, <2>1
  <2>2. CASE objects[h].doc \in running.touched
    <3>1. objects[h] \in TableObjects /\ running.objects[h] \in TableObjects
      BY <1>1, TableGives
    <3> QED  BY <1>1, <1>3, <2>2, <3>1 DEF TableObjects
  <2> QED  BY <2>1, <2>2
<1>5. objects = [h \in DOMAIN objects |-> objects[h]]
      /\ running.objects = [h \in DOMAIN running.objects |-> running.objects[h]]
  BY <1>1 DEF Table
<1> QED  BY <1>1, <1>4, <1>5

\* The flags of the documents lost.
LEMMA EndFlags ==
    ASSUME CoreTypes, InReplay, NEW broken, broken = {} \/ broken = running.touched,
           flags' = [d \in DOMAIN flags |->
                       IF d \in broken THEN [flags[d] EXCEPT !.broken = TRUE] ELSE flags[d]]
    PROVE  /\ DOMAIN flags' = DOMAIN flags
           /\ \A d \in DOMAIN flags : flags'[d].unrecorded = flags[d].unrecorded
           /\ Recorded(flags') = Recorded(flags) \ broken
           /\ Broken' = Broken \cup broken /\ Broken \cap broken = {}
<1>1. flags \in [DocumentsOf(objects) -> Flags]  BY DEF CoreTypes
<1>2. broken \subseteq DOMAIN flags \ Broken
  <2>1. running.touched \subseteq DocumentsOf(objects) \ Broken  BY DEF InReplay, InCall
  <2> QED  BY <1>1, <2>1
<1>3. /\ DOMAIN flags' = DOMAIN flags
      /\ \A d \in DOMAIN flags : flags'[d].unrecorded = flags[d].unrecorded
           /\ flags'[d].broken = (flags[d].broken \/ d \in broken)
  BY <1>1 DEF Flags
<1>4. Recorded(flags') = Recorded(flags) \ broken
  <2>1. \A d : d \in Recorded(flags') <=> d \in Recorded(flags) \ broken
    BY <1>3 DEF Recorded
  <2> QED  BY <2>1
<1>5. Broken' = Broken \cup broken
  <2>1. \A d : d \in Broken' <=> d \in Broken \cup broken  BY <1>2, <1>3 DEF Broken
  <2> QED  BY <2>1
<1> QED  BY <1>2, <1>3, <1>4, <1>5

\* What the end of a void call leaves is what it found, the documents lost reset:
\* those it reached when the replay failed, else none.
Loses(broken) ==
    /\ broken = {} \/ broken = running.touched
    /\ objects' = ResetAll(running.objects, broken)
    /\ flags' = [d \in DOMAIN flags |->
                  IF d \in broken THEN [flags[d] EXCEPT !.broken = TRUE] ELSE flags[d]]
    /\ failed \/ broken = {}

\* A void call ends with what it found: its replay was whole, or the documents are lost.
LEMMA EndVoidIs ==
    ASSUME CoreSane, Rebuildable, EndVoid
    PROVE  \E broken : Loses(broken)
<1> DEFINE broken == IF failed \/ running.missed # {} THEN running.touched ELSE {}
<1>1. /\ phase = "replaying"
      /\ failed \/ replay = <<>>
      /\ objects' = ResetAll(objects, broken)
      /\ flags' = [d \in DOMAIN flags |->
                     IF d \in broken THEN [flags[d] EXCEPT !.broken = TRUE] ELSE flags[d]]
  BY DEF EndVoid, Reached
<1>2. CoreTypes /\ InReplay  BY <1>1 DEF CoreSane
<1>3. HistoryTells(running.objects, oids, history, flags, loaded) /\ (failed \/ Rebuilt)
  BY <1>1 DEF Rebuildable
<1>4. /\ Table(objects) /\ Table(running.objects) /\ DOMAIN objects = DOMAIN running.objects
      /\ \A h \in DOMAIN objects :
         /\ objects[h].kind = running.objects[h].kind
         /\ objects[h].doc = running.objects[h].doc
         /\ running.objects[h].doc \notin running.touched => objects[h] = running.objects[h]
  BY <1>2 DEF CoreTypes, InReplay, InCall
<1>5. CASE ~failed
  <2>1. objects = running.objects
    <3>1. Rebuilt /\ replay = <<>>  BY <1>1, <1>3, <1>5
    <3> QED  BY <1>2, <1>3, <3>1, RebuiltAll
  <2>2. broken = {}  BY <1>3, <1>5 DEF Rebuilt
  <2>3. Loses(broken)  BY <1>1, <2>1, <2>2 DEF Loses
  <2> HIDE DEF broken
  <2> QED  BY <2>3
<1>6. CASE failed
  <2>1. broken = running.touched  BY <1>6
  <2>2. \A h \in DOMAIN objects :
          (IF objects[h].doc \in broken THEN Reset(objects[h]) ELSE objects[h])
          = (IF running.objects[h].doc \in broken THEN Reset(running.objects[h])
             ELSE running.objects[h])
    <3>1. SUFFICES ASSUME NEW h \in DOMAIN objects, objects[h].doc \in running.touched
                   PROVE  Reset(objects[h]) = Reset(running.objects[h])
      BY <1>4, <2>1
    <3> DEFINE a == objects[h] b == running.objects[h]
    <3>2. /\ a \in TableObjects /\ b \in TableObjects /\ a.kind = b.kind /\ a.doc = b.doc
          /\ a.kind = "document" => a.value = 1 /\ b.value = 1
          /\ a.kind # "document" => a.log = <<>> /\ b.log = <<>>
      BY <1>4, TableGives DEF Table
    <3> HIDE DEF a, b
    <3>3. /\ a = [kind |-> a.kind, doc |-> a.doc, value |-> a.value, log |-> a.log]
          /\ b = [kind |-> b.kind, doc |-> b.doc, value |-> b.value, log |-> b.log]
      BY <3>2 DEF TableObjects
    <3>4. Reset(a) = Reset(b)  BY <3>2, <3>3 DEF Reset
    <3> QED  BY <3>4 DEF a, b
  <2>3. ResetAll(objects, broken) = ResetAll(running.objects, broken)
    BY <1>4, <2>2 DEF ResetAll
  <2>4. Loses(broken)  BY <1>1, <1>6, <2>1, <2>3 DEF Loses
  <2> HIDE DEF broken
  <2> QED  BY <2>4
<1> QED  BY <1>5, <1>6

\* Then the history tells the objects that call found, which are there again.
LEMMA RebuildableEndVoid ==
    ASSUME CoreSane, Rebuildable, EndVoid
    PROVE  Rebuildable'
<1>1. /\ phase = "replaying" /\ phase' = "idle"
      /\ oids' = oids /\ history' = history /\ loaded' = loaded
  BY DEF EndVoid, cmapState
<1>2. CoreTypes /\ InReplay  BY <1>1 DEF CoreSane
<1>3. HistoryTells(running.objects, oids, history, flags, loaded)
  BY <1>1 DEF Rebuildable
<1>0. PICK broken : Loses(broken)  BY EndVoidIs
<1>4. /\ broken = {} \/ broken = running.touched
      /\ objects' = ResetAll(running.objects, broken)
      /\ flags' = [d \in DOMAIN flags |->
                    IF d \in broken THEN [flags[d] EXCEPT !.broken = TRUE] ELSE flags[d]]
  BY <1>0 DEF Loses
<1>5. Recorded(flags') = Recorded(flags) \ broken  BY <1>2, <1>4, EndFlags
<1>6. /\ Table(running.objects) /\ DocumentsOf(objects) = DocumentsOf(running.objects)
      /\ DOMAIN flags = DocumentsOf(objects)
  BY <1>2 DEF CoreTypes, InReplay, InCall
<1>7. /\ DOMAIN objects' = DOMAIN running.objects
      /\ \A h \in DOMAIN running.objects :
           /\ objects'[h].doc = running.objects[h].doc
           /\ running.objects[h].doc \notin broken => objects'[h] = running.objects[h]
  <2> DEFINE os == running.objects ds == broken
  <2>1. Table(os)  BY <1>6
  <2> HIDE DEF os, ds
  <2>2. /\ DOMAIN ResetAll(os, ds) = DOMAIN os
        /\ \A h \in DOMAIN os :
             LET o == ResetAll(os, ds)[h] IN
             /\ o.kind = os[h].kind /\ o.doc = os[h].doc
             /\ os[h].doc \notin ds => o = os[h]
    BY <2>1, ResetAllIs
  <2> QED  BY <1>4, <2>2 DEF os, ds
<1>8. ASSUME NEW d \in Recorded(flags')
      PROVE  /\ Told(EntriesOf(history, d), objects'[d].log, loaded)
             /\ Known(objects', oids, d, EntriesOf(history, d), objects'[d].log)
  <2>1. d \in Recorded(flags) /\ d \notin broken /\ d \in DOMAIN running.objects
    BY <1>5, <1>6, <1>8 DEF Recorded, DocumentsOf
  <2>2. running.objects[d].doc = d
    BY <1>6, <2>1 DEF Recorded, DocumentsOf, Table
  <2>3. objects'[d].log = running.objects[d].log  BY <1>7, <2>1, <2>2
  <2> DEFINE es == EntriesOf(history, d) log == running.objects[d].log
             os == running.objects os2 == objects' ids == oids
  <2>4. Told(es, log, loaded) /\ Known(os, ids, d, es, log)
    BY <1>3, <2>1 DEF HistoryTells
  <2>5. \A h \in DOMAIN os2 : os2[h].doc = d =>
             /\ h \in DOMAIN os /\ os[h].doc = d /\ ids[h] = ids[h]
             /\ os2[h].kind = os[h].kind /\ os2[h].value = os[h].value
    BY <1>7, <2>1
  <2>6. \A h \in DOMAIN os, n \in DOMAIN es :
             es[n].created = <<ids[h]>> /\ es[n].op # "crop" =>
               h \in DOMAIN os2 /\ ids[h] = ids[h]
    BY <1>7
  <2>7. objects'[d].log = log  BY <2>3
  <2> HIDE DEF es, log, os, os2, ids
  <2>8. Known(os2, ids, d, es, log)  BY <2>4, <2>5, <2>6, KnownSame
  <2> QED  BY <2>4, <2>7, <2>8 DEF es, os2, ids
<1>9. MadeOnce(history)  BY <1>3 DEF HistoryTells
<1>10. HistoryTells(objects', oids', history', flags', loaded')
  BY <1>1, <1>8, <1>9 DEF HistoryTells
<1> QED  BY <1>1, <1>10 DEF Rebuildable

\* The first member of the second of two parts can be the last of the first.
LEMMA NextMember ==
    ASSUME NEW R, NEW s \in Seq(R), NEW r \in Seq(R), r # <<>>
    PROVE  s \o r = Append(s, Head(r)) \o Tail(r)
<1> DEFINE a == s \o r
           b == Append(s, Head(r))
           c == b \o Tail(r)
<1>1. /\ Head(r) \in R /\ Tail(r) \in Seq(R) /\ Len(Tail(r)) = Len(r) - 1 /\ Len(r) \in Nat \ {0}
      /\ Len(s) \in Nat /\ Head(r) = r[1]
      /\ \A i \in 1 .. Len(r) - 1 : Tail(r)[i] = r[i + 1]
  OBVIOUS
<1>2. /\ b \in Seq(R) /\ Len(b) = Len(s) + 1 /\ b[Len(s) + 1] = r[1]
      /\ \A i \in 1 .. Len(s) : b[i] = s[i]
  BY <1>1
<1>3. /\ a \in Seq(R) /\ Len(a) = Len(s) + Len(r)
      /\ \A i \in 1 .. Len(a) : a[i] = IF i <= Len(s) THEN s[i] ELSE r[i - Len(s)]
  BY <1>1
<1> HIDE DEF b
<1>4. /\ c \in Seq(R) /\ Len(c) = Len(s) + Len(r)
      /\ \A i \in 1 .. Len(c) : c[i] = IF i <= Len(s) + 1 THEN b[i] ELSE Tail(r)[i - (Len(s) + 1)]
  BY <1>1, <1>2
<1> HIDE DEF a, c
<1>5. ASSUME NEW i \in 1 .. Len(a)
      PROVE  a[i] = c[i]
  <2>0. i \in 1 .. Len(c) /\ Len(a) = Len(s) + Len(r) /\ i \in Nat  BY <1>1, <1>3, <1>4
  <2>1. CASE i <= Len(s)
    <3>1. i \in 1 .. Len(s) /\ i <= Len(s) + 1  BY <1>1, <2>0, <2>1
    <3>2. a[i] = s[i]  BY <1>3, <2>1
    <3>3. c[i] = b[i]  BY <1>4, <2>0, <3>1
    <3>4. b[i] = s[i]  BY <1>2, <3>1
    <3> QED  BY <3>2, <3>3, <3>4
  <2>2. CASE i = Len(s) + 1
    <3>0. ~ i <= Len(s) /\ i <= Len(s) + 1 /\ i - Len(s) = 1  BY <1>1, <2>2
    <3>1. a[i] = r[i - Len(s)]  BY <1>3, <3>0
    <3>2. c[i] = b[i]  BY <1>4, <2>0, <3>0
    <3> QED  BY <1>2, <2>2, <3>0, <3>1, <3>2
  <2>3. CASE i > Len(s) + 1
    <3>0. ~ i <= Len(s) /\ ~ i <= Len(s) + 1  BY <1>1, <2>0, <2>3
    <3>1. a[i] = r[i - Len(s)]  BY <1>3, <3>0
    <3>2. c[i] = Tail(r)[i - (Len(s) + 1)]  BY <1>4, <2>0, <3>0
    <3>3. i - (Len(s) + 1) \in 1 .. Len(r) - 1 /\ (i - (Len(s) + 1)) + 1 = i - Len(s)
      BY <1>1, <2>0, <2>3
    <3>4. Tail(r)[i - (Len(s) + 1)] = r[(i - (Len(s) + 1)) + 1]  BY <1>1, <3>3
    <3> QED  BY <3>1, <3>2, <3>3, <3>4
  <2>4. i <= Len(s) \/ i = Len(s) + 1 \/ i > Len(s) + 1  BY <1>1, <2>0
  <2> QED  BY <2>1, <2>2, <2>3, <2>4
<1>6. a = c
  <2>1. Len(a) = Len(c)  BY <1>3, <1>4
  <2> QED  BY <1>3, <1>4, <1>5, <2>1
<1> QED  BY <1>6 DEF a, b, c

\* One entry less to replay is one more replayed, the next of its document.
LEMMA NextEntry ==
    ASSUME CoreTypes, InReplay, replay # <<>>, ToReplay = Replayed \o replay,
           replay' = Tail(replay), history' = history, running'.touched = running.touched,
           NEW d, d = Again.doc
    PROVE  /\ ToReplay' = Replayed' \o replay'
           /\ HowFar(d) \in Nat /\ HowFar(d)' = HowFar(d) + 1
           /\ HowFar(d) + 1 \in DOMAIN EntriesOf(history, d)
           /\ EntriesOf(history, d)[HowFar(d) + 1] = Again
           /\ \A k \in running.touched : k # d => HowFar(k)' = HowFar(k)
           /\ \A k \in running.touched : HowFar(k) \in 0 .. Len(EntriesOf(history, k))
<1> DEFINE R == HistoryEntries
           s == Replayed
           t == Tail(replay)
           e == Again
           all == ToReplay
<1>1. replay \in Seq(R) /\ replay # <<>> /\ d \in running.touched /\ e \in R /\ t \in Seq(R)
  BY AgainFacts DEF InReplay
<1>2. all \in Seq(R) /\ \A k \in running.touched : EntriesOf(all, k) = EntriesOf(history, k)
  BY ToReplayIs
<1>3. s = SubSeq(all, 1, Len(all) - Len(replay)) /\ e = Head(replay) /\ all = s \o replay
  BY DEF Replayed, Again
<1>4. all' = all  BY DEF ToReplay
<1> HIDE DEF R, s, t, e, all
<1>5. s \in Seq(R)
  <2>1. DOMAIN all = 1 .. Len(all) /\ \A i \in 1 .. Len(all) : all[i] \in R  BY <1>2
  <2>2. Len(replay) \in Nat /\ Len(all) \in Nat  BY <1>1, <1>2
  <2>3. \A i \in 1 .. Len(all) - Len(replay) : all[i] \in R  BY <2>1, <2>2
  <2> QED  BY <1>2, <1>3, <2>2, <2>3
<1>6. Len(all) = Len(s) + Len(replay) /\ Len(t) = Len(replay) - 1 /\ t = Tail(replay)
  BY <1>1, <1>3, <1>5 DEF t
<1>7. all = Append(s, e) \o t
  <2>1. s \o replay = Append(s, Head(replay)) \o Tail(replay)  BY <1>1, <1>5, NextMember
  <2> QED  BY <1>3, <1>6, <2>1
<1>8. Append(s, e) \in Seq(R) /\ Len(Append(s, e)) = Len(s) + 1  BY <1>1, <1>5
<1>9. Replayed' = Append(s, e)
  <2>1. replay' = t  BY DEF t
  <2>2. Replayed' = SubSeq(all, 1, Len(all) - Len(t))  BY <1>4, <2>1 DEF Replayed, all
  <2>3. Len(all) - Len(t) = Len(s) + 1  BY <1>1, <1>2, <1>5, <1>6
  <2>4. SubSeq(Append(s, e) \o t, 1, Len(s) + 1) = Append(s, e)
    <3> DEFINE a == Append(s, e)
    <3>1. a \in Seq(R) /\ Len(a) = Len(s) + 1  BY <1>8
    <3> HIDE DEF a
    <3>2. SubSeq(a \o t, 1, Len(a)) = a  BY <1>1, <3>1
    <3> QED  BY <3>1, <3>2 DEF a
  <2> QED  BY <1>7, <2>2, <2>3, <2>4
<1>10. ToReplay' = Replayed' \o replay'
  <2>1. replay' = t  BY DEF t
  <2> QED  BY <1>4, <1>7, <1>9, <2>1 DEF all
<1>11. \A k : EntriesOf(Append(s, e), k) =
                IF e.doc = k THEN Append(EntriesOf(s, k), e) ELSE EntriesOf(s, k)
  BY <1>1, <1>5, OneEntryMore
<1>12. \A k : EntriesOf(s, k) \in Seq(R)  BY <1>5, EntriesType
<1>13. \A k : EntriesOf(t, k) \in Seq(R)  BY <1>1, EntriesType
<1>14. \A k : HowFar(k) = Len(EntriesOf(s, k)) /\ HowFar(k)' = Len(EntriesOf(Append(s, e), k))
  BY <1>9 DEF HowFar, s
<1>15. e.doc = d  BY DEF e
<1>16. \A k : k # d => HowFar(k)' = HowFar(k)  BY <1>11, <1>14, <1>15
<1>17. \A k \in running.touched : EntriesOf(history, k) = EntriesOf(Append(s, e), k) \o EntriesOf(t, k)
  <2>1. \A k : EntriesOf(Append(s, e) \o t, k) = EntriesOf(Append(s, e), k) \o EntriesOf(t, k)
    <3> DEFINE a == Append(s, e)
    <3>1. a \in Seq(R)  BY <1>8
    <3> HIDE DEF a
    <3>2. \A k : EntriesOf(a \o t, k) = EntriesOf(a, k) \o EntriesOf(t, k)
      BY <1>1, <3>1, EntriesConcat
    <3> QED  BY <3>2 DEF a
  <2> QED  BY <1>2, <1>7, <2>1
<1> DEFINE a == EntriesOf(s, d) b == EntriesOf(t, d) all2 == EntriesOf(history, d)
<1>18. a \in Seq(R) /\ b \in Seq(R) /\ all2 = Append(a, e) \o b /\ HowFar(d) = Len(a)
  BY <1>1, <1>11, <1>12, <1>13, <1>14, <1>15, <1>17
<1>19. HowFar(d)' = Len(Append(a, e))  BY <1>11, <1>14, <1>15
<1> HIDE DEF a, b, all2
<1>20. /\ Len(a) \in Nat /\ Len(Append(a, e)) = Len(a) + 1
       /\ Len(a) + 1 \in DOMAIN all2 /\ all2[Len(a) + 1] = e
  BY <1>1, <1>18
<1>21. \A k \in running.touched : HowFar(k) \in 0 .. Len(EntriesOf(history, k))
  <2>1. SUFFICES ASSUME NEW k \in running.touched
                 PROVE  HowFar(k) \in 0 .. Len(EntriesOf(history, k))
    OBVIOUS
  <2> DEFINE x == EntriesOf(s, k) y == EntriesOf(t, k) z == EntriesOf(history, k)
  <2>2. x \in Seq(R) /\ y \in Seq(R) /\ HowFar(k) = Len(x)
        /\ (z = x \o y \/ z = Append(x, e) \o y)
    BY <1>11, <1>12, <1>13, <1>14, <1>17
  <2> HIDE DEF x, y, z
  <2>3. Len(x) \in 0 .. Len(z)  BY <1>1, <2>2
  <2> QED  BY <2>2, <2>3 DEF z
<1>22. /\ ToReplay' = Replayed' \o replay'
       /\ HowFar(d) \in Nat /\ HowFar(d)' = HowFar(d) + 1
       /\ HowFar(d) + 1 \in DOMAIN all2
       /\ all2[HowFar(d) + 1] = e
       /\ \A k \in running.touched : k # d => HowFar(k)' = HowFar(k)
       /\ \A k \in running.touched : HowFar(k) \in 0 .. Len(EntriesOf(history, k))
  BY <1>10, <1>16, <1>18, <1>19, <1>20, <1>21
<1> QED  BY <1>22 DEF e, all2

\* What the replay has of a document stays when its objects do.
LEMMA RebuiltSame ==
    ASSUME NEW os, NEW ids, NEW gs, NEW entries, NEW log, NEW d, NEW k,
           RebuiltTo(os, ids, gs, entries, log, d, k), NEW os2, NEW gs2,
           DOMAIN os2 = DOMAIN os, os2[d] = os[d],
           \A h \in DOMAIN os : os2[h].doc = d => os[h].doc = d /\ os2[h].value = os[h].value,
           \A n \in 1 .. k : LET o == entries[n].created[1] IN
             entries[n].created # <<>> /\ o \in DOMAIN gs =>
               o \in DOMAIN gs2 /\ gs2[o] = gs[o]
    PROVE  RebuiltTo(os2, ids, gs2, entries, log, d, k)
<1>1. os2[d].log = SubSeq(log, 1, k)  BY DEF RebuiltTo
<1>2. \A h \in DOMAIN os2 \ {d} : os2[h].doc = d =>
         \A n \in DOMAIN entries : entries[n].created = <<ids[h]>> =>
           os2[h].value = IF n <= k THEN ValueMade(log, n) ELSE 0
  BY DEF RebuiltTo
<1>3. \A n \in 1 .. k :
         LET o == entries[n].created[1] IN
           entries[n].created # <<>> /\ (\A h \in DOMAIN ids : ids[h] # o) =>
             o \in DOMAIN gs2 /\ gs2[o] = Page(d, ValueMade(log, n), entries[n].op)
  BY DEF RebuiltTo
<1> QED  BY <1>1, <1>2, <1>3 DEF RebuiltTo

\* The first entry of a document rebuilds it as it was opened.
LEMMA RebuildableReplayOpen ==
    ASSUME CoreSane, Rebuildable, ReplayOpen
    PROVE  Rebuildable'
<1>0. PICK d : d = Again.doc  OBVIOUS
<1> DEFINE k == HowFar(d)
           es == EntriesOf(history, d)
           log == running.objects[d].log
           fs2 == [flags EXCEPT ![d] = NoFlags]
           os2 == [objects EXCEPT ![d] = Document(d, <<Opening>>)]
<1>1. /\ phase = "replaying" /\ phase' = "replaying" /\ ~failed /\ failed' = failed
      /\ replay # <<>> /\ Again.op = "open" /\ replay' = Tail(replay)
      /\ objects' = os2
      /\ flags' = fs2
      /\ oids' = oids /\ history' = history /\ running' = running /\ ghosts' = ghosts
      /\ loaded' = loaded
  BY <1>0 DEF ReplayOpen, Again, cmapState
<1>2. CoreTypes /\ InReplay  BY <1>1 DEF CoreSane
<1>3. HistoryTells(running.objects, oids, history, flags, loaded) /\ Rebuilt
  BY <1>1 DEF Rebuildable
<1>4. ToReplay = Replayed \o replay /\ running.missed = {}
      /\ running.touched \subseteq Recorded(flags)
  BY <1>3 DEF Rebuilt
<1>5. /\ Again \in HistoryEntries /\ d \in running.touched
      /\ EntryNamed(Again, objects, oids, nextOid)
      /\ d \in DocumentsOf(objects) /\ d \in DOMAIN objects
  BY <1>0, <1>1, <1>2, AgainFacts
<1>6. /\ ToReplay' = Replayed' \o replay'
      /\ k \in Nat /\ HowFar(d)' = k + 1
      /\ k + 1 \in DOMAIN es
      /\ es[k + 1] = Again
      /\ \A j \in running.touched : j # d => HowFar(j)' = HowFar(j)
  BY <1>0, <1>1, <1>2, <1>4, NextEntry
<1>7. /\ Table(objects) /\ DOMAIN objects = DOMAIN running.objects /\ DOMAIN oids = DOMAIN objects
      /\ history \in Seq(HistoryEntries)
      /\ \A i \in DOMAIN history : EntryNamed(history[i], objects, oids, nextOid)
      /\ flags \in [DocumentsOf(objects) -> Flags]
  BY <1>2 DEF CoreTypes, Named, InReplay, InCall
<1>8. Told(es, log, loaded) /\ Known(running.objects, oids, d, es, log)
  BY <1>3, <1>4, <1>5 DEF HistoryTells
<1>9. RebuiltTo(objects, oids, ghosts, es, log, d, k)  BY <1>3, <1>5 DEF Rebuilt
<1>10. es \in Seq(HistoryEntries)  BY <1>7, EntriesNamed
<1>11. Len(es) = Len(log) /\ DOMAIN es = 1 .. Len(es) /\ DOMAIN log = 1 .. Len(log) /\ Len(log) \in Nat
  <2>1. Len(es) = Len(log)  BY <1>8 DEF Told
  <2>2. log \in Seq(Events)
    <3>1. Table(running.objects) /\ d \in DOMAIN running.objects
      BY <1>2, <1>5, <1>7 DEF InReplay, InCall
    <3> QED  BY <3>1, TableGives
  <2> HIDE DEF es, log, HistoryEntries, Events
  <2> QED  BY <1>10, <2>1, <2>2
<1>12. k + 1 = 1 /\ log[1] = Opening /\ es[1].created # <<>>
  <2>1. EventTold(es, log, k + 1, loaded)  BY <1>6, <1>8, <1>11 DEF Told
  <2> HIDE DEF es, log, k
  <2> QED  BY <1>1, <1>6, <2>1 DEF EventTold
<1>13. k = 0  BY <1>6, <1>12
<1>14. /\ os2[d] = Document(d, <<Opening>>) /\ DOMAIN os2 = DOMAIN objects
       /\ \A h \in DOMAIN objects : h # d => os2[h] = objects[h]
  BY <1>5, <1>7 DEF Table
<1>15. objects[d].doc = d  BY <1>5, <1>7 DEF DocumentsOf, Table
<1>16. RebuiltTo(os2, oids, ghosts, es, log, d, 1)
  <2>1. os2[d].log = SubSeq(log, 1, 1)
    <3>1. log \in Seq(Events)
      <4>1. Table(running.objects) /\ d \in DOMAIN running.objects
        BY <1>2, <1>5, <1>7 DEF InReplay, InCall
      <4> QED  BY <4>1, TableGives
    <3>2. 1 \in DOMAIN log  BY <1>6, <1>11, <1>12
    <3> HIDE DEF log, Events, os2
    <3>3. SubSeq(log, 1, 1) = Append(SubSeq(log, 1, 0), log[1])
      <4>1. 1 \in 1 .. Len(log) /\ 1 - 1 = 0  BY <3>1, <3>2
      <4> QED  BY <3>1, <4>1, OneEventMore
    <3>4. SubSeq(log, 1, 0) = <<>>  BY <3>1
    <3>5. Append(<<>>, log[1]) = <<log[1]>>  OBVIOUS
    <3> QED  BY <1>12, <1>14, <3>3, <3>4, <3>5 DEF Document
  <2>2. Known(running.objects, oids, d, es, log)  BY <1>8
  <2>3. es[1].op = "open"  BY <1>1, <1>6, <1>12
  <2>4. \A h \in DOMAIN oids : es[1].created[1] = oids[h] => h = d
    <3>1. SUFFICES ASSUME NEW h \in DOMAIN oids, es[1].created[1] = oids[h]
                   PROVE  h = d
      OBVIOUS
    <3>2. objects[h].doc = d /\ objects[h].kind = KindMade(es[1].op)
      <4>1. \A n \in DOMAIN es : es[n].doc = d /\ EntryNamed(es[n], objects, oids, nextOid)
        BY <1>7, EntriesNamed
      <4>2. 1 \in DOMAIN es /\ es[1].created # <<>>  BY <1>6, <1>12
      <4> HIDE DEF es
      <4>3. es[1].doc = d /\ EntryNamed(es[1], objects, oids, nextOid)  BY <4>1, <4>2
      <4> QED  BY <3>1, <4>2, <4>3 DEF EntryNamed
    <3>3. objects[h].kind = "document"  BY <2>3, <3>2 DEF KindMade
    <3> QED  BY <1>7, <3>2, <3>3 DEF Table
  <2>5. \E h \in DOMAIN oids : es[1].created[1] = oids[h]
    <3>1. \E h \in DOMAIN running.objects : es[1].created = <<oids[h]>>
      <4> HIDE DEF es, log
      <4> QED  BY <1>6, <1>12, <2>2, <2>3 DEF Known
    <3> QED  BY <1>7, <3>1
  <2>6. \A h \in DOMAIN os2 \ {d} : os2[h].doc = d =>
         \A n \in DOMAIN es : es[n].created = <<oids[h]>> =>
           os2[h].value = IF n <= 1 THEN ValueMade(log, n) ELSE 0
    <3>1. SUFFICES ASSUME NEW h \in DOMAIN os2 \ {d}, os2[h].doc = d, NEW n \in DOMAIN es,
                          es[n].created = <<oids[h]>>
                   PROVE  os2[h].value = IF n <= 1 THEN ValueMade(log, n) ELSE 0
      BY Zenon
    <3>2. os2[h] = objects[h] /\ h \in DOMAIN objects \ {d}  BY <1>14, <3>1
    <3>3. objects[h].value = IF n <= 0 THEN ValueMade(log, n) ELSE 0
      <4> HIDE DEF es, log, os2, k
      <4> QED  BY <1>9, <1>13, <3>1, <3>2 DEF RebuiltTo
    <3>4. n # 1
      <4>1. ASSUME n = 1 PROVE FALSE
        <5>1. es[1].created[1] = oids[h]  BY <3>1, <4>1
        <5> QED  BY <1>7, <2>4, <3>1, <3>2, <5>1
      <4> QED  BY <4>1
    <3>5. n \in Nat /\ n > 1
      <4> HIDE DEF es
      <4> QED  BY <1>11, <3>1, <3>4
    <3> HIDE DEF es, log, os2
    <3> QED  BY <3>2, <3>3, <3>5
  <2>7. \A n \in 1 .. 1 :
         LET o == es[n].created[1] IN
           es[n].created # <<>> /\ (\A h \in DOMAIN oids : oids[h] # o) =>
             o \in DOMAIN ghosts /\ ghosts[o] = Page(d, ValueMade(log, n), es[n].op)
    <3> HIDE DEF es, log
    <3> QED  BY <2>5
  <2> HIDE DEF es, log, os2
  <2> QED  BY <2>1, <2>6, <2>7 DEF RebuiltTo
<1>17. Recorded(fs2) = Recorded(flags) /\ DOMAIN fs2 = DOMAIN flags
  <2>1. d \in Recorded(flags)  BY <1>4, <1>5
  <2> QED  BY <1>7, <2>1 DEF Recorded, NoFlags
<1>18. ASSUME NEW j \in running.touched
       PROVE  RebuiltTo(objects', oids, ghosts, EntriesOf(history, j), running.objects[j].log,
                        j, HowFar(j)')
  <2>1. CASE j = d  BY <1>1, <1>6, <1>13, <1>16, <2>1
  <2>2. CASE j # d
    <3> DEFINE es2 == EntriesOf(history, j) log2 == running.objects[j].log
    <3>1. RebuiltTo(objects, oids, ghosts, es2, log2, j, HowFar(j))  BY <1>3 DEF Rebuilt
    <3>2. HowFar(j)' = HowFar(j)  BY <1>6, <2>2
    <3>3. j \in DOMAIN objects
      BY <1>4, <1>7 DEF Recorded, DocumentsOf
    <3>4. os2[j] = objects[j]  BY <1>14, <2>2, <3>3
    <3>5. \A h \in DOMAIN objects : os2[h].doc = j =>
            objects[h].doc = j /\ os2[h].value = objects[h].value
      BY <1>14, <1>15, <2>2 DEF Document
    <3>6. DOMAIN os2 = DOMAIN objects  BY <1>14
    <3> HIDE DEF es2, log2, os2
    <3>7. RebuiltTo(os2, oids, ghosts, es2, log2, j, HowFar(j))
      BY <3>1, <3>4, <3>5, <3>6, RebuiltSame
    <3> QED  BY <1>1, <3>2, <3>7 DEF es2, log2
  <2> QED  BY <2>1, <2>2
<1>19. Rebuilt'  BY <1>1, <1>4, <1>6, <1>17, <1>18 DEF Rebuilt
<1>20. HistoryTells(running.objects, oids, history, fs2, loaded)
  <2> HIDE DEF fs2
  <2> QED  BY <1>3, <1>17, TellsMore
<1> QED  BY <1>1, <1>19, <1>20 DEF Rebuildable

\* What is known while an entry that is no opening is replayed.
Replaying ==
    /\ CoreTypes /\ InReplay /\ Rebuilt
    /\ HistoryTells(running.objects, oids, history, flags, loaded)
    /\ ReplayOp

\* The next event of the document d, the n-th of its log, told by its entry.
NextOf(d, es, log, n) ==
    /\ d = Again.doc
    /\ es = EntriesOf(history, d)
    /\ log = running.objects[d].log
    /\ n = HowFar(d) + 1

\* What is known of that document, put together.
LEMMA AgainNext ==
    ASSUME Replaying, NEW d, NEW es, NEW log, NEW n, NextOf(d, es, log, n)
    PROVE  /\ d \in running.touched /\ d \in DOMAIN objects /\ objects[d].kind = "document"
           /\ objects[d].doc = d
           /\ es \in Seq(HistoryEntries) /\ log \in Seq(Events) /\ Len(es) = Len(log)
           /\ \A m \in DOMAIN es :
                es[m].doc = d /\ EntryNamed(es[m], objects, oids, nextOid)
           /\ Told(es, log, loaded) /\ Known(running.objects, oids, d, es, log)
           /\ RebuiltTo(objects, oids, ghosts, es, log, d, n - 1)
           /\ n \in DOMAIN es /\ n \in DOMAIN log /\ n # 1 /\ n \in 1 .. Len(log)
           /\ n - 1 \in Nat /\ n \in Nat
           /\ DOMAIN es = 1 .. Len(log) /\ DOMAIN log = 1 .. Len(log) /\ Len(log) \in Nat
           /\ es[n] = Again /\ EventTold(es, log, n, loaded)
           /\ objects[d].log = SubSeq(log, 1, n - 1)
           /\ ToReplay' = Replayed' \o replay'
           /\ HowFar(d)' = n
           /\ \A k \in running.touched : k # d => HowFar(k)' = HowFar(k)
<1>1. /\ CoreTypes /\ InReplay /\ Rebuilt /\ ReplayOp
      /\ HistoryTells(running.objects, oids, history, flags, loaded)
  BY DEF Replaying
<1>2. d = Again.doc /\ es = EntriesOf(history, d) /\ log = running.objects[d].log
      /\ n = HowFar(d) + 1
  BY DEF NextOf
<1>3. /\ replay # <<>> /\ Again.op # "open" /\ replay' = Tail(replay) /\ history' = history
      /\ AgainRefused \/ AgainRan
  BY <1>1, ReplayOpCases DEF NextOf
<1>4. running \in RunFields(running)  BY <1>1 DEF InReplay, InCall
<1>5. running'.touched = running.touched
  <2>1. running' = running \/ running' = [running EXCEPT !.missed = @ \cup AgainEffect.missed]
    BY <1>3 DEF AgainRefused, AgainRan
  <2> QED  BY <1>4, <2>1 DEF RunFields
<1>6. /\ Again \in HistoryEntries /\ d \in running.touched
      /\ d \in DocumentsOf(objects) /\ d \in DOMAIN objects
  BY <1>1, <1>2, <1>3, AgainFacts
<1>7. /\ ToReplay = Replayed \o replay
      /\ running.touched \subseteq Recorded(flags)
      /\ RebuiltTo(objects, oids, ghosts, es, log, d, HowFar(d))
  BY <1>1, <1>2, <1>6 DEF Rebuilt
<1>8. /\ ToReplay' = Replayed' \o replay'
      /\ HowFar(d) \in Nat /\ HowFar(d)' = HowFar(d) + 1
      /\ HowFar(d) + 1 \in DOMAIN EntriesOf(history, d)
      /\ EntriesOf(history, d)[HowFar(d) + 1] = Again
      /\ \A k \in running.touched : k # d => HowFar(k)' = HowFar(k)
  BY <1>1, <1>2, <1>3, <1>5, <1>7, NextEntry
<1>9. /\ Table(objects) /\ DOMAIN objects = DOMAIN running.objects
      /\ history \in Seq(HistoryEntries)
      /\ \A i \in DOMAIN history : EntryNamed(history[i], objects, oids, nextOid)
      /\ Table(running.objects)
  BY <1>1 DEF CoreTypes, Named, InReplay, InCall
<1>10. /\ es \in Seq(HistoryEntries)
       /\ \A m \in DOMAIN es : es[m].doc = d /\ EntryNamed(es[m], objects, oids, nextOid)
  BY <1>2, <1>9, EntriesNamed
<1>11. Told(es, log, loaded) /\ Known(running.objects, oids, d, es, log)
  BY <1>1, <1>2, <1>6, <1>7 DEF HistoryTells
<1>12. log \in Seq(Events)  BY <1>2, <1>6, <1>9, TableGives
<1>13. Len(es) = Len(log) /\ DOMAIN es = 1 .. Len(log) /\ DOMAIN log = 1 .. Len(log)
       /\ Len(log) \in Nat
  <2>1. Len(es) = Len(log)  BY <1>11 DEF Told
  <2> HIDE DEF HistoryEntries, Events
  <2> QED  BY <1>10, <1>12, <2>1
<1>14. n \in DOMAIN es /\ es[n] = Again /\ n - 1 = HowFar(d) /\ n \in Nat /\ n - 1 \in Nat
  BY <1>2, <1>8
<1>15. EventTold(es, log, n, loaded)  BY <1>11, <1>13, <1>14 DEF Told
<1>16. n # 1  BY <1>3, <1>14, <1>15 DEF EventTold
<1>17. objects[d].kind = "document" /\ objects[d].doc = d  BY <1>6, <1>9 DEF DocumentsOf, Table
<1>18. RebuiltTo(objects, oids, ghosts, es, log, d, n - 1)  BY <1>7, <1>14
<1>19. objects[d].log = SubSeq(log, 1, n - 1)  BY <1>18 DEF RebuiltTo
<1> QED  BY <1>2, <1>6, <1>8, <1>10, <1>11, <1>12, <1>13, <1>14, <1>15, <1>16, <1>17, <1>18, <1>19

\* The operation runs again on what it ran on.
LEMMA AgainOnIs ==
    ASSUME Replaying, NEW d, NEW es, NEW log, NEW n, NextOf(d, es, log, n)
    PROVE  AgainOn = log[n].on
<1>1. /\ \A m \in DOMAIN es :
           es[m].doc = d /\ EntryNamed(es[m], objects, oids, nextOid)
      /\ Told(es, log, loaded) /\ Known(running.objects, oids, d, es, log)
      /\ RebuiltTo(objects, oids, ghosts, es, log, d, n - 1)
      /\ n \in DOMAIN es /\ n # 1 /\ n - 1 \in Nat /\ n \in Nat
      /\ es[n] = Again /\ EventTold(es, log, n, loaded)
      /\ d \in DOMAIN objects /\ objects[d].kind = "document" /\ objects[d].doc = d
      /\ DOMAIN es = 1 .. Len(log) /\ DOMAIN log = 1 .. Len(log) /\ Len(log) \in Nat
  BY AgainNext
<1>2. /\ Table(objects) /\ DOMAIN objects = DOMAIN oids /\ DOMAIN objects = DOMAIN running.objects
      /\ Table(running.objects) /\ running.objects[d].doc = d /\ running.objects[d].kind = "document"
  BY <1>1 DEF Replaying, CoreTypes, Named, InReplay, InCall
<1>3. PICK m \in 1 .. n - 1 :
        es[m].created = <<Again.target>> /\ log[n].on = ValueMade(log, m)
  BY <1>1 DEF EventTold, ActsOn
<1>4. m \in DOMAIN es /\ m \in DOMAIN log /\ m <= n - 1  BY <1>1, <1>3
<1>5. CASE AgainAlive
  <2> DEFINE h == HandleOf(Again.target)
  <2>1. h \in DOMAIN oids /\ oids[h] = Again.target  BY <1>5, HandleOfIs DEF AgainAlive
  <2> HIDE DEF h
  <2>2. AgainOn = objects[h].value  BY <1>5 DEF AgainOn, h
  <2>3. es[m].created = <<oids[h]>>  BY <1>3, <2>1
  <2>4. objects[h].doc = d
    <3>1. EntryNamed(Again, objects, oids, nextOid) /\ Again.doc = d  BY <1>1
    <3> QED  BY <2>1, <3>1 DEF EntryNamed
  <2>5. CASE h = d
    <3>1. objects[h].value = 1  BY <1>1, <1>2, <2>5 DEF Table
    <3>2. running.objects[h].value = 1  BY <1>1, <1>2, <2>5 DEF Table
    <3>3. PICK j \in DOMAIN es : es[j].created = <<oids[h]>> /\ running.objects[h].value = ValueMade(log, j)
      BY <1>1, <1>2, <2>5 DEF Known
    <3>4. j = m
      <4>1. es[m].created # <<>> /\ es[m].created = es[j].created  BY <2>3, <3>3
      <4> QED  BY <1>1, <1>4, <3>3, <4>1 DEF Told
    <3> QED  BY <1>3, <2>2, <3>1, <3>2, <3>3, <3>4
  <2>6. CASE h # d
    <3>1. objects[h].value = ValueMade(log, m)
      BY <1>1, <1>2, <1>4, <2>1, <2>3, <2>4, <2>6 DEF RebuiltTo
    <3> QED  BY <1>3, <2>2, <3>1
  <2> QED  BY <2>5, <2>6
<1>6. CASE ~AgainAlive
  <2>1. es[m].created # <<>> /\ es[m].created[1] = Again.target  BY <1>3
  <2>2. \A h \in DOMAIN oids : oids[h] # Again.target  BY <1>6 DEF AgainAlive, Live
  <2>3. ghosts[Again.target] = Page(d, ValueMade(log, m), es[m].op)
    BY <1>1, <1>3, <2>1, <2>2 DEF RebuiltTo
  <2> QED  BY <1>3, <1>6, <2>3 DEF AgainOn, Page
<1> QED  BY <1>5, <1>6

\* It sees what it saw, and ends as it did.
LEMMA AgainEffectIs ==
    ASSUME Replaying, NEW d, NEW es, NEW log, NEW n, NextOf(d, es, log, n)
    PROVE  /\ AgainEffect.event = log[n] /\ AgainEffect.missed = {}
           /\ AgainLog = SubSeq(log, 1, n)
<1>1. /\ log \in Seq(Events) /\ n \in DOMAIN log /\ n # 1 /\ n \in 1 .. Len(log) /\ n \in Nat
      /\ n \in DOMAIN es
      /\ es[n] = Again /\ EventTold(es, log, n, loaded)
      /\ objects[d].log = SubSeq(log, 1, n - 1)
      /\ es \in Seq(HistoryEntries)
  BY AgainNext
<1> DEFINE was == SubSeq(log, 1, n - 1)
           v == log[n]
           e == Again
<1>2. /\ v.op = e.op /\ v.cmap = e.cmap
      /\ v.saw = Saw(e.cmap, was, e.process, loaded)
      /\ Missed(e.cmap, was, e.process, loaded) = {}
      /\ v.outcome = Outcome(e.op, e.process)
  <2> HIDE DEF v, e, was
  <2>1. v = log[n] /\ e = es[n] /\ was = SubSeq(log, 1, n - 1)  BY <1>1 DEF v, e, was
  <2> QED  BY <1>1, <2>1 DEF EventTold
<1>3. v.on = AgainOn  BY AgainOnIs
<1>4. v \in Events
  <2> HIDE DEF Events
  <2> QED  BY <1>1
<1>5. Again.doc = d  BY DEF NextOf
<1>6. AgainEffect = Effect(e.op, e.cmap, AgainOn, was, e.process, loaded)
  BY <1>1, <1>5 DEF AgainEffect, ProcessOf
<1> HIDE DEF v, e, was
<1>7. AgainEffect.event = Event(e.op, AgainOn, e.cmap, Saw(e.cmap, was, e.process, loaded),
                                Outcome(e.op, e.process))
      /\ AgainEffect.missed = Missed(e.cmap, was, e.process, loaded)
  BY <1>6 DEF Effect
<1>8. AgainEffect.event = v
  <2>1. v = [op |-> v.op, on |-> v.on, cmap |-> v.cmap, saw |-> v.saw, outcome |-> v.outcome]
    BY <1>4 DEF Events
  <2> QED  BY <1>2, <1>3, <1>7, <2>1 DEF Event
<1>9. AgainLog = SubSeq(log, 1, n)
  <2>1. AgainLog = Append(was, v)  BY <1>1, <1>5, <1>8 DEF AgainLog, was
  <2>2. SubSeq(log, 1, n) = Append(was, v)
    <3> HIDE DEF Events
    <3> QED  BY <1>1, OneEventMore DEF was, v
  <2> QED  BY <2>1, <2>2
<1> QED  BY <1>2, <1>7, <1>8, <1>9 DEF v

\* It answers with the page it answered with, and needs a handle as it did.
LEMMA AgainMakesIs ==
    ASSUME Replaying, NEW d, NEW es, NEW log, NEW n, NextOf(d, es, log, n)
    PROVE  /\ PageAnswered(AgainLog) = ValueMade(log, n)
           /\ AgainMakes <=> ToMake(es, log, n)
<1>1. /\ es \in Seq(HistoryEntries) /\ log \in Seq(Events) /\ Len(es) = Len(log)
      /\ \A m \in DOMAIN es :
           es[m].doc = d /\ EntryNamed(es[m], objects, oids, nextOid)
      /\ Told(es, log, loaded) /\ Known(running.objects, oids, d, es, log)
      /\ RebuiltTo(objects, oids, ghosts, es, log, d, n - 1)
      /\ n \in DOMAIN es /\ n \in DOMAIN log /\ n # 1 /\ n \in 1 .. Len(log)
      /\ n - 1 \in Nat /\ n \in Nat
      /\ DOMAIN es = 1 .. Len(log) /\ DOMAIN log = 1 .. Len(log) /\ Len(log) \in Nat
      /\ es[n] = Again /\ EventTold(es, log, n, loaded)
      /\ d \in DOMAIN objects /\ objects[d].kind = "document"
  BY AgainNext
<1>2. Again.doc = d  BY DEF NextOf
<1>3. AgainEffect.event = log[n] /\ AgainLog = SubSeq(log, 1, n)  BY AgainEffectIs
<1> DEFINE p == ValueMade(log, n)
<1>4. PageAnswered(AgainLog) = p  BY <1>1, <1>3 DEF ValueMade
<1>5. AgainLog[Len(AgainLog)].op = log[n].op
  <2> HIDE DEF Events
  <2>1. SubSeq(log, 1, n) = Append(SubSeq(log, 1, n - 1), log[n])  BY <1>1, OneEventMore
  <2>2. SubSeq(log, 1, n - 1) \in Seq(Events)  BY <1>1
  <2> DEFINE a == SubSeq(log, 1, n - 1)
  <2> HIDE DEF a
  <2>3. Append(a, log[n])[Len(Append(a, log[n]))] = log[n]
    <3>1. a \in Seq(Events) /\ log[n] \in Events  BY <1>1, <2>2 DEF a
    <3> QED  BY <3>1
  <2> QED  BY <1>3, <2>1, <2>3 DEF a
<1>6. /\ Table(objects) /\ DOMAIN objects = DOMAIN oids /\ DOMAIN objects = DOMAIN running.objects
      /\ \A h \in DOMAIN objects :
           objects[h].kind = running.objects[h].kind /\ objects[h].doc = running.objects[h].doc
  BY DEF Replaying, CoreTypes, Named, InReplay, InCall
<1>7. PagesHeld(objects, oids, d, es, log, n - 1)
  <2>1. ASSUME NEW h \in DOMAIN objects, objects[h].kind = "page", objects[h].doc = d
        PROVE  \E m \in DOMAIN es :
                 /\ es[m].created = <<oids[h]>>
                 /\ objects[h].value = IF m <= n - 1 THEN ValueMade(log, m) ELSE 0
    <3>1. PICK m \in DOMAIN es : es[m].created = <<oids[h]>>
      BY <1>1, <1>6, <2>1 DEF Known
    <3>2. h \in DOMAIN objects \ {d}  BY <1>1, <2>1
    <3>3. objects[h].value = IF m <= n - 1 THEN ValueMade(log, m) ELSE 0
      BY <1>1, <2>1, <3>1, <3>2 DEF RebuiltTo
    <3> QED  BY <3>1, <3>3
  <2>2. \A m \in DOMAIN es :
          MakesPage(es[m]) => \E h \in DOMAIN objects : es[m].created = <<oids[h]>>
    <3>1. ASSUME NEW m \in DOMAIN es, MakesPage(es[m])
          PROVE  \E h \in DOMAIN objects : es[m].created = <<oids[h]>>
      <4>1. es[m].created # <<>> /\ es[m].op # "crop"  BY <3>1 DEF MakesPage
      <4> QED  BY <1>1, <1>6, <4>1 DEF Known
    <3> QED  BY <3>1
  <2> QED  BY <2>1, <2>2 DEF PagesHeld
<1>8. p # 0 => ((\A h \in DOMAIN objects :
               ~ /\ objects[h].kind = "page" /\ objects[h].doc = d /\ objects[h].value = p)
            <=> \A m \in 1 .. n - 1 : MakesPage(es[m]) => ValueMade(log, m) # p)
  <2> DEFINE os == objects ids == oids next == nextOid k == n - 1 given == loaded
  <2>1. /\ es \in Seq(HistoryEntries) /\ log \in Seq(Events) /\ Told(es, log, given)
        /\ \A m \in DOMAIN es : es[m].doc = d /\ EntryNamed(es[m], os, ids, next)
        /\ k \in 0 .. Len(log) /\ PagesHeld(os, ids, d, es, log, k)
        /\ DOMAIN ids = DOMAIN os
    BY <1>1, <1>6, <1>7
  <2>2. k = n - 1 /\ os = objects  OBVIOUS
  <2> HIDE DEF p, os, ids, next, k, given, HistoryEntries, Events
  <2>3. ASSUME p # 0
        PROVE  (\A h \in DOMAIN os : ~ /\ os[h].kind = "page"
                                       /\ os[h].doc = d
                                       /\ os[h].value = p)
               <=> (\A m \in 1 .. k : MakesPage(es[m]) => ValueMade(log, m) # p)
    BY <2>1, <2>3, FoundWhenMade
  <2> QED  BY <2>2, <2>3
<1>9. /\ DOMAIN AgainObjects = DOMAIN objects
      /\ \A h \in DOMAIN objects :
           /\ AgainObjects[h].kind = objects[h].kind /\ AgainObjects[h].doc = objects[h].doc
           /\ AgainObjects[h].value = objects[h].value
  <2>1. AgainObjects = [objects EXCEPT ![d].log = AgainLog]  BY <1>2 DEF AgainObjects
  <2>2. objects[d] \in TableObjects /\ objects \in [DOMAIN objects -> TableObjects]
    BY <1>1, <1>6, TableGives DEF Table
  <2> DEFINE D == DOMAIN objects
  <2>3. DOMAIN AgainObjects = D /\ \A h \in D : h # d => AgainObjects[h] = objects[h]
    <3> HIDE DEF D, TableObjects
    <3>1. objects \in [D -> TableObjects]  BY <2>2 DEF D
    <3> QED  BY <2>1, <3>1
  <2>4. AgainObjects[d] = [objects[d] EXCEPT !.log = AgainLog]  BY <1>1, <2>1
  <2>5. AgainObjects[d].kind = objects[d].kind /\ AgainObjects[d].doc = objects[d].doc
        /\ AgainObjects[d].value = objects[d].value
    BY <2>2, <2>4 DEF TableObjects
  <2> QED  BY <2>3, <2>5
<1>10. AgainMakes <=>
        /\ p # 0
        /\ log[n].op = "annots" =>
             \A h \in DOMAIN objects :
               ~ /\ objects[h].kind = "page" /\ objects[h].doc = d /\ objects[h].value = p
  <2> HIDE DEF p
  <2> QED  BY <1>2, <1>4, <1>5, <1>9 DEF AgainMakes, NeedsHandle
<1>11. AgainMakes <=> ToMake(es, log, n)
  <2>1. ToMake(es, log, n) <=>
          /\ p # 0
          /\ log[n].op = "annots" => \A m \in 1 .. n - 1 : MakesPage(es[m]) => ValueMade(log, m) # p
    BY DEF ToMake
  <2> HIDE DEF p
  <2> QED  BY <1>8, <1>10, <2>1
<1> QED  BY <1>4, <1>11

\* What the entry replayed leaves of the table, when it ends as it did: its event,
\* and the page it made, in the table or among the ghosts.
AgainLeaves(d, es, log, n) ==
    /\ DOMAIN objects' = DOMAIN objects
    /\ objects'[d].log = SubSeq(log, 1, n)
    /\ \A h \in DOMAIN objects :
         /\ objects'[h].doc = objects[h].doc
         /\ h # d /\ es[n].created # <<oids[h]>> =>
              objects'[h] = objects[h]
         /\ h # d /\ es[n].created = <<oids[h]>> =>
              objects'[h].value = ValueMade(log, n) /\ objects[h].doc = d
    /\ \A o \in DOMAIN ghosts : es[n].created # <<o>> =>
         o \in DOMAIN ghosts' /\ ghosts'[o] = ghosts[o]
    /\ es[n].created # <<>> /\ ~Live(es[n].created[1]) =>
         /\ es[n].created[1] \in DOMAIN ghosts'
         /\ ghosts'[es[n].created[1]] = Page(d, ValueMade(log, n), es[n].op)

\* ReplayOp leaves this, if it ends as it did.
LEMMA AgainLeavesIs ==
    ASSUME Replaying, NEW d, NEW es, NEW log, NEW n, NextOf(d, es, log, n),
           AgainRan, ~failed'
    PROVE  AgainLeaves(d, es, log, n)
<1>1. /\ \A m \in DOMAIN es :
           es[m].doc = d /\ EntryNamed(es[m], objects, oids, nextOid)
      /\ n \in DOMAIN es /\ n # 1
      /\ es[n] = Again /\ EventTold(es, log, n, loaded)
      /\ d \in DOMAIN objects /\ objects[d].kind = "document" /\ objects[d].doc = d
  BY AgainNext
<1>2. PageAnswered(AgainLog) = ValueMade(log, n) /\ (AgainMakes <=> ToMake(es, log, n))
  BY AgainMakesIs
<1>3. AgainLog = SubSeq(log, 1, n)  BY AgainEffectIs
<1>4. CoreTypes /\ InReplay /\ replay # <<>> /\ Again.op # "open" /\ Again.doc = d
  BY ReplayOpCases DEF Replaying, NextOf
<1>5. /\ DOMAIN AgainObjects = DOMAIN objects
      /\ AgainObjects[d].log = AgainLog
      /\ \A h \in DOMAIN objects :
           /\ AgainObjects[h].doc = objects[h].doc
           /\ h # d => AgainObjects[h] = objects[h]
      /\ AgainPage.doc = d /\ AgainPage.value = PageAnswered(AgainLog)
  <2>1. AgainAlive \/ Again.target \in DOMAIN ghosts  BY DEF AgainRan
  <2> QED  BY <1>4, <2>1, AgainIs
<1>6. DOMAIN objects = DOMAIN oids /\ \A h, k \in DOMAIN oids : oids[h] = oids[k] => h = k
  BY <1>4 DEF CoreTypes, Named
<1>7. AgainOutcome = Again.outcome /\ (AgainMakes \/ Again.created = <<>>)
  BY DEF AgainRan
<1>8. AgainMakes <=> Again.created # <<>>
  <2>1. ASSUME AgainMakes, Again.created = <<>> PROVE FALSE
    <3>1. Again.outcome = "RuntimeError"  BY <1>7, <2>1 DEF AgainOutcome
    <3>2. Again \in HistoryEntries  BY <1>4, AgainFacts
    <3> QED  BY <3>1, <3>2 DEF HistoryEntries, Endings
  <2> QED  BY <1>7, <2>1
<1> DEFINE e == Again
<1>9. e.created # <<>> => e.created = <<e.created[1]>>
        /\ \A h \in DOMAIN oids : oids[h] = e.created[1] =>
             objects[h].doc = d /\ objects[h].kind = KindMade(e.op)
  BY <1>1 DEF EntryNamed
<1>10. CASE Again.created = <<>>
  <2>1. objects' = AgainObjects /\ ghosts' = ghosts  BY <1>10 DEF AgainRan
  <2>2. \A x : es[n].created # <<x>>  BY <1>1, <1>10
  <2> QED  BY <1>1, <1>3, <1>5, <1>10, <2>1, <2>2 DEF AgainLeaves
<1>11. CASE Again.created # <<>> /\ Live(Again.created[1])
  <2> DEFINE x == HandleOf(Again.created[1])
  <2>1. x \in DOMAIN oids /\ oids[x] = Again.created[1]  BY <1>11, HandleOfIs
  <2>2. objects' = [AgainObjects EXCEPT ![x] = AgainPage] /\ ghosts' = ghosts
    BY <1>8, <1>11 DEF AgainRan
  <2> HIDE DEF x
  <2>3. e.created = <<oids[x]>> /\ objects[x].doc = d /\ objects[x].kind = KindMade(e.op)
    BY <1>9, <1>11, <2>1
  <2>4. x # d
    <3>1. objects[x].kind # "document"  BY <1>4, <2>3 DEF KindMade
    <3> QED  BY <1>1, <3>1
  <2> DEFINE os == AgainObjects page == AgainPage D == DOMAIN objects
  <2>5. DOMAIN os = D /\ x \in D  BY <1>5, <1>6, <2>1
  <2>6. DOMAIN objects' = D /\ objects'[x] = page /\ \A h \in D : h # x => objects'[h] = os[h]
    <3>1. objects' = [os EXCEPT ![x] = page]  BY <2>2
    <3> HIDE DEF os, page, D
    <3> QED  BY <2>5, <3>1
  <2>7. \A h \in DOMAIN oids : h # x => es[n].created # <<oids[h]>>
    BY <1>1, <1>6, <2>1, <2>3
  <2>8. objects'[d].log = SubSeq(log, 1, n)  BY <1>1, <1>3, <1>5, <2>4, <2>6
  <2>9. \A h \in DOMAIN objects :
         /\ objects'[h].doc = objects[h].doc
         /\ h # d /\ es[n].created # <<oids[h]>> =>
              objects'[h] = objects[h]
         /\ h # d /\ es[n].created = <<oids[h]>> =>
              objects'[h].value = ValueMade(log, n) /\ objects[h].doc = d
    <3>1. ASSUME NEW h \in DOMAIN objects, h = x
          PROVE  /\ objects'[h].doc = d /\ objects[h].doc = d
                 /\ objects'[h].value = ValueMade(log, n)
                 /\ es[n].created = <<oids[h]>>
      BY <1>1, <1>2, <1>5, <2>3, <2>6, <3>1
    <3>2. ASSUME NEW h \in DOMAIN objects, h # x
          PROVE  /\ objects'[h].doc = objects[h].doc
                 /\ h # d => objects'[h] = objects[h]
                 /\ es[n].created # <<oids[h]>>
      BY <1>5, <1>6, <2>6, <2>7, <3>2
    <3> HIDE DEF x
    <3> QED  BY <3>1, <3>2
  <2> QED  BY <1>1, <1>11, <2>2, <2>6, <2>8, <2>9 DEF AgainLeaves
<1>12. CASE Again.created # <<>> /\ ~Live(Again.created[1])
  <2> DEFINE o == Again.created[1]
  <2>1. objects' = AgainObjects /\ ghosts' = With(ghosts, o, AgainPage)
    BY <1>8, <1>12 DEF AgainRan
  <2>2. e.created = <<o>>  BY <1>9, <1>12
  <2>3. AgainPage = Page(d, ValueMade(log, n), Again.op)  BY <1>2, <1>4 DEF AgainPage
  <2>4. \A h \in DOMAIN oids : es[n].created # <<oids[h]>>
    BY <1>1, <1>12, <2>2 DEF Live
  <2>5. /\ o \in DOMAIN ghosts' /\ ghosts'[o] = AgainPage
        /\ \A z \in DOMAIN ghosts : z # o => z \in DOMAIN ghosts' /\ ghosts'[z] = ghosts[z]
    <3> HIDE DEF o
    <3> QED  BY <2>1 DEF With
  <2>6. \A z \in DOMAIN ghosts : es[n].created # <<z>> => z # o
    BY <1>1, <2>2
  <2>7. objects'[d].log = SubSeq(log, 1, n) /\ DOMAIN objects' = DOMAIN objects
    BY <1>3, <1>5, <2>1
  <2>8. \A h \in DOMAIN objects :
         /\ objects'[h].doc = objects[h].doc
         /\ h # d => objects'[h] = objects[h]
         /\ es[n].created # <<oids[h]>>
    BY <1>5, <1>6, <2>1, <2>4
  <2> QED  BY <1>1, <2>3, <2>5, <2>6, <2>7, <2>8 DEF AgainLeaves
<1> QED  BY <1>10, <1>11, <1>12

\* The document of the entry is rebuilt one entry further.
LEMMA AgainRebuilds ==
    ASSUME Replaying, NEW d, NEW es, NEW log, NEW n, NextOf(d, es, log, n),
           AgainLeaves(d, es, log, n)
    PROVE  RebuiltTo(objects', oids, ghosts', es, log, d, n)
<1>1. /\ \A m \in DOMAIN es :
           es[m].doc = d /\ EntryNamed(es[m], objects, oids, nextOid)
      /\ n \in DOMAIN es /\ n # 1 /\ n \in Nat /\ DOMAIN es = 1 .. Len(log) /\ Len(log) \in Nat
      /\ DOMAIN log = 1 .. Len(log)
      /\ es[n] = Again
      /\ d \in DOMAIN objects /\ objects[d].kind = "document" /\ objects[d].doc = d
      /\ Told(es, log, loaded)
      /\ RebuiltTo(objects, oids, ghosts, es, log, d, n - 1)
  BY AgainNext
<1>2. \A m \in DOMAIN es : es[m].created # <<>> /\ es[m].created = es[n].created => m = n
  BY <1>1 DEF Told
<1>3. ASSUME NEW h \in DOMAIN objects' \ {d}, objects'[h].doc = d,
             NEW m \in DOMAIN es, es[m].created = <<oids[h]>>
      PROVE  objects'[h].value = IF m <= n THEN ValueMade(log, m) ELSE 0
  <2>1. h \in DOMAIN objects \ {d} /\ objects[h].doc = d  BY <1>3 DEF AgainLeaves
  <2>2. CASE m = n
    <3>1. objects'[h].value = ValueMade(log, n)  BY <1>3, <2>1, <2>2 DEF AgainLeaves
    <3> QED  BY <1>1, <2>2, <3>1
  <2>3. CASE m # n
    <3>1. es[n].created # <<oids[h]>>
      <4>1. es[m].created # <<>>  BY <1>3
      <4> QED  BY <1>2, <1>3, <2>3, <4>1
    <3>2. objects'[h] = objects[h]  BY <2>1, <3>1 DEF AgainLeaves
    <3>3. objects[h].value = IF m <= n - 1 THEN ValueMade(log, m) ELSE 0
      BY <1>1, <1>3, <2>1 DEF RebuiltTo
    <3>4. m <= n <=> m <= n - 1  BY <1>1, <2>3
    <3> QED  BY <3>2, <3>3, <3>4
  <2> QED  BY <2>2, <2>3
<1>4. ASSUME NEW m \in 1 .. n, es[m].created # <<>>, \A h \in DOMAIN oids : oids[h] # es[m].created[1]
      PROVE  /\ es[m].created[1] \in DOMAIN ghosts'
             /\ ghosts'[es[m].created[1]] = Page(d, ValueMade(log, m), es[m].op)
  <2>1. CASE m = n
    <3>1. ~Live(es[n].created[1])  BY <1>4, <2>1 DEF Live
    <3> QED  BY <1>4, <2>1, <3>1 DEF AgainLeaves
  <2>2. CASE m # n
    <3> DEFINE o == es[m].created[1]
    <3>1. m \in 1 .. n - 1 /\ m \in DOMAIN es  BY <1>1, <2>2
    <3>2. o \in DOMAIN ghosts /\ ghosts[o] = Page(d, ValueMade(log, m), es[m].op)
      BY <1>1, <1>4, <3>1 DEF RebuiltTo
    <3>3. es[m].created = <<o>>
      <4>1. EntryNamed(es[m], objects, oids, nextOid)  BY <1>1, <3>1
      <4> QED  BY <1>4, <4>1 DEF EntryNamed
    <3>4. es[n].created # <<o>>  BY <1>2, <1>4, <2>2, <3>1, <3>3
    <3> QED  BY <3>2, <3>4 DEF AgainLeaves
  <2> QED  BY <2>1, <2>2
<1>5. objects'[d].log = SubSeq(log, 1, n)  BY DEF AgainLeaves
<1> QED  BY <1>3, <1>4, <1>5 DEF RebuiltTo

\* The entries of a document in the history, and what they name.
LEMMA EntriesNow ==
    ASSUME CoreTypes, NEW j
    PROVE  /\ EntriesOf(history, j) \in Seq(HistoryEntries)
           /\ \A m \in DOMAIN EntriesOf(history, j) :
                /\ EntriesOf(history, j)[m].doc = j
                /\ EntryNamed(EntriesOf(history, j)[m], objects, oids, nextOid)
                /\ \E i \in DOMAIN history : EntriesOf(history, j)[m] = history[i]
<1>1. /\ history \in Seq(HistoryEntries)
      /\ \A i \in DOMAIN history : EntryNamed(history[i], objects, oids, nextOid)
  BY DEF CoreTypes
<1> QED  BY <1>1, EntriesNamed

\* The other documents stay as they were rebuilt.
LEMMA AgainOthers ==
    ASSUME Replaying, NEW d, NEW es, NEW log, NEW n, NextOf(d, es, log, n),
           AgainLeaves(d, es, log, n), NEW j \in running.touched, j # d
    PROVE  RebuiltTo(objects', oids, ghosts', EntriesOf(history, j), running.objects[j].log,
                     j, HowFar(j))
<1> DEFINE es2 == EntriesOf(history, j) log2 == running.objects[j].log
<1>1. /\ \A m \in DOMAIN es :
           es[m].doc = d /\ EntryNamed(es[m], objects, oids, nextOid)
      /\ n \in DOMAIN es
      /\ objects[d].doc = d
  BY AgainNext
<1>2. /\ history \in Seq(HistoryEntries)
      /\ \A i \in DOMAIN history : EntryNamed(history[i], objects, oids, nextOid)
      /\ Table(objects) /\ running.touched \subseteq DocumentsOf(objects)
      /\ RebuiltTo(objects, oids, ghosts, es2, log2, j, HowFar(j))
      /\ DOMAIN oids = DOMAIN objects
      /\ MadeOnce(history)
      /\ es = EntriesOf(history, d)
  BY DEF Replaying, CoreTypes, Named, InReplay, InCall, Rebuilt, HistoryTells, NextOf
<1>3. j \in DOMAIN objects /\ objects[j].kind = "document" /\ objects[j].doc = j
  BY <1>2 DEF DocumentsOf, Table
<1>4. \A h \in DOMAIN objects : es[n].created = <<oids[h]>> => objects[h].doc = d
  BY <1>1, <1>2 DEF EntryNamed
<1>5. /\ DOMAIN objects' = DOMAIN objects
      /\ \A h \in DOMAIN objects : objects'[h].doc = j => objects'[h] = objects[h]
    BY <1>1, <1>4 DEF AgainLeaves
<1>6. objects'[j] = objects[j]  BY <1>1, <1>3, <1>4 DEF AgainLeaves
<1>7. /\ es2 \in Seq(HistoryEntries)
      /\ \A m \in DOMAIN es2 :
           /\ es2[m].doc = j /\ EntryNamed(es2[m], objects, oids, nextOid)
           /\ \E i \in DOMAIN history : es2[m] = history[i]
  <2>1. CoreTypes  BY DEF Replaying
  <2> QED  BY <2>1, EntriesNow
<1>8. \E i \in DOMAIN history : es[n] = history[i]
  <2>1. \A m \in DOMAIN EntriesOf(history, d) :
           \E i \in DOMAIN history : EntriesOf(history, d)[m] = history[i]
    <3>1. CoreTypes  BY DEF Replaying
    <3> QED  BY <3>1, EntriesNow
  <2> QED  BY <1>1, <1>2, <2>1
<1>9. HowFar(j) \in 0 .. Len(es2)
  <2>1. ToReplay = Replayed \o replay /\ replay # <<>> /\ replay' = Tail(replay)
        /\ history' = history /\ d = Again.doc
    BY ReplayOpCases DEF Replaying, Rebuilt, NextOf
  <2>2. running'.touched = running.touched
    <3>1. running \in RunFields(running)  BY DEF Replaying, InReplay, InCall
    <3>2. running' = running \/ running' = [running EXCEPT !.missed = @ \cup AgainEffect.missed]
      BY ReplayOpCases DEF Replaying, AgainRefused, AgainRan
    <3> QED  BY <3>1, <3>2 DEF RunFields
  <2>3. \A k \in running.touched : HowFar(k) \in 0 .. Len(EntriesOf(history, k))
    BY <2>1, <2>2, NextEntry DEF Replaying
  <2> QED  BY <2>3
<1>10. ASSUME NEW m \in 1 .. HowFar(j), es2[m].created # <<>>, es2[m].created[1] \in DOMAIN ghosts
       PROVE  /\ es2[m].created[1] \in DOMAIN ghosts'
              /\ ghosts'[es2[m].created[1]] = ghosts[es2[m].created[1]]
  <2>1. m \in DOMAIN es2
    <3> HIDE DEF es2, HistoryEntries
    <3>1. DOMAIN es2 = 1 .. Len(es2) /\ Len(es2) \in Nat  BY <1>7
    <3> QED  BY <1>9, <3>1
  <2> DEFINE o == es2[m].created[1]
  <2>2. es2[m].created = <<o>> /\ es2[m].doc = j
    <3>1. EntryNamed(es2[m], objects, oids, nextOid) /\ es2[m].doc = j  BY <1>7, <2>1
    <3> HIDE DEF es2
    <3> QED  BY <1>10, <3>1 DEF EntryNamed
  <2>3. es[n].created # <<o>>
    <3>1. ASSUME es[n].created = <<o>> PROVE FALSE
      <4>1. PICK i \in DOMAIN history : es2[m] = history[i]  BY <1>7, <2>1
      <4>2. PICK k \in DOMAIN history : es[n] = history[k]  BY <1>8
      <4>3. history[i].created # <<>> /\ history[i].created = history[k].created
        BY <1>10, <2>2, <3>1, <4>1, <4>2
      <4>4. history[i].doc = history[k].doc  BY <1>2, <4>3 DEF MadeOnce
      <4>5. history[i].doc = j  BY <2>2, <4>1
      <4>6. history[k].doc = d  BY <1>1, <4>2
      <4> QED  BY <4>4, <4>5, <4>6
    <3> QED  BY <3>1
  <2> QED  BY <1>10, <2>3 DEF AgainLeaves
<1> DEFINE os2 == objects' gs2 == ghosts' k == HowFar(j) os == objects gs == ghosts
<1>11. /\ RebuiltTo(os, oids, gs, es2, log2, j, k)
       /\ DOMAIN os2 = DOMAIN os /\ os2[j] = os[j]
       /\ \A h \in DOMAIN os : os2[h].doc = j => os[h].doc = j /\ os2[h].value = os[h].value
       /\ \A m \in 1 .. k : LET o == es2[m].created[1] IN
             es2[m].created # <<>> /\ o \in DOMAIN gs =>
               o \in DOMAIN gs2 /\ gs2[o] = gs[o]
  BY <1>2, <1>5, <1>6, <1>10
<1> HIDE DEF os, os2, gs, gs2, k, es2, log2
<1>12. RebuiltTo(os2, oids, gs2, es2, log2, j, k)  BY <1>11, RebuiltSame
<1> QED  BY <1>12 DEF os2, gs2, k, es2, log2

\* An entry replayed is one entry further, or the replay fails.
LEMMA RebuildableReplayOp ==
    ASSUME CoreSane, Rebuildable, ReplayOp
    PROVE  Rebuildable'
<1>1. /\ phase = "replaying" /\ ~failed /\ replay # <<>> /\ Again.op # "open"
      /\ AgainRefused \/ AgainRan
      /\ replay' = Tail(replay)
      /\ UNCHANGED <<oids, nextOid, flags, history, loaded, phase>>
  BY ReplayOpCases DEF cmapState
<1>2. CoreTypes /\ InReplay  BY <1>1 DEF CoreSane
<1>3. HistoryTells(running.objects, oids, history, flags, loaded) /\ Rebuilt
  BY <1>1 DEF Rebuildable
<1>4. Replaying  BY <1>2, <1>3 DEF Replaying
<1>5. running \in RunFields(running)  BY <1>2 DEF InReplay, InCall
<1>6. running'.objects = running.objects /\ running'.touched = running.touched
  <2>1. running' = running \/ running' = [running EXCEPT !.missed = @ \cup AgainEffect.missed]
    BY <1>1 DEF AgainRefused, AgainRan
  <2> QED  BY <1>5, <2>1 DEF RunFields
<1>7. ASSUME ~failed'
      PROVE  Rebuilt'
  <2>1. AgainRan  BY <1>1, <1>7 DEF AgainRefused
  <2>2. PICK d : d = Again.doc  OBVIOUS
  <2>3. PICK es : es = EntriesOf(history, d)  OBVIOUS
  <2>4. PICK log : log = running.objects[d].log  OBVIOUS
  <2>5. PICK n : n = HowFar(d) + 1  OBVIOUS
  <2>6. NextOf(d, es, log, n)  BY <2>2, <2>3, <2>4, <2>5 DEF NextOf
  <2>7. /\ ToReplay' = Replayed' \o replay'
        /\ HowFar(d)' = n
        /\ \A k \in running.touched : k # d => HowFar(k)' = HowFar(k)
    BY <1>4, <2>6, AgainNext
  <2>8. AgainEffect.missed = {}  BY <1>4, <2>6, AgainEffectIs
  <2>9. running'.missed = {}
    <3>1. running.missed = {}  BY <1>3 DEF Rebuilt
    <3>2. running' = [running EXCEPT !.missed = @ \cup AgainEffect.missed]  BY <2>1 DEF AgainRan
    <3> QED  BY <1>5, <2>8, <3>1, <3>2 DEF RunFields
  <2>10. AgainLeaves(d, es, log, n)  BY <1>4, <1>7, <2>1, <2>6, AgainLeavesIs
  <2>11. ASSUME NEW j \in running.touched
         PROVE  RebuiltTo(objects', oids, ghosts', EntriesOf(history, j),
                          running.objects[j].log, j, HowFar(j)')
    <3>1. CASE j = d
      <4>1. RebuiltTo(objects', oids, ghosts', es, log, d, n)
        BY <1>4, <2>6, <2>10, AgainRebuilds
      <4> QED  BY <2>3, <2>4, <2>7, <3>1, <4>1
    <3>2. CASE j # d
      <4>1. HowFar(j)' = HowFar(j)  BY <2>7, <3>2
      <4>2. RebuiltTo(objects', oids, ghosts', EntriesOf(history, j),
                      running.objects[j].log, j, HowFar(j))
        BY <1>4, <2>6, <2>10, <3>2, AgainOthers
      <4> QED  BY <4>1, <4>2
    <3> QED  BY <3>1, <3>2
  <2>12. running.touched \subseteq Recorded(flags)  BY <1>3 DEF Rebuilt
  <2> QED  BY <1>1, <1>6, <2>7, <2>9, <2>11, <2>12 DEF Rebuilt
<1> QED  BY <1>1, <1>3, <1>6, <1>7 DEF Rebuildable

\* Every step of the core keeps it so that it can be rebuilt.
LEMMA RebuildableStep ==
    ASSUME CoreSane, Rebuildable, [Next]_vars
    PROVE  Rebuildable'
<1>1. CASE Open  BY <1>1, RebuildableOpen
<1>2. CASE \E h \in Handles : Free(h)  BY <1>2, RebuildableFree
<1>3. CASE \E rs \in RequestsOn(objects) : Call(rs)
  <2>1. \E rs : Begin(rs)  BY <1>3 DEF Call
  <2> QED  BY <2>1, RebuildableBegin
<1>4. CASE CallAgain
  <2>1. \E rs : Begin(rs)  BY <1>4 DEF CallAgain
  <2> QED  BY <2>1, RebuildableBegin
<1>5. CASE RunOp  BY <1>5, RebuildableRunOp
<1>6. CASE Respond  BY <1>6, RebuildableRespond
<1>7. CASE Void  BY <1>7, RebuildableVoid
<1>8. CASE ReplayOpen  BY <1>8, RebuildableReplayOpen
<1>9. CASE ReplayOp  BY <1>9, RebuildableReplayOp
<1>10. CASE EndVoid  BY <1>10, RebuildableEndVoid
<1>11. CASE (\E c \in CMaps : AddCMap(c)) \/ (\E got \in SUBSET CMaps : HandOver(got)) \/ Abandon
  BY <1>11, RebuildableCMaps
<1>12. CASE UNCHANGED vars
  <2>1. /\ objects' = objects /\ oids' = oids /\ flags' = flags
        /\ history' = history /\ loaded' = loaded /\ phase' = phase
        /\ replay' = replay
        /\ failed' = failed /\ ghosts' = ghosts /\ running' = running /\ before' = before
    BY <1>12 DEF vars, documents, cmapState, callState, js
  <2>2. ToReplay' = ToReplay /\ Replayed' = Replayed  BY <2>1 DEF ToReplay, Replayed
  <2>3. \A d : HowFar(d)' = HowFar(d)  BY <2>2 DEF HowFar
  <2>4. Rebuilt' <=> Rebuilt  BY <2>1, <2>2, <2>3 DEF Rebuilt
  <2> QED  BY <2>1, <2>4 DEF Rebuildable
<1> QED
  BY <1>1, <1>2, <1>3, <1>4, <1>5, <1>6, <1>7, <1>8, <1>9, <1>10, <1>11, <1>12 DEF Next

\* THEOREM: at any time a void call can be undone: what its replay goes by tells what the
\* documents it reached went through (ops.rs `void`, `replay_entry`).
THEOREM CoreIsRebuildable == Spec => []Rebuildable
<1>1. Init => Rebuildable  BY RebuildableInit
<1>2. CoreSane /\ Rebuildable /\ [Next]_vars => Rebuildable'  BY RebuildableStep
<1> QED  BY <1>1, <1>2, CoreIsSane, PTL DEF Spec

-----------------------------------------------------------------------------

(* What follows of a core that can be rebuilt. *)

\* What the history of a document that can be rebuilt tells, in the words of
\* HistoryIsTheLog.
LEMMA ToldIsTheLog ==
    ASSUME CoreTypes, HistoryTells(objects, oids, history, flags, loaded),
           NEW d \in Recorded(flags), NEW es, es = EntriesOf(history, d),
           NEW log, log = objects[d].log, NEW i \in DOMAIN log
    PROVE  /\ Len(es) = Len(log)
           /\ es[i].op = log[i].op /\ es[i].cmap = log[i].cmap
           /\ Live(es[i].target) => objects[HandleOf(es[i].target)].value = log[i].on
           /\ \A h \in DOMAIN oids : es[i].created = <<oids[h]>> =>
                objects[h].doc = d /\ objects[h].value \in 1 .. i
<1>1. Told(es, log, loaded) /\ Known(objects, oids, d, es, log)  BY DEF HistoryTells
<1>2. EventTold(es, log, i, loaded) /\ Len(es) = Len(log)
      /\ \A m, n \in DOMAIN log : es[m].created # <<>> /\ es[m].created = es[n].created => m = n
  BY <1>1 DEF Told
<1>3. /\ Table(objects) /\ DOMAIN oids = DOMAIN objects /\ d \in DOMAIN objects
      /\ \A h \in DOMAIN oids : oids[h] # 0
  BY DEF CoreTypes, Named, Recorded, DocumentsOf
<1>4. log \in Seq(Events)  BY <1>3, TableGives
<1>5. /\ es \in Seq(HistoryEntries)
      /\ \A m \in DOMAIN es : es[m].doc = d /\ EntryNamed(es[m], objects, oids, nextOid)
  BY EntriesNow
<1>6. DOMAIN es = DOMAIN log /\ DOMAIN log = 1 .. Len(log) /\ Len(log) \in Nat /\ i \in 1 .. Len(log)
      /\ i \in Nat
  <2> HIDE DEF HistoryEntries, Events
  <2> QED  BY <1>2, <1>4, <1>5
<1>7. ASSUME Live(es[i].target)
      PROVE  objects[HandleOf(es[i].target)].value = log[i].on
  <2> DEFINE h == HandleOf(es[i].target)
  <2>1. h \in DOMAIN oids /\ oids[h] = es[i].target  BY <1>7, HandleOfIs
  <2> HIDE DEF h
  <2>2. i # 1
    <3>1. es[i].target # 0  BY <1>3, <2>1
    <3> QED  BY <1>2, <3>1 DEF EventTold
  <2>3. PICK m \in 1 .. i - 1 : es[m].created = <<es[i].target>> /\ log[i].on = ValueMade(log, m)
    BY <1>2, <2>2 DEF EventTold, ActsOn
  <2>4. objects[h].doc = d
    <3>1. EntryNamed(es[i], objects, oids, nextOid) /\ es[i].doc = d  BY <1>5, <1>6
    <3> QED  BY <2>1, <3>1 DEF EntryNamed
  <2>5. PICK j \in DOMAIN es : es[j].created = <<oids[h]>> /\ objects[h].value = ValueMade(log, j)
    <3>1. Known(objects, oids, d, es, log) /\ h \in DOMAIN objects  BY <1>1, <1>3, <2>1
    <3> QED  BY <2>4, <3>1 DEF Known
  <2>6. m \in DOMAIN log /\ j \in DOMAIN log  BY <1>6, <2>5
  <2>7. m = j
    <3>1. es[m].created # <<>> /\ es[m].created = es[j].created  BY <2>1, <2>3, <2>5
    <3> QED  BY <1>2, <2>6, <3>1
  <2> QED  BY <2>3, <2>5, <2>7 DEF h
<1>8. ASSUME NEW h \in DOMAIN oids, es[i].created = <<oids[h]>>
      PROVE  objects[h].doc = d /\ objects[h].value \in 1 .. i
  <2>1. es[i].created # <<>> /\ es[i].created[1] = oids[h]  BY <1>8
  <2>2. objects[h].doc = d
    <3>1. EntryNamed(es[i], objects, oids, nextOid) /\ es[i].doc = d  BY <1>5, <1>6
    <3> QED  BY <2>1, <3>1 DEF EntryNamed
  <2>3. PICK j \in DOMAIN es : es[j].created = <<oids[h]>> /\ objects[h].value = ValueMade(log, j)
    BY <1>1, <1>3, <2>2 DEF Known
  <2>4. i = j
    <3>1. es[i].created = es[j].created /\ j \in DOMAIN log  BY <1>6, <1>8, <2>3
    <3> QED  BY <1>2, <2>1, <3>1
  <2>5. objects[h].value = ValueMade(log, i)  BY <2>3, <2>4
  <2>6. CASE i = 1  BY <2>2, <2>5, <2>6 DEF ValueMade
  <2>7. CASE i # 1
    <3> DEFINE was == SubSeq(log, 1, i)
    <3>1. ValueMade(log, i) = PageAnswered(was)  BY <2>7 DEF ValueMade
    <3>2. ValueMade(log, i) # 0
      <4>1. ToMake(es, log, i)  BY <1>2, <2>1 DEF EventTold
      <4> QED  BY <4>1 DEF ToMake
    <3>3. was \in Seq(Events) /\ Len(was) = i /\ was # <<>> /\ was[i] = log[i]
      <4> HIDE DEF Events
      <4> QED  BY <1>4, <1>6
    <3>4. log[i].op \in {"pages", "annots"} => log[i].on = 1
      BY <1>2, <2>7 DEF EventTold
    <3> HIDE DEF was
    <3>5. PageAnswered(was) \in 0 .. Len(was)
      <4> HIDE DEF Events
      <4> QED  BY <3>3, <3>4, PageAnsweredIs
    <3>6. ValueMade(log, i) \in 1 .. i  BY <1>6, <3>1, <3>2, <3>3, <3>5
    <3> QED  BY <2>2, <2>5, <3>6
  <2> QED  BY <1>6, <2>2, <2>6, <2>7
<1> QED  BY <1>2, <1>7, <1>8 DEF EventTold

\* THEOREM: between two calls, the entries of a document that is not lost and not marked
\* are what was done to it, in this order, on the objects it has now (HistoryIsTheLog;
\* ops.rs `history`).
THEOREM HistoryIsAlwaysTheLog == Spec => []HistoryIsTheLog
<1>1. CoreSane /\ Rebuildable => HistoryIsTheLog
  <2> SUFFICES ASSUME CoreSane, Rebuildable, phase = "idle", NEW d \in DOMAIN flags \ Broken,
                      ~flags[d].unrecorded
               PROVE  LET entries == EntriesOf(history, d)
                          log == objects[d].log
                      IN  /\ Len(entries) = Len(log)
                          /\ \A i \in DOMAIN log :
                               /\ entries[i].op = log[i].op
                               /\ entries[i].cmap = log[i].cmap
                               /\ Live(entries[i].target) =>
                                    objects[HandleOf(entries[i].target)].value = log[i].on
                               /\ \A h \in DOMAIN oids :
                                    entries[i].created = <<oids[h]>> =>
                                      objects[h].doc = d /\ objects[h].value \in 1 .. i
    BY DEF HistoryIsTheLog
  <2>1. d \in Recorded(flags)  BY DEF Recorded, Broken
  <2>2. CoreTypes /\ HistoryTells(objects, oids, history, flags, loaded)
    BY DEF CoreSane, Rebuildable
  <2>3. PICK es : es = EntriesOf(history, d)  OBVIOUS
  <2>4. PICK log : log = objects[d].log  OBVIOUS
  <2>5. Len(es) = Len(log)  BY <2>1, <2>2, <2>3, <2>4 DEF HistoryTells, Told
  <2>6. \A i \in DOMAIN log :
           /\ es[i].op = log[i].op /\ es[i].cmap = log[i].cmap
           /\ Live(es[i].target) => objects[HandleOf(es[i].target)].value = log[i].on
           /\ \A h \in DOMAIN oids : es[i].created = <<oids[h]>> =>
                objects[h].doc = d /\ objects[h].value \in 1 .. i
    BY <2>1, <2>2, <2>3, <2>4, ToldIsTheLog
  <2> QED  BY <2>3, <2>4, <2>5, <2>6
<1> QED  BY <1>1, CoreIsSane, CoreIsRebuildable, PTL

\* THEOREM: a void call ends with every document, page and identity as the call found it,
\* or with the documents it reached lost, and nothing else (VoidLeavesNoTrace; ops.rs `void`).
THEOREM VoidNeverLeavesATrace == Spec => VoidLeavesNoTrace
<1> DEFINE NoTrace ==
             phase = "replaying" /\ phase' = "idle" =>
               /\ process' = running.process
               /\ oids' = before.oids
               /\ history' = before.history
               /\ Broken' \subseteq Broken \cup running.touched
               /\ objects' = ResetAll(running.objects, Broken' \ Broken)
<1>1. ASSUME CoreSane, Rebuildable, [Next]_vars
      PROVE  [NoTrace]_vars
  <2> SUFFICES ASSUME phase = "replaying", phase' = "idle"
               PROVE  /\ process' = running.process
                      /\ oids' = before.oids
                      /\ history' = before.history
                      /\ Broken' \subseteq Broken \cup running.touched
                      /\ objects' = ResetAll(running.objects, Broken' \ Broken)
    OBVIOUS
  <2>1. EndVoid
    <3>1. Next  BY <1>1 DEF vars, callState
    <3>2. /\ ~Open
          /\ \A h \in Handles : ~Free(h)
          /\ \A rs \in RequestsOn(objects) : ~Call(rs)
          /\ ~CallAgain /\ ~RunOp /\ ~Respond /\ ~Void /\ ~ReplayOpen /\ ~ReplayOp
          /\ \A c \in CMaps : ~AddCMap(c)
          /\ \A got \in SUBSET CMaps : ~HandOver(got)
          /\ ~Abandon
      <4>1. ~Open /\ (\A h \in Handles : ~Free(h))  BY DEF Open, Free, NewCall
      <4>2. \A rs \in RequestsOn(objects) : ~Call(rs)  BY DEF Call, NewCall
      <4>3. ~CallAgain /\ ~RunOp /\ ~Respond /\ ~Void  BY DEF CallAgain, Begin, RunOp, Respond, Void
      <4>4. ~ReplayOpen /\ ~ReplayOp  BY DEF ReplayOpen, ReplayOp
      <4>5. (\A c \in CMaps : ~AddCMap(c)) /\ (\A got \in SUBSET CMaps : ~HandOver(got)) /\ ~Abandon
        BY DEF AddCMap, HandOver, Abandon
      <4> QED  BY <4>1, <4>2, <4>3, <4>4, <4>5
    <3> QED  BY <3>1, <3>2 DEF Next
  <2>2. CoreTypes /\ InReplay  BY <1>1 DEF CoreSane
  <2>0. PICK broken : Loses(broken)  BY <1>1, <2>1, EndVoidIs
  <2>3. /\ broken = {} \/ broken = running.touched
        /\ objects' = ResetAll(running.objects, broken)
        /\ flags' = [d \in DOMAIN flags |->
                      IF d \in broken THEN [flags[d] EXCEPT !.broken = TRUE] ELSE flags[d]]
    BY <2>0 DEF Loses
  <2>4. Broken' = Broken \cup broken /\ Broken \cap broken = {}
    BY <2>2, <2>3, EndFlags
  <2>5. Broken' \ Broken = broken  BY <2>4
  <2>6. process' = running.process  BY <2>1 DEF EndVoid, ProcessBefore
  <2>7. oids' = before.oids /\ history' = before.history  BY <2>1, <2>2 DEF EndVoid, InReplay
  <2> QED  BY <2>3, <2>4, <2>5, <2>6, <2>7
<1>2. CoreSane /\ Rebuildable /\ [Next]_vars => [NoTrace]_vars  BY <1>1
<1> QED  BY <1>2, CoreIsSane, CoreIsRebuildable, PTL DEF Spec, VoidLeavesNoTrace

-----------------------------------------------------------------------------

(* Marks: the documents with no history any more. *)

\* The places of a document's entries, with one more.
LEMMA OfMore ==
    ASSUME NEW hs \in Seq(HistoryEntries), NEW e \in HistoryEntries, NEW d
    PROVE  /\ Of(hs, d) # {} => Of(Append(hs, e), d) # {}
           /\ e.doc = d => Of(Append(hs, e), d) # {}
<1> DEFINE s == Append(hs, e)
<1>1. /\ DOMAIN hs \subseteq DOMAIN s /\ Len(hs) + 1 \in DOMAIN s /\ s[Len(hs) + 1] = e
      /\ \A i \in DOMAIN hs : s[i] = hs[i]
  <2> HIDE DEF HistoryEntries
  <2> QED  OBVIOUS
<1> HIDE DEF s
<1>2. (Of(hs, d) # {} => Of(s, d) # {}) /\ (e.doc = d => Of(s, d) # {})  BY <1>1 DEF Of
<1> QED  BY <1>2 DEF s

\* Every document has entries, or none is recorded any more.
Entered(fs, hs) == \A d \in DOMAIN fs : fs[d].unrecorded \/ Of(hs, d) # {}

\* Once a document is unrecorded, all are, and no CMap can be missing any more.
AllOrNone(fs, complete) ==
    (\E d \in DOMAIN fs : fs[d].unrecorded) =>
      complete /\ \A d \in DOMAIN fs : fs[d].unrecorded

\* The marks, in these words.
LEMMA MarksIs ==
    Marks <=> /\ AllOrNone(flags, Complete) /\ Entered(flags, history)
              /\ phase # "idle" => /\ Entered(flags, before.history)
                                   /\ Complete => \A d \in DOMAIN flags : flags[d].unrecorded
BY DEF Marks, AllOrNone, Entered

\* The flags and the history once a call starts.
LEMMA KeptMarks ==
    ASSUME CoreTypes, Marks
    PROVE  /\ AllOrNone(KeptFlags, Complete) /\ Entered(KeptFlags, KeptHistory)
           /\ Complete => \A d \in DOMAIN KeptFlags : KeptFlags[d].unrecorded
           /\ ~Complete => \A d \in DOMAIN KeptFlags : ~KeptFlags[d].unrecorded
           /\ DOMAIN KeptFlags = DOMAIN flags
           /\ \A d \in DOMAIN flags : flags[d].unrecorded => KeptFlags[d].unrecorded
<1>1. /\ flags \in [DocumentsOf(objects) -> Flags]
      /\ AllOrNone(flags, Complete) /\ Entered(flags, history)
  BY MarksIs DEF CoreTypes
<1>2. DOMAIN KeptFlags = DOMAIN flags  BY <1>1 DEF KeptFlags
<1>3. CASE Complete
  <2>1. CASE history # <<>>
    <3>1. \A d \in DOMAIN flags : KeptFlags[d].unrecorded
      BY <1>1, <1>3, <2>1 DEF KeptFlags, Flags
    <3> QED  BY <1>2, <1>3, <3>1 DEF AllOrNone, Entered
  <2>2. CASE history = <<>>
    <3>1. KeptFlags = flags  BY <2>2 DEF KeptFlags
    <3>2. \A d \in DOMAIN flags : flags[d].unrecorded
      BY <1>1, <2>2 DEF Entered, Of
    <3> QED  BY <1>3, <3>1, <3>2 DEF AllOrNone, Entered
  <2> QED  BY <2>1, <2>2
<1>4. CASE ~Complete
  <2>1. KeptFlags = flags /\ KeptHistory = history  BY <1>4 DEF KeptFlags, KeptHistory
  <2>2. \A d \in DOMAIN flags : ~flags[d].unrecorded  BY <1>1, <1>4 DEF AllOrNone
  <2> QED  BY <1>1, <1>4, <2>1, <2>2
<1> QED  BY <1>3, <1>4

\* A core without documents has none to mark.
LEMMA MarksInit ==
    ASSUME Init
    PROVE  Marks
BY DEF Init, Marks

\* A document opened once all CMaps were handed over is marked as it is opened.
LEMMA MarksOpen ==
    ASSUME CoreSane, Marks, Open
    PROVE  Marks'
<1> DEFINE h == Fresh(DOMAIN objects)
           e == Entry("open", NoCMap, 0, <<nextOid>>, h, process, "done")
<1>1. /\ phase' = phase /\ phase = "idle" /\ ~ Handles \subseteq DOMAIN objects
      /\ loaded' = loaded /\ unavailable' = unavailable
      /\ flags' = With(KeptFlags, h, [NoFlags EXCEPT !.unrecorded = Complete])
      /\ history' = IF Complete THEN <<>> ELSE Append(history, e)
  BY DEF Open, NewCall, cmapState, callState
<1>2. CoreTypes  BY DEF CoreSane
<1>3. Complete' = Complete  BY <1>1 DEF Complete
<1>4. /\ AllOrNone(KeptFlags, Complete) /\ Entered(KeptFlags, KeptHistory)
      /\ Complete => \A d \in DOMAIN KeptFlags : KeptFlags[d].unrecorded
      /\ ~Complete => \A d \in DOMAIN KeptFlags : ~KeptFlags[d].unrecorded
  BY <1>2, KeptMarks
<1>5. /\ DOMAIN flags' = DOMAIN KeptFlags \cup {h}
      /\ flags'[h].unrecorded = Complete
      /\ \A d \in DOMAIN flags' : d # h => flags'[d] = KeptFlags[d]
  BY <1>1 DEF With, NoFlags
<1>6. CASE Complete
  <2>1. \A d \in DOMAIN flags' : flags'[d].unrecorded  BY <1>4, <1>5, <1>6
  <2>2. AllOrNone(flags', Complete') /\ Entered(flags', history')
    BY <1>3, <1>6, <2>1 DEF AllOrNone, Entered
  <2> QED  BY <1>1, <2>2 DEF Marks, AllOrNone, Entered
<1>7. CASE ~Complete
  <2>1. \A d \in DOMAIN flags' : ~flags'[d].unrecorded  BY <1>4, <1>5, <1>7
  <2>2. history' = Append(history, e) /\ KeptHistory = history
    BY <1>1, <1>7 DEF KeptHistory
  <2>3. e \in HistoryEntries /\ e.doc = h /\ history \in Seq(HistoryEntries)
    <3>1. h \in Handles /\ h \in Nat
      BY <1>1, FreshIsFree, OperationsAssumption
    <3>2. process \in Process /\ nextOid \in Nat \ {0} /\ calls \in Nat
          /\ history \in Seq(HistoryEntries)
      BY <1>2 DEF CoreTypes, Named
    <3>3. e.doc = h /\ e.call = calls  BY DEF Entry
    <3> HIDE DEF h
    <3>4. e \in HistoryEntries
      <4>1. <<nextOid>> \in Seq(Nat \ {0}) /\ 0 \in Nat  BY <3>2
      <4>2. "open" \in Ops /\ NoCMap \in MaybeCMap /\ "done" \in Endings
        BY DEF Ops, MaybeCMap, Endings
      <4> QED  BY <3>1, <3>2, <4>1, <4>2 DEF HistoryEntries, Entry
    <3> QED  BY <3>2, <3>3, <3>4
  <2> HIDE DEF e, h
  <2>4. \A d \in DOMAIN flags' : Of(history', d) # {}
    <3>1. SUFFICES ASSUME NEW d \in DOMAIN flags'  PROVE Of(Append(history, e), d) # {}
      BY <2>2
    <3>2. CASE d = h
      <4> HIDE DEF HistoryEntries
      <4> QED  BY <2>3, <3>2, OfMore
    <3>3. CASE d # h
      <4>1. d \in DOMAIN KeptFlags /\ ~KeptFlags[d].unrecorded  BY <1>4, <1>5, <1>7, <3>3
      <4>2. Of(history, d) # {}  BY <1>4, <2>2, <4>1 DEF Entered
      <4> HIDE DEF HistoryEntries
      <4> QED  BY <2>3, <4>2, OfMore
    <3> QED  BY <3>2, <3>3
  <2> QED  BY <1>1, <1>3, <1>7, <2>1, <2>4 DEF Marks
<1> QED  BY <1>6, <1>7

\* The selection without the entries of one document has those of the others.
LEMMA OthersKept ==
    ASSUME NEW R, NEW hs \in Seq(R), NEW h, NEW d, d # h, Of(hs, d) # {}
    PROVE  Of(Selected(hs, DOMAIN hs \ Of(hs, h)), d) # {}
<1> DEFINE S == DOMAIN hs \ Of(hs, h) x == Selected(hs, S)
<1>1. PICK i \in DOMAIN hs : hs[i].doc = d  BY DEF Of
<1>2. i \in S  BY <1>1 DEF Of
<1> HIDE DEF S
<1>3. /\ x \in Seq(R)
      /\ \A k \in DOMAIN x : \E j \in DOMAIN hs : j \in S /\ x[k] = hs[j]
      /\ \A j \in DOMAIN hs : j \in S => \E k \in DOMAIN x : x[k] = hs[j]
  BY SelectedType
<1> HIDE DEF x
<1>4. PICK k \in DOMAIN x : x[k] = hs[i]  BY <1>2, <1>3
<1>5. Of(x, d) # {}  BY <1>1, <1>4 DEF Of
<1> QED  BY <1>5 DEF S, x

\* Freeing an object takes no entries of another document.
LEMMA MarksFree ==
    ASSUME CoreSane, Marks, NEW h \in Handles, Free(h)
    PROVE  Marks'
<1> DEFINE gone == FreedWith(objects, h)
           S == DOMAIN KeptHistory \ Of(KeptHistory, h)
<1>1. /\ phase' = phase /\ phase = "idle" /\ h \in DOMAIN objects /\ objects[h].kind # "page"
      /\ loaded' = loaded /\ unavailable' = unavailable
      /\ flags' = Without(KeptFlags, gone)
      /\ history' = Selected(KeptHistory, S)
  BY DEF Free, NewCall, cmapState, callState, HistoryWithout
<1>2. CoreTypes  BY DEF CoreSane
<1>3. Complete' = Complete  BY <1>1 DEF Complete
<1>4. /\ AllOrNone(KeptFlags, Complete) /\ Entered(KeptFlags, KeptHistory)
  BY <1>2, KeptMarks
<1>5. KeptHistory \in Seq(HistoryEntries) /\ DOMAIN KeptFlags = DocumentsOf(objects)
  BY <1>2, KeptFacts
<1>6. /\ DOMAIN flags' = DOMAIN KeptFlags \ gone
      /\ \A d \in DOMAIN flags' : flags'[d] = KeptFlags[d]
  BY <1>1 DEF Without
<1>7. \A d \in DOMAIN flags' : d # h
  <2>1. Table(objects)  BY <1>2 DEF CoreTypes
  <2>2. SUFFICES ASSUME h \in DOMAIN flags'  PROVE FALSE
    OBVIOUS
  <2>3. objects[h].kind = "document" /\ objects[h].doc = h
    BY <1>1, <1>5, <1>6, <2>1, <2>2 DEF DocumentsOf, Table
  <2> QED  BY <1>1, <1>6, <2>2, <2>3 DEF FreedWith
<1>8. ASSUME NEW d \in DOMAIN flags', ~flags'[d].unrecorded
      PROVE  Of(history', d) # {}
  <2>1. Of(KeptHistory, d) # {}  BY <1>4, <1>6, <1>8 DEF Entered
  <2>2. d # h  BY <1>7
  <2> HIDE DEF HistoryEntries
  <2>3. Of(Selected(KeptHistory, DOMAIN KeptHistory \ Of(KeptHistory, h)), d) # {}
    BY <1>5, <2>1, <2>2, OthersKept
  <2> QED  BY <1>1, <2>3
<1>9. AllOrNone(flags', Complete')  BY <1>3, <1>4, <1>6 DEF AllOrNone
<1> QED  BY <1>1, <1>8, <1>9 DEF Marks, AllOrNone

\* More CMaps: what was complete still is.
LEMMA MarksCMaps ==
    ASSUME CoreSane, Marks,
           (\E c \in CMaps : AddCMap(c)) \/ (\E got \in SUBSET CMaps : HandOver(got)) \/ Abandon
    PROVE  Marks'
<1>1. phase = "idle" /\ phase' = "idle"
  BY DEF AddCMap, HandOver, Abandon, callState
<1>2. \/ history' = KeptHistory /\ flags' = KeptFlags
      \/ history' = history /\ flags' = flags
  BY DEF AddCMap, HandOver, Abandon, documents
<1>3. Complete => Complete'
  BY DEF AddCMap, HandOver, Abandon, cmapState, Complete, StillUnavailable
<1>4. CoreTypes  BY DEF CoreSane
<1>5. /\ AllOrNone(KeptFlags, Complete) /\ Entered(KeptFlags, KeptHistory)
      /\ AllOrNone(flags, Complete) /\ Entered(flags, history)
  BY <1>4, KeptMarks, MarksIs
<1>6. AllOrNone(flags', Complete') /\ Entered(flags', history')
  BY <1>2, <1>3, <1>5 DEF AllOrNone
<1> QED  BY <1>1, <1>6 DEF Marks, AllOrNone, Entered

\* The call that starts once every CMap was handed over marks all documents.
LEMMA MarksBegin ==
    ASSUME CoreSane, Marks, NEW rs, Begin(rs)
    PROVE  Marks'
<1>1. /\ history' = KeptHistory
      /\ flags' = KeptFlags
      /\ before' = [oids |-> oids, history |-> KeptHistory]
      /\ loaded' = loaded /\ unavailable' = unavailable
  BY DEF Begin, cmapState
<1>2. CoreTypes  BY DEF CoreSane
<1>3. /\ AllOrNone(KeptFlags, Complete) /\ Entered(KeptFlags, KeptHistory)
      /\ Complete => \A d \in DOMAIN KeptFlags : KeptFlags[d].unrecorded
  BY <1>2, KeptMarks
<1>4. Complete' = Complete  BY <1>1 DEF Complete
<1>5. before'.history = KeptHistory  BY <1>1
<1> QED  BY <1>1, <1>3, <1>4, <1>5 DEF Marks, AllOrNone, Entered

\* The marks stay while no document is marked and the history only grows, or is put
\* back as it was.
LEMMA MarksSame ==
    ASSUME Marks, phase # "idle", UNCHANGED cmapState,
           before' = before \/ phase' = "idle", DOMAIN flags' = DOMAIN flags,
           \A d \in DOMAIN flags : flags'[d].unrecorded = flags[d].unrecorded,
           \/ \A d : Of(history, d) # {} => Of(history', d) # {}
           \/ history' = before.history
    PROVE  Marks'
<1>1. /\ AllOrNone(flags, Complete) /\ Entered(flags, history) /\ Entered(flags, before.history)
      /\ Complete => \A d \in DOMAIN flags : flags[d].unrecorded
  BY MarksIs
<1>2. Complete' = Complete  BY DEF cmapState, Complete
<1>3. AllOrNone(flags', Complete')  BY <1>1, <1>2 DEF AllOrNone
<1>4. Entered(flags', history')  BY <1>1 DEF Entered
<1>5. Entered(flags', before.history)  BY <1>1 DEF Entered
<1>6. Complete' => \A d \in DOMAIN flags' : flags'[d].unrecorded  BY <1>1, <1>2
<1>7. phase' # "idle" => Entered(flags', before'.history)  BY <1>5
<1> QED  BY <1>3, <1>4, <1>6, <1>7 DEF Marks, AllOrNone, Entered

\* The running call records its operations, or nothing any more.
LEMMA MarksRunOp ==
    ASSUME CoreSane, Marks, RunOp
    PROVE  Marks'
<1>1. /\ phase = "running" /\ todo # <<>> /\ phase' = phase /\ before' = before
      /\ UNCHANGED cmapState
  BY DEF RunOp
<1>2. CoreTypes /\ InRun  BY <1>1 DEF CoreSane
<1>3. /\ Complete => \A d \in DOMAIN flags : flags[d].unrecorded
      /\ flags \in [DocumentsOf(objects) -> Flags]
  BY <1>1, <1>2, MarksIs DEF CoreTypes
<1>4. CASE OpRefused
  BY <1>1, <1>4, MarksSame DEF OpRefused
<1>5. ASSUME OpRan, NEW created \in Seq(Nat \ {0}), NEW outcome \in Endings \cup {"MemoryError"},
             history' = IF Complete THEN history ELSE Append(history, OpEntry(created, outcome))
      PROVE  Marks'
  <2>1. DOMAIN flags' = DOMAIN flags  BY <1>3, <1>5 DEF OpRan
  <2>2. \A d \in DOMAIN flags : flags'[d].unrecorded = flags[d].unrecorded
    <3>1. CASE Complete
      <4>1. flags' = [flags EXCEPT ![OpDoc].unrecorded = TRUE]  BY <1>5, <3>1 DEF OpRan
      <4>2. \A d \in DOMAIN flags : flags[d].unrecorded = TRUE  BY <1>3, <3>1 DEF Flags
      <4>3. ASSUME NEW d \in DOMAIN flags  PROVE flags'[d].unrecorded = TRUE
        <5>1. CASE d = OpDoc
          <6>1. flags[d] \in Flags  BY <1>3
          <6>2. flags'[d] = [flags[d] EXCEPT !.unrecorded = TRUE]  BY <4>1, <5>1
          <6> QED  BY <6>1, <6>2 DEF Flags
        <5>2. CASE d # OpDoc  BY <4>1, <4>2, <5>2
        <5> QED  BY <5>1, <5>2
      <4> QED  BY <4>2, <4>3
    <3>2. CASE ~Complete  BY <1>5, <3>2 DEF OpRan
    <3> QED  BY <3>1, <3>2
  <2>3. \A d : Of(history, d) # {} => Of(history', d) # {}
    <3>1. CASE Complete  BY <1>5, <3>1
    <3>2. CASE ~Complete
      <4> DEFINE e == OpEntry(created, outcome)
      <4>1. e \in HistoryEntries  BY <1>1, <1>2, OpEntryIs
      <4>2. history \in Seq(HistoryEntries)  BY <1>2 DEF CoreTypes
      <4>3. history' = Append(history, e)  BY <1>5, <3>2
      <4> HIDE DEF e, HistoryEntries
      <4>4. \A d : Of(history, d) # {} => Of(Append(history, e), d) # {}
        BY <4>1, <4>2, OfMore
      <4> QED  BY <4>3, <4>4
    <3> QED  BY <3>1, <3>2
  <2> QED  BY <1>1, <2>1, <2>2, <2>3, MarksSame
<1>6. OpEffect.event.outcome \in Endings  BY <1>1, <1>2, OpFacts
<1>7. nextOid \in Nat \ {0}  BY <1>2 DEF CoreTypes, Named
<1>8. <<>> \in Seq(Nat \ {0}) /\ <<nextOid>> \in Seq(Nat \ {0})  BY <1>7
<1>9. ASSUME OpRan, NEW outcome \in Endings \cup {"MemoryError"}, OpMakesNone(outcome)
      PROVE  Marks'
  <2>1. history' = IF Complete THEN history ELSE Append(history, OpEntry(<<>>, outcome))
    BY <1>9 DEF OpMakesNone
  <2> QED  BY <1>5, <1>8, <1>9, <2>1
<1>10. ASSUME OpRan, OpMakesOne
       PROVE  Marks'
  <2>1. history' = IF Complete THEN history
                   ELSE Append(history, OpEntry(<<nextOid>>, OpEffect.event.outcome))
    BY <1>10 DEF OpMakesOne
  <2> QED  BY <1>5, <1>6, <1>8, <1>10, <2>1
<1> QED  BY <1>2, <1>4, <1>6, <1>9, <1>10, RunOpCases

\* A void call takes its entries back, and its documents are scanned.
LEMMA MarksVoid ==
    ASSUME CoreSane, Marks, Void
    PROVE  Marks'
<1>1. /\ phase = "running" /\ before' = before /\ UNCHANGED cmapState
      /\ history' = KeptByVoid
      /\ flags' = [d \in DOMAIN flags |->
                     IF d \in Reached THEN [flags[d] EXCEPT !.scanned = TRUE] ELSE flags[d]]
  BY DEF Void
<1>2. CoreTypes /\ InRun  BY <1>1 DEF CoreSane
<1>3. history' = before.history  BY <1>1, <1>2, VoidHistory
<1>4. flags \in [DocumentsOf(objects) -> Flags]  BY <1>2 DEF CoreTypes
<1>5. DOMAIN flags' = DOMAIN flags  BY <1>1
<1>6. \A d \in DOMAIN flags : flags'[d].unrecorded = flags[d].unrecorded
  BY <1>1, <1>4 DEF Flags
<1> QED  BY <1>1, <1>3, <1>5, <1>6, MarksSame

\* A document that is opened again was recorded, and is.
LEMMA MarksReplayOpen ==
    ASSUME CoreSane, Rebuildable, Marks, ReplayOpen
    PROVE  Marks'
<1>1. /\ phase = "replaying" /\ ~failed /\ replay # <<>> /\ before' = before
      /\ UNCHANGED cmapState /\ history' = history
      /\ flags' = [flags EXCEPT ![Again.doc] = NoFlags]
  BY DEF ReplayOpen, Again
<1>2. CoreTypes /\ InReplay  BY <1>1 DEF CoreSane
<1>3. running.touched \subseteq Recorded(flags)  BY <1>1 DEF Rebuildable, Rebuilt
<1>4. Again.doc \in running.touched  BY <1>1, <1>2, AgainFacts
<1>5. flags \in [DocumentsOf(objects) -> Flags]  BY <1>2 DEF CoreTypes
<1>6. Again.doc \in DOMAIN flags /\ flags[Again.doc].unrecorded = FALSE
  BY <1>3, <1>4, <1>5 DEF Recorded, Flags
<1>7. DOMAIN flags' = DOMAIN flags  BY <1>1
<1>8. \A d \in DOMAIN flags : flags'[d].unrecorded = flags[d].unrecorded
  BY <1>1, <1>6 DEF NoFlags
<1> QED  BY <1>1, <1>7, <1>8, MarksSame

\* An entry replayed marks nothing,
LEMMA MarksReplayOp ==
    ASSUME Marks, ReplayOp
    PROVE  Marks'
<1>1. /\ phase = "replaying" /\ before' = before /\ UNCHANGED cmapState /\ history' = history
      /\ flags' = flags
  BY ReplayOpCases
<1> QED  BY <1>1, MarksSame

\* ... nor does the end of a void call,
LEMMA MarksEndVoid ==
    ASSUME CoreSane, Rebuildable, Marks, EndVoid
    PROVE  Marks'
<1>1. phase = "replaying" /\ phase' = "idle" /\ UNCHANGED cmapState /\ history' = history
  BY DEF EndVoid
<1>2. CoreTypes /\ InReplay  BY <1>1 DEF CoreSane
<1>3. PICK broken : Loses(broken)  BY EndVoidIs
<1>4. /\ DOMAIN flags' = DOMAIN flags
      /\ \A d \in DOMAIN flags : flags'[d].unrecorded = flags[d].unrecorded
  BY <1>2, <1>3, EndFlags DEF Loses
<1> QED  BY <1>1, <1>4, MarksSame

\* ... nor an answer.
LEMMA MarksRespond ==
    ASSUME Marks, Respond
    PROVE  Marks'
<1>1. /\ phase = "running" /\ phase' = "idle" /\ UNCHANGED cmapState
      /\ history' = history /\ flags' = flags
  BY DEF Respond, documents
<1> QED  BY <1>1, MarksSame

\* Every step keeps the marks right.
LEMMA MarksStep ==
    ASSUME CoreSane, Rebuildable, Marks, [Next]_vars
    PROVE  Marks'
<1>1. ASSUME (\E rs \in RequestsOn(objects) : Call(rs)) \/ CallAgain
      PROVE  Marks'
  <2>1. \E rs : Begin(rs)  BY <1>1 DEF Call, CallAgain
  <2> QED  BY <2>1, MarksBegin
<1>2. CASE UNCHANGED vars
  BY <1>2 DEF vars, documents, cmapState, callState, Marks, Complete
<1> QED
  BY <1>1, <1>2, MarksOpen, MarksFree, MarksCMaps, MarksRunOp, MarksVoid,
     MarksReplayOpen, MarksReplayOp, MarksEndVoid, MarksRespond
  DEF Next

\* THEOREM: once one document has no history any more, none has; a document with a history
\* has entries in it, and in what a void call leaves of it (ops.rs `call`, `record`).
THEOREM MarksAreRight == Spec => []Marks
<1>1. Init => Marks  BY MarksInit
<1>2. CoreSane /\ Rebuildable /\ Marks /\ [Next]_vars => Marks'  BY MarksStep
<1> QED  BY <1>1, <1>2, CoreIsSane, CoreIsRebuildable, PTL DEF Spec

-----------------------------------------------------------------------------

(* Roomy: only documents without a history are lost. *)

\* The handle table has room.
Room == ~ Handles \subseteq DOMAIN objects

\* No operation told found the table full.
NoneRefused(hs) == \A i \in DOMAIN hs : hs[i].outcome # "MemoryError"

\* The documents lost have no history any more.
LostUnrecorded(fs) == \A d \in DOMAIN fs : fs[d].broken => fs[d].unrecorded

\* Roomy, in these words.
LEMMA RoomyIs ==
    Roomy <=> /\ NoneRefused(history) /\ LostUnrecorded(flags)
              /\ phase # "idle" => NoneRefused(before.history)
              /\ phase = "replaying" /\ failed => \A d \in running.touched : flags[d].unrecorded
BY DEF Roomy, NoneRefused, LostUnrecorded, OnlyUnrecordedAreLost, Broken

\* The history and the flags once a call starts.
LEMMA KeptRoomy ==
    ASSUME CoreTypes, NoneRefused(history), LostUnrecorded(flags)
    PROVE  NoneRefused(KeptHistory) /\ LostUnrecorded(KeptFlags)
<1>1. NoneRefused(KeptHistory)  BY DEF NoneRefused, KeptHistory
<1>2. flags \in [DocumentsOf(objects) -> Flags]  BY DEF CoreTypes
<1>3. DOMAIN KeptFlags = DOMAIN flags  BY DEF KeptFlags
<1>4. \A d \in DOMAIN flags : KeptFlags[d] = flags[d] \/ KeptFlags[d].unrecorded = TRUE
  BY <1>2 DEF KeptFlags, Flags
<1>5. LostUnrecorded(KeptFlags)  BY <1>3, <1>4 DEF LostUnrecorded
<1> QED  BY <1>1, <1>5

\* With one entry more that found room.
LEMMA OneMoreRoomy ==
    ASSUME NEW hs \in Seq(HistoryEntries), NEW e \in HistoryEntries, NoneRefused(hs),
           e.outcome # "MemoryError"
    PROVE  NoneRefused(Append(hs, e))
<1> HIDE DEF HistoryEntries
<1> QED  BY DEF NoneRefused

\* An opening is recorded as done.
LEMMA RoomyOpen ==
    ASSUME CoreSane, Roomy, Open
    PROVE  Roomy'
<1> DEFINE h == Fresh(DOMAIN objects)
           e == Entry("open", NoCMap, 0, <<nextOid>>, h, process, "done")
<1>1. /\ phase' = phase /\ phase = "idle" /\ ~ Handles \subseteq DOMAIN objects
      /\ flags' = With(KeptFlags, h, [NoFlags EXCEPT !.unrecorded = Complete])
      /\ history' = IF Complete THEN <<>> ELSE Append(history, e)
  BY DEF Open, NewCall, callState
<1>2. CoreTypes  BY DEF CoreSane
<1>3. NoneRefused(history) /\ LostUnrecorded(flags)  BY RoomyIs
<1>4. LostUnrecorded(KeptFlags)  BY <1>2, <1>3, KeptRoomy
<1>5. LostUnrecorded(flags')
  <2>1. /\ DOMAIN flags' = DOMAIN KeptFlags \cup {h}
        /\ flags'[h].broken = FALSE
        /\ \A d \in DOMAIN KeptFlags : d # h => flags'[d] = KeptFlags[d]
    BY <1>1 DEF With, NoFlags
  <2> QED  BY <1>4, <2>1 DEF LostUnrecorded
<1>6. NoneRefused(history')
  <2>1. CASE Complete  BY <1>1, <2>1 DEF NoneRefused
  <2>2. CASE ~Complete
    <3>1. h \in Handles /\ h \in Nat  BY <1>1, FreshIsFree, OperationsAssumption
    <3>2. process \in Process /\ nextOid \in Nat \ {0} /\ calls \in Nat
          /\ history \in Seq(HistoryEntries)
      BY <1>2 DEF CoreTypes, Named
    <3>3. <<nextOid>> \in Seq(Nat \ {0}) /\ 0 \in Nat  BY <3>2
    <3>4. "open" \in Ops /\ NoCMap \in MaybeCMap /\ "done" \in Endings
      BY DEF Ops, MaybeCMap, Endings
    <3>5. e.outcome = "done"  BY DEF Entry
    <3> HIDE DEF h
    <3>6. e \in HistoryEntries  BY <3>1, <3>2, <3>3, <3>4 DEF HistoryEntries, Entry
    <3> HIDE DEF e, HistoryEntries
    <3>7. history' = Append(history, e)  BY <1>1, <2>2
    <3>8. NoneRefused(Append(history, e))  BY <1>3, <3>2, <3>5, <3>6, OneMoreRoomy
    <3> QED  BY <3>7, <3>8
  <2> QED  BY <2>1, <2>2
<1> QED  BY <1>1, <1>5, <1>6 DEF Roomy, NoneRefused, LostUnrecorded, OnlyUnrecordedAreLost, Broken

\* Freeing an object loses no document.
LEMMA RoomyFree ==
    ASSUME CoreSane, Roomy, NEW h \in Handles, Free(h)
    PROVE  Roomy'
<1> DEFINE gone == FreedWith(objects, h)
           S == DOMAIN KeptHistory \ Of(KeptHistory, h)
<1>1. /\ phase' = phase /\ phase = "idle"
      /\ flags' = Without(KeptFlags, gone)
      /\ history' = Selected(KeptHistory, S)
  BY DEF Free, NewCall, callState, HistoryWithout
<1>2. CoreTypes  BY DEF CoreSane
<1>3. NoneRefused(KeptHistory) /\ LostUnrecorded(KeptFlags)  BY <1>2, RoomyIs, KeptRoomy
<1>4. LostUnrecorded(flags')  BY <1>1, <1>3 DEF LostUnrecorded, Without
<1>5. KeptHistory \in Seq(HistoryEntries)  BY <1>2, KeptFacts
<1> HIDE DEF S, HistoryEntries
<1>6. \A k \in DOMAIN Selected(KeptHistory, S) :
        \E j \in DOMAIN KeptHistory : Selected(KeptHistory, S)[k] = KeptHistory[j]
  BY <1>5, SelectedType
<1>7. NoneRefused(history')  BY <1>1, <1>3, <1>6 DEF NoneRefused
<1> QED  BY <1>1, <1>4, <1>7 DEF Roomy, NoneRefused, LostUnrecorded, OnlyUnrecordedAreLost, Broken

\* Nor do CMaps handed over.
LEMMA RoomyCMaps ==
    ASSUME CoreSane, Roomy,
           (\E c \in CMaps : AddCMap(c)) \/ (\E got \in SUBSET CMaps : HandOver(got)) \/ Abandon
    PROVE  Roomy'
<1>1. phase = "idle" /\ phase' = "idle"
  BY DEF AddCMap, HandOver, Abandon, callState
<1>2. \/ history' = KeptHistory /\ flags' = KeptFlags
      \/ history' = history /\ flags' = flags
  BY DEF AddCMap, HandOver, Abandon, documents
<1>3. CoreTypes  BY DEF CoreSane
<1>4. NoneRefused(history) /\ LostUnrecorded(flags)  BY RoomyIs
<1>5. NoneRefused(KeptHistory) /\ LostUnrecorded(KeptFlags)  BY <1>3, <1>4, KeptRoomy
<1>6. NoneRefused(history') /\ LostUnrecorded(flags')  BY <1>2, <1>4, <1>5
<1> QED  BY <1>1, <1>6 DEF Roomy, NoneRefused, LostUnrecorded, OnlyUnrecordedAreLost, Broken

\* A call starts with the entries there are.
LEMMA RoomyBegin ==
    ASSUME CoreSane, Roomy, NEW rs, Begin(rs)
    PROVE  Roomy'
<1>1. /\ history' = KeptHistory /\ flags' = KeptFlags /\ phase' = "running"
      /\ before' = [oids |-> oids, history |-> KeptHistory]
  BY DEF Begin
<1>2. CoreTypes  BY DEF CoreSane
<1>3. NoneRefused(KeptHistory) /\ LostUnrecorded(KeptFlags)  BY <1>2, RoomyIs, KeptRoomy
<1>4. before'.history = KeptHistory  BY <1>1
<1> QED
  BY <1>1, <1>3, <1>4 DEF Roomy, NoneRefused, LostUnrecorded, OnlyUnrecordedAreLost, Broken

\* An operation that runs finds room for the handle it needs.
LEMMA RoomyRunOp ==
    ASSUME CoreSane, Roomy, Room, RunOp
    PROVE  Roomy'
<1>1. phase = "running" /\ todo # <<>> /\ phase' = phase /\ before' = before
  BY DEF RunOp
<1>2. CoreTypes /\ InRun  BY <1>1 DEF CoreSane
<1>3. NoneRefused(history) /\ LostUnrecorded(flags) /\ NoneRefused(before.history)
  BY <1>1, RoomyIs
<1>4. SUFFICES NoneRefused(history') /\ LostUnrecorded(flags')
  BY <1>1, <1>3 DEF Roomy, NoneRefused, LostUnrecorded, OnlyUnrecordedAreLost, Broken
<1>5. CASE OpRefused  BY <1>3, <1>5 DEF OpRefused
<1>6. ASSUME OpRan, NEW created \in Seq(Nat \ {0}),
             history' = IF Complete THEN history
                        ELSE Append(history, OpEntry(created, OpEffect.event.outcome))
      PROVE  NoneRefused(history') /\ LostUnrecorded(flags')
  <2>1. LostUnrecorded(flags')
    <3>1. flags \in [DocumentsOf(objects) -> Flags]  BY <1>2 DEF CoreTypes
    <3>2. flags' = flags \/ flags' = [flags EXCEPT ![OpDoc].unrecorded = TRUE]
      BY <1>6 DEF OpRan
    <3>3. DOMAIN flags' = DOMAIN flags  BY <3>2
    <3>4. ASSUME NEW d \in DOMAIN flags  PROVE flags'[d] = flags[d] \/ flags'[d].unrecorded = TRUE
      <4>1. flags[d] \in Flags  BY <3>1
      <4>2. flags'[d] = flags[d] \/ flags'[d] = [flags[d] EXCEPT !.unrecorded = TRUE]
        BY <3>2
      <4> QED  BY <4>1, <4>2 DEF Flags
    <3> QED  BY <1>3, <3>3, <3>4 DEF LostUnrecorded
  <2>2. NoneRefused(history')
    <3>1. CASE Complete  BY <1>3, <1>6, <3>1
    <3>2. CASE ~Complete
      <4> DEFINE e == OpEntry(created, OpEffect.event.outcome)
      <4>1. OpEffect.event.outcome \in Endings  BY <1>1, <1>2, OpFacts
      <4>2. OpEffect.event.outcome # "MemoryError"  BY <4>1 DEF Endings
      <4>3. e \in HistoryEntries /\ e.outcome = OpEffect.event.outcome
        BY <1>1, <1>2, <4>1, OpEntryIs
      <4>4. history \in Seq(HistoryEntries)  BY <1>2 DEF CoreTypes
      <4>5. history' = Append(history, e)  BY <1>6, <3>2
      <4> HIDE DEF e, HistoryEntries
      <4>6. NoneRefused(Append(history, e))  BY <1>3, <4>2, <4>3, <4>4, OneMoreRoomy
      <4> QED  BY <4>5, <4>6
    <3> QED  BY <3>1, <3>2
  <2> QED  BY <2>1, <2>2
<1>7. nextOid \in Nat \ {0}  BY <1>2 DEF CoreTypes, Named
<1>8. <<>> \in Seq(Nat \ {0}) /\ <<nextOid>> \in Seq(Nat \ {0})  BY <1>7
<1>9. ASSUME OpRan, OpMakesNone(OpEffect.event.outcome)
      PROVE  NoneRefused(history') /\ LostUnrecorded(flags')
  <2>1. history' = IF Complete THEN history
                   ELSE Append(history, OpEntry(<<>>, OpEffect.event.outcome))
    BY <1>9 DEF OpMakesNone
  <2> QED  BY <1>6, <1>8, <1>9, <2>1
<1>10. ASSUME OpRan, OpMakesOne
       PROVE  NoneRefused(history') /\ LostUnrecorded(flags')
  <2>1. history' = IF Complete THEN history
                   ELSE Append(history, OpEntry(<<nextOid>>, OpEffect.event.outcome))
    BY <1>10 DEF OpMakesOne
  <2> QED  BY <1>6, <1>8, <1>10, <2>1
<1> QED  BY <1>2, <1>5, <1>9, <1>10, RunOpCases DEF Room

\* A void call whose documents have no history gives up on documents that are marked.
LEMMA RoomyVoid ==
    ASSUME CoreSane, Marks, Roomy, Void
    PROVE  Roomy'
<1>1. /\ phase = "running" /\ before' = before /\ phase' = "replaying"
      /\ history' = KeptByVoid
      /\ failed' = (\E d \in Reached : flags[d].unrecorded)
      /\ running' = [running EXCEPT !.missed = {}]
      /\ flags' = [d \in DOMAIN flags |->
                     IF d \in Reached THEN [flags[d] EXCEPT !.scanned = TRUE] ELSE flags[d]]
  BY DEF Void
<1>2. CoreTypes /\ InRun  BY <1>1 DEF CoreSane
<1>3. history' = before.history  BY <1>1, <1>2, VoidHistory
<1>4. flags \in [DocumentsOf(objects) -> Flags]  BY <1>2 DEF CoreTypes
<1>5. DOMAIN flags' = DOMAIN flags  BY <1>1
<1>6. \A d \in DOMAIN flags : flags'[d].unrecorded = flags[d].unrecorded
                               /\ flags'[d].broken = flags[d].broken
  BY <1>1, <1>4 DEF Flags
<1>7. NoneRefused(before.history) /\ LostUnrecorded(flags)  BY <1>1, RoomyIs
<1>8. LostUnrecorded(flags')  BY <1>5, <1>6, <1>7 DEF LostUnrecorded
<1>9. running'.touched = running.touched
  BY <1>1, <1>2 DEF InRun, InCall, RunFields
<1>10. running.touched \subseteq DOMAIN flags
  BY <1>2, <1>4 DEF InRun, InCall
<1>11. failed' => \A d \in running'.touched : flags'[d].unrecorded
  <2>1. failed' => \A d \in DOMAIN flags : flags[d].unrecorded
    BY <1>1, <1>10 DEF Marks, Reached
  <2> QED  BY <1>6, <1>9, <1>10, <2>1
<1> QED
  BY <1>1, <1>3, <1>7, <1>8, <1>11
  DEF Roomy, NoneRefused, LostUnrecorded, OnlyUnrecordedAreLost, Broken

\* A document opened again is not lost.
LEMMA RoomyReplayOpen ==
    ASSUME CoreSane, Roomy, ReplayOpen
    PROVE  Roomy'
<1>1. /\ phase = "replaying" /\ ~failed /\ failed' = failed /\ replay # <<>> /\ before' = before
      /\ phase' = phase /\ history' = history
      /\ flags' = [flags EXCEPT ![Again.doc] = NoFlags]
  BY DEF ReplayOpen, Again
<1>2. NoneRefused(history) /\ NoneRefused(before.history) /\ LostUnrecorded(flags)
  BY <1>1, RoomyIs
<1>3. DOMAIN flags' = DOMAIN flags /\ \A d \in DOMAIN flags : flags'[d] \in {flags[d], NoFlags}
  BY <1>1
<1>4. LostUnrecorded(flags')  BY <1>2, <1>3 DEF LostUnrecorded, NoFlags
<1> QED
  BY <1>1, <1>2, <1>4 DEF Roomy, NoneRefused, LostUnrecorded, OnlyUnrecordedAreLost, Broken

\* With room, a replay never fails: the object is there, or was made again; the
\* operation does what it did, and needs a handle as it did.
LEMMA ReplayNeverFails ==
    ASSUME Replaying, Room, NoneRefused(history)
    PROVE  ~failed'
<1> DEFINE d == Again.doc
           es == EntriesOf(history, d)
           log == running.objects[d].log
           n == HowFar(d) + 1
<1>1. NextOf(d, es, log, n)  BY DEF NextOf
<1> HIDE DEF d, es, log, n
<1>2. /\ RebuiltTo(objects, oids, ghosts, es, log, d, n - 1)
      /\ n \in DOMAIN es /\ n # 1 /\ n \in Nat /\ n - 1 \in Nat
      /\ es[n] = Again /\ EventTold(es, log, n, loaded)
  BY <1>1, AgainNext
<1>3. AgainRefused \/ AgainRan  BY ReplayOpCases DEF Replaying
<1>4. ~AgainRefused
  <2> SUFFICES ASSUME AgainRefused  PROVE FALSE
    OBVIOUS
  <2>1. ~Live(Again.target) /\ Again.target \notin DOMAIN ghosts
    BY DEF AgainRefused, AgainAlive, Room
  <2>2. ActsOn(es, log, n)  BY <1>2 DEF EventTold
  <2>3. PICK m \in 1 .. n - 1 : es[m].created = <<Again.target>>
    BY <1>2, <2>2 DEF ActsOn
  <2>4. es[m].created # <<>> /\ es[m].created[1] = Again.target  BY <2>3
  <2>5. CoreTypes  BY DEF Replaying
  <2>6. \A h \in DOMAIN oids : oids[h] # Again.target  BY <2>1 DEF Live
  <2>7. Again.target \in DOMAIN ghosts
    BY <1>2, <2>4, <2>6 DEF RebuiltTo
  <2> QED  BY <2>1, <2>7
<1>5. Again.outcome # "MemoryError"
  <2>1. CoreTypes /\ InReplay  BY DEF Replaying
  <2>2. replay # <<>>  BY ReplayOpCases DEF Replaying
  <2>3. replay \in Seq(HistoryEntries)
        /\ \A i \in DOMAIN replay : \E k \in DOMAIN history : replay[i] = history[k]
    BY <2>1 DEF InReplay
  <2>4. 1 \in DOMAIN replay /\ Again = replay[1]
    <3> HIDE DEF HistoryEntries
    <3> QED  BY <2>2, <2>3 DEF Again
  <2> QED  BY <2>3, <2>4 DEF NoneRefused
<1>6. AgainMakes <=> Again.created # <<>>
  <2>1. AgainMakes <=> ToMake(es, log, n)  BY <1>1, AgainMakesIs
  <2> QED  BY <1>2, <1>5, <2>1 DEF EventTold
<1>7. AgainEffect.event.outcome = Again.outcome
  <2>1. AgainEffect.event = log[n]  BY <1>1, AgainEffectIs
  <2> QED  BY <1>2, <1>5, <2>1 DEF EventTold
<1>8. failed' = (AgainOutcome # Again.outcome \/ (~AgainMakes /\ Again.created # <<>>))
  BY <1>3, <1>4 DEF AgainRan
<1> QED  BY <1>6, <1>7, <1>8 DEF AgainOutcome

\* With room a replay that is under way does not fail.
LEMMA RoomyReplayOp ==
    ASSUME CoreSane, Rebuildable, Roomy, Room, ReplayOp
    PROVE  Roomy'
<1>1. /\ phase = "replaying" /\ ~failed /\ before' = before
      /\ phase' = phase /\ history' = history /\ flags' = flags
  BY ReplayOpCases
<1>2. NoneRefused(history) /\ NoneRefused(before.history) /\ LostUnrecorded(flags)
  BY <1>1, RoomyIs
<1>3. Replaying  BY <1>1 DEF CoreSane, Rebuildable, Replaying
<1>4. ~failed'  BY <1>2, <1>3, ReplayNeverFails
<1> QED
  BY <1>1, <1>2, <1>4 DEF Roomy, NoneRefused, LostUnrecorded, OnlyUnrecordedAreLost, Broken

\* The documents lost at the end are those a failed replay gave up.
LEMMA RoomyEndVoid ==
    ASSUME CoreSane, Rebuildable, Roomy, EndVoid
    PROVE  Roomy'
<1>1. phase = "replaying" /\ phase' = "idle" /\ history' = history
  BY DEF EndVoid
<1>2. CoreTypes /\ InReplay  BY <1>1 DEF CoreSane
<1>3. PICK broken : Loses(broken)  BY EndVoidIs
<1>4. /\ DOMAIN flags' = DOMAIN flags
      /\ \A d \in DOMAIN flags : flags'[d].unrecorded = flags[d].unrecorded
      /\ Broken' = Broken \cup broken
  BY <1>2, <1>3, EndFlags DEF Loses
<1>5. \A d \in broken : flags[d].unrecorded
  BY <1>1, <1>3, RoomyIs DEF Loses
<1>6. OnlyUnrecordedAreLost'
  <2>1. \A d \in Broken : d \in DOMAIN flags /\ flags[d].unrecorded
    BY RoomyIs DEF LostUnrecorded, Broken
  <2>2. \A d \in Broken' : d \in DOMAIN flags'  BY DEF Broken
  <2> QED  BY <1>4, <1>5, <2>1, <2>2 DEF OnlyUnrecordedAreLost
<1> QED  BY <1>1, <1>6, RoomyIs DEF Roomy, NoneRefused

\* Every step of a core whose table has room.
LEMMA RoomyStep ==
    ASSUME CoreSane, Rebuildable, Marks, Roomy, Room, [Next]_vars
    PROVE  Roomy'
<1>1. ASSUME (\E rs \in RequestsOn(objects) : Call(rs)) \/ CallAgain
      PROVE  Roomy'
  <2>1. \E rs : Begin(rs)  BY <1>1 DEF Call, CallAgain
  <2> QED  BY <2>1, RoomyBegin
<1>2. CASE UNCHANGED vars
  BY <1>2 DEF vars, documents, callState, Roomy, OnlyUnrecordedAreLost, Broken
<1>3. CASE Respond
  BY <1>3 DEF Respond, documents, Roomy, OnlyUnrecordedAreLost, Broken
<1> QED
  BY <1>1, <1>2, <1>3, RoomyOpen, RoomyFree, RoomyCMaps, RoomyRunOp, RoomyVoid,
     RoomyReplayOpen, RoomyReplayOp, RoomyEndVoid
  DEF Next

\* THEOREM: while the handle table does not fill, a document is lost only when its history
\* was given up (OnlyUnrecordedAreLost; ops.rs `void`).  An operation that found the table
\* full is replayed when it has room, and does not end as it did: Room is needed.
THEOREM OnlyUnrecordedAreEverLost ==
    Spec /\ []Room => []OnlyUnrecordedAreLost
<1>1. Init => Roomy
  BY DEF Init, Roomy, OnlyUnrecordedAreLost, Broken
<1>2. CoreSane /\ Rebuildable /\ Marks /\ Roomy /\ Room /\ [Next]_vars => Roomy'
  BY RoomyStep
<1>3. Roomy => OnlyUnrecordedAreLost  BY DEF Roomy
<1> QED  BY <1>1, <1>2, <1>3, CoreIsSane, CoreIsRebuildable, MarksAreRight, PTL DEF Spec

-----------------------------------------------------------------------------

(* Python and the core: the same operators, the same run of a call. *)

\* What one operation does is the same whoever runs it: the operators of Python's
\* process are those of the core.
LEMMA PythonSees ==
    ASSUME NEW c, NEW log, NEW p, NEW given
    PROVE  /\ Python!Saw(c, log, p, given) = Saw(c, log, p, given)
           /\ Python!Missed(c, log, p, given) = Missed(c, log, p, given)
BY DEF Python!Saw, Saw, Python!Missed, Missed, Python!InFontCache, InFontCache,
       Python!Found, Found

\* ... what an operation does,
LEMMA PythonEffect ==
    ASSUME NEW op, NEW c, NEW value, NEW log, NEW p, NEW given
    PROVE  Python!Effect(op, c, value, log, p, given) = Effect(op, c, value, log, p, given)
<1>1. Python!Outcome(op, p) = Outcome(op, p)  BY DEF Python!Outcome, Outcome
<1>2. Python!ProcessAfter(op, c, log, p, given) = ProcessAfter(op, c, log, p, given)
  BY DEF Python!ProcessAfter, ProcessAfter, Python!InFontCache, InFontCache
<1> QED
  BY <1>1, <1>2, PythonSees DEF Python!Effect, Effect, Python!Event, Event

\* ... the page it answers with,
LEMMA PythonPage ==
    ASSUME NEW log
    PROVE  Python!PageAnswered(log) = PageAnswered(log)
<1>1. Python!PageOf(log) = PageOf(log)
  BY DEF Python!PageOf, PageOf, Python!ReadsPages, ReadsPages
<1> QED  BY <1>1 DEF Python!PageAnswered, PageAnswered

\* ... the table and its objects,
LEMMA PythonTable ==
    ASSUME NEW os, NEW d, NEW log, NEW x, NEW y, NEW S, NEW v, NEW op
    PROVE  /\ Python!NeedsHandle(os, d, log) = NeedsHandle(os, d, log)
           /\ Python!With(os, x, y) = With(os, x, y)
           /\ Python!Without(os, S) = Without(os, S)
           /\ Python!Fresh(S) = Fresh(S)
           /\ Python!Page(d, v, op) = Page(d, v, op)
           /\ Python!Document(d, log) = Document(d, log)
           /\ Python!DocumentsOf(os) = DocumentsOf(os)
           /\ Python!FreedWith(os, d) = FreedWith(os, d)
           /\ Python!ResetAll(os, S) = ResetAll(os, S)
           /\ Python!Opening = Opening
<1>1. (Python!NeedsHandle(os, d, log)) = NeedsHandle(os, d, log)
  BY PythonPage DEF Python!NeedsHandle, NeedsHandle
<1>2. Python!With(os, x, y) = With(os, x, y)  BY DEF Python!With, With
<1>3. Python!Without(os, S) = Without(os, S)  BY DEF Python!Without, Without
<1>4. Python!Fresh(S) = Fresh(S)  BY DEF Python!Fresh, Fresh
<1>5. Python!Page(d, v, op) = Page(d, v, op)  BY DEF Python!Page, Page
<1>6. Python!Document(d, log) = Document(d, log)  BY DEF Python!Document, Document
<1>7. Python!DocumentsOf(os) = DocumentsOf(os)  BY DEF Python!DocumentsOf, DocumentsOf
<1>8. Python!FreedWith(os, d) = FreedWith(os, d)  BY DEF Python!FreedWith, FreedWith
<1>9. Python!ResetAll(os, S) = ResetAll(os, S)
  BY DEF Python!ResetAll, ResetAll, Python!Reset, Reset
<1>10. Python!Opening = Opening  BY DEF Python!Opening, Opening, Python!Event, Event
<1> QED  BY <1>1, <1>2, <1>3, <1>4, <1>5, <1>6, <1>7, <1>8, <1>9, <1>10

\* ... the calls that can be made,
LEMMA PythonRequests ==
    ASSUME NEW os
    PROVE  Python!RequestsOn(os) = RequestsOn(os)
BY DEF Python!RequestsOn, RequestsOn, Python!Request, Request,
       Python!DocumentOps, DocumentOps, Python!PageOps, PageOps

\* ... and one operation of a call.
LEMMA PythonDo ==
    ASSUME NEW w, NEW r, NEW given, NEW gone
    PROVE  Python!Do(w, r, given, gone) = Do(w, r, given, gone)
BY PythonEffect, PythonPage, PythonTable DEF Python!Do, Do

\* The call after each of its first n operations, run once with the CMaps given.
RanUpTo(rs, os, p, given, gone, n, f) ==
    f = [i \in 0 .. n |-> IF i = 0 THEN Start(rs, os, p)
                          ELSE IF f[i - 1].outcome # "done" THEN f[i - 1]
                          ELSE Do(f[i - 1], rs[i], given, gone)]

\* There is such a run of any length.
LEMMA RanExists ==
    ASSUME NEW rs, NEW os, NEW p, NEW given, NEW gone, NEW n, n \in Nat
    PROVE  \E f : RanUpTo(rs, os, p, given, gone, n, f)
<1> SUFFICES ASSUME \A f : ~RanUpTo(rs, os, p, given, gone, n, f)  PROVE FALSE
  OBVIOUS
<1> DEFINE L == {k \in 0 .. n : \A f : ~RanUpTo(rs, os, p, given, gone, k, f)}
<1>1. n \in L  OBVIOUS
<1>2. PICK k \in L : \A m \in L : k <= m
  <2> HIDE DEF L
  <2>1. L \subseteq 0 .. n  BY DEF L
  <2> QED  BY <1>1, <2>1, LeastNumber
<1>3. k \in 0 .. n /\ \A f : ~RanUpTo(rs, os, p, given, gone, k, f)  OBVIOUS
<1>4. k # 0
  <2>1. RanUpTo(rs, os, p, given, gone, 0, [j \in 0 .. 0 |-> Start(rs, os, p)])
    BY DEF RanUpTo
  <2> QED  BY <1>3, <2>1
<1>5. k - 1 \in 0 .. n /\ k - 1 \notin L  BY <1>2, <1>3, <1>4
<1>6. PICK f : RanUpTo(rs, os, p, given, gone, k - 1, f)  BY <1>5
<1> DEFINE Next1(w, j) == IF w.outcome # "done" THEN w ELSE Do(w, rs[j], given, gone)
           g == [j \in 0 .. k |-> IF j = k THEN Next1(f[k - 1], k) ELSE f[j]]
<1>7. RanUpTo(rs, os, p, given, gone, k, g)
  <2> HIDE DEF Next1
  <2>1. ASSUME NEW j \in 0 .. k
        PROVE  g[j] = IF j = 0 THEN Start(rs, os, p) ELSE Next1(g[j - 1], j)
    <3>1. CASE j = k
      <4>1. g[k - 1] = f[k - 1]  BY <1>3, <1>4
      <4> QED  BY <3>1, <4>1, <1>3, <1>4
    <3>2. CASE j # k
      <4>1. j \in 0 .. k - 1 /\ g[j] = f[j]  BY <3>2, <1>3, <1>4
      <4>2. j # 0 => j - 1 \in 0 .. k /\ j - 1 # k /\ g[j - 1] = f[j - 1]  BY <4>1, <1>3
      <4>3. f[j] = IF j = 0 THEN Start(rs, os, p) ELSE Next1(f[j - 1], j)
        BY <1>6, <4>1 DEF RanUpTo, Next1
      <4> HIDE DEF g
      <4> QED  BY <4>1, <4>2, <4>3
    <3> QED  BY <3>1, <3>2
  <2>2. g = [j \in 0 .. k |-> g[j]]  OBVIOUS
  <2> HIDE DEF g
  <2> QED  BY <2>1, <2>2 DEF RanUpTo, Next1
<1> QED  BY <1>3, <1>7

\* What the running call did so far, as Python's.
Now == [running EXCEPT !.objects = objects, !.process = process]

\* The objects and the process of Python, while a call runs.
PythonObjects == IF phase = "idle" THEN objects ELSE running.objects
PythonState == IF phase = "idle" THEN process ELSE running.process

\* Python runs a call with every CMap, and the documents lost are those lost.
LEMMA PythonRanIs ==
    ASSUME NEW rs \in Seq(Requests)
    PROVE  \E f : /\ RanUpTo(rs, PythonObjects, PythonState, CMaps, Broken, Len(rs), f)
                  /\ Python!Ran(rs) = f[Len(rs)]
<1> DEFINE run[i \in 0 .. Len(rs)] ==
             IF i = 0 THEN Python!Start(rs, PythonObjects, PythonState)
             ELSE IF run[i - 1].outcome # "done" THEN run[i - 1]
             ELSE Python!Do(run[i - 1], rs[i], CMaps, Broken)
<1>1. Python!Ran(rs) = run[Len(rs)]
  BY DEF Python!Ran, PythonObjects, PythonState
<1>2. Python!Start(rs, PythonObjects, PythonState) = Start(rs, PythonObjects, PythonState)
  BY DEF Python!Start, Start
<1>3. run = CHOOSE f : RanUpTo(rs, PythonObjects, PythonState, CMaps, Broken, Len(rs), f)
  BY <1>2, PythonDo DEF RanUpTo
<1> HIDE DEF run
<1>4. Len(rs) \in Nat  OBVIOUS
<1>5. RanUpTo(rs, PythonObjects, PythonState, CMaps, Broken, Len(rs), run)
  BY <1>3, <1>4, RanExists
<1> QED  BY <1>1, <1>5

\* Once an operation raised, the others are not run.
LEMMA RaisedIsLast ==
    ASSUME NEW rs, NEW os, NEW p, NEW given, NEW gone, NEW n, n \in Nat, NEW f,
           RanUpTo(rs, os, p, given, gone, n, f), NEW i \in 0 .. n, f[i].outcome # "done"
    PROVE  f[n] = f[i]
<1> DEFINE L == {k \in 0 .. n : i <= k /\ f[k] # f[i]}
<1> SUFFICES ASSUME n \in L  PROVE FALSE
  OBVIOUS
<1>1. PICK k \in L : \A m \in L : k <= m
  <2> HIDE DEF L
  <2>1. L \subseteq 0 .. n  BY DEF L
  <2> QED  BY <2>1, LeastNumber
<1>2. k \in 0 .. n /\ i <= k /\ f[k] # f[i]  OBVIOUS
<1>3. k - 1 \in 0 .. n /\ i <= k - 1 /\ k - 1 \notin L  BY <1>1, <1>2
<1>4. f[k - 1] = f[i]  BY <1>3
<1>5. f[k] = f[k - 1]  BY <1>2, <1>3, <1>4 DEF RanUpTo
<1> QED  BY <1>2, <1>4, <1>5

\* There is one such run.
LEMMA RanAgree ==
    ASSUME NEW rs, NEW os, NEW p, NEW given, NEW gone, NEW n, n \in Nat, NEW f, NEW g,
           RanUpTo(rs, os, p, given, gone, n, f), RanUpTo(rs, os, p, given, gone, n, g)
    PROVE  f[n] = g[n]
<1> DEFINE L == {k \in 0 .. n : f[k] # g[k]}
<1> SUFFICES ASSUME n \in L  PROVE FALSE
  OBVIOUS
<1>1. PICK k \in L : \A m \in L : k <= m
  <2> HIDE DEF L
  <2>1. L \subseteq 0 .. n  BY DEF L
  <2> QED  BY <2>1, LeastNumber
<1>2. k \in 0 .. n /\ f[k] # g[k]  OBVIOUS
<1>3. k # 0  BY <1>2 DEF RanUpTo
<1>4. k - 1 \in 0 .. n /\ k - 1 \notin L  BY <1>1, <1>2, <1>3
<1>5. f[k - 1] = g[k - 1]  BY <1>4
<1> HIDE DEF L
<1>6. f[k] = g[k]  BY <1>2, <1>3, <1>5 DEF RanUpTo
<1> QED  BY <1>2, <1>6

\* The record of a call.
ACall(w) == IsCall(w, w.request, w.objects, w.process, w.created, w.touched, w.missed,
                   w.outcome, w.page)

\* An operation leaves a record of the call.
LEMMA DoIsACall ==
    ASSUME NEW w, ACall(w), NEW r, NEW given, NEW gone
    PROVE  ACall(Do(w, r, given, gone))
<1> DEFINE d == w.objects[r.on].doc
           e == Effect(r.op, r.cmap, w.objects[r.on].value, w.objects[d].log, w.process, given)
           log == Append(w.objects[d].log, e.event)
           os == [w.objects EXCEPT ![d].log = log]
           ran == [w EXCEPT !.objects = os, !.process = e.process,
                            !.touched = @ \cup {d}, !.missed = @ \cup e.missed,
                            !.outcome = e.event.outcome, !.page = PageAnswered(log)]
           h == Fresh(DOMAIN os)
           more == With(os, h, Page(d, ran.page, r.op))
           end == Do(w, r, given, gone)
<1>1. \/ end = [w EXCEPT !.outcome = "RuntimeError", !.page = 0]
      \/ end = ran
      \/ end = [ran EXCEPT !.outcome = "MemoryError", !.page = 0]
      \/ end = [ran EXCEPT !.objects = more, !.created = Append(@, h)]
  BY DEF Do
<1>2. ASSUME NEW x, NEW q, NEW o, NEW p, NEW c, NEW t, NEW m, NEW y, NEW g,
             IsCall(x, q, o, p, c, t, m, y, g)
      PROVE  ACall(x)
  BY <1>2, CallFields DEF ACall
<1>3. IsCall(ran, w.request, os, e.process, w.created, w.touched \cup {d},
             w.missed \cup e.missed, e.event.outcome, PageAnswered(log))
  <2> HIDE DEF d, e, log, os
  <2> QED  BY CallWithOp DEF ACall
<1>4. IsCall([w EXCEPT !.outcome = "RuntimeError", !.page = 0], w.request, w.objects,
             w.process, w.created, w.touched, w.missed, "RuntimeError", 0)
  BY CallWithEnd DEF ACall
<1> HIDE DEF ran, more, h, end
<1>5. IsCall([ran EXCEPT !.outcome = "MemoryError", !.page = 0], w.request, os, e.process,
             w.created, w.touched \cup {d}, w.missed \cup e.missed, "MemoryError", 0)
  <2> HIDE DEF d, e, log, os
  <2> QED  BY <1>3, CallWithEnd
<1>6. IsCall([ran EXCEPT !.objects = more, !.created = Append(@, h)], w.request, more,
             e.process, Append(w.created, h), w.touched \cup {d}, w.missed \cup e.missed,
             e.event.outcome, PageAnswered(log))
  <2> HIDE DEF d, e, log, os
  <2> QED  BY <1>3, CallWithObject
<1> HIDE DEF d, e, log, os
<1>7. ACall([w EXCEPT !.outcome = "RuntimeError", !.page = 0])  BY <1>2, <1>4
<1>8. ACall(ran)  BY <1>2, <1>3
<1>9. ACall([ran EXCEPT !.outcome = "MemoryError", !.page = 0])  BY <1>2, <1>5
<1>10. ACall([ran EXCEPT !.objects = more, !.created = Append(@, h)])  BY <1>2, <1>6
<1> QED  BY <1>1, <1>7, <1>8, <1>9, <1>10 DEF end

\* An operation that missed no CMap does what it does with every CMap.
LEMMA EffectWithAll ==
    ASSUME NEW op, NEW c \in MaybeCMap, NEW value, NEW log, NEW p, NEW given \in SUBSET CMaps,
           Missed(c, log, p, given) = {}
    PROVE  Effect(op, c, value, log, p, given) = Effect(op, c, value, log, p, CMaps)
<1>1. Saw(c, log, p, given) = Saw(c, log, p, CMaps) /\ Missed(c, log, p, CMaps) = {}
  BY SawMore
<1>2. ProcessAfter(op, c, log, p, given) = ProcessAfter(op, c, log, p, CMaps)
  <2>1. CASE c = NoCMap \/ InFontCache(c, log)  BY <2>1 DEF ProcessAfter
  <2>2. CASE ~(c = NoCMap \/ InFontCache(c, log))
    <3>1. c \in p \cup given /\ c \in CMaps
      BY <2>2 DEF Missed, Found, MaybeCMap
    <3>2. p \cup (IF op = "deep" THEN {Site} ELSE {}) \cup ({c} \cap given)
            = p \cup (IF op = "deep" THEN {Site} ELSE {}) \cup ({c} \cap CMaps)
      BY <3>1
    <3> QED  BY <2>2, <3>2 DEF ProcessAfter
  <2> QED  BY <2>1, <2>2
<1> QED  BY <1>1, <1>2 DEF Effect

\* So one whose effect is the same with every CMap leaves the same record.
LEMMA DoWithAll ==
    ASSUME NEW w, NEW r, NEW given, NEW gone, NEW d, d = w.objects[r.on].doc,
           \/ d \in gone
           \/ Effect(r.op, r.cmap, w.objects[r.on].value, w.objects[d].log, w.process, given)
                = Effect(r.op, r.cmap, w.objects[r.on].value, w.objects[d].log, w.process, CMaps)
    PROVE  Do(w, r, given, gone) = Do(w, r, CMaps, gone)
<1>1. CASE d \in gone  BY <1>1 DEF Do
<1>2. CASE d \notin gone  BY <1>2 DEF Do
<1> QED  BY <1>1, <1>2

\* The step of the running call is the next operation.
LEMMA NowIsNext ==
    ASSUME CoreTypes, InRun, RunOp
    PROVE  /\ Now' = Do(Now, Op, loaded, Broken)
           /\ todo' = IF Now'.outcome = "done" THEN Tail(todo) ELSE <<>>
           /\ Now'.outcome = running'.outcome
           /\ ACall(Now) /\ ACall(Now')
<1> DEFINE ran == Do(Now, Op, loaded, Broken)
<1>1. /\ objects' = ran.objects
      /\ process' = ran.process
      /\ running' = [ran EXCEPT !.objects = running.objects, !.process = running.process]
      /\ todo' = IF ran.outcome = "done" THEN Tail(todo) ELSE <<>>
  BY DEF RunOp, Op, Now
<1>2. ACall(running)
  BY DEF InRun, InCall, RunFields, IsCall, ACall
<1>3. IsCall(Now, running.request, objects, process, running.created, running.touched,
             running.missed, running.outcome, running.page)
  BY <1>2, CallWithTwo DEF Now, ACall
<1>4. ACall(Now)  BY <1>3, CallFields DEF ACall
<1>5. ACall(ran)  BY <1>4, DoIsACall
<1> HIDE DEF ran
<1>6. IsCall(running', ran.request, running.objects, running.process, ran.created,
             ran.touched, ran.missed, ran.outcome, ran.page)
  BY <1>1, <1>5, CallWithTwo DEF ACall
<1>7. IsCall([running' EXCEPT !.objects = objects', !.process = process'],
             ran.request, ran.objects, ran.process, ran.created,
             ran.touched, ran.missed, ran.outcome, ran.page)
  <2> DEFINE o == objects' p == process' w == running'
  <2>1. o = ran.objects /\ p = ran.process  BY <1>1
  <2>2. IsCall(w, ran.request, running.objects, running.process, ran.created,
               ran.touched, ran.missed, ran.outcome, ran.page)
    BY <1>6
  <2> HIDE DEF o, p, w
  <2>3. IsCall([w EXCEPT !.objects = o, !.process = p],
               ran.request, o, p, ran.created, ran.touched, ran.missed, ran.outcome, ran.page)
    BY <2>2, CallWithTwo
  <2> QED  BY <2>1, <2>3 DEF o, p, w
<1>8. Now' = ran  BY <1>5, <1>7 DEF Now, ACall, IsCall
<1>9. running'.outcome = ran.outcome  BY <1>6, CallFields
<1> QED  BY <1>1, <1>4, <1>5, <1>8, <1>9 DEF ran

-----------------------------------------------------------------------------

(* Python follows the running call as long as it missed nothing. *)

\* Python is as far with the running call: it did the first i of its operations.
FollowsAt(f, i) ==
    /\ i \in 0 .. Len(running.request)
    /\ RanUpTo(running.request, running.objects, running.process, CMaps, Broken,
               Len(running.request), f)
    /\ Now = f[i]
    /\ todo = IF running.outcome = "done"
              THEN SubSeq(running.request, i + 1, Len(running.request)) ELSE <<>>

\* The calls run, and to run again, are calls JavaScript can make; as long as the
\* running one missed nothing, Python follows it.
Followed ==
    /\ phase = "idle" /\ pending # NoRequest => pending.request \in RequestsOn(objects)
    /\ phase # "idle" => running.request \in RequestsOn(running.objects)
    /\ phase = "running" /\ running.missed = {} => \E f, i : FollowsAt(f, i)

\* The calls that can be made depend on the kinds of the objects alone.
LEMMA RequestsAlike ==
    ASSUME NEW os, NEW ps, DOMAIN os = DOMAIN ps,
           \A h \in DOMAIN os : os[h].kind = ps[h].kind
    PROVE  RequestsOn(os) = RequestsOn(ps)
<1> DEFINE Fits(qs, s) ==
             {f \in [DOMAIN s -> DOMAIN qs] :
                \A i \in DOMAIN s :
                  s[i].op \in IF qs[f[i]].kind = "document" THEN DocumentOps ELSE PageOps}
           Calls(qs, s) == {[i \in DOMAIN s |-> Request(s[i].op, on[i], s[i].cmap)] :
                              on \in Fits(qs, s)}
<1>1. \A s : Fits(os, s) = Fits(ps, s)  OBVIOUS
<1>2. \A s : Calls(os, s) = Calls(ps, s)
  <2> HIDE DEF Fits
  <2> QED  BY <1>1
<1>3. RequestsOn(os) = UNION {Calls(os, s) : s \in Scripts}
  BY DEF RequestsOn
<1>4. RequestsOn(ps) = UNION {Calls(ps, s) : s \in Scripts}
  BY DEF RequestsOn
<1> HIDE DEF Calls
<1> QED  BY <1>2, <1>3, <1>4

\* A call starts where Python starts.
LEMMA FollowedBegin ==
    ASSUME CoreSane, Followed, NEW rs, rs \in RequestsOn(objects), Begin(rs)
    PROVE  Followed'
<1>1. /\ phase' = "running" /\ todo' = rs /\ running' = Start(rs, objects, process)
      /\ objects' = objects /\ process' = process
  BY DEF Begin
<1>2. /\ running'.request = rs /\ running'.objects = objects /\ running'.process = process
      /\ running'.outcome = "done" /\ running'.missed = {}
  BY <1>1 DEF Start
<1>3. CoreTypes  BY DEF CoreSane
<1>4. rs \in Seq(Requests)  BY <1>3, RequestsAllowed DEF CoreTypes
<1>5. Now' = Start(rs, objects, process)
  <2>1. IsCall(running', rs, objects, process, <<>>, {}, {}, "done", 0)
    BY <1>1 DEF IsCall, Start
  <2> DEFINE w == running' o == objects' p == process'
  <2>2. IsCall(w, rs, objects, process, <<>>, {}, {}, "done", 0)  BY <2>1
  <2>3. o = objects /\ p = process  BY <1>1
  <2> HIDE DEF w, o, p
  <2>4. IsCall([w EXCEPT !.objects = o, !.process = p], rs, o, p, <<>>, {}, {}, "done", 0)
    BY <2>2, CallWithTwo
  <2>5. [w EXCEPT !.objects = o, !.process = p] = Start(rs, objects, process)
    BY <2>3, <2>4 DEF IsCall, Start
  <2> QED  BY <2>5 DEF w, o, p, Now
<1>6. Len(rs) \in Nat /\ SubSeq(rs, 1, Len(rs)) = rs
  <2> HIDE DEF Requests
  <2> QED  BY <1>4, SubSeqFull
<1>7. PICK f : RanUpTo(rs, objects, process, CMaps, Broken', Len(rs), f)
  <2> DEFINE gone == Broken'
  <2> HIDE DEF gone
  <2>1. \E f : RanUpTo(rs, objects, process, CMaps, gone, Len(rs), f)  BY <1>6, RanExists
  <2> QED  BY <2>1 DEF gone
<1>8. f[0] = Start(rs, objects, process)
  <2> DEFINE gone == Broken'
  <2> HIDE DEF gone
  <2>1. RanUpTo(rs, objects, process, CMaps, gone, Len(rs), f)  BY <1>7 DEF gone
  <2>2. 0 \in 0 .. Len(rs)  BY <1>6
  <2> QED  BY <2>1, <2>2 DEF RanUpTo
<1>9. FollowsAt(f, 0)'  BY <1>1, <1>2, <1>5, <1>6, <1>7, <1>8 DEF FollowsAt
<1> QED  BY <1>1, <1>2, <1>9 DEF Followed

\* Each operation that finds its CMaps is Python's next.
LEMMA FollowedRunOp ==
    ASSUME CoreSane, Followed, RunOp
    PROVE  Followed'
<1>1. phase = "running" /\ phase' = phase /\ todo # <<>>
  BY DEF RunOp
<1>2. CoreTypes /\ InRun  BY <1>1 DEF CoreSane
<1> DEFINE Runs == /\ running'.request = running.request /\ running'.objects = running.objects
                   /\ running'.process = running.process
                   /\ \/ OpDoc \in Broken /\ running'.missed = running.missed
                      \/ /\ OpDoc \notin Broken
                         /\ running'.missed = running.missed \cup OpEffect.missed
                   /\ \/ flags' = flags
                      \/ flags' = [flags EXCEPT ![OpDoc].unrecorded = TRUE]
<1>3. Runs
  <2>1. CASE OpRefused  BY <2>1 DEF OpRefused, RunningAfter
  <2>2. ASSUME OpRan, NEW outcome, OpMakesNone(outcome)
        PROVE  Runs
    BY <2>2 DEF OpRan, OpMakesNone
  <2>3. ASSUME OpRan, OpMakesOne
        PROVE  Runs
    BY <2>3 DEF OpRan, OpMakesOne, RunningAfter
  <2> HIDE DEF Runs
  <2> QED  BY <1>2, <2>1, <2>2, <2>3, RunOpCases
<1>4. Broken' = Broken
  <2>1. flags \in [DocumentsOf(objects) -> Flags]  BY <1>2 DEF CoreTypes
  <2>2. DOMAIN flags' = DOMAIN flags  BY <1>3
  <2>3. \A d \in DOMAIN flags : flags'[d].broken = flags[d].broken
    <3>1. \A d \in DOMAIN flags : flags[d] \in Flags  BY <2>1
    <3> QED  BY <1>3, <3>1 DEF Flags
  <2> QED  BY <2>2, <2>3 DEF Broken
<1>5. SUFFICES ASSUME running'.missed = {}  PROVE \E f, i : FollowsAt(f, i)'
  <2>1. running'.request \in RequestsOn(running'.objects)  BY <1>1, <1>3 DEF Followed
  <2> QED  BY <1>1, <2>1 DEF Followed
<1>6. running.missed = {} /\ (OpDoc \in Broken \/ OpEffect.missed = {})
  BY <1>3, <1>5
<1>7. PICK f, i : FollowsAt(f, i)  BY <1>1, <1>6 DEF Followed
<1> DEFINE rs == running.request
<1>8. rs \in Seq(Requests)
  BY <1>2 DEF InRun, InCall, RunFields
<1>9. running.outcome = "done" /\ todo = SubSeq(rs, i + 1, Len(rs))
  BY <1>1, <1>7 DEF FollowsAt
<1>10. /\ i \in Nat /\ i + 1 \in 1 .. Len(rs) /\ i + 1 \in 0 .. Len(rs) /\ Len(rs) \in Nat
       /\ Op = rs[i + 1]
       /\ Tail(todo) = SubSeq(rs, i + 2, Len(rs))
  <2>1. i \in 0 .. Len(rs)  BY <1>7 DEF FollowsAt
  <2> HIDE DEF rs, Requests
  <2>2. Len(rs) \in Nat /\ i \in Nat  BY <1>8, <2>1
  <2>3. i + 1 <= Len(rs)  BY <1>1, <1>8, <1>9, <2>1, <2>2
  <2>4. Head(todo) = rs[i + 1] /\ Tail(todo) = SubSeq(rs, i + 2, Len(rs))
    BY <1>8, <1>9, <2>2, <2>3
  <2> QED  BY <2>2, <2>3, <2>4 DEF Op
<1>11. /\ Now' = Do(Now, Op, loaded, Broken)
       /\ todo' = IF Now'.outcome = "done" THEN Tail(todo) ELSE <<>>
       /\ Now'.outcome = running'.outcome
       /\ ACall(Now) /\ ACall(Now')
  BY <1>2, NowIsNext
<1>12. Now.objects = objects /\ Now.process = process /\ Now.outcome = "done"
  <2>1. IsCall(running, running.request, running.objects, running.process, running.created,
               running.touched, running.missed, running.outcome, running.page)
    BY <1>2 DEF InRun, InCall, RunFields, IsCall
  <2>2. IsCall(Now, running.request, objects, process, running.created, running.touched,
               running.missed, running.outcome, running.page)
    BY <2>1, CallWithTwo DEF Now
  <2> QED  BY <1>9, <2>2, CallFields
<1>13. Do(Now, Op, loaded, Broken) = Do(Now, Op, CMaps, Broken)
  <2>1. OpDoc = Now.objects[Op.on].doc  BY <1>12 DEF OpDoc
  <2>2. \/ OpDoc \in Broken
        \/ Effect(Op.op, Op.cmap, Now.objects[Op.on].value, Now.objects[OpDoc].log, Now.process, loaded)
             = Effect(Op.op, Op.cmap, Now.objects[Op.on].value, Now.objects[OpDoc].log, Now.process, CMaps)
    <3> DEFINE v == objects[Op.on].value log == objects[OpDoc].log
    <3> SUFFICES ASSUME OpEffect.missed = {}
                 PROVE  Effect(Op.op, Op.cmap, v, log, process, loaded)
                          = Effect(Op.op, Op.cmap, v, log, process, CMaps)
      BY <1>6, <1>12
    <3>1. Missed(Op.cmap, log, process, loaded) = {}
      BY DEF OpEffect, Effect
    <3>2. Op.cmap \in MaybeCMap /\ loaded \in SUBSET CMaps
      BY <1>1, <1>2, OpFacts DEF CoreTypes
    <3> HIDE DEF v, log
    <3> QED  BY <3>1, <3>2, EffectWithAll
  <2> QED  BY <2>1, <2>2, DoWithAll
<1>14. Now' = f[i + 1]
  <2>1. RanUpTo(rs, running.objects, running.process, CMaps, Broken, Len(rs), f) /\ Now = f[i]
    BY <1>7 DEF FollowsAt
  <2> HIDE DEF rs
  <2>2. f[i + 1] = IF f[(i + 1) - 1].outcome # "done" THEN f[(i + 1) - 1]
                   ELSE Do(f[(i + 1) - 1], rs[i + 1], CMaps, Broken)
    BY <1>10, <2>1 DEF RanUpTo
  <2>3. (i + 1) - 1 = i  BY <1>10
  <2>4. f[i + 1] = Do(Now, rs[i + 1], CMaps, Broken)  BY <1>12, <2>1, <2>2, <2>3
  <2> QED  BY <1>10, <1>11, <1>13, <2>4
<1>15. FollowsAt(f, i + 1)'
  <2>1. RanUpTo(rs, running.objects, running.process, CMaps, Broken, Len(rs), f)
    BY <1>7 DEF FollowsAt
  <2>2. (i + 1) + 1 = i + 2  BY <1>10
  <2>3. todo' = IF running'.outcome = "done" THEN SubSeq(rs, (i + 1) + 1, Len(rs)) ELSE <<>>
    BY <1>10, <1>11, <2>2
  <2> QED  BY <1>3, <1>4, <1>10, <1>14, <2>1, <2>3 DEF FollowsAt
<1> QED  BY <1>15

\* A void call is followed no further: Python has not run it yet.
LEMMA FollowedVoid ==
    ASSUME CoreSane, Followed, Void
    PROVE  Followed'
<1>1. /\ phase = "running" /\ phase' = "replaying"
      /\ running' = [running EXCEPT !.missed = {}]
  BY DEF Void
<1>2. running'.request = running.request /\ running'.objects = running.objects
  BY <1>1 DEF CoreSane, InRun, InCall, RunFields
<1> QED  BY <1>1, <1>2 DEF Followed

\* Nor is a replay.
LEMMA FollowedReplay ==
    ASSUME CoreSane, Followed, ReplayOpen \/ ReplayOp
    PROVE  Followed'
<1>1. /\ phase = "replaying" /\ phase' = phase
      /\ running' = running \/ running' = [running EXCEPT !.missed = @ \cup AgainEffect.missed]
  <2>1. CASE ReplayOpen  BY <2>1 DEF ReplayOpen
  <2>2. CASE ReplayOp
    BY <2>2, ReplayOpCases DEF AgainRefused, AgainRan
  <2> QED  BY <2>1, <2>2
<1>2. running'.request = running.request /\ running'.objects = running.objects
  BY <1>1 DEF CoreSane, InReplay, InCall, RunFields
<1> QED  BY <1>1, <1>2 DEF Followed

\* The call to run again can be made of the objects a void call left.
LEMMA FollowedEndVoid ==
    ASSUME CoreSane, Rebuildable, Followed, EndVoid
    PROVE  Followed'
<1>1. phase = "replaying" /\ phase' = "idle" /\ pending' = pending
  BY DEF EndVoid, js
<1>2. pending.request = running.request  BY <1>1 DEF CoreSane, InReplay
<1>3. PICK broken : Loses(broken)  BY EndVoidIs
<1>4. /\ DOMAIN objects' = DOMAIN running.objects
      /\ \A h \in DOMAIN running.objects : objects'[h].kind = running.objects[h].kind
  <2>1. Table(running.objects)  BY <1>1 DEF CoreSane, InReplay, InCall
  <2>2. objects' = ResetAll(running.objects, broken)  BY <1>3 DEF Loses
  <2>3. DOMAIN objects' = DOMAIN running.objects  BY <2>2 DEF ResetAll
  <2>4. ASSUME NEW h \in DOMAIN running.objects
        PROVE  objects'[h].kind = running.objects[h].kind
    <3>1. objects'[h] \in {running.objects[h], Reset(running.objects[h])}
      BY <2>2 DEF ResetAll
    <3>2. running.objects[h] \in TableObjects  BY <2>1, TableGives
    <3> QED  BY <3>1, <3>2 DEF Reset, TableObjects
  <2> QED  BY <2>3, <2>4
<1>5. RequestsOn(objects') = RequestsOn(running.objects)
  <2> DEFINE os == objects'
  <2>1. DOMAIN os = DOMAIN running.objects
        /\ \A h \in DOMAIN os : os[h].kind = running.objects[h].kind
    BY <1>4
  <2> HIDE DEF os
  <2>2. RequestsOn(os) = RequestsOn(running.objects)  BY <2>1, RequestsAlike
  <2> QED  BY <2>2 DEF os
<1> QED  BY <1>1, <1>2, <1>5 DEF Followed

\* Every step keeps Python with the call.
LEMMA FollowedStep ==
    ASSUME CoreSane, Rebuildable, Followed, [Next]_vars
    PROVE  Followed'
<1>1. CASE Open \/ (\E h \in Handles : Free(h))
  BY <1>1 DEF Open, Free, NewCall, callState, Followed
<1>2. ASSUME NEW rs \in RequestsOn(objects), Call(rs)  PROVE Followed'
  BY <1>2, FollowedBegin DEF Call
<1>3. CASE CallAgain
  <2>1. Begin(pending.request) /\ pending # NoRequest /\ phase = "idle"
    BY <1>3 DEF CallAgain, Begin
  <2>2. pending.request \in RequestsOn(objects)  BY <2>1 DEF Followed
  <2> QED  BY <2>1, <2>2, FollowedBegin
<1>4. CASE (\E c \in CMaps : AddCMap(c)) \/ (\E got \in SUBSET CMaps : HandOver(got)) \/ Abandon
  <2>1. phase = "idle" /\ phase' = "idle" /\ objects' = objects
        /\ (pending' = pending \/ pending' = NoRequest)
    BY <1>4 DEF AddCMap, HandOver, Abandon, callState, documents, js
  <2> QED  BY <2>1 DEF Followed
<1>5. CASE Respond  BY <1>5 DEF Respond, Followed
<1>6. CASE UNCHANGED vars
  <2>1. UNCHANGED <<phase, pending, objects, running, process, todo, flags>>
    BY <1>6 DEF vars, documents, callState, js
  <2>2. Now' = Now /\ Broken' = Broken  BY <2>1 DEF Now, Broken
  <2>3. \A f, i : FollowsAt(f, i)' <=> FollowsAt(f, i)  BY <2>1, <2>2 DEF FollowsAt
  <2> QED  BY <2>1, <2>3 DEF Followed
<1> QED
  BY <1>1, <1>2, <1>3, <1>4, <1>5, <1>6, FollowedRunOp, FollowedVoid, FollowedReplay,
     FollowedEndVoid
  DEF Next

\* The call that ends, nothing missing, is the one Python ran.
LEMMA RespondIsPythons ==
    ASSUME CoreSane, Followed, Respond
    PROVE  \E rs \in RequestsOn(running.objects) :
             /\ objects' = Python!Ran(rs).objects
             /\ process' = Python!Ran(rs).process
             /\ answer' = Answer(Python!Ran(rs).outcome, Python!Ran(rs).page)
<1>1. /\ phase = "running" /\ todo = <<>> /\ running.missed = {}
      /\ answer' = Answer(running.outcome, running.page)
      /\ objects' = objects /\ process' = process
  BY DEF Respond, documents
<1>2. CoreTypes /\ InRun  BY <1>1 DEF CoreSane
<1> DEFINE rs == running.request
<1>3. PICK f, i : FollowsAt(f, i)  BY <1>1 DEF Followed
<1>4. rs \in Seq(Requests)  BY <1>2 DEF InRun, InCall, RunFields
<1>5. PICK g : /\ RanUpTo(rs, PythonObjects, PythonState, CMaps, Broken, Len(rs), g)
               /\ Python!Ran(rs) = g[Len(rs)]
  <2> HIDE DEF rs, Requests
  <2> QED  BY <1>4, PythonRanIs
<1>6. PythonObjects = running.objects /\ PythonState = running.process
  BY <1>1 DEF PythonObjects, PythonState
<1>7. RanUpTo(rs, running.objects, running.process, CMaps, Broken, Len(rs), f)
      /\ i \in 0 .. Len(rs) /\ Now = f[i]
  BY <1>3 DEF FollowsAt
<1>8. f[Len(rs)] = f[i]
  <2>1. Len(rs) \in Nat
    <3> HIDE DEF rs, Requests
    <3> QED  BY <1>4
  <2>2. CASE running.outcome = "done"
    <3>1. SubSeq(rs, i + 1, Len(rs)) = <<>>  BY <1>1, <1>3, <2>2 DEF FollowsAt
    <3> HIDE DEF rs, Requests
    <3>2. i \in Nat /\ i <= Len(rs)  BY <1>7, <2>1
    <3>3. i + 1 <= Len(rs) => Len(SubSeq(rs, i + 1, Len(rs))) # 0  BY <1>4, <2>1, <3>2
    <3>4. Len(SubSeq(rs, i + 1, Len(rs))) = 0
      <4> DEFINE t == SubSeq(rs, i + 1, Len(rs))
      <4>1. t = <<>>  BY <3>1
      <4> HIDE DEF t
      <4>2. Len(t) = 0  BY <4>1
      <4> QED  BY <4>2 DEF t
    <3>5. ~(i + 1 <= Len(rs))  BY <3>3, <3>4
    <3>6. i = Len(rs)  BY <2>1, <3>2, <3>5
    <3> QED  BY <3>6
  <2>3. CASE running.outcome # "done"
    <3>1. Now.outcome = running.outcome
      <4>1. IsCall(running, running.request, running.objects, running.process, running.created,
                   running.touched, running.missed, running.outcome, running.page)
        BY <1>2 DEF InRun, InCall, RunFields, IsCall
      <4>2. IsCall(Now, running.request, objects, process, running.created, running.touched,
                   running.missed, running.outcome, running.page)
        BY <4>1, CallWithTwo DEF Now
      <4> QED  BY <4>2, CallFields
    <3> HIDE DEF rs
    <3>2. f[i].outcome # "done"  BY <1>7, <2>3, <3>1
    <3> DEFINE os == running.objects p == running.process n == Len(rs) gone == Broken
    <3>3. RanUpTo(rs, os, p, CMaps, gone, n, f)  BY <1>7
    <3>4. n \in Nat /\ i \in 0 .. n  BY <1>7, <2>1
    <3> HIDE DEF os, p, n, gone
    <3>5. f[n] = f[i]  BY <3>2, <3>3, <3>4, RaisedIsLast
    <3> QED  BY <3>5 DEF n
  <2> QED  BY <2>2, <2>3
<1>9. f[Len(rs)] = g[Len(rs)]
  <2>1. Len(rs) \in Nat
    <3> HIDE DEF rs, Requests
    <3> QED  BY <1>4
  <2> HIDE DEF rs
  <2> QED  BY <1>5, <1>6, <1>7, <2>1, RanAgree
<1>10. /\ Now.objects = objects /\ Now.process = process
       /\ Now.outcome = running.outcome /\ Now.page = running.page
  <2>1. IsCall(running, running.request, running.objects, running.process, running.created,
               running.touched, running.missed, running.outcome, running.page)
    BY <1>2 DEF InRun, InCall, RunFields, IsCall
  <2>2. IsCall(Now, running.request, objects, process, running.created, running.touched,
               running.missed, running.outcome, running.page)
    BY <2>1, CallWithTwo DEF Now
  <2> QED  BY <2>2, CallFields
<1>11. rs \in RequestsOn(running.objects)  BY <1>1 DEF Followed
<1>12. Python!Ran(rs) = Now  BY <1>5, <1>7, <1>8, <1>9
<1> HIDE DEF rs
<1> QED  BY <1>1, <1>10, <1>11, <1>12

-----------------------------------------------------------------------------

(* Every step is one of Python's, or is not seen. *)

\* What JavaScript sees does not change.
SeenAlike ==
    /\ PythonObjects' = PythonObjects /\ PythonState' = PythonState
    /\ Broken' = Broken /\ answer' = answer

\* Then Python stands still.
LEMMA SeenAlikeStutters ==
    ASSUME SeenAlike
    PROVE  UNCHANGED Python!vars
BY DEF SeenAlike, Python!vars, PythonObjects, PythonState

\* The documents lost stay lost.
LEMMA BrokenAlike ==
    ASSUME DOMAIN flags' = DOMAIN flags,
           \A d \in DOMAIN flags : flags'[d].broken = flags[d].broken
    PROVE  Broken' = Broken
BY DEF Broken

\* Marking documents loses none.
LEMMA KeptBroken ==
    ASSUME CoreTypes
    PROVE  flags' = KeptFlags => Broken' = Broken
<1>1. \A d \in DOMAIN flags : KeptFlags[d].broken = flags[d].broken
  BY KeptFacts
<1>2. DOMAIN KeptFlags = DOMAIN flags  BY DEF KeptFlags
<1> QED  BY <1>1, <1>2 DEF Broken

\* Opening and freeing are Python's.
LEMMA OpenIsPythons ==
    ASSUME CoreSane, Open
    PROVE  \E h \in Handles : Python!Open(h)
<1> DEFINE h == Fresh(DOMAIN objects)
<1>1. /\ phase = "idle" /\ phase' = phase /\ ~ Handles \subseteq DOMAIN objects
      /\ objects' = With(objects, h, Document(h, <<Opening>>))
      /\ flags' = With(KeptFlags, h, [NoFlags EXCEPT !.unrecorded = Complete])
      /\ process' = process /\ answer' = Answer("done", 0)
  BY DEF Open, NewCall, callState
<1>2. CoreTypes  BY DEF CoreSane
<1>3. h \in Handles \ DOMAIN objects  BY <1>1, FreshIsFree
<1>4. Broken' = Broken
  <2>1. DOMAIN KeptFlags = DOMAIN flags  BY DEF KeptFlags
  <2>2. \A d \in DOMAIN flags : KeptFlags[d].broken = flags[d].broken  BY <1>2, KeptFacts
  <2>3. h \notin DOMAIN flags  BY <1>2, <1>3 DEF CoreTypes, DocumentsOf
  <2> HIDE DEF h
  <2>4. /\ DOMAIN flags' = DOMAIN KeptFlags \cup {h}
        /\ flags'[h].broken = FALSE
        /\ \A d \in DOMAIN KeptFlags : d # h => flags'[d] = KeptFlags[d]
    BY <1>1 DEF With, NoFlags
  <2> QED  BY <2>1, <2>2, <2>3, <2>4 DEF Broken
<1> HIDE DEF h
<1>5. Python!Open(h)
  <2>1. Python!With(objects, h, Python!Document(h, <<Python!Opening>>))
          = With(objects, h, Document(h, <<Opening>>))
    BY PythonTable
  <2> QED  BY <1>1, <1>3, <1>4, <2>1 DEF Python!Open, Python!Answer, Answer
<1> QED  BY <1>3, <1>5

\* ... and freeing an object.
LEMMA FreeIsPythons ==
    ASSUME CoreSane, NEW h \in Handles, Free(h)
    PROVE  Python!Free(h)
<1> DEFINE gone == FreedWith(objects, h)
<1>1. /\ phase = "idle" /\ phase' = phase /\ h \in DOMAIN objects
      /\ objects' = Without(objects, gone)
      /\ flags' = Without(KeptFlags, gone)
      /\ process' = process /\ answer' = Answer("done", 0)
  BY DEF Free, NewCall, callState
<1>2. CoreTypes  BY DEF CoreSane
<1>3. Broken' = Broken \ {h}
  <2>1. /\ DOMAIN KeptFlags = DOMAIN flags
        /\ \A d \in DOMAIN flags : KeptFlags[d].broken = flags[d].broken
    BY <1>2, KeptFacts DEF KeptFlags
  <2>2. DOMAIN flags = DocumentsOf(objects) /\ Table(objects)  BY <1>2 DEF CoreTypes
  <2>3. \A d \in DOMAIN flags : d \in gone <=> d = h
    <3>1. ASSUME NEW d \in DOMAIN flags  PROVE d \in gone <=> d = h
      <4>1. d \in DOMAIN objects /\ objects[d].kind = "document" /\ objects[d].doc = d
        BY <2>2 DEF DocumentsOf, Table
      <4>2. CASE objects[h].kind = "document"  BY <4>1, <4>2 DEF FreedWith
      <4>3. CASE objects[h].kind # "document"  BY <4>3 DEF FreedWith
      <4> QED  BY <4>2, <4>3
    <3> QED  BY <3>1
  <2> HIDE DEF gone
  <2>4. /\ DOMAIN flags' = DOMAIN KeptFlags \ gone
        /\ \A d \in DOMAIN flags' : flags'[d] = KeptFlags[d]
    BY <1>1 DEF Without
  <2> QED  BY <2>1, <2>3, <2>4 DEF Broken
<1>4. Python!Without(objects, Python!FreedWith(objects, h)) = Without(objects, gone)
  BY PythonTable
<1> HIDE DEF gone
<1> QED  BY <1>1, <1>3, <1>4 DEF Python!Free, Python!Answer, Answer

\* The end of a void call loses documents, or nothing is seen of it.
LEMMA EndVoidIsPythons ==
    ASSUME CoreSane, Rebuildable, EndVoid
    PROVE  \E ds \in SUBSET Handles : Python!Lose(ds)
<1>1. /\ phase = "replaying" /\ phase' = "idle" /\ process' = running.process
      /\ answer' = answer
  BY DEF EndVoid, js, ProcessBefore
<1>2. CoreTypes /\ InReplay  BY <1>1 DEF CoreSane
<1>3. PICK broken : Loses(broken)  BY EndVoidIs
<1>4. Broken' = Broken \cup broken  BY <1>2, <1>3, EndFlags DEF Loses
<1>5. running.touched \subseteq DocumentsOf(running.objects) /\ Table(running.objects)
  BY <1>2 DEF InReplay, InCall
<1>6. broken \subseteq DocumentsOf(running.objects) /\ broken \subseteq Handles
  BY <1>3, <1>5 DEF Loses, DocumentsOf, Table
<1>7. objects' = ResetAll(running.objects, broken)  BY <1>3 DEF Loses
<1>8. Python!ResetAll(running.objects, broken) = ResetAll(running.objects, broken)
      /\ Python!DocumentsOf(running.objects) = DocumentsOf(running.objects)
  BY PythonTable
<1>9. Python!Lose(broken)
  BY <1>1, <1>4, <1>6, <1>7, <1>8 DEF Python!Lose
<1> QED  BY <1>6, <1>9

\* A call that ends is Python's call.
LEMMA RespondIsPythonsCall ==
    ASSUME CoreSane, Followed, Respond
    PROVE  \E rs \in Python!RequestsOn(PythonObjects) : Python!Call(rs)
<1>1. /\ phase = "running" /\ phase' = "idle" /\ flags' = flags
  BY DEF Respond, documents
<1>2. PICK rs \in RequestsOn(running.objects) :
             /\ objects' = Python!Ran(rs).objects
             /\ process' = Python!Ran(rs).process
             /\ answer' = Answer(Python!Ran(rs).outcome, Python!Ran(rs).page)
  BY RespondIsPythons
<1>3. Broken' = Broken  BY <1>1 DEF Broken
<1>4. Python!Call(rs)
  BY <1>1, <1>2, <1>3 DEF Python!Call, Python!Answer, Answer
<1>5. Python!RequestsOn(PythonObjects) = RequestsOn(running.objects)
  BY <1>1, PythonRequests DEF PythonObjects
<1> QED  BY <1>2, <1>4, <1>5

\* The other steps are not seen.
LEMMA BeginIsNotSeen ==
    ASSUME CoreSane, NEW rs, Begin(rs)
    PROVE  SeenAlike
<1>1. /\ phase = "idle" /\ phase' = "running" /\ running' = Start(rs, objects, process)
      /\ flags' = KeptFlags /\ answer' = answer
  BY DEF Begin, js
<1>2. running'.objects = objects /\ running'.process = process  BY <1>1 DEF Start
<1>3. Broken' = Broken  BY <1>1, KeptBroken DEF CoreSane
<1> QED  BY <1>1, <1>2, <1>3 DEF SeenAlike, PythonObjects, PythonState

\* ... CMaps handed over,
LEMMA CMapsAreNotSeen ==
    ASSUME CoreSane,
           (\E c \in CMaps : AddCMap(c)) \/ (\E got \in SUBSET CMaps : HandOver(got)) \/ Abandon
    PROVE  SeenAlike
<1>1. /\ phase = "idle" /\ phase' = "idle" /\ objects' = objects /\ process' = process
      /\ answer' = answer
      /\ flags' = flags \/ flags' = KeptFlags
  BY DEF AddCMap, HandOver, Abandon, callState, documents, js
<1>2. Broken' = Broken
  <2>1. flags' = flags => Broken' = Broken  BY DEF Broken
  <2> QED  BY <1>1, <2>1, KeptBroken DEF CoreSane
<1> QED  BY <1>1, <1>2 DEF SeenAlike, PythonObjects, PythonState

\* ... and the operations of a call, a void one and its replay.
LEMMA RunIsNotSeen ==
    ASSUME CoreSane, Rebuildable, RunOp \/ Void \/ ReplayOpen \/ ReplayOp
    PROVE  SeenAlike
<1>1. /\ phase \in {"running", "replaying"} /\ phase' \in {"running", "replaying"}
      /\ answer' = answer
  BY DEF RunOp, Void, ReplayOpen, ReplayOp, js
<1>2. CoreTypes /\ InCall  BY <1>1 DEF CoreSane, InRun, InReplay
<1>3. flags \in [DocumentsOf(objects) -> Flags]  BY <1>2 DEF CoreTypes
<1>4. CASE RunOp
  <2>1. phase = "running"  BY <1>4 DEF RunOp
  <2>2. InRun  BY <2>1 DEF CoreSane
  <2> DEFINE Runs == /\ running'.objects = running.objects /\ running'.process = running.process
                     /\ flags' = flags \/ flags' = [flags EXCEPT ![OpDoc].unrecorded = TRUE]
  <2>3. Runs
    <3>1. CASE OpRefused  BY <3>1 DEF OpRefused, RunningAfter
    <3>2. ASSUME OpRan, NEW outcome, OpMakesNone(outcome)
          PROVE  Runs
      BY <3>2 DEF OpRan, OpMakesNone
    <3>3. ASSUME OpRan, OpMakesOne
          PROVE  Runs
      BY <3>3 DEF OpRan, OpMakesOne, RunningAfter
    <3> HIDE DEF Runs
    <3> QED  BY <1>2, <1>4, <2>2, <3>1, <3>2, <3>3, RunOpCases
  <2>4. DOMAIN flags' = DOMAIN flags  BY <2>3
  <2>5. \A d \in DOMAIN flags : flags'[d].broken = flags[d].broken
    <3>1. \A d \in DOMAIN flags : flags[d] \in Flags  BY <1>3
    <3> QED  BY <2>3, <3>1 DEF Flags
  <2> QED  BY <1>1, <2>3, <2>4, <2>5, BrokenAlike DEF SeenAlike, PythonObjects, PythonState
<1>5. CASE Void
  <2>1. /\ running' = [running EXCEPT !.missed = {}]
        /\ flags' = [d \in DOMAIN flags |->
                       IF d \in Reached THEN [flags[d] EXCEPT !.scanned = TRUE] ELSE flags[d]]
    BY <1>5 DEF Void
  <2>2. running'.objects = running.objects /\ running'.process = running.process
    BY <1>2, <2>1 DEF InCall, RunFields
  <2>3. DOMAIN flags' = DOMAIN flags  BY <2>1
  <2>4. \A d \in DOMAIN flags : flags'[d].broken = flags[d].broken
    BY <1>3, <2>1 DEF Flags
  <2> QED  BY <1>1, <2>2, <2>3, <2>4, BrokenAlike DEF SeenAlike, PythonObjects, PythonState
<1>6. CASE ReplayOpen
  <2>1. /\ phase = "replaying" /\ ~failed /\ replay # <<>> /\ running' = running
        /\ flags' = [flags EXCEPT ![Again.doc] = NoFlags]
    BY <1>6 DEF ReplayOpen, Again
  <2>2. running.touched \subseteq Recorded(flags)  BY <2>1 DEF Rebuildable, Rebuilt
  <2>3. InReplay  BY <2>1 DEF CoreSane
  <2>4. Again.doc \in running.touched  BY <1>2, <2>1, <2>3, AgainFacts
  <2>5. Again.doc \in DOMAIN flags /\ flags[Again.doc].broken = FALSE
    BY <1>3, <2>2, <2>4 DEF Recorded, Flags
  <2>6. DOMAIN flags' = DOMAIN flags  BY <2>1
  <2>7. \A d \in DOMAIN flags : flags'[d].broken = flags[d].broken
    BY <2>1, <2>5 DEF NoFlags
  <2> QED  BY <1>1, <2>1, <2>6, <2>7, BrokenAlike DEF SeenAlike, PythonObjects, PythonState
<1>7. CASE ReplayOp
  <2>1. /\ flags' = flags
        /\ running' = running \/ running' = [running EXCEPT !.missed = @ \cup AgainEffect.missed]
    BY <1>7, ReplayOpCases DEF AgainRefused, AgainRan
  <2>2. running'.objects = running.objects /\ running'.process = running.process
    BY <1>2, <2>1 DEF InCall, RunFields
  <2>3. Broken' = Broken  BY <2>1 DEF Broken
  <2> QED  BY <1>1, <2>2, <2>3 DEF SeenAlike, PythonObjects, PythonState
<1> QED  BY <1>4, <1>5, <1>6, <1>7

\* Every step is one of Python's, or is not seen.
LEMMA StepIsPythons ==
    ASSUME CoreSane, Rebuildable, Followed, [Next]_vars
    PROVE  [Python!Next]_(Python!vars)
<1>1. CASE Open
  <2>1. \E h \in Handles : Python!Open(h)  BY <1>1, OpenIsPythons
  <2> QED  BY <2>1 DEF Python!Next
<1>2. CASE \E h \in Handles : Free(h)
  <2>1. \E h \in Handles : Python!Free(h)  BY <1>2, FreeIsPythons
  <2> QED  BY <2>1 DEF Python!Next
<1>3. CASE EndVoid
  <2>1. \E ds \in SUBSET Handles : Python!Lose(ds)  BY <1>3, EndVoidIsPythons
  <2> QED  BY <2>1 DEF Python!Next
<1>4. CASE Respond
  <2>1. \E rs \in Python!RequestsOn(PythonObjects) : Python!Call(rs)
    BY <1>4, RespondIsPythonsCall
  <2> QED  BY <2>1 DEF Python!Next, PythonObjects
<1>5. CASE (\E rs \in RequestsOn(objects) : Call(rs)) \/ CallAgain
  <2>1. \E rs : Begin(rs)  BY <1>5 DEF Call, CallAgain
  <2>2. SeenAlike  BY <2>1, BeginIsNotSeen
  <2> QED  BY <2>2, SeenAlikeStutters
<1>6. CASE (\E c \in CMaps : AddCMap(c)) \/ (\E got \in SUBSET CMaps : HandOver(got)) \/ Abandon
  <2>1. SeenAlike  BY <1>6, CMapsAreNotSeen
  <2> QED  BY <2>1, SeenAlikeStutters
<1>7. CASE RunOp \/ Void \/ ReplayOpen \/ ReplayOp
  <2>1. SeenAlike  BY <1>7, RunIsNotSeen
  <2> QED  BY <2>1, SeenAlikeStutters
<1>8. CASE UNCHANGED vars
  <2>1. SeenAlike
    BY <1>8 DEF vars, documents, callState, js, SeenAlike, PythonObjects, PythonState, Broken
  <2> QED  BY <2>1, SeenAlikeStutters
<1> QED  BY <1>1, <1>2, <1>3, <1>4, <1>5, <1>6, <1>7, <1>8 DEF Next

\* THEOREM: what JavaScript sees of the core, its re-runs and replays included, is what one
\* Python process with every CMap shows (ImplementsPython; docs/js-runtime.md, "Void Calls
\* And Replay"): each step of the core is a call of Python, made whole, or is not seen.
THEOREM CoreImplementsPython == Spec => ImplementsPython
<1>1. Init => Python!Init
  BY DEF Init, Python!Init, Broken, Python!Answer, Answer
<1>2. Init => Followed  BY DEF Init, Followed, NoRequest
<1>3. CoreSane /\ Rebuildable /\ Followed /\ [Next]_vars => Followed'  BY FollowedStep
<1>4. CoreSane /\ Rebuildable /\ Followed /\ [Next]_vars => [Python!Next]_(Python!vars)
  BY StepIsPythons
<1> QED
  BY <1>1, <1>2, <1>3, <1>4, CoreIsSane, CoreIsRebuildable, PTL DEF Spec, ImplementsPython, Python!Spec

=============================================================================
