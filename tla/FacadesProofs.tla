----------------------------- MODULE FacadesProofs ----------------------------
(***************************************************************************)
(* Theorems about Facades for every text, payload, schema, ladder and      *)
(* number of callers, and their proofs.                                    *)
(*                                                                         *)
(* What a fill leaves is shown in three steps.  A text is sealed when no   *)
(* word is closed but in a hole and no brace stands next to one; a value   *)
(* is inert when it closes no word.  The splice of a hole by an inert      *)
(* value makes no hole and leaves a sealed text sealed (SpliceKeeps); a    *)
(* fill is such splices from right to left (FillSeals); a render is such   *)
(* fills one after the other (HolesLeft).  A value without braces is       *)
(* inert, and so is one that the prompt store has made neutral.            *)
(* Recursive functions are unfolded without induction over texts: the      *)
(* least case that went wrong would be one step from one that did not.     *)
(***************************************************************************)
EXTENDS Facades, SequenceTheorems, WellFoundedInduction, TLAPS

-----------------------------------------------------------------------------
\* Counting up, and down.

LEMMA Counting ==
  ASSUME NEW n \in Nat, NEW S, 0 \in S, \A i \in 0 .. n - 1 : i \in S => i + 1 \in S
  PROVE  \A i \in 0 .. n : i \in S
<1> SUFFICES ASSUME NEW j \in 0 .. n, j \notin S PROVE FALSE
  OBVIOUS
<1> DEFINE T == {i \in 0 .. n : i \notin S}
           R == OpToRel(<, Nat)
<1>1. IsWellFoundedOn(R, Nat)
  BY NatLessThanWellFounded
<1>2. \A x, y \in Nat : <<y, x>> \in R <=> y < x
  BY DEF OpToRel
<1>3. T \subseteq Nat /\ T # {}
  OBVIOUS
<1>4. \A x : x \in T <=> x \in 0 .. n /\ x \notin S
  OBVIOUS
<1> HIDE DEF T, R
<1>5. PICK x \in T : \A y \in T : ~ (<<y, x>> \in R)
  BY <1>1, <1>3, WFMin
<1>6. x \in 0 .. n /\ x \notin S
  BY <1>4, <1>5
<1>7. x # 0 /\ x - 1 \in 0 .. n - 1
  BY <1>6
<1>8. x - 1 \notin T
  <2>1. x - 1 \in Nat /\ x \in Nat /\ x - 1 < x
    BY <1>6, <1>7
  <2>2. <<x - 1, x>> \in R
    BY <1>2, <2>1
  <2> QED
    BY <1>5, <2>2
<1> QED
  BY <1>4, <1>6, <1>7, <1>8

LEMMA Downward ==
  ASSUME NEW n \in Nat, NEW S, n + 1 \in S,
         \A j \in 1 .. n : (\A i \in j + 1 .. n + 1 : i \in S) => j \in S
  PROVE  \A i \in 1 .. n + 1 : i \in S
<1> DEFINE F == {k \in Nat : \A l \in 0 .. k : n + 1 - l \in S}
<1>1. 0 \in F
  OBVIOUS
<1>2. ASSUME NEW k \in 0 .. n - 1, k \in F PROVE k + 1 \in F
  <2>1. n - k \in 1 .. n
    OBVIOUS
  <2>2. \A i \in (n - k) + 1 .. n + 1 : i \in S
    <3> TAKE i \in (n - k) + 1 .. n + 1
    <3>1. n + 1 - i \in 0 .. k /\ n + 1 - (n + 1 - i) = i
      OBVIOUS
    <3> QED
      BY <1>2, <3>1
  <2>3. n - k \in S
    BY <2>1, <2>2
  <2>4. ASSUME NEW l \in 0 .. k + 1 PROVE n + 1 - l \in S
    <3>1. CASE l \in 0 .. k
      BY <1>2, <3>1
    <3>2. CASE l = k + 1
      <4>1. n + 1 - l = n - k
        BY <3>2
      <4> QED
        BY <2>3, <4>1
    <3> QED
      BY <3>1, <3>2
  <2> QED
    BY <2>4
<1> HIDE DEF F
<1>3. \A i \in 0 .. n : i \in F
  BY <1>1, <1>2, Counting
<1>4. ASSUME NEW i \in 1 .. n + 1 PROVE i \in S
  <2>1. n \in 0 .. n /\ n + 1 - i \in 0 .. n /\ n + 1 - (n + 1 - i) = i
    OBVIOUS
  <2> QED
    BY <1>3, <2>1 DEF F
<1> QED
  BY <1>4

LEMMA HoleIs ==
  ASSUME NEW w \in Texts, NEW d \in {1, 2}, NEW h \in Holes(w, d)
  PROVE  /\ h = <<h[1], h[2]>> /\ h[1] \in 1 .. Len(w) /\ h[2] \in 1 .. Len(w)
         /\ h[1] \in Nat /\ h[2] \in Nat /\ Len(w) \in Nat
         /\ h[1] + 2 * d <= h[2]
         /\ \A k \in h[1] .. h[1] + d - 1 : w[k] = Open
         /\ \A k \in h[1] + d .. h[2] - d : w[k] \in Words
         /\ \A k \in h[2] - d + 1 .. h[2] : w[k] = Close
<1>1. DOMAIN w = 1 .. Len(w) /\ Len(w) \in Nat
  BY LenProperties DEF Texts
<1>2. h \in (1 .. Len(w)) \X (1 .. Len(w)) /\ IsHole(w, h, d)
  BY <1>1 DEF Holes
<1>3. h[1] \in 1 .. Len(w) /\ h[2] \in 1 .. Len(w) /\ h = <<h[1], h[2]>>
  BY <1>2
<1>4. h[1] \in Nat /\ h[2] \in Nat
  BY <1>3
<1> QED
  BY <1>1, <1>2, <1>3, <1>4 DEF IsHole

LEMMA IsAHole ==
  ASSUME NEW w \in Texts, NEW d \in {1, 2}, NEW i \in 1 .. Len(w), NEW j \in 1 .. Len(w),
         i + 2 * d <= j,
         \A k \in i .. i + d - 1 : w[k] = Open,
         \A k \in i + d .. j - d : w[k] \in Words,
         \A k \in j - d + 1 .. j : w[k] = Close
  PROVE  <<i, j>> \in Holes(w, d)
<1>1. DOMAIN w = 1 .. Len(w) /\ Len(w) \in Nat
  BY LenProperties DEF Texts
<1>2. <<i, j>> \in (1 .. Len(w)) \X (1 .. Len(w)) /\ <<i, j>>[1] = i /\ <<i, j>>[2] = j
  OBVIOUS
<1>3. IsHole(w, <<i, j>>, d)
  BY <1>2 DEF IsHole
<1> QED
  BY <1>1, <1>2, <1>3 DEF Holes

LEMMA TokensApart ==
  /\ Open # Close /\ Open \notin Words /\ Close \notin Words
  /\ Blank # Open /\ Blank # Close /\ Blank \notin Words
  /\ Open \in Tokens /\ Close \in Tokens /\ Blank \in Tokens
  BY TokensAssumption DEF Open, Close, Blank, Braces, Tokens

\* Two holes that end together are one.
LEMMA OneHoleEnds ==
  ASSUME NEW w \in Texts, NEW d \in {1, 2}, NEW g \in Holes(w, d), NEW h \in Holes(w, d),
         g[2] = h[2]
  PROVE  g = h
<1>1. ASSUME NEW a \in Holes(w, d), NEW b \in Holes(w, d), a[2] = b[2] PROVE ~ (a[1] < b[1])
  <2> SUFFICES ASSUME a[1] < b[1] PROVE FALSE
    OBVIOUS
  <2>1. /\ a[1] \in Nat /\ b[1] \in Nat /\ a[2] \in Nat /\ b[2] \in Nat
        /\ a[1] + 2 * d <= a[2] /\ b[1] + 2 * d <= b[2]
        /\ \A k \in a[1] + d .. a[2] - d : w[k] \in Words
        /\ \A k \in b[1] .. b[1] + d - 1 : w[k] = Open
    BY HoleIs
  <2>2. b[1] + d - 1 \in a[1] + d .. a[2] - d /\ b[1] + d - 1 \in b[1] .. b[1] + d - 1
    BY <1>1, <2>1
  <2> QED
    BY <2>1, <2>2, TokensApart
<1>2. /\ g[1] \in Nat /\ h[1] \in Nat /\ g = <<g[1], g[2]>> /\ h = <<h[1], h[2]>>
  BY HoleIs
<1>3. g[1] = h[1]
  BY <1>1, <1>2
<1> QED
  BY <1>2, <1>3

\* Closing braces of a hole's width, and those that follow a word.
ClosesAt(w, j, d) == j \in 1 .. Len(w) - d + 1 /\ \A k \in j .. j + d - 1 : w[k] = Close
EndsWord(w, j, d) == ClosesAt(w, j, d) /\ j > 1 /\ w[j - 1] \in Words

\* A word is closed only by a hole, and no brace stands next to a hole.
Sealed(w, d) ==
  /\ \A j \in Nat : EndsWord(w, j, d) => \E h \in Holes(w, d) : h[2] = j + d - 1
  /\ \A h \in Holes(w, d) : /\ h[1] > 1 => w[h[1] - 1] \notin Braces
                            /\ h[2] < Len(w) => w[h[2] + 1] \notin Braces

\* A value that closes no word, its own or one before it.
Inert(v, d) == \A j \in Nat : ClosesAt(v, j, d) => j > 1 /\ v[j - 1] \notin Words

\* x is w with v for the m tokens after the first i.
Spliced(w, x, i, m, v) ==
  /\ Len(x) = Len(w) - m + Len(v)
  /\ \A k \in 1 .. i : x[k] = w[k]
  /\ \A k \in 1 .. Len(v) : x[i + k] = v[k]
  /\ \A k \in i + m + 1 .. Len(w) : x[k - m + Len(v)] = w[k]

LEMMA HoleEndsWord ==
  ASSUME NEW w \in Texts, NEW d \in {1, 2}, NEW h \in Holes(w, d)
  PROVE  EndsWord(w, h[2] - d + 1, d) /\ h[2] - d + 1 \in Nat
<1>1. /\ h[1] \in 1 .. Len(w) /\ h[2] \in 1 .. Len(w) /\ Len(w) \in Nat
      /\ h[1] + 2 * d <= h[2]
      /\ \A k \in h[1] + d .. h[2] - d : w[k] \in Words
      /\ \A k \in h[2] - d + 1 .. h[2] : w[k] = Close
  BY HoleIs
<1>2. h[2] - d \in h[1] + d .. h[2] - d /\ h[2] - d + 1 > 1
      /\ h[2] - d + 1 \in 1 .. Len(w) - d + 1 /\ (h[2] - d + 1) - 1 = h[2] - d
      /\ (h[2] - d + 1) + d - 1 = h[2]
  BY <1>1
<1>3. w[(h[2] - d + 1) - 1] \in Words
  BY <1>1, <1>2
<1>4. \A k \in h[2] - d + 1 .. (h[2] - d + 1) + d - 1 : w[k] = Close
  BY <1>1, <1>2
<1>5. h[2] - d + 1 \in Nat
  BY <1>1, <1>2
<1> QED
  BY <1>2, <1>3, <1>4, <1>5 DEF EndsWord, ClosesAt

\* What a splice of a hole by an inert value leaves: the words closed in it are closed
\* before the hole, or behind it.
LEMMA SplicedEnds ==
  ASSUME NEW w \in Texts, NEW x \in Texts, NEW v \in Texts, NEW d \in {1, 2}, Sealed(w, d),
         NEW i \in Nat, NEW m \in Nat, <<i + 1, i + m>> \in Holes(w, d), Inert(v, d),
         Spliced(w, x, i, m, v), NEW j \in Nat, EndsWord(x, j, d)
  PROVE  \/ j + d - 1 <= i /\ EndsWord(w, j, d)
         \/ j > i + Len(v) + 1 /\ EndsWord(w, j + m - Len(v), d)
<1>1. PICK q \in Nat : q = Len(v)
  BY LenProperties DEF Texts
<1>2. /\ Len(w) \in Nat /\ Len(x) \in Nat /\ i + m <= Len(w) /\ m >= 3
  <2>1. <<i + 1, i + m>>[1] = i + 1 /\ <<i + 1, i + m>>[2] = i + m
    OBVIOUS
  <2>2. (i + 1) + 2 * d <= i + m /\ i + m \in 1 .. Len(w) /\ Len(w) \in Nat
    BY <2>1, HoleIs
  <2>3. m >= 3
    BY <2>2
  <2> QED
    BY <2>2, <2>3, LenProperties DEF Texts
<1>3. /\ Len(x) = Len(w) - m + q
      /\ \A k \in 1 .. i : x[k] = w[k]
      /\ \A k \in 1 .. q : x[i + k] = v[k]
      /\ \A k \in i + m + 1 .. Len(w) : x[k - m + q] = w[k]
  BY <1>1 DEF Spliced
<1>4. /\ j \in 1 .. Len(x) - d + 1 /\ \A k \in j .. j + d - 1 : x[k] = Close
      /\ j > 1 /\ x[j - 1] \in Words
  BY DEF EndsWord, ClosesAt
<1>5. /\ i > 0 => w[i] \notin Braces
      /\ i + m < Len(w) => w[i + m + 1] \notin Braces
  <2>1. <<i + 1, i + m>>[1] = i + 1 /\ <<i + 1, i + m>>[2] = i + m
    OBVIOUS
  <2>2. /\ i + 1 > 1 => w[(i + 1) - 1] \notin Braces
        /\ i + m < Len(w) => w[(i + m) + 1] \notin Braces
    BY <2>1 DEF Sealed
  <2>3. (i + 1) - 1 = i
    OBVIOUS
  <2> QED
    BY <2>2, <2>3
<1>6. /\ i > 0 => x[i] # Close
      /\ i + q < Len(x) => x[i + q + 1] # Close
  <2>1. i > 0 => x[i] = w[i]
    <3>1. i > 0 => i \in 1 .. i
      OBVIOUS
    <3> QED
      BY <1>3, <3>1
  <2>2. i + q < Len(x) => i + m + 1 \in i + m + 1 .. Len(w) /\ (i + m + 1) - m + q = i + q + 1
    BY <1>2, <1>3
  <2>3. i + q < Len(x) => x[i + q + 1] = w[i + m + 1]
    <3>1. i + q < Len(x) => x[(i + m + 1) - m + q] = w[i + m + 1]
      BY <1>3, <2>2
    <3> QED
      BY <2>2, <3>1
  <2>4. i + q < Len(x) => i + m < Len(w)
    BY <1>2, <1>3
  <2> QED
    BY <1>5, <2>1, <2>3, <2>4 DEF Braces
<1>7. \A k \in i + q + 1 .. Len(x) : x[k] = w[k + m - q]
  <2>1. TAKE k \in i + q + 1 .. Len(x)
  <2>2. k + m - q \in i + m + 1 .. Len(w) /\ (k + m - q) - m + q = k
    BY <1>1, <1>2, <1>3
  <2>3. x[(k + m - q) - m + q] = w[k + m - q]
    BY <1>3, <2>2
  <2> QED
    BY <2>2, <2>3
<1>8. CASE j <= i
  <2>1. j + d - 1 <= i
    <3> SUFFICES ASSUME j + d - 1 > i PROVE FALSE
      BY <1>2
    <3>1. i \in j .. j + d - 1 /\ i > 0
      BY <1>4, <1>8
    <3> QED
      BY <1>4, <1>6, <3>1
  <2>2. w[j - 1] \in Words
    BY <1>2, <1>3, <1>4, <1>8
  <2>3. ASSUME NEW k \in j .. j + d - 1 PROVE w[k] = Close
    <3>1. k \in 1 .. i
      BY <1>4, <2>1
    <3> QED
      BY <1>3, <1>4, <3>1
  <2>4. j \in 1 .. Len(w) - d + 1
    BY <1>1, <1>2, <2>1, <1>4
  <2> QED
    BY <1>4, <2>1, <2>2, <2>3, <2>4 DEF EndsWord, ClosesAt
<1>9. CASE j > i /\ j <= i + q
  <2>1. j + d - 1 <= i + q
    <3> SUFFICES ASSUME j + d - 1 > i + q PROVE FALSE
      BY <1>1, <1>2
    <3>1. i + q + 1 \in j .. j + d - 1 /\ i + q < Len(x)
      BY <1>1, <1>2, <1>4, <1>9
    <3> QED
      BY <1>4, <1>6, <3>1
  <2>2. j - i \in Nat /\ j - i \in 1 .. q - d + 1
    BY <1>1, <1>2, <1>9, <2>1
  <2>3. ASSUME NEW k \in j - i .. (j - i) + d - 1 PROVE v[k] = Close
    <3>1. k \in 1 .. q /\ i + k \in j .. j + d - 1
      BY <1>1, <1>2, <2>1, <2>2
    <3> QED
      BY <1>3, <1>4, <3>1
  <2>4. ClosesAt(v, j - i, d)
    BY <1>1, <2>2, <2>3 DEF ClosesAt
  <2>5. j - i > 1 /\ v[(j - i) - 1] \notin Words
    BY <2>2, <2>4 DEF Inert
  <2>6. (j - i) - 1 \in 1 .. q /\ i + ((j - i) - 1) = j - 1
    BY <1>1, <1>2, <2>2, <2>5
  <2>7. x[j - 1] = v[(j - i) - 1]
    <3>1. x[i + ((j - i) - 1)] = v[(j - i) - 1]
      BY <1>3, <2>6
    <3> QED
      BY <2>6, <3>1
  <2> QED
    BY <1>4, <2>5, <2>7
<1>10. CASE j > i + q
  <2>1. j # i + q + 1
    <3> SUFFICES ASSUME j = i + q + 1 PROVE FALSE
      OBVIOUS
    <3>1. j \in j .. j + d - 1 /\ i + q < Len(x)
      BY <1>1, <1>2, <1>4
    <3> QED
      BY <1>4, <1>6, <3>1
  <2>2. j - 1 \in i + q + 1 .. Len(x)
    BY <1>1, <1>2, <1>4, <1>10, <2>1
  <2>3. w[(j - 1) + m - q] \in Words /\ (j - 1) + m - q = (j + m - q) - 1
    <3>1. x[j - 1] = w[(j - 1) + m - q]
      BY <1>7, <2>2
    <3> QED
      BY <1>1, <1>2, <1>4, <3>1
  <2>4. ASSUME NEW k \in j + m - q .. (j + m - q) + d - 1 PROVE w[k] = Close
    <3>1. k - m + q \in j .. j + d - 1 /\ k - m + q \in i + q + 1 .. Len(x)
          /\ (k - m + q) + m - q = k
      BY <1>1, <1>2, <1>4, <1>10
    <3>2. x[k - m + q] = Close /\ x[k - m + q] = w[(k - m + q) + m - q]
      BY <1>4, <1>7, <3>1
    <3> QED
      BY <3>1, <3>2
  <2>5. j + m - q \in 1 .. Len(w) - d + 1 /\ j + m - q > 1 /\ j > i + q + 1
    BY <1>1, <1>2, <1>3, <1>4, <1>10, <2>1
  <2>6. EndsWord(w, j + m - q, d)
    BY <2>3, <2>4, <2>5 DEF EndsWord, ClosesAt
  <2> QED
    BY <1>1, <2>5, <2>6
<1> QED
  BY <1>1, <1>2, <1>4, <1>8, <1>9, <1>10

LEMMA SameSubSeq ==
  ASSUME NEW S, NEW x, NEW w, NEW a \in Int, NEW b \in Int, NEW s \in Int,
         \A k \in a .. b : x[k] \in S /\ x[k] = w[k - s]
  PROVE  SubSeq(x, a, b) = SubSeq(w, a - s, b - s)
<1>1. \A k \in a - s .. b - s : w[k] \in S
  <2>1. TAKE k \in a - s .. b - s
  <2>2. k + s \in a .. b /\ (k + s) - s = k
    OBVIOUS
  <2> QED
    BY <2>2
<1> DEFINE p == SubSeq(x, a, b)
           q == SubSeq(w, a - s, b - s)
<1>2. /\ p \in Seq(S) /\ Len(p) = IF a <= b THEN b - a + 1 ELSE 0
      /\ \A k \in 1 .. b - a + 1 : p[k] = x[a + k - 1]
  BY SubSeqProperties
<1>3. a - s \in Int /\ b - s \in Int /\ (b - s) - (a - s) + 1 = b - a + 1
      /\ (a - s <= b - s <=> a <= b)
  OBVIOUS
<1>4. /\ q \in Seq(S) /\ Len(q) = IF a - s <= b - s THEN (b - s) - (a - s) + 1 ELSE 0
      /\ \A k \in 1 .. (b - s) - (a - s) + 1 : q[k] = w[(a - s) + k - 1]
  BY <1>1, <1>3, SubSeqProperties
<1> HIDE DEF p, q
<1>5. Len(p) = Len(q)
  BY <1>2, <1>3, <1>4
<1>6. ASSUME NEW k \in 1 .. Len(p) PROVE p[k] = q[k]
  <2>1. k \in 1 .. b - a + 1 /\ a + k - 1 \in a .. b /\ (a + k - 1) - s = (a - s) + k - 1
    BY <1>2
  <2> QED
    BY <1>2, <1>3, <1>4, <2>1
<1>7. p = q
  BY <1>2, <1>4, <1>5, <1>6, SeqEqual
<1> QED
  BY <1>7 DEF p, q

\* The tokens a .. b of w are s further on in x.
Moved(w, x, a, b, s) == \A k \in a .. b : x[k + s] = w[k]

\* A hole is one still where its tokens have moved to.
LEMMA HolesMove ==
  ASSUME NEW w \in Texts, NEW x \in Texts, NEW d \in {1, 2}, NEW a \in Nat, NEW b \in Nat,
         <<a, b>> \in Holes(w, d), NEW s \in Int, a + s >= 1, b + s <= Len(x),
         Moved(w, x, a, b, s)
  PROVE  /\ <<a + s, b + s>> \in Holes(x, d)
         /\ NameAt(x, <<a + s, b + s>>, d) = NameAt(w, <<a, b>>, d)
<1>1. /\ a + 2 * d <= b /\ Len(x) \in Nat /\ d \in Nat /\ d >= 1
      /\ \A k \in a .. a + d - 1 : w[k] = Open
      /\ \A k \in a + d .. b - d : w[k] \in Words
      /\ \A k \in b - d + 1 .. b : w[k] = Close
  <2>1. <<a, b>>[1] = a /\ <<a, b>>[2] = b
    OBVIOUS
  <2> QED
    BY <2>1, HoleIs, LenProperties DEF Texts
<1>2. PICK i \in Int, j \in Int : i = a + s /\ j = b + s
  OBVIOUS
<1>3. i \in 1 .. Len(x) /\ j \in 1 .. Len(x) /\ i + 2 * d <= j
  BY <1>1, <1>2
<1>4. \A k \in i .. j : x[k] = w[k - s]
  <2>1. TAKE k \in i .. j
  <2>2. k - s \in a .. b /\ (k - s) + s = k
    BY <1>1, <1>2
  <2>3. x[(k - s) + s] = w[k - s]
    BY <2>2 DEF Moved
  <2> QED
    BY <2>2, <2>3
<1>5. ASSUME NEW k \in i .. i + d - 1 PROVE x[k] = Open
  <2>1. k \in i .. j /\ k - s \in a .. a + d - 1
    BY <1>1, <1>2
  <2> QED
    BY <1>1, <1>4, <2>1
<1>6. ASSUME NEW k \in i + d .. j - d PROVE x[k] \in Words /\ x[k] = w[k - s]
  <2>1. k \in i .. j /\ k - s \in a + d .. b - d
    BY <1>1, <1>2
  <2> QED
    BY <1>1, <1>4, <2>1
<1>7. ASSUME NEW k \in j - d + 1 .. j PROVE x[k] = Close
  <2>1. k \in i .. j /\ k - s \in b - d + 1 .. b
    BY <1>1, <1>2
  <2> QED
    BY <1>1, <1>4, <2>1
<1>8. <<i, j>> \in Holes(x, d)
  BY <1>3, <1>5, <1>6, <1>7, IsAHole
<1>9. NameAt(x, <<i, j>>, d) = NameAt(w, <<a, b>>, d)
  <2>1. /\ i + d \in Int /\ j - d \in Int /\ (i + d) - s = a + d /\ (j - d) - s = b - d
    BY <1>1, <1>2
  <2>2. PICK lo \in Int, hi \in Int : lo = i + d /\ hi = j - d
    BY <2>1
  <2>3. \A k \in lo .. hi : x[k] \in Words /\ x[k] = w[k - s]
    BY <1>6, <2>2
  <2>4. SubSeq(x, lo, hi) = SubSeq(w, lo - s, hi - s)
    BY <2>3, SameSubSeq
  <2> QED
    BY <2>1, <2>2, <2>4 DEF NameAt
<1> QED
  BY <1>2, <1>8, <1>9

\* The splice of a hole by an inert value makes no hole and seals again: every hole is
\* one that was, before the hole that went or behind it, with its name.
LEMMA SpliceKeeps ==
  ASSUME NEW w \in Texts, NEW x \in Texts, NEW v \in Texts, NEW d \in {1, 2}, Sealed(w, d),
         NEW i \in Nat, NEW m \in Nat, <<i + 1, i + m>> \in Holes(w, d), Inert(v, d),
         Spliced(w, x, i, m, v)
  PROVE  /\ Sealed(x, d)
         /\ \A h \in Holes(x, d) :
              \/ /\ h[2] <= i /\ h \in Holes(w, d)
                 /\ NameAt(x, h, d) = NameAt(w, h, d)
              \/ /\ h[1] > i + Len(v)
                 /\ \E g \in Holes(w, d) : /\ g[1] = h[1] + m - Len(v)
                                           /\ NameAt(x, h, d) = NameAt(w, g, d)
<1>1. PICK q \in Nat : q = Len(v)
  BY LenProperties DEF Texts
<1>2. /\ Len(w) \in Nat /\ Len(x) \in Nat /\ i + m <= Len(w) /\ m >= 3
      /\ w[i + m] = Close
  <2>1. <<i + 1, i + m>>[1] = i + 1 /\ <<i + 1, i + m>>[2] = i + m
    OBVIOUS
  <2>2. /\ (i + 1) + 2 * d <= i + m /\ i + m \in 1 .. Len(w) /\ Len(w) \in Nat
        /\ \A k \in (i + m) - d + 1 .. i + m : w[k] = Close
    BY <2>1, HoleIs
  <2>3. m >= 3 /\ i + m \in (i + m) - d + 1 .. i + m
    BY <2>2
  <2> QED
    BY <2>2, <2>3, LenProperties DEF Texts
<1>3. /\ Len(x) = Len(w) - m + q
      /\ \A k \in 1 .. i : x[k] = w[k]
      /\ \A k \in i + m + 1 .. Len(w) : x[k - m + q] = w[k]
  BY <1>1 DEF Spliced
<1>4. /\ i > 0 => w[i] \notin Braces
      /\ i + m < Len(w) => w[i + m + 1] \notin Braces
  <2>1. <<i + 1, i + m>>[1] = i + 1 /\ <<i + 1, i + m>>[2] = i + m
    OBVIOUS
  <2>2. /\ i + 1 > 1 => w[(i + 1) - 1] \notin Braces
        /\ i + m < Len(w) => w[(i + m) + 1] \notin Braces
    BY <2>1 DEF Sealed
  <2>3. (i + 1) - 1 = i
    OBVIOUS
  <2> QED
    BY <2>2, <2>3
<1>5. \A h \in Holes(w, d) : /\ h = <<h[1], h[2]>> /\ h[1] \in Nat /\ h[2] \in Nat
                              /\ 1 <= h[1] /\ h[1] + 2 * d <= h[2] /\ h[2] <= Len(w)
  BY HoleIs
<1>6. ASSUME NEW a \in Nat, NEW b \in Nat, <<a, b>> \in Holes(w, d), b <= i
      PROVE  <<a, b>> \in Holes(x, d) /\ NameAt(x, <<a, b>>, d) = NameAt(w, <<a, b>>, d)
  <2>1. 1 <= a
    <3>1. <<a, b>>[1] = a
      OBVIOUS
    <3> QED
      BY <1>5, <1>6, <3>1
  <2>2. PICK s \in Int : s = 0
    OBVIOUS
  <2>3. Moved(w, x, a, b, s)
    <3> SUFFICES ASSUME NEW k \in a .. b PROVE x[k + s] = w[k]
      BY DEF Moved
    <3>2. k \in 1 .. i /\ k + s = k
      BY <1>6, <2>1, <2>2
    <3> QED
      BY <1>3, <3>2
  <2>4. a + s >= 1 /\ b + s <= Len(x) /\ a + s = a /\ b + s = b
    BY <1>2, <1>3, <1>6, <2>1, <2>2
  <2>5. /\ <<a + s, b + s>> \in Holes(x, d)
        /\ NameAt(x, <<a + s, b + s>>, d) = NameAt(w, <<a, b>>, d)
    BY <1>6, <2>3, <2>4, HolesMove
  <2> QED
    BY <2>4, <2>5
<1>7. ASSUME NEW a \in Nat, NEW b \in Nat, <<a, b>> \in Holes(w, d), a > i + m
      PROVE  /\ <<a + (q - m), b + (q - m)>> \in Holes(x, d)
             /\ NameAt(x, <<a + (q - m), b + (q - m)>>, d) = NameAt(w, <<a, b>>, d)
  <2>1. 1 <= a /\ b <= Len(w)
    <3>1. <<a, b>>[1] = a /\ <<a, b>>[2] = b
      OBVIOUS
    <3> QED
      BY <1>5, <1>7, <3>1
  <2>2. PICK s \in Int : s = q - m
    OBVIOUS
  <2>3. Moved(w, x, a, b, s)
    <3> SUFFICES ASSUME NEW k \in a .. b PROVE x[k + s] = w[k]
      BY DEF Moved
    <3>2. k \in i + m + 1 .. Len(w) /\ k + s = k - m + q
      BY <1>2, <1>7, <2>1, <2>2
    <3> QED
      BY <1>3, <3>2
  <2>4. a + s >= 1 /\ b + s <= Len(x)
    BY <1>2, <1>3, <1>7, <2>1, <2>2
  <2>5. /\ <<a + s, b + s>> \in Holes(x, d)
        /\ NameAt(x, <<a + s, b + s>>, d) = NameAt(w, <<a, b>>, d)
    BY <1>7, <2>3, <2>4, HolesMove
  <2> QED
    BY <2>2, <2>5
\* Every hole is behind or before.
<1>8. ASSUME NEW a \in Nat, NEW b \in Nat, <<a, b>> \in Holes(x, d)
      PROVE  \/ b <= i /\ <<a, b>> \in Holes(w, d)
             \/ /\ a > i + q /\ a + (m - q) > i + m /\ a + (m - q) \in Nat /\ b + (m - q) \in Nat
                /\ <<a + (m - q), b + (m - q)>> \in Holes(w, d)
  <2>1. <<a, b>>[1] = a /\ <<a, b>>[2] = b
    OBVIOUS
  <2>2. EndsWord(x, b - d + 1, d) /\ b - d + 1 \in Nat
    BY <1>8, <2>1, HoleEndsWord
  <2>3. PICK j \in Nat : j = b - d + 1
    BY <2>2
  <2>4. EndsWord(x, j, d) /\ b = j + d - 1 /\ d \in Nat
    BY <2>2, <2>3
  <2>5. \/ j + d - 1 <= i /\ EndsWord(w, j, d)
        \/ j > i + q + 1 /\ EndsWord(w, j + m - q, d)
    BY <1>1, <2>4, SplicedEnds
  <2>6. CASE j + d - 1 <= i /\ EndsWord(w, j, d)
    <3>1. PICK g \in Holes(w, d) : g[2] = j + d - 1
      BY <2>6 DEF Sealed
    <3>2. PICK e \in Nat : g = <<e, b>>
      BY <1>5, <2>4, <3>1
    <3>3. <<e, b>> \in Holes(x, d) /\ <<e, b>>[2] = b
      BY <1>6, <2>4, <2>6, <3>1, <3>2
    <3>4. <<e, b>> = <<a, b>>
      BY <1>8, <2>1, <3>3, OneHoleEnds
    <3> QED
      BY <2>4, <2>6, <3>1, <3>2, <3>4
  <2>7. CASE j > i + q + 1 /\ EndsWord(w, j + m - q, d)
    <3>1. j + m - q \in Nat
      BY <1>2, <2>7
    <3>2. PICK g \in Holes(w, d) : g[2] = (j + m - q) + d - 1
      BY <2>7, <3>1 DEF Sealed
    <3>3. PICK e \in Nat, f \in Nat : g = <<e, f>> /\ f = (j + m - q) + d - 1 /\ e + 2 * d <= f
      BY <1>5, <3>2
    <3>4. /\ <<e, f>>[1] = e /\ <<e, f>>[2] = f
      OBVIOUS
    <3>5. /\ \A k \in e .. e + d - 1 : w[k] = Open
          /\ \A k \in e + d .. f - d : w[k] \in Words
      BY <3>2, <3>3, <3>4, HoleIs
    <3>6. i + m <= f - d
      BY <1>2, <2>4, <2>7, <3>3
    <3>7. e > i + m
      <4> SUFFICES ASSUME e <= i + m PROVE FALSE
        BY <3>3
      <4>1. i + m \in e .. e + d - 1 \/ i + m \in e + d .. f - d
        BY <2>4, <3>3, <3>6
      <4> QED
        BY <1>2, <3>5, <4>1, TokensApart
    <3>8. <<e + (q - m), f + (q - m)>> \in Holes(x, d)
      BY <1>7, <3>2, <3>3, <3>7
    <3>9. f + (q - m) = b /\ <<e + (q - m), f + (q - m)>>[2] = f + (q - m)
      BY <1>2, <2>4, <3>3
    <3>10. <<e + (q - m), f + (q - m)>> = <<a, b>>
      BY <1>8, <2>1, <3>8, <3>9, OneHoleEnds
    <3>11. a = e + (q - m) /\ b = f + (q - m)
      BY <3>10
    <3>12. a + (m - q) = e /\ b + (m - q) = f /\ a > i + q
      BY <1>2, <3>7, <3>11
    <3> QED
      BY <3>2, <3>3, <3>7, <3>12
  <2> QED
    BY <2>5, <2>6, <2>7
<1>9. ASSUME NEW h \in Holes(x, d)
      PROVE  \/ /\ h[2] <= i /\ h \in Holes(w, d)
                /\ NameAt(x, h, d) = NameAt(w, h, d)
             \/ /\ h[1] > i + Len(v)
                /\ \E g \in Holes(w, d) : /\ g[1] = h[1] + m - Len(v)
                                          /\ NameAt(x, h, d) = NameAt(w, g, d)
  <2>1. PICK a \in Nat, b \in Nat : h = <<a, b>> /\ h[1] = a /\ h[2] = b
    BY HoleIs
  <2>2. CASE b <= i /\ <<a, b>> \in Holes(w, d)
    BY <1>6, <2>1, <2>2
  <2>3. CASE /\ a > i + q /\ a + (m - q) > i + m /\ a + (m - q) \in Nat /\ b + (m - q) \in Nat
             /\ <<a + (m - q), b + (m - q)>> \in Holes(w, d)
    <3>1. PICK e \in Nat, f \in Nat : e = a + (m - q) /\ f = b + (m - q)
      BY <2>3
    <3>2. NameAt(x, <<e + (q - m), f + (q - m)>>, d) = NameAt(w, <<e, f>>, d)
      BY <1>7, <2>3, <3>1
    <3>3. e + (q - m) = a /\ f + (q - m) = b /\ e = a + m - q
      BY <3>1
    <3>4. <<e, f>> \in Holes(w, d) /\ <<e, f>>[1] = e
      BY <2>3, <3>1
    <3> QED
      BY <1>1, <2>1, <2>3, <3>2, <3>3, <3>4
  <2> QED
    BY <1>8, <2>1, <2>2, <2>3
<1>10. ASSUME NEW j \in Nat, EndsWord(x, j, d) PROVE \E h \in Holes(x, d) : h[2] = j + d - 1
  <2>1. \/ j + d - 1 <= i /\ EndsWord(w, j, d)
        \/ j > i + q + 1 /\ EndsWord(w, j + m - q, d)
    BY <1>1, <1>10, SplicedEnds
  <2>2. CASE j + d - 1 <= i /\ EndsWord(w, j, d)
    <3>1. PICK g \in Holes(w, d) : g[2] = j + d - 1
      BY <2>2 DEF Sealed
    <3>2. PICK a \in Nat, b \in Nat : g = <<a, b>> /\ b = j + d - 1
      BY <1>5, <3>1
    <3> QED
      BY <1>6, <2>2, <3>1, <3>2
  <2>3. CASE j > i + q + 1 /\ EndsWord(w, j + m - q, d)
    <3>1. j + m - q \in Nat
      BY <1>2, <2>3
    <3>2. PICK g \in Holes(w, d) : g[2] = (j + m - q) + d - 1
      BY <2>3, <3>1 DEF Sealed
    <3>3. PICK e \in Nat, f \in Nat : g = <<e, f>> /\ f = (j + m - q) + d - 1 /\ e + 2 * d <= f
      BY <1>5, <3>2
    <3>4. /\ <<e, f>>[1] = e /\ <<e, f>>[2] = f
      OBVIOUS
    <3>5. /\ \A k \in e .. e + d - 1 : w[k] = Open
          /\ \A k \in e + d .. f - d : w[k] \in Words
      BY <3>2, <3>3, <3>4, HoleIs
    <3>6. i + m <= f - d
      BY <1>2, <2>3, <3>3
    <3>7. e > i + m
      <4> SUFFICES ASSUME e <= i + m PROVE FALSE
        BY <3>3
      <4>1. i + m \in e .. e + d - 1 \/ i + m \in e + d .. f - d
        BY <3>3, <3>6
      <4> QED
        BY <1>2, <3>5, <4>1, TokensApart
    <3>8. <<e + (q - m), f + (q - m)>> \in Holes(x, d)
      BY <1>7, <3>2, <3>3, <3>7
    <3>9. f + (q - m) = j + d - 1 /\ <<e + (q - m), f + (q - m)>>[2] = f + (q - m)
      BY <1>2, <3>3
    <3> QED
      BY <3>8, <3>9
  <2> QED
    BY <2>1, <2>2, <2>3
<1>11. ASSUME NEW h \in Holes(x, d)
       PROVE  /\ h[1] > 1 => x[h[1] - 1] \notin Braces
              /\ h[2] < Len(x) => x[h[2] + 1] \notin Braces
  <2>1. PICK a \in Nat, b \in Nat : h = <<a, b>> /\ h[1] = a /\ h[2] = b /\ a < b
    BY HoleIs
  <2>2. CASE b <= i /\ <<a, b>> \in Holes(w, d)
    <3>1. <<a, b>>[1] = a /\ <<a, b>>[2] = b
      OBVIOUS
    <3>2. /\ a > 1 => w[a - 1] \notin Braces
          /\ b < Len(w) => w[b + 1] \notin Braces
          /\ w[b] = Close
      <4>1. \A k \in b - d + 1 .. b : w[k] = Close
        BY <2>2, <3>1, HoleIs
      <4>2. b \in b - d + 1 .. b
        OBVIOUS
      <4> QED
        BY <2>2, <3>1, <4>1, <4>2 DEF Sealed
    <3>3. b # i
      BY <1>4, <3>2, <2>1 DEF Braces
    <3>4. (a > 1 => a - 1 \in 1 .. i) /\ b + 1 \in 1 .. i /\ b < Len(w)
      BY <1>2, <2>1, <2>2, <3>3
    <3>5. (a > 1 => x[a - 1] = w[a - 1]) /\ x[b + 1] = w[b + 1]
      BY <1>3, <3>4
    <3> QED
      BY <2>1, <3>2, <3>4, <3>5
  <2>3. CASE /\ a > i + q /\ a + (m - q) > i + m /\ a + (m - q) \in Nat /\ b + (m - q) \in Nat
             /\ <<a + (m - q), b + (m - q)>> \in Holes(w, d)
    <3>1. PICK e \in Nat, f \in Nat : e = a + (m - q) /\ f = b + (m - q)
      BY <2>3
    <3>2. <<e, f>> \in Holes(w, d) /\ <<e, f>>[1] = e /\ <<e, f>>[2] = f
      BY <2>3, <3>1
    <3>3. /\ e > 1 => w[e - 1] \notin Braces
          /\ f < Len(w) => w[f + 1] \notin Braces
          /\ w[e] = Open /\ e \in 1 .. Len(w)
      <4>1. (\A k \in e .. e + d - 1 : w[k] = Open) /\ e \in 1 .. Len(w)
        BY <3>2, HoleIs
      <4>2. e \in e .. e + d - 1
        OBVIOUS
      <4> QED
        BY <3>2, <4>1, <4>2 DEF Sealed
    <3>4. e # i + m + 1
      BY <1>2, <1>4, <3>3, TokensApart DEF Braces
    <3>5. /\ e - 1 \in i + m + 1 .. Len(w) /\ (e - 1) - m + q = a - 1 /\ e > 1
          /\ b < Len(x) => f + 1 \in i + m + 1 .. Len(w) /\ (f + 1) - m + q = b + 1 /\ f < Len(w)
      BY <1>2, <1>3, <2>1, <2>3, <3>1, <3>3, <3>4
    <3>6. x[(e - 1) - m + q] = w[e - 1] /\ (b < Len(x) => x[(f + 1) - m + q] = w[f + 1])
      BY <1>3, <3>5
    <3> QED
      BY <2>1, <3>3, <3>5, <3>6
  <2> QED
    BY <1>8, <2>1, <2>2, <2>3
<1>12. Sealed(x, d)
  BY <1>10, <1>11 DEF Sealed
<1> QED
  BY <1>9, <1>12

-----------------------------------------------------------------------------
\* What replaceAll computes: f[i] is what the text from i on becomes.
Scans(f, text, s, r, i) ==
  f[i] = IF i > Len(text) THEN << >>
         ELSE IF Occurs(s, text, i) THEN r \o f[i + Len(s)]
         ELSE <<text[i]>> \o f[i + 1]

LEMMA ReplaceIs ==
  ASSUME NEW text \in Texts, NEW s \in Texts, NEW r \in Texts, Len(s) > 0
  PROVE  \E f \in [1 .. Len(text) + 1 -> Texts] :
           /\ replaceAll(text, s, r) = f[1]
           /\ \A i \in 1 .. Len(text) + 1 : Scans(f, text, s, r, i)
<1> DEFINE n == Len(text)
           Body(g) == [i \in 1 .. n + 1 |->
                         IF i > n THEN << >>
                         ELSE IF Occurs(s, text, i) THEN r \o g[i + Len(s)]
                         ELSE <<text[i]>> \o g[i + 1]]
           f == CHOOSE g : g = Body(g)
           F == {m \in Nat : \E g : \A i \in n + 1 - m .. n + 1 : Scans(g, text, s, r, i)}
<1>1. n \in Nat /\ Len(s) \in Nat /\ Len(s) > 0 /\ \A i \in 1 .. n : text[i] \in Tokens
  BY LenProperties, ElementOfSeq DEF Texts
<1>2. replaceAll(text, s, r) = f[1]
  BY DEF replaceAll
<1>3. 0 \in F
  <2> DEFINE g == [i \in n + 1 .. n + 1 |-> << >>]
  <2>1. \A i \in n + 1 - 0 .. n + 1 : Scans(g, text, s, r, i)
    BY <1>1 DEF Scans
  <2> HIDE DEF g, n
  <2> QED
    BY <2>1
<1>4. ASSUME NEW m \in 0 .. n - 1, m \in F PROVE m + 1 \in F
  <2>1. PICK g : \A i \in n + 1 - m .. n + 1 : Scans(g, text, s, r, i)
    BY <1>4
  <2>2. PICK j \in Nat : j = n - m
    BY <1>1
  <2>3. /\ j \in 1 .. n /\ n + 1 - (m + 1) = j /\ n + 1 - m = j + 1 /\ m + 1 \in Nat
    BY <1>1, <2>2
  <2> DEFINE h == [i \in j .. n + 1 |->
                     IF i > j THEN g[i]
                     ELSE IF Occurs(s, text, j) THEN r \o g[j + Len(s)]
                     ELSE <<text[j]>> \o g[j + 1]]
  <2>4. Occurs(s, text, j) => j + Len(s) \in j + 1 .. n + 1
    BY <1>1, <2>3 DEF Occurs
  <2>7. \A i \in j + 1 .. n + 1 : h[i] = g[i]
    BY <2>3
  <2>8. h[j] = IF Occurs(s, text, j) THEN r \o g[j + Len(s)] ELSE <<text[j]>> \o g[j + 1]
    BY <1>1, <2>3
  <2> HIDE DEF h
  <2>9. ASSUME NEW i \in j .. n + 1 PROVE Scans(h, text, s, r, i)
    <3>1. CASE i > j
      <4>1. i \in j + 1 .. n + 1 /\ i \in Nat
        BY <1>1, <2>3, <3>1
      <4>2. Scans(g, text, s, r, i)
        BY <2>1, <2>3, <4>1
      <4>3. h[i] = g[i]
        BY <2>7, <4>1
      <4>4. i <= n => i + 1 \in j + 1 .. n + 1
        BY <1>1, <4>1
      <4>5. Occurs(s, text, i) => i + Len(s) \in j + 1 .. n + 1
        BY <1>1, <2>3, <4>1 DEF Occurs
      <4>6. /\ i <= n => h[i + 1] = g[i + 1]
            /\ Occurs(s, text, i) => h[i + Len(s)] = g[i + Len(s)]
        BY <2>7, <4>4, <4>5
      <4>7. i > n \/ i <= n
        BY <1>1, <4>1
      <4> QED
        BY <4>2, <4>3, <4>6, <4>7 DEF Scans
    <3>2. CASE i = j
      <4>1. ~ (j > n) /\ j + 1 \in j + 1 .. n + 1
        BY <1>1, <2>3
      <4>2. h[j + 1] = g[j + 1] /\ (Occurs(s, text, j) => h[j + Len(s)] = g[j + Len(s)])
        BY <2>4, <2>7, <4>1
      <4> QED
        BY <2>8, <3>2, <4>1, <4>2 DEF Scans
    <3> QED
      BY <2>3, <3>1, <3>2
  <2>10. \A i \in n + 1 - (m + 1) .. n + 1 : Scans(h, text, s, r, i)
    BY <2>3, <2>9
  <2> HIDE DEF n
  <2> QED
    BY <2>3, <2>10
<1>5. n \in F
  <2> HIDE DEF F, n
  <2>1. \A m \in 0 .. n - 1 : m \in F => m + 1 \in F
    BY <1>4
  <2>2. \A m \in 0 .. n : m \in F
    BY <1>1, <1>3, <2>1, Counting
  <2> QED
    BY <1>1, <2>2
<1>6. PICK g : \A i \in 1 .. n + 1 : Scans(g, text, s, r, i)
  <2>1. n + 1 - n = 1
    BY <1>1
  <2> HIDE DEF n
  <2> QED
    BY <1>5, <2>1
<1> DEFINE e == [i \in 1 .. n + 1 |-> g[i]]
<1>8. e = Body(e)
  <2>1. ASSUME NEW i \in 1 .. n + 1 PROVE e[i] = Body(e)[i]
    <3>1. i <= n => i + 1 \in 1 .. n + 1
      BY <1>1
    <3>2. Occurs(s, text, i) => i + Len(s) \in 1 .. n + 1
      BY <1>1 DEF Occurs
    <3>3. Scans(g, text, s, r, i)
      BY <1>6
    <3>4. i > n \/ i <= n
      BY <1>1
    <3> QED
      BY <3>1, <3>2, <3>3, <3>4 DEF Scans
  <2> QED
    BY <2>1
<1>9. f = Body(f)
  <2> HIDE DEF Body, e
  <2> QED
    BY <1>8
<1>10. DOMAIN f = 1 .. n + 1 /\ f = [i \in DOMAIN f |-> f[i]]
  BY <1>9
<1>11. ASSUME NEW i \in 1 .. n + 1 PROVE Scans(f, text, s, r, i)
  <2>1. f[i] = Body(f)[i]
    BY <1>9
  <2> HIDE DEF f
  <2> QED
    BY <2>1 DEF Scans
<1> HIDE DEF f
<1> DEFINE T == {m \in Nat : \A i \in n + 1 - m .. n + 1 : f[i] \in Texts}
<1>12. 0 \in T
  <2>1. f[n + 1] = << >>
    <3>1. n + 1 \in 1 .. n + 1 /\ n + 1 > n
      BY <1>1
    <3>2. Scans(f, text, s, r, n + 1)
      BY <1>11, <3>1
    <3> QED
      BY <3>1, <3>2 DEF Scans
  <2>2. \A i \in n + 1 - 0 .. n + 1 : i = n + 1
    BY <1>1
  <2> QED
    BY <2>1, <2>2, EmptySeq DEF Texts
<1>13. ASSUME NEW m \in 0 .. n - 1, m \in T PROVE m + 1 \in T
  <2>1. PICK j \in Nat : j = n - m
    BY <1>1
  <2>2. /\ j \in 1 .. n /\ n + 1 - (m + 1) = j /\ n + 1 - m = j + 1 /\ m + 1 \in Nat
    BY <1>1, <2>1
  <2>3. \A i \in j + 1 .. n + 1 : f[i] \in Texts
    BY <1>13, <2>2
  <2>4. f[j] = IF Occurs(s, text, j) THEN r \o f[j + Len(s)] ELSE <<text[j]>> \o f[j + 1]
    <3>1. ~ (j > n) /\ j \in 1 .. n + 1
      BY <1>1, <2>2
    <3> QED
      BY <1>11, <3>1 DEF Scans
  <2>5. CASE Occurs(s, text, j)
    <3>1. j + Len(s) \in j + 1 .. n + 1
      BY <1>1, <2>2, <2>5 DEF Occurs
    <3>2. r \o f[j + Len(s)] \in Texts
      BY <2>3, <3>1, ConcatProperties DEF Texts
    <3>3. f[j] \in Texts
      BY <2>4, <2>5, <3>2
    <3>4. \A i \in j .. n + 1 : i = j \/ i \in j + 1 .. n + 1
      BY <1>1
    <3> QED
      BY <2>2, <2>3, <3>3, <3>4
  <2>6. CASE ~ Occurs(s, text, j)
    <3>1. j + 1 \in j + 1 .. n + 1 /\ <<text[j]>> \in Seq(Tokens)
      BY <1>1, <2>2
    <3>2. <<text[j]>> \o f[j + 1] \in Texts
      BY <2>3, <3>1, ConcatProperties DEF Texts
    <3>3. f[j] \in Texts
      BY <2>4, <2>6, <3>2
    <3>4. \A i \in j .. n + 1 : i = j \/ i \in j + 1 .. n + 1
      BY <1>1
    <3> QED
      BY <2>2, <2>3, <3>3, <3>4
  <2> QED
    BY <2>5, <2>6
<1>14. n \in T
  <2> HIDE DEF T, n
  <2>1. \A m \in 0 .. n - 1 : m \in T => m + 1 \in T
    BY <1>13
  <2>2. \A m \in 0 .. n : m \in T
    BY <1>1, <1>12, <2>1, Counting
  <2> QED
    BY <1>1, <2>2
<1>15. \A i \in 1 .. n + 1 : f[i] \in Texts
  <2>1. n + 1 - n = 1
    BY <1>1
  <2> HIDE DEF n
  <2> QED
    BY <1>14, <2>1
<1>16. f \in [1 .. n + 1 -> Texts]
  BY <1>10, <1>15
<1> QED
  BY <1>2, <1>11, <1>16

-----------------------------------------------------------------------------
\* A placeholder's spelling, and where it occurs.

LEMMA SpelledIs ==
  ASSUME NEW name \in PlaceholderNames, NEW d \in {1, 2}
  PROVE  /\ Spelled(name, d) \in Texts /\ Len(Spelled(name, d)) = Len(name) + 2 * d
         /\ Len(name) \in Nat /\ Len(name) >= 1
         /\ \A k \in 1 .. d : Spelled(name, d)[k] = Open
         /\ \A k \in 1 .. Len(name) : /\ Spelled(name, d)[d + k] = name[k]
                                      /\ name[k] \in Words
         /\ \A k \in d + Len(name) + 1 .. Len(name) + 2 * d : Spelled(name, d)[k] = Close
<1>1. /\ name \in Seq(Words) /\ Len(name) \in Nat /\ Len(name) >= 1
      /\ \A k \in 1 .. Len(name) : name[k] \in Words
  <2>1. name \in Seq(Words) /\ name # << >>
    BY DEF PlaceholderNames
  <2> QED
    BY <2>1, LenProperties, ElementOfSeq, EmptySeq
<1>2. name \in Texts
  BY <1>1 DEF Texts, Tokens
<1>3. /\ Row(Open, d) \in Texts /\ Len(Row(Open, d)) = d /\ \A k \in 1 .. d : Row(Open, d)[k] = Open
      /\ Row(Close, d) \in Texts /\ Len(Row(Close, d)) = d /\ \A k \in 1 .. d : Row(Close, d)[k] = Close
  <2>1. d \in Nat
    OBVIOUS
  <2>2. \A b \in Tokens : /\ Row(b, d) \in Seq(Tokens) /\ Len(Row(b, d)) = d
                          /\ \A k \in 1 .. d : Row(b, d)[k] = b
    BY <2>1, IsASeq DEF Row
  <2> QED
    BY <2>2, TokensApart DEF Texts
<1> DEFINE o == Row(Open, d)
           c == Row(Close, d)
           p == o \o name
<1> HIDE DEF o, c
<1>4. o \in Texts /\ c \in Texts /\ Len(o) = d /\ Len(c) = d
      /\ (\A k \in 1 .. d : o[k] = Open) /\ (\A k \in 1 .. d : c[k] = Close)
  BY <1>3 DEF o, c
<1>5. /\ p \in Texts /\ Len(p) = d + Len(name)
      /\ \A k \in 1 .. d + Len(name) : p[k] = IF k <= d THEN o[k] ELSE name[k - d]
  BY <1>2, <1>4, ConcatProperties DEF Texts
<1> HIDE DEF p
<1>6. /\ p \o c \in Texts /\ Len(p \o c) = d + Len(name) + d
      /\ \A k \in 1 .. d + Len(name) + d :
           (p \o c)[k] = IF k <= d + Len(name) THEN p[k] ELSE c[k - (d + Len(name))]
  BY <1>4, <1>5, ConcatProperties DEF Texts
<1>7. Spelled(name, d) = p \o c
  BY DEF Spelled, p, o, c
<1>8. d \in Nat /\ d >= 1 /\ d + Len(name) + d = Len(name) + 2 * d
  BY <1>1
<1>9. ASSUME NEW k \in 1 .. d PROVE (p \o c)[k] = Open
  <2>1. k \in 1 .. d + Len(name) /\ k \in 1 .. d + Len(name) + d /\ k <= d /\ k <= d + Len(name)
    BY <1>1, <1>8
  <2> QED
    BY <1>4, <1>5, <1>6, <2>1
<1>10. ASSUME NEW k \in 1 .. Len(name) PROVE (p \o c)[d + k] = name[k]
  <2>1. d + k \in 1 .. d + Len(name) /\ d + k \in 1 .. d + Len(name) + d
        /\ ~ (d + k <= d) /\ d + k <= d + Len(name) /\ (d + k) - d = k
    BY <1>1, <1>8
  <2> QED
    BY <1>5, <1>6, <2>1
<1>11. ASSUME NEW k \in d + Len(name) + 1 .. Len(name) + 2 * d PROVE (p \o c)[k] = Close
  <2>1. k \in 1 .. d + Len(name) + d /\ ~ (k <= d + Len(name)) /\ k - (d + Len(name)) \in 1 .. d
    BY <1>1, <1>8
  <2> QED
    BY <1>4, <1>6, <2>1
<1> QED
  BY <1>1, <1>6, <1>7, <1>8, <1>9, <1>10, <1>11

LEMMA OccursIs ==
  ASSUME NEW text \in Texts, NEW s \in Texts, Len(s) > 0, NEW i \in Nat, i >= 1
  PROVE  Occurs(s, text, i) <=>
           /\ i + Len(s) <= Len(text) + 1
           /\ \A k \in 1 .. Len(s) : text[i + k - 1] = s[k]
<1>1. Len(s) \in Nat /\ Len(text) \in Nat
  BY LenProperties DEF Texts
<1>2. ASSUME i + Len(s) <= Len(text) + 1
      PROVE  SubSeq(text, i, i + Len(s) - 1) = s <=> \A k \in 1 .. Len(s) : text[i + k - 1] = s[k]
  <2> DEFINE q == SubSeq(text, i, i + Len(s) - 1)
  <2>1. \A k \in i .. i + Len(s) - 1 : text[k] \in Tokens
    BY <1>1, <1>2, ElementOfSeq DEF Texts
  <2>2. i + Len(s) - 1 \in Int /\ i <= i + Len(s) - 1 /\ (i + Len(s) - 1) - i + 1 = Len(s)
    BY <1>1
  <2>3. PICK e \in Int : e = i + Len(s) - 1
    BY <2>2
  <2>4. /\ SubSeq(text, i, e) \in Seq(Tokens) /\ Len(SubSeq(text, i, e)) = e - i + 1
        /\ \A k \in 1 .. e - i + 1 : SubSeq(text, i, e)[k] = text[i + k - 1]
    BY <2>1, <2>2, <2>3, SubSeqProperties
  <2>5. /\ q \in Seq(Tokens) /\ Len(q) = Len(s)
        /\ \A k \in 1 .. Len(s) : q[k] = text[i + k - 1]
    BY <2>2, <2>3, <2>4
  <2> HIDE DEF q
  <2>6. (\A k \in 1 .. Len(s) : text[i + k - 1] = s[k]) => q = s
    <3> SUFFICES ASSUME \A k \in 1 .. Len(s) : text[i + k - 1] = s[k] PROVE q = s
      OBVIOUS
    <3>1. \A k \in 1 .. Len(q) : q[k] = s[k]
      BY <2>5
    <3> QED
      BY <2>5, <3>1, SeqEqual DEF Texts
  <2>7. q = s => \A k \in 1 .. Len(s) : text[i + k - 1] = s[k]
    BY <2>5
  <2> QED
    BY <2>6, <2>7 DEF q
<1> QED
  BY <1>2 DEF Occurs

\* A placeholder of that name stands where its spelling occurs.
LEMMA HolesOccur ==
  ASSUME NEW text \in Texts, NEW d \in {1, 2}, NEW name \in PlaceholderNames,
         NEW i \in Nat, i >= 1
  PROVE  /\ Occurs(Spelled(name, d), text, i) =>
              <<i, i + Len(Spelled(name, d)) - 1>> \in Holes(text, d)
         /\ \A h \in Holes(text, d) : h[1] = i /\ NameAt(text, h, d) = name =>
              Occurs(Spelled(name, d), text, i)
<1> DEFINE s == Spelled(name, d)
<1>1. PICK l \in Nat : l = Len(name) /\ l >= 1
  BY SpelledIs
<1>2. /\ s \in Texts /\ Len(s) = l + 2 * d
      /\ \A k \in 1 .. d : s[k] = Open
      /\ \A k \in 1 .. l : s[d + k] = name[k] /\ name[k] \in Words
      /\ \A k \in d + l + 1 .. l + 2 * d : s[k] = Close
  BY <1>1, SpelledIs
<1> HIDE DEF s
<1>3. PICK m \in Nat : m = l + 2 * d /\ m >= 3 /\ Len(s) = m
  BY <1>1, <1>2
<1>4. d \in Nat /\ d >= 1 /\ Len(text) \in Nat
  BY LenProperties DEF Texts
<1>5. Occurs(s, text, i) <=> /\ i + m <= Len(text) + 1
                            /\ \A k \in 1 .. m : text[i + k - 1] = s[k]
  <2>1. Len(s) > 0
    BY <1>3
  <2>2. Occurs(s, text, i) <=>
           /\ i + Len(s) <= Len(text) + 1
           /\ \A k \in 1 .. Len(s) : text[i + k - 1] = s[k]
    BY <1>2, <2>1, OccursIs
  <2> QED
    BY <1>3, <2>2
<1>6. ASSUME Occurs(s, text, i) PROVE <<i, i + m - 1>> \in Holes(text, d)
  <2>1. PICK j \in Nat : j = i + m - 1
    BY <1>3
  <2>2. i \in 1 .. Len(text) /\ j \in 1 .. Len(text) /\ i + 2 * d <= j
    BY <1>1, <1>3, <1>4, <1>5, <1>6, <2>1
  <2>3. ASSUME NEW k \in i .. i + d - 1 PROVE text[k] = Open
    <3>1. k - i + 1 \in 1 .. m /\ k - i + 1 \in 1 .. d /\ i + (k - i + 1) - 1 = k
      BY <1>3, <1>4
    <3>2. text[i + (k - i + 1) - 1] = s[k - i + 1]
      BY <1>5, <1>6, <3>1
    <3> QED
      BY <1>2, <3>1, <3>2
  <2>4. ASSUME NEW k \in i + d .. j - d PROVE text[k] \in Words
    <3>1. k - i + 1 - d \in 1 .. l /\ k - i + 1 \in 1 .. m /\ i + (k - i + 1) - 1 = k
          /\ d + (k - i + 1 - d) = k - i + 1
      BY <1>3, <1>4, <2>1
    <3>2. text[i + (k - i + 1) - 1] = s[k - i + 1]
      BY <1>5, <1>6, <3>1
    <3>3. s[d + (k - i + 1 - d)] \in Words
      BY <1>2, <3>1
    <3> QED
      BY <3>1, <3>2, <3>3
  <2>5. ASSUME NEW k \in j - d + 1 .. j PROVE text[k] = Close
    <3>1. k - i + 1 \in d + l + 1 .. l + 2 * d /\ k - i + 1 \in 1 .. m /\ i + (k - i + 1) - 1 = k
      BY <1>3, <1>4, <2>1
    <3>2. text[i + (k - i + 1) - 1] = s[k - i + 1]
      BY <1>5, <1>6, <3>1
    <3> QED
      BY <1>2, <3>1, <3>2
  <2>6. <<i, j>> \in Holes(text, d)
    BY <2>2, <2>3, <2>4, <2>5, IsAHole
  <2> QED
    BY <2>1, <2>6
<1>7. ASSUME NEW h \in Holes(text, d), h[1] = i, NameAt(text, h, d) = name
      PROVE  Occurs(s, text, i)
  <2>1. PICK j \in Nat : h = <<i, j>> /\ h[2] = j
    BY <1>7, HoleIs
  <2>2. /\ i + 2 * d <= j /\ j <= Len(text)
        /\ \A k \in i .. i + d - 1 : text[k] = Open
        /\ \A k \in i + d .. j - d : text[k] \in Words
        /\ \A k \in j - d + 1 .. j : text[k] = Close
    <3>1. /\ h[1] + 2 * d <= h[2] /\ h[2] \in 1 .. Len(text)
          /\ \A k \in h[1] .. h[1] + d - 1 : text[k] = Open
          /\ \A k \in h[1] + d .. h[2] - d : text[k] \in Words
          /\ \A k \in h[2] - d + 1 .. h[2] : text[k] = Close
      BY HoleIs
    <3> QED
      BY <1>4, <1>7, <2>1, <3>1
  <2>3. PICK a \in Int, b \in Int : a = i + d /\ b = j - d
    BY <1>4
  <2>4. SubSeq(text, a, b) = name
    BY <1>7, <2>1, <2>3 DEF NameAt
  <2>5. a <= b /\ \A k \in a .. b : text[k] \in Words
    BY <1>4, <2>2, <2>3
  <2>6. /\ Len(SubSeq(text, a, b)) = b - a + 1
        /\ \A k \in 1 .. b - a + 1 : SubSeq(text, a, b)[k] = text[a + k - 1]
    BY <2>5, SubSeqProperties
  <2>7. l = b - a + 1 /\ \A k \in 1 .. l : name[k] = text[a + k - 1]
    BY <1>1, <2>4, <2>6
  <2>8. j = i + m - 1
    BY <1>3, <1>4, <2>3, <2>7
  <2>9. ASSUME NEW k \in 1 .. m PROVE text[i + k - 1] = s[k]
    <3>1. CASE k <= d
      <4>1. k \in 1 .. d /\ i + k - 1 \in i .. i + d - 1
        BY <1>4, <3>1
      <4> QED
        BY <1>2, <2>2, <4>1
    <3>2. CASE k > d /\ k <= d + l
      <4>1. k - d \in 1 .. l /\ d + (k - d) = k /\ a + (k - d) - 1 = i + k - 1
        BY <1>4, <2>3, <3>2
      <4>2. name[k - d] = text[a + (k - d) - 1] /\ s[d + (k - d)] = name[k - d]
        BY <1>2, <2>7, <4>1
      <4> QED
        BY <4>1, <4>2
    <3>3. CASE k > d + l
      <4>1. k \in d + l + 1 .. l + 2 * d /\ i + k - 1 \in j - d + 1 .. j
        BY <1>3, <1>4, <2>8, <3>3
      <4> QED
        BY <1>2, <2>2, <4>1
    <3> QED
      BY <1>4, <3>1, <3>2, <3>3
  <2>10. i + m <= Len(text) + 1
    BY <1>4, <2>2, <2>8
  <2> QED
    BY <1>5, <2>9, <2>10
<1> QED
  BY <1>3, <1>6, <1>7 DEF s

-----------------------------------------------------------------------------
\* One fill, from the right: w is the text whose tokens from i on are filled.
Filled(text, w, i, name, d) ==
  /\ w \in Texts /\ Sealed(w, d)
  /\ \A h \in Holes(w, d) :
       /\ NameAt(w, h, d) \in placeholdersIn(text, d)
       /\ h[1] < i => h \in Holes(text, d) /\ NameAt(w, h, d) = NameAt(text, h, d)
       /\ h[1] >= i => NameAt(w, h, d) # name

Glue(text, i, r) == SubSeq(text, 1, i - 1) \o r

LEMMA FillPasses ==
  ASSUME NEW text \in Texts, NEW d \in {1, 2}, NEW name \in PlaceholderNames,
         NEW w, NEW j \in Nat, j >= 1, Filled(text, w, j + 1, name, d),
         ~ Occurs(Spelled(name, d), text, j)
  PROVE  Filled(text, w, j, name, d)
<1>1. w \in Texts /\ Sealed(w, d)
  BY DEF Filled
<1>2. ASSUME NEW h \in Holes(w, d)
      PROVE  /\ NameAt(w, h, d) \in placeholdersIn(text, d)
             /\ h[1] < j => h \in Holes(text, d) /\ NameAt(w, h, d) = NameAt(text, h, d)
             /\ h[1] >= j => NameAt(w, h, d) # name
  <2>1. h[1] \in Nat
    BY <1>1, HoleIs
  <2>2. /\ NameAt(w, h, d) \in placeholdersIn(text, d)
        /\ h[1] < j + 1 => h \in Holes(text, d) /\ NameAt(w, h, d) = NameAt(text, h, d)
        /\ h[1] >= j + 1 => NameAt(w, h, d) # name
    BY DEF Filled
  <2>3. ASSUME h[1] = j PROVE NameAt(w, h, d) # name
    <3>1. h \in Holes(text, d) /\ NameAt(w, h, d) = NameAt(text, h, d)
      BY <2>1, <2>2, <2>3
    <3> QED
      BY <2>3, <3>1, HolesOccur
  <2> QED
    BY <2>1, <2>2, <2>3
<1> QED
  BY <1>1, <1>2 DEF Filled

LEMMA FillSplices ==
  ASSUME NEW text \in Texts, NEW d \in {1, 2}, NEW name \in PlaceholderNames,
         NEW v \in Texts, Inert(v, d), NEW w, NEW x \in Texts, NEW i \in Nat, NEW m \in Nat,
         Filled(text, w, i + m + 1, name, d), <<i + 1, i + m>> \in Holes(w, d),
         Spliced(w, x, i, m, v)
  PROVE  Filled(text, x, i + 1, name, d)
<1>1. w \in Texts /\ Sealed(w, d)
  BY DEF Filled
<1>2. PICK q \in Nat : q = Len(v)
  BY LenProperties DEF Texts
<1>3. /\ Sealed(x, d)
      /\ \A h \in Holes(x, d) :
           \/ /\ h[2] <= i /\ h \in Holes(w, d)
              /\ NameAt(x, h, d) = NameAt(w, h, d)
           \/ /\ h[1] > i + q
              /\ \E g \in Holes(w, d) : /\ g[1] = h[1] + m - q
                                        /\ NameAt(x, h, d) = NameAt(w, g, d)
  BY <1>1, <1>2, SpliceKeeps
<1>4. ASSUME NEW h \in Holes(x, d)
      PROVE  /\ NameAt(x, h, d) \in placeholdersIn(text, d)
             /\ h[1] < i + 1 => h \in Holes(text, d) /\ NameAt(x, h, d) = NameAt(text, h, d)
             /\ h[1] >= i + 1 => NameAt(x, h, d) # name
  <2>1. h[1] \in Nat /\ h[2] \in Nat /\ h[1] + 2 * d <= h[2]
    BY HoleIs
  <2>2. CASE h[2] <= i /\ h \in Holes(w, d) /\ NameAt(x, h, d) = NameAt(w, h, d)
    <3>1. h[1] < i + m + 1 /\ h[1] < i + 1
      BY <2>1, <2>2
    <3>2. /\ NameAt(w, h, d) \in placeholdersIn(text, d)
          /\ h \in Holes(text, d) /\ NameAt(w, h, d) = NameAt(text, h, d)
      BY <2>2, <3>1 DEF Filled
    <3> QED
      BY <2>1, <2>2, <3>1, <3>2
  <2>3. CASE /\ h[1] > i + q
             /\ \E g \in Holes(w, d) : /\ g[1] = h[1] + m - q
                                       /\ NameAt(x, h, d) = NameAt(w, g, d)
    <3>1. PICK g \in Holes(w, d) : g[1] = h[1] + m - q /\ NameAt(x, h, d) = NameAt(w, g, d)
      BY <2>3
    <3>2. g[1] >= i + m + 1 /\ h[1] >= i + 1
      BY <2>1, <2>3, <3>1
    <3>3. NameAt(w, g, d) \in placeholdersIn(text, d) /\ NameAt(w, g, d) # name
      BY <3>2 DEF Filled
    <3> QED
      BY <2>1, <3>1, <3>2, <3>3
  <2> QED
    BY <1>3, <2>2, <2>3
<1> QED
  BY <1>3, <1>4 DEF Filled

LEMMA GlueIs ==
  ASSUME NEW text \in Texts, NEW r \in Texts, NEW i \in Nat, i <= Len(text)
  PROVE  /\ Glue(text, i + 1, r) \in Texts /\ Len(Glue(text, i + 1, r)) = i + Len(r)
         /\ \A k \in 1 .. i : Glue(text, i + 1, r)[k] = text[k]
         /\ \A k \in 1 .. Len(r) : Glue(text, i + 1, r)[i + k] = r[k]
<1>1. PICK n \in Nat, q \in Nat : n = Len(text) /\ q = Len(r)
  BY LenProperties DEF Texts
<1> DEFINE p == SubSeq(text, 1, i)
<1>2. p \in Texts /\ Len(p) = i /\ \A k \in 1 .. i : p[k] = text[k]
  <2>1. \A k \in 1 .. i : text[k] \in Tokens
    BY <1>1, ElementOfSeq DEF Texts
  <2>2. /\ p \in Seq(Tokens) /\ Len(p) = IF 1 <= i THEN i - 1 + 1 ELSE 0
        /\ \A k \in 1 .. i - 1 + 1 : p[k] = text[1 + k - 1]
    BY <2>1, SubSeqProperties
  <2> HIDE DEF p
  <2>3. i - 1 + 1 = i /\ (1 <= i \/ i = 0)
    OBVIOUS
  <2> QED
    BY <2>2, <2>3 DEF Texts
<1> HIDE DEF p
<1>3. Glue(text, i + 1, r) = p \o r
  <2>1. (i + 1) - 1 = i
    OBVIOUS
  <2> QED
    BY <2>1 DEF Glue, p
<1>4. /\ p \o r \in Texts /\ Len(p \o r) = i + q
      /\ \A k \in 1 .. i + q : (p \o r)[k] = IF k <= i THEN p[k] ELSE r[k - i]
  <2>1. p \in Seq(Tokens) /\ r \in Seq(Tokens)
    BY <1>2 DEF Texts
  <2>2. /\ p \o r \in Seq(Tokens) /\ Len(p \o r) = Len(p) + Len(r)
        /\ \A k \in 1 .. Len(p) + Len(r) :
             (p \o r)[k] = IF k <= Len(p) THEN p[k] ELSE r[k - Len(p)]
    BY <2>1, ConcatProperties
  <2> QED
    BY <1>1, <1>2, <2>2 DEF Texts
<1>5. ASSUME NEW k \in 1 .. i PROVE (p \o r)[k] = text[k]
  <2>1. k \in 1 .. i + q /\ k <= i
    BY <1>1
  <2> QED
    BY <1>2, <1>4, <2>1
<1>6. ASSUME NEW k \in 1 .. q PROVE (p \o r)[i + k] = r[k]
  <2>1. i + k \in 1 .. i + q /\ ~ (i + k <= i) /\ (i + k) - i = k
    BY <1>1
  <2> QED
    BY <1>4, <2>1
<1> QED
  BY <1>1, <1>3, <1>4, <1>5, <1>6

Joins(p, z, y) == y = p \o z

LEMMA GluePasses ==
  ASSUME NEW text \in Texts, NEW i \in Nat, i + 1 <= Len(text), NEW z \in Texts,
         NEW y \in Texts, Joins(<<text[i + 1]>>, z, y)
  PROVE  Glue(text, i + 1, y) = Glue(text, i + 2, z)
<1>1. PICK n \in Nat, q \in Nat : n = Len(text) /\ q = Len(z)
  BY LenProperties DEF Texts
<1>2. text[i + 1] \in Tokens
  BY <1>1, ElementOfSeq DEF Texts
<1> DEFINE t == <<text[i + 1]>>
           g == Glue(text, i + 1, y)
           h == Glue(text, i + 2, z)
<1>3. t \in Seq(Tokens) /\ Len(t) = 1 /\ t[1] = text[i + 1]
  BY <1>2
<1> HIDE DEF t
<1>4. Len(y) = 1 + q /\ \A k \in 1 .. 1 + q : y[k] = IF k <= 1 THEN t[k] ELSE z[k - 1]
  <2>1. z \in Seq(Tokens) /\ y = t \o z
    BY DEF Texts, t, Joins
  <2>2. /\ Len(t \o z) = Len(t) + Len(z)
        /\ \A k \in 1 .. Len(t) + Len(z) :
             (t \o z)[k] = IF k <= Len(t) THEN t[k] ELSE z[k - Len(t)]
    BY <1>3, <2>1, ConcatProperties
  <2> QED
    BY <1>1, <1>3, <2>1, <2>2
<1>5. y[1] = text[i + 1] /\ \A k \in 1 .. q : y[k + 1] = z[k]
  <2>1. y[1] = t[1]
    BY <1>1, <1>4
  <2>2. ASSUME NEW k \in 1 .. q PROVE y[k + 1] = z[k]
    <3>1. k + 1 \in 1 .. 1 + q /\ ~ (k + 1 <= 1) /\ (k + 1) - 1 = k
      BY <1>1
    <3> QED
      BY <1>4, <3>1
  <2> QED
    BY <1>3, <2>1, <2>2
<1>6. /\ g \in Texts /\ Len(g) = i + (1 + q)
      /\ \A k \in 1 .. i : g[k] = text[k]
      /\ \A k \in 1 .. 1 + q : g[i + k] = y[k]
  <2>1. i <= Len(text) /\ Len(y) = 1 + q
    BY <1>1, <1>4
  <2>2. /\ g \in Texts /\ Len(g) = i + Len(y)
        /\ \A k \in 1 .. i : g[k] = text[k]
        /\ \A k \in 1 .. Len(y) : g[i + k] = y[k]
    BY <2>1, GlueIs
  <2> HIDE DEF g
  <2> QED
    BY <2>1, <2>2
<1>7. /\ h \in Texts /\ Len(h) = (i + 1) + q
      /\ \A k \in 1 .. i + 1 : h[k] = text[k]
      /\ \A k \in 1 .. q : h[(i + 1) + k] = z[k]
  <2>1. PICK b \in Nat : b = i + 1 /\ b + 1 = i + 2
    OBVIOUS
  <2>2. /\ Glue(text, b + 1, z) \in Texts /\ Len(Glue(text, b + 1, z)) = b + Len(z)
        /\ \A k \in 1 .. b : Glue(text, b + 1, z)[k] = text[k]
        /\ \A k \in 1 .. Len(z) : Glue(text, b + 1, z)[b + k] = z[k]
    BY <2>1, GlueIs
  <2> QED
    BY <1>1, <2>1, <2>2
<1> HIDE DEF g, h
<1>8. ASSUME NEW k \in 1 .. Len(g) PROVE g[k] = h[k]
  <2>1. k \in 1 .. i + 1 + q
    BY <1>1, <1>6
  <2>2. CASE k <= i
    BY <1>6, <1>7, <2>1, <2>2
  <2>3. CASE k = i + 1
    <3>1. g[i + 1] = y[1] /\ h[i + 1] = text[i + 1]
      BY <1>1, <1>6, <1>7
    <3> QED
      BY <1>5, <2>3, <3>1
  <2>4. CASE k > i + 1
    <3>1. PICK b \in 1 .. q : b = k - (i + 1)
      BY <1>1, <2>1, <2>4
    <3>2. b + 1 \in 1 .. 1 + q /\ i + (b + 1) = k /\ (i + 1) + b = k
      BY <1>1, <3>1
    <3>3. g[i + (b + 1)] = y[b + 1] /\ y[b + 1] = z[b] /\ h[(i + 1) + b] = z[b]
      BY <1>5, <1>6, <1>7, <3>2
    <3> QED
      BY <3>2, <3>3
  <2> QED
    BY <2>1, <2>2, <2>3, <2>4
<1>9. Len(g) = Len(h)
  BY <1>1, <1>6, <1>7
<1>10. g = h
  BY <1>6, <1>7, <1>8, <1>9, SeqEqual DEF Texts
<1> QED
  BY <1>10 DEF g, h

LEMMA GlueSplices ==
  ASSUME NEW text \in Texts, NEW d \in {1, 2}, NEW i \in Nat, NEW m \in Nat,
         i + m <= Len(text), NEW v \in Texts, NEW z \in Texts, NEW y \in Texts, Joins(v, z, y),
         <<i + 1, i + m>> \in Holes(text, d)
  PROVE  /\ Glue(text, i + m + 1, z) \in Texts /\ Glue(text, i + 1, y) \in Texts
         /\ Spliced(Glue(text, i + m + 1, z), Glue(text, i + 1, y), i, m, v)
         /\ <<i + 1, i + m>> \in Holes(Glue(text, i + m + 1, z), d)
<1>1. PICK n \in Nat, q \in Nat, p \in Nat, e \in Nat :
        n = Len(text) /\ q = Len(z) /\ p = Len(v) /\ e = i + m
  <2>1. Len(text) \in Nat /\ Len(z) \in Nat /\ Len(v) \in Nat /\ i + m \in Nat
    BY LenProperties DEF Texts
  <2> QED
    BY <2>1
<1> DEFINE g == Glue(text, i + 1, y)
           h == Glue(text, i + m + 1, z)
<1>2. Len(y) = p + q /\ \A k \in 1 .. p + q : y[k] = IF k <= p THEN v[k] ELSE z[k - p]
  <2>1. v \in Seq(Tokens) /\ z \in Seq(Tokens) /\ y = v \o z
    BY DEF Texts, Joins
  <2>2. /\ Len(v \o z) = Len(v) + Len(z)
        /\ \A k \in 1 .. Len(v) + Len(z) :
             (v \o z)[k] = IF k <= Len(v) THEN v[k] ELSE z[k - Len(v)]
    BY <2>1, ConcatProperties
  <2> QED
    BY <1>1, <2>1, <2>2
<1>3. /\ g \in Texts /\ Len(g) = i + (p + q)
      /\ \A k \in 1 .. i : g[k] = text[k]
      /\ \A k \in 1 .. p + q : g[i + k] = y[k]
  <2>1. i <= Len(text) /\ Len(y) = p + q
    BY <1>1, <1>2
  <2>2. /\ g \in Texts /\ Len(g) = i + Len(y)
        /\ \A k \in 1 .. i : g[k] = text[k]
        /\ \A k \in 1 .. Len(y) : g[i + k] = y[k]
    BY <2>1, GlueIs
  <2> HIDE DEF g
  <2> QED
    BY <2>1, <2>2
<1>4. /\ h \in Texts /\ Len(h) = e + q
      /\ \A k \in 1 .. e : h[k] = text[k]
      /\ \A k \in 1 .. q : h[e + k] = z[k]
  <2>1. e <= Len(text) /\ i + m + 1 = e + 1
    BY <1>1
  <2>2. /\ Glue(text, e + 1, z) \in Texts /\ Len(Glue(text, e + 1, z)) = e + Len(z)
        /\ \A k \in 1 .. e : Glue(text, e + 1, z)[k] = text[k]
        /\ \A k \in 1 .. Len(z) : Glue(text, e + 1, z)[e + k] = z[k]
    BY <2>1, GlueIs
  <2> QED
    BY <1>1, <2>1, <2>2
<1> HIDE DEF g, h
<1>5. Len(g) = Len(h) - m + p
  BY <1>1, <1>3, <1>4
<1>6. ASSUME NEW k \in 1 .. i PROVE g[k] = h[k]
  <2>1. k \in 1 .. e
    BY <1>1
  <2> QED
    BY <1>3, <1>4, <2>1
<1>7. ASSUME NEW k \in 1 .. p PROVE g[i + k] = v[k]
  <2>1. k \in 1 .. p + q /\ k <= p
    BY <1>1
  <2> QED
    BY <1>2, <1>3, <2>1
<1>8. ASSUME NEW k \in i + m + 1 .. Len(h) PROVE g[k - m + p] = h[k]
  <2>1. PICK b \in 1 .. q : k = e + b
    <3>1. k - e \in 1 .. q /\ k = e + (k - e)
      BY <1>1, <1>4
    <3> QED
      BY <3>1
  <2>2. p + b \in 1 .. p + q /\ i + (p + b) = k - m + p /\ ~ (p + b <= p) /\ (p + b) - p = b
    BY <1>1, <2>1
  <2>3. g[i + (p + b)] = y[p + b] /\ y[p + b] = z[(p + b) - p] /\ h[e + b] = z[b]
    BY <1>2, <1>3, <1>4, <2>2
  <2> QED
    BY <2>1, <2>2, <2>3
<1>9. Spliced(h, g, i, m, v)
  BY <1>1, <1>5, <1>6, <1>7, <1>8 DEF Spliced
<1>10. <<i + 1, i + m>> \in Holes(h, d)
  <2>1. PICK a \in Nat : a = i + 1
    OBVIOUS
  <2>2. <<a, e>> \in Holes(text, d)
    BY <1>1, <2>1
  <2>3. a + 0 >= 1 /\ e + 0 <= Len(h) /\ 0 \in Int /\ a + 0 = a /\ e + 0 = e
    BY <1>1, <1>4, <2>1
  <2>4. Moved(text, h, a, e, 0)
    <3>1. ASSUME NEW k \in a .. e PROVE h[k + 0] = text[k]
      <4>1. k \in 1 .. e /\ k + 0 = k
        BY <2>1
      <4> QED
        BY <1>4, <4>1
    <3> QED
      BY <3>1 DEF Moved
  <2>5. <<a, e>> \in Holes(h, d)
    <3>1. <<a + 0, e + 0>> \in Holes(h, d)
      BY <1>4, <2>2, <2>3, <2>4, HolesMove
    <3> QED
      BY <2>3, <3>1
  <2> QED
    BY <1>1, <2>1, <2>5
<1> QED
  BY <1>3, <1>4, <1>9, <1>10 DEF g, h

\* A fill of a sealed text by an inert value seals it again, takes its name's
\* placeholders away and makes none.
LEMMA FillSeals ==
  ASSUME NEW text \in Texts, NEW d \in {1, 2}, NEW name \in PlaceholderNames,
         NEW v \in Texts, Sealed(text, d), Inert(v, d)
  PROVE  /\ Fill(text, name, v, d) \in Texts /\ Sealed(Fill(text, name, v, d), d)
         /\ placeholdersIn(Fill(text, name, v, d), d) \subseteq
              placeholdersIn(text, d) \ {name}
<1> DEFINE s == Spelled(name, d)
<1>1. PICK n \in Nat, m \in Nat, q \in Nat :
        n = Len(text) /\ m = Len(s) /\ q = Len(v) /\ m >= 3
  <2>1. Len(text) \in Nat /\ Len(v) \in Nat
    BY LenProperties DEF Texts
  <2>2. PICK l \in Nat : l = Len(name) /\ l >= 1 /\ Len(s) = l + 2 * d
    BY SpelledIs
  <2>3. Len(s) \in Nat /\ Len(s) >= 3
    BY <2>2
  <2> QED
    BY <2>1, <2>3
<1>2. s \in Texts
  BY SpelledIs
<1> HIDE DEF s
<1>3. PICK f \in [1 .. n + 1 -> Texts] :
        /\ replaceAll(text, s, v) = f[1]
        /\ \A i \in 1 .. n + 1 : Scans(f, text, s, v, i)
  <2>1. Len(s) > 0
    BY <1>1
  <2>2. \E f \in [1 .. Len(text) + 1 -> Texts] :
          /\ replaceAll(text, s, v) = f[1]
          /\ \A i \in 1 .. Len(text) + 1 : Scans(f, text, s, v, i)
    BY <1>2, <2>1, ReplaceIs
  <2> QED
    BY <1>1, <2>2
<1> DEFINE H(i) == Glue(text, i, f[i])
           P(i) == Filled(text, H(i), i, name, d)
           F == {k \in Nat : P(k)}
<1>4. \A i \in 0 .. n :
        /\ H(i + 1) \in Texts /\ Len(H(i + 1)) = i + Len(f[i + 1])
        /\ \A k \in 1 .. i : H(i + 1)[k] = text[k]
        /\ \A k \in 1 .. Len(f[i + 1]) : H(i + 1)[i + k] = f[i + 1][k]
  <2> TAKE i \in 0 .. n
  <2>1. i \in Nat /\ i <= Len(text) /\ f[i + 1] \in Texts
    BY <1>1
  <2> QED
    BY <2>1, GlueIs
<1>5. f[n + 1] = << >>
  <2>1. Scans(f, text, s, v, n + 1) /\ n + 1 > Len(text)
    BY <1>1, <1>3
  <2> QED
    BY <2>1 DEF Scans
<1>6. P(n + 1)
  <2>1. H(n + 1) = text
    <3>1. (n + 1) - 1 = n /\ SubSeq(text, 1, n) = text /\ text \o << >> = text
      BY <1>1, SubSeqFull, ConcatEmptySeq DEF Texts
    <3> QED
      BY <1>5, <3>1 DEF Glue
  <2>2. \A h \in Holes(text, d) : NameAt(text, h, d) \in placeholdersIn(text, d)
    BY DEF placeholdersIn
  <2>3. \A h \in Holes(text, d) : h[1] < n + 1 /\ ~ (h[1] >= n + 1)
    <3> TAKE h \in Holes(text, d)
    <3>1. h[1] \in 1 .. Len(text)
      BY HoleIs
    <3> QED
      BY <1>1, <3>1
  <2>4. Filled(text, text, n + 1, name, d)
    BY <2>2, <2>3 DEF Filled
  <2> QED
    BY <2>1, <2>4
<1>7. ASSUME NEW j \in 1 .. n, \A i \in j + 1 .. n + 1 : P(i) PROVE P(j)
  <2>1. Scans(f, text, s, v, j) /\ ~ (j > Len(text))
    BY <1>1, <1>3
  <2>2. PICK i \in Nat : j = i + 1 /\ i + 1 <= Len(text) /\ i + 2 = j + 1
    <3>1. j - 1 \in Nat /\ j = (j - 1) + 1 /\ (j - 1) + 1 <= Len(text) /\ (j - 1) + 2 = j + 1
      BY <1>1
    <3> QED
      BY <3>1
  <2>3. PICK y \in Texts : y = f[j]
    BY <1>1, <1>3
  <2>4. CASE ~ Occurs(s, text, j)
    <3>1. PICK z \in Texts : z = f[j + 1]
      BY <1>1, <1>3
    <3>2. Joins(<<text[i + 1]>>, z, y)
      BY <2>1, <2>2, <2>3, <2>4, <3>1 DEF Scans, Joins
    <3>3. Glue(text, j, y) = Glue(text, j + 1, z)
      <4>1. Glue(text, i + 1, y) = Glue(text, i + 2, z)
        BY <2>2, <3>2, GluePasses
      <4> QED
        BY <2>2, <4>1
    <3>4. Filled(text, Glue(text, j + 1, z), j + 1, name, d)
      BY <1>1, <1>7, <3>1
    <3>5. Filled(text, Glue(text, j + 1, z), j, name, d)
      BY <2>4, <3>4, FillPasses DEF s
    <3> QED
      BY <2>3, <3>3, <3>5
  <2>5. CASE Occurs(s, text, j)
    <3>1. j + m <= n + 1
      BY <1>1, <2>5 DEF Occurs
    <3>2. PICK z \in Texts : z = f[j + m]
      BY <1>1, <1>3, <3>1
    <3>3. Joins(v, z, y)
      BY <1>1, <2>1, <2>3, <2>5, <3>2 DEF Scans, Joins
    <3>4. <<j, j + m - 1>> \in Holes(text, d)
      <4>1. <<j, j + Len(s) - 1>> \in Holes(text, d)
        <5>1. j \in Nat /\ j >= 1
          BY <1>1
        <5> QED
          BY <2>5, <5>1, HolesOccur DEF s
      <4> QED
        BY <1>1, <4>1
    <3>5. i + m <= Len(text) /\ i + m + 1 = j + m /\ j + m - 1 = i + m
      BY <1>1, <2>2, <3>1
    <3>6. <<i + 1, i + m>> \in Holes(text, d)
      BY <2>2, <3>4, <3>5
    <3>7. /\ Glue(text, i + 1, y) \in Texts
          /\ Spliced(Glue(text, i + m + 1, z), Glue(text, i + 1, y), i, m, v)
          /\ <<i + 1, i + m>> \in Holes(Glue(text, i + m + 1, z), d)
      BY <3>3, <3>5, <3>6, GlueSplices
    <3>8. Filled(text, Glue(text, i + m + 1, z), i + m + 1, name, d)
      BY <1>1, <1>7, <3>1, <3>2, <3>5
    <3>9. Filled(text, Glue(text, i + 1, y), i + 1, name, d)
      BY <3>7, <3>8, FillSplices
    <3> QED
      BY <2>2, <2>3, <3>9
  <2> QED
    BY <2>4, <2>5
<1> HIDE DEF H, P
<1>8. P(1)
  <2>1. n + 1 \in F
    BY <1>1, <1>6
  <2>2. ASSUME NEW j \in 1 .. n, \A i \in j + 1 .. n + 1 : i \in F PROVE j \in F
    BY <1>7, <2>2
  <2> HIDE DEF F
  <2>3. \A i \in 1 .. n + 1 : i \in F
    BY <2>1, <2>2, Downward
  <2>4. 1 \in 1 .. n + 1
    BY <1>1
  <2> QED
    BY <2>3, <2>4 DEF F
<1>12. Filled(text, f[1], 1, name, d)
  <2>1. PICK y \in Texts : y = f[1]
    BY <1>1, <1>3
  <2>2. Glue(text, 1, y) = y
    <3>1. 1 - 1 = 0 /\ SubSeq(text, 1, 0) = << >> /\ << >> \o y = y
      BY SubSeqEmpty, ConcatEmptySeq DEF Texts
    <3> QED
      BY <3>1 DEF Glue
  <2> QED
    BY <1>8, <2>1, <2>2 DEF P, H
<1>13. Fill(text, name, v, d) = f[1]
  BY <1>3 DEF Fill, s
<1> DEFINE o == f[1]
<1>14. Filled(text, o, 1, name, d)
  BY <1>12
<1> HIDE DEF o
<1>15. o \in Texts /\ Sealed(o, d)
  BY <1>14 DEF Filled
<1>16. ASSUME NEW h \in Holes(o, d)
      PROVE  NameAt(o, h, d) \in placeholdersIn(text, d) \ {name}
  <2>1. h[1] >= 1
    <3>1. h[1] \in 1 .. Len(o) /\ Len(o) \in Nat
      BY <1>15, HoleIs
    <3> QED
      BY <3>1
  <2> QED
    BY <1>14, <2>1 DEF Filled
<1>17. placeholdersIn(o, d) \subseteq placeholdersIn(text, d) \ {name}
  BY <1>16 DEF placeholdersIn
<1> QED
  BY <1>13, <1>15, <1>17 DEF o

-----------------------------------------------------------------------------
\* Which values are inert, and which texts are sealed.

LEMMA BracelessInert ==
  ASSUME NEW v \in Texts, ToSet(v) \cap Braces = {}
  PROVE  Inert(v, 1)
<1> SUFFICES ASSUME NEW j \in Nat, ClosesAt(v, j, 1) PROVE FALSE
  BY DEF Inert
<1>1. j \in 1 .. Len(v) /\ v[j] = Close
  <2>1. j \in 1 .. Len(v) - 1 + 1 /\ (\A k \in j .. j + 1 - 1 : v[k] = Close) /\ Len(v) \in Nat
    BY LenProperties DEF ClosesAt, Texts
  <2> QED
    BY <2>1
<1>2. DOMAIN v = 1 .. Len(v)
  BY LenProperties DEF Texts
<1> QED
  BY <1>1, <1>2 DEF ToSet, Braces

LEMMA ClearSealed ==
  ASSUME NEW w \in Texts, NEW d \in {1, 2}, IsClear(w, d)
  PROVE  Sealed(w, d)
<1>1. /\ DOMAIN w = 1 .. Len(w) /\ Len(w) \in Nat /\ d \in Nat
      /\ \A k \in 1 .. Len(w) : w[k] \in Braces => \E h \in Holes(w, d) : k \in h[1] .. h[2]
      /\ \A g, h \in Holes(w, d) : h[1] # g[2] + 1
  BY LenProperties DEF Texts, IsClear, NoStrayBrace, HolesApart
<1>2. ASSUME NEW j \in Nat, EndsWord(w, j, d) PROVE \E h \in Holes(w, d) : h[2] = j + d - 1
  <2>1. j \in 1 .. Len(w) /\ w[j] = Close /\ j > 1 /\ w[j - 1] \in Words
    <3>1. j \in 1 .. Len(w) - d + 1 /\ j \in j .. j + d - 1
      BY <1>1, <1>2 DEF EndsWord, ClosesAt
    <3> QED
      BY <1>1, <1>2, <3>1 DEF EndsWord, ClosesAt
  <2>2. PICK h \in Holes(w, d) : j \in h[1] .. h[2]
    BY <1>1, <2>1 DEF Braces
  <2>3. PICK a \in Nat, b \in Nat :
          /\ a = h[1] /\ b = h[2] /\ a >= 1
          /\ \A k \in a .. a + d - 1 : w[k] = Open
          /\ \A k \in a + d .. b - d : w[k] \in Words
          /\ \A k \in b - d + 1 .. b : w[k] = Close
    BY HoleIs
  <2>4. j \in b - d + 1 .. b
    <3>1. j \notin a .. a + d - 1 /\ j \notin a + d .. b - d
      BY <2>1, <2>3, TokensApart
    <3> QED
      BY <1>1, <2>2, <2>3, <3>1
  <2>5. j - 1 \notin b - d + 1 .. b
    BY <2>1, <2>3, TokensApart
  <2>6. b = j + d - 1
    BY <1>1, <2>4, <2>5
  <2> QED
    BY <2>3, <2>6
<1>3. ASSUME NEW h \in Holes(w, d)
      PROVE  /\ h[1] > 1 => w[h[1] - 1] \notin Braces
             /\ h[2] < Len(w) => w[h[2] + 1] \notin Braces
  <2>1. PICK a \in Nat, b \in Nat :
          /\ a = h[1] /\ b = h[2] /\ a + 2 * d <= b /\ a >= 1 /\ b <= Len(w)
          /\ \A k \in a .. a + d - 1 : w[k] = Open
          /\ \A k \in b - d + 1 .. b : w[k] = Close
    BY <1>1, HoleIs
  <2>2. ASSUME NEW k \in 1 .. Len(w), w[k] \in Braces, k = a - 1 \/ k = b + 1 PROVE FALSE
    <3>1. PICK g \in Holes(w, d) : k \in g[1] .. g[2]
      BY <1>1, <2>2
    <3>2. PICK e \in Nat, f \in Nat :
            /\ e = g[1] /\ f = g[2] /\ e + 2 * d <= f
            /\ \A i \in e .. e + d - 1 : w[i] = Open
            /\ \A i \in e + d .. f - d : w[i] \in Words
            /\ \A i \in f - d + 1 .. f : w[i] = Close
      BY HoleIs
    <3>3. a # f + 1 /\ e # b + 1 /\ k \in e .. f /\ e + 2 * d <= f /\ d \in Nat /\ d >= 1
      BY <1>1, <2>1, <3>1, <3>2
    <3>4. CASE k = a - 1
      <4>0. a \in a .. a + d - 1 /\ a \in e + 1 .. f
        BY <3>3, <3>4
      <4>1. a \in e + 1 .. f /\ w[a] = Open
        BY <2>1, <4>0
      <4>2. a \in e .. e + d - 1
        <5>1. a \notin e + d .. f - d /\ a \notin f - d + 1 .. f
          BY <3>2, <4>1, TokensApart
        <5> QED
          BY <3>3, <4>0, <5>1
      <4>3. a + d - 1 \in e + d .. f - d /\ a + d - 1 \in a .. a + d - 1
        BY <3>3, <4>1, <4>2
      <4> QED
        BY <2>1, <3>2, <4>3, TokensApart
    <3>5. CASE k = b + 1
      <4>0. b \in b - d + 1 .. b /\ b \in e .. f - 1
        BY <3>3, <3>5
      <4>1. b \in e .. f - 1 /\ w[b] = Close
        BY <2>1, <4>0
      <4>2. b \in f - d + 1 .. f
        <5>1. b \notin e + d .. f - d /\ b \notin e .. e + d - 1
          BY <3>2, <4>1, TokensApart
        <5> QED
          BY <3>3, <4>0, <5>1
      <4>3. b - d + 1 \in e + d .. f - d /\ b - d + 1 \in b - d + 1 .. b
        BY <3>3, <4>1, <4>2
      <4> QED
        BY <2>1, <3>2, <4>3, TokensApart
    <3> QED
      BY <2>2, <3>4, <3>5
  <2>3. a > 1 => a - 1 \in 1 .. Len(w)
    BY <1>1, <2>1
  <2>4. b < Len(w) => b + 1 \in 1 .. Len(w)
    BY <1>1, <2>1
  <2> QED
    BY <2>1, <2>2, <2>3, <2>4
<1> QED
  BY <1>2, <1>3 DEF Sealed

\* What a neutral value closes twice it closes behind a blank.
BlankBefore(y) ==
  \A j \in Nat : ClosesAt(y, j, 2) => j > 1 /\ y[j - 1] = Blank

Parted == <<Close, Blank, Close>>

\* No closing pair stands in the first tokens of a parted text.
LEMMA PassesParted ==
  ASSUME NEW t \in Tokens, NEW z \in Texts, BlankBefore(z),
         NEW y \in Texts, Joins(<<t>>, z, y),
         t = Close /\ Len(z) > 0 => z[1] # Close
  PROVE  BlankBefore(y) /\ y[1] = t /\ Len(y) = 1 + Len(z)
<1>1. PICK q \in Nat : q = Len(z)
  BY LenProperties DEF Texts
<1> DEFINE p == <<t>>
<1>2. p \in Seq(Tokens) /\ Len(p) = 1 /\ p[1] = t
  OBVIOUS
<1> HIDE DEF p
<1>3. Len(y) = 1 + q /\ \A k \in 1 .. 1 + q : y[k] = IF k <= 1 THEN p[k] ELSE z[k - 1]
  <2>1. z \in Seq(Tokens) /\ y = p \o z
    BY DEF Texts, p, Joins
  <2>2. /\ Len(p \o z) = Len(p) + Len(z)
        /\ \A k \in 1 .. Len(p) + Len(z) :
             (p \o z)[k] = IF k <= Len(p) THEN p[k] ELSE z[k - Len(p)]
    BY <1>2, <2>1, ConcatProperties
  <2> QED
    BY <1>1, <1>2, <2>1, <2>2
<1>4. y[1] = t
  BY <1>2, <1>3
<1>5. ASSUME NEW k \in 1 .. q PROVE y[k + 1] = z[k]
  <2>1. k + 1 \in 1 .. 1 + q /\ ~ (k + 1 <= 1) /\ (k + 1) - 1 = k
    BY <1>1
  <2> QED
    BY <1>3, <2>1
<1>6. ASSUME NEW j \in Nat, ClosesAt(y, j, 2) PROVE j > 1 /\ y[j - 1] = Blank
  <2>1. j \in 1 .. q /\ y[j] = Close /\ y[j + 1] = Close
    <3>1. j \in 1 .. Len(y) - 2 + 1 /\ \A k \in j .. j + 2 - 1 : y[k] = Close
      BY <1>6 DEF ClosesAt
    <3>2. j \in j .. j + 2 - 1 /\ j + 1 \in j .. j + 2 - 1 /\ j \in 1 .. q
      BY <1>1, <1>3, <3>1
    <3> QED
      BY <3>1, <3>2
  <2>2. z[j] = Close
    BY <1>5, <2>1
  <2>3. j # 1
    <3> SUFFICES ASSUME j = 1 PROVE FALSE
      OBVIOUS
    <3>1. t = Close /\ z[1] = Close /\ Len(z) > 0
      BY <1>1, <1>4, <2>1, <2>2
    <3> QED
      BY <3>1
  <2>4. PICK i \in Nat : j = i + 1 /\ i \in 1 .. q
    <3>1. j - 1 \in 1 .. q /\ j = (j - 1) + 1
      BY <1>1, <2>1, <2>3
    <3> QED
      BY <3>1
  <2>5. z[i] = Close /\ z[i + 1] = Close /\ i + 1 <= q
    BY <1>5, <2>1, <2>2, <2>4
  <2>6. ClosesAt(z, i, 2)
    <3>1. i \in 1 .. Len(z) - 2 + 1
      BY <1>1, <2>4, <2>5
    <3>2. \A k \in i .. i + 2 - 1 : k = i \/ k = i + 1
      BY <2>4
    <3> QED
      BY <2>5, <3>1, <3>2 DEF ClosesAt
  <2>7. i > 1 /\ z[i - 1] = Blank
    BY <2>6 DEF BlankBefore
  <2>8. i - 1 \in 1 .. q /\ (i - 1) + 1 = j - 1
    BY <1>1, <2>4, <2>7
  <2>9. y[(i - 1) + 1] = z[i - 1]
    BY <1>5, <2>8
  <2> QED
    BY <2>4, <2>7, <2>8, <2>9
<1> QED
  BY <1>1, <1>3, <1>4, <1>6 DEF BlankBefore

LEMMA PartsParted ==
  ASSUME NEW z \in Texts, BlankBefore(z), NEW y \in Texts, Joins(Parted, z, y)
  PROVE  BlankBefore(y) /\ y[1] = Close /\ Len(y) = 3 + Len(z)
<1>1. PICK q \in Nat : q = Len(z)
  BY LenProperties DEF Texts
<1>2. /\ Parted \in Seq(Tokens) /\ Len(Parted) = 3
      /\ Parted[1] = Close /\ Parted[2] = Blank /\ Parted[3] = Close
  BY TokensApart DEF Parted
<1>3. Len(y) = 3 + q /\ \A k \in 1 .. 3 + q : y[k] = IF k <= 3 THEN Parted[k] ELSE z[k - 3]
  <2>1. z \in Seq(Tokens) /\ y = Parted \o z
    BY DEF Texts, Joins
  <2>2. /\ Len(Parted \o z) = Len(Parted) + Len(z)
        /\ \A k \in 1 .. Len(Parted) + Len(z) :
             (Parted \o z)[k] = IF k <= Len(Parted) THEN Parted[k] ELSE z[k - Len(Parted)]
    BY <1>2, <2>1, ConcatProperties
  <2> QED
    BY <1>1, <1>2, <2>1, <2>2
<1>4. y[1] = Close /\ y[2] = Blank /\ y[3] = Close
  <2>1. 1 \in 1 .. 3 + q /\ 2 \in 1 .. 3 + q /\ 3 \in 1 .. 3 + q
    OBVIOUS
  <2> QED
    BY <1>2, <1>3, <2>1
<1>5. ASSUME NEW k \in 1 .. q PROVE y[k + 3] = z[k]
  <2>1. k + 3 \in 1 .. 3 + q /\ ~ (k + 3 <= 3) /\ (k + 3) - 3 = k
    BY <1>1
  <2> QED
    BY <1>3, <2>1
<1>6. ASSUME NEW j \in Nat, ClosesAt(y, j, 2) PROVE j > 1 /\ y[j - 1] = Blank
  <2>1. j \in 1 .. 2 + q /\ y[j] = Close /\ y[j + 1] = Close
    <3>1. j \in 1 .. Len(y) - 2 + 1 /\ \A k \in j .. j + 2 - 1 : y[k] = Close
      BY <1>6 DEF ClosesAt
    <3>2. j \in j .. j + 2 - 1 /\ j + 1 \in j .. j + 2 - 1 /\ j \in 1 .. 2 + q
      BY <1>1, <1>3, <3>1
    <3> QED
      BY <3>1, <3>2
  <2>2. j >= 3
    <3>1. j # 1 /\ j # 2
      BY <1>4, <2>1, TokensApart
    <3> QED
      BY <2>1, <3>1
  <2>3. CASE j = 3
    <3>1. j > 1 /\ j - 1 = 2
      BY <2>3
    <3> QED
      BY <1>4, <3>1
  <2>4. CASE j > 3
    <3>1. PICK i \in Nat : j = i + 3 /\ i \in 1 .. q /\ i + 1 \in 1 .. q /\ (i + 1) + 3 = j + 1
      <4>1. j - 3 \in 1 .. q /\ j = (j - 3) + 3 /\ (j - 3) + 1 \in 1 .. q
            /\ ((j - 3) + 1) + 3 = j + 1
        BY <1>1, <2>1, <2>4
      <4> QED
        BY <4>1
    <3>2. z[i] = Close /\ z[i + 1] = Close
      BY <1>5, <2>1, <3>1
    <3>3. ClosesAt(z, i, 2)
      <4>1. i \in 1 .. Len(z) - 2 + 1
        BY <1>1, <3>1
      <4>2. \A k \in i .. i + 2 - 1 : k = i \/ k = i + 1
        BY <3>1
      <4> QED
        BY <3>2, <4>1, <4>2 DEF ClosesAt
    <3>4. i > 1 /\ z[i - 1] = Blank
      BY <3>3 DEF BlankBefore
    <3>5. i - 1 \in 1 .. q /\ (i - 1) + 3 = j - 1
      BY <1>1, <3>1, <3>4
    <3>6. y[(i - 1) + 3] = z[i - 1]
      BY <1>5, <3>5
    <3> QED
      BY <3>1, <3>4, <3>5, <3>6
  <2> QED
    BY <2>2, <2>3, <2>4
<1> QED
  BY <1>1, <1>3, <1>4, <1>6 DEF BlankBefore

LEMMA NeutralInert ==
  ASSUME NEW value \in Texts
  PROVE  Neutral(value) \in Texts /\ Inert(Neutral(value), 2)
<1>1. \A b \in Braces : <<b, b>> \in Texts /\ Len(<<b, b>>) = 2 /\ <<b, Blank, b>> \in Texts
  BY TokensApart DEF Braces, Texts
<1>2. PICK u \in Texts : u = replaceAll(value, <<Open, Open>>, <<Open, Blank, Open>>)
  <2>1. /\ <<Open, Open>> \in Texts /\ Len(<<Open, Open>>) > 0
        /\ <<Open, Blank, Open>> \in Texts
    BY <1>1 DEF Braces
  <2>2. \E f \in [1 .. Len(value) + 1 -> Texts] :
          replaceAll(value, <<Open, Open>>, <<Open, Blank, Open>>) = f[1]
    BY <2>1, ReplaceIs
  <2>3. 1 \in 1 .. Len(value) + 1
    BY LenProperties DEF Texts
  <2> QED
    BY <2>2, <2>3
<1> DEFINE s == <<Close, Close>>
<1>3. s \in Texts /\ Len(s) = 2 /\ Parted \in Texts /\ s[1] = Close /\ s[2] = Close
  BY <1>1 DEF Braces, Parted
<1> HIDE DEF s
<1>4. PICK n \in Nat : n = Len(u)
  BY LenProperties DEF Texts
<1>5. PICK f \in [1 .. n + 1 -> Texts] :
        /\ replaceAll(u, s, Parted) = f[1]
        /\ \A i \in 1 .. n + 1 : Scans(f, u, s, Parted, i)
  <2>1. Len(s) > 0
    BY <1>3
  <2>2. \E f \in [1 .. Len(u) + 1 -> Texts] :
          /\ replaceAll(u, s, Parted) = f[1]
          /\ \A i \in 1 .. Len(u) + 1 : Scans(f, u, s, Parted, i)
    BY <1>3, <2>1, ReplaceIs
  <2> QED
    BY <1>4, <2>2
<1> DEFINE P(i) == /\ BlankBefore(f[i])
                   /\ i <= n => f[i][1] = u[i]
                   /\ i = n + 1 => Len(f[i]) = 0
           F == {i \in Nat : P(i)}
<1>6. P(n + 1)
  <2>1. f[n + 1] = << >>
    <3>1. Scans(f, u, s, Parted, n + 1) /\ n + 1 > Len(u)
      BY <1>4, <1>5
    <3> QED
      BY <3>1 DEF Scans
  <2>2. Len(<< >>) = 0
    OBVIOUS
  <2>3. BlankBefore(<< >>)
    BY <2>2 DEF BlankBefore, ClosesAt
  <2> QED
    BY <1>4, <2>1, <2>2, <2>3
<1>7. ASSUME NEW j \in 1 .. n, \A i \in j + 1 .. n + 1 : P(i) PROVE P(j)
  <2>1. Scans(f, u, s, Parted, j) /\ ~ (j > Len(u)) /\ j \in Nat /\ j >= 1
    BY <1>4, <1>5
  <2>2. PICK y \in Texts : y = f[j]
    BY <1>5
  <2>3. PICK z \in Texts : z = f[j + 1]
    BY <1>5
  <2>4. BlankBefore(z) /\ (j + 1 <= n => z[1] = u[j + 1]) /\ (j + 1 = n + 1 => Len(z) = 0)
    BY <1>7, <2>3
  <2>5. Occurs(s, u, j) <=> j + 1 <= n /\ u[j] = Close /\ u[j + 1] = Close
    <3>1. Len(s) > 0
      BY <1>3
    <3>2. Occurs(s, u, j) <=> /\ j + Len(s) <= Len(u) + 1
                             /\ \A k \in 1 .. Len(s) : u[j + k - 1] = s[k]
      BY <1>3, <2>1, <3>1, OccursIs
    <3>3. j + 2 <= n + 1 <=> j + 1 <= n
      BY <2>1, <1>4
    <3>4. (\A k \in 1 .. 2 : u[j + k - 1] = s[k]) <=> u[j] = Close /\ u[j + 1] = Close
      <4>1. j + 1 - 1 = j /\ j + 2 - 1 = j + 1 /\ 1 .. 2 = {1, 2}
        BY <2>1
      <4> QED
        BY <1>3, <4>1
    <3> QED
      BY <1>3, <1>4, <3>2, <3>3, <3>4
  <2>6. CASE ~ Occurs(s, u, j)
    <3>1. Joins(<<u[j]>>, z, y)
      BY <2>1, <2>2, <2>3, <2>6 DEF Scans, Joins
    <3>2. u[j] \in Tokens
      BY <1>4, ElementOfSeq DEF Texts
    <3>3. u[j] = Close /\ Len(z) > 0 => z[1] # Close
      BY <1>4, <2>1, <2>4, <2>5, <2>6
    <3>4. BlankBefore(y) /\ y[1] = u[j]
      BY <2>4, <3>1, <3>2, <3>3, PassesParted
    <3> QED
      BY <2>1, <2>2, <3>4
  <2>7. CASE Occurs(s, u, j)
    <3>1. PICK x \in Texts : x = f[j + 2]
      BY <1>5, <2>5, <2>7
    <3>2. Joins(Parted, x, y)
      BY <1>3, <2>1, <2>2, <2>7, <3>1 DEF Scans, Joins
    <3>3. BlankBefore(x)
      BY <1>7, <2>5, <2>7, <3>1
    <3>4. BlankBefore(y) /\ y[1] = Close
      BY <3>2, <3>3, PartsParted
    <3> QED
      BY <2>1, <2>2, <2>5, <2>7, <3>4
  <2> QED
    BY <2>6, <2>7
<1> HIDE DEF P
<1>8. P(1)
  <2>1. n + 1 \in F
    BY <1>6
  <2>2. ASSUME NEW j \in 1 .. n, \A i \in j + 1 .. n + 1 : i \in F PROVE j \in F
    BY <1>7, <2>2
  <2> HIDE DEF F
  <2>3. \A i \in 1 .. n + 1 : i \in F
    BY <2>1, <2>2, Downward
  <2>4. 1 \in 1 .. n + 1
    BY <1>4
  <2> QED
    BY <2>3, <2>4 DEF F
<1>9. Neutral(value) = f[1] /\ f[1] \in Texts
  <2>1. replaceAll(u, s, Parted) = f[1]
    BY <1>5
  <2>2. Neutral(value) = replaceAll(u, s, Parted)
    BY <1>2 DEF Neutral, s, Parted
  <2>3. 1 \in 1 .. n + 1
    BY <1>4
  <2> QED
    BY <1>5, <2>1, <2>2, <2>3
<1>10. BlankBefore(f[1])
  BY <1>8 DEF P
<1>11. Inert(f[1], 2)
  BY <1>10, TokensApart DEF Inert, BlankBefore
<1> QED
  BY <1>9, <1>11

-----------------------------------------------------------------------------
\* All given, one after the other.

LEMMA VarIs ==
  ASSUME NEW given \in Bindings
  PROVE  /\ Len(given) \in Nat /\ DOMAIN given = 1 .. Len(given)
         /\ \A i \in 1 .. Len(given) :
              given[i][1] \in PlaceholderNames /\ given[i][2] \in Texts
<1>1. given \in Seq(PlaceholderNames \X Texts)
  BY DEF Bindings
<1>2. Len(given) \in Nat /\ DOMAIN given = 1 .. Len(given)
  BY <1>1, LenProperties
<1>3. ASSUME NEW i \in 1 .. Len(given)
      PROVE  given[i][1] \in PlaceholderNames /\ given[i][2] \in Texts
  <2>1. given[i] \in PlaceholderNames \X Texts
    BY <1>1, ElementOfSeq
  <2> QED
    BY <2>1
<1> QED
  BY <1>2, <1>3

\* The text with the first i given filled in.
FillsTo(g, text, given, d, i) ==
  g[i] = IF i = 0 THEN text ELSE Fill(g[i - 1], given[i][1], given[i][2], d)

LEMMA FillAllIs ==
  ASSUME NEW text, NEW given \in Bindings, NEW d
  PROVE  \E f : /\ FillAll(text, given, d) = f[Len(given)]
                /\ \A i \in 0 .. Len(given) : FillsTo(f, text, given, d, i)
<1> DEFINE n == Len(given)
           Body(g) == [i \in 0 .. n |-> IF i = 0 THEN text
                                       ELSE Fill(g[i - 1], given[i][1], given[i][2], d)]
           f == CHOOSE g : g = Body(g)
           F == {m \in Nat : \E g : \A i \in 0 .. m : FillsTo(g, text, given, d, i)}
<1>1. n \in Nat
  BY VarIs
<1>2. FillAll(text, given, d) = f[n]
  BY DEF FillAll
<1>3. 0 \in F
  <2> DEFINE g == [i \in 0 .. 0 |-> text]
  <2>1. \A i \in 0 .. 0 : FillsTo(g, text, given, d, i)
    BY DEF FillsTo
  <2> HIDE DEF g
  <2> QED
    BY <2>1
<1>4. ASSUME NEW m \in 0 .. n - 1, m \in F PROVE m + 1 \in F
  <2>1. PICK g : \A i \in 0 .. m : FillsTo(g, text, given, d, i)
    BY <1>4
  <2>2. m \in Nat /\ m + 1 \in Nat
    OBVIOUS
  <2> DEFINE h == [i \in 0 .. m + 1 |-> IF i <= m THEN g[i]
                                       ELSE Fill(g[m], given[m + 1][1], given[m + 1][2], d)]
  <2>3. /\ \A i \in 0 .. m : h[i] = g[i]
        /\ h[m + 1] = Fill(g[m], given[m + 1][1], given[m + 1][2], d)
    BY <2>2
  <2> HIDE DEF h
  <2>4. ASSUME NEW i \in 0 .. m + 1 PROVE FillsTo(h, text, given, d, i)
    <3>1. CASE i <= m
      <4>1. i \in 0 .. m /\ (i # 0 => i - 1 \in 0 .. m)
        BY <2>2, <3>1
      <4>2. FillsTo(g, text, given, d, i)
        BY <2>1, <4>1
      <4> QED
        BY <2>3, <4>1, <4>2 DEF FillsTo
    <3>2. CASE i = m + 1
      <4>1. i # 0 /\ i - 1 = m /\ m \in 0 .. m
        BY <2>2, <3>2
      <4> QED
        BY <2>3, <3>2, <4>1 DEF FillsTo
    <3> QED
      BY <2>2, <3>1, <3>2
  <2> QED
    BY <2>2, <2>4
<1>5. PICK g : \A i \in 0 .. n : FillsTo(g, text, given, d, i)
  <2> HIDE DEF F, n
  <2>1. \A m \in 0 .. n - 1 : m \in F => m + 1 \in F
    BY <1>4
  <2>2. \A m \in 0 .. n : m \in F
    BY <1>1, <1>3, <2>1, Counting
  <2>3. n \in F
    BY <1>1, <2>2
  <2> QED
    BY <2>3 DEF F
<1> DEFINE e == [i \in 0 .. n |-> g[i]]
<1>6. e = Body(e)
  <2>1. ASSUME NEW i \in 0 .. n PROVE e[i] = Body(e)[i]
    <3>1. i # 0 => i - 1 \in 0 .. n
      BY <1>1
    <3>2. FillsTo(g, text, given, d, i)
      BY <1>5
    <3> QED
      BY <3>1, <3>2 DEF FillsTo
  <2> QED
    BY <2>1
<1>7. f = Body(f)
  <2> HIDE DEF Body, e
  <2> QED
    BY <1>6
<1>8. ASSUME NEW i \in 0 .. n PROVE FillsTo(f, text, given, d, i)
  <2>1. f[i] = Body(f)[i]
    BY <1>7
  <2> HIDE DEF f
  <2> QED
    BY <2>1 DEF FillsTo
<1> HIDE DEF f
<1> QED
  BY <1>2, <1>8

\* Inert given in a sealed text: what is left are its placeholders that none of them names.
LEMMA HolesLeft ==
  ASSUME NEW text \in Texts, NEW d \in {1, 2}, Sealed(text, d), NEW given \in Bindings,
         \A i \in 1 .. Len(given) : Inert(given[i][2], d)
  PROVE  placeholdersIn(FillAll(text, given, d), d) \subseteq
           placeholdersIn(text, d) \ Names(given)
<1> DEFINE n == Len(given)
<1>1. /\ n \in Nat /\ DOMAIN given = 1 .. n
      /\ \A i \in 1 .. n : given[i][1] \in PlaceholderNames /\ given[i][2] \in Texts
                         /\ Inert(given[i][2], d)
  BY VarIs
<1>2. PICK f : /\ FillAll(text, given, d) = f[n]
              /\ \A i \in 0 .. n : FillsTo(f, text, given, d, i)
  BY FillAllIs
<1> HIDE DEF n
<1> DEFINE P(i) == /\ f[i] \in Texts /\ Sealed(f[i], d)
                   /\ placeholdersIn(f[i], d) \subseteq
                        placeholdersIn(text, d) \ {given[k][1] : k \in 1 .. i}
           F == {i \in Nat : P(i)}
<1>3. 0 \in F
  <2>1. f[0] = text
    BY <1>1, <1>2 DEF FillsTo
  <2>2. {given[k][1] : k \in 1 .. 0} = {}
    OBVIOUS
  <2> QED
    BY <2>1, <2>2
<1>4. ASSUME NEW i \in 0 .. n - 1, i \in F PROVE i + 1 \in F
  <2>1. PICK j \in 1 .. n : j = i + 1 /\ j - 1 = i /\ j # 0 /\ j \in 0 .. n
    BY <1>1
  <2>2. PICK x \in Texts : x = f[i]
    BY <1>4
  <2>3. PICK name \in PlaceholderNames, v \in Texts :
          name = given[j][1] /\ v = given[j][2] /\ Inert(v, d)
    BY <1>1
  <2>4. FillsTo(f, text, given, d, j)
    BY <1>2, <2>1
  <2>5. f[j] = Fill(x, name, v, d)
    BY <2>1, <2>2, <2>3, <2>4 DEF FillsTo
  <2>6. Sealed(x, d) /\ placeholdersIn(x, d) \subseteq
                          placeholdersIn(text, d) \ {given[k][1] : k \in 1 .. i}
    BY <1>4, <2>2
  <2>7. /\ Fill(x, name, v, d) \in Texts /\ Sealed(Fill(x, name, v, d), d)
        /\ placeholdersIn(Fill(x, name, v, d), d) \subseteq placeholdersIn(x, d) \ {name}
    BY <2>3, <2>6, FillSeals
  <2>8. {given[k][1] : k \in 1 .. j} \subseteq {given[k][1] : k \in 1 .. i} \cup {name}
    <3>1. \A k \in 1 .. j : k \in 1 .. i \/ k = j
      BY <1>1, <2>1
    <3> QED
      BY <2>3, <3>1
  <2>9. placeholdersIn(f[j], d) \subseteq
          placeholdersIn(text, d) \ {given[k][1] : k \in 1 .. j}
    BY <2>5, <2>6, <2>7, <2>8
  <2>10. P(j) /\ j \in Nat
    BY <1>1, <2>5, <2>7, <2>9
  <2> HIDE DEF P
  <2> QED
    BY <2>1, <2>10
<1>5. n \in F
  <2> HIDE DEF F
  <2>1. \A i \in 0 .. n : i \in F
    BY <1>1, <1>3, <1>4, Counting
  <2> QED
    BY <1>1, <2>1
<1>6. Names(given) = {given[k][1] : k \in 1 .. n}
  BY <1>1 DEF Names
<1> QED
  BY <1>2, <1>5, <1>6

\* The prompt store's given are inert in a prompt.
LEMMA NeutralVarsInert ==
  ASSUME NEW given \in Bindings
  PROVE  /\ NeutralVars(given) \in Bindings /\ Names(NeutralVars(given)) = Names(given)
         /\ \A i \in 1 .. Len(NeutralVars(given)) : Inert(NeutralVars(given)[i][2], 2)
<1> DEFINE neutral == NeutralVars(given)
<1>1. /\ Len(given) \in Nat /\ DOMAIN given = 1 .. Len(given)
      /\ \A i \in 1 .. Len(given) : given[i][1] \in PlaceholderNames /\ given[i][2] \in Texts
      /\ \A i, j \in 1 .. Len(given) : given[i][1] = given[j][1] => i = j
  BY VarIs DEF Bindings
<1>2. /\ DOMAIN neutral = 1 .. Len(given)
      /\ \A i \in 1 .. Len(given) : neutral[i] = <<given[i][1], Neutral(given[i][2])>>
      /\ neutral = [i \in 1 .. Len(given) |-> neutral[i]]
  BY <1>1 DEF NeutralVars
<1> HIDE DEF neutral
<1>3. \A i \in 1 .. Len(given) : Neutral(given[i][2]) \in Texts /\ Inert(Neutral(given[i][2]), 2)
  BY <1>1, NeutralInert
<1>4. neutral \in Seq(PlaceholderNames \X Texts)
  <2>1. ASSUME NEW i \in 1 .. Len(given) PROVE neutral[i] \in PlaceholderNames \X Texts
    <3>1. given[i][1] \in PlaceholderNames /\ Neutral(given[i][2]) \in Texts
      BY <1>1, <1>3
    <3>2. neutral[i] = <<given[i][1], Neutral(given[i][2])>>
      BY <1>2
    <3> QED
      BY <3>1, <3>2
  <2> QED
    BY <1>1, <1>2, <2>1
<1>5. \A i \in 1 .. Len(given) : neutral[i][1] = given[i][1] /\ neutral[i][2] = Neutral(given[i][2])
  BY <1>2
<1>6. neutral \in Bindings
  BY <1>1, <1>2, <1>4, <1>5 DEF Bindings
<1>7. Len(neutral) = Len(given)
  BY <1>1, <1>2
<1>8. Names(neutral) = Names(given)
  BY <1>1, <1>2, <1>5 DEF Names
<1> QED
  BY <1>3, <1>5, <1>6, <1>7, <1>8 DEF neutral

-----------------------------------------------------------------------------
\* The ladder's tally.

SoundFor(f, v) == IF f = "prompt" THEN promptGate(v) ELSE evalScaffoldSpec(Key, v)
RenderFor(f, v, given) ==
  IF f = "prompt" THEN renderPinned(v.text, given) ELSE renderCommand(v, given)

LEMMA SoundIs == ASSUME NEW v PROVE Sound(v) = SoundFor(facade, v)
  BY DEF Sound, SoundFor

LEMMA RenderIs ==
  ASSUME NEW v, NEW given PROVE Render(v, given) = RenderFor(facade, v, given)
  BY DEF Render, RenderFor

\* The place p of a ladder is behind the run.
Rank == [deterministic |-> 0, golden |-> 1, judge |-> 2, verdict |-> 3]
Behind(run, p) == \/ Rank[p[1]] < Rank[run.at]
                  \/ p[1] = run.at /\ p[2] < run.case

\* A run stands at a case, of a tier that is there.
Standing(run) ==
  /\ run.at \in {"deterministic", "verdict"} => run.case = 0
  /\ run.at \in {"golden", "judge"} => run.case \in 1 .. Cases(run.at)
  /\ run.at = "judge" => run.judge

\* The cases a run comes to.
Visited(judge) ==
  {<<"deterministic", 0>>} \cup ({"golden"} \X DOMAIN GoldenCases)
    \cup (IF judge THEN {"judge"} \X DOMAIN JudgeCases ELSE {})

\* Value v fails the case p, for the scores given.
Fails(f, v, judge, scores, p) ==
  \/ p[1] = "deterministic" /\ p[2] = 0 /\ ~ SoundFor(f, v)
  \/ /\ p[1] = "golden" /\ p[2] \in DOMAIN GoldenCases
     /\ GoldenFails(GoldenCases[p[2]], RenderFor(f, v, GoldenCases[p[2]].input))
  \/ /\ p[1] = "judge" /\ p[2] \in DOMAIN JudgeCases
     /\ \/ judge /\ RenderFor(f, v, JudgeCases[p[2]].input).threw # "no"
        \/ scores[p[2]] = "low"

\* The run goes on at the case of that tier, with its own case behind it.
Follows(run, at, case) ==
  /\ at # "deterministic" /\ case <= Cases(at)
  /\ at = "verdict" => case = 0
  /\ at \in {"golden", "judge"} => case \in 1 .. Cases(at)
  /\ at = "judge" => run.judge
  /\ \A p \in Visited(run.judge) :
       (\/ Rank[p[1]] < Rank[at]
        \/ p[1] = at /\ p[2] < case)
       <=> Behind(run, p) \/ (p[1] = run.at /\ p[2] = run.case)

LEMMA CasesAre ==
  /\ DOMAIN GoldenCases = 1 .. Len(GoldenCases) /\ Len(GoldenCases) \in Nat
  /\ DOMAIN JudgeCases = 1 .. Len(JudgeCases) /\ Len(JudgeCases) \in Nat
  /\ \A at : Cases(at) \in Nat
<1>1. /\ DOMAIN GoldenCases = 1 .. Len(GoldenCases) /\ Len(GoldenCases) \in Nat
      /\ DOMAIN JudgeCases = 1 .. Len(JudgeCases) /\ Len(JudgeCases) \in Nat
  BY CasesAssumption, LenProperties
<1> QED
  BY <1>1 DEF Cases

LEMMA RunIs ==
  ASSUME NEW run \in Runs
  PROVE  /\ run.at \in Positions /\ run.case \in Nat /\ run.judge \in BOOLEAN
         /\ run.failures \subseteq Positions \X Nat /\ run.case <= Cases(run.at)
  BY DEF Runs

\* A case is recorded, and the run goes on behind it, to the next that there is.
LEMMA RecordIs ==
  ASSUME NEW run \in Runs, Standing(run), run.at # "verdict", NEW failed \in BOOLEAN
  PROVE  LET to == Record(run, failed) IN
         /\ to \in Runs /\ Standing(to) /\ to.at # "deterministic" /\ to.judge = run.judge
         /\ to.failures = run.failures \cup (IF failed THEN {<<run.at, run.case>>} ELSE {})
         /\ <<run.at, run.case>> \in Visited(run.judge)
         /\ \A p \in Visited(run.judge) :
              Behind(to, p) <=> Behind(run, p) \/ p = <<run.at, run.case>>
<1> DEFINE r == IF failed THEN Failing(run) ELSE run
           to == Record(run, failed)
<1>0. /\ run.at \in Positions /\ run.case \in Nat /\ run.judge \in BOOLEAN
      /\ run.failures \subseteq Positions \X Nat /\ run.case <= Cases(run.at)
  BY RunIs
<1>1. /\ r \in [at : Positions, case : Nat, judge : BOOLEAN, failures : SUBSET (Positions \X Nat)]
      /\ r.at = run.at /\ r.case = run.case /\ r.judge = run.judge
      /\ r.failures = run.failures \cup (IF failed THEN {<<run.at, run.case>>} ELSE {})
  <2>1. run \in [at : Positions, case : Nat, judge : BOOLEAN, failures : SUBSET (Positions \X Nat)]
    BY DEF Runs
  <2> QED
    BY <1>0, <2>1 DEF Failing
<1>2. to = Onward(r)
  BY DEF Record
<1> HIDE DEF r, to
<1>3. PICK at \in Positions, case \in Nat :
        Onward(r) = Goto(r, at, case) /\ Follows(run, at, case)
  <2> USE CasesAre
  <2>0. /\ Cases("deterministic") = 0 /\ Cases("golden") \in Nat /\ Cases("judge") \in Nat
        /\ \A p \in Visited(run.judge) :
             \/ p[1] = "deterministic" /\ p[2] = 0
             \/ p[1] = "golden" /\ p[2] \in 1 .. Cases("golden")
             \/ p[1] = "judge" /\ run.judge /\ p[2] \in 1 .. Cases("judge")
    BY DEF Visited, Cases
  <2>1. CASE run.case < Cases(run.at)
    <3>1. run.at \in {"golden", "judge"}
      BY <1>0, <2>0, <2>1 DEF Cases, Positions
    <3>2. Onward(r) = Goto(r, run.at, run.case + 1)
      BY <1>0, <1>1, <2>1, <3>1 DEF Onward
    <3>3. Follows(run, run.at, run.case + 1)
      BY <1>0, <2>0, <2>1, <3>1 DEF Follows, Behind, Rank, Standing
    <3>4. run.case + 1 \in Nat
      BY <1>0
    <3> QED
      BY <1>0, <3>2, <3>3, <3>4
  <2>2. CASE run.at = "deterministic"
    <3>1. Onward(r) = Tier2(r) /\ run.case = 0
      BY <1>0, <1>1, <2>0, <2>2 DEF Onward, Standing
    <3>2. CASE Cases("golden") > 0
      <4>1. Follows(run, "golden", 1)
        BY <2>0, <2>2, <3>1, <3>2 DEF Follows, Behind, Rank
      <4> QED
        BY <3>1, <3>2, <4>1 DEF Tier2, Positions
    <3>3. CASE Cases("golden") = 0 /\ run.judge /\ Cases("judge") > 0
      <4>1. ASSUME NEW p \in Visited(run.judge)
            PROVE  (Rank[p[1]] < Rank["judge"] \/ (p[1] = "judge" /\ p[2] < 1)) <=>
                     (Behind(run, p) \/ (p[1] = run.at /\ p[2] = run.case))
        <5>1. CASE p[1] = "deterministic" /\ p[2] = 0
          BY <2>2, <3>1, <5>1 DEF Behind, Rank
        <5>2. CASE p[1] = "golden" /\ p[2] \in 1 .. Cases("golden")
          BY <2>0, <2>2, <3>1, <3>3, <5>2 DEF Behind, Rank
        <5>3. CASE p[1] = "judge" /\ p[2] \in 1 .. Cases("judge")
          BY <2>0, <2>2, <3>1, <5>3 DEF Behind, Rank
        <5> QED
          BY <2>0, <5>1, <5>2, <5>3
      <4>2. Follows(run, "judge", 1)
        <5>1. 1 <= Cases("judge") /\ 1 \in 1 .. Cases("judge") /\ "judge" # "verdict"
              /\ "judge" # "deterministic"
          BY <2>0, <3>3
        <5> QED
          BY <3>3, <4>1, <5>1, Zenon DEF Follows
      <4> QED
        BY <1>1, <3>1, <3>3, <4>2 DEF Tier2, Tier3, Positions
    <3>4. CASE Cases("golden") = 0 /\ ~ (run.judge /\ Cases("judge") > 0)
      <4>1. Follows(run, "verdict", 0)
        BY <2>0, <2>2, <3>1, <3>4 DEF Follows, Behind, Rank, Cases
      <4> QED
        BY <1>1, <3>1, <3>4, <4>1 DEF Tier2, Tier3, Positions
    <3> QED
      BY <2>0, <3>2, <3>3, <3>4
  <2>3. CASE run.at = "golden" /\ run.case = Cases("golden")
    <3>1. Onward(r) = Tier3(r) /\ run.case \in 1 .. Cases("golden")
      BY <1>1, <2>0, <2>3 DEF Onward, Standing
    <3>2. CASE run.judge /\ Cases("judge") > 0
      <4>1. ASSUME NEW p \in Visited(run.judge)
            PROVE  (Rank[p[1]] < Rank["judge"] \/ (p[1] = "judge" /\ p[2] < 1)) <=>
                     (Behind(run, p) \/ (p[1] = run.at /\ p[2] = run.case))
        <5>1. CASE p[1] = "deterministic" /\ p[2] = 0
          BY <2>3, <3>1, <5>1 DEF Behind, Rank
        <5>2. CASE p[1] = "golden" /\ p[2] \in 1 .. Cases("golden")
          BY <2>0, <2>3, <3>1, <3>2, <5>2 DEF Behind, Rank
        <5>3. CASE p[1] = "judge" /\ p[2] \in 1 .. Cases("judge")
          BY <2>0, <2>3, <3>1, <5>3 DEF Behind, Rank
        <5> QED
          BY <2>0, <5>1, <5>2, <5>3
      <4>2. Follows(run, "judge", 1)
        <5>1. 1 <= Cases("judge") /\ 1 \in 1 .. Cases("judge") /\ "judge" # "verdict"
              /\ "judge" # "deterministic"
          BY <2>0, <3>2
        <5> QED
          BY <3>2, <4>1, <5>1, Zenon DEF Follows
      <4> QED
        BY <1>1, <3>1, <3>2, <4>2 DEF Tier3, Positions
    <3>3. CASE ~ (run.judge /\ Cases("judge") > 0)
      <4>1. Follows(run, "verdict", 0)
        BY <2>0, <2>3, <3>1, <3>3 DEF Follows, Behind, Rank, Cases
      <4> QED
        BY <1>1, <3>1, <3>3, <4>1 DEF Tier3, Positions
    <3> QED
      BY <3>2, <3>3
  <2>4. CASE run.at = "judge" /\ run.case = Cases("judge")
    <3>1. Onward(r) = Goto(r, "verdict", 0) /\ run.case \in 1 .. Cases("judge")
      BY <1>1, <2>0, <2>4 DEF Onward, Standing
    <3>2. Follows(run, "verdict", 0)
      BY <2>0, <2>4, <3>1 DEF Follows, Behind, Rank, Cases
    <3> QED
      BY <3>1, <3>2 DEF Positions
  <2> QED
    BY <1>0, <2>0, <2>1, <2>2, <2>3, <2>4 DEF Positions
<1>4. /\ to.at = at /\ to.case = case /\ to.judge = run.judge /\ to.failures = r.failures
      /\ to \in [at : Positions, case : Nat, judge : BOOLEAN, failures : SUBSET (Positions \X Nat)]
  BY <1>1, <1>2, <1>3 DEF Goto
<1>5. to \in Runs /\ Standing(to)
  BY <1>1, <1>3, <1>4 DEF Runs, Standing, Follows
<1>6. <<run.at, run.case>> \in Visited(run.judge)
  BY <1>0, CasesAre DEF Standing, Visited, Cases, Positions
<1>7. \A p \in Visited(run.judge) : p = <<run.at, run.case>> <=> p[1] = run.at /\ p[2] = run.case
  BY DEF Visited
<1>8. \A p \in Visited(run.judge) : Behind(to, p) <=> Behind(run, p) \/ p = <<run.at, run.case>>
  BY <1>3, <1>4, <1>7 DEF Behind, Follows
<1> QED
  BY <1>1, <1>3, <1>4, <1>5, <1>6, <1>8 DEF to, Follows

-----------------------------------------------------------------------------
\* The invariant.

PayloadsFor(f) == IF f = "prompt" THEN Prompts ELSE Specs

Judging == {"promote", "seed", "sync"}

\* What a call's place asks of the rest of its record, over a history of len
\* versions and the default d.
Fits(d, len, cl) ==
  /\ cl.pc = "gate" => cl.op \in Judging
  /\ cl.pc = "ladder" => cl.op = "promote"
  /\ cl.op = "promote" => Standing(cl.run)
  /\ cl.pc = "add" => cl.op \in {"seed", "sync", "revert"}
  /\ cl.pc = "upsert" => cl.op \in Judging \cup {"revert"}
  /\ cl.pc \in {"gate", "add"} => cl.op = "promote" \/ d # None
  /\ cl.n <= len /\ (cl.op = "promote" \/ cl.pc = "upsert" => cl.n # 0)
  /\ cl.pc # "done" => cl.outcome = "pending"
  /\ cl.outcome \in {"rendered", "promoted"} => (cl.outcome = "rendered" <=> cl.op = "render")

\* A render that came about is that of the version, or of the default, it named.
Shows(f, d, V, cl) ==
  LET v == IF cl.n # 0 THEN V[cl.n] ELSE d IN
  cl.outcome = "rendered" =>
    /\ cl.given \in Inputs /\ v \in PayloadsFor(f)
    /\ cl.threw = RenderFor(f, v, cl.given).threw

\* A ladder's failures are those of the cases behind it.
Tallied(f, V, cl) ==
  cl.op = "promote" =>
    /\ cl.run.failures = {p \in Positions \X Nat :
         Behind(cl.run, p) /\ Fails(f, V[cl.n], cl.run.judge, cl.scores, p)}
    /\ \A i \in DOMAIN JudgeCases : cl.scores[i] = "low" =>
         cl.run.judge /\ Behind(cl.run, <<"judge", i>>)
    /\ cl.pc = "gate" => cl.run.at = "deterministic"
    /\ cl.run.at = "verdict" => /\ cl.pc = "upsert" => cl.run.failures = {}
                                /\ cl.pc = "done" =>
                                     (cl.outcome = "promoted" <=> cl.run.failures = {})

\* What a gate has judged is what is added or installed.
HoldsSound(f, d, V, cl) ==
  /\ cl.pc = "add" /\ cl.gated => SoundFor(f, d)
  /\ cl.pc = "upsert" /\ cl.gated => SoundFor(f, V[cl.n])

Good(f, d, V, cl) ==
  /\ Fits(d, Len(V), cl) /\ Shows(f, d, V, cl)
  /\ ~ Silent => Tallied(f, V, cl) /\ HoldsSound(f, d, V, cl)

Typed ==
  /\ facade \in {"prompt", "scaffold"} /\ default \in PayloadsFor(facade) \cup {None}
  /\ history \in [{Key} -> Seq(PayloadsFor(facade))] /\ Len(Versions) <= MaxVersion
  /\ pointer \in [{Key} -> [{"active"} -> Nat]] /\ Live <= Len(Versions)
  /\ judged \subseteq DOMAIN Versions
  /\ call \in [Callers -> Calls] /\ begun \in 0 .. MaxCalls

JudgedAreSound == \A n \in judged : SoundFor(facade, Versions[n])

FInv == /\ Typed
        /\ \A c \in Callers : Good(facade, default, Versions, call[c])
        /\ ~ Silent => JudgedAreSound

LEMMA CallIs ==
  ASSUME NEW cl \in Calls
  PROVE  /\ cl.n \in 0 .. MaxVersion /\ cl.n \in Nat /\ MaxVersion \in Nat /\ cl.run \in Runs
         /\ cl.scores \in [DOMAIN JudgeCases -> Scores \cup {"none"}]
         /\ cl.outcome \in {"pending", "promoted", "unchanged", "refused", "rejected",
                            "rendered", "handroll"}
         /\ cl.op \in {"none", "promote", "seed", "sync", "revert", "render"}
         /\ cl.pc \in {"gate", "ladder", "add", "upsert", "done"}
  BY FacadesAssumption DEF Calls

\* What is good of a call stays so while versions are added.
LEMMA GoodStays ==
  ASSUME NEW S, NEW V \in Seq(S), NEW W \in Seq(S), Len(V) <= Len(W),
         \A i \in 1 .. Len(V) : W[i] = V[i], NEW f, NEW d, NEW cl \in Calls, Good(f, d, V, cl)
  PROVE  Good(f, d, W, cl)
<1>1. cl.n \in Nat /\ Len(V) \in Nat /\ Len(W) \in Nat
  BY CallIs, LenProperties
<1>2. Fits(d, Len(V), cl) /\ Shows(f, d, V, cl)
  BY DEF Good
<1>3. cl.n <= Len(V)
  BY <1>2 DEF Fits
<1>4. cl.n # 0 => W[cl.n] = V[cl.n]
  BY <1>1, <1>3
<1>5. Fits(d, Len(W), cl)
  BY <1>1, <1>2, <1>3 DEF Fits
<1>6. Shows(f, d, W, cl)
  BY <1>2, <1>4 DEF Shows
<1>7. ASSUME ~ Silent
      PROVE  Tallied(f, W, cl) /\ HoldsSound(f, d, W, cl)
  <2>1. Tallied(f, V, cl) /\ HoldsSound(f, d, V, cl)
    BY <1>7 DEF Good
  <2>2. cl.op = "promote" \/ cl.pc = "upsert" => cl.n # 0
    BY <1>2 DEF Fits
  <2>3. Tallied(f, W, cl)
    BY <1>4, <2>1, <2>2 DEF Tallied
  <2>4. HoldsSound(f, d, W, cl)
    BY <1>4, <2>1, <2>2 DEF HoldsSound
  <2> QED
    BY <2>3, <2>4
<1> QED
  BY <1>5, <1>6, <1>7 DEF Good

\* The store grows, and calls other than those that cs names stay.
Grows ==
  /\ facade' = facade /\ default' = default
  /\ Len(Versions) <= Len(Versions')
  /\ \A i \in 1 .. Len(Versions) : Versions'[i] = Versions[i]

LEMMA OthersStayGood ==
  ASSUME FInv, Typed', Grows, NEW c \in Callers, call'[c] = call[c]
  PROVE  Good(facade, default, Versions, call[c])'
<1>1. Versions \in Seq(PayloadsFor(facade)) /\ Versions' \in Seq(PayloadsFor(facade))
  BY DEF FInv, Typed, Grows, Versions
<1>2. call[c] \in Calls /\ Good(facade, default, Versions, call[c])
  BY DEF FInv, Typed
<1>3. Good(facade, default, Versions', call[c])
  BY <1>1, <1>2, GoodStays DEF Grows
<1> QED
  BY <1>3 DEF Grows

\* A step of c that leaves the store alone.
LEMMA QuietStep ==
  ASSUME FInv, NEW c \in Callers, NEW cl \in Calls, call' = [call EXCEPT ![c] = cl],
         UNCHANGED <<facade, default, store>>, begun' \in 0 .. MaxCalls,
         Good(facade, default, Versions, cl)
  PROVE  FInv'
<1>1. /\ facade' = facade /\ default' = default /\ history' = history
      /\ pointer' = pointer /\ judged' = judged /\ Versions' = Versions /\ Live' = Live
  BY DEF store, Versions, Live
<1>2. Typed /\ call \in [Callers -> Calls] /\ (~ Silent => JudgedAreSound)
  BY DEF FInv, Typed
<1>3. Typed'
  BY <1>1, <1>2 DEF Typed
<1>4. Grows
  <2>1. Len(Versions) \in Nat
    BY <1>2, LenProperties DEF Typed, Versions
  <2> QED
    BY <1>1, <2>1 DEF Grows
<1>5. ASSUME NEW e \in Callers PROVE Good(facade, default, Versions, call[e])'
  <2>1. CASE e = c
    <3>1. call'[e] = cl
      BY <1>2, <2>1
    <3> QED
      BY <1>1, <3>1
  <2>2. CASE e # c
    <3>1. call'[e] = call[e]
      BY <1>2, <2>2
    <3> QED
      BY <1>3, <1>4, <3>1, OthersStayGood
  <2> QED
    BY <2>1, <2>2
<1>6. ~ Silent => JudgedAreSound'
  BY <1>1, <1>2 DEF JudgedAreSound
<1> QED
  BY <1>3, <1>5, <1>6 DEF FInv

-----------------------------------------------------------------------------
\* Calls that begin.

LEMMA StartIs ==
  ASSUME NEW judge \in BOOLEAN
  PROVE  StartRun(judge) \in Runs /\ Standing(StartRun(judge))
<1>1. Cases("deterministic") \in Nat
  BY CasesAre
<1> QED
  BY <1>1 DEF StartRun, Runs, Standing, Positions

LEMMA NothingBehind ==
  ASSUME NEW judge \in BOOLEAN, NEW p \in Positions \X Nat
  PROVE  ~ Behind(StartRun(judge), p)
<1>1. p[1] \in Positions /\ p[2] \in Nat
  OBVIOUS
<1> QED
  BY <1>1 DEF Behind, StartRun, Rank, Positions

\* A ladder that has not begun has no failure.
LEMMA FreshTally ==
  ASSUME NEW f, NEW V, NEW cl, NEW judge \in BOOLEAN, cl.run = StartRun(judge),
         cl.scores = NoCall.scores
  PROVE  Tallied(f, V, cl)
<1>1. cl.run.failures = {} /\ cl.run.at = "deterministic"
  BY DEF StartRun
<1>2. {p \in Positions \X Nat :
         Behind(cl.run, p) /\ Fails(f, V[cl.n], cl.run.judge, cl.scores, p)} = {}
  BY NothingBehind
<1>3. \A i \in DOMAIN JudgeCases : cl.scores[i] # "low"
  BY DEF NoCall
<1> QED
  BY <1>1, <1>2, <1>3 DEF Tallied

LEMMA NoCallIs == NoCall \in Calls
<1>1. 0 \in 0 .. MaxVersion
  BY FacadesAssumption
<1>2. [i \in DOMAIN JudgeCases |-> "none"] \in [DOMAIN JudgeCases -> Scores \cup {"none"}]
  OBVIOUS
<1> QED
  BY <1>1, <1>2, StartIs DEF NoCall, Calls

\* A call that begins, with a record of which this is good.
LEMMA BeginKeeps ==
  ASSUME FInv, NEW c \in Callers, NEW cl \in Calls, Begin(c, cl),
         Good(facade, default, Versions, cl)
  PROVE  FInv'
<1>1. begun \in 0 .. MaxCalls /\ MaxCalls \in Nat
  BY FacadesAssumption DEF FInv, Typed
<1>2. begun' \in 0 .. MaxCalls
  BY <1>1 DEF Begin
<1> QED
  BY <1>2, QuietStep DEF Begin

\* A call that has ended when it begins, and is no render.
LEMMA EndedIsGood ==
  ASSUME NEW f, NEW d, NEW V, Len(V) \in Nat, NEW cl, cl.pc = "done",
         cl.op \in {"seed", "sync", "revert", "render"},
         cl.outcome \in {"unchanged", "rejected", "handroll"},
         cl.n = 0, cl.run = StartRun(FALSE), cl.scores = NoCall.scores
  PROVE  Good(f, d, V, cl)
<1>1. Fits(d, Len(V), cl) /\ Shows(f, d, V, cl)
  <2>1. /\ cl.op # "promote" /\ cl.pc \notin {"gate", "ladder", "add", "upsert"}
        /\ cl.outcome # "rendered" /\ cl.outcome # "promoted" /\ cl.n <= Len(V)
    OBVIOUS
  <2> QED
    BY <2>1 DEF Fits, Shows
<1>2. Tallied(f, V, cl)
  BY FreshTally
<1>3. HoldsSound(f, d, V, cl)
  BY DEF HoldsSound
<1> QED
  BY <1>1, <1>2, <1>3 DEF Good

LEMMA PromoteBegins == ASSUME FInv, NEW c \in Callers, BeginPromote(c) PROVE FInv'
<1>1. PICK n \in DOMAIN Versions, pc \in {"gate", "ladder", "upsert"}, judge \in BOOLEAN :
        Begin(c, [NoCall EXCEPT !.op = "promote", !.pc = pc, !.gated = pc # "upsert",
                    !.n = n, !.run = StartRun(judge)])
  BY DEF BeginPromote
<1> DEFINE cl == [NoCall EXCEPT !.op = "promote", !.pc = pc, !.gated = pc # "upsert",
                    !.n = n, !.run = StartRun(judge)]
<1>2. Len(Versions) \in Nat /\ DOMAIN Versions = 1 .. Len(Versions) /\ Len(Versions) <= MaxVersion
      /\ MaxVersion \in Nat
  BY LenProperties, FacadesAssumption DEF FInv, Typed, Versions
<1>3. cl \in Calls
  <2>1. n \in 0 .. MaxVersion
    BY <1>2
  <2>2. StartRun(judge) \in Runs
    BY StartIs
  <2> QED
    BY <2>1, <2>2, NoCallIs DEF Calls
<1>4. /\ cl.op = "promote" /\ cl.n = n /\ cl.pc = pc /\ cl.gated = (pc # "upsert")
      /\ cl.outcome = "pending"
      /\ cl.run = StartRun(judge) /\ cl.scores = NoCall.scores
  BY DEF NoCall
<1> HIDE DEF cl
<1>5. Fits(default, Len(Versions), cl) /\ Shows(facade, default, Versions, cl)
  BY <1>2, <1>4, StartIs DEF Fits, Shows, Judging
<1>6. Tallied(facade, Versions, cl)
  BY <1>4, FreshTally
<1>7. HoldsSound(facade, default, Versions, cl)
  BY <1>4 DEF HoldsSound
<1>8. Good(facade, default, Versions, cl)
  BY <1>5, <1>6, <1>7 DEF Good
<1> QED
  BY <1>1, <1>3, <1>8, BeginKeeps DEF cl

\* A call that installs the default, by way of the gate or not.
Installed(cl, op, gated) ==
  /\ cl \in Calls /\ cl.op = op /\ cl.pc = (IF gated THEN "gate" ELSE "add")
  /\ cl.gated = gated /\ cl.outcome = "pending" /\ cl.n = 0
  /\ cl.run = StartRun(FALSE) /\ cl.scores = NoCall.scores

EndedAs(cl, op, o) ==
  /\ cl \in Calls /\ cl.op = op /\ cl.pc = "done" /\ cl.outcome = o /\ cl.n = 0
  /\ cl.run = StartRun(FALSE) /\ cl.scores = NoCall.scores

LEMMA InstallingIs ==
  ASSUME NEW op \in {"seed", "sync", "revert"}, NEW gated \in BOOLEAN,
         NEW o \in {"unchanged", "rejected"}
  PROVE  /\ Installed(Installing(op, gated), op, gated)
         /\ EndedAs(Finish(Installing(op, gated), o), op, o)
<1> DEFINE cl == Installing(op, gated)
           e == Finish(cl, o)
<1>1. cl \in Calls
  BY NoCallIs DEF Calls, Installing
<1>2. /\ cl.op = op /\ cl.pc = (IF gated THEN "gate" ELSE "add")
      /\ cl.gated = gated /\ cl.outcome = "pending" /\ cl.n = 0
      /\ cl.run = StartRun(FALSE) /\ cl.scores = NoCall.scores
  BY DEF NoCall, Installing
<1> HIDE DEF cl
<1>3. Installed(cl, op, gated)
  BY <1>1, <1>2 DEF Installed
<1>4. /\ e \in Calls /\ e.op = cl.op /\ e.pc = "done" /\ e.outcome = o /\ e.n = cl.n
      /\ e.run = cl.run /\ e.scores = cl.scores
  BY <1>1 DEF Calls, Finish
<1> HIDE DEF e
<1>5. EndedAs(e, op, o)
  BY <1>2, <1>4 DEF EndedAs
<1> QED
  BY <1>3, <1>5 DEF cl, e

LEMMA InstallIsGood ==
  ASSUME NEW f, NEW d, NEW V, Len(V) \in Nat, d # None, NEW op \in {"seed", "sync", "revert"},
         NEW gated \in BOOLEAN, op = "revert" => ~ gated
  PROVE  Good(f, d, V, Installing(op, gated))
<1> DEFINE cl == Installing(op, gated)
<1>1. /\ cl.op = op /\ cl.pc = (IF gated THEN "gate" ELSE "add")
      /\ cl.gated = gated /\ cl.outcome = "pending" /\ cl.n = 0
      /\ cl.run = StartRun(FALSE) /\ cl.scores = NoCall.scores
  <2>1. Installed(cl, op, gated)
    BY InstallingIs
  <2> HIDE DEF cl
  <2> QED
    BY <2>1 DEF Installed
<1> HIDE DEF cl
<1>2. Fits(d, Len(V), cl)
  <2>1. /\ cl.op # "promote" /\ cl.pc \in {"gate", "add"}
        /\ cl.pc = "gate" => cl.op \in {"seed", "sync"}
    BY <1>1
  <2>2. /\ cl.pc # "ladder" /\ cl.pc # "upsert" /\ cl.n <= Len(V)
        /\ cl.outcome \notin {"rendered", "promoted"}
    BY <1>1, <2>1
  <2>3. /\ cl.pc = "gate" => cl.op \in Judging
        /\ cl.pc = "add" => cl.op \in {"seed", "sync", "revert"}
    BY <1>1, <2>1 DEF Judging
  <2> QED
    BY <1>1, <2>1, <2>2, <2>3, Zenon DEF Fits
<1>3. Shows(f, d, V, cl)
  BY <1>1 DEF Shows
<1>4. Tallied(f, V, cl)
  BY <1>1, FreshTally
<1>5. HoldsSound(f, d, V, cl)
  BY <1>1 DEF HoldsSound
<1>6. Good(f, d, V, cl)
  BY <1>2, <1>3, <1>4, <1>5 DEF Good
<1> QED
  BY <1>6 DEF cl

LEMMA InstallBegins ==
  ASSUME FInv, NEW c \in Callers, BeginSeed(c) \/ BeginSync(c) \/ BeginRevert(c)
  PROVE  FInv'
<1>1. Len(Versions) \in Nat
  BY LenProperties DEF FInv, Typed, Versions
<1>2. PICK op \in {"seed", "sync", "revert"}, gated \in BOOLEAN, o \in {"unchanged", "rejected"} :
        /\ op = "revert" => ~ gated
        /\ \/ Begin(c, Finish(Installing(op, gated), o))
           \/ default # None /\ Begin(c, Installing(op, gated))
  <2>1. CASE BeginSeed(c)
    BY <2>1 DEF BeginSeed
  <2>2. CASE BeginSync(c)
    BY <2>2 DEF BeginSync
  <2>3. CASE BeginRevert(c)
    BY <2>3 DEF BeginRevert
  <2> QED
    BY <2>1, <2>2, <2>3
<1> DEFINE cl == Installing(op, gated)
           e == Finish(cl, o)
<1>3. /\ cl \in Calls /\ e \in Calls /\ e.op = op /\ e.pc = "done" /\ e.outcome = o /\ e.n = 0
      /\ e.run = StartRun(FALSE) /\ e.scores = NoCall.scores
  <2>1. Installed(cl, op, gated) /\ EndedAs(e, op, o)
    BY InstallingIs
  <2> HIDE DEF cl, e
  <2> QED
    BY <2>1 DEF Installed, EndedAs
<1>4. default # None => Good(facade, default, Versions, cl)
  BY <1>1, <1>2, InstallIsGood
<1>5. Begin(c, e) \/ (default # None /\ Begin(c, cl))
  BY <1>2
<1> HIDE DEF cl, e
<1>6. Good(facade, default, Versions, e)
  BY <1>1, <1>3, EndedIsGood
<1> QED
  BY <1>3, <1>4, <1>5, <1>6, BeginKeeps

LEMMA ThrewIs ==
  ASSUME NEW f, NEW v, NEW given
  PROVE  RenderFor(f, v, given).threw \in {"no", "schema", "unbound", "command"}
  BY DEF RenderFor, renderPinned, renderCommand, renderTemplate, Threw, Rendered

LEMMA RenderBegins ==
  ASSUME FInv, NEW c \in Callers, RenderPrompt(c) \/ RenderScaffold(c)
  PROVE  FInv'
<1>1. PICK given \in Inputs, stored \in BOOLEAN, absent \in {"rejected", "handroll"} :
        BeginRender(c, Resolve(stored), given, absent)
  BY DEF RenderPrompt, RenderScaffold
<1> DEFINE pin == Resolve(stored)
           base == [NoCall EXCEPT !.op = "render", !.n = pin.n, !.given = given]
           threw == Render(pin.value, given).threw
           cl == IF pin.value = None THEN Finish(base, absent)
                 ELSE Finish([base EXCEPT !.threw = threw], "rendered")
<1>2. Begin(c, cl)
  BY <1>1 DEF BeginRender
<1>3. /\ Len(Versions) \in Nat /\ Len(Versions) <= MaxVersion /\ MaxVersion \in Nat
      /\ Live \in Nat /\ Live <= Len(Versions)
      /\ \A i \in 1 .. Len(Versions) : Versions[i] \in PayloadsFor(facade)
      /\ default \in PayloadsFor(facade) \cup {None} /\ (~ Silent => JudgedAreSound)
  BY LenProperties, ElementOfSeq, FacadesAssumption DEF FInv, Typed, Versions, Live
<1>4. /\ pin.n \in 0 .. MaxVersion /\ pin.n <= Len(Versions) /\ (pin.n # 0 => pin.n = Live)
      /\ pin.value = IF pin.n # 0 THEN Versions[pin.n] ELSE default
  BY <1>3 DEF Resolve
<1>5. pin.value \in PayloadsFor(facade) \cup {None}
  BY <1>3, <1>4
<1>6. threw = RenderFor(facade, pin.value, given).threw
      /\ threw \in {"no", "schema", "unbound", "command"}
  BY RenderIs, ThrewIs
<1> HIDE DEF pin, threw
<1>7. cl \in Calls
  <2>1. base \in Calls
    BY <1>4, NoCallIs DEF Calls
  <2> HIDE DEF base
  <2> QED
    BY <1>6, <2>1 DEF Calls, Finish
<1>8. /\ cl.op = "render" /\ cl.pc = "done" /\ cl.n = pin.n /\ cl.run = StartRun(FALSE)
      /\ cl.scores = NoCall.scores /\ cl.given = given
      /\ pin.value = None => cl.outcome \in {"rejected", "handroll"}
      /\ pin.value # None => cl.outcome = "rendered" /\ cl.threw = threw
  BY DEF Finish, NoCall
<1> HIDE DEF cl
<1>9. Fits(default, Len(Versions), cl)
  BY <1>4, <1>8 DEF Fits, Judging
<1>10. Shows(facade, default, Versions, cl)
  BY <1>4, <1>5, <1>6, <1>8 DEF Shows
<1>11. Tallied(facade, Versions, cl)
  BY <1>8, FreshTally
<1>12. HoldsSound(facade, default, Versions, cl)
  BY <1>8 DEF HoldsSound
<1>13. Good(facade, default, Versions, cl)
  BY <1>9, <1>10, <1>11, <1>12 DEF Good
<1> QED
  BY <1>2, <1>7, <1>13, BeginKeeps

LEMMA UnroutedBegins == ASSUME FInv, NEW c \in Callers, Unrouted(c) PROVE FInv'
<1>1. PICK o \in {"handroll", "rejected"} : Begin(c, Finish([NoCall EXCEPT !.op = "render"], o))
  BY DEF Unrouted
<1>2. Len(Versions) \in Nat
  BY LenProperties DEF FInv, Typed, Versions
<1> DEFINE cl == Finish([NoCall EXCEPT !.op = "render"], o)
<1>3. cl \in Calls
  BY NoCallIs DEF Calls, Finish
<1>4. /\ cl.op = "render" /\ cl.pc = "done" /\ cl.outcome = o /\ cl.n = 0
      /\ cl.run = StartRun(FALSE) /\ cl.scores = NoCall.scores
  BY DEF Finish, NoCall
<1> HIDE DEF cl
<1>5. Begin(c, cl)
  BY <1>1 DEF cl
<1>6. Good(facade, default, Versions, cl)
  BY <1>2, <1>4, EndedIsGood
<1> QED
  BY <1>3, <1>5, <1>6, BeginKeeps

-----------------------------------------------------------------------------
\* Gates and ladders.

LEMMA StepKeeps ==
  ASSUME FInv, NEW c \in Callers, NEW pc, NEW cl \in Calls, Step(c, pc, cl),
         Good(facade, default, Versions, cl)
  PROVE  FInv'
<1>1. begun' \in 0 .. MaxCalls
  BY DEF Step, FInv, Typed
<1> QED
  BY <1>1, QuietStep DEF Step

LEMMA JudgeKeeps == ASSUME FInv, NEW c \in Callers, Judge(c) PROVE FInv'
<1> DEFINE cl == call[c]
           pc == IF ~ Sound(Candidate(c)) THEN "done"
                 ELSE IF cl.op = "promote" THEN "upsert" ELSE "add"
           o == IF ~ Sound(Candidate(c)) THEN "refused" ELSE "pending"
           q == [cl EXCEPT !.pc = pc, !.outcome = o]
<1>1. cl \in Calls /\ Good(facade, default, Versions, cl) /\ cl.pc = "gate"
  BY DEF FInv, Typed, Judge, Step
<1>2. /\ Fits(default, Len(Versions), cl) /\ cl.outcome = "pending" /\ cl.op \in Judging
      /\ cl.op = "promote" \/ default # None
  BY <1>1 DEF Good, Fits
<1>3. Step(c, "gate", q)
  <2>1. cl = [cl EXCEPT !.outcome = "pending"]
    BY <1>1, <1>2 DEF Calls
  <2>2. Sound(Candidate(c)) => q = [cl EXCEPT !.pc = IF cl.op = "promote" THEN "upsert" ELSE "add"]
    BY <2>1
  <2>3. ~ Sound(Candidate(c)) => q = Finish(cl, "refused")
    BY DEF Finish
  <2>4. q = IF ~ Sound(Candidate(c)) THEN Finish(cl, "refused")
            ELSE [cl EXCEPT !.pc = IF cl.op = "promote" THEN "upsert" ELSE "add"]
    BY <2>2, <2>3
  <2> HIDE DEF q
  <2> QED
    BY <2>4 DEF Judge
<1>4. Candidate(c) = IF cl.op = "promote" THEN Versions[cl.n] ELSE default
  BY DEF Candidate
<1>5. Sound(Candidate(c)) = SoundFor(facade, Candidate(c))
  BY SoundIs
<1>6. q \in Calls
  BY <1>1 DEF Calls
<1>7. /\ q.op = cl.op /\ q.n = cl.n /\ q.run = cl.run /\ q.scores = cl.scores
      /\ q.pc = pc /\ q.outcome = o
  BY <1>1 DEF Calls
<1> HIDE DEF q
<1>8. Fits(default, Len(Versions), q)
  BY <1>2, <1>7 DEF Fits, Judging
<1>9. Shows(facade, default, Versions, q)
  BY <1>7 DEF Shows
<1>10. ~ Silent => Tallied(facade, Versions, q)
  <2>1. ~ Silent => Tallied(facade, Versions, cl)
    BY <1>1 DEF Good
  <2>2. cl.op = "promote" /\ ~ Silent => cl.run.at = "deterministic"
    BY <1>1, <2>1 DEF Tallied
  <2> QED
    BY <1>7, <2>1, <2>2 DEF Tallied
<1>11. HoldsSound(facade, default, Versions, q)
  BY <1>4, <1>5, <1>7 DEF HoldsSound
<1>12. Good(facade, default, Versions, q)
  BY <1>8, <1>9, <1>10, <1>11 DEF Good
<1> QED
  BY <1>3, <1>6, <1>12, StepKeeps

\* A case of a ladder is run: its score noted, its failure recorded.
LEMMA CaseKeeps ==
  ASSUME FInv, NEW c \in Callers, call[c].run.at # "verdict", NEW failed \in BOOLEAN,
         NEW scores \in [DOMAIN JudgeCases -> Scores \cup {"none"}],
         Step(c, "ladder", [call[c] EXCEPT !.scores = scores, !.run = Record(@, failed)]),
         ~ Silent => failed = Fails(facade, Versions[call[c].n], call[c].run.judge, scores,
                                    <<call[c].run.at, call[c].run.case>>),
         \A i \in DOMAIN JudgeCases :
           \/ scores[i] = call[c].scores[i]
           \/ call[c].run.at = "judge" /\ call[c].run.case = i
  PROVE  FInv'
<1> DEFINE cl == call[c]
           run == cl.run
           to == Record(run, failed)
           q == [cl EXCEPT !.scores = scores, !.run = to]
           v == Versions[cl.n]
           here == <<run.at, run.case>>
<1>1. cl \in Calls /\ Good(facade, default, Versions, cl) /\ cl.pc = "ladder"
  BY DEF FInv, Typed, Step
<1>2. /\ Fits(default, Len(Versions), cl) /\ cl.outcome = "pending" /\ cl.op = "promote"
  BY <1>1 DEF Good, Fits
<1>3. run \in Runs /\ Standing(run)
  BY <1>1, <1>2, CallIs DEF Fits
<1>4. /\ to \in Runs /\ Standing(to) /\ to.at # "deterministic" /\ to.judge = run.judge
      /\ to.failures = run.failures \cup (IF failed THEN {here} ELSE {})
      /\ here \in Visited(run.judge)
      /\ \A p \in Visited(run.judge) : Behind(to, p) <=> Behind(run, p) \/ p = here
  BY <1>3, RecordIs
<1>5. q \in Calls
  BY <1>1, <1>4 DEF Calls
<1>6. /\ q.op = "promote" /\ q.n = cl.n /\ q.run = to /\ q.scores = scores
      /\ q.pc = "ladder" /\ q.outcome = "pending"
  BY <1>1, <1>2 DEF Calls
<1>7. Step(c, "ladder", q)
  OBVIOUS
<1> HIDE DEF q
<1>8. Fits(default, Len(Versions), q)
  BY <1>2, <1>4, <1>6 DEF Fits, Judging
<1>9. /\ Shows(facade, default, Versions, q) /\ HoldsSound(facade, default, Versions, q)
     
  BY <1>6 DEF Shows, HoldsSound
<1>10. ASSUME ~ Silent PROVE Tallied(facade, Versions, q)
  <2>1. Tallied(facade, Versions, cl)
    BY <1>1, <1>10 DEF Good
  <2>2. /\ run.failures = {p \in Positions \X Nat :
             Behind(run, p) /\ Fails(facade, v, run.judge, cl.scores, p)}
        /\ \A i \in DOMAIN JudgeCases :
             cl.scores[i] = "low" => run.judge /\ Behind(run, <<"judge", i>>)
    BY <1>2, <2>1 DEF Tallied
  <2>3. failed = Fails(facade, v, run.judge, scores, here)
    BY <1>10
  <2>4. \A i \in DOMAIN JudgeCases : scores[i] = "low" => run.judge /\ Behind(to, <<"judge", i>>)
    <3>1. TAKE i \in DOMAIN JudgeCases
    <3>2. HAVE scores[i] = "low"
    <3>3. CASE scores[i] = cl.scores[i]
      <4>1. run.judge /\ Behind(run, <<"judge", i>>)
        BY <2>2, <3>2, <3>3
      <4>2. <<"judge", i>> \in Visited(run.judge)
        BY <4>1 DEF Visited
      <4> QED
        BY <1>4, <4>1, <4>2
    <3>4. CASE run.at = "judge" /\ run.case = i
      <4>1. run.judge /\ here = <<"judge", i>>
        BY <1>3, <3>4 DEF Standing
      <4> QED
        BY <1>4, <4>1
    <3> QED
      BY <3>3, <3>4
  <2>5. \A p \in Positions \X Nat :
          Fails(facade, v, run.judge, scores, p) => p \in Visited(run.judge)
    BY <2>4 DEF Fails, Visited
  <2>6. \A p \in Positions \X Nat : p # here =>
          (Fails(facade, v, run.judge, scores, p) <=> Fails(facade, v, run.judge, cl.scores, p))
    <3>1. TAKE p \in Positions \X Nat
    <3>2. HAVE p # here
    <3>3. p[1] = "judge" /\ p[2] \in DOMAIN JudgeCases => scores[p[2]] = cl.scores[p[2]]
      BY <3>2
    <3> QED
      BY <3>3 DEF Fails
  <2>7. ~ Behind(run, here)
    <3>1. run.case \in Nat /\ run.at \in Positions
      BY <1>3, RunIs
    <3> QED
      BY <3>1 DEF Behind, Rank, Positions
  <2>8. here \in Positions \X Nat
    BY <1>3, RunIs
  <2>9. ASSUME NEW p \in Positions \X Nat
        PROVE  p \in to.failures <=> Behind(to, p) /\ Fails(facade, v, run.judge, scores, p)
    <3>1. CASE p = here
      BY <1>4, <2>2, <2>3, <2>7, <2>8, <3>1
    <3>2. CASE p # here
      BY <1>4, <2>2, <2>5, <2>6, <2>9, <3>2
    <3> QED
      BY <3>1, <3>2
  <2>10. to.failures \subseteq Positions \X Nat
    BY <1>4, RunIs
  <2>11. to.failures = {p \in Positions \X Nat :
            Behind(to, p) /\ Fails(facade, v, to.judge, scores, p)}
    BY <1>4, <2>9, <2>10
  <2> QED
    BY <1>4, <1>6, <2>4, <2>11 DEF Tallied
<1>11. Good(facade, default, Versions, q)
  BY <1>8, <1>9, <1>10 DEF Good
<1> QED
  BY <1>5, <1>7, <1>11, StepKeeps

\* The tier-1 failure, a golden case, a rubric.
LEMMA LadderIs ==
  ASSUME FInv, NEW c \in Callers, call[c].pc = "ladder"
  PROVE  /\ call[c] \in Calls /\ call[c].op = "promote" /\ call[c].run \in Runs
         /\ Standing(call[c].run) /\ Candidate(c) = Versions[call[c].n]
         /\ call[c].scores \in [DOMAIN JudgeCases -> Scores \cup {"none"}]
<1>1. call[c] \in Calls /\ Fits(default, Len(Versions), call[c])
  BY DEF FInv, Typed, Good
<1>2. call[c].op = "promote" /\ Standing(call[c].run)
  BY <1>1 DEF Fits
<1> QED
  BY <1>1, <1>2, CallIs DEF Candidate

LEMMA TierOneKeeps == ASSUME FInv, NEW c \in Callers, Deterministic(c) PROVE FInv'
<1> DEFINE cl == call[c]
           failed == ~ Sound(Candidate(c)) /\ ~ Silent
<1>1. cl.run.at = "deterministic" /\ Step(c, "ladder", [cl EXCEPT !.run = Record(@, failed)])
      /\ cl.pc = "ladder"
  BY DEF Deterministic, Step
<1>2. /\ cl \in Calls /\ Standing(cl.run) /\ Candidate(c) = Versions[cl.n]
      /\ cl.scores \in [DOMAIN JudgeCases -> Scores \cup {"none"}]
  BY <1>1, LadderIs
<1>3. [cl EXCEPT !.run = Record(@, failed)] = [cl EXCEPT !.scores = cl.scores, !.run = Record(@, failed)]
  BY <1>2 DEF Calls
<1>4. ~ Silent => failed = Fails(facade, Versions[cl.n], cl.run.judge, cl.scores,
                                 <<cl.run.at, cl.run.case>>)
  BY <1>1, <1>2, SoundIs DEF Fails, Standing
<1>5. failed \in BOOLEAN
  OBVIOUS
<1> HIDE DEF failed
<1> QED
  BY <1>1, <1>2, <1>3, <1>4, <1>5, CaseKeeps

LEMMA GoldenKeeps == ASSUME FInv, NEW c \in Callers, Golden(c) PROVE FInv'
<1> DEFINE cl == call[c]
           case == GoldenCases[cl.run.case]
           failed == GoldenFails(case, Render(Candidate(c), case.input))
<1>1. cl.run.at = "golden" /\ Step(c, "ladder", [cl EXCEPT !.run = Record(@, failed)])
      /\ cl.pc = "ladder"
  BY DEF Golden, Step
<1>2. /\ cl \in Calls /\ Standing(cl.run) /\ Candidate(c) = Versions[cl.n]
      /\ cl.scores \in [DOMAIN JudgeCases -> Scores \cup {"none"}]
  BY <1>1, LadderIs
<1>3. [cl EXCEPT !.run = Record(@, failed)] = [cl EXCEPT !.scores = cl.scores, !.run = Record(@, failed)]
  BY <1>2 DEF Calls
<1>4. cl.run.case \in DOMAIN GoldenCases
  BY <1>1, <1>2, CasesAre DEF Standing, Cases
<1>5. Render(Candidate(c), case.input) = RenderFor(facade, Versions[cl.n], case.input)
  BY <1>2, RenderIs
<1>6. failed = Fails(facade, Versions[cl.n], cl.run.judge, cl.scores, <<cl.run.at, cl.run.case>>)
  BY <1>1, <1>4, <1>5 DEF Fails, GoldenFails
<1>7. failed \in BOOLEAN
  BY DEF GoldenFails
<1> HIDE DEF failed
<1> QED
  BY <1>1, <1>2, <1>3, <1>6, <1>7, CaseKeeps

\* A judge that rejects, and a verdict: the ladder ends.
LEMMA RejectKeeps ==
  ASSUME FInv, NEW c \in Callers, call[c].run.at = "judge",
         NEW scores \in [DOMAIN JudgeCases -> Scores \cup {"none"}],
         \A i \in DOMAIN JudgeCases : scores[i] = "low" => call[c].scores[i] = "low",
         \A i \in DOMAIN JudgeCases : scores[i] = call[c].scores[i] \/ i = call[c].run.case,
         Step(c, "ladder", [call[c] EXCEPT !.scores = scores, !.pc = "done", !.outcome = "rejected"])
  PROVE  FInv'
<1> DEFINE cl == call[c]
           q == [cl EXCEPT !.scores = scores, !.pc = "done", !.outcome = "rejected"]
           v == Versions[cl.n]
<1>1. cl \in Calls /\ Good(facade, default, Versions, cl) /\ cl.pc = "ladder"
  BY DEF FInv, Typed, Step
<1>2. /\ Fits(default, Len(Versions), cl) /\ cl.op = "promote" /\ cl.run \in Runs
      /\ Standing(cl.run)
  BY <1>1, LadderIs DEF Good
<1>3. q \in Calls
  BY <1>1 DEF Calls
<1>4. /\ q.op = "promote" /\ q.n = cl.n /\ q.run = cl.run /\ q.scores = scores
      /\ q.pc = "done" /\ q.outcome = "rejected"
  BY <1>1, <1>2 DEF Calls
<1>5. Step(c, "ladder", q)
  OBVIOUS
<1> HIDE DEF q
<1>6. Fits(default, Len(Versions), q)
  BY <1>2, <1>4 DEF Fits, Judging
<1>7. /\ Shows(facade, default, Versions, q) /\ HoldsSound(facade, default, Versions, q)
     
  BY <1>4 DEF Shows, HoldsSound
<1>8. ASSUME ~ Silent PROVE Tallied(facade, Versions, q)
  <2>1. Tallied(facade, Versions, cl)
    BY <1>1, <1>8 DEF Good
  <2>2. /\ cl.run.failures = {p \in Positions \X Nat :
             Behind(cl.run, p) /\ Fails(facade, v, cl.run.judge, cl.scores, p)}
        /\ \A i \in DOMAIN JudgeCases :
             cl.scores[i] = "low" => cl.run.judge /\ Behind(cl.run, <<"judge", i>>)
    BY <1>2, <2>1 DEF Tallied
  <2>3. cl.run.case \in Nat
    BY <1>2, RunIs
  <2>4. \A p \in Positions \X Nat : Behind(cl.run, p) =>
          (Fails(facade, v, cl.run.judge, scores, p) <=>
             Fails(facade, v, cl.run.judge, cl.scores, p))
    <3>1. TAKE p \in Positions \X Nat
    <3>2. HAVE Behind(cl.run, p)
    <3>3. p[1] = "judge" => p[2] < cl.run.case
      BY <3>2 DEF Behind, Rank
    <3>4. p[1] = "judge" /\ p[2] \in DOMAIN JudgeCases => scores[p[2]] = cl.scores[p[2]]
      BY <2>3, <3>3
    <3> QED
      BY <3>4 DEF Fails
  <2>5. cl.run.failures = {p \in Positions \X Nat :
           Behind(cl.run, p) /\ Fails(facade, v, cl.run.judge, scores, p)}
    BY <2>2, <2>4
  <2> QED
    BY <1>4, <2>2, <2>5 DEF Tallied
<1>9. Good(facade, default, Versions, q)
  BY <1>6, <1>7, <1>8 DEF Good
<1> QED
  BY <1>3, <1>5, <1>9, StepKeeps

LEMMA ScoreKeeps == ASSUME FInv, NEW c \in Callers, Score(c) PROVE FInv'
<1> DEFINE cl == call[c]
           case == JudgeCases[cl.run.case]
           threw == Render(Candidate(c), case.input).threw
<1>1. cl.run.at = "judge" /\ cl.pc = "ladder"
  BY DEF Score, Step
<1>2. /\ cl \in Calls /\ cl.run \in Runs /\ Standing(cl.run) /\ Candidate(c) = Versions[cl.n]
      /\ cl.scores \in [DOMAIN JudgeCases -> Scores \cup {"none"}]
  BY <1>1, LadderIs
<1>3. cl.run.case \in DOMAIN JudgeCases /\ cl.run.judge
  BY <1>1, <1>2, CasesAre DEF Standing, Cases
<1>4. threw = RenderFor(facade, Versions[cl.n], case.input).threw
  BY <1>2, RenderIs
<1>5. CASE threw # "no"
  <2>1. Step(c, "ladder", [cl EXCEPT !.run = Record(@, TRUE)])
    BY <1>5 DEF Score
  <2>2. [cl EXCEPT !.run = Record(@, TRUE)] = [cl EXCEPT !.scores = cl.scores, !.run = Record(@, TRUE)]
    BY <1>2 DEF Calls
  <2>3. Fails(facade, Versions[cl.n], cl.run.judge, cl.scores, <<cl.run.at, cl.run.case>>)
    BY <1>1, <1>3, <1>4, <1>5 DEF Fails
  <2> QED
    BY <1>1, <1>2, <2>1, <2>2, <2>3, CaseKeeps
<1>6. CASE threw = "no"
  <2>1. PICK s \in Scores :
          Step(c, "ladder", IF s = "throws" THEN Finish([cl EXCEPT !.scores[cl.run.case] = s], "rejected")
                            ELSE [[cl EXCEPT !.scores[cl.run.case] = s]
                                    EXCEPT !.run = Record(@, s = "low")])
    BY <1>6 DEF Score
  <2> DEFINE scores == [cl.scores EXCEPT ![cl.run.case] = s]
             failed == s = "low"
  <2>2. /\ scores \in [DOMAIN JudgeCases -> Scores \cup {"none"}] /\ scores[cl.run.case] = s
        /\ \A i \in DOMAIN JudgeCases : scores[i] = cl.scores[i] \/ i = cl.run.case
    BY <1>2, <1>3
  <2>3. CASE s = "throws"
    <3>1. Finish([cl EXCEPT !.scores[cl.run.case] = s], "rejected") =
            [cl EXCEPT !.scores = scores, !.pc = "done", !.outcome = "rejected"]
      BY <1>2 DEF Finish, Calls
    <3>2. Step(c, "ladder", [cl EXCEPT !.scores = scores, !.pc = "done", !.outcome = "rejected"])
      BY <2>1, <2>3, <3>1
    <3>3. \A i \in DOMAIN JudgeCases : scores[i] = "low" => cl.scores[i] = "low"
      BY <2>2, <2>3
    <3> HIDE DEF scores
    <3> QED
      BY <1>1, <2>2, <3>2, <3>3, RejectKeeps
  <2>4. CASE s # "throws"
    <3>1. [[cl EXCEPT !.scores[cl.run.case] = s] EXCEPT !.run = Record(@, failed)] =
            [cl EXCEPT !.scores = scores, !.run = Record(@, failed)]
      BY <1>2 DEF Calls
    <3>2. Step(c, "ladder", [cl EXCEPT !.scores = scores, !.run = Record(@, failed)])
      BY <2>1, <2>4, <3>1
    <3>3. failed = Fails(facade, Versions[cl.n], cl.run.judge, scores, <<cl.run.at, cl.run.case>>)
      BY <1>1, <1>3, <1>4, <1>6, <2>2 DEF Fails
    <3>4. failed \in BOOLEAN
      OBVIOUS
    <3>5. \A i \in DOMAIN JudgeCases : scores[i] = cl.scores[i]
             \/ (cl.run.at = "judge" /\ cl.run.case = i)
      BY <1>1, <2>2
    <3> HIDE DEF scores, failed
    <3> QED
      BY <1>1, <2>2, <3>2, <3>3, <3>4, <3>5, CaseKeeps
  <2> QED
    BY <2>3, <2>4
<1> QED
  BY <1>5, <1>6

LEMMA VerdictKeeps == ASSUME FInv, NEW c \in Callers, Verdict(c) PROVE FInv'
<1> DEFINE cl == call[c]
           good == Passed(cl.run)
           q == [cl EXCEPT !.pc = IF good THEN "upsert" ELSE "done",
                           !.outcome = IF good THEN "pending" ELSE "refused"]
<1>1. /\ cl \in Calls /\ Good(facade, default, Versions, cl) /\ cl.pc = "ladder"
      /\ cl.run.at = "verdict"
  BY DEF FInv, Typed, Verdict, Step
<1>2. /\ Fits(default, Len(Versions), cl) /\ cl.op = "promote" /\ cl.outcome = "pending"
  BY <1>1, LadderIs DEF Good, Fits
<1>3. q \in Calls
  BY <1>1 DEF Calls
<1>4. /\ q.op = "promote" /\ q.n = cl.n /\ q.run = cl.run /\ q.scores = cl.scores
      /\ q.pc = (IF good THEN "upsert" ELSE "done")
      /\ q.outcome = IF good THEN "pending" ELSE "refused"
  BY <1>1, <1>2 DEF Calls
<1>5. Step(c, "ladder", q)
  <2>1. cl = [cl EXCEPT !.outcome = "pending"]
    BY <1>1, <1>2 DEF Calls
  <2>2. good => q = [cl EXCEPT !.pc = "upsert"]
    BY <2>1
  <2>3. ~ good => q = Finish(cl, "refused")
    BY DEF Finish
  <2>4. q = IF good THEN [cl EXCEPT !.pc = "upsert"] ELSE Finish(cl, "refused")
    BY <2>2, <2>3
  <2> HIDE DEF q
  <2> QED
    BY <2>4 DEF Verdict
<1> HIDE DEF q
<1>6. Fits(default, Len(Versions), q)
  BY <1>2, <1>4 DEF Fits, Judging
<1>7. Shows(facade, default, Versions, q)
  BY <1>4 DEF Shows
<1>8. ASSUME ~ Silent PROVE Tallied(facade, Versions, q) /\ HoldsSound(facade, default, Versions, q)
  <2>1. Tallied(facade, Versions, cl)
    BY <1>1, <1>8 DEF Good
  <2>2. Tallied(facade, Versions, q)
    <3>1. /\ cl.run.failures = {p \in Positions \X Nat : Behind(cl.run, p)
                 /\ Fails(facade, Versions[cl.n], cl.run.judge, cl.scores, p)}
          /\ \A i \in DOMAIN JudgeCases :
               cl.scores[i] = "low" => cl.run.judge /\ Behind(cl.run, <<"judge", i>>)
      BY <1>2, <2>1 DEF Tallied
    <3>2. /\ q.run.failures = {p \in Positions \X Nat : Behind(q.run, p)
                 /\ Fails(facade, Versions[q.n], q.run.judge, q.scores, p)}
          /\ \A i \in DOMAIN JudgeCases :
               q.scores[i] = "low" => q.run.judge /\ Behind(q.run, <<"judge", i>>)
      BY <1>4, <3>1
    <3>3. good <=> q.run.failures = {}
      BY <1>4 DEF Passed
    <3> HIDE DEF good
    <3>4. /\ q.pc # "gate" /\ (q.pc = "upsert" => q.run.failures = {})
          /\ q.pc = "done" => (q.outcome = "promoted" <=> q.run.failures = {})
      BY <1>4, <3>3
    <3> QED
      BY <3>2, <3>4 DEF Tallied
  <2>3. ASSUME good PROVE SoundFor(facade, Versions[cl.n])
    <3>1. <<"deterministic", 0>> \notin cl.run.failures
      BY <2>3 DEF Passed
    <3>2. Behind(cl.run, <<"deterministic", 0>>) /\ <<"deterministic", 0>> \in Positions \X Nat
      BY <1>1 DEF Behind, Rank, Positions
    <3>3. ~ Fails(facade, Versions[cl.n], cl.run.judge, cl.scores, <<"deterministic", 0>>)
      BY <1>2, <2>1, <3>1, <3>2 DEF Tallied
    <3> QED
      BY <3>3 DEF Fails
  <2>4. HoldsSound(facade, default, Versions, q)
    BY <1>4, <2>3 DEF HoldsSound
  <2> QED
    BY <2>2, <2>4
<1>9. Good(facade, default, Versions, q)
  BY <1>6, <1>7, <1>8 DEF Good
<1> QED
  BY <1>3, <1>5, <1>9, StepKeeps

-----------------------------------------------------------------------------
\* Steps that write the store.

LEMMA AddKeeps == ASSUME FInv, NEW v \in Payloads, Add(v) PROVE FInv'
<1>1. Typed /\ (~ Silent => JudgedAreSound) /\ PayloadsFor(facade) = Payloads
  BY DEF FInv, PayloadsFor, Payloads
<1>2. /\ Versions \in Seq(PayloadsFor(facade)) /\ Len(Versions) \in Nat
      /\ Len(Versions) < MaxVersion /\ MaxVersion \in Nat
      /\ facade' = facade /\ default' = default /\ judged' = judged /\ call' = call
      /\ begun' = begun /\ pointer' = pointer
      /\ history' = [history EXCEPT ![Key] = Append(@, v)]
  BY <1>1, LenProperties, FacadesAssumption DEF Typed, Versions, Add, Store!Publish
<1>3. Versions' = Append(Versions, v)
  BY <1>1, <1>2 DEF Typed, Versions
<1>4. /\ Versions' \in Seq(PayloadsFor(facade)) /\ Len(Versions') = Len(Versions) + 1
      /\ \A i \in 1 .. Len(Versions) : Versions'[i] = Versions[i]
  BY <1>1, <1>2, <1>3, AppendProperties
<1>5. Live' = Live /\ Live \in Nat /\ Live <= Len(Versions)
  BY <1>1, <1>2 DEF Live, Typed
<1>6. Typed'
  <2>1. history' \in [{Key} -> Seq(PayloadsFor(facade))]
    BY <1>1, <1>2, <1>3, <1>4 DEF Typed, Versions
  <2>2. Len(Versions') <= MaxVersion /\ Live' <= Len(Versions')
    BY <1>2, <1>4, <1>5
  <2>3. judged \subseteq DOMAIN Versions'
    <3>1. judged \subseteq 1 .. Len(Versions) /\ DOMAIN Versions' = 1 .. Len(Versions')
      BY <1>1, <1>2, <1>4, LenProperties DEF Typed
    <3> QED
      BY <1>2, <1>4, <3>1
  <2> QED
    BY <1>1, <1>2, <2>1, <2>2, <2>3 DEF Typed
<1>7. Grows
  BY <1>2, <1>4 DEF Grows
<1>8. \A c \in Callers : Good(facade, default, Versions, call[c])'
  <2>1. TAKE c \in Callers
  <2>2. call'[c] = call[c]
    BY <1>2
  <2> QED
    BY <1>6, <1>7, <2>2, OthersStayGood
<1>9. ~ Silent => JudgedAreSound'
  <2>1. \A n \in judged : n \in 1 .. Len(Versions)
    BY <1>1, <1>2, LenProperties DEF Typed
  <2>2. \A n \in judged : Versions'[n] = Versions[n]
    BY <1>4, <2>1
  <2>3. \A n \in judged' : n \in judged
    BY <1>2
  <2>4. ASSUME ~ Silent, NEW n \in judged' PROVE SoundFor(facade', Versions'[n])
    BY <1>1, <1>2, <2>2, <2>3, <2>4 DEF JudgedAreSound
  <2> QED
    BY <2>4 DEF JudgedAreSound
<1> QED
  BY <1>6, <1>8, <1>9 DEF FInv

LEMMA InstallKeeps == ASSUME FInv, NEW c \in Callers, AddDefault(c) PROVE FInv'
<1> DEFINE cl == call[c]
           n == Len(Versions) + 1
           q == [cl EXCEPT !.pc = "upsert", !.n = n]
<1>1. Typed /\ (~ Silent => JudgedAreSound) /\ cl \in Calls /\ cl.pc = "add"
      /\ Good(facade, default, Versions, cl) /\ call \in [Callers -> Calls]
  BY DEF FInv, Typed, AddDefault
<1>2. /\ Fits(default, Len(Versions), cl) /\ default # None
      /\ cl.op \in {"seed", "sync", "revert"} /\ cl.outcome = "pending"
  BY <1>1 DEF Good, Fits
<1>3. /\ Versions \in Seq(PayloadsFor(facade)) /\ Len(Versions) \in Nat
      /\ Len(Versions) < MaxVersion /\ MaxVersion \in Nat /\ default \in PayloadsFor(facade)
      /\ facade' = facade /\ default' = default /\ judged' = judged
      /\ call' = [call EXCEPT ![c] = q]
      /\ begun' = begun /\ pointer' = pointer
      /\ history' = [history EXCEPT ![Key] = Append(@, default)]
  <2>1. call' = [call EXCEPT ![c].pc = "upsert", ![c].n = n]
    BY DEF AddDefault
  <2>2. [call EXCEPT ![c].pc = "upsert", ![c].n = n] = [call EXCEPT ![c] = q]
    BY <1>1
  <2> HIDE DEF q
  <2> QED
    BY <1>1, <1>2, <2>1, <2>2, LenProperties, FacadesAssumption
    DEF Typed, Versions, AddDefault, Store!Publish
<1>4. Versions' = Append(Versions, default)
  BY <1>1, <1>3 DEF Typed, Versions
<1>5. /\ Versions' \in Seq(PayloadsFor(facade)) /\ Len(Versions') = n
      /\ \A i \in 1 .. Len(Versions) : Versions'[i] = Versions[i]
      /\ Versions'[n] = default
  BY <1>1, <1>3, <1>4, AppendProperties
<1>6. Live' = Live /\ Live \in Nat /\ Live <= Len(Versions)
  BY <1>1, <1>3 DEF Live, Typed
<1>7. q \in Calls
  <2>1. n \in 0 .. MaxVersion
    BY <1>3
  <2> HIDE DEF n
  <2> QED
    BY <1>1, <2>1 DEF Calls
<1>8. /\ q.op = cl.op /\ q.n = n /\ q.pc = "upsert" /\ q.outcome = "pending"
      /\ q.gated = cl.gated
      /\ call' \in [Callers -> Calls] /\ call'[c] = q
      /\ \A e \in Callers : e # c => call'[e] = call[e]
  BY <1>1, <1>2, <1>3, <1>7 DEF Calls
<1> HIDE DEF q
<1>9. Typed'
  <2>1. history' \in [{Key} -> Seq(PayloadsFor(facade))]
    BY <1>1, <1>3, <1>4, <1>5 DEF Typed, Versions
  <2>2. Len(Versions') <= MaxVersion /\ Live' <= Len(Versions')
    BY <1>3, <1>5, <1>6
  <2>3. judged \subseteq DOMAIN Versions'
    <3>1. judged \subseteq 1 .. Len(Versions) /\ DOMAIN Versions' = 1 .. Len(Versions')
      BY <1>1, <1>3, <1>5, LenProperties DEF Typed
    <3> QED
      BY <1>3, <1>5, <3>1
  <2> QED
    BY <1>1, <1>3, <1>8, <2>1, <2>2, <2>3 DEF Typed
<1>10. Grows
  BY <1>3, <1>5 DEF Grows
<1>11. Good(facade, default, Versions', q)
  <2>1. Fits(default, Len(Versions'), q)
    BY <1>2, <1>3, <1>5, <1>8 DEF Fits, Judging
  <2>2. Shows(facade, default, Versions', q)
    BY <1>8 DEF Shows
  <2>3. Tallied(facade, Versions', q)
    BY <1>2, <1>8 DEF Tallied
  <2>4. ~ Silent => HoldsSound(facade, default, Versions', q)
    BY <1>1, <1>5, <1>8 DEF HoldsSound, Good
  <2> QED
    BY <2>1, <2>2, <2>3, <2>4 DEF Good
<1>12. \A e \in Callers : Good(facade, default, Versions, call[e])'
  <2>1. TAKE e \in Callers
  <2>2. CASE e = c
    BY <1>3, <1>8, <1>11, <2>2
  <2>3. CASE e # c
    BY <1>8, <1>9, <1>10, <2>3, OthersStayGood
  <2> QED
    BY <2>2, <2>3
<1>13. ~ Silent => JudgedAreSound'
  <2>1. \A k \in judged : k \in 1 .. Len(Versions)
    BY <1>1, <1>3, LenProperties DEF Typed
  <2>2. \A k \in judged : Versions'[k] = Versions[k]
    BY <1>5, <2>1
  <2>3. \A k \in judged' : k \in judged
    BY <1>3
  <2>4. ASSUME ~ Silent, NEW k \in judged' PROVE SoundFor(facade', Versions'[k])
    BY <1>1, <1>3, <2>2, <2>3, <2>4 DEF JudgedAreSound
  <2> QED
    BY <2>4 DEF JudgedAreSound
<1> QED
  BY <1>9, <1>12, <1>13 DEF FInv

LEMMA UpsertKeeps == ASSUME FInv, NEW c \in Callers, Upsert(c) PROVE FInv'
<1> DEFINE cl == call[c]
           q == [cl EXCEPT !.pc = "done", !.outcome = "promoted"]
<1>1. Typed /\ (~ Silent => JudgedAreSound) /\ cl \in Calls /\ cl.pc = "upsert"
      /\ Good(facade, default, Versions, cl) /\ call \in [Callers -> Calls]
  BY DEF FInv, Typed, Upsert
<1>2. /\ Fits(default, Len(Versions), cl) /\ cl.n # 0
      /\ cl.op \in {"promote", "seed", "sync", "revert"}
  BY <1>1 DEF Good, Fits, Judging
<1>3. /\ Len(Versions) \in Nat /\ DOMAIN Versions = 1 .. Len(Versions)
      /\ facade' = facade /\ default' = default /\ history' = history /\ begun' = begun
      /\ judged' = IF cl.gated THEN judged \cup {cl.n} ELSE judged
      /\ call' = [call EXCEPT ![c] = q]
      /\ cl.n \in 1 .. Len(Versions)
      /\ pointer' = [pointer EXCEPT ![Key]["active"] = cl.n]
  BY <1>1, LenProperties DEF Typed, Versions, Upsert, Store!Point, Finish
<1>4. Versions' = Versions /\ Live' = cl.n
  BY <1>1, <1>3 DEF Typed, Versions, Live
<1>5. q \in Calls
  BY <1>1 DEF Calls
<1>6. /\ q.op = cl.op /\ q.n = cl.n /\ q.pc = "done" /\ q.outcome = "promoted"
      /\ q.run = cl.run /\ q.scores = cl.scores
      /\ call' \in [Callers -> Calls] /\ call'[c] = q
      /\ \A e \in Callers : e # c => call'[e] = call[e]
  BY <1>1, <1>3, <1>5 DEF Calls
<1> HIDE DEF q
<1>7. Typed'
  <2>1. pointer' \in [{Key} -> [{"active"} -> Nat]]
    BY <1>1, <1>3 DEF Typed
  <2>2. judged' \subseteq DOMAIN Versions
    BY <1>1, <1>3 DEF Typed
  <2> QED
    BY <1>1, <1>3, <1>4, <1>6, <2>1, <2>2 DEF Typed
<1>8. Grows
  BY <1>3, <1>4 DEF Grows
<1>9. Good(facade, default, Versions, q)
  <2>1. Fits(default, Len(Versions), q)
    BY <1>2, <1>6 DEF Fits, Judging
  <2>2. Shows(facade, default, Versions, q)
    BY <1>6 DEF Shows
  <2>3. HoldsSound(facade, default, Versions, q)
    BY <1>6 DEF HoldsSound
  <2>4. ~ Silent => Tallied(facade, Versions, q)
    BY <1>1, <1>6 DEF Tallied, Good
  <2> QED
    BY <2>1, <2>2, <2>3, <2>4 DEF Good
<1>10. \A e \in Callers : Good(facade, default, Versions, call[e])'
  <2>1. TAKE e \in Callers
  <2>2. CASE e = c
    BY <1>3, <1>4, <1>6, <1>9, <2>2
  <2>3. CASE e # c
    BY <1>6, <1>7, <1>8, <2>3, OthersStayGood
  <2> QED
    BY <2>2, <2>3
<1>11. ~ Silent => JudgedAreSound'
  <2>1. ~ Silent => HoldsSound(facade, default, Versions, cl)
    BY <1>1 DEF Good
  <2> QED
    BY <1>1, <1>3, <1>4, <2>1 DEF JudgedAreSound, HoldsSound
<1> QED
  BY <1>7, <1>10, <1>11 DEF FInv

-----------------------------------------------------------------------------
LEMMA InitFInv == Init => FInv
<1> SUFFICES ASSUME Init PROVE FInv
  OBVIOUS
<1>1. /\ facade \in {"prompt", "scaffold"} /\ default \in PayloadsFor(facade) \cup {None}
      /\ Versions = << >> /\ Live = 0 /\ judged = {} /\ call = [c \in Callers |-> NoCall]
      /\ begun = 0 /\ history = [k \in {Key} |-> << >>]
      /\ pointer = [k \in {Key} |-> [l \in {"active"} |-> 0]]
  BY DEF Init, Versions, Live, Payloads, PayloadsFor
<1>2. Len(<< >>) = 0 /\ << >> \in Seq(PayloadsFor(facade)) /\ MaxVersion \in Nat /\ MaxCalls \in Nat
  BY FacadesAssumption, EmptySeq
<1>3. Typed
  <2>1. 0 <= MaxVersion /\ begun \in 0 .. MaxCalls /\ call \in [Callers -> Calls]
    BY <1>1, <1>2, NoCallIs
  <2> QED
    BY <1>1, <1>2, <2>1 DEF Typed
<1>4. ASSUME NEW c \in Callers PROVE Good(facade, default, Versions, call[c])
  <2>1. /\ NoCall.op = "none" /\ NoCall.pc = "done" /\ NoCall.n = 0 /\ NoCall.outcome = "pending"
        /\ NoCall.run = StartRun(FALSE)
    BY DEF NoCall
  <2>2. Fits(default, Len(Versions), NoCall)
    BY <1>1, <1>2, <2>1 DEF Fits, Judging
  <2>3. Tallied(facade, Versions, NoCall)
    BY <2>1, FreshTally
  <2> QED
    BY <1>1, <2>1, <2>2, <2>3 DEF Good, Shows, HoldsSound
<1>5. JudgedAreSound
  BY <1>1 DEF JudgedAreSound
<1> QED
  BY <1>3, <1>4, <1>5 DEF FInv

LEMMA StepFInv == FInv /\ [Next]_vars => FInv'
<1> SUFFICES ASSUME FInv, [Next]_vars PROVE FInv'
  OBVIOUS
<1>1. CASE UNCHANGED vars
  BY <1>1 DEF vars, store, FInv, Typed, JudgedAreSound, Versions, Live
<1>2. ASSUME NEW v \in Payloads, Add(v) PROVE FInv'
  BY <1>2, AddKeeps
<1>3. ASSUME NEW c \in Callers, BeginPromote(c) PROVE FInv'
  BY <1>3, PromoteBegins
<1>4. ASSUME NEW c \in Callers, BeginSeed(c) \/ BeginSync(c) \/ BeginRevert(c) PROVE FInv'
  BY <1>4, InstallBegins
<1>5. ASSUME NEW c \in Callers, RenderPrompt(c) \/ RenderScaffold(c) PROVE FInv'
  BY <1>5, RenderBegins
<1>6. ASSUME NEW c \in Callers, Unrouted(c) PROVE FInv'
  BY <1>6, UnroutedBegins
<1>7. ASSUME NEW c \in Callers, Judge(c) PROVE FInv'
  BY <1>7, JudgeKeeps
<1>8. ASSUME NEW c \in Callers, Deterministic(c) \/ Golden(c) \/ Score(c) \/ Verdict(c)
      PROVE FInv'
  BY <1>8, TierOneKeeps, GoldenKeeps, ScoreKeeps, VerdictKeeps
<1>9. ASSUME NEW c \in Callers, AddDefault(c) PROVE FInv'
  BY <1>9, InstallKeeps
<1>10. ASSUME NEW c \in Callers, Upsert(c) PROVE FInv'
  BY <1>10, UpsertKeeps
<1> QED
  BY <1>1, <1>2, <1>3, <1>4, <1>5, <1>6, <1>7, <1>8, <1>9, <1>10 DEF Next

\* A call of a facade that judges, ends as what was judged: the inductive
\* invariant of prompt-store, scaffold-store and evalGate.ts.
THEOREM FacadeInvariant == Spec => []FInv
<1>1. Init => FInv
  BY InitFInv
<1>2. FInv /\ [Next]_vars => FInv'
  BY StepFInv
<1> QED
  BY <1>1, <1>2, PTL DEF Spec

\* The variables of a facade at work keep their types.
THEOREM FacadeTypes == Spec => []TypeOK
<1>1. FInv => TypeOK
  <2> SUFFICES ASSUME FInv PROVE TypeOK
    OBVIOUS
  <2>1. Typed /\ Payloads = PayloadsFor(facade)
    BY DEF FInv, Payloads, PayloadsFor
  <2>2. Versions \in Seq(Payloads) /\ Live \in Nat /\ Len(Versions) \in Nat
    BY <2>1, LenProperties DEF Typed, Versions, Live
  <2> QED
    BY <2>1, <2>2 DEF Typed, TypeOK
<1> QED
  BY <1>1, FacadeInvariant, PTL

\* What a call rendered of a version that some gate let live.
LEMMA JudgedIs ==
  ASSUME FInv, ~ Silent, NEW c \in Callers, RendersJudged(c)
  PROVE  LET cl == call[c]  v == Versions[cl.n] IN
         /\ SoundFor(facade, v) /\ cl.n # 0 /\ v \in PayloadsFor(facade)
         /\ facade = "prompt" => v \in Prompts
         /\ facade = "scaffold" => v \in Specs
         /\ cl.given \in Inputs /\ cl.threw = RenderFor(facade, v, cl.given).threw
<1>1. /\ Shows(facade, default, Versions, call[c]) /\ JudgedAreSound
      /\ judged \subseteq DOMAIN Versions /\ Versions \in Seq(PayloadsFor(facade))
  BY DEF FInv, Good, Typed, Versions
<1>2. call[c].n \in 1 .. Len(Versions) /\ call[c].n \in judged /\ call[c].outcome = "rendered"
  BY <1>1, LenProperties DEF RendersJudged
<1>3. call[c].n # 0 /\ SoundFor(facade, Versions[call[c].n])
  BY <1>1, <1>2 DEF JudgedAreSound
<1> QED
  BY <1>1, <1>2, <1>3 DEF Shows, PayloadsFor

\* A prompt that a gate let live fails a user only for what the user left out, for
\* every schema, every ladder, every value the user gives and every interleaving with
\* whoever publishes, promotes and reverts: renderPrompt of prompt-store.
THEOREM GatedPromptsRender == ASSUME ~ Silent PROVE Spec => []GatedPromptRenders
<1>1. FInv => GatedPromptRenders
  <2> SUFFICES ASSUME FInv, NEW c \in Callers, facade = "prompt", RendersJudged(c),
                      call[c].threw = "unbound"
               PROVE  LET text == Versions[call[c].n].text
                          missing == placeholdersIn(text, 2) \ Names(call[c].given)
                      IN /\ missing \subseteq Schema.optional
                         /\ IsClear(text, 2) => missing # {}
    BY DEF GatedPromptRenders
  <2> DEFINE cl == call[c]
             text == Versions[cl.n].text
             given == NeutralVars(cl.given)
             out == FillAll(text, given, 2)
  <2>1. SoundFor("prompt", Versions[cl.n]) /\ cl.n # 0
        /\ Versions[cl.n] \in Prompts /\ cl.given \in Inputs
        /\ RenderFor("prompt", Versions[cl.n], cl.given).threw = "unbound"
    BY JudgedIs
  <2>2. text \in Texts /\ cl.given \in Bindings
    BY <2>1, FacadesAssumption
  <2>3. placeholdersIn(text, 2) \subseteq Schema.required \cup Schema.optional
    BY <2>1 DEF SoundFor, promptGate, unknownPlaceholders, Shape
  <2>4. Schema.required \subseteq Names(cl.given) /\ placeholdersIn(out, 2) # {}
    <3>1. renderPinned(text, cl.given).threw = "unbound"
      BY <2>1 DEF RenderFor
    <3> HIDE DEF text
    <3>2. renderPinned(text, cl.given) =
            IF ~ Schema.required \subseteq Names(cl.given) THEN Threw("schema")
            ELSE IF placeholdersIn(out, 2) # {} THEN Threw("unbound") ELSE Rendered(out)
      BY DEF renderPinned
    <3> HIDE DEF out
    <3> QED
      BY <3>1, <3>2 DEF Threw, Rendered
  <2>5. ASSUME IsClear(text, 2) PROVE placeholdersIn(text, 2) \ Names(cl.given) # {}
    <3> HIDE DEF text
    <3>1. Sealed(text, 2)
      BY <2>2, <2>5, ClearSealed
    <3>2. /\ given \in Bindings /\ Names(given) = Names(cl.given)
          /\ \A i \in 1 .. Len(given) : Inert(given[i][2], 2)
      BY <2>2, NeutralVarsInert
    <3> HIDE DEF given
    <3>3. placeholdersIn(FillAll(text, given, 2), 2) \subseteq
            placeholdersIn(text, 2) \ Names(given)
      BY <2>2, <3>1, <3>2, HolesLeft
    <3> QED
      BY <2>4, <3>2, <3>3
  <2> QED
    BY <2>3, <2>4, <2>5
<1> QED
  BY <1>1, FacadeInvariant, PTL

\* A scaffold that a gate let live runs an allowed executable of a pinned version, and
\* where its braces are all of holes apart it renders with the allowed vars and any
\* values without braces: renderCommand of scaffold-store behind evalScaffoldSpec.
THEOREM GatedCommandsRun == ASSUME ~ Silent PROVE Spec => []GatedCommandRuns
<1>1. FInv => GatedCommandRuns
  <2> SUFFICES ASSUME FInv, NEW c \in Callers, facade = "scaffold", RendersJudged(c)
               PROVE  LET cl == call[c]  spec == Versions[cl.n] IN
                      /\ cl.threw = "command" => spec.mode = "handroll"
                      /\ cl.threw = "unbound" =>
                           \/ ~ AllowedVars \subseteq Names(cl.given)
                           \/ ~ Braceless(cl.given) \/ ~ IsClear(spec.command, 1)
                      /\ cl.threw = "no" =>
                           /\ executableOf(spec.command) \in AllowedExecutables \cup {<< >>}
                           /\ RequirePinned /\ spec.network => ~ Floating(spec.command)
    BY DEF GatedCommandRuns
  <2> DEFINE cl == call[c]
             spec == Versions[cl.n]
  <2>1. /\ evalScaffoldSpec(Key, spec) /\ cl.given \in Inputs /\ spec \in Specs
        /\ cl.threw = renderCommand(spec, cl.given).threw
    BY JudgedIs DEF SoundFor, RenderFor
  <2>3. cl.given \in Bindings /\ spec.command \in Texts /\ spec.mode \in {"command", "handroll"}
    BY <2>1, FacadesAssumption
  <2>4. spec.mode = "command" <=> spec.command # << >>
    BY <2>1 DEF evalScaffoldSpec
  <2>5. CASE spec.command = << >>
    <3>1. cl.threw = "command"
      BY <2>1, <2>5 DEF renderCommand, Threw
    <3> QED
      BY <2>3, <2>4, <2>5, <3>1
  <2>6. CASE spec.command # << >>
    <3> DEFINE out == FillAll(spec.command, cl.given, 1)
    <3>1. /\ cl.threw = renderTemplate(spec.command, cl.given).threw
          /\ spec.command \in Commands(spec)
      BY <2>1, <2>6 DEF renderCommand, Commands
    <3>2. /\ placeholdersIn(spec.command, 1) \subseteq AllowedVars
          /\ executableOf(spec.command) \in AllowedExecutables \cup {<< >>}
          /\ RequirePinned /\ spec.network => ~ Floating(spec.command)
      BY <2>1, <2>4, <2>6, <3>1 DEF evalScaffoldSpec, Pinned
    <3>3. cl.threw = IF placeholdersIn(out, 1) # {} THEN "unbound" ELSE "no"
      BY <3>1 DEF renderTemplate, Threw, Rendered
    <3>4. ASSUME cl.threw = "unbound", Braceless(cl.given), IsClear(spec.command, 1)
          PROVE  ~ AllowedVars \subseteq Names(cl.given)
      <4>1. Sealed(spec.command, 1)
        BY <2>3, <3>4, ClearSealed
      <4>2. \A i \in 1 .. Len(cl.given) : Inert(cl.given[i][2], 1)
        BY <2>3, <3>4, VarIs, BracelessInert DEF Braceless
      <4>3. placeholdersIn(FillAll(spec.command, cl.given, 1), 1) \subseteq
              placeholdersIn(spec.command, 1) \ Names(cl.given)
        BY <2>3, <4>1, <4>2, HolesLeft
      <4> QED
        BY <3>2, <3>3, <3>4, <4>3
    <3> QED
      BY <3>2, <3>3, <3>4
  <2> QED
    BY <2>5, <2>6
<1> QED
  BY <1>1, FacadeInvariant, PTL

\* A ladder's verdict is that of every case of its tiers, none left out and none made
\* up, whatever the judge answers and whoever writes meanwhile: buildGate of evalGate.ts.
THEOREM VerdictsAreWhole == ASSUME ~ Silent PROVE Spec => []VerdictIsWhole
<1>1. FInv => VerdictIsWhole
  <2> SUFFICES ASSUME FInv, NEW c \in Callers, call[c].op = "promote", call[c].run.at = "verdict"
               PROVE  LET cl == call[c]
                          found == IF Sound(Candidate(c)) THEN {} ELSE {<<"deterministic", 0>>}
                          golden == {<<"golden", i>> : i \in {i \in DOMAIN GoldenCases :
                            GoldenFails(GoldenCases[i], Render(Candidate(c), GoldenCases[i].input))}}
                          unrendered == {<<"judge", i>> : i \in {i \in DOMAIN JudgeCases :
                            cl.run.judge /\ Render(Candidate(c), JudgeCases[i].input).threw # "no"}}
                          low == {<<"judge", i>> : i \in {i \in DOMAIN JudgeCases :
                                                           cl.scores[i] = "low"}}
                      IN /\ cl.run.failures = found \cup golden \cup unrendered \cup low
                         /\ cl.pc = "done" => (cl.outcome = "promoted" <=> cl.run.failures = {})
    BY DEF VerdictIsWhole
  <2> DEFINE cl == call[c]
             v == Candidate(c)
             found == IF Sound(v) THEN {} ELSE {<<"deterministic", 0>>}
             golden == {<<"golden", i>> : i \in {i \in DOMAIN GoldenCases :
                         GoldenFails(GoldenCases[i], Render(v, GoldenCases[i].input))}}
             unrendered == {<<"judge", i>> : i \in {i \in DOMAIN JudgeCases :
                             cl.run.judge /\ Render(v, JudgeCases[i].input).threw # "no"}}
             low == {<<"judge", i>> : i \in {i \in DOMAIN JudgeCases : cl.scores[i] = "low"}}
  <2>1. Tallied(facade, Versions, cl) /\ Fits(default, Len(Versions), cl) /\ cl \in Calls
    BY DEF FInv, Good, Typed
  <2>2. /\ cl.run.failures = {p \in Positions \X Nat :
             Behind(cl.run, p) /\ Fails(facade, v, cl.run.judge, cl.scores, p)}
        /\ cl.pc = "done" => (cl.outcome = "promoted" <=> cl.run.failures = {})
    BY <2>1 DEF Tallied, Candidate
  <2>3. cl.run.case = 0
    BY <2>1 DEF Fits, Standing
  <2>4. \A p \in Positions \X Nat : Behind(cl.run, p) <=> p[1] # "verdict"
    BY <2>3 DEF Behind, Rank, Positions
  <2>5. SoundFor(facade, v) = Sound(v)
        /\ \A given : RenderFor(facade, v, given) = Render(v, given)
    BY SoundIs, RenderIs
  <2>6. ASSUME NEW p \in Positions \X Nat
        PROVE  p \in cl.run.failures <=> p \in found \cup golden \cup unrendered \cup low
    <3>0. p = <<p[1], p[2]>> /\ p[1] \in Positions
      OBVIOUS
    <3>1. p \in cl.run.failures <=> p[1] # "verdict" /\ Fails(facade, v, cl.run.judge, cl.scores, p)
      BY <2>2, <2>4
    <3>2. p \in found <=> p[1] = "deterministic" /\ p[2] = 0 /\ ~ SoundFor(facade, v)
      BY <2>5, <3>0
    <3>3. p \in golden <=> /\ p[1] = "golden" /\ p[2] \in DOMAIN GoldenCases
                           /\ GoldenFails(GoldenCases[p[2]], RenderFor(facade, v, GoldenCases[p[2]].input))
      BY <2>5, <3>0
    <3>4. p \in unrendered <=> /\ p[1] = "judge" /\ p[2] \in DOMAIN JudgeCases
                               /\ cl.run.judge
                               /\ RenderFor(facade, v, JudgeCases[p[2]].input).threw # "no"
      BY <2>5, <3>0
    <3>5. p \in low <=> p[1] = "judge" /\ p[2] \in DOMAIN JudgeCases /\ cl.scores[p[2]] = "low"
      BY <3>0
    <3> HIDE DEF found, golden, unrendered, low, v
    <3> QED
      BY <3>1, <3>2, <3>3, <3>4, <3>5 DEF Fails
  <2>7. found \cup golden \cup unrendered \cup low \subseteq Positions \X Nat
    BY CasesAre DEF Positions
  <2>8. cl.run.failures = found \cup golden \cup unrendered \cup low
    <3>1. cl.run.failures \subseteq Positions \X Nat
      BY <2>2
    <3> HIDE DEF found, golden, unrendered, low
    <3> QED
      BY <2>6, <2>7, <3>1
  <2> QED
    BY <2>2, <2>8
<1> QED
  BY <1>1, FacadeInvariant, PTL
=============================================================================
