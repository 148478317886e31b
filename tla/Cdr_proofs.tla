------------------------------ MODULE Cdr_proofs ------------------------------
(***************************************************************************)
(* Every reader finds every field, whatever the lengths of strings and     *)
(* sequences.                                                              *)
(*                                                                         *)
(* A layout is read as a sequence of moves from a position: the page it    *)
(* leaves says how far it came and what it put where.  Two layouts are     *)
(* alike when they leave the same page from everywhere.  Alike layouts can *)
(* be put one for the other inside a longer one, and runs of items of one  *)
(* size merge; so each reader is brought to one form with its writer.  The *)
(* machine that writes, delivers and reads is then a matter of where its   *)
(* cursor is on the two pages.                                             *)
(***************************************************************************)
EXTENDS Cdr, FiniteSetTheorems, SequenceTheorems, TLAPS

(* Induction: a set of numbers that has one has a least one. *)
LEMMA Least ==
    ASSUME NEW T \in SUBSET Nat, T # {}
    PROVE  \E n \in T : \A m \in T : n <= m
<1>1. PICK k \in T : TRUE
  OBVIOUS
<1> DEFINE R == StrictSubsetOrdering(0..k)
           F == {0..n : n \in T \cap 0..k}
<1>2. IsWellFoundedOn(R, SUBSET (0..k))
  <2>1. IsFiniteSet(0..k)
    BY FS_Interval
  <2>2. FiniteSubsetsOf(0..k) = SUBSET (0..k)
    BY <2>1, FS_FiniteSubsetsOfFinite
  <2>3. IsWellFoundedOn(StrictSubsetOrdering(0..k), FiniteSubsetsOf(0..k))
    BY FS_StrictSubsetOrderingWellFounded
  <2> QED BY <2>2, <2>3
<1>3. F \subseteq SUBSET (0..k) /\ F # {}
  <2>1. \A n \in T \cap 0..k : 0..n \in SUBSET (0..k)
    OBVIOUS
  <2>2. k \in T \cap 0..k
    OBVIOUS
  <2> QED BY <2>1, <2>2
<1>4. \A m, n \in T \cap 0..k : m < n => <<0..m, 0..n>> \in R
  <2> SUFFICES ASSUME NEW m \in T \cap 0..k, NEW n \in T \cap 0..k, m < n
               PROVE  <<0..m, 0..n>> \in R
    OBVIOUS
  <2>1. 0..m \in SUBSET (0..k) /\ 0..n \in SUBSET (0..k)
    OBVIOUS
  <2>2. 0..m \subseteq 0..n /\ n \in 0..n /\ n \notin 0..m
    OBVIOUS
  <2> QED BY <2>1, <2>2 DEF StrictSubsetOrdering
<1> HIDE DEF R
<1>5. PICK s \in F : \A t \in F : ~(<<t, s>> \in R)
  <2> HIDE DEF F
  <2> QED BY <1>2, <1>3, WFMin
<1>6. PICK n \in T \cap 0..k : s = 0..n
  BY <1>5
<1>7. \A m \in T \cap 0..k : n <= m
  <2> SUFFICES ASSUME NEW m \in T \cap 0..k, m < n PROVE FALSE
    OBVIOUS
  <2>1. 0..m \in F
    OBVIOUS
  <2> QED BY <1>4, <1>5, <1>6, <2>1
<1> QED BY <1>7

LEMMA Induct ==
    ASSUME NEW S \in SUBSET Nat, 0 \in S, \A n \in S : n + 1 \in S
    PROVE  S = Nat
<1> SUFFICES ASSUME Nat \ S # {} PROVE FALSE
  OBVIOUS
<1>1. PICK n \in Nat \ S : \A m \in Nat \ S : n <= m
  <2> DEFINE T == Nat \ S
  <2>1. T \in SUBSET Nat /\ T # {}
    OBVIOUS
  <2> HIDE DEF T
  <2>2. \E n \in T : \A m \in T : n <= m
    BY <2>1, Least
  <2> QED BY <2>2 DEF T
<1>2. n - 1 \in Nat /\ n - 1 \notin Nat \ S
  BY <1>1
<1> QED BY <1>1, <1>2

-----------------------------------------------------------------------------
(* What a layout does from a position: a page is how far it comes and what *)
(* it puts where.                                                          *)

Runs == {1, 2, 4, 8} \X Nat \X Nat
Layouts == Seq(Runs)
Put == Nat \X Nat
Page == [at : Nat, puts : Seq(Put)]

Puts(run, p) == [i \in 1..run[3] |-> <<Pad(p, run[1]) + run[2] * (i - 1), run[2]>>]
End(run, p) == Pad(p, run[1]) + run[2] * run[3]
With(page, run) ==
    [at |-> End(run, page.at), puts |-> page.puts \o Puts(run, page.at)]
Blank(p) == [at |-> p, puts |-> << >>]

Track(layout, p, f) ==
    /\ f[0] = Blank(p)
    /\ \A j \in 1..Len(layout) : f[j] = With(f[j - 1], layout[j])
Lays(layout, p, page) ==
    \E f \in [0..Len(layout) -> Page] : Track(layout, p, f) /\ f[Len(layout)] = page

Same(A, B, p) == \E page \in Page : Lays(A, p, page) /\ Lays(B, p, page)
Alike(A, B) == \A p \in Nat : Same(A, B, p)

LEMMA PadFacts ==
    ASSUME NEW p \in Nat, NEW k \in {1, 2, 4, 8}
    PROVE  /\ Pad(p, k) \in Nat /\ Pad(p, k) >= p
           /\ \A m \in Nat : Pad(Pad(p, k) + k * m, k) = Pad(p, k) + k * m
<1>1. CASE k = 1
  BY <1>1 DEF Pad
<1>2. CASE k = 2
  BY <1>2 DEF Pad
<1>3. CASE k = 4
  BY <1>3 DEF Pad
<1>4. CASE k = 8
  BY <1>4 DEF Pad
<1> QED BY <1>1, <1>2, <1>3, <1>4

LEMMA TimesNat == \A m, n \in Nat : m * n \in Nat
  OBVIOUS

LEMMA RunFacts ==
    ASSUME NEW run \in Runs, NEW p \in Nat
    PROVE  /\ run = <<run[1], run[2], run[3]>>
           /\ run[1] \in {1, 2, 4, 8} /\ run[2] \in Nat /\ run[3] \in Nat
           /\ Puts(run, p) \in Seq(Put) /\ Len(Puts(run, p)) = run[3]
           /\ \A i \in 1..run[3] :
                Puts(run, p)[i] = <<Pad(p, run[1]) + run[2] * (i - 1), run[2]>>
           /\ End(run, p) \in Nat
<1>1. run = <<run[1], run[2], run[3]>> /\ run[1] \in {1, 2, 4, 8} /\ run[2] \in Nat /\ run[3] \in Nat
  BY DEF Runs
<1>2. Pad(p, run[1]) \in Nat
  BY <1>1, PadFacts
<1>3. \A i \in 1..run[3] : <<Pad(p, run[1]) + run[2] * (i - 1), run[2]>> \in Put
  <2> TAKE i \in 1..run[3]
  <2>1. i - 1 \in Nat
    BY <1>1
  <2>2. run[2] * (i - 1) \in Nat
    BY <1>1, <2>1, TimesNat
  <2> QED BY <1>1, <1>2, <2>2 DEF Put
<1>4. Puts(run, p) \in [1..run[3] -> Put]
  BY <1>3 DEF Puts
<1>5. Puts(run, p) \in Seq(Put) /\ Len(Puts(run, p)) = run[3]
  BY <1>1, <1>4
<1>6. End(run, p) \in Nat
  BY <1>1, <1>2, TimesNat DEF End
<1> QED BY <1>1, <1>5, <1>6 DEF Puts

LEMMA WithFacts ==
    ASSUME NEW page \in Page, NEW run \in Runs
    PROVE  With(page, run) \in Page
<1>1. page.at \in Nat /\ page.puts \in Seq(Put)
  BY DEF Page
<1>2. page.puts \o Puts(run, page.at) \in Seq(Put)
  BY <1>1, RunFacts, ConcatProperties
<1>3. End(run, page.at) \in Nat
  BY <1>1, RunFacts
<1> QED BY <1>2, <1>3 DEF With, Page

LEMMA BlankFacts == \A p \in Nat : Blank(p) \in Page
  BY DEF Blank, Page

(* One way only. *)
LEMMA LaysOnce ==
    ASSUME NEW layout \in Layouts, NEW p, NEW d, NEW e,
           Lays(layout, p, d), Lays(layout, p, e)
    PROVE  d = e
<1>1. Len(layout) \in Nat
  BY DEF Layouts
<1>2. PICK f : Track(layout, p, f) /\ f[Len(layout)] = d
  BY DEF Lays
<1>3. PICK g : Track(layout, p, g) /\ g[Len(layout)] = e
  BY DEF Lays
<1> DEFINE S == {n \in Nat : n <= Len(layout) => f[n] = g[n]}
<1>4. 0 \in S
  BY <1>2, <1>3 DEF Track
<1>5. \A n \in S : n + 1 \in S
  <2> SUFFICES ASSUME NEW n \in Nat, n + 1 <= Len(layout), f[n] = g[n]
               PROVE  f[n + 1] = g[n + 1]
    BY <1>1
  <2>1. n + 1 \in 1..Len(layout) /\ (n + 1) - 1 = n
    BY <1>1
  <2>2. f[n + 1] = With(f[n], layout[n + 1]) /\ g[n + 1] = With(g[n], layout[n + 1])
    BY <1>2, <1>3, <2>1 DEF Track
  <2> QED BY <2>2
<1>6. S = Nat
  <2> HIDE DEF S
  <2>1. S \in SUBSET Nat
    BY DEF S
  <2> QED BY <1>4, <1>5, <2>1, Induct
<1>7. f[Len(layout)] = g[Len(layout)]
  BY <1>1, <1>6
<1> QED BY <1>2, <1>3, <1>7

LEMMA LaysNothing ==
    ASSUME NEW p \in Nat
    PROVE  Lays(<< >>, p, Blank(p))
<1> DEFINE f == [j \in 0..0 |-> Blank(p)]
<1>1. f \in [0..0 -> Page] /\ f[0] = Blank(p)
  BY BlankFacts
<1>2. Len(<< >>) = 0 /\ Track(<< >>, p, f)
  BY <1>1 DEF Track
<1> HIDE DEF f
<1> QED BY <1>1, <1>2 DEF Lays

LEMMA WithBehind ==
    ASSUME NEW d \in Page, NEW page \in Page, NEW run \in Runs
    PROVE  [at |-> With(page, run).at, puts |-> d.puts \o With(page, run).puts]
             = With([at |-> page.at, puts |-> d.puts \o page.puts], run)
<1> DEFINE x == d.puts
           y == page.puts
           z == Puts(run, page.at)
<1>1. x \in Seq(Put) /\ y \in Seq(Put) /\ z \in Seq(Put)
  BY RunFacts DEF Page
<1>2. (x \o y) \o z = x \o (y \o z)
  <2> HIDE DEF x, y, z
  <2> QED BY <1>1, ConcatAssociative
<1> QED BY <1>2 DEF With

(* One layout after another. *)
LEMMA LaysBoth ==
    ASSUME NEW A \in Layouts, NEW B \in Layouts, NEW p \in Nat,
           NEW d \in Page, NEW e \in Page, Lays(A, p, d), Lays(B, d.at, e)
    PROVE  Lays(A \o B, p, [at |-> e.at, puts |-> d.puts \o e.puts])
<1> DEFINE m == Len(A)
           n == Len(B)
           L == A \o B
<1>1. m \in Nat /\ n \in Nat
  BY DEF Layouts
<1>2. Len(L) = m + n /\ L \in Layouts /\ \A j \in 1..(m + n) : L[j] = IF j <= m THEN A[j] ELSE B[j - m]
  BY ConcatProperties DEF Layouts
<1>3. PICK f \in [0..m -> Page] : Track(A, p, f) /\ f[m] = d
  BY DEF Lays
<1>4. PICK g \in [0..n -> Page] : Track(B, d.at, g) /\ g[n] = e
  BY DEF Lays
<1>5. d.puts \in Seq(Put) /\ \A page \in Page : page.at \in Nat /\ page.puts \in Seq(Put)
  BY DEF Page
<1> DEFINE On(page) == [at |-> page.at, puts |-> d.puts \o page.puts]
           h == [j \in 0..(m + n) |-> IF j <= m THEN f[j] ELSE On(g[j - m])]
<1>6. \A page \in Page : On(page) \in Page
  BY <1>5, ConcatProperties DEF Page
<1>7. h \in [0..(m + n) -> Page]
  <2>1. \A j \in 0..(m + n) : ~(j <= m) => g[j - m] \in Page
    BY <1>1
  <2>2. \A j \in 0..(m + n) : j <= m => f[j] \in Page
    BY <1>1
  <2> HIDE DEF On
  <2> QED BY <1>6, <2>1, <2>2
<1>8. On(g[0]) = d /\ g[0] \in Page
  <2>1. g[0] = Blank(d.at) /\ d = [at |-> d.at, puts |-> d.puts]
    BY <1>4 DEF Track, Page
  <2>2. d.puts \o << >> = d.puts
    BY <1>5, ConcatEmptySeq
  <2> QED BY <1>1, <2>1, <2>2 DEF Blank
<1>9. h[0] = Blank(p)
  BY <1>1, <1>3 DEF Track
<1>10. \A j \in 1..(m + n) : h[j] = With(h[j - 1], L[j])
  <2> TAKE j \in 1..(m + n)
  <2>1. CASE j <= m
    <3>1. j \in 1..m /\ h[j] = f[j] /\ h[j - 1] = f[j - 1] /\ L[j] = A[j]
      BY <1>1, <1>2, <2>1
    <3> QED BY <1>3, <3>1 DEF Track
  <2>2. CASE ~(j <= m)
    <3> DEFINE i == j - m
    <3>1. i \in 1..n /\ i - 1 \in 0..n /\ h[j] = On(g[i]) /\ L[j] = B[i]
      BY <1>1, <1>2, <2>2
    <3>2. h[j - 1] = On(g[i - 1])
      <4>1. CASE j - 1 <= m
        <5>1. i - 1 = 0 /\ j - 1 = m /\ h[j - 1] = f[m]
          BY <1>1, <2>2, <4>1
        <5> QED BY <1>3, <1>8, <5>1
      <4>2. CASE ~(j - 1 <= m)
        <5>1. j - 1 \in 0..(m + n) /\ (j - 1) - m = i - 1
          BY <1>1, <4>2
        <5> QED BY <4>2, <5>1
      <4> QED BY <4>1, <4>2
    <3>3. g[i] = With(g[i - 1], B[i]) /\ g[i - 1] \in Page /\ B[i] \in Runs
      BY <1>4, <3>1 DEF Track, Layouts
    <3>4. On(With(g[i - 1], B[i])) = With(On(g[i - 1]), B[i])
      BY <3>3, WithBehind
    <3> HIDE DEF h, On
    <3> QED BY <3>1, <3>2, <3>3, <3>4
  <2> QED BY <2>1, <2>2
<1>11. h[m + n] = On(e)
  <2>1. CASE n = 0
    <3>1. h[m + n] = f[m] /\ g[n] = g[0]
      BY <1>1, <2>1
    <3> QED BY <1>3, <1>4, <1>8, <3>1
  <2>2. CASE n # 0
    <3>1. ~(m + n <= m) /\ m + n \in 0..(m + n) /\ (m + n) - m = n
      BY <1>1, <2>2
    <3> QED BY <1>4, <3>1
  <2> QED BY <2>1, <2>2
<1>12. Track(L, p, h)
  <2> HIDE DEF h, On, L
  <2> QED BY <1>2, <1>9, <1>10 DEF Track
<1>13. Lays(L, p, On(e))
  <2> HIDE DEF h, L, On
  <2> QED BY <1>2, <1>7, <1>11, <1>12 DEF Lays
<1> QED BY <1>13

LEMMA LaysRun ==
    ASSUME NEW run \in Runs, NEW p \in Nat
    PROVE  /\ Lays(<<run>>, p, [at |-> End(run, p), puts |-> Puts(run, p)])
           /\ [at |-> End(run, p), puts |-> Puts(run, p)] \in Page
<1> DEFINE e == [at |-> End(run, p), puts |-> Puts(run, p)]
           f == [j \in 0..1 |-> IF j = 0 THEN Blank(p) ELSE e]
<1>1. e \in Page
  BY RunFacts DEF Page
<1>2. f \in [0..1 -> Page] /\ f[0] = Blank(p) /\ f[1] = e
  <2> HIDE DEF e
  <2> QED BY <1>1, BlankFacts
<1>3. With(Blank(p), run) = e
  <2>1. << >> \o Puts(run, p) = Puts(run, p)
    BY RunFacts, ConcatEmptySeq
  <2> QED BY <2>1 DEF With, Blank
<1> HIDE DEF e, f
<1>4. Len(<<run>>) = 1 /\ <<run>>[1] = run
  OBVIOUS
<1>5. Track(<<run>>, p, f)
  BY <1>2, <1>3, <1>4 DEF Track
<1>6. Lays(<<run>>, p, e)
  BY <1>2, <1>4, <1>5 DEF Lays
<1> QED BY <1>1, <1>6 DEF e

(* Every layout does something from everywhere. *)
LEMMA LaysSomething ==
    ASSUME NEW layout \in Layouts, NEW p \in Nat
    PROVE  \E page \in Page : Lays(layout, p, page)
<1> DEFINE Good(L) == \E page \in Page : Lays(L, p, page)
           S == {n \in Nat : n <= Len(layout) => Good(SubSeq(layout, 1, n))}
<1>1. Len(layout) \in Nat
  BY DEF Layouts
<1>2. 0 \in S
  <2>1. SubSeq(layout, 1, 0) = << >>
    BY SubSeqEmpty
  <2>2. Good(<< >>)
    BY LaysNothing, BlankFacts
  <2> HIDE DEF Good
  <2> QED BY <2>1, <2>2
<1>3. \A n \in S : n + 1 \in S
  <2> SUFFICES ASSUME NEW n \in Nat, n + 1 <= Len(layout), Good(SubSeq(layout, 1, n))
               PROVE  Good(SubSeq(layout, 1, n + 1))
    BY <1>1
  <2> DEFINE L == SubSeq(layout, 1, n)
             run == layout[n + 1]
  <2>1. n + 1 \in 1..Len(layout) /\ (n + 1) - 1 = n
    BY <1>1
  <2>2. run \in Runs
    BY <2>1 DEF Layouts
  <2>3. SubSeq(layout, 1, n + 1) = L \o <<run>>
    BY <2>1, SubSeqRecursiveSecond DEF Layouts
  <2>4. L \in Layouts
    <3>1. \A i \in 1..n : layout[i] \in Runs
      BY <2>1 DEF Layouts
    <3> QED BY <3>1, SubSeqProperties DEF Layouts
  <2>5. PICK d \in Page : Lays(L, p, d)
    OBVIOUS
  <2>6. d.at \in Nat /\ d.puts \in Seq(Put) /\ <<run>> \in Layouts
    BY <2>2 DEF Page, Layouts
  <2> DEFINE e == [at |-> End(run, d.at), puts |-> Puts(run, d.at)]
             both == [at |-> e.at, puts |-> d.puts \o e.puts]
  <2>7. Lays(<<run>>, d.at, e) /\ e \in Page
    BY <2>2, <2>6, LaysRun
  <2>8. both \in Page
    <3>1. e.at \in Nat /\ e.puts \in Seq(Put)
      BY <2>7 DEF Page
    <3> HIDE DEF e
    <3> QED BY <2>6, <3>1, ConcatProperties DEF Page
  <2>9. Lays(L \o <<run>>, p, both)
    <3> HIDE DEF L, run, e
    <3> QED BY <2>4, <2>5, <2>6, <2>7, LaysBoth
  <2> HIDE DEF L, run, both
  <2> QED BY <2>3, <2>8, <2>9
<1>4. S = Nat
  <2> HIDE DEF S
  <2>1. S \in SUBSET Nat
    BY DEF S
  <2> QED BY <1>2, <1>3, <2>1, Induct
<1>5. Good(SubSeq(layout, 1, Len(layout)))
  <2> HIDE DEF Good
  <2> QED BY <1>1, <1>4
<1>6. SubSeq(layout, 1, Len(layout)) = layout
  BY SubSeqFull DEF Layouts
<1> QED BY <1>5, <1>6

-----------------------------------------------------------------------------
(* Layouts that put the same everywhere.                                   *)

LEMMA AlikeItself ==
    ASSUME NEW A \in Layouts
    PROVE  Alike(A, A)
  BY LaysSomething DEF Alike, Same

LEMMA AlikeBack ==
    ASSUME NEW A, NEW B, Alike(A, B)
    PROVE  Alike(B, A)
  BY DEF Alike, Same

LEMMA AlikeOn ==
    ASSUME NEW A, NEW B \in Layouts, NEW C, Alike(A, B), Alike(B, C)
    PROVE  Alike(A, C)
<1> SUFFICES ASSUME NEW p \in Nat PROVE Same(A, C, p)
  BY DEF Alike
<1>1. PICK d \in Page : Lays(A, p, d) /\ Lays(B, p, d)
  BY DEF Alike, Same
<1>2. PICK e \in Page : Lays(B, p, e) /\ Lays(C, p, e)
  BY DEF Alike, Same
<1>3. d = e
  BY <1>1, <1>2, LaysOnce
<1> QED BY <1>1, <1>2, <1>3 DEF Same

LEMMA SameBoth ==
    ASSUME NEW A \in Layouts, NEW B \in Layouts, NEW C \in Layouts, NEW D \in Layouts,
           NEW p \in Nat, Same(A, B, p), Alike(C, D)
    PROVE  Same(A \o C, B \o D, p)
<1>1. PICK d \in Page : Lays(A, p, d) /\ Lays(B, p, d)
  BY DEF Same
<1>2. d.at \in Nat /\ d.puts \in Seq(Put)
  BY DEF Page
<1>3. PICK e \in Page : Lays(C, d.at, e) /\ Lays(D, d.at, e)
  BY <1>2 DEF Alike, Same
<1> DEFINE both == [at |-> e.at, puts |-> d.puts \o e.puts]
<1>4. both \in Page
  <2>1. e.at \in Nat /\ e.puts \in Seq(Put)
    BY DEF Page
  <2> QED BY <1>2, <2>1, ConcatProperties DEF Page
<1>5. Lays(A \o C, p, both)
  BY <1>1, <1>3, LaysBoth
<1>6. Lays(B \o D, p, both)
  BY <1>1, <1>3, LaysBoth
<1> HIDE DEF both
<1> QED BY <1>4, <1>5, <1>6 DEF Same

LEMMA AlikeBoth ==
    ASSUME NEW A \in Layouts, NEW B \in Layouts, NEW C \in Layouts, NEW D \in Layouts,
           Alike(A, B), Alike(C, D)
    PROVE  Alike(A \o C, B \o D)
  BY SameBoth DEF Alike

LEMMA Keep ==
    ASSUME NEW A \in Layouts, NEW B \in Layouts, NEW C \in Layouts, Alike(A, B)
    PROVE  Alike(A \o C, B \o C)
  BY AlikeItself, AlikeBoth

LEMMA Scale ==
    ASSUME NEW k \in {1, 2, 4, 8}, NEW m \in Int, NEW n \in Int
    PROVE  k * m \in Int /\ k * (m + n) = k * m + k * n /\ (m \in Nat => k * m \in Nat)
<1>1. CASE k = 1
  BY <1>1
<1>2. CASE k = 2
  BY <1>2
<1>3. CASE k = 4
  BY <1>3
<1>4. CASE k = 8
  BY <1>4
<1> QED BY <1>1, <1>2, <1>3, <1>4

(* Items of one size side by side.                                         *)
InRow(x, n, base, size) ==
    /\ x \in Seq(Put) /\ Len(x) = n
    /\ \A i \in 1..n : x[i] = <<base + size * (i - 1), size>>

LEMMA RunInRow ==
    ASSUME NEW a \in {1, 2, 4, 8}, NEW b \in Nat, NEW n \in Nat, NEW p \in Nat
    PROVE  InRow(Puts(<<a, b, n>>, p), n, Pad(p, a), b)
<1>1. <<a, b, n>> \in Runs
  BY DEF Runs
<1>2. PICK run \in Runs : run = <<a, b, n>> /\ run[1] = a /\ run[2] = b /\ run[3] = n
  BY <1>1
<1>3. /\ Puts(run, p) \in Seq(Put) /\ Len(Puts(run, p)) = run[3]
      /\ \A i \in 1..run[3] :
           Puts(run, p)[i] = <<Pad(p, run[1]) + run[2] * (i - 1), run[2]>>
  BY RunFacts
<1> QED BY <1>2, <1>3 DEF InRow

LEMMA Glued ==
    ASSUME NEW k \in {1, 2, 4, 8}, NEW m \in Nat, NEW n \in Nat, NEW b \in Nat,
           NEW x, NEW y, NEW z,
           InRow(x, m, b, k), InRow(y, n, b + k * m, k), InRow(z, m + n, b, k)
    PROVE  x \o y = z
<1>1. /\ x \o y \in Seq(Put) /\ Len(x \o y) = m + n
      /\ \A i \in 1..(m + n) : (x \o y)[i] = IF i <= m THEN x[i] ELSE y[i - m]
  BY ConcatProperties DEF InRow
<1>2. \A i \in 1..(m + n) : (x \o y)[i] = z[i]
  <2> TAKE i \in 1..(m + n)
  <2>1. CASE i <= m
    <3>1. i \in 1..m /\ (x \o y)[i] = x[i]
      BY <1>1, <2>1
    <3>2. x[i] = <<b + k * (i - 1), k>> /\ z[i] = <<b + k * (i - 1), k>>
      BY <3>1 DEF InRow
    <3> QED BY <3>1, <3>2
  <2>2. CASE ~(i <= m)
    <3>1. i - m \in 1..n /\ m + ((i - m) - 1) = i - 1
      BY <2>2
    <3>2. k * m \in Nat /\ k * ((i - m) - 1) \in Nat
      BY <3>1, Scale
    <3>3. (x \o y)[i] = <<(b + k * m) + k * ((i - m) - 1), k>>
      BY <1>1, <2>2, <3>1 DEF InRow
    <3>4. k * m + k * ((i - m) - 1) = k * (i - 1)
      BY <3>1, Scale
    <3>5. (b + k * m) + k * ((i - m) - 1) = b + k * (i - 1)
      BY <3>2, <3>4
    <3> QED BY <3>3, <3>5 DEF InRow
  <2> QED BY <2>1, <2>2
<1>3. \A s, t \in Seq(Put) : Len(s) = Len(t) /\ (\A i \in 1..Len(s) : s[i] = t[i]) => s = t
  BY SeqEqual
<1> QED BY <1>1, <1>2, <1>3 DEF InRow

(* Two runs of items of one size, the second needing no padding.           *)
LEMMA TwoRuns ==
    ASSUME NEW k \in {1, 2, 4, 8}, NEW j \in {1, k}, NEW m \in Nat, NEW n \in Nat
    PROVE  Alike(<< <<k, k, m>> >> \o << <<j, k, n>> >>, << <<k, k, m + n>> >>)
<1> DEFINE r == <<k, k, m>>
           s == <<j, k, n>>
           t == <<k, k, m + n>>
<1>1. r \in Runs /\ s \in Runs /\ t \in Runs
  BY DEF Runs
<1>2. << r >> \in Layouts /\ << s >> \in Layouts
  BY <1>1 DEF Layouts
<1> SUFFICES ASSUME NEW p \in Nat PROVE Same(<< r >> \o << s >>, << t >>, p)
  BY DEF Alike
<1> DEFINE q == End(r, p)
<1>3. q = Pad(p, k) + k * m /\ q \in Nat /\ Pad(p, k) \in Nat /\ Pad(q, j) = q
  <2>1. q = Pad(p, k) + k * m
    BY DEF End
  <2>2. Pad(q, k) = q /\ Pad(p, k) \in Nat
    <3>1. Pad(p, k) \in Nat /\ Pad(Pad(p, k) + k * m, k) = Pad(p, k) + k * m
      BY PadFacts
    <3> HIDE DEF q
    <3> QED BY <2>1, <3>1
  <2>3. q \in Nat
    BY <1>1, RunFacts
  <2>4. Pad(q, 1) = q
    <3> HIDE DEF q
    <3> QED BY <2>3 DEF Pad
  <2> QED BY <2>1, <2>2, <2>3, <2>4
<1>4. End(s, q) = End(t, p)
  <2>1. End(s, q) = q + k * n /\ End(t, p) = Pad(p, k) + k * (m + n)
    BY <1>3 DEF End
  <2> HIDE DEF q
  <2>2. k * (m + n) = k * m + k * n
    BY Scale
  <2>3. k * m \in Nat /\ k * n \in Nat
    BY Scale
  <2> QED BY <1>3, <2>1, <2>2, <2>3
<1>5. Puts(r, p) \o Puts(s, q) = Puts(t, p)
  <2>1. InRow(Puts(r, p), m, Pad(p, k), k)
    BY RunInRow
  <2>2. InRow(Puts(s, q), n, q, k)
    <3>1. q \in Nat /\ Pad(q, j) = q /\ j \in {1, 2, 4, 8} /\ k \in Nat
      BY <1>3
    <3> HIDE DEF q
    <3>2. InRow(Puts(<<j, k, n>>, q), n, Pad(q, j), k)
      BY <3>1, RunInRow
    <3> QED BY <3>1, <3>2
  <2>3. InRow(Puts(t, p), m + n, Pad(p, k), k)
    <3>1. m + n \in Nat
      OBVIOUS
    <3> QED BY <3>1, RunInRow
  <2>4. InRow(Puts(s, q), n, Pad(p, k) + k * m, k)
    <3>1. q = Pad(p, k) + k * m
      BY <1>3
    <3> HIDE DEF q
    <3> QED BY <2>2, <3>1
  <2>5. Pad(p, k) \in Nat
    BY <1>3
  <2> HIDE DEF q, r, s, t
  <2> QED BY <2>1, <2>3, <2>4, <2>5, Glued
<1> DEFINE d == [at |-> q, puts |-> Puts(r, p)]
           e == [at |-> End(s, q), puts |-> Puts(s, q)]
           f == [at |-> End(t, p), puts |-> Puts(t, p)]
<1>6. Lays(<< r >>, p, d) /\ d \in Page
  BY <1>1, LaysRun
<1>7. Lays(<< s >>, d.at, e) /\ e \in Page
  <2>1. q \in Nat
    BY <1>3
  <2> HIDE DEF q, s
  <2> QED BY <1>1, <2>1, LaysRun
<1>8. Lays(<< t >>, p, f) /\ f \in Page
  BY <1>1, LaysRun
<1>9. f = [at |-> e.at, puts |-> d.puts \o e.puts]
  BY <1>4, <1>5
<1> HIDE DEF d, e, f, r, s, t
<1>10. Lays(<< r >> \o << s >>, p, f)
  BY <1>2, <1>6, <1>7, <1>9, LaysBoth
<1> QED BY <1>8, <1>10 DEF Same

LEMMA Regroup ==
    ASSUME NEW A \in Layouts, NEW B \in Layouts, NEW C \in Layouts
    PROVE  A \o (B \o C) = (A \o B) \o C
  BY ConcatAssociative DEF Layouts

(* What a merged run does not change behind it. *)
LEMMA Grow ==
    ASSUME NEW X \in Layouts, NEW A \in Layouts,
           NEW k \in {1, 2, 4, 8}, NEW j \in {1, k}, NEW m \in Nat, NEW n \in Nat,
           Alike(X, A \o << <<k, k, m>> >>)
    PROVE  Alike(X \o << <<j, k, n>> >>, A \o << <<k, k, m + n>> >>)
<1> DEFINE R == << <<k, k, m>> >>
           S == << <<j, k, n>> >>
           T == << <<k, k, m + n>> >>
<1>1. R \in Layouts /\ S \in Layouts /\ T \in Layouts
  BY DEF Layouts, Runs
<1>2. Alike(R \o S, T)
  BY TwoRuns
<1> HIDE DEF R, S, T
<1>3. A \o R \in Layouts /\ R \o S \in Layouts
  BY <1>1, ConcatProperties DEF Layouts
<1>4. Alike(X \o S, (A \o R) \o S)
  BY <1>1, <1>3, Keep DEF R
<1>5. Alike(A \o (R \o S), A \o T)
  BY <1>1, <1>2, <1>3, AlikeItself, AlikeBoth
<1>6. A \o (R \o S) = (A \o R) \o S
  BY <1>1, Regroup
<1>7. (A \o R) \o S \in Layouts
  BY <1>1, <1>3, ConcatProperties DEF Layouts
<1>8. Alike(X \o S, A \o T)
  BY <1>4, <1>5, <1>6, <1>7, AlikeOn
<1> QED BY <1>8 DEF S, T

LEMMA NoItems == Alike(Raw(1, 0), << >>)
<1> DEFINE r == <<1, 1, 0>>
<1> SUFFICES ASSUME NEW p \in Nat PROVE Same(<< r >>, << >>, p)
  BY DEF Alike, Raw
<1>1. r \in Runs
  BY DEF Runs
<1>2. End(r, p) = p /\ Puts(r, p) = << >>
  <2>1. Len(Puts(r, p)) = 0 /\ Puts(r, p) \in Seq(Put)
    BY <1>1, RunFacts
  <2>2. End(r, p) = p
    BY DEF End, Pad
  <2> QED BY <2>1, <2>2, EmptySeq
<1>3. Lays(<< r >>, p, Blank(p))
  BY <1>1, <1>2, LaysRun DEF Blank
<1> QED BY <1>3, LaysNothing, BlankFacts DEF Same

(* At the start of a message nothing needs padding. *)
LEMMA AtStart ==
    ASSUME NEW n \in Nat
    PROVE  Same(Raw(8, n), << <<8, 8, n>> >>, 0)
<1> DEFINE r == <<1, 8, n>>
           s == <<8, 8, n>>
<1>1. r \in Runs /\ s \in Runs
  BY DEF Runs
<1>2. Pad(0, 1) = 0 /\ Pad(0, 8) = 0
  BY DEF Pad
<1>3. End(r, 0) = End(s, 0)
  BY <1>2 DEF End
<1>4. Puts(r, 0) = Puts(s, 0)
  BY <1>2 DEF Puts
<1>5. Lays(<< s >>, 0, [at |-> End(s, 0), puts |-> Puts(s, 0)]) /\ [at |-> End(s, 0), puts |-> Puts(s, 0)] \in Page
  BY <1>1, LaysRun
<1>6. Lays(<< r >>, 0, [at |-> End(s, 0), puts |-> Puts(s, 0)])
  BY <1>1, <1>3, <1>4, LaysRun
<1> HIDE DEF r, s
<1>7. Same(<< r >>, << s >>, 0)
  BY <1>5, <1>6 DEF Same
<1> QED BY <1>7 DEF r, s, Raw

-----------------------------------------------------------------------------
(* Layouts in a row.                                                       *)

Rows(s, n, f) == f = [i \in 1..n |-> IF i = 1 THEN s[i] ELSE f[i - 1] \o s[i]]

LEMMA RowsExist ==
    ASSUME NEW s, NEW n \in Nat
    PROVE  \E f : Rows(s, n, f)
<1> DEFINE S == {m \in Nat : \E f : Rows(s, m, f)}
<1>1. 0 \in S
  <2> DEFINE f == [i \in 1..0 |-> s[i]]
  <2>1. f = [i \in 1..0 |-> IF i = 1 THEN s[i] ELSE f[i - 1] \o s[i]]
    OBVIOUS
  <2> HIDE DEF f
  <2>2. Rows(s, 0, f)
    BY <2>1 DEF Rows
  <2> QED BY <2>2
<1>2. \A m \in S : m + 1 \in S
  <2> SUFFICES ASSUME NEW m \in Nat, NEW f, Rows(s, m, f)
               PROVE  \E g : Rows(s, m + 1, g)
    OBVIOUS
  <2>1. \A i \in 1..m : f[i] = IF i = 1 THEN s[i] ELSE f[i - 1] \o s[i]
    BY DEF Rows
  <2> DEFINE g == [i \in 1..(m + 1) |->
                     IF i <= m THEN f[i] ELSE IF i = 1 THEN s[i] ELSE f[i - 1] \o s[i]]
  <2>2. \A i \in 1..(m + 1) : g[i] = IF i = 1 THEN s[i] ELSE g[i - 1] \o s[i]
    <3> TAKE i \in 1..(m + 1)
    <3>1. CASE i = 1
      BY <2>1, <3>1
    <3>2. CASE i # 1
      <4>1. i - 1 \in 1..m /\ g[i - 1] = f[i - 1]
        BY <3>2
      <4>2. g[i] = f[i - 1] \o s[i]
        <5>1. CASE i <= m
          <6>1. i \in 1..m /\ g[i] = f[i]
            BY <5>1
          <6> HIDE DEF g
          <6> QED BY <2>1, <3>2, <6>1
        <5>2. CASE ~(i <= m)
          BY <3>2, <5>2
        <5> QED BY <5>1, <5>2
      <4> QED BY <3>2, <4>1, <4>2
    <3> QED BY <3>1, <3>2
  <2>3. g = [i \in 1..(m + 1) |-> g[i]]
    OBVIOUS
  <2> HIDE DEF g
  <2>4. g = [i \in 1..(m + 1) |-> IF i = 1 THEN s[i] ELSE g[i - 1] \o s[i]]
    BY <2>2, <2>3
  <2>5. Rows(s, m + 1, g)
    BY <2>4 DEF Rows
  <2> QED BY <2>5
<1> HIDE DEF S
<1>3. S = Nat
  <2>1. S \in SUBSET Nat
    BY DEF S
  <2> QED BY <1>1, <1>2, <2>1, Induct
<1> QED BY <1>3 DEF S

LEMMA Flattened ==
    ASSUME NEW s, NEW n \in Nat, n # 0, Len(s) = n
    PROVE  \E f : Rows(s, n, f) /\ FlattenSeq(s) = f[n]
<1>1. FlattenSeq(s) = (CHOOSE f : Rows(s, n, f))[n]
  BY DEF FlattenSeq, Rows
<1>2. \E f : Rows(s, n, f)
  BY RowsExist
<1> QED BY <1>1, <1>2

LEMMA FlattenOne ==
    ASSUME NEW s, Len(s) = 1
    PROVE  FlattenSeq(s) = s[1]
<1> DEFINE n == 1
<1>0. n \in Nat /\ n # 0 /\ Len(s) = n
  OBVIOUS
<1> HIDE DEF n
<1>1. PICK f : Rows(s, n, f) /\ FlattenSeq(s) = f[n]
  BY <1>0, Flattened
<1> USE DEF n
<1> QED BY <1>1 DEF Rows

LEMMA FlattenMore ==
    ASSUME NEW s, NEW t, NEW n \in Nat, n # 0, Len(s) = n, Len(t) = n + 1,
           \A i \in 1..n : s[i] = t[i]
    PROVE  FlattenSeq(t) = FlattenSeq(s) \o t[n + 1]
<1>1. PICK f : Rows(s, n, f) /\ FlattenSeq(s) = f[n]
  BY Flattened
<1>2. PICK g : Rows(t, n + 1, g) /\ FlattenSeq(t) = g[n + 1]
  <2>1. n + 1 \in Nat /\ n + 1 # 0
    OBVIOUS
  <2> QED BY <2>1, Flattened
<1>3. \A i \in 1..n : f[i] = IF i = 1 THEN s[i] ELSE f[i - 1] \o s[i]
  BY <1>1 DEF Rows
<1>4. \A i \in 1..(n + 1) : g[i] = IF i = 1 THEN t[i] ELSE g[i - 1] \o t[i]
  BY <1>2 DEF Rows
<1> DEFINE S == {m \in Nat : m + 1 <= n => f[m + 1] = g[m + 1]}
<1>5. 0 \in S
  BY <1>3, <1>4
<1>6. \A m \in S : m + 1 \in S
  <2> SUFFICES ASSUME NEW m \in Nat, (m + 1) + 1 <= n, f[m + 1] = g[m + 1]
               PROVE  f[(m + 1) + 1] = g[(m + 1) + 1]
    OBVIOUS
  <2> DEFINE i == (m + 1) + 1
  <2>1. i \in 1..n /\ i \in 1..(n + 1) /\ i # 1 /\ i - 1 = m + 1
    OBVIOUS
  <2> HIDE DEF i
  <2>2. f[i] = f[m + 1] \o s[i]
    BY <1>3, <2>1
  <2>3. g[i] = g[m + 1] \o t[i]
    BY <1>4, <2>1
  <2>4. f[i] = g[i]
    BY <2>1, <2>2, <2>3
  <2> QED BY <2>4 DEF i
<1> HIDE DEF S
<1>7. S = Nat
  <2>1. S \in SUBSET Nat
    BY DEF S
  <2> QED BY <1>5, <1>6, <2>1, Induct
<1>8. f[n] = g[n]
  <2>1. n - 1 \in S /\ (n - 1) + 1 = n
    BY <1>7
  <2> QED BY <2>1 DEF S
<1>9. g[n + 1] = g[n] \o t[n + 1]
  <2>1. n + 1 \in 1..(n + 1) /\ n + 1 # 1 /\ (n + 1) - 1 = n
    OBVIOUS
  <2> QED BY <1>4, <2>1
<1> QED BY <1>1, <1>2, <1>8, <1>9

LEMMA TimesFacts ==
    ASSUME NEW A
    PROVE  /\ Times(0, A) = << >>
           /\ Times(1, A) = A
           /\ \A n \in Nat : n # 0 => Times(n + 1, A) = Times(n, A) \o A
<1> DEFINE s(n) == [i \in 1..n |-> A]
<1>1. \A n \in Nat : s(n) \in Seq({A}) /\ Len(s(n)) = n /\ \A i \in 1..n : s(n)[i] = A
  OBVIOUS
<1>2. Times(0, A) = << >>
  <2>1. s(0) = << >>
    OBVIOUS
  <2>2. Len(<< >>) = 0
    OBVIOUS
  <2> QED BY <2>1, <2>2 DEF Times, FlattenSeq
<1>3. Times(1, A) = A
  <2>1. FlattenSeq(s(1)) = s(1)[1]
    BY <1>1, FlattenOne
  <2> QED BY <2>1 DEF Times
<1>4. ASSUME NEW n \in Nat, n # 0
      PROVE  Times(n + 1, A) = Times(n, A) \o A
  <2>1. Len(s(n)) = n /\ Len(s(n + 1)) = n + 1 /\ s(n + 1)[n + 1] = A
    BY <1>1
  <2>2. \A i \in 1..n : s(n)[i] = s(n + 1)[i]
    OBVIOUS
  <2>3. FlattenSeq(s(n + 1)) = FlattenSeq(s(n)) \o s(n + 1)[n + 1]
    <3> HIDE DEF s
    <3> QED BY <1>4, <2>1, <2>2, FlattenMore
  <2> QED BY <2>1, <2>3 DEF Times
<1> QED BY <1>2, <1>3, <1>4

LEMMA TimesAlike ==
    ASSUME NEW A \in Layouts, NEW B \in Layouts, NEW n \in Nat, Alike(A, B)
    PROVE  Times(n, A) \in Layouts /\ Times(n, B) \in Layouts /\ Alike(Times(n, A), Times(n, B))
<1> DEFINE Good(m) == /\ Times(m, A) \in Layouts /\ Times(m, B) \in Layouts
                      /\ Alike(Times(m, A), Times(m, B))
           S == {m \in Nat : Good(m)}
<1>1. 0 \in S
  <2>1. << >> \in Layouts
    BY DEF Layouts
  <2>2. Alike(<< >>, << >>)
    BY <2>1, AlikeItself
  <2>3. Good(0)
    BY <2>1, <2>2, TimesFacts
  <2> HIDE DEF Good
  <2> QED BY <2>3
<1>2. \A m \in S : m + 1 \in S
  <2> SUFFICES ASSUME NEW m \in Nat, Good(m) PROVE Good(m + 1)
    OBVIOUS
  <2>1. CASE m = 0
    <3>1. Times(1, A) = A /\ Times(1, B) = B
      BY TimesFacts
    <3> QED BY <2>1, <3>1
  <2>2. CASE m # 0
    <3>1. Times(m + 1, A) = Times(m, A) \o A
      BY <2>2, TimesFacts
    <3>2. Times(m + 1, B) = Times(m, B) \o B
      BY <2>2, TimesFacts
    <3>3. Times(m, A) \o A \in Layouts /\ Times(m, B) \o B \in Layouts
      BY ConcatProperties DEF Layouts
    <3>4. Alike(Times(m, A) \o A, Times(m, B) \o B)
      BY AlikeBoth
    <3> QED BY <3>1, <3>2, <3>3, <3>4
  <2> QED BY <2>1, <2>2
<1>3. S = Nat
  <2> HIDE DEF S
  <2>1. S \in SUBSET Nat
    BY DEF S
  <2> QED BY <1>1, <1>2, <2>1, Induct
<1> HIDE DEF Good
<1>4. Good(n)
  BY <1>3
<1> QED BY <1>4 DEF Good

LEMMA TimesF64 ==
    ASSUME NEW n \in Nat, n # 0
    PROVE  Alike(Times(n, F64), Array(8, n))
<1> DEFINE S == {m \in Nat : Alike(Times(m + 1, F64), Array(8, m + 1))}
<1>0. \A m \in Nat : Array(8, m) \in Layouts /\ F64 = << <<8, 8, 1>> >> /\ Array(8, m) = << <<8, 8, m>> >> /\ F64 \in Layouts
  BY DEF Layouts, Runs, Array, F64
<1>1. 0 \in S
  <2>1. Times(1, F64) = F64 /\ Array(8, 1) = F64
    BY <1>0, TimesFacts
  <2>2. Alike(F64, F64)
    BY <1>0, AlikeItself
  <2> QED BY <2>1, <2>2
<1>2. \A m \in S : m + 1 \in S
  <2> SUFFICES ASSUME NEW m \in Nat, Alike(Times(m + 1, F64), Array(8, m + 1))
               PROVE  Alike(Times(m + 2, F64), Array(8, m + 2))
    OBVIOUS
  <2>1. m + 1 \in Nat /\ m + 1 # 0 /\ m + 2 \in Nat /\ (m + 1) + 1 = m + 2
    OBVIOUS
  <2>2. Times(m + 2, F64) = Times(m + 1, F64) \o F64
    BY <2>1, TimesFacts
  <2>3. Times(m + 1, F64) \in Layouts
    BY <1>0, <2>1, TimesAlike, AlikeItself
  <2>4. Alike(Times(m + 1, F64) \o F64, Array(8, m + 1) \o F64)
    BY <1>0, <2>1, <2>3, Keep
  <2>5. Alike(Array(8, m + 1) \o F64, Array(8, m + 2))
    <3>1. Alike(<< <<8, 8, m + 1>> >> \o << <<8, 8, 1>> >>, << <<8, 8, (m + 1) + 1>> >>)
      BY <2>1, TwoRuns
    <3> QED BY <1>0, <2>1, <3>1
  <2>6. Array(8, m + 1) \o F64 \in Layouts
    BY <1>0, <2>1, ConcatProperties DEF Layouts
  <2> QED BY <2>2, <2>4, <2>5, <2>6, AlikeOn
<1> HIDE DEF S
<1>3. S = Nat
  <2>1. S \in SUBSET Nat
    BY DEF S
  <2> QED BY <1>1, <1>2, <2>1, Induct
<1>4. n - 1 \in S /\ (n - 1) + 1 = n
  BY <1>3
<1> QED BY <1>4 DEF S

-----------------------------------------------------------------------------
(* One layout in the form of another.                                      *)

Is(X, C) == X \in Layouts /\ C \in Layouts /\ Alike(X, C)

LEMMA Chained ==
    ASSUME NEW A \in Layouts, NEW B \in Layouts
    PROVE  A \o B \in Layouts
  BY ConcatProperties DEF Layouts

LEMMA Runlike ==
    ASSUME NEW k \in {1, 2, 4, 8}, NEW n \in Nat
    PROVE  Array(k, n) \in Layouts /\ Raw(k, n) \in Layouts
  BY DEF Layouts, Runs, Array, Raw

LEMMA Single ==
    /\ U8 = Array(1, 1) /\ U32 = Array(4, 1) /\ F64 = Array(8, 1)
    /\ \A n : Raw(1, n) = Array(1, n)
    /\ U8 \in Layouts /\ U32 \in Layouts /\ F64 \in Layouts
<1>1. U8 = Array(1, 1) /\ U32 = Array(4, 1) /\ F64 = Array(8, 1)
  BY DEF U8, U32, F64, Array
<1>2. \A n : Raw(1, n) = Array(1, n)
  BY DEF Raw, Array
<1>3. Array(1, 1) \in Layouts /\ Array(4, 1) \in Layouts /\ Array(8, 1) \in Layouts
  BY Runlike
<1> QED BY <1>1, <1>2, <1>3

LEMMA Texts ==
    ASSUME NEW n \in Nat
    PROVE  Text(n) \in Layouts /\ Header(n) \in Layouts
<1>1. Raw(1, n + 1) \in Layouts
  BY Runlike
<1>2. Text(n) \in Layouts
  BY <1>1, Single, Chained DEF Text
<1>3. Stamp \in Layouts
  BY Single, Chained DEF Stamp
<1> QED BY <1>2, <1>3, Chained DEF Header

LEMMA IsItself ==
    ASSUME NEW X \in Layouts
    PROVE  Is(X, X)
  BY AlikeItself DEF Is

LEMMA IsTrans ==
    ASSUME NEW X, NEW Y, NEW Z, Is(X, Y), Is(Y, Z)
    PROVE  Is(X, Z)
  BY AlikeOn DEF Is

LEMMA IsBoth ==
    ASSUME NEW X, NEW C, NEW Y, NEW D, Is(X, C), Is(Y, D)
    PROVE  Is(X \o Y, C \o D)
  BY AlikeBoth, Chained DEF Is

LEMMA IsKeep ==
    ASSUME NEW X, NEW C, NEW L \in Layouts, Is(X, C)
    PROVE  Is(X \o L, C \o L)
  BY IsBoth, IsItself

LEMMA IsGrow ==
    ASSUME NEW X, NEW A \in Layouts, NEW k \in {1, 2, 4, 8}, NEW m \in Nat, NEW n \in Nat,
           Is(X, A \o Array(k, m))
    PROVE  Is(X \o Array(k, n), A \o Array(k, m + n))
<1>1. Array(k, n) \in Layouts /\ Array(k, m + n) \in Layouts
  BY Runlike
<1>2. Alike(X \o << <<k, k, n>> >>, A \o << <<k, k, m + n>> >>)
  BY Grow DEF Is, Array
<1> QED BY <1>1, <1>2, Chained DEF Is, Array

LEMMA IsGrowRaw ==
    ASSUME NEW X, NEW A \in Layouts, NEW k \in {1, 2, 4, 8}, NEW m \in Nat, NEW n \in Nat,
           Is(X, A \o Array(k, m))
    PROVE  Is(X \o Raw(k, n), A \o Array(k, m + n))
<1>1. Raw(k, n) \in Layouts /\ Array(k, m + n) \in Layouts
  BY Runlike
<1>2. Alike(X \o << <<1, k, n>> >>, A \o << <<k, k, m + n>> >>)
  BY Grow DEF Is, Array
<1> QED BY <1>1, <1>2, Chained DEF Is, Array, Raw

LEMMA Seg2 ==
    ASSUME NEW X, NEW C, NEW k \in {1, 2, 4, 8}, NEW a \in Nat, NEW b \in Nat, Is(X, C)
    PROVE  Is(X \o Array(k, a) \o Array(k, b), C \o Array(k, a + b))
<1>1. Array(k, a) \in Layouts /\ C \in Layouts
  BY Runlike DEF Is
<1>2. Is(X \o Array(k, a), C \o Array(k, a))
  BY <1>1, IsKeep
<1> QED BY <1>1, <1>2, IsGrow

LEMMA Seg3 ==
    ASSUME NEW X, NEW C, NEW k \in {1, 2, 4, 8}, NEW a \in Nat, NEW b \in Nat, NEW c \in Nat,
           Is(X, C)
    PROVE  Is(X \o Array(k, a) \o Array(k, b) \o Array(k, c), C \o Array(k, (a + b) + c))
<1>1. Is(X \o Array(k, a) \o Array(k, b), C \o Array(k, a + b)) /\ C \in Layouts
  BY Seg2 DEF Is
<1>2. a + b \in Nat
  OBVIOUS
<1> QED BY <1>1, <1>2, IsGrow

LEMMA Seg4 ==
    ASSUME NEW X, NEW C, NEW k \in {1, 2, 4, 8}, NEW a \in Nat, NEW b \in Nat, NEW c \in Nat,
           NEW d \in Nat, Is(X, C)
    PROVE  Is(X \o Array(k, a) \o Array(k, b) \o Array(k, c) \o Array(k, d),
              C \o Array(k, ((a + b) + c) + d))
<1>1. Is(X \o Array(k, a) \o Array(k, b) \o Array(k, c), C \o Array(k, (a + b) + c)) /\ C \in Layouts
  BY Seg3 DEF Is
<1>2. (a + b) + c \in Nat
  OBVIOUS
<1> QED BY <1>1, <1>2, IsGrow

(* The same where a message begins. *)
LEMMA First2 ==
    ASSUME NEW k \in {1, 2, 4, 8}, NEW a \in Nat, NEW b \in Nat
    PROVE  /\ Is(Array(k, a) \o Array(k, b), Array(k, a + b))
           /\ Is(Array(k, a) \o Raw(k, b), Array(k, a + b))
<1>1. Array(k, a) \in Layouts /\ Array(k, b) \in Layouts /\ Raw(k, b) \in Layouts /\ Array(k, a + b) \in Layouts
  BY Runlike
<1>2. Alike(<< <<k, k, a>> >> \o << <<k, k, b>> >>, << <<k, k, a + b>> >>)
  BY TwoRuns
<1>3. Alike(<< <<k, k, a>> >> \o << <<1, k, b>> >>, << <<k, k, a + b>> >>)
  BY TwoRuns
<1> QED BY <1>1, <1>2, <1>3, Chained DEF Is, Array, Raw

LEMMA IsItems ==
    ASSUME NEW X, NEW C, NEW n \in Nat, Is(X, C)
    PROVE  Is(X \o Items(1, n), C \o U32 \o Array(1, n))
<1> DEFINE body == IF n = 0 THEN << >> ELSE Array(1, n)
<1>1. Is(body, Array(1, n))
  <2>1. CASE n = 0
    <3>1. << >> \in Layouts /\ Array(1, 0) \in Layouts
      BY Runlike DEF Layouts
    <3>2. Alike(<< >>, Array(1, 0))
      BY NoItems, AlikeBack, Single
    <3> QED BY <2>1, <3>1, <3>2 DEF Is
  <2>2. CASE n # 0
    BY <2>2, Runlike, IsItself
  <2> QED BY <2>1, <2>2
<1>2. Items(1, n) = U32 \o body
  BY DEF Items
<1> HIDE DEF body
<1>3. X \in Layouts /\ body \in Layouts /\ U32 \in Layouts
  BY <1>1, Single DEF Is
<1>4. X \o (U32 \o body) = X \o U32 \o body
  BY <1>3, Regroup
<1>5. Is(X \o U32, C \o U32)
  BY <1>3, IsKeep
<1> QED BY <1>1, <1>2, <1>4, <1>5, IsBoth

(* A reader reads what was written, and may stop early. *)
Reads(W, R) == \E rest \in Layouts : Same(W, R \o rest, 0)

LEMMA ReadsAll ==
    ASSUME NEW W, NEW R \in Layouts, Same(W, R, 0)
    PROVE  Reads(W, R)
<1>1. << >> \in Layouts /\ R \o << >> = R
  BY ConcatEmptySeq DEF Layouts
<1> QED BY <1>1 DEF Reads

LEMMA ReadsIs ==
    ASSUME NEW W, NEW R, NEW C, Is(W, C), Is(R, C)
    PROVE  W \in Layouts /\ R \in Layouts /\ Reads(W, R)
<1>1. W \in Layouts /\ R \in Layouts /\ C \in Layouts /\ Alike(W, R)
  BY AlikeBack, AlikeOn DEF Is
<1> QED BY <1>1, ReadsAll DEF Alike

-----------------------------------------------------------------------------
(* Every reader against its writer.                                        *)

LEMMA IsBack ==
    ASSUME NEW X, NEW C, Is(X, C)
    PROVE  Is(C, X)
  BY AlikeBack DEF Is

LEMMA StampRead == Is(U32 \o Raw(4, 1), Stamp)
<1>1. Is(Array(4, 1) \o Raw(4, 1), Array(4, 1 + 1)) /\ Is(Array(4, 1) \o Array(4, 1), Array(4, 1 + 1))
  BY First2
<1> QED BY <1>1, Single, IsBack, IsTrans DEF Stamp

LEMMA HeaderRead ==
    ASSUME NEW a \in Nat
    PROVE  Is(U32 \o Raw(4, 1) \o Text(a), Header(a))
  BY StampRead, Texts, IsKeep DEF Header

LEMMA JpegSchemaReads ==
    ASSUME NEW a \in Nat, NEW b \in Nat, NEW n \in Nat
    PROVE  /\ BridgeImage(a, b, n) \in Layouts /\ ImageSchema(a, b, n) \in Layouts
           /\ Reads(BridgeImage(a, b, n), ImageSchema(a, b, n))
<1> DEFINE H == Header(a) \o Text(b)
           C == H \o U32 \o Array(1, n)
<1>1. H \in Layouts
  BY Texts, Chained
<1>2. H \o U32 \in Layouts /\ C \in Layouts
  BY <1>1, Single, Runlike, Chained
<1> HIDE DEF H
<1>3. Is(H \o U32 \o Raw(1, n), C)
  BY <1>2, Single, IsItself
<1>4. Is(H \o Items(1, n), C)
  BY <1>1, IsItself, IsItems
<1> HIDE DEF C
<1> QED BY <1>3, <1>4, ReadsIs DEF H, BridgeImage, ImageSchema

LEMMA JpegReads ==
    ASSUME NEW a \in Nat, NEW b \in Nat, NEW n \in Nat
    PROVE  /\ BridgeImage(a, b, n) \in Layouts /\ ClientReadsJpeg(a, b, n) \in Layouts
           /\ Reads(BridgeImage(a, b, n), ClientReadsJpeg(a, b, n))
<1>1. Is(U32 \o Raw(4, 1) \o Text(a), Header(a))
  BY HeaderRead
<1>2. Text(b) \in Layouts /\ U32 \in Layouts /\ Raw(1, n) \in Layouts
  BY Texts, Single, Runlike
<1>3. Is(ClientReadsJpeg(a, b, n), BridgeImage(a, b, n))
  <2>1. Is(U32 \o Raw(4, 1) \o Text(a) \o Text(b), Header(a) \o Text(b))
    BY <1>1, <1>2, IsKeep
  <2>2. Is(U32 \o Raw(4, 1) \o Text(a) \o Text(b) \o U32, Header(a) \o Text(b) \o U32)
    BY <1>2, <2>1, IsKeep
  <2> QED BY <1>2, <2>2, IsKeep DEF ClientReadsJpeg, BridgeImage
<1>4. Is(BridgeImage(a, b, n), BridgeImage(a, b, n))
  BY <1>3, IsItself DEF Is
<1> QED BY <1>3, <1>4, ReadsIs

LEMMA ImageReads ==
    ASSUME NEW a \in Nat, NEW b \in Nat, NEW n \in Nat
    PROVE  /\ RosImage(a, b, n) \in Layouts /\ ClientReadsImage(a, b, n) \in Layouts
           /\ Reads(RosImage(a, b, n), ClientReadsImage(a, b, n))
<1> DEFINE r0 == U32 \o Raw(4, 1) \o Text(a)
           r1 == r0 \o U32
           r2 == r1 \o U32
           r3 == r2 \o Text(b)
           r4 == r3 \o U8
           r5 == r4 \o U32
           w0 == Header(a)
           w1 == w0 \o U32
           w2 == w1 \o U32
           w3 == w2 \o Text(b)
           w4 == w3 \o U8
           w5 == w4 \o U32
<1>1. Text(b) \in Layouts /\ U32 \in Layouts /\ U8 \in Layouts /\ Raw(1, n) \in Layouts
  BY Texts, Single, Runlike
<1>2. Is(r0, w0)
  BY HeaderRead
<1>3. Is(r1, w1)
  BY <1>1, <1>2, IsKeep
<1>4. Is(r2, w2)
  BY <1>1, <1>3, IsKeep
<1>5. Is(r3, w3)
  BY <1>1, <1>4, IsKeep
<1>6. Is(r4, w4)
  BY <1>1, <1>5, IsKeep
<1>7. Is(r5, w5)
  BY <1>1, <1>6, IsKeep
<1>8. RosImage(a, b, n) = w5 \o Items(1, n)
  BY DEF RosImage
<1>9. ClientReadsImage(a, b, n) = r5 \o U32 \o Raw(1, n)
  BY Single DEF ClientReadsImage
<1> HIDE DEF r5, w5
<1>10. Is(r5 \o U32, w5 \o U32)
  BY <1>1, <1>7, IsKeep
<1>11. Is(r5 \o U32 \o Raw(1, n), w5 \o U32 \o Array(1, n))
  BY <1>1, <1>10, Single, IsKeep
<1>12. w5 \in Layouts
  BY <1>7 DEF Is
<1>13. Is(w5 \o Items(1, n), w5 \o U32 \o Array(1, n))
  BY <1>12, IsItself, IsItems
<1> QED BY <1>8, <1>9, <1>11, <1>13, ReadsIs

LEMMA IsTimes ==
    ASSUME NEW A, NEW B, NEW n \in Nat, Is(A, B)
    PROVE  Is(Times(n, A), Times(n, B))
  BY TimesAlike DEF Is

LEMMA IsDoubles ==
    ASSUME NEW n \in Nat, n # 0
    PROVE  Is(Times(n, F64), Array(8, n))
<1>1. Is(Times(n, F64), Times(n, F64))
  BY Single, IsItself, IsTimes
<1>2. Array(8, n) \in Layouts /\ Alike(Times(n, F64), Array(8, n))
  BY Runlike, TimesF64
<1> QED BY <1>1, <1>2 DEF Is

LEMMA OdometryWritten ==
    ASSUME NEW a \in Nat, NEW b \in Nat
    PROVE  Is(BridgeOdometry(a, b), Header(a) \o Text(b) \o Array(8, 85))
<1> DEFINE H == Header(a) \o Text(b)
<1>1. H \in Layouts
  BY Texts, Chained
<1>2. Is(Times(7, F64), Array(8, 7)) /\ Is(Times(6, F64), Array(8, 6))
  BY IsDoubles
<1>3. Is(H, H)
  BY <1>1, IsItself
<1>4. BridgeOdometry(a, b) = H \o Times(7, F64) \o Array(8, 36) \o Times(6, F64) \o Array(8, 36)
  BY DEF BridgeOdometry
<1> HIDE DEF H
<1>5. Is(H \o Times(7, F64), H \o Array(8, 7))
  BY <1>2, <1>3, IsBoth
<1>6. Is(H \o Times(7, F64) \o Array(8, 36), H \o Array(8, 7 + 36))
  BY <1>1, <1>5, IsGrow
<1>7. Is(H \o Times(7, F64) \o Array(8, 36) \o Times(6, F64), H \o Array(8, 43) \o Array(8, 6))
  BY <1>2, <1>6, IsBoth
<1>8. Is(H \o Array(8, 43) \o Array(8, 6), H \o Array(8, 43 + 6))
  BY <1>3, Seg2
<1>9. Is(H \o Times(7, F64) \o Array(8, 36) \o Times(6, F64), H \o Array(8, 49))
  BY <1>7, <1>8, IsTrans
<1>10. Is(H \o Times(7, F64) \o Array(8, 36) \o Times(6, F64) \o Array(8, 36), H \o Array(8, 49 + 36))
  BY <1>1, <1>9, IsGrow
<1> QED BY <1>4, <1>10 DEF H

LEMMA OdomSchemaReads ==
    ASSUME NEW a \in Nat, NEW b \in Nat
    PROVE  /\ BridgeOdometry(a, b) \in Layouts /\ OdomSchema(a, b) \in Layouts
           /\ Reads(BridgeOdometry(a, b), OdomSchema(a, b))
<1> DEFINE C == Header(a) \o Text(b) \o Array(8, 85)
<1>1. OdomSchema(a, b) = C
  BY DEF OdomSchema
<1>2. Is(BridgeOdometry(a, b), C)
  BY OdometryWritten
<1>3. Is(C, C)
  BY <1>2, IsItself DEF Is
<1> HIDE DEF C
<1> QED BY <1>1, <1>2, <1>3, ReadsIs

LEMMA ReadsPart ==
    ASSUME NEW W, NEW R \in Layouts, NEW rest \in Layouts, NEW C, Is(W, C), Is(R \o rest, C)
    PROVE  W \in Layouts /\ Reads(W, R)
<1>1. W \in Layouts /\ C \in Layouts /\ R \o rest \in Layouts /\ Alike(W, R \o rest)
  BY AlikeBack, AlikeOn DEF Is
<1> QED BY <1>1 DEF Reads, Alike

LEMMA OdomReads ==
    ASSUME NEW a \in Nat, NEW b \in Nat
    PROVE  /\ BridgeOdometry(a, b) \in Layouts /\ ClientReadsYaw(a, b) \in Layouts
           /\ Reads(BridgeOdometry(a, b), ClientReadsYaw(a, b))
<1> DEFINE r0 == U32 \o Raw(4, 1) \o Text(a) \o Text(b)
           H == Header(a) \o Text(b)
<1>1. Is(r0, H)
  <2>1. Text(b) \in Layouts /\ Is(U32 \o Raw(4, 1) \o Text(a), Header(a))
    BY Texts, HeaderRead
  <2> QED BY <2>1, IsKeep
<1>2. ClientReadsYaw(a, b) = r0 \o Array(8, 3) \o Raw(8, 4)
  BY DEF ClientReadsYaw, Array
<1>3. Is(BridgeOdometry(a, b), H \o Array(8, 85))
  BY OdometryWritten
<1> HIDE DEF r0, H
<1>4. H \in Layouts /\ Array(8, 3) \in Layouts
  BY <1>1, Runlike DEF Is
<1>5. Is(r0 \o Array(8, 3), H \o Array(8, 3))
  BY <1>1, <1>4, IsKeep
<1>6. Is(r0 \o Array(8, 3) \o Raw(8, 4), H \o Array(8, 7))
  <2>1. Is(r0 \o Array(8, 3) \o Raw(8, 4), H \o Array(8, 3 + 4))
    BY <1>4, <1>5, IsGrowRaw
  <2> QED BY <2>1
<1>7. Is(r0 \o Array(8, 3) \o Raw(8, 4) \o Array(8, 78), H \o Array(8, 7 + 78))
  BY <1>4, <1>6, IsGrow
<1>8. Array(8, 78) \in Layouts /\ r0 \o Array(8, 3) \o Raw(8, 4) \in Layouts
  BY <1>6, Runlike DEF Is
<1> QED BY <1>2, <1>3, <1>7, <1>8, ReadsPart

LEMMA StateWritten ==
    LET C == U8 \o U32 \o U8 \o Array(4, 8)
    IN  Is(BridgeGo2State, C \o Array(4, 4) \o Array(2, 4) \o Array(4, 24))
<1> DEFINE h == U8 \o U32 \o U8
           w1 == h \o U32 \o Array(4, 3) \o U32 \o Array(4, 3)
           w2 == w1 \o Array(4, 4) \o Array(2, 4)
           c1 == h \o Array(4, 8)
           c2 == c1 \o Array(4, 4) \o Array(2, 4)
<1>1. Is(h, h)
  BY Single, Chained, IsItself
<1>2. Array(4, 4) \in Layouts /\ Array(2, 4) \in Layouts
  BY Runlike
<1>3. BridgeGo2State = w2 \o Array(4, 12) \o Array(4, 12)
  BY DEF BridgeGo2State
<1>4. Is(w1, c1)
  <2> HIDE DEF h
  <2>1. Is(h \o Array(4, 1) \o Array(4, 3) \o Array(4, 1) \o Array(4, 3), h \o Array(4, ((1 + 3) + 1) + 3))
    BY <1>1, Seg4
  <2> QED BY <2>1, Single
<1> HIDE DEF w1, c1
<1>5. Is(w1 \o Array(4, 4), c1 \o Array(4, 4))
  BY <1>2, <1>4, IsKeep
<1>6. Is(w2, c2)
  BY <1>2, <1>5, IsKeep
<1> HIDE DEF w2, c2
<1>7. Is(w2 \o Array(4, 12) \o Array(4, 12), c2 \o Array(4, 12 + 12))
  BY <1>6, Seg2
<1> QED BY <1>3, <1>7 DEF c2, c1

LEMMA StateSchemaReads ==
    /\ BridgeGo2State \in Layouts /\ Go2StateSchema \in Layouts
    /\ Reads(BridgeGo2State, Go2StateSchema)
<1> DEFINE h == U8 \o U32 \o U8
           c == h \o Array(4, 8)
           C == h \o Array(4, 12) \o Array(2, 4) \o Array(4, 24)
<1>1. Is(BridgeGo2State, c \o Array(4, 4) \o Array(2, 4) \o Array(4, 24))
  BY StateWritten
<1>2. Is(h, h)
  BY Single, Chained, IsItself
<1>3. Array(2, 4) \in Layouts /\ Array(4, 24) \in Layouts /\ h \in Layouts
  BY <1>2, Runlike DEF Is
<1>4. Go2StateSchema = h \o U32 \o Array(4, 11) \o Array(2, 4) \o Array(4, 24)
  BY DEF Go2StateSchema
<1> HIDE DEF h
<1>5. Is(h \o Array(4, 8) \o Array(4, 4), h \o Array(4, 8 + 4))
  BY <1>2, Seg2
<1>6. Is(h \o Array(4, 1) \o Array(4, 11), h \o Array(4, 1 + 11))
  BY <1>2, Seg2
<1>7. Is(c \o Array(4, 4) \o Array(2, 4), h \o Array(4, 12) \o Array(2, 4))
  BY <1>3, <1>5, IsKeep
<1>8. Is(h \o U32 \o Array(4, 11) \o Array(2, 4), h \o Array(4, 12) \o Array(2, 4))
  BY <1>3, <1>6, Single, IsKeep
<1>9. Is(c \o Array(4, 4) \o Array(2, 4) \o Array(4, 24), C)
  BY <1>3, <1>7, IsKeep
<1>10. Is(h \o U32 \o Array(4, 11) \o Array(2, 4) \o Array(4, 24), C)
  BY <1>3, <1>8, IsKeep
<1> HIDE DEF c, C
<1>11. Is(BridgeGo2State, C)
  BY <1>1, <1>9, IsTrans
<1> QED BY <1>4, <1>10, <1>11, ReadsIs

LEMMA StateReads ==
    /\ BridgeGo2State \in Layouts /\ ClientReadsGo2State \in Layouts
    /\ Reads(BridgeGo2State, ClientReadsGo2State)
<1> DEFINE h == U8 \o U32 \o U8
           c == h \o Array(4, 8)
           x == Array(4, 4)
           y == Array(2, 4)
           z == Array(4, 24)
           rest == x \o y \o z
           r == h \o U32 \o Raw(4, 3) \o Raw(4, 1) \o Raw(4, 3)
<1>1. Is(BridgeGo2State, c \o x \o y \o z)
  BY StateWritten
<1>2. Is(h, h)
  BY Single, Chained, IsItself
<1>3. x \in Layouts /\ y \in Layouts /\ z \in Layouts /\ h \in Layouts
  BY <1>2, Runlike DEF Is
<1>4. ClientReadsGo2State = r
  BY Single DEF ClientReadsGo2State
<1> HIDE DEF h, x, y, z
<1>5. Is(r, c)
  <2>1. Is(h \o Array(4, 1), h \o Array(4, 1))
    BY <1>2, Single, IsKeep
  <2>2. Is(h \o Array(4, 1) \o Raw(4, 3), h \o Array(4, 4))
    <3>1. Is(h \o Array(4, 1) \o Raw(4, 3), h \o Array(4, 1 + 3))
      BY <1>3, <2>1, IsGrowRaw
    <3> QED BY <3>1
  <2>3. Is(h \o Array(4, 1) \o Raw(4, 3) \o Raw(4, 1), h \o Array(4, 5))
    <3>1. Is(h \o Array(4, 1) \o Raw(4, 3) \o Raw(4, 1), h \o Array(4, 4 + 1))
      BY <1>3, <2>2, IsGrowRaw
    <3> QED BY <3>1
  <2>4. Is(h \o Array(4, 1) \o Raw(4, 3) \o Raw(4, 1) \o Raw(4, 3), h \o Array(4, 5 + 3))
    BY <1>3, <2>3, IsGrowRaw
  <2> QED BY <2>4, Single
<1> HIDE DEF r, c
<1>6. c \in Layouts /\ r \in Layouts
  BY <1>5 DEF Is
<1>7. x \o y \in Layouts /\ rest \in Layouts /\ c \o x \in Layouts
  BY <1>3, <1>6, Chained
<1>8. c \o x \o y \o z = c \o rest
  <2>1. c \o (x \o y) = (c \o x) \o y
    BY <1>3, <1>6, Regroup
  <2> DEFINE xy == x \o y
  <2>2. c \o (xy \o z) = (c \o xy) \o z
    <3>1. xy \in Layouts
      BY <1>7
    <3> HIDE DEF xy
    <3> QED BY <1>3, <1>6, <3>1, Regroup
  <2> QED BY <2>1, <2>2
<1>9. Is(r \o rest, c \o rest)
  BY <1>5, <1>7, IsKeep
<1> HIDE DEF rest
<1> QED BY <1>1, <1>4, <1>6, <1>7, <1>8, <1>9, ReadsPart

LEMMA TfSchemaReads ==
    ASSUME NEW a \in Nat, NEW b \in Nat
    PROVE  /\ BridgeTf(a, b) \in Layouts /\ TfSchema(a, b) \in Layouts
           /\ Reads(BridgeTf(a, b), TfSchema(a, b))
<1> DEFINE h == U32 \o Header(a) \o Text(b)
<1>1. h \in Layouts
  BY Texts, Single, Chained
<1>2. BridgeTf(a, b) = h \o Times(7, F64) /\ TfSchema(a, b) = h \o Array(8, 3) \o Array(8, 4)
  BY DEF BridgeTf, TfSchema
<1> HIDE DEF h
<1>3. Is(h, h)
  BY <1>1, IsItself
<1>4. Is(h \o Times(7, F64), h \o Array(8, 7))
  BY <1>3, IsDoubles, IsBoth
<1>5. Is(h \o Array(8, 3) \o Array(8, 4), h \o Array(8, 3 + 4))
  BY <1>3, Seg2
<1> QED BY <1>2, <1>4, <1>5, ReadsIs

LEMMA JointSchemaReads ==
    ASSUME NEW a \in Nat, NEW n \in Nat
    PROVE  /\ BridgeJoints(a, n) \in Layouts /\ JointSchema(a, n) \in Layouts
           /\ Reads(BridgeJoints(a, n), JointSchema(a, n))
<1> DEFINE h == Header(0) \o U32 \o Times(n, Text(a))
           body == IF n = 0 THEN << >> ELSE Array(8, n)
<1>1. h \in Layouts
  <2>1. Times(n, Text(a)) \in Layouts
    BY Texts, IsItself, IsTimes DEF Is
  <2> QED BY <2>1, Texts, Single, Chained
<1>2. Is(Times(n, F64), body)
  <2>1. CASE n = 0
    <3>1. << >> \in Layouts /\ Times(0, F64) = << >>
      BY TimesFacts DEF Layouts
    <3> QED BY <2>1, <3>1, IsItself
  <2>2. CASE n # 0
    BY <2>2, IsDoubles
  <2> QED BY <2>1, <2>2
<1>3. BridgeJoints(a, n) = h \o U32 \o Times(n, F64) \o U32 \o U32
  BY DEF BridgeJoints
<1>4. JointSchema(a, n) = h \o (U32 \o body) \o U32 \o U32
  <2>1. U32 \o << >> = U32
    BY Single, ConcatEmptySeq DEF Layouts
  <2> QED BY <2>1 DEF JointSchema, Items
<1> HIDE DEF h, body
<1>5. body \in Layouts /\ U32 \in Layouts
  BY <1>2, Single DEF Is
<1>6. h \o (U32 \o body) = h \o U32 \o body
  BY <1>1, <1>5, Regroup
<1>7. Is(h \o U32, h \o U32)
  BY <1>1, <1>5, IsItself, Chained
<1>8. Is(h \o U32 \o Times(n, F64), h \o U32 \o body)
  BY <1>2, <1>7, IsBoth
<1>9. Is(h \o U32 \o Times(n, F64) \o U32, h \o U32 \o body \o U32)
  BY <1>5, <1>8, IsKeep
<1>10. Is(h \o U32 \o Times(n, F64) \o U32 \o U32, h \o U32 \o body \o U32 \o U32)
  BY <1>5, <1>9, IsKeep
<1>11. Is(h \o U32 \o body \o U32 \o U32, h \o U32 \o body \o U32 \o U32)
  BY <1>10, IsItself DEF Is
<1> QED BY <1>3, <1>4, <1>6, <1>10, <1>11, ReadsIs

LEMMA TwistReads ==
    /\ ClientTwist \in Layouts /\ BridgeReadsTwist \in Layouts
    /\ Reads(ClientTwist, BridgeReadsTwist)
<1>1. Raw(8, 6) \in Layouts /\ Array(8, 6) \in Layouts
  BY Runlike
<1>2. Same(Raw(8, 6), Array(8, 6), 0)
  BY AtStart DEF Array
<1>3. Is(Times(6, F64), Array(8, 6))
  BY IsDoubles
<1>4. Same(Array(8, 6), Times(6, F64), 0)
  BY <1>3, IsBack DEF Is, Alike
<1>5. Same(Raw(8, 6), Times(6, F64), 0)
  BY <1>1, <1>2, <1>4, LaysOnce DEF Same
<1>6. Times(6, F64) \in Layouts
  BY <1>3 DEF Is
<1> QED BY <1>1, <1>5, <1>6, ReadsAll DEF ClientTwist, BridgeReadsTwist

LEMMA ReqReads ==
    ASSUME NEW a \in Nat, NEW b \in Nat
    PROVE  /\ ClientReq(a, b) \in Layouts /\ BridgeReadsReq(a, b) \in Layouts
           /\ Reads(ClientReq(a, b), BridgeReadsReq(a, b))
<1> DEFINE w1 == Raw(8, 1) \o Text(a)
           w2 == w1 \o F64
           w3 == w2 \o Text(b)
           r1 == F64 \o Text(a)
           r2 == r1 \o F64
           r3 == r2 \o Text(b)
<1>1. Raw(8, 1) \in Layouts /\ F64 \in Layouts /\ U8 \in Layouts /\ Text(a) \in Layouts /\ Text(b) \in Layouts
  BY Runlike, Single, Texts
<1>2. Alike(F64, F64) /\ Alike(U8, U8) /\ Alike(Text(a), Text(a)) /\ Alike(Text(b), Text(b))
  BY <1>1, AlikeItself
<1>3. ClientReq(a, b) = w3 \o U8 /\ BridgeReadsReq(a, b) = r3 \o U8
  BY Single DEF ClientReq, BridgeReadsReq, F64
<1>4. Same(Raw(8, 1), F64, 0)
  BY AtStart DEF F64
<1>5. w1 \in Layouts /\ r1 \in Layouts /\ w2 \in Layouts /\ r2 \in Layouts /\ w3 \in Layouts /\ r3 \in Layouts
  BY <1>1, Chained
<1>6. Same(w1, r1, 0)
  BY <1>1, <1>2, <1>4, SameBoth
<1> HIDE DEF w1, r1
<1>7. Same(w2, r2, 0)
  BY <1>1, <1>2, <1>5, <1>6, SameBoth
<1> HIDE DEF w2, r2
<1>8. Same(w3, r3, 0)
  BY <1>1, <1>2, <1>5, <1>7, SameBoth
<1> HIDE DEF w3, r3
<1>9. Same(w3 \o U8, r3 \o U8, 0)
  BY <1>1, <1>2, <1>5, <1>8, SameBoth
<1>10. w3 \o U8 \in Layouts /\ r3 \o U8 \in Layouts
  BY <1>1, <1>5, Chained
<1> QED BY <1>3, <1>9, <1>10, ReadsAll

LEMMA DetectionsRead ==
    ASSUME NEW a \in Nat, NEW b \in Nat, NEW n \in Nat
    PROVE  /\ RosDetections(a, b, n) \in Layouts /\ ClientReadsDetections(a, b, n) \in Layouts
           /\ Reads(RosDetections(a, b, n), ClientReadsDetections(a, b, n))
<1> DEFINE h == Header(a) \o U32
           g == Text(b) \o F64
           result == g \o (Array(8, 7) \o Array(8, 36))
           hypothesis == g \o Array(8, 43)
           boxes == Array(8, 3) \o F64 \o F64
           one == h \o Times(n, result) \o Array(8, 3) \o F64 \o F64 \o Text(b)
           other == h \o Times(n, hypothesis) \o Times(5, F64) \o Text(b)
<1>1. h \in Layouts /\ g \in Layouts /\ Text(b) \in Layouts
  BY Texts, Single, Chained
<1>2. Is(h, h) /\ Is(g, g)
  BY <1>1, IsItself
<1>3. RosDetections(a, b, n) = h \o Times(n, one)
  BY DEF RosDetections
<1>4. ClientReadsDetections(a, b, n) = h \o Times(n, other)
  BY DEF ClientReadsDetections, Array
<1> HIDE DEF h, g
<1>5. Is(result, hypothesis)
  <2>1. Is(Array(8, 7) \o Array(8, 36), Array(8, 7 + 36))
    BY First2
  <2> QED BY <1>2, <2>1, IsBoth
<1> HIDE DEF result, hypothesis
<1>6. Is(Times(n, result), Times(n, hypothesis))
  BY <1>5, IsTimes
<1> DEFINE x == h \o Times(n, result)
           y == h \o Times(n, hypothesis)
<1>7. Is(x, y)
  BY <1>2, <1>6, IsBoth
<1> HIDE DEF x, y
<1>8. Is(x \o Array(8, 3) \o F64 \o F64, y \o Array(8, 5))
  <2>1. Is(x \o Array(8, 3) \o Array(8, 1) \o Array(8, 1), y \o Array(8, (3 + 1) + 1))
    BY <1>7, Seg3
  <2> QED BY <2>1, Single
<1>9. Is(y \o Times(5, F64), y \o Array(8, 5))
  <2>1. Is(y, y)
    BY <1>7, IsItself DEF Is
  <2> QED BY <2>1, IsDoubles, IsBoth
<1>10. Is(x \o Array(8, 3) \o F64 \o F64, y \o Times(5, F64))
  BY <1>8, <1>9, IsBack, IsTrans
<1>11. Is(x \o Array(8, 3) \o F64 \o F64 \o Text(b), y \o Times(5, F64) \o Text(b))
  BY <1>1, <1>10, IsKeep
<1>12. Is(one, other)
  BY <1>11 DEF x, y
<1> HIDE DEF one, other
<1>13. Is(h \o Times(n, one), h \o Times(n, other))
  BY <1>2, <1>12, IsTimes, IsBoth
<1>14. Is(h \o Times(n, other), h \o Times(n, other))
  BY <1>13, IsItself DEF Is
<1> QED BY <1>3, <1>4, <1>13, <1>14, ReadsIs

LEMMA First3 ==
    ASSUME NEW k \in {1, 2, 4, 8}, NEW a \in Nat, NEW b \in Nat, NEW c \in Nat
    PROVE  Is(Array(k, a) \o Array(k, b) \o Array(k, c), Array(k, (a + b) + c))
<1>1. Is(Array(k, a) \o Array(k, b), Array(k, a + b)) /\ Array(k, c) \in Layouts
  BY First2, Runlike
<1>2. Is(Array(k, a) \o Array(k, b) \o Array(k, c), Array(k, a + b) \o Array(k, c))
  BY <1>1, IsKeep
<1>3. a + b \in Nat
  OBVIOUS
<1>4. Is(Array(k, a + b) \o Array(k, c), Array(k, (a + b) + c))
  BY <1>3, First2
<1> QED BY <1>2, <1>4, IsTrans

LEMMA IsSplit ==
    ASSUME NEW X \in Layouts, NEW B \in Layouts, NEW C \in Layouts, NEW Z,
           Is(X \o B \o C, Z)
    PROVE  Is(X \o (B \o C), Z)
  BY Regroup

LEMMA MotorFact == Motor \in Layouts /\ Times(20, Motor) \in Layouts
<1>1. Motor \in Layouts
  BY Single, Runlike, Chained DEF Motor
<1> QED BY <1>1, IsItself, IsTimes DEF Is

LEMMA LowSchemaReads ==
    /\ BridgeLowState \in Layouts /\ LowStateSchema \in Layouts
    /\ Reads(BridgeLowState, LowStateSchema)
<1> DEFINE motors == Times(20, Motor)
           c1 == Array(1, 4)
           c2 == c1 \o Array(4, 4)
           c3 == c2 \o Array(2, 1)
           c4 == c3 \o Array(4, 13)
           c5 == c4 \o U8
           c6 == c5 \o motors
           c7 == c6 \o Array(1, 4)
           c8 == c7 \o U32
           c9 == c8 \o Array(2, 1)
           c10 == c9 \o Array(1, 4)
           c11 == c10 \o Array(2, 23)
           c12 == c11 \o U32
           c13 == c12 \o Array(1, 41)
           c14 == c13 \o U32
           c15 == c14 \o Array(1, 2)
           c16 == c15 \o Array(4, 2)
           c17 == c16 \o Array(2, 4)
           c18 == c17 \o Array(4, 2)
           w1 == Raw(1, 2) \o U8 \o U8
           w2 == w1 \o Array(4, 2) \o Array(4, 2)
           w3 == w2 \o Array(2, 1)
           w4 == w3 \o Array(4, 4) \o Array(4, 3) \o Array(4, 3) \o Array(4, 3)
           w5 == w4 \o U8
           w6 == w5 \o motors
           w7 == w6 \o U8 \o U8 \o U8 \o U8
           w8 == w7 \o U32
           w9 == w8 \o Array(2, 1)
           w10 == w9 \o Raw(1, 2) \o Raw(1, 2)
           w11 == w10 \o Array(2, 15) \o Array(2, 4) \o Array(2, 4)
           w12 == w11 \o U32
           w13 == w12 \o Raw(1, 40) \o U8
           w14 == w13 \o U32
           w15 == w14 \o U8 \o U8
           w16 == w15 \o U32 \o U32
           w17 == w16 \o Array(2, 4)
           w18 == w17 \o U32 \o U32
           imu == Array(4, 13) \o U8
           b2 == Array(1, 4) \o U32
           b3 == b2 \o Array(2, 1)
           b4 == b3 \o Array(1, 4)
           bms == b4 \o Array(2, 15)
           r5 == c3 \o imu
           r6 == r5 \o motors
           r11 == r6 \o bms \o Array(2, 8)
           r12 == r11 \o U32
           r13 == r12 \o Array(1, 41)
           r14 == r13 \o U32
           r15 == r14 \o Array(1, 2)
           r16 == r15 \o Array(4, 2)
           r17 == r16 \o Array(2, 4)
           r18 == r17 \o Array(4, 2)
<1>a. BridgeLowState = w18
  BY DEF BridgeLowState, BridgeMotors
<1>b. LowStateSchema = r18
  BY DEF LowStateSchema
<1> HIDE DEF c1, c2, c3, c4, c5, c6, c7, c8, c9, c10, c11, c12, c13, c14, c15, c16, c17, c18,
             w1, w2, w3, w4, w5, w6, w7, w8, w9, w10, w11, w12, w13, w14, w15, w16, w17, w18,
             imu, b2, b3, b4, bms, r5, r6, r11, r12, r13, r14, r15, r16, r17, r18, motors
<1>0. motors \in Layouts
  BY MotorFact DEF motors
<1>00. /\ Array(1, 4) \in Layouts /\ Array(4, 4) \in Layouts /\ Array(2, 1) \in Layouts
       /\ Array(4, 13) \in Layouts /\ Array(2, 15) \in Layouts /\ Array(1, 41) \in Layouts
       /\ Array(1, 2) \in Layouts /\ Array(4, 2) \in Layouts /\ Array(2, 4) \in Layouts
       /\ Array(2, 8) \in Layouts /\ U8 \in Layouts /\ U32 \in Layouts
  BY Runlike, Single
<1>1. Is(w1, c1)
  <2>1. Is(Array(1, 2) \o Array(1, 1) \o Array(1, 1), Array(1, (2 + 1) + 1))
    BY First3
  <2> QED BY <2>1, Single DEF w1, c1
<1>2. Is(w2, c2)
  <2>1. Is(w1 \o Array(4, 2) \o Array(4, 2), c1 \o Array(4, 2 + 2))
    BY <1>1, Seg2
  <2> QED BY <2>1 DEF w2, c2
<1>3. Is(w3, c3)
  BY <1>2, <1>00, IsKeep DEF w3, c3
<1>4. Is(w4, c4)
  <2>1. Is(w3 \o Array(4, 4) \o Array(4, 3) \o Array(4, 3) \o Array(4, 3),
           c3 \o Array(4, ((4 + 3) + 3) + 3))
    BY <1>3, Seg4
  <2> QED BY <2>1 DEF w4, c4
<1>5. Is(w5, c5)
  BY <1>4, <1>00, IsKeep DEF w5, c5
<1>6. Is(w6, c6)
  BY <1>5, <1>0, IsKeep DEF w6, c6
<1>7. Is(w7, c7)
  <2>1. Is(w6 \o Array(1, 1) \o Array(1, 1) \o Array(1, 1) \o Array(1, 1),
           c6 \o Array(1, ((1 + 1) + 1) + 1))
    BY <1>6, Seg4
  <2> QED BY <2>1, Single DEF w7, c7
<1>8. Is(w8, c8)
  BY <1>7, <1>00, IsKeep DEF w8, c8
<1>9. Is(w9, c9)
  BY <1>8, <1>00, IsKeep DEF w9, c9
<1>10. Is(w10, c10)
  <2>1. Is(w9 \o Array(1, 2) \o Array(1, 2), c9 \o Array(1, 2 + 2))
    BY <1>9, Seg2
  <2> QED BY <2>1, Single DEF w10, c10
<1>11. Is(w11, c11)
  <2>1. Is(w10 \o Array(2, 15) \o Array(2, 4) \o Array(2, 4), c10 \o Array(2, (15 + 4) + 4))
    BY <1>10, Seg3
  <2> QED BY <2>1 DEF w11, c11
<1>12. Is(w12, c12)
  BY <1>11, <1>00, IsKeep DEF w12, c12
<1>13. Is(w13, c13)
  <2>1. Is(w12 \o Array(1, 40) \o Array(1, 1), c12 \o Array(1, 40 + 1))
    BY <1>12, Seg2
  <2> QED BY <2>1, Single DEF w13, c13
<1>14. Is(w14, c14)
  BY <1>13, <1>00, IsKeep DEF w14, c14
<1>15. Is(w15, c15)
  <2>1. Is(w14 \o Array(1, 1) \o Array(1, 1), c14 \o Array(1, 1 + 1))
    BY <1>14, Seg2
  <2> QED BY <2>1, Single DEF w15, c15
<1>16. Is(w16, c16)
  <2>1. Is(w15 \o Array(4, 1) \o Array(4, 1), c15 \o Array(4, 1 + 1))
    BY <1>15, Seg2
  <2> QED BY <2>1, Single DEF w16, c16
<1>17. Is(w17, c17)
  BY <1>16, <1>00, IsKeep DEF w17, c17
<1>18. Is(w18, c18)
  <2>1. Is(w17 \o Array(4, 1) \o Array(4, 1), c17 \o Array(4, 1 + 1))
    BY <1>17, Seg2
  <2> QED BY <2>1, Single DEF w18, c18
<1>19. c3 \in Layouts /\ c6 \in Layouts /\ c7 \in Layouts /\ c8 \in Layouts /\ c9 \in Layouts /\ c10 \in Layouts
  BY <1>3, <1>6, <1>7, <1>8, <1>9, <1>10 DEF Is
<1>20. Is(r6, c6)
  <2>1. Is(c3 \o Array(4, 13) \o U8, c5)
    BY <1>5, IsItself DEF Is, c5, c4
  <2>2. Is(r5, c5)
    BY <1>19, <1>00, <2>1, IsSplit DEF r5, imu
  <2> QED BY <1>0, <2>2, IsKeep DEF r6, c6
<1>21. b2 \in Layouts /\ b3 \in Layouts /\ b4 \in Layouts /\ bms \in Layouts
  BY <1>00, Chained DEF b2, b3, b4, bms
<1>22. Is(c6 \o bms, c10 \o Array(2, 15))
  <2>1. Is(c6 \o b2, c8)
    <3>1. Is(c6 \o Array(1, 4) \o U32, c8)
      BY <1>19, IsItself DEF c8, c7
    <3> QED BY <1>19, <1>00, <3>1, IsSplit DEF b2
  <2>2. Is(c6 \o b3, c9)
    <3>1. Is(c6 \o b2 \o Array(2, 1), c9)
      BY <1>00, <2>1, IsKeep DEF c9
    <3> QED BY <1>19, <1>21, <1>00, <3>1, IsSplit DEF b3
  <2>3. Is(c6 \o b4, c10)
    <3>1. Is(c6 \o b3 \o Array(1, 4), c10)
      BY <1>00, <2>2, IsKeep DEF c10
    <3> QED BY <1>19, <1>21, <1>00, <3>1, IsSplit DEF b4
  <2>4. Is(c6 \o b4 \o Array(2, 15), c10 \o Array(2, 15))
    BY <1>00, <2>3, IsKeep
  <2> QED BY <1>19, <1>21, <1>00, <2>4, IsSplit DEF bms
<1>23. Is(r11, c11)
  <2>1. Is(r6 \o bms, c10 \o Array(2, 15))
    <3>1. Is(r6 \o bms, c6 \o bms)
      BY <1>20, <1>21, IsKeep
    <3> QED BY <1>22, <3>1, IsTrans
  <2>2. Is(r6 \o bms \o Array(2, 8), c10 \o Array(2, 15 + 8))
    BY <1>19, <2>1, IsGrow
  <2> QED BY <2>2 DEF r11, c11
<1>24. Is(r12, c12)
  BY <1>23, <1>00, IsKeep DEF r12, c12
<1>25. Is(r13, c13)
  BY <1>24, <1>00, IsKeep DEF r13, c13
<1>26. Is(r14, c14)
  BY <1>25, <1>00, IsKeep DEF r14, c14
<1>27. Is(r15, c15)
  BY <1>26, <1>00, IsKeep DEF r15, c15
<1>28. Is(r16, c16)
  BY <1>27, <1>00, IsKeep DEF r16, c16
<1>29. Is(r17, c17)
  BY <1>28, <1>00, IsKeep DEF r17, c17
<1>30. Is(r18, c18)
  BY <1>29, <1>00, IsKeep DEF r18, c18
<1> QED BY <1>a, <1>b, <1>18, <1>30, ReadsIs

LEMMA FlattenNext ==
    ASSUME NEW S, NEW s \in Seq(S), NEW n \in Nat, NEW m \in Nat,
           n # 0, m = n + 1, m <= Len(s)
    PROVE  FlattenSeq(SubSeq(s, 1, m)) = FlattenSeq(SubSeq(s, 1, n)) \o s[m]
<1> DEFINE x == SubSeq(s, 1, n)
           y == SubSeq(s, 1, m)
<1>1. Len(x) = n /\ \A i \in 1..n : x[i] = s[i]
  BY SubSeqProperties
<1>2. Len(y) = m /\ \A i \in 1..m : y[i] = s[i]
  BY SubSeqProperties
<1> HIDE DEF x, y
<1>3. \A i \in 1..n : x[i] = y[i]
  BY <1>1, <1>2
<1>4. y[n + 1] = s[m]
  BY <1>2
<1>5. Len(y) = n + 1
  BY <1>2
<1>6. FlattenSeq(y) = FlattenSeq(x) \o y[n + 1]
  BY <1>1, <1>3, <1>5, FlattenMore
<1>7. FlattenSeq(y) = FlattenSeq(x) \o s[m]
  BY <1>4, <1>6
<1> QED BY <1>7 DEF x, y

LEMMA FlattenFour ==
    ASSUME NEW S, NEW s \in Seq(S), Len(s) = 4
    PROVE  FlattenSeq(s) = s[1] \o s[2] \o s[3] \o s[4]
<1> DEFINE t(n) == SubSeq(s, 1, n)
           f(n) == FlattenSeq(t(n))
<1>1. f(1) = s[1]
  <2> DEFINE x == SubSeq(s, 1, 1)
  <2>1. Len(x) = 1 /\ x[1] = s[1]
    BY SubSeqProperties
  <2> HIDE DEF x
  <2>2. FlattenSeq(x) = s[1]
    BY <2>1, FlattenOne
  <2> QED BY <2>2 DEF x
<1>2. ASSUME NEW n \in Nat, NEW m \in Nat, n # 0, m = n + 1, m <= 4
      PROVE  f(m) = f(n) \o s[m]
  BY <1>2, FlattenNext
<1> HIDE DEF f
<1>3. f(2) = f(1) \o s[2]
  BY <1>2
<1>4. f(3) = f(2) \o s[3]
  BY <1>2
<1>04. f(4) = f(3) \o s[4]
  BY <1>2
<1>5. f(4) = FlattenSeq(s)
  <2>1. t(4) = s
    BY SubSeqFull
  <2> QED BY <2>1 DEF f
<1> QED BY <1>1, <1>3, <1>4, <1>04, <1>5

LEMMA CloudSchemaReads ==
    ASSUME NEW a \in Nat, NEW n \in Nat
    PROVE  /\ BridgeCloud(a, n) \in Layouts /\ CloudSchema(a, n) \in Layouts
           /\ Reads(BridgeCloud(a, n), CloudSchema(a, n))
<1> DEFINE field(k) == Text(k) \o U32 \o U8 \o U32
           four == [i \in 1..4 |-> Text(IF i = 4 THEN 9 ELSE 1) \o U32 \o U8 \o U32]
           bytes == 16 * n
           h == Header(a)
           f2 == field(1) \o field(1)
           f3 == f2 \o field(1)
           f4 == f3 \o field(9)
           c1 == h \o Array(4, 3)
           c2 == c1 \o field(1) \o field(1) \o field(1) \o field(9)
           c3 == c2 \o U8
           c4 == c3 \o Array(4, 3)
           w1 == h \o U32 \o U32 \o U32
           w2 == w1 \o FlattenSeq(four)
           w3 == w2 \o U8
           w4 == w3 \o U32 \o U32 \o U32
           r3 == c3 \o Array(4, 2)
<1>1. /\ h \in Layouts /\ U8 \in Layouts /\ U32 \in Layouts /\ Array(4, 3) \in Layouts
      /\ Array(4, 2) \in Layouts /\ bytes \in Nat
  BY Texts, Single, Runlike
<1>2. field(1) \in Layouts /\ field(9) \in Layouts
  <2>1. \A k \in Nat : field(k) \in Layouts
    BY Texts, Single, Chained
  <2> QED BY <2>1
<1>3. FlattenSeq(four) = f4
  <2>1. four \in Seq(Layouts) /\ Len(four) = 4
    <3>1. \A i \in 1..4 : Text(IF i = 4 THEN 9 ELSE 1) \o U32 \o U8 \o U32 \in Layouts
      BY <1>2
    <3> QED BY <3>1
  <2>2. four = [i \in 1..4 |-> field(IF i = 4 THEN 9 ELSE 1)]
    OBVIOUS
  <2> HIDE DEF four, field
  <2>3. four[1] = field(1) /\ four[2] = field(1) /\ four[3] = field(1) /\ four[4] = field(9)
    BY <2>2
  <2> QED BY <2>1, <2>3, FlattenFour
<1>4. BridgeCloud(a, n) = w4 \o Raw(1, bytes) \o U8
  BY DEF BridgeCloud
<1>5. CloudSchema(a, n) = r3 \o Items(1, bytes) \o U8
  BY Single DEF CloudSchema
<1> HIDE DEF field, four, bytes, h, f2, f3, f4, c1, c2, c3, c4, w1, w2, w3, w4, r3
<1>6. Is(w1, c1)
  <2>1. Is(h, h)
    BY <1>1, IsItself
  <2>2. Is(h \o Array(4, 1) \o Array(4, 1) \o Array(4, 1), h \o Array(4, (1 + 1) + 1))
    BY <2>1, Seg3
  <2> QED BY <2>2, Single DEF w1, c1
<1>7. c1 \o f4 = c2
  <2>1. f2 \in Layouts /\ f3 \in Layouts /\ c1 \in Layouts
    BY <1>2, <1>6, Chained DEF f2, f3, Is
  <2>2. c1 \o f2 = c1 \o field(1) \o field(1)
    BY <1>2, <2>1, Regroup DEF f2
  <2>3. c1 \o f3 = (c1 \o f2) \o field(1)
    BY <1>2, <2>1, Regroup DEF f3
  <2>4. c1 \o f4 = (c1 \o f3) \o field(9)
    BY <1>2, <2>1, Regroup DEF f4
  <2> QED BY <2>2, <2>3, <2>4 DEF c2
<1>8. Is(w2, c2)
  <2>1. f4 \in Layouts
    BY <1>2, Chained DEF f2, f3, f4
  <2> QED BY <1>3, <1>6, <1>7, <2>1, IsKeep DEF w2
<1>9. Is(w3, c3)
  BY <1>1, <1>8, IsKeep DEF w3, c3
<1>10. Is(w4, c4)
  <2>1. Is(w3 \o Array(4, 1) \o Array(4, 1) \o Array(4, 1), c3 \o Array(4, (1 + 1) + 1))
    BY <1>9, Seg3
  <2> QED BY <2>1, Single DEF w4, c4
<1>11. Is(w4 \o Raw(1, bytes) \o U8, c4 \o Array(1, bytes) \o U8)
  <2>1. Array(1, bytes) \in Layouts /\ Raw(1, bytes) = Array(1, bytes)
    BY <1>1, Runlike, Single
  <2>2. Is(w4 \o Array(1, bytes), c4 \o Array(1, bytes))
    BY <1>10, <2>1, IsKeep
  <2> QED BY <1>1, <2>1, <2>2, IsKeep
<1>12. Is(r3 \o Items(1, bytes) \o U8, c4 \o Array(1, bytes) \o U8)
  <2>1. Is(c3, c3) /\ Is(r3, r3)
    BY <1>1, <1>9, IsItself, Chained DEF Is, r3
  <2>2. Is(r3 \o U32, c4)
    <3>1. Is(c3 \o Array(4, 2) \o Array(4, 1), c3 \o Array(4, 2 + 1))
      BY <2>1, Seg2
    <3> QED BY <3>1, Single DEF r3, c4
  <2>3. Is(r3 \o Items(1, bytes), r3 \o U32 \o Array(1, bytes))
    BY <1>1, <2>1, IsItems
  <2>4. Array(1, bytes) \in Layouts
    BY <1>1, Runlike
  <2>5. Is(r3 \o U32 \o Array(1, bytes), c4 \o Array(1, bytes))
    BY <2>2, <2>4, IsKeep
  <2>6. Is(r3 \o Items(1, bytes), c4 \o Array(1, bytes))
    BY <2>3, <2>5, IsTrans
  <2> QED BY <1>1, <2>6, IsKeep
<1> QED BY <1>4, <1>5, <1>11, <1>12, ReadsIs

-----------------------------------------------------------------------------
(* The machine that writes, delivers and reads.                            *)

CdrSpec == CdrInit /\ [][CdrNext]_cdrVars

Kinds == DOMAIN Exchange(0, 0, 0)
Messages == [which : Kinds, a : Nat, b : Nat, n : Nat, side : {"writer", "reader"}]
Written(m) == Exchange(m.a, m.b, m.n)[m.which][1]
Announced(m) == Exchange(m.a, m.b, m.n)[m.which][2]

(* Every decoder of the robot client and the bridge, and every announced   *)
(* schema, puts its fields where the encoder it goes with put them; the    *)
(* only thing it may do otherwise is stop early.                           *)
THEOREM EveryoneReads ==
    ASSUME NEW m \in Messages
    PROVE  /\ Written(m) \in Layouts /\ Announced(m) \in Layouts
           /\ Reads(Written(m), Announced(m))
<1> DEFINE a == m.a
           b == m.b
           n == m.n
<1>1. a \in Nat /\ b \in Nat /\ n \in Nat /\ m.which \in Kinds
  BY DEF Messages
<1> DEFINE Good(W, R) == W \in Layouts /\ R \in Layouts /\ Reads(W, R)
<1>2. /\ Good(BridgeImage(a, b, n), ImageSchema(a, b, n))
      /\ Good(BridgeImage(a, b, n), ClientReadsJpeg(a, b, n))
      /\ Good(BridgeGo2State, Go2StateSchema)
      /\ Good(BridgeGo2State, ClientReadsGo2State)
      /\ Good(BridgeLowState, LowStateSchema)
      /\ Good(BridgeOdometry(a, b), OdomSchema(a, b))
      /\ Good(BridgeOdometry(a, b), ClientReadsYaw(a, b))
  BY <1>1, JpegSchemaReads, JpegReads, StateSchemaReads, StateReads, LowSchemaReads,
     OdomSchemaReads, OdomReads
<1>3. /\ Good(BridgeJoints(a, n), JointSchema(a, n))
      /\ Good(BridgeTf(a, b), TfSchema(a, b))
      /\ Good(BridgeCloud(a, n), CloudSchema(a, n))
      /\ Good(ClientTwist, BridgeReadsTwist)
      /\ Good(ClientReq(a, b), BridgeReadsReq(a, b))
      /\ Good(RosImage(a, b, n), ClientReadsImage(a, b, n))
      /\ Good(RosDetections(a, b, n), ClientReadsDetections(a, b, n))
  BY <1>1, JointSchemaReads, TfSchemaReads, CloudSchemaReads, TwistReads, ReqReads,
     ImageReads, DetectionsRead
<1>4. Kinds = {"jpeg_schema", "jpeg", "state_schema", "state", "low_schema", "odom_schema",
               "odom", "joint_schema", "tf_schema", "cloud_schema", "twist", "req", "image",
               "detections"}
  BY DEF Kinds, Exchange
<1> HIDE DEF Good, a, b, n
<1>5. /\ Exchange(a, b, n).jpeg_schema = <<BridgeImage(a, b, n), ImageSchema(a, b, n)>>
      /\ Exchange(a, b, n).jpeg = <<BridgeImage(a, b, n), ClientReadsJpeg(a, b, n)>>
      /\ Exchange(a, b, n).state_schema = <<BridgeGo2State, Go2StateSchema>>
      /\ Exchange(a, b, n).state = <<BridgeGo2State, ClientReadsGo2State>>
      /\ Exchange(a, b, n).low_schema = <<BridgeLowState, LowStateSchema>>
      /\ Exchange(a, b, n).odom_schema = <<BridgeOdometry(a, b), OdomSchema(a, b)>>
      /\ Exchange(a, b, n).odom = <<BridgeOdometry(a, b), ClientReadsYaw(a, b)>>
      /\ Exchange(a, b, n).joint_schema = <<BridgeJoints(a, n), JointSchema(a, n)>>
      /\ Exchange(a, b, n).tf_schema = <<BridgeTf(a, b), TfSchema(a, b)>>
      /\ Exchange(a, b, n).cloud_schema = <<BridgeCloud(a, n), CloudSchema(a, n)>>
      /\ Exchange(a, b, n).twist = <<ClientTwist, BridgeReadsTwist>>
      /\ Exchange(a, b, n).req = <<ClientReq(a, b), BridgeReadsReq(a, b)>>
      /\ Exchange(a, b, n).image = <<RosImage(a, b, n), ClientReadsImage(a, b, n)>>
      /\ Exchange(a, b, n).detections
           = <<RosDetections(a, b, n), ClientReadsDetections(a, b, n)>>
  BY DEF Exchange
<1>6. Good(Exchange(a, b, n)[m.which][1], Exchange(a, b, n)[m.which][2])
  BY <1>1, <1>2, <1>3, <1>4, <1>5
<1> QED BY <1>6 DEF Good, Written, Announced, a, b, n

(* Where the writer and the reader are: what is done of the layout puts    *)
(* what it puts, and comes as far as the cursor.                           *)
Writing ==
    message.side = "writer" =>
        /\ seen = 0 /\ last = << >>
        /\ \E done \in Layouts, page \in Page :
             /\ done \o todo = Written(message)
             /\ Lays(done, 0, page) /\ page.at = cursor /\ page.puts = places
Reading ==
    message.side = "reader" =>
        /\ \E whole \in Page : Lays(Written(message), 0, whole) /\ whole.puts = places
        /\ \E done \in Layouts, page \in Page, before \in Seq(Put) :
             /\ done \o todo = Announced(message)
             /\ Lays(done, 0, page) /\ page.at = cursor
             /\ page.puts = before \o last /\ seen = Len(page.puts)
CdrInv ==
    /\ message \in Messages /\ todo \in Layouts /\ last \in Seq(Put)
    /\ Writing /\ Reading

LEMMA FirstPart ==
    ASSUME NEW S, NEW x \in Seq(S), NEW y \in Seq(S)
    PROVE  /\ x \o y \in Seq(S) /\ Len(x \o y) = Len(x) + Len(y)
           /\ \A i \in 1..Len(x) : (x \o y)[i] = x[i]
  BY ConcatProperties

(* y is what v has behind its first m. *)
Behind(v, m, y) == \A i \in 1..Len(y) : v[m + i] = y[i]

LEMMA Within ==
    ASSUME NEW S, NEW v \in Seq(S), NEW y \in Seq(S), NEW z \in Seq(S), NEW m \in Nat,
           Len(v) = m + Len(y), Behind(v, m, y)
    PROVE  Len(v) <= Len(v \o z) /\ y = SubSeq(v \o z, m + 1, m + Len(y))
<1> DEFINE all == v \o z
           n == Len(y)
           part == SubSeq(all, m + 1, m + n)
<1>1. n \in Nat
  OBVIOUS
<1>2. /\ all \in Seq(S) /\ Len(all) = Len(v) + Len(z)
      /\ \A i \in 1..Len(v) : all[i] = v[i]
  BY FirstPart
<1> HIDE DEF all
<1>3. part \in Seq(S) /\ Len(part) = n /\ \A i \in 1..n : part[i] = all[m + i]
  <2>1. /\ part \in Seq(S) /\ Len(part) = IF m + 1 <= m + n THEN (m + n) - (m + 1) + 1 ELSE 0
        /\ \A i \in 1..((m + n) - (m + 1) + 1) : part[i] = all[(m + 1) + i - 1]
    <3>1. \A i \in (m + 1)..(m + n) : all[i] \in S
      BY <1>1, <1>2
    <3> QED BY <1>1, <3>1, SubSeqProperties
  <2> HIDE DEF part
  <2>2. (m + n) - (m + 1) + 1 = n /\ \A i \in 1..n : (m + 1) + i - 1 = m + i
    BY <1>1
  <2> QED BY <1>1, <2>1, <2>2
<1> HIDE DEF part
<1>4. \A i \in 1..n : part[i] = y[i]
  <2> TAKE i \in 1..n
  <2>1. m + i \in 1..Len(v)
    BY <1>1
  <2>2. v[m + i] = y[i]
    BY DEF Behind
  <2>3. part[i] = all[m + i]
    BY <1>3
  <2> QED BY <1>2, <2>1, <2>2, <2>3
<1>5. part = y
  BY <1>3, <1>4, SeqEqual
<1>6. Len(v) <= Len(all)
  BY <1>2
<1> QED BY <1>5, <1>6 DEF part, all

LEMMA Between ==
    ASSUME NEW S, NEW x \in Seq(S), NEW y \in Seq(S), NEW z \in Seq(S), NEW k, NEW all,
           k = Len(x \o y), all = (x \o y) \o z
    PROVE  k <= Len(all) /\ y = SubSeq(all, k - Len(y) + 1, k)
<1> DEFINE m == Len(x)
           n == Len(y)
           v == x \o y
<1>1. m \in Nat /\ n \in Nat
  OBVIOUS
<1>2. /\ v \in Seq(S) /\ Len(v) = m + n
      /\ \A i \in 1..(m + n) : v[i] = IF i <= m THEN x[i] ELSE y[i - m]
  BY ConcatProperties
<1> HIDE DEF v
<1>3. Behind(v, m, y)
  <2> SUFFICES ASSUME NEW i \in 1..n PROVE v[m + i] = y[i]
    BY DEF Behind
  <2>1. m + i \in 1..(m + n) /\ ~(m + i <= m) /\ (m + i) - m = i
    BY <1>1
  <2> QED BY <1>2, <2>1
<1>4. Len(v) <= Len(v \o z) /\ y = SubSeq(v \o z, m + 1, m + n)
  BY <1>1, <1>2, <1>3, Within
<1>5. k = m + n /\ all = v \o z /\ k - Len(y) + 1 = m + 1
  BY <1>1, <1>2 DEF v
<1> QED BY <1>2, <1>4, <1>5

(* One run more. *)
LEMMA RunMore ==
    ASSUME NEW done \in Layouts, NEW page \in Page, NEW rest \in Layouts, rest # << >>,
           Lays(done, 0, page)
    PROVE  LET run == Head(rest) IN
           /\ run \in Runs /\ Tail(rest) \in Layouts
           /\ done \o << run >> \in Layouts
           /\ (done \o << run >>) \o Tail(rest) = done \o rest
           /\ With(page, run) \in Page
           /\ Lays(done \o << run >>, 0, With(page, run))
<1> DEFINE run == Head(rest)
           tail == Tail(rest)
           e == [at |-> End(run, page.at), puts |-> Puts(run, page.at)]
<1>1. run \in Runs /\ tail \in Layouts /\ rest = << run >> \o tail
  BY HeadTailProperties, ConcatProperties DEF Layouts
<1> HIDE DEF run, tail
<1>2. << run >> \in Layouts
  BY <1>1 DEF Layouts
<1>3. done \o << run >> \in Layouts
  BY <1>2, Chained
<1>4. done \o (<< run >> \o tail) = (done \o << run >>) \o tail
  BY <1>1, <1>2, Regroup
<1>5. With(page, run) \in Page
  BY <1>1, WithFacts
<1>6. page.at \in Nat
  BY DEF Page
<1>7. Lays(<< run >>, page.at, e) /\ e \in Page
  BY <1>1, <1>6, LaysRun
<1>8. With(page, run) = [at |-> e.at, puts |-> page.puts \o e.puts]
  BY DEF With
<1> HIDE DEF e
<1>9. Lays(done \o << run >>, 0, With(page, run))
  BY <1>2, <1>7, <1>8, LaysBoth
<1> QED BY <1>1, <1>3, <1>4, <1>5, <1>9 DEF run, tail

LEMMA SpotsPut ==
    ASSUME NEW run
    PROVE  Spots(run) = Puts(run, cursor)
  BY DEF Spots, Puts, From

LEMMA CdrStarts == CdrInit => CdrInv
<1> SUFFICES ASSUME CdrInit PROVE CdrInv
  OBVIOUS
<1>1. message \in Messages /\ message.side = "writer"
  BY CdrAssumption DEF CdrInit, Messages, Kinds
<1>2. todo = Written(message) /\ todo \in Layouts
  BY <1>1, EveryoneReads DEF CdrInit, Written
<1>3. << >> \o todo = todo
  BY <1>2, ConcatEmptySeq DEF Layouts
<1>4. Lays(<< >>, 0, Blank(0)) /\ Blank(0) \in Page /\ << >> \in Layouts
  BY LaysNothing, BlankFacts DEF Layouts
<1>5. cursor = Blank(0).at /\ places = Blank(0).puts /\ seen = 0 /\ last = << >>
  BY DEF CdrInit, Blank
<1>6. Writing
  BY <1>2, <1>3, <1>4, <1>5 DEF Writing
<1>7. Reading
  BY <1>1 DEF Reading
<1> QED BY <1>1, <1>2, <1>5, <1>6, <1>7 DEF CdrInv

LEMMA CdrStep == CdrInv /\ [CdrNext]_cdrVars => CdrInv'
<1> SUFFICES ASSUME CdrInv, [CdrNext]_cdrVars PROVE CdrInv'
  OBVIOUS
<1>0. message \in Messages /\ todo \in Layouts /\ last \in Seq(Put)
  BY DEF CdrInv
<1>1. CASE Encode
  <2>1. message.side = "writer" /\ todo # << >> /\ message' = message /\ seen' = seen /\ last' = last
    BY <1>1 DEF Encode
  <2>2. PICK done \in Layouts, page \in Page :
          /\ done \o todo = Written(message)
          /\ Lays(done, 0, page) /\ page.at = cursor /\ page.puts = places
    BY <2>1 DEF CdrInv, Writing
  <2>3. seen = 0 /\ last = << >>
    BY <2>1 DEF CdrInv, Writing
  <2> DEFINE run == Head(todo)
             more == done \o << run >>
  <2>4. /\ run \in Runs /\ Tail(todo) \in Layouts /\ more \in Layouts
        /\ more \o Tail(todo) = done \o todo
        /\ With(page, run) \in Page /\ Lays(more, 0, With(page, run))
    BY <1>0, <2>1, <2>2, RunMore
  <2>5. places' = places \o Spots(run) /\ cursor' = From(run) + run[2] * run[3] /\ todo' = Tail(todo)
    BY <1>1 DEF Encode
  <2> HIDE DEF run, more
  <2>6. With(page, run).at = cursor' /\ With(page, run).puts = places'
    BY <2>2, <2>5, SpotsPut DEF With, End, From
  <2>7. Written(message') = Written(message)
    BY <2>1
  <2>8. Writing'
    BY <2>1, <2>2, <2>3, <2>4, <2>5, <2>6, <2>7 DEF Writing
  <2>9. Reading'
    BY <2>1 DEF Reading
  <2> QED BY <1>0, <2>1, <2>4, <2>5, <2>8, <2>9 DEF CdrInv
<1>2. CASE Deliver
  <2>1. /\ message.side = "writer" /\ todo = << >>
        /\ message' = [message EXCEPT !.side = "reader"]
        /\ cursor' = 0 /\ places' = places /\ seen' = seen /\ last' = last
        /\ todo' = Exchange(message.a, message.b, message.n)[message.which][2]
    BY <1>2 DEF Deliver
  <2>2. PICK done \in Layouts, page \in Page :
          /\ done \o todo = Written(message)
          /\ Lays(done, 0, page) /\ page.at = cursor /\ page.puts = places
    BY <2>1 DEF CdrInv, Writing
  <2>3. seen = 0 /\ last = << >>
    BY <2>1 DEF CdrInv, Writing
  <2>4. /\ message' \in Messages /\ message'.side = "reader" /\ message'.a = message.a
        /\ message'.b = message.b /\ message'.n = message.n /\ message'.which = message.which
    BY <1>0, <2>1 DEF Messages
  <2>5. Written(message') = Written(message) /\ todo' = Announced(message')
    BY <2>1, <2>4 DEF Written, Announced
  <2>6. todo' \in Layouts
    BY <2>4, <2>5, EveryoneReads
  <2>7. done = Written(message)
    <3>1. done \o << >> = done
      BY ConcatEmptySeq DEF Layouts
    <3> QED BY <2>1, <2>2, <3>1
  <2>8. \E whole \in Page : Lays(Written(message'), 0, whole) /\ whole.puts = places'
    BY <2>1, <2>2, <2>5, <2>7
  <2>9. << >> \o todo' = Announced(message')
    BY <2>5, <2>6, ConcatEmptySeq DEF Layouts
  <2>10. /\ Lays(<< >>, 0, Blank(0)) /\ Blank(0) \in Page /\ << >> \in Layouts
         /\ Blank(0).at = 0 /\ Blank(0).puts = << >> /\ << >> \in Seq(Put)
    BY LaysNothing, BlankFacts DEF Layouts, Blank
  <2>11. << >> \o << >> = << >> /\ Len(<< >>) = 0
    OBVIOUS
  <2>12. Reading'
    <3>1. /\ Blank(0).at = cursor' /\ Blank(0).puts = << >> \o last'
          /\ seen' = Len(Blank(0).puts)
      BY <2>1, <2>3, <2>10, <2>11
    <3>2. \E d \in Layouts, page_ \in Page, before \in Seq(Put) :
             /\ d \o todo' = Announced(message')
             /\ Lays(d, 0, page_) /\ page_.at = cursor'
             /\ page_.puts = before \o last' /\ seen' = Len(page_.puts)
      BY <2>9, <2>10, <3>1
    <3> QED BY <2>8, <3>2 DEF Reading
  <2>13. Writing'
    BY <2>4 DEF Writing
  <2> QED BY <1>0, <2>1, <2>4, <2>6, <2>12, <2>13 DEF CdrInv
<1>3. CASE Decode
  <2>1. message.side = "reader" /\ todo # << >> /\ message' = message /\ places' = places
    BY <1>3 DEF Decode
  <2>2. PICK done \in Layouts, page \in Page, before \in Seq(Put) :
          /\ done \o todo = Announced(message)
          /\ Lays(done, 0, page) /\ page.at = cursor
          /\ page.puts = before \o last /\ seen = Len(page.puts)
    BY <2>1 DEF CdrInv, Reading
  <2>3. \E whole \in Page : Lays(Written(message), 0, whole) /\ whole.puts = places
    BY <2>1 DEF CdrInv, Reading
  <2> DEFINE run == Head(todo)
             more == done \o << run >>
             next == With(page, run)
  <2>4. /\ run \in Runs /\ Tail(todo) \in Layouts /\ more \in Layouts
        /\ more \o Tail(todo) = done \o todo
        /\ next \in Page /\ Lays(more, 0, next)
    BY <1>0, <2>1, <2>2, RunMore
  <2>5. /\ last' = Spots(run) /\ seen' = seen + run[3] /\ todo' = Tail(todo)
        /\ cursor' = From(run) + run[2] * run[3]
    BY <1>3 DEF Decode
  <2> HIDE DEF run, more
  <2>6. next.at = cursor' /\ next.puts = page.puts \o last'
    BY <2>2, <2>5, SpotsPut DEF With, End, From
  <2> HIDE DEF next
  <2>7. page.at \in Nat /\ page.puts \in Seq(Put)
    BY DEF Page
  <2>8. last' \in Seq(Put) /\ Len(last') = run[3] /\ run[3] \in Nat
    BY <2>2, <2>4, <2>5, <2>7, SpotsPut, RunFacts
  <2>9. seen' = Len(next.puts)
    <3>1. Len(page.puts \o last') = Len(page.puts) + Len(last')
      BY <2>7, <2>8, ConcatProperties
    <3> QED BY <2>2, <2>5, <2>6, <2>8, <3>1
  <2>10. \E d \in Layouts, page_ \in Page, b \in Seq(Put) :
           /\ d \o todo' = Announced(message')
           /\ Lays(d, 0, page_) /\ page_.at = cursor'
           /\ page_.puts = b \o last' /\ seen' = Len(page_.puts)
    BY <2>1, <2>2, <2>4, <2>5, <2>6, <2>7, <2>9
  <2>11. Reading'
    BY <2>1, <2>3, <2>10 DEF Reading
  <2>12. Writing'
    BY <2>1 DEF Writing
  <2> QED BY <1>0, <2>1, <2>4, <2>5, <2>8, <2>11, <2>12 DEF CdrInv
<1>4. CASE UNCHANGED cdrVars
  <2>1. /\ message' = message /\ todo' = todo /\ cursor' = cursor /\ places' = places
        /\ seen' = seen /\ last' = last
    BY <1>4 DEF cdrVars
  <2> QED BY <2>1 DEF CdrInv, Writing, Reading
<1> QED BY <1>1, <1>2, <1>3, <1>4 DEF CdrNext

LEMMA CdrSays == CdrInv => FieldsWhereWritten
<1> SUFFICES ASSUME CdrInv PROVE FieldsWhereWritten
  OBVIOUS
<1>0. message \in Messages /\ todo \in Layouts /\ last \in Seq(Put) /\ message.side \in {"writer", "reader"}
  BY DEF CdrInv, Messages
<1>1. CASE message.side = "writer"
  <2>1. seen = 0 /\ last = << >>
    BY <1>1 DEF CdrInv, Writing
  <2>2. SubSeq(places, 0 - 0 + 1, 0) = << >> /\ Len(<< >>) = 0
    BY SubSeqEmpty
  <2> QED BY <1>1, <2>1, <2>2 DEF FieldsWhereWritten
<1>2. CASE message.side = "reader"
  <2> DEFINE W == Written(message)
             R == Announced(message)
  <2>1. PICK whole \in Page : Lays(W, 0, whole) /\ whole.puts = places
    BY <1>2 DEF CdrInv, Reading
  <2>2. PICK done \in Layouts, page \in Page, before \in Seq(Put) :
          /\ done \o todo = R
          /\ Lays(done, 0, page) /\ page.at = cursor
          /\ page.puts = before \o last /\ seen = Len(page.puts)
    BY <1>2 DEF CdrInv, Reading
  <2>3. W \in Layouts /\ R \in Layouts /\ Reads(W, R)
    BY <1>0, EveryoneReads
  <2> HIDE DEF W, R
  <2>4. PICK rest \in Layouts : Same(W, R \o rest, 0)
    BY <2>3 DEF Reads
  <2>5. PICK all \in Page : Lays(W, 0, all) /\ Lays(R \o rest, 0, all)
    BY <2>4 DEF Same
  <2>6. all = whole
    BY <2>1, <2>3, <2>5, LaysOnce
  <2> DEFINE left == todo \o rest
  <2>7. left \in Layouts
    BY <1>0, Chained
  <2>8. done \o left = R \o rest
    <3>1. done \o (todo \o rest) = (done \o todo) \o rest
      BY <1>0, Regroup
    <3> QED BY <2>2, <3>1
  <2> HIDE DEF left
  <2>9. page.at \in Nat /\ page.puts \in Seq(Put)
    BY DEF Page
  <2>10. PICK e \in Page : Lays(left, page.at, e)
    BY <2>7, <2>9, LaysSomething
  <2> DEFINE both == [at |-> e.at, puts |-> page.puts \o e.puts]
  <2>11. Lays(R \o rest, 0, both)
    <3>1. Lays(done \o left, 0, both)
      BY <2>2, <2>7, <2>10, LaysBoth
    <3> QED BY <2>8, <3>1
  <2>12. R \o rest \in Layouts
    BY <2>3, Chained
  <2>13. both = all
    <3> HIDE DEF both
    <3> QED BY <2>5, <2>11, <2>12, LaysOnce
  <2>14. places = page.puts \o e.puts /\ e.puts \in Seq(Put)
    BY <2>1, <2>6, <2>13 DEF Page
  <2>15. seen = Len(before \o last) /\ places = (before \o last) \o e.puts
    BY <2>2, <2>14
  <2>16. seen <= Len(places) /\ last = SubSeq(places, seen - Len(last) + 1, seen)
    <3>1. last \in Seq(Put) /\ e.puts \in Seq(Put)
      BY <1>0, <2>14
    <3> DEFINE x == e.puts
    <3> HIDE DEF x
    <3>2. x \in Seq(Put) /\ places = (before \o last) \o x
      BY <2>14, <2>15 DEF x
    <3>3. \A y \in Seq(Put), z \in Seq(Put), b \in Seq(Put) : \A k, a :
             k = Len(b \o y) /\ a = (b \o y) \o z => k <= Len(a) /\ y = SubSeq(a, k - Len(y) + 1, k)
      BY Between
    <3> QED BY <2>15, <3>1, <3>2, <3>3
  <2> QED BY <2>16 DEF FieldsWhereWritten
<1> QED BY <1>0, <1>1, <1>2

(* The inductive invariant: where the writer and the reader are.           *)
THEOREM CdrInvariant == CdrSpec => []CdrInv
  BY CdrStarts, CdrStep, PTL DEF CdrSpec

(* Every field is read where it was written, by the decoders and by who    *)
(* goes by the announced schema, whatever the lengths of strings and       *)
(* sequences do to the padding.                                            *)
THEOREM EveryFieldWhereWritten == CdrSpec => []FieldsWhereWritten
  BY CdrInvariant, CdrSays, PTL
==============================================================================
