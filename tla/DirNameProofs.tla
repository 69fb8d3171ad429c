---------------------------- MODULE DirNameProofs ----------------------------
(* Proofs about toSlug, truncateSlug and UniqueDirName, for every text, limit *)
(* and library.  A fold is a recursion over the text: what it computes is     *)
(* shown by looking at the least number of characters for which it would not. *)
EXTENDS DirName, SequenceTheorems, FiniteSetTheorems, WellFoundedInduction, TLAPS

-----------------------------------------------------------------------------
(* Numbers and sequences: what the folds of a slug compute.                 *)

\* Every nonempty set of numbers has a least one ...
LEMMA LeastNumber ==
    ASSUME NEW T, T \subseteq Nat, T # {}
    PROVE  \E x \in T : \A y \in T : x <= y
<1> DEFINE R == {ss \in Nat \X Nat : ss[1] < ss[2]}
<1>1. \A x, y \in Nat : <<x, y>> \in R <=> x < y
  OBVIOUS
<1>2. IsWellFoundedOn(R, Nat)
  BY NatLessThanWellFounded DEF OpToRel
<1> HIDE DEF R
<1>3. PICK x \in T : \A y \in T : ~ (<<y, x>> \in R)
  BY <1>2, WFMin
<1>4. ASSUME NEW y \in T PROVE x <= y
  <2>1. x \in Nat /\ y \in Nat
    OBVIOUS
  <2>2. ~(y < x)
    BY <1>1, <1>3, <2>1
  <2> QED
    BY <2>1, <2>2
<1> QED
  BY <1>4

\* ... and one that is bounded a greatest.
LEMMA MaxIsGreatest ==
    ASSUME NEW n \in Nat, NEW S, S \subseteq 0..n, S # {}
    PROVE  Max(S) \in S /\ \A y \in S : Max(S) >= y
<1> DEFINE T == {n - y : y \in S}
<1>1. T \subseteq Nat /\ T # {}
  <2>1. \A y \in S : y \in Nat /\ y <= n /\ n - y \in Nat
    OBVIOUS
  <2> QED
    BY <2>1
<1>2. PICK t \in T : \A u \in T : t <= u
  BY <1>1, LeastNumber
<1>3. n - t \in S /\ \A y \in S : n - t >= y
  BY <1>2
<1> QED
  BY <1>3 DEF Max

\* The recursion of FlattenSeq.
Piece(seqs, f, i) == IF i = 1 THEN seqs[i] ELSE f[i - 1] \o seqs[i]

Joined(seqs, f, k) == f = [i \in 1..k |-> Piece(seqs, f, i)]

\* The recursion of FlattenSeq has a solution, and it is what FlattenSeq is.
LEMMA FlattenIsJoined ==
    ASSUME NEW seqs, Len(seqs) \in Nat \ {0}
    PROVE  \E f : /\ FlattenSeq(seqs) = f[Len(seqs)]
                  /\ \A i \in 1..Len(seqs) : f[i] = Piece(seqs, f, i)
<1> DEFINE n == Len(seqs)
           T == {k \in 0..n : ~ \E f : Joined(seqs, f, k)}
           flat == CHOOSE f : Joined(seqs, f, n)
<1>1. \E f : Joined(seqs, f, n)
  <2>1. SUFFICES ASSUME T # {} PROVE FALSE
    OBVIOUS
  <2>2. PICK k \in T : \A j \in T : k <= j
    <3>1. T \subseteq Nat
      OBVIOUS
    <3> HIDE DEF T
    <3> QED
      BY <2>1, <3>1, LeastNumber
  <2>3. k \in 0..n
    OBVIOUS
  <2>4. k # 0
    <3>1. Joined(seqs, [i \in 1..0 |-> 0], 0)
      BY DEF Joined
    <3> QED
      BY <3>1
  <2>5. k - 1 \in 0..n /\ k - 1 \notin T
    <3>1. k - 1 \in 0..n /\ ~(k <= k - 1)
      BY <2>3, <2>4
    <3> HIDE DEF T
    <3> QED
      BY <2>2, <3>1
  <2>6. PICK f : Joined(seqs, f, k - 1)
    BY <2>5
  <2> DEFINE g == [i \in 1..k |-> Piece(seqs, f, i)]
  <2>7. Joined(seqs, g, k)
    <3>1. ASSUME NEW i \in 1..k PROVE Piece(seqs, f, i) = Piece(seqs, g, i)
      <4>1. i # 1 => i - 1 \in 1..(k - 1) /\ i - 1 \in 1..k
        BY <2>3
      <4>2. i # 1 => f[i - 1] = g[i - 1]
        BY <2>6, <4>1 DEF Joined
      <4> QED
        BY <4>2 DEF Piece
    <3> QED
      BY <3>1 DEF Joined
  <2> QED
    BY <2>7
<1>2. Joined(seqs, flat, n)
  BY <1>1
<1>3. FlattenSeq(seqs) = flat[n]
  <2>1. n # 0
    OBVIOUS
  <2> QED
    BY <2>1, Zenon DEF FlattenSeq, Joined, Piece
<1> HIDE DEF flat
<1> QED
  BY <1>2, <1>3 DEF Joined

LEMMA FlattenIsText ==
    ASSUME NEW Chars, NEW seqs \in Seq(Seq(Chars))
    PROVE  FlattenSeq(seqs) \in Seq(Chars)
<1>1. Len(seqs) \in Nat /\ \A i \in 1..Len(seqs) : seqs[i] \in Seq(Chars)
  OBVIOUS
<1>2. CASE Len(seqs) = 0
  BY <1>2 DEF FlattenSeq
<1>3. CASE Len(seqs) # 0
  <2>1. PICK f : /\ FlattenSeq(seqs) = f[Len(seqs)]
                 /\ \A i \in 1..Len(seqs) : f[i] = Piece(seqs, f, i)
    BY <1>1, <1>3, FlattenIsJoined
  <2> DEFINE T == {i \in 1..Len(seqs) : f[i] \notin Seq(Chars)}
  <2>2. SUFFICES ASSUME T # {} PROVE FALSE
    BY <1>1, <1>3, <2>1
  <2>3. PICK k \in T : \A j \in T : k <= j
    <3>1. T \subseteq Nat
      OBVIOUS
    <3> HIDE DEF T
    <3> QED
      BY <2>2, <3>1, LeastNumber
  <2>4. k \in 1..Len(seqs) /\ f[k] = Piece(seqs, f, k)
    BY <2>1
  <2>5. k # 1
    BY <1>1, <2>4 DEF Piece
  <2>6. k - 1 \in 1..Len(seqs) /\ k - 1 \notin T
    <3>1. k - 1 \in 1..Len(seqs) /\ ~(k <= k - 1)
      BY <1>1, <2>4, <2>5
    <3> HIDE DEF T
    <3> QED
      BY <2>3, <3>1
  <2>7. f[k] \in Seq(Chars)
    BY <1>1, <2>4, <2>5, <2>6 DEF Piece
  <2> QED
    BY <2>7
<1> QED
  BY <1>1, <1>2, <1>3

-----------------------------------------------------------------------------
(* Slugs.                                                                   *)

Slugs == Seq(Alnum \cup {Dash})

\* The invariant of the loop of toSlug: a slug that may end in a dash.
Growing(s) ==
    /\ s \in Slugs
    /\ \A i \in DOMAIN s :
          s[i] = Dash => i # 1 /\ (i # Len(s) => s[i + 1] # Dash)

LEMMA CharAppended ==
    ASSUME NEW s, Growing(s), NEW c PROVE Growing(AppendChar(s, c))
<1>1. s \in Slugs /\ Len(s) \in Nat /\ DOMAIN s = 1..Len(s)
  BY DEF Growing, Slugs
<1>2. ASSUME NEW d \in Alnum \cup {Dash}, d = Dash => s # << >> /\ s[Len(s)] # Dash
      PROVE  Growing(Append(s, d))
  <2> DEFINE a == Append(s, d)
  <2>1. /\ a \in Slugs /\ Len(a) = Len(s) + 1 /\ DOMAIN a = 1..(Len(s) + 1)
        /\ a[Len(s) + 1] = d /\ \A i \in 1..Len(s) : a[i] = s[i]
    BY <1>1, AppendProperties DEF Slugs
  <2> SUFFICES Growing(a)
    OBVIOUS
  <2>2. s = << >> <=> Len(s) = 0
    BY <1>1 DEF Slugs
  <2> HIDE DEF a
  <2>3. ASSUME NEW i \in DOMAIN a, a[i] = Dash
        PROVE  i # 1 /\ (i # Len(a) => a[i + 1] # Dash)
    <3>1. CASE i \in 1..Len(s)
      <4>1. s[i] = Dash /\ i # 1 /\ (i # Len(s) => s[i + 1] # Dash)
        BY <1>1, <2>1, <2>3, <3>1 DEF Growing
      <4>2. i # Len(s) => i + 1 \in 1..Len(s)
        BY <1>1, <3>1
      <4>3. i = Len(s) => a[i + 1] = d /\ d # Dash
        BY <1>2, <2>1, <4>1
      <4> QED
        BY <2>1, <4>1, <4>2, <4>3
    <3>2. CASE i = Len(s) + 1
      BY <1>1, <1>2, <2>1, <2>2, <2>3, <3>2
    <3> QED
      BY <1>1, <2>1, <3>1, <3>2
  <2> QED
    BY <2>1, <2>3 DEF Growing
<1> QED
  BY <1>2, DirNameAssumption DEF AppendChar, Last

\* The value of the loop of toSlug after the characters of a set.
SlugAfter(s, f, t) ==
    IF t = {} THEN << >> ELSE AppendChar(f[t \ {Max(t)}], s[Max(t)])

Loop(s, f, k) == f = [t \in SUBSET (1..k) |-> SlugAfter(s, f, t)]

LEMMA PrefixOfSet ==
    ASSUME NEW k \in Nat, NEW t \in SUBSET (1..k), t # {}
    PROVE  /\ Max(t) \in t /\ Max(t) \in 1..k
           /\ t \ {Max(t)} \in SUBSET (1..(Max(t) - 1))
           /\ t \ {Max(t)} \in SUBSET (1..k) /\ t \ {Max(t)} \in SUBSET (1..(k - 1))
<1>1. t \subseteq 0..k
  OBVIOUS
<1>2. Max(t) \in t /\ \A y \in t : Max(t) >= y
  BY <1>1, MaxIsGreatest
<1> DEFINE m == Max(t)
<1>3. m \in t /\ m \in 1..k /\ \A y \in t : y \in 1..k /\ m >= y
  BY <1>2
<1> SUFFICES /\ t \ {m} \subseteq 1..(m - 1)
             /\ t \ {m} \subseteq 1..k /\ t \ {m} \subseteq 1..(k - 1)
  BY <1>3
<1> HIDE DEF m
<1>4. ASSUME NEW y \in t \ {m} PROVE y \in 1..(m - 1) /\ y \in 1..(k - 1)
  <2>1. y \in 1..k /\ m \in 1..k /\ m >= y /\ y # m
    BY <1>3
  <2> QED
    BY <2>1
<1> QED
  BY <1>3, <1>4

\* The recursion by which FoldLeft is defined has a solution.
LEMMA LoopExists ==
    ASSUME NEW s, NEW n \in Nat PROVE \E f : Loop(s, f, n)
<1> DEFINE T == {k \in 0..n : ~ \E f : Loop(s, f, k)}
<1>1. SUFFICES ASSUME T # {} PROVE FALSE
  OBVIOUS
<1>2. PICK k \in T : \A j \in T : k <= j
  <2>1. T \subseteq Nat
    OBVIOUS
  <2> HIDE DEF T
  <2> QED
    BY <1>1, <2>1, LeastNumber
<1>3. k \in 0..n
  OBVIOUS
<1>4. k # 0
  <2>1. SUBSET (1..0) = {{}}
    OBVIOUS
  <2>2. Loop(s, [t \in SUBSET (1..0) |-> << >>], 0)
    BY <2>1 DEF Loop, SlugAfter
  <2> QED
    BY <2>2
<1>5. k - 1 \in 0..n /\ k - 1 \notin T /\ k \in Nat
  <2>1. k - 1 \in 0..n /\ ~(k <= k - 1)
    BY <1>3, <1>4
  <2> HIDE DEF T
  <2> QED
    BY <1>2, <1>3, <2>1
<1>6. PICK f : Loop(s, f, k - 1)
  BY <1>5
<1> DEFINE g == [t \in SUBSET (1..k) |-> SlugAfter(s, f, t)]
<1>7. ASSUME NEW t \in SUBSET (1..k) PROVE SlugAfter(s, f, t) = SlugAfter(s, g, t)
  <2>1. CASE t = {}
    BY <2>1 DEF SlugAfter
  <2>2. CASE t # {}
    <3>1. /\ t \ {Max(t)} \in SUBSET (1..(k - 1))
          /\ t \ {Max(t)} \in SUBSET (1..k)
      BY <1>5, <2>2, PrefixOfSet
    <3>2. f[t \ {Max(t)}] = SlugAfter(s, f, t \ {Max(t)})
      BY <1>6, <3>1 DEF Loop
    <3>3. g[t \ {Max(t)}] = f[t \ {Max(t)}]
      BY <3>1, <3>2
    <3> QED
      BY <3>3 DEF SlugAfter
  <2> QED
    BY <2>1, <2>2
<1>8. Loop(s, g, k)
  BY <1>7 DEF Loop
<1> QED
  BY <1>8

\* What FoldLeft computes in toSlug.
LEMMA FoldIsLoop ==
    ASSUME NEW Chars, NEW s \in Seq(Chars)
    PROVE  \E f : /\ Loop(s, f, Len(s))
                  /\ FoldLeft(AppendChar, << >>, s) = f[1..Len(s)]
<1> DEFINE f == CHOOSE f : Loop(s, f, Len(s))
<1>1. Len(s) \in Nat /\ DOMAIN s = 1..Len(s)
  OBVIOUS
<1>2. Loop(s, f, Len(s))
  BY <1>1, LoopExists
<1>3. FoldLeft(AppendChar, << >>, s) = f[1..Len(s)]
  BY <1>1, Zenon DEF FoldLeft, MapThenFoldSet, Loop, SlugAfter
<1> QED
  BY <1>2, <1>3

\* What the loop has after the first k characters.
LEMMA LoopAt ==
    ASSUME NEW s, NEW n \in Nat, NEW f, Loop(s, f, n), NEW k \in 1..n
    PROVE  f[1..k] = AppendChar(f[1..(k - 1)], s[k])
<1>1. k \in Nat /\ k \in 1..k /\ 1..k \in SUBSET (1..n) /\ 1..k \subseteq 0..k /\ 1..k # {}
  OBVIOUS
<1>2. Max(1..k) = k
  <2>1. Max(1..k) \in 1..k /\ \A i \in 1..k : Max(1..k) >= i
    BY <1>1, MaxIsGreatest
  <2> QED
    BY <1>1, <2>1
<1>3. (1..k) \ {k} = 1..(k - 1)
  <2>1. \A i : i \in (1..k) \ {k} <=> i \in 1..(k - 1)
    BY <1>1
  <2> QED
    BY <2>1
<1>4. f[1..k] = SlugAfter(s, f, 1..k)
  BY <1>1 DEF Loop
<1> QED
  BY <1>1, <1>2, <1>3, <1>4 DEF SlugAfter

\* Whatever the characters are, the loop only makes slugs.
LEMMA LoopGrows ==
    ASSUME NEW s, NEW n \in Nat, NEW f, Loop(s, f, n)
    PROVE  \A t \in SUBSET (1..n) : Growing(f[t])
<1> DEFINE T == {k \in 0..n : \E t \in SUBSET (1..k) : ~Growing(f[t])}
<1>1. SUFFICES ASSUME T # {} PROVE FALSE
  <2>1. n \in 0..n
    OBVIOUS
  <2> QED
    BY <2>1
<1>2. PICK k \in T : \A j \in T : k <= j
  <2>1. T \subseteq Nat
    OBVIOUS
  <2> HIDE DEF T
  <2> QED
    BY <1>1, <2>1, LeastNumber
<1>3. k \in 0..n /\ k \in Nat
  OBVIOUS
<1>4. PICK t \in SUBSET (1..k) : ~Growing(f[t])
  OBVIOUS
<1>5. f[t] = SlugAfter(s, f, t)
  <2>1. t \in SUBSET (1..n)
    BY <1>3
  <2> QED
    BY <2>1 DEF Loop
<1>6. CASE t = {}
  <2>1. Growing(<< >>)
    BY DEF Growing, Slugs
  <2> QED
    BY <1>4, <1>5, <1>6, <2>1 DEF SlugAfter
<1>7. CASE t # {}
  <2>1. Max(t) \in 1..k /\ t \ {Max(t)} \in SUBSET (1..(Max(t) - 1))
    BY <1>3, <1>7, PrefixOfSet
  <2>2. Growing(f[t \ {Max(t)}])
    <3>1. Max(t) - 1 \in 0..n /\ ~(k <= Max(t) - 1)
      BY <1>3, <2>1
    <3>2. Max(t) - 1 \notin T
      <4> HIDE DEF T
      <4> QED
        BY <1>2, <3>1
    <3> QED
      BY <2>1, <3>1, <3>2
  <2>3. Growing(f[t])
    BY <1>5, <1>7, <2>2, CharAppended DEF SlugAfter
  <2> QED
    BY <1>4, <2>3
<1> QED
  BY <1>6, <1>7

LEMMA FoldedIsText ==
    ASSUME NEW text, IsText(text)
    PROVE  \E Chars : Folded(text) \in Seq(Chars)
<1> DEFINE Chars == Range(text) \cup Alnum
           parts == [i \in DOMAIN text |->
                        IF text[i] \in DOMAIN Fold THEN Fold[text[i]] ELSE <<text[i]>>]
<1>1. Len(text) \in Nat /\ DOMAIN text = 1..Len(text)
      /\ \A i \in DOMAIN text : text[i] \in Chars
  BY DEF IsText
<1> HIDE DEF Chars
<1>2. ASSUME NEW i \in DOMAIN text PROVE parts[i] \in Seq(Chars)
  <2>1. CASE text[i] \in DOMAIN Fold
    <3>1. Fold[text[i]] \in Seq(Alnum)
      BY <2>1, DirNameAssumption
    <3> QED
      BY <2>1, <3>1, SeqMonotonic DEF Chars
  <2>2. CASE text[i] \notin DOMAIN Fold
    BY <1>1, <2>2
  <2> QED
    BY <2>1, <2>2
<1>3. parts \in Seq(Seq(Chars))
  BY <1>1, <1>2, IsASeq
<1> QED
  BY <1>3, FlattenIsText DEF Folded

\* What toSlug makes of any text is a slug.
LEMMA SlugIsMade ==
    ASSUME NEW text, IsText(text)
    PROVE  ToSlug(text) \in Slugs /\ IsSlug(ToSlug(text))
<1> DEFINE s == FoldLeft(AppendChar, << >>, Folded(text))
<1>1. Growing(s)
  <2>1. PICK Chars : Folded(text) \in Seq(Chars)
    BY FoldedIsText
  <2>2. PICK f : Loop(Folded(text), f, Len(Folded(text))) /\ s = f[1..Len(Folded(text))]
    BY <2>1, FoldIsLoop
  <2>3. Len(Folded(text)) \in Nat
    BY <2>1
  <2> QED
    BY <2>2, <2>3, LoopGrows
<1>2. ToSlug(text) = WithoutTrailingDash(s)
  BY DEF ToSlug
<1> HIDE DEF s
<1>3. s \in Slugs /\ Len(s) \in Nat /\ DOMAIN s = 1..Len(s)
      /\ \A i \in DOMAIN s : s[i] \in Alnum \cup {Dash}
  BY <1>1 DEF Growing, Slugs
<1>4. CASE s # << >> /\ s[Len(s)] = Dash
  <2> DEFINE n == Len(s) - 1
             u == SubSeq(s, 1, n)
  <2>1. Len(s) # 0
    BY <1>3, <1>4 DEF Slugs
  <2>2. n \in 0..Len(s) /\ n \in Nat
    BY <1>3, <2>1
  <2>3. u \in Slugs /\ Len(u) = n /\ DOMAIN u = 1..n /\ \A i \in 1..n : u[i] = s[i]
    BY <1>3, <2>2, SubSeqProperties DEF Slugs
  <2>4. ToSlug(text) = u
    BY <1>2, <1>4 DEF WithoutTrailingDash, Front, Last
  <2> HIDE DEF u
  <2>5. ASSUME NEW i \in DOMAIN u, u[i] = Dash
        PROVE  i # 1 /\ i # Len(u) /\ u[i + 1] # Dash
    <3>1. i \in 1..Len(s) /\ s[i] = Dash /\ i # Len(s)
      BY <1>3, <2>3, <2>5, <2>2
    <3>2. i # 1 /\ s[i + 1] # Dash
      BY <1>1, <1>3, <3>1 DEF Growing
    <3>3. i # n
      BY <1>4, <3>2, <1>3
    <3>4. i + 1 \in 1..n
      BY <2>2, <2>3, <3>3
    <3> QED
      BY <2>3, <3>2, <3>3, <3>4
  <2>6. \A i \in DOMAIN u : u[i] \in Alnum \cup {Dash}
    BY <1>3, <2>2, <2>3
  <2> QED
    BY <2>3, <2>4, <2>5, <2>6 DEF IsSlug
<1>5. CASE ~(s # << >> /\ s[Len(s)] = Dash)
  <2>1. ToSlug(text) = s
    BY <1>2, <1>5 DEF WithoutTrailingDash, Last
  <2>2. ASSUME NEW i \in DOMAIN s, s[i] = Dash
        PROVE  i # 1 /\ i # Len(s) /\ s[i + 1] # Dash
    <3>1. s # << >>
      BY <1>3
    <3>2. i # Len(s)
      BY <1>5, <2>2, <3>1
    <3> QED
      BY <1>1, <2>2, <3>2 DEF Growing
  <2> QED
    BY <1>3, <2>1, <2>2 DEF IsSlug
<1> QED
  BY <1>4, <1>5

\* A slug stays one when it is cut behind a letter or a digit.
LEMMA PrefixIsSlug ==
    ASSUME NEW slug \in Slugs, IsSlug(slug), NEW n \in 0..Len(slug),
           n # 0 => slug[n] # Dash
    PROVE  /\ SubSeq(slug, 1, n) \in Slugs /\ Len(SubSeq(slug, 1, n)) = n
           /\ IsSlug(SubSeq(slug, 1, n))
<1> DEFINE u == SubSeq(slug, 1, n)
<1>1. n \in Nat /\ Len(slug) \in Nat /\ n <= Len(slug) /\ DOMAIN slug = 1..Len(slug)
  BY DEF Slugs
<1>2. u \in Slugs /\ Len(u) = n /\ DOMAIN u = 1..n /\ \A i \in 1..n : u[i] = slug[i]
  BY <1>1, SubSeqProperties DEF Slugs
<1> HIDE DEF u
<1>3. ASSUME NEW i \in DOMAIN u, u[i] \notin Alnum
      PROVE  u[i] = Dash /\ i \notin {1, Len(u)} /\ u[i + 1] # Dash
  <2>1. i \in 1..n /\ i \in DOMAIN slug
    BY <1>1, <1>2
  <2>2. slug[i] = Dash /\ i # 1 /\ slug[i + 1] # Dash
    BY <1>2, <1>3, <2>1 DEF IsSlug
  <2>3. i # n /\ i + 1 \in 1..n
    BY <1>1, <2>1, <2>2
  <2> QED
    BY <1>2, <2>1, <2>2, <2>3
<1>4. IsSlug(u)
  BY <1>3 DEF IsSlug
<1> QED
  BY <1>2, <1>4 DEF u

\* The last of the dashes that a cut goes by.
LEMMA DashOfCut ==
    ASSUME NEW slug \in Slugs, IsSlug(slug), NEW max \in Nat \ {0},
           Len(slug) > max, NEW D, D = {i \in 2..max : slug[i] = Dash}
    PROVE  /\ D = {} => /\ TruncateSlug(slug, max) = SubSeq(slug, 1, max)
                        /\ slug[max] # Dash
           /\ D # {} => /\ Max(D) \in D /\ \A i \in D : Max(D) >= i
                        /\ TruncateSlug(slug, max) = SubSeq(slug, 1, Max(D) - 1)
                        /\ slug[Max(D) - 1] # Dash
<1> DEFINE cut == SubSeq(slug, 1, max)
<1>1. max \in 1..Len(slug) /\ Len(slug) \in Nat /\ DOMAIN slug = 1..Len(slug)
  BY DEF Slugs
<1>2. /\ cut \in Slugs /\ Len(cut) = max
      /\ \A i \in 1..max : cut[i] = slug[i]
  BY <1>1, SubSeqProperties DEF Slugs
<1>3. D = {i \in 2..max : cut[i] = Dash}
  BY <1>2
<1>4. slug[1] # Dash
  BY <1>1, DirNameAssumption DEF IsSlug
<1>5. CASE D = {}
  <2>1. TruncateSlug(slug, max) = cut
    BY <1>1, <1>3, <1>5 DEF TruncateSlug
  <2>2. slug[max] # Dash
    BY <1>4, <1>5
  <2> QED
    BY <1>5, <2>1, <2>2
<1>6. CASE D # {}
  <2> DEFINE m == Max(D)
  <2>1. m \in D /\ \A i \in D : m >= i
    <3>1. D \subseteq 0..max
      OBVIOUS
    <3> QED
      BY <1>6, <3>1, MaxIsGreatest
  <2>2. TruncateSlug(slug, max) = SubSeq(cut, 1, m - 1)
    <3>1. ~(Len(slug) <= max)
      BY <1>1
    <3> QED
      BY <1>3, <1>6, <3>1, Zenon DEF TruncateSlug
  <2> HIDE DEF m
  <2>3. m \in 2..max /\ m - 1 \in 1..max /\ m - 1 \in 1..Len(slug) /\ slug[m] = Dash
        /\ m \in 1..Len(slug) /\ m - 1 \in Nat
    BY <1>1, <2>1
  <2>4. SubSeq(cut, 1, m - 1) = SubSeq(slug, 1, m - 1)
    <3>1. /\ SubSeq(cut, 1, m - 1) \in Slugs /\ Len(SubSeq(cut, 1, m - 1)) = m - 1
          /\ \A i \in 1..(m - 1) : SubSeq(cut, 1, m - 1)[i] = cut[i]
      BY <1>2, <2>3, SubSeqProperties DEF Slugs
    <3>2. /\ SubSeq(slug, 1, m - 1) \in Slugs /\ Len(SubSeq(slug, 1, m - 1)) = m - 1
          /\ \A i \in 1..(m - 1) : SubSeq(slug, 1, m - 1)[i] = slug[i]
      BY <1>1, <2>3, SubSeqProperties DEF Slugs
    <3>3. \A i \in 1..(m - 1) : cut[i] = slug[i]
      BY <1>2, <2>3
    <3> QED
      BY <3>1, <3>2, <3>3, SeqEqual DEF Slugs
  <2>5. slug[m - 1] # Dash
    <3>1. slug[m - 1] = Dash => slug[(m - 1) + 1] # Dash
      BY <1>1, <2>3, DirNameAssumption DEF IsSlug
    <3>2. (m - 1) + 1 = m
      BY <2>3
    <3> QED
      BY <2>3, <3>1, <3>2
  <2> QED
    BY <1>6, <2>1, <2>2, <2>4, <2>5 DEF m
<1> QED
  BY <1>5, <1>6

\* CutIsRight: truncateSlug drops as little as it can.
LEMMA SlugIsCut ==
    ASSUME NEW slug \in Slugs, IsSlug(slug), NEW max \in Nat \ {0}
    PROVE  /\ CutIsRight(slug, max)
           /\ TruncateSlug(slug, max) \in Slugs
           /\ Len(TruncateSlug(slug, max)) <= max
<1> DEFINE cut == TruncateSlug(slug, max)
           D == {i \in 2..max : slug[i] = Dash}
           short == {p \in WordPrefixes(slug) : Len(p) < max}
<1>1. Len(slug) \in Nat /\ DOMAIN slug = 1..Len(slug)
  BY DEF Slugs
<1>2. CASE Len(slug) <= max
  <2>1. cut = slug /\ ~(Len(slug) > max)
    BY <1>1, <1>2 DEF TruncateSlug
  <2> QED
    BY <1>2, <2>1 DEF CutIsRight
<1>3. CASE Len(slug) > max
  <2>1. \A i \in 1..Len(slug) : Len(SubSeq(slug, 1, i - 1)) = i - 1
    BY <1>1, SubSeqProperties DEF Slugs
  <2>2. short = {SubSeq(slug, 1, i - 1) : i \in D}
    <3>1. ASSUME NEW i \in DOMAIN slug, slug[i] = Dash
          PROVE  i - 1 < max <=> i \in D
      <4>1. i # 1
        BY <3>1, DirNameAssumption DEF IsSlug
      <4> QED
        BY <1>1, <3>1, <4>1
    <3>2. D \subseteq DOMAIN slug
      BY <1>1, <1>3
    <3> HIDE DEF D
    <3> QED
      BY <1>1, <2>1, <3>1, <3>2 DEF WordPrefixes, D
  <2>3. CASE D = {}
    <3>1. cut = SubSeq(slug, 1, max) /\ slug[max] # Dash
      BY <1>3, <2>3, DashOfCut
    <3>2. cut \in Slugs /\ Len(cut) = max /\ IsSlug(cut)
      BY <1>1, <1>3, <3>1, PrefixIsSlug
    <3>3. short = {}
      BY <2>2, <2>3
    <3> HIDE DEF cut, short, D
    <3>4. CutIsRight(slug, max)
      <4>1. ~(Len(slug) <= max)
        BY <1>1, <1>3
      <4> QED
        BY <3>1, <3>2, <3>3, <4>1, Zenon DEF CutIsRight, cut, short
    <3> QED
      BY <3>2, <3>4 DEF cut
  <2>4. CASE D # {}
    <3>1. PICK m \in D : /\ \A i \in D : m >= i
                         /\ cut = SubSeq(slug, 1, m - 1) /\ slug[m - 1] # Dash
      BY <1>3, <2>4, DashOfCut
    <3>2. m \in 2..max /\ m - 1 \in 0..Len(slug) /\ m - 1 \in Nat
      BY <1>1, <1>3
    <3>3. cut \in Slugs /\ Len(cut) = m - 1 /\ IsSlug(cut)
      BY <3>1, <3>2, PrefixIsSlug
    <3>4. cut \in short
      BY <2>2, <3>1
    <3>5. ASSUME NEW p \in short PROVE Len(p) <= Len(cut)
      <4>1. PICK i \in D : p = SubSeq(slug, 1, i - 1)
        BY <2>2
      <4>2. i \in 2..max /\ i \in 1..Len(slug)
        BY <1>1, <1>3
      <4>3. Len(p) = i - 1 /\ m >= i
        BY <2>1, <3>1, <4>1, <4>2
      <4> QED
        BY <3>2, <3>3, <4>2, <4>3
    <3>6. Len(cut) <= max
      BY <3>2, <3>3
    <3> HIDE DEF cut, short, D
    <3>7. CutIsRight(slug, max)
      BY <1>1, <1>3, <3>3, <3>4, <3>5 DEF CutIsRight, cut, short
    <3> QED
      BY <3>3, <3>6, <3>7 DEF cut
  <2> QED
    BY <2>3, <2>4
<1> QED
  BY <1>1, <1>2, <1>3

\* What is neither a capital nor an umlaut stays as it is.
LEMMA SlugIsFolded ==
    ASSUME NEW s \in Slugs PROVE Folded(s) = s
<1> DEFINE seqs == [i \in DOMAIN s |-> <<s[i]>>]
<1>1. Len(s) \in Nat /\ DOMAIN s = 1..Len(s) /\ \A i \in 1..Len(s) : s[i] \notin DOMAIN Fold
  BY DirNameAssumption DEF Slugs
<1>2. Folded(s) = FlattenSeq(seqs)
  BY <1>1 DEF Folded
<1>3. Len(seqs) = Len(s) /\ \A i \in 1..Len(s) : seqs[i] = <<s[i]>>
  <2>1. seqs \in Seq({<<c>> : c \in Alnum \cup {Dash}})
    BY <1>1, IsASeq DEF Slugs
  <2> QED
    BY <1>1, <2>1
<1>4. CASE Len(s) = 0
  <2>1. seqs = << >> /\ s = << >>
    BY <1>1, <1>4 DEF Slugs
  <2> QED
    BY <1>2, <1>3, <1>4, <2>1 DEF FlattenSeq
<1> HIDE DEF seqs
<1>5. CASE Len(s) # 0
  <2>1. PICK f : /\ FlattenSeq(seqs) = f[Len(s)]
                 /\ \A i \in 1..Len(s) : f[i] = Piece(seqs, f, i)
    BY <1>1, <1>3, <1>5, FlattenIsJoined
  <2> DEFINE T == {i \in 1..Len(s) : f[i] # SubSeq(s, 1, i)}
  <2>2. SUFFICES ASSUME T # {} PROVE FALSE
    BY <1>1, <1>2, <1>5, <2>1, SubSeqFull DEF Slugs
  <2>3. PICK k \in T : \A j \in T : k <= j
    <3>1. T \subseteq Nat
      OBVIOUS
    <3> HIDE DEF T
    <3> QED
      BY <2>2, <3>1, LeastNumber
  <2>4. k \in 1..Len(s) /\ f[k] = Piece(seqs, f, k) /\ seqs[k] = <<s[k]>>
    BY <1>3, <2>1
  <2>5. CASE k = 1
    <3>1. SubSeq(s, 1, 1) = SubSeq(s, 1, 0) \o <<s[1]>>
      BY <1>1, <2>4, <2>5, SubSeqRecursiveSecond DEF Slugs
    <3>2. SubSeq(s, 1, 0) = << >>
      BY <1>1 DEF Slugs
    <3>3. s[1] \in Alnum \cup {Dash}
      BY <1>1, <2>4, <2>5 DEF Slugs
    <3>4. << >> \o <<s[1]>> = <<s[1]>>
      BY <3>3
    <3> QED
      BY <2>4, <2>5, <3>1, <3>2, <3>4 DEF Piece
  <2>6. CASE k # 1
    <3>1. k - 1 \in 1..Len(s) /\ ~(k <= k - 1)
      BY <1>1, <2>4, <2>6
    <3>2. k - 1 \notin T
      <4> HIDE DEF T
      <4> QED
        BY <2>3, <3>1
    <3>3. f[k] = SubSeq(s, 1, k - 1) \o <<s[k]>>
      BY <2>4, <2>6, <3>1, <3>2 DEF Piece
    <3>4. SubSeq(s, 1, k) = SubSeq(s, 1, k - 1) \o <<s[k]>>
      BY <1>1, <2>4, SubSeqRecursiveSecond DEF Slugs
    <3> QED
      BY <3>3, <3>4
  <2> QED
    BY <2>5, <2>6
<1> QED
  BY <1>4, <1>5

\* A slug is left as it is.
LEMMA SlugIsItsOwn ==
    ASSUME NEW s \in Slugs, IsSlug(s) PROVE ToSlug(s) = s
<1>1. Len(s) \in Nat /\ DOMAIN s = 1..Len(s)
  BY DEF Slugs
<1>2. PICK f : Loop(s, f, Len(s)) /\ FoldLeft(AppendChar, << >>, s) = f[1..Len(s)]
  BY FoldIsLoop DEF Slugs
<1> DEFINE T == {k \in 0..Len(s) : f[1..k] # SubSeq(s, 1, k)}
<1>3. T = {}
  <2>1. SUFFICES ASSUME T # {} PROVE FALSE
    OBVIOUS
  <2>2. PICK k \in T : \A j \in T : k <= j
    <3>1. T \subseteq Nat
      BY <1>1
    <3> HIDE DEF T
    <3> QED
      BY <2>1, <3>1, LeastNumber
  <2>3. k \in 0..Len(s) /\ 1..k \in SUBSET (1..Len(s)) /\ f[1..k] # SubSeq(s, 1, k)
    BY <1>1
  <2>4. f[1..k] = SlugAfter(s, f, 1..k)
    BY <1>2, <2>3 DEF Loop
  <2>5. CASE k = 0
    <3>1. 1..k = {} /\ SubSeq(s, 1, k) = << >>
      BY <1>1, <2>5 DEF Slugs
    <3> QED
      BY <2>3, <2>4, <3>1 DEF SlugAfter
  <2>6. CASE k # 0
    <3> DEFINE u == SubSeq(s, 1, k - 1)
    <3>1. k \in 1..Len(s) /\ k - 1 \in 0..Len(s) /\ ~(k <= k - 1) /\ k \in 1..k
          /\ k \in Nat
      BY <1>1, <2>3, <2>6
    <3>2. f[1..(k - 1)] = u
      <4>1. k - 1 \notin T
        <5> HIDE DEF T
        <5> QED
          BY <2>2, <3>1
      <4> QED
        BY <3>1, <4>1
    <3>3. f[1..k] = AppendChar(u, s[k])
      <4>1. f[1..k] = AppendChar(f[1..(k - 1)], s[k])
        BY <1>1, <1>2, <3>1, LoopAt
      <4> QED
        BY <3>2, <4>1
    <3>4. u \in Slugs /\ Len(u) = k - 1 /\ \A i \in 1..(k - 1) : u[i] = s[i]
      BY <1>1, <3>1, SubSeqProperties DEF Slugs
    <3>5. SubSeq(s, 1, k) = u \o <<s[k]>>
      BY <1>1, <3>1, SubSeqRecursiveSecond DEF Slugs
    <3> HIDE DEF u
    <3>6. s[k] \in Alnum \cup {Dash}
      BY <1>1, <3>1 DEF Slugs
    <3>7. Append(u, s[k]) = SubSeq(s, 1, k)
      BY <3>4, <3>5, <3>6, AppendIsConcat DEF Slugs
    <3>8. s[k] = Dash => u # << >> /\ Last(u) # Dash
      <4>1. SUFFICES ASSUME s[k] = Dash PROVE u # << >> /\ Last(u) # Dash
        OBVIOUS
      <4>2. k # 1
        BY <1>1, <3>1, <4>1, DirNameAssumption DEF IsSlug
      <4>3. k - 1 \in DOMAIN s /\ (k - 1) + 1 = k /\ k - 1 # 0
        BY <1>1, <3>1, <4>2
      <4>4. s[k - 1] # Dash
        BY <4>1, <4>3, DirNameAssumption DEF IsSlug
      <4> QED
        BY <3>1, <3>4, <4>3, <4>4 DEF Last, Slugs
    <3>9. f[1..k] = Append(u, s[k])
      BY <3>3, <3>6, <3>8 DEF AppendChar
    <3> QED
      BY <2>3, <3>7, <3>9
  <2> QED
    BY <2>5, <2>6
<1>4. FoldLeft(AppendChar, << >>, s) = s
  <2>1. Len(s) \in 0..Len(s)
    BY <1>1
  <2>2. f[1..Len(s)] = SubSeq(s, 1, Len(s))
    BY <1>3, <2>1
  <2> QED
    BY <1>2, <2>2, SubSeqFull DEF Slugs
<1>5. ToSlug(s) = WithoutTrailingDash(s)
  BY <1>4, SlugIsFolded DEF ToSlug
<1>6. s # << >> => s[Len(s)] # Dash
  BY <1>1, DirNameAssumption DEF IsSlug, Slugs
<1> QED
  BY <1>5, <1>6 DEF WithoutTrailingDash, Last

\* The words of the first k characters, and the loop of toSlug after them: it
\* is ahead by a dash if another character has followed.
Said(f, k, words, slug) ==
    /\ words \in Slugs /\ (words # << >> => words[Len(words)] # Dash)
    /\ words = << >> <=> \A j \in 1..k : f[j] \notin Alnum
    /\ slug = IF words = << >> \/ f[k] \in Alnum THEN words ELSE Append(words, Dash)

LEMMA WordSaid ==
    ASSUME NEW f, NEW k \in Nat \ {0}, NEW w, NEW l, Said(f, k - 1, w, l)
    PROVE  Said(f, k, w \o Spelt(f, k), AppendChar(l, f[k]))
<1>1. /\ w \in Slugs /\ Len(w) \in Nat /\ (w # << >> => w[Len(w)] # Dash)
      /\ w = << >> <=> \A j \in 1..(k - 1) : f[j] \notin Alnum
      /\ l = IF w = << >> \/ f[k - 1] \in Alnum THEN w ELSE Append(w, Dash)
  BY DEF Said, Slugs
<1>2. k \in 1..k /\ \A j : j \in 1..k <=> j \in 1..(k - 1) \/ j = k
  OBVIOUS
<1>3. w # << >> => Len(w) # 0
  BY <1>1 DEF Slugs
<1>4. CASE f[k] \in Alnum
  <2> DEFINE tail == IF w = << >> \/ f[k - 1] \in Alnum THEN <<f[k]>>
                     ELSE <<Dash, f[k]>>
  <2>1. Spelt(f, k) = tail
    BY <1>1, <1>4 DEF Spelt
  <2>2. AppendChar(l, f[k]) = Append(l, f[k])
    BY <1>4 DEF AppendChar
  <2>3. CASE w = << >> \/ f[k - 1] \in Alnum
    <3>1. tail = <<f[k]>> /\ l = w
      BY <1>1, <2>3
    <3>2. w \o tail = Append(w, f[k])
      BY <1>1, <1>4, <3>1, AppendIsConcat DEF Slugs
    <3>3. /\ Append(w, f[k]) \in Slugs /\ Len(Append(w, f[k])) = Len(w) + 1
          /\ Append(w, f[k])[Len(w) + 1] = f[k]
      BY <1>1, <1>4, AppendProperties DEF Slugs
    <3>4. Append(w, f[k]) # << >> /\ f[k] # Dash
      BY <1>1, <1>4, <3>3, DirNameAssumption
    <3> QED
      BY <1>2, <1>4, <2>1, <2>2, <3>1, <3>2, <3>3, <3>4 DEF Said
  <2>4. CASE ~(w = << >> \/ f[k - 1] \in Alnum)
    <3> DEFINE d == Append(w, Dash)
    <3>1. tail = <<Dash, f[k]>> /\ l = d
      BY <1>1, <2>4
    <3>2. d \in Slugs /\ Len(d) = Len(w) + 1
      BY <1>1, AppendProperties DEF Slugs
    <3>3. w \o tail = Append(d, f[k])
      BY <1>1, <1>4, <3>1 DEF Slugs
    <3> HIDE DEF d
    <3>4. /\ Append(d, f[k]) \in Slugs /\ Len(Append(d, f[k])) = Len(d) + 1
          /\ Append(d, f[k])[Len(d) + 1] = f[k]
      BY <1>4, <3>2, AppendProperties DEF Slugs
    <3>5. Append(d, f[k]) # << >> /\ f[k] # Dash
      <4>1. Len(Append(d, f[k])) # 0
        BY <1>1, <3>2, <3>4
      <4> QED
        BY <1>4, <4>1, DirNameAssumption
    <3> QED
      BY <1>2, <1>4, <2>1, <2>2, <3>1, <3>3, <3>4, <3>5 DEF Said
  <2> QED
    BY <2>3, <2>4
<1>5. CASE f[k] \notin Alnum
  <2>1. Spelt(f, k) = << >> /\ w \o << >> = w
    BY <1>1, <1>5 DEF Spelt, Slugs
  <2>2. w = << >> <=> \A j \in 1..k : f[j] \notin Alnum
    BY <1>1, <1>2, <1>5
  <2>3. AppendChar(l, f[k]) = IF w = << >> THEN w ELSE Append(w, Dash)
    <3>1. CASE w = << >> \/ f[k - 1] \in Alnum
      <4>1. l = w /\ (w # << >> => Last(w) # Dash)
        BY <1>1, <3>1 DEF Last
      <4> QED
        BY <1>5, <4>1 DEF AppendChar
    <3>2. CASE ~(w = << >> \/ f[k - 1] \in Alnum)
      <4>1. l = Append(w, Dash)
        BY <1>1, <3>2
      <4>2. Len(l) = Len(w) + 1 /\ l[Len(w) + 1] = Dash
        BY <1>1, <4>1, AppendProperties DEF Slugs
      <4>3. Last(l) = Dash
        BY <4>2 DEF Last
      <4> QED
        BY <1>5, <3>2, <4>1, <4>3 DEF AppendChar
    <3> QED
      BY <3>1, <3>2
  <2> QED
    BY <1>1, <1>5, <2>1, <2>2, <2>3 DEF Said
<1> QED
  BY <1>4, <1>5

\* The slug of a text is its words.
LEMMA SlugIsWords ==
    ASSUME NEW text, IsText(text) PROVE ToSlug(text) = Words(text)
<1> DEFINE f == Folded(text)
           n == Len(f)
           parts == [i \in DOMAIN f |-> Spelt(f, i)]
<1>1. PICK Chars : f \in Seq(Chars)
  BY FoldedIsText
<1>2. PICK loop : Loop(f, loop, n) /\ FoldLeft(AppendChar, << >>, f) = loop[1..n]
  BY <1>1, FoldIsLoop
<1>3. ToSlug(text) = WithoutTrailingDash(loop[1..n]) /\ Words(text) = FlattenSeq(parts)
  BY <1>2 DEF ToSlug, Words
<1> HIDE DEF f
<1>4. n \in Nat /\ DOMAIN f = 1..n
  BY <1>1
<1>5. ASSUME NEW i \in 1..n PROVE Spelt(f, i) \in Slugs
  <2>1. CASE f[i] \notin Alnum
    BY <2>1 DEF Spelt, Slugs
  <2>2. CASE f[i] \in Alnum
    <3>1. <<f[i]>> \in Slugs /\ <<Dash, f[i]>> \in Slugs
      BY <2>2 DEF Slugs
    <3> QED
      BY <2>2, <3>1 DEF Spelt
  <2> QED
    BY <2>1, <2>2
<1>6. Len(parts) = n /\ \A i \in 1..n : parts[i] = Spelt(f, i)
  <2>1. parts \in Seq(Slugs)
    BY <1>4, <1>5, IsASeq
  <2> QED
    BY <1>4, <2>1
<1> HIDE DEF parts
<1>7. loop[1..0] = << >>
  <2>1. 1..0 = {} /\ {} \in SUBSET (1..n)
    OBVIOUS
  <2> QED
    BY <1>2, <2>1 DEF Loop, SlugAfter
<1>8. Said(f, 0, << >>, << >>)
  BY DEF Said, Slugs
<1>9. \E w : Said(f, n, w, loop[1..n]) /\ w = FlattenSeq(parts)
  <2>1. CASE n = 0
    BY <1>6, <1>7, <1>8, <2>1 DEF FlattenSeq
  <2>2. CASE n # 0
    <3>1. PICK g : /\ FlattenSeq(parts) = g[n]
                   /\ \A i \in 1..n : g[i] = Piece(parts, g, i)
      BY <1>4, <1>6, <2>2, FlattenIsJoined
    <3> DEFINE T == {i \in 1..n : ~Said(f, i, g[i], loop[1..i])}
    <3>2. SUFFICES ASSUME T # {} PROVE FALSE
      BY <1>4, <2>2, <3>1
    <3>3. PICK k \in T : \A j \in T : k <= j
      <4>1. T \subseteq Nat
        OBVIOUS
      <4> HIDE DEF T
      <4> QED
        BY <3>2, <4>1, LeastNumber
    <3>4. k \in 1..n /\ k \in Nat \ {0} /\ ~Said(f, k, g[k], loop[1..k])
      BY <1>4
    <3>5. loop[1..k] = AppendChar(loop[1..(k - 1)], f[k])
      BY <1>2, <1>4, <3>4, LoopAt
    <3>6. \E w : Said(f, k - 1, w, loop[1..(k - 1)]) /\ g[k] = w \o Spelt(f, k)
      <4>1. CASE k = 1
        <5>1. g[k] = Spelt(f, k) /\ << >> \o Spelt(f, k) = Spelt(f, k)
          BY <1>5, <1>6, <3>1, <3>4, <4>1 DEF Piece, Slugs
        <5>2. Said(f, k - 1, << >>, loop[1..(k - 1)])
          <6>1. k - 1 = 0
            BY <4>1
          <6> QED
            BY <1>7, <1>8, <6>1
        <5> QED
          BY <5>1, <5>2
      <4>2. CASE k # 1
        <5>1. k - 1 \in 1..n /\ ~(k <= k - 1)
          BY <1>4, <3>4, <4>2
        <5>2. k - 1 \notin T
          <6> HIDE DEF T
          <6> QED
            BY <3>3, <5>1
        <5>3. g[k] = g[k - 1] \o Spelt(f, k)
          BY <1>6, <3>1, <3>4, <4>2 DEF Piece
        <5> QED
          BY <5>1, <5>2, <5>3
      <4> QED
        BY <4>1, <4>2
    <3> QED
      BY <3>4, <3>5, <3>6, WordSaid
  <2> QED
    BY <2>1, <2>2
<1>10. PICK w : Said(f, n, w, loop[1..n]) /\ w = FlattenSeq(parts)
  BY <1>9
<1>11. WithoutTrailingDash(loop[1..n]) = w
  <2>1. /\ w \in Slugs /\ Len(w) \in Nat /\ (w # << >> => w[Len(w)] # Dash)
        /\ loop[1..n] \in {w, Append(w, Dash)}
    BY <1>10 DEF Said, Slugs
  <2>2. CASE loop[1..n] = w
    BY <2>1, <2>2 DEF WithoutTrailingDash, Last
  <2>3. CASE loop[1..n] = Append(w, Dash)
    <3> DEFINE d == Append(w, Dash)
    <3>1. /\ d \in Slugs /\ Len(d) = Len(w) + 1 /\ d[Len(w) + 1] = Dash
          /\ SubSeq(d, 1, Len(w)) = w /\ d # << >>
      <4>1. /\ d \in Slugs /\ Len(d) = Len(w) + 1 /\ d[Len(w) + 1] = Dash
            /\ \A i \in 1..Len(w) : d[i] = w[i]
        BY <2>1, AppendProperties DEF Slugs
      <4> HIDE DEF d
      <4>2. Len(w) \in 0..Len(d) /\ Len(d) # 0
        BY <2>1, <4>1
      <4>3. /\ SubSeq(d, 1, Len(w)) \in Slugs /\ Len(SubSeq(d, 1, Len(w))) = Len(w)
            /\ \A i \in 1..Len(w) : SubSeq(d, 1, Len(w))[i] = d[i]
        BY <2>1, <4>1, <4>2, SubSeqProperties DEF Slugs
      <4>4. SubSeq(d, 1, Len(w)) = w
        BY <2>1, <4>1, <4>3, SeqEqual DEF Slugs
      <4> QED
        BY <4>1, <4>2, <4>4
    <3> HIDE DEF d
    <3>2. Len(d) - 1 = Len(w) /\ d[Len(d)] = Dash
      BY <2>1, <3>1
    <3>3. WithoutTrailingDash(d) = w
      BY <3>1, <3>2 DEF WithoutTrailingDash, Front, Last
    <3> QED
      BY <2>3, <3>3 DEF d
  <2> QED
    BY <2>1, <2>2, <2>3
<1> QED
  BY <1>3, <1>10, <1>11

\* SlugIsRight (document.go:15-30): whatever a vendor or a title is made of,
\* its slug is the words of letters and digits in it, in their order, with one
\* dash between two, and is its own slug.
THEOREM SlugsAreRight == \A text : IsText(text) => SlugIsRight(text)
  BY SlugIsMade, SlugIsItsOwn, SlugIsWords DEF SlugIsRight

\* CutIsRight (document.go:32-41): truncateSlug keeps as many whole words of
\* a slug as are shorter than the limit, and never more than the limit.
THEOREM CutsKeepWords ==
    \A text : IsText(text) =>
        \A max \in Nat \ {0} : /\ CutIsRight(ToSlug(text), max)
                               /\ Len(TruncateSlug(ToSlug(text), max)) <= max
  BY SlugIsMade, SlugIsCut

-----------------------------------------------------------------------------
(* Free names.                                                              *)

\* All that has to be known of the way numbers are written.
NumbersDiffer == \A i, j \in Nat : ToString(i) = ToString(j) => i = j

LEMMA NamesDiffer ==
    ASSUME NumbersDiffer, NEW Chars, NEW base \in Seq(Chars),
           NEW i \in Nat, NEW j \in Nat, Numbered(base, i) = Numbered(base, j)
    PROVE  i = j
<1> DEFINE All == Chars \cup {Dash} \cup {ToString(k) : k \in Nat}
           Digits(k) == <<Dash, ToString(k)>>
<1>1. base \in Seq(All) /\ Len(base) \in Nat
  BY SeqMonotonic
<1>2. ASSUME NEW k \in Nat
      PROVE  /\ Digits(k) \in Seq(All) /\ Len(Digits(k)) = 2
             /\ Digits(k)[2] = ToString(k)
  OBVIOUS
<1>3. ASSUME NEW k \in Nat
      PROVE  /\ base \o Digits(k) \in Seq(All) /\ Len(base \o Digits(k)) = Len(base) + 2
             /\ (base \o Digits(k))[Len(base) + 2] = ToString(k)
  BY <1>1, <1>2, ConcatProperties
<1>4. \A k \in Nat : Numbered(base, k) = IF k = 1 THEN base ELSE base \o Digits(k)
  BY DEF Numbered
<1> HIDE DEF All, Digits
<1>5. \A k \in Nat : k # 1 => Len(Numbered(base, k)) # Len(base)
  BY <1>1, <1>3, <1>4
<1>6. CASE i = 1 \/ j = 1
  BY <1>4, <1>5, <1>6
<1>7. CASE i # 1 /\ j # 1
  <2>1. base \o Digits(i) = base \o Digits(j)
    BY <1>4, <1>7
  <2>2. ToString(i) = ToString(j)
    BY <1>3, <2>1
  <2> QED
    BY <2>2 DEF NumbersDiffer
<1> QED
  BY <1>6, <1>7

\* UniqueDirName (document.go:52-65) finds a name, one only, and nobody has it,
\* however many names are taken.
THEOREM NamesAreFree ==
    ASSUME NumbersDiffer, NEW Chars, NEW base \in Seq(Chars),
           NEW taken, IsFiniteSet(taken)
    PROVE  \E d : d \notin taken /\ UniqueDirName(base, taken) = {d}
<1> DEFINE n == Cardinality(taken)
           Free == {i \in 1..(n + 1) : Numbered(base, i) \notin taken}
<1>1. n \in Nat
  BY FS_CardinalityType
<1> HIDE DEF n
<1>2. Free # {}
  <2> SUFFICES ASSUME Free = {} PROVE FALSE
    OBVIOUS
  <2> DEFINE I == 1..(n + 1)
             f == [i \in I |-> Numbered(base, i)]
  <2>1. IsFiniteSet(I) /\ Cardinality(I) = n + 1
    BY <1>1, FS_Interval
  <2>2. Cardinality(taken) < Cardinality(I)
    BY <1>1, <2>1 DEF n
  <2>3. f \in [I -> taken]
    OBVIOUS
  <2>4. PICK i, j \in I : i # j /\ f[i] = f[j]
    <3> HIDE DEF I, f
    <3> QED
      BY <2>1, <2>2, <2>3, FS_PigeonHole
  <2>5. i \in Nat /\ j \in Nat /\ Numbered(base, i) = Numbered(base, j)
    BY <1>1, <2>4
  <2> QED
    BY <2>4, <2>5, NamesDiffer
<1>3. PICK i \in Free : \A j \in Free : i <= j
  <2>1. Free \subseteq Nat
    BY <1>1
  <2> HIDE DEF Free
  <2> QED
    BY <1>2, <2>1, LeastNumber
<1> DEFINE First(j) == /\ Numbered(base, j) \notin taken
                       /\ \A k \in 1..(j - 1) : Numbered(base, k) \in taken
<1>4. First(i) /\ i \in 1..(n + 1)
  <2>1. i \in 1..(n + 1) /\ Numbered(base, i) \notin taken
    OBVIOUS
  <2>2. ASSUME NEW k \in 1..(i - 1) PROVE Numbered(base, k) \in taken
    <3>1. k \in 1..(n + 1) /\ ~(i <= k)
      BY <1>1, <2>1
    <3>2. k \notin Free
      <4> HIDE DEF Free
      <4> QED
        BY <1>3, <3>1
    <3> QED
      BY <3>1, <3>2
  <2> QED
    BY <2>1, <2>2
<1>5. ASSUME NEW j \in 1..(n + 1), First(j) PROVE j = i
  <2>1. i \in Nat /\ j \in Nat
    BY <1>1, <1>4
  <2>2. ~(i < j) /\ ~(j < i)
    <3>1. i < j => i \in 1..(j - 1)
      BY <1>1, <1>4, <2>1
    <3>2. j < i => j \in 1..(i - 1)
      BY <1>1, <1>5, <2>1
    <3> QED
      BY <1>4, <1>5, <3>1, <3>2
  <2> QED
    BY <2>1, <2>2
<1>6. UniqueDirName(base, taken)
        = {Numbered(base, k) : k \in {j \in 1..(n + 1) : First(j)}}
  BY DEF UniqueDirName, n
<1> HIDE DEF First
<1>7. {j \in 1..(n + 1) : First(j)} = {i}
  BY <1>4, <1>5
<1>8. UniqueDirName(base, taken) = {Numbered(base, i)}
  BY <1>6, <1>7
<1> QED
  BY <1>4, <1>8 DEF First

=============================================================================
