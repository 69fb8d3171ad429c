------------------------------- MODULE DirName -------------------------------
(***************************************************************************)
(* How a library directory gets its name: toSlug, truncateSlug,            *)
(* FormatDirName and UniqueDirName of internal/document/document.go.       *)
(*                                                                         *)
(* A text is a sequence of characters.  A slug keeps letters and digits    *)
(* (Alnum), spells out the folded characters (umlauts, and capitals) and   *)
(* puts one dash where anything else was.                                  *)
(***************************************************************************)
EXTENDS Naturals, Sequences, FiniteSets, SequencesExt, FiniteSetsExt, Functions

CONSTANTS
    Alnum,      \* a-z and 0-9
    Fold,       \* umlautMap and ToLower: [other characters -> Seq(Alnum)]
    VendorMax, DescriptionMax   \* longest slugs in a name: 30 and 40

Dash == "-"

ASSUME DirNameAssumption ==
    /\ Dash \notin Alnum
    /\ DOMAIN Fold \cap (Alnum \cup {Dash}) = {}
    /\ \A c \in DOMAIN Fold : Fold[c] \in Seq(Alnum) /\ Fold[c] # << >>
    /\ VendorMax \in Nat \ {0} /\ DescriptionMax \in Nat \ {0}

IsText(s) == s \in Seq(Range(s))

Folded(text) == FlattenSeq([i \in DOMAIN text |->
    IF text[i] \in DOMAIN Fold THEN Fold[text[i]] ELSE <<text[i]>>])

\* One more character of the folded text.
AppendChar(slug, c) ==
    IF c \in Alnum THEN Append(slug, c)
    ELSE IF slug = << >> \/ Last(slug) = Dash THEN slug
    ELSE Append(slug, Dash)

WithoutTrailingDash(slug) ==
    IF slug # << >> /\ Last(slug) = Dash THEN Front(slug) ELSE slug

ToSlug(text) == WithoutTrailingDash(FoldLeft(AppendChar, << >>, Folded(text)))

\* A slug that is too long is cut, and the word that the cut ends in is
\* dropped unless it is the only one.
TruncateSlug(slug, max) ==
    LET cut    == SubSeq(slug, 1, max)
        dashes == {i \in 2..max : cut[i] = Dash}
    IN  IF Len(slug) <= max THEN slug
        ELSE IF dashes = {} THEN cut
        ELSE SubSeq(cut, 1, Max(dashes) - 1)

\* Mutant: the limits forgotten.
UncutDirName(date, vendor, description) ==
    date \o <<"_">> \o ToSlug(vendor) \o <<"_">> \o ToSlug(description)

FormatDirName(date, vendor, description) ==
    date \o <<"_">> \o TruncateSlug(ToSlug(vendor), VendorMax)
         \o <<"_">> \o TruncateSlug(ToSlug(description), DescriptionMax)

\* base, base-2, base-3, ...  A number counts as one character.
Numbered(base, i) == IF i = 1 THEN base ELSE base \o <<Dash, ToString(i)>>

\* The first of them that is free, as a set of one.
UniqueDirName(base, taken) ==
    {Numbered(base, i) : i \in {j \in 1..Cardinality(taken) + 1 :
        /\ Numbered(base, j) \notin taken
        /\ \A k \in 1..(j - 1) : Numbered(base, k) \in taken}}

-----------------------------------------------------------------------------
(* What the algorithm promises, said without its loops.                    *)

\* A slug is made of words of letters and digits, one dash between two.
IsSlug(s) ==
    \A i \in DOMAIN s :
        \/ s[i] \in Alnum
        \/ s[i] = Dash /\ i \notin {1, Len(s)} /\ s[i + 1] # Dash

\* A letter or digit of the text comes with a dash if there was one before it
\* and something else between them; what is neither leaves nothing.
Spelt(f, i) ==
    IF f[i] \notin Alnum THEN << >>
    ELSE IF (\E j \in 1..(i - 1) : f[j] \in Alnum) /\ f[i - 1] \notin Alnum
    THEN <<Dash, f[i]>> ELSE <<f[i]>>

Words(text) == LET f == Folded(text) IN FlattenSeq([i \in DOMAIN f |-> Spelt(f, i)])

\* The slugs a slug may be cut to: its whole words.
WordPrefixes(slug) ==
    {SubSeq(slug, 1, i - 1) : i \in {j \in DOMAIN slug : slug[j] = Dash}}

SlugIsRight(text) ==
    /\ IsSlug(ToSlug(text))
    /\ ToSlug(text) = Words(text)
    /\ ToSlug(ToSlug(text)) = ToSlug(text)

\* A long slug is cut to the most whole words that are shorter than max, and
\* in the middle of its first word only if that is too long by itself.
CutIsRight(slug, max) ==
    LET short == {p \in WordPrefixes(slug) : Len(p) < max}
        cut   == TruncateSlug(slug, max)
    IN  /\ Len(slug) <= max => cut = slug
        /\ Len(slug) > max =>
            IF short = {} THEN cut = SubSeq(slug, 1, max)
            ELSE cut \in short /\ \A p \in short : Len(p) <= Len(cut)
        /\ IsSlug(cut)
=============================================================================
