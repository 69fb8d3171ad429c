---------------------------- MODULE MCLocalIngest ----------------------------
(* Model values for LocalIngest, and the slugs of all short texts.           *)
EXTENDS LocalIngest

Symmetry == Permutations(Contents)

\* Letters and digits, and the characters that are folded into them.
MCAlnum == {"a", "b", "e", "u", "2", "3"}
MCFold  == [c \in {"A", "umlaut"} |-> IF c = "A" THEN <<"a">> ELSE <<"u", "e">>]
MCDate  == <<"d">>

Title(v, d) == [vendor |-> v, description |-> d]

\* Both documents may be called d_a_b, the first one's description being too
\* long; or the second d_a_b-2 by itself.
MCTitles == {Title(<<"A">>, <<"b", " ", "a", "A">>),
             Title(<<"a", "-">>, <<"b", " ", "2">>)}

MCStem == [n \in Names |-> <<"b">>]

Texts == UNION {[1..n -> {"a", "2", "A", "umlaut", " ", "-"}] : n \in 0..4}

\* The loops of toSlug and truncateSlug do what DirName says of them.
ASSUME SlugsAreRight == \A t \in Texts : SlugIsRight(t)
ASSUME CutsAreRight ==
    \A t \in Texts : \A max \in 1..6 : CutIsRight(ToSlug(t), max)

\* Whatever names are taken, one more is found, and it is free.
ASSUME NamesAreFree ==
    \A taken \in SUBSET {Numbered(<<"b">>, i) : i \in 1..5} :
        LET free == UniqueDirName(<<"b">>, taken)
        IN  Cardinality(free) = 1 /\ free \cap taken = {}
=============================================================================
