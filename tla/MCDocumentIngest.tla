-------------------------- MODULE MCDocumentIngest --------------------------
\* The documents and the alphabet of the model-checked pipeline.
EXTENDS DocumentIngest

\* A paragraph of sentences with one blank between two of them.
Paragraph(sentences) ==
    [ sentences |-> sentences, size |-> FoldSeq(+, Len(sentences) - 1, sentences) ]

MCParagraphs ==
    { Paragraph(s) : s \in { <<3>>, <<7>>, <<9>>, <<2, 4>>, <<5, 6>>, <<11, 2>>, <<3, 3, 3>> } }

MCDocuments == UNION { [1..n -> MCParagraphs] : n \in 1..2 }

\* Every sequence of up to four elements, prose short or longer than a parent.
MCKinds ==
    [kind : {"title", "doctitle", "noise", "table", "skipped"}, paragraph : {Paragraph(<<3>>)}]
        \cup [kind : {"text"}, paragraph : {Paragraph(<<2, 4>>), Paragraph(<<5, 6>>)}]

MCElements == UNION { [1..n -> MCKinds] : n \in 1..4 }

\* Every text up to seven positions that strip() leaves alone, and sentences of
\* three to nine characters, one after the other.
MCClasses == {"a", " ", ".", "\n"}
MCShortTexts ==
    { t \in UNION { [0..n - 1 -> MCClasses] : n \in 1..7 } :
        t[0] \notin Blanks /\ t[Cardinality(DOMAIN t) - 1] \notin Blanks }
MCLongTexts ==
    { [i \in 0..39 |-> CASE i % n = n - 2 /\ i < 39 -> "." [] i % n = n - 1 /\ i < 39 -> " "
                         [] OTHER -> "a"] :
        n \in 3..9 }
MCTexts == MCShortTexts \cup MCLongTexts
=============================================================================
