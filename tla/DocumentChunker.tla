--------------------------- MODULE DocumentChunker ---------------------------
(***************************************************************************)
(* backend/rag/chunker.py: the elements of a rich document are grouped     *)
(* into sections; a section, or a plain text, is packed paragraph by       *)
(* paragraph into parents; and a parent is cut by a sliding window into    *)
(* overlapping children.  Grouping looks at kinds, packing at lengths      *)
(* alone, cutting at where the text has blanks, line breaks and ends of    *)
(* sentences, so each stage takes any input of its own and forgets what    *)
(* the one before it did.                                                  *)
(***************************************************************************)
EXTENDS Integers, SequencesExt

CONSTANTS ParentMax,   \* parent_max_chars
          ChildSize,   \* child_size_chars
          Overlap,     \* overlap_chars
          Elements,    \* rich documents: sequences of elements [kind, paragraph]
          Documents,   \* plain ones: sequences of paragraphs [sentences, size]
          ParentTexts        \* parents: the class of the character at each position

Paragraphs == [sentences : Seq(Nat), size : Nat]
Kinds == {"title", "doctitle", "text", "noise", "table", "skipped"}
ElementRecords == [kind : Kinds, paragraph : Paragraphs]

ASSUME ChunkerAssumption ==
    /\ ParentMax \in Nat \ {0} /\ ChildSize \in Nat \ {0} /\ Overlap \in Nat
    /\ \A e \in Elements : e \in Seq(ElementRecords)
    /\ \A d \in Documents : d \in Seq(Paragraphs)
    /\ \A t \in ParentTexts : /\ IsFiniteSet(DOMAIN t)
                             /\ DOMAIN t = 0..Cardinality(DOMAIN t) - 1

VARIABLES phase,     \* what is done next
          elements,  \* the elements of a rich document
          at,        \* the element that is grouped next
          open,      \* the section being filled
          sections,  \* the sections that are complete
          doc,       \* the paragraphs that are packed
          para,      \* the paragraph that is packed next
          sentence,  \* the sentence of a long paragraph that is packed next
          current,   \* the parent being filled: its pieces and its length
          parents,   \* the parents that are full
          text,      \* the parent that is cut: its class at every position
          start,     \* where the next child begins
          children   \* the children cut so far, [from, to)

grouping == <<elements, at, open, sections>>
packing == <<doc, para, sentence, current, parents>>
cutting == <<text, start, children>>
chunkerVars == <<phase, grouping, packing, cutting>>

\* ---- chunk_from_elements --------------------------------------------------
\* title: the heading's place, 0 for the document itself.
Section(title, isolated, members) ==
    [title |-> title, isolated |-> isolated, members |-> members]

NoGrouping == elements = <<>> /\ at = 1 /\ open = Section(0, FALSE, <<>>) /\ sections = <<>>

Grouping(kinds) ==
    phase = "elements" /\ at <= Len(elements) /\ elements[at].kind \in kinds

Closed == IF open.members = <<>> THEN sections ELSE Append(sections, open)

Grouped ==
    /\ at' = at + 1
    /\ UNCHANGED <<phase, elements, packing, cutting>>

\* Images, headers, footers and page breaks, and whatever has no text.
SkipElement ==
    /\ Grouping({"skipped"})
    /\ UNCHANGED <<open, sections>>
    /\ Grouped

\* Wrong on purpose: the section before a heading is not kept.
HeadingDrops ==
    /\ Grouping({"title", "doctitle"})
    /\ open' = Section(at, FALSE, <<>>)
    /\ UNCHANGED sections
    /\ Grouped

\* A heading ends the section; one without elements is dropped.
Heading ==
    /\ Grouping({"title", "doctitle"})
    /\ sections' = Closed
    /\ open' = Section(at, FALSE, <<>>)
    /\ Grouped

Joins ==
    /\ open' = [open EXCEPT !.members = Append(@, at)]
    /\ UNCHANGED sections
    /\ Grouped

Prose == Grouping({"text"}) /\ Joins

\* A title that _is_noise_title rejects: code, labels, identifiers.
NoiseTitle == Grouping({"noise"}) /\ Joins

\* A table is a section of its own, in front of the one that is still open.
IsolateTable ==
    /\ Grouping({"table"})
    /\ sections' = Append(sections, Section(open.title, TRUE, <<at>>))
    /\ UNCHANGED open
    /\ Grouped

EndOfElements ==
    /\ phase = "elements" /\ at > Len(elements)
    /\ sections' = Closed
    /\ open' = Section(0, FALSE, <<>>)
    /\ phase' = "sections"
    /\ UNCHANGED <<elements, at, packing, cutting>>

\* "## title" in front of a section, unless it is the document's own title.
Header(title) ==
    IF title = 0 \/ elements[title].kind = "doctitle" THEN <<>>
    ELSE LET size == elements[title].paragraph.size + 3
         IN  <<[sentences |-> <<size>>, size |-> size]>>

\* Sections are packed one by one, any of them is looked at; a table is its own
\* parent and child.
PackSection ==
    /\ phase = "sections"
    /\ \E k \in DOMAIN sections :
         /\ ~sections[k].isolated
         /\ doc' = Header(sections[k].title)
                     \o [i \in DOMAIN sections[k].members |->
                           elements[sections[k].members[i]].paragraph]
    /\ phase' = "paragraphs"
    /\ elements' = <<>> /\ at' = 1 /\ open' = Section(0, FALSE, <<>>) /\ sections' = <<>>
    /\ UNCHANGED <<para, sentence, current, parents, cutting>>

Empty == [pieces |-> <<>>, size |-> 0]
Whole(i) == <<i, 0>>          \* a paragraph packed as it is
Part(i, j) == <<i, j>>        \* a sentence of a long paragraph

Single(piece, size) == [pieces |-> <<piece>>, size |-> size]

\* (current + separator + more).strip(): no separator in front of the first.
Joined(piece, size, separator) ==
    [ pieces |-> Append(current.pieces, piece),
      size |-> IF current = Empty THEN size ELSE current.size + separator + size ]

\* Wrong on purpose: the parent being filled is dropped.
Dropped == parents

Flushed == IF current = Empty THEN parents ELSE Append(parents, current)

\* ---- _split_by_paragraphs -------------------------------------------------
Size == doc[para].size
Packing == phase = "paragraphs" /\ para <= Len(doc)
Fits == current.size + Size + 2 <= ParentMax

JoinParagraph ==
    /\ Packing /\ Fits
    /\ current' = Joined(Whole(para), Size, 2)
    /\ para' = para + 1
    /\ UNCHANGED <<phase, grouping, doc, sentence, parents, cutting>>

NextParent ==
    /\ Packing /\ ~Fits /\ Size <= ParentMax
    /\ parents' = Flushed
    /\ current' = Single(Whole(para), Size)
    /\ para' = para + 1
    /\ UNCHANGED <<phase, grouping, doc, sentence, cutting>>

\* A paragraph longer than a parent is split by sentences.
LongParagraph ==
    /\ Packing /\ ~Fits /\ Size > ParentMax
    /\ parents' = Flushed
    /\ current' = Empty
    /\ sentence' = 1
    /\ phase' = "sentences"
    /\ UNCHANGED <<grouping, doc, para, cutting>>

JoinSentence ==
    LET size == doc[para].sentences[sentence]
    IN  /\ phase = "sentences" /\ sentence <= Len(doc[para].sentences)
        /\ IF current.size + size + 1 <= ParentMax
           THEN current' = Joined(Part(para, sentence), size, 1) /\ UNCHANGED parents
           ELSE current' = Single(Part(para, sentence), size) /\ parents' = Flushed
        /\ sentence' = sentence + 1
        /\ UNCHANGED <<phase, grouping, doc, para, cutting>>

EndOfParagraph ==
    /\ phase = "sentences" /\ sentence > Len(doc[para].sentences)
    /\ para' = para + 1
    /\ phase' = "paragraphs"
    /\ UNCHANGED <<grouping, doc, sentence, current, parents, cutting>>

\* The last parent.
EndOfDocument ==
    /\ phase = "paragraphs" /\ para > Len(doc)
    /\ parents' = Flushed
    /\ current' = Empty
    /\ phase' = "parents"
    /\ UNCHANGED <<grouping, doc, para, sentence, cutting>>

NoPacking ==
    doc = <<>> /\ para = 1 /\ sentence = 1 /\ current = Empty /\ parents = <<>>

\* The parents are cut one by one, any of them and of any text.
CutParent ==
    /\ phase = "parents" /\ parents # <<>>
    /\ text' \in ParentTexts
    /\ phase' = "children"
    /\ doc' = <<>> /\ para' = 1 /\ sentence' = 1 /\ current' = Empty /\ parents' = <<>>
    /\ UNCHANGED <<grouping, start, children>>

\* ---- _find_break_point ----------------------------------------------------
\* The ends of a sentence, in the order the code looks for them.
SentenceEnds ==
    << <<".", " ">>, <<"!", " ">>, <<"?", " ">>, <<".", "\n">>, <<"!", "\n">>, <<"?", "\n">> >>

\* text.rfind(pair, from, to): where a pair lies within [from, to).
Pairs(pair, from, to) ==
    { p \in from..to - 2 : p \in DOMAIN text /\ p + 1 \in DOMAIN text
                           /\ text[p] = pair[1] /\ text[p + 1] = pair[2] }

Spaces(from, to) == { p \in from..to - 1 : p \in DOMAIN text /\ text[p] = " " }

\* Both windows are a share of the position in the text, not of the child.
FindBreakPoint(ideal) ==
    LET from == (ideal * 8) \div 10
        ends == { i \in DOMAIN SentenceEnds : Pairs(SentenceEnds[i], from, ideal) # {} }
        breaks == Pairs(<<"\n", "\n">>, from, ideal)
        spaces == Spaces((ideal * 9) \div 10, ideal)
    IN  IF ends # {} THEN Max(Pairs(SentenceEnds[Min(ends)], from, ideal)) + 2
        ELSE IF breaks # {} THEN Max(breaks) + 2
        ELSE IF spaces # {} THEN Max(spaces) + 1
        ELSE ideal

\* ---- _split_child_chunks --------------------------------------------------
Blanks == {" ", "\n"}
Length == Cardinality(DOMAIN text)
Cut(from, to) == [from |-> from, to |-> to]

\* A child of blanks alone is no child.
WithChild(from, to) ==
    IF \E p \in from..to - 1 : p \in DOMAIN text /\ text[p] \notin Blanks
    THEN Append(children, Cut(from, to)) ELSE children

ChildEnd(ideal) == IF FindBreakPoint(ideal) <= start THEN ideal ELSE FindBreakPoint(ideal)

\* Wrong on purpose: one character too far.
NextStartSkipping(end) == end + 1

\* The next child begins at the first word in the overlap, if there is one.
NextStart(end) ==
    LET words == Spaces(Max({start + 1, end - Overlap}), Length)
    IN  IF words # {} /\ Min(words) < end THEN Min(words) + 1 ELSE end

CutChild ==
    LET ideal == start + ChildSize
        end == ChildEnd(ideal)
    IN  /\ phase = "children" /\ start < Length /\ ideal < Length
        /\ children' = WithChild(start, end)
        /\ start' = NextStart(end)
        /\ UNCHANGED <<phase, grouping, packing, text>>

\* Wrong on purpose: a child that fits exactly is forgotten.
LastChildTooShort ==
    /\ phase = "children" /\ start < Length /\ start + ChildSize > Length
    /\ children' = WithChild(start, Length)
    /\ start' = Length
    /\ UNCHANGED <<phase, grouping, packing, text>>

LastChild ==
    /\ phase = "children" /\ start < Length /\ start + ChildSize >= Length
    /\ children' = WithChild(start, Length)
    /\ start' = Length
    /\ UNCHANGED <<phase, grouping, packing, text>>

\* The children of a document are complete.
EndOfChildren ==
    /\ phase = "children" /\ start >= Length
    /\ phase' = "chunks"
    /\ text' = <<>> /\ start' = 0 /\ children' = <<>>
    /\ UNCHANGED <<grouping, packing>>

NoCutting == text = <<>> /\ start = 0 /\ children = <<>>

GroupElements ==
    \/ SkipElement \/ Heading \/ NoiseTitle \/ Prose \/ IsolateTable
    \/ EndOfElements \/ PackSection

SplitByParagraphs ==
    \/ JoinParagraph \/ NextParent \/ LongParagraph \/ JoinSentence
    \/ EndOfParagraph \/ EndOfDocument

SplitChildChunks == CutParent \/ CutChild \/ LastChild \/ EndOfChildren

-----------------------------------------------------------------------------
(***************************************************************************)
(* Properties                                                              *)
(***************************************************************************)
Headings(i) == {h \in 1..i - 1 : elements[h].kind \in {"title", "doctitle"}}
Textual == {i \in 1..at - 1 : elements[i].kind \in {"text", "noise", "table"}}

\* The sections hold every element with text exactly once, each under the last
\* heading before it, and a table alone, wherever headings, tables, labels that
\* look like headings and elements without text lie (chunk_from_elements: "A
\* chunk never mixes content from two different sections", "Tables are always
\* isolated").
SectionsHoldElements ==
    LET all == Append(sections, open)
    IN  phase \in {"elements", "sections"} =>
        /\ Textual = UNION {Range(s.members) : s \in Range(all)}
        /\ \A k, l \in DOMAIN all :
             k # l => Range(all[k].members) \cap Range(all[l].members) = {}
        /\ \A s \in Range(all) :
             /\ IsInjective(s.members)
             /\ s.isolated => Len(s.members) = 1
             /\ \A i \in Range(s.members) :
                  /\ s.title = Max(Headings(i) \cup {0})
                  /\ (elements[i].kind = "table") = s.isolated

PiecesOf(i) ==
    IF doc[i].size > ParentMax THEN {Part(i, j) : j \in DOMAIN doc[i].sentences}
                               ELSE {Whole(i)}

Packed ==
    (UNION {PiecesOf(i) : i \in 1..para - 1})
        \cup (IF phase = "sentences" THEN {Part(para, j) : j \in 1..sentence - 1} ELSE {})

Precedes(p, q) == p[1] < q[1] \/ (p[1] = q[1] /\ p[2] < q[2])

\* Whatever the lengths of paragraphs and sentences, the parents hold all of
\* the document so far, once and in its order, and a parent is longer than
\* parent_max_chars only if it is one sentence that is (_split_by_paragraphs:
\* "Never splits mid-paragraph", "sentence boundaries for long paragraphs").
ParentsHoldDocument ==
    LET all == Append(parents, current)
    IN  /\ Packed = UNION {Range(p.pieces) : p \in Range(all)}
        /\ \A k, l \in DOMAIN all :
             k < l => \A p \in Range(all[k].pieces), q \in Range(all[l].pieces) : Precedes(p, q)
        /\ \A p \in Range(all) :
             /\ \A i, j \in DOMAIN p.pieces : i < j => Precedes(p.pieces[i], p.pieces[j])
             /\ p.size > ParentMax => Len(p.pieces) = 1 /\ p.pieces[1][2] # 0

\* The window skips nothing: what lies before it is in a child, unless it is
\* blank, no child is longer than child_size_chars, and two neighbours share
\* at most overlap_chars (_split_child_chunks).
Between(i, c) == c.from <= i /\ i < c.to

ChildrenCoverText ==
    /\ \A i \in 0..start - 1 :
         text[i] \in Blanks \/ \E k \in DOMAIN children : Between(i, children[k])
    /\ \A k \in DOMAIN children :
         /\ children[k].from < children[k].to
         /\ children[k].to - children[k].from <= ChildSize
         /\ k > 1 => children[k - 1].to - children[k].from <= Overlap
=============================================================================
