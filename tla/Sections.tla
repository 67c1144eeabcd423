------------------------------ MODULE Sections ------------------------------
(***************************************************************************)
(* Links to a section of a note: the headings that are offered while a     *)
(* link is typed (wiki.go), the anchor they leave in the link, the section *)
(* that an embed or a preview cuts out for it (markdown/subpath.go), and   *)
(* the place on the page where a click lands (wikilink.go, render.go).     *)
(* Text is syllables with spaces and colons between them, or nothing       *)
(* within a word: a colon is a mark that an anchor must not contain and    *)
(* that both comparisons of headings ignore.  Some syllables are written   *)
(* in a link, or in another element that the page's tree does not keep as  *)
(* text: a tag, a highlight, a formula.                                    *)
(***************************************************************************)
EXTENDS Integers, Sequences, FiniteSets

CONSTANTS
    HeadingTexts,   \* what a heading may say
    Levels,
    MaxHeadings,
    MaxParts        \* parts of a link's anchor

\* Spaces and colons are counted up to each syllable.
Text(t) ==
    /\ DOMAIN t = {"syllables", "spaces", "colons", "links"}
    /\ t.syllables \in Seq(STRING) \ {<< >>}
    /\ t.spaces \in [DOMAIN t.syllables -> Nat] /\ t.colons \in [DOMAIN t.syllables -> Nat]
    /\ \A k \in 2 .. Len(t.syllables) : t.spaces[k - 1] <= t.spaces[k] /\ t.colons[k - 1] <= t.colons[k]
    /\ t.links \subseteq DOMAIN t.syllables

ASSUME SectionsAssumption ==
    /\ \A t \in HeadingTexts : Text(t)
    /\ Levels \subseteq 1 .. 6
    /\ MaxHeadings \in Nat
    /\ MaxParts \in Nat

VARIABLES
    outline,   \* the headings of a note, in order
    named,     \* the ones chosen for the link
    anchor,    \* the link's text after #, its parts
    lookedAt,  \* headings that Section has looked at
    matched    \* those of them that fit the parts so far

sectionsVars == <<outline, named, anchor, lookedAt, matched>>

Heading == [level : Levels, text : HeadingTexts]

SectionsTypeOK ==
    /\ outline \in Seq(Heading) /\ Len(outline) <= MaxHeadings
    /\ named \in Seq(DOMAIN outline) /\ Len(named) <= MaxParts
    /\ DOMAIN anchor = DOMAIN named
    /\ lookedAt \in 0 .. Len(outline)
    /\ matched \in Seq(1 .. lookedAt) /\ Len(matched) <= Len(named)

SectionsInit ==
    /\ \E n \in 0 .. MaxHeadings : outline \in [1 .. n -> Heading]
    /\ named = << >>
    /\ anchor = << >>
    /\ lookedAt = 0
    /\ matched = << >>

----------------------------------------------------------------------------
(* Text *)

\* The syllables that begin another word.
Breaks(t) ==
    {k \in 2 .. Len(t.syllables) : t.spaces[k] + t.colons[k] > t.spaces[k - 1] + t.colons[k - 1]}

\* normalizeHeading: the words.
NormalizeHeading(t) == [syllables |-> t.syllables, breaks |-> Breaks(t)]

\* HeadingSubpath: marks become spaces, and runs of spaces one.
HeadingSubpath(t) ==
    [t EXCEPT !.spaces = [k \in DOMAIN t.syllables |-> Cardinality({j \in Breaks(t) : j <= k})],
              !.colons = [k \in DOMAIN t.syllables |-> 0],
              !.links = {}]

\* headingAnchor: marks are dropped, and every space within is a hyphen.
HeadingAnchor(t) ==
    [syllables |-> t.syllables, hyphens |-> [k \in DOMAIN t.syllables |-> t.spaces[k] - t.spaces[1]]]

\* collectText: what the tree of the page keeps as text.
CollectText(t) ==
    LET kept == DOMAIN t.syllables \ t.links
        place == [i \in 1 .. Cardinality(kept) |->
                     CHOOSE k \in kept : Cardinality({j \in kept : j <= k}) = i]
    IN [syllables |-> [i \in DOMAIN place |-> t.syllables[place[i]]],
        spaces |-> [i \in DOMAIN place |-> t.spaces[place[i]]],
        colons |-> [i \in DOMAIN place |-> t.colons[place[i]]],
        links |-> {}]

\* headingIDTransformer
Id(t) == IF DOMAIN t.syllables = t.links
         THEN [syllables |-> <<"heading">>, hyphens |-> <<0>>]
         ELSE HeadingAnchor(CollectText(t))

----------------------------------------------------------------------------
(* The link and its section *)

\* suggestHeadings: the heading chosen completes the last part of the anchor;
\* the parts before it are kept.
ChooseHeading(i) ==
    /\ i \in DOMAIN outline
    /\ lookedAt = 0
    /\ Len(named) < MaxParts
    /\ named' = Append(named, i)
    /\ anchor' = Append(anchor, HeadingSubpath(outline[i].text))
    /\ UNCHANGED <<outline, lookedAt, matched>>

\* Mutant of Fits: each part must be one level below the one before.
FitsNextLevel(h, level, part) == h.level = level + 1 /\ NormalizeHeading(h.text) = NormalizeHeading(part)

Fits(h, level, part) == h.level > level /\ NormalizeHeading(h.text) = NormalizeHeading(part)

LevelMatched == IF matched = << >> THEN 0 ELSE outline[matched[Len(matched)]].level

\* One round of Section's loop: the way down is matched from the top, each part
\* by the first heading that fits below the one before.
MatchHeading ==
    /\ Len(matched) < Len(anchor)
    /\ lookedAt < Len(outline)
    /\ lookedAt' = lookedAt + 1
    /\ matched' = IF Fits(outline[lookedAt'], LevelMatched, anchor[Len(matched) + 1])
                THEN Append(matched, lookedAt') ELSE matched
    /\ UNCHANGED <<outline, named, anchor>>

\* It ends before the next heading that is no deeper.
SectionEnd(i) ==
    LET Ends == {j \in DOMAIN outline : j > i /\ outline[j].level <= outline[i].level}
    IN IF Ends = {} THEN Len(outline) + 1 ELSE CHOOSE j \in Ends : \A k \in Ends : j <= k

\* fragment: the headings a click may land on.
Landing(part) == {i \in DOMAIN outline : Id(outline[i].text) = HeadingAnchor(part)}

SectionsNext ==
    \/ \E i \in 1 .. MaxHeadings : ChooseHeading(i)
    \/ MatchHeading

SectionsSpec == SectionsInit /\ [][SectionsNext]_sectionsVars

----------------------------------------------------------------------------
(* What must hold *)

SameName(i, j) == NormalizeHeading(outline[i].text) = NormalizeHeading(outline[j].text)

\* The headings of a link lead down, and no other heading has the name of one.
WayDown ==
    /\ \A j, k \in DOMAIN named : j < k =>
           named[j] < named[k] /\ outline[named[j]].level < outline[named[k]].level
    /\ \A j \in DOMAIN outline, k \in DOMAIN named : SameName(named[k], j) => j = named[k]

\* No links, and neither "A:B", where a colon alone parts two words, nor "A : B",
\* where more than one space does.
PlainHeading(t) ==
    /\ t.links = {}
    /\ \A k \in Breaks(t) : t.spaces[k] = t.spaces[k - 1] + 1

Under(i, j) == i < j /\ \A k \in i + 1 .. j : outline[i].level < outline[k].level

\* subpath.go:64, "It still matches its heading": the section of an offered heading
\* is found, the first of that name, with everything below it and nothing else;
\* the way down to a heading finds that heading.  A click on the link of a plain
\* heading lands on a heading of its name (render.go:638-640).  With a link in the
\* heading, or other spaces, the id leaves out, joins or parts words that the link
\* does not, and so it may land elsewhere or nowhere.
OfferedHeadingIsFound ==
    named # << >> =>
        LET last == matched[Len(matched)]
            chosen == named[Len(named)]
            landing == Landing(anchor[Len(anchor)])
        IN /\ Len(matched) = Len(anchor) \/ lookedAt = Len(outline) =>
                  /\ WayDown => matched = named
                  /\ Len(named) = 1 => /\ Len(matched) = 1
                                       /\ SameName(last, chosen)
                                       /\ \A j \in 1 .. last - 1 : ~SameName(j, chosen)
                  /\ matched # << >> =>
                         \A j \in last + 1 .. Len(outline) : j < SectionEnd(last) <=> Under(last, j)
           /\ PlainHeading(outline[chosen].text) =>
                  /\ chosen \in landing
                  /\ \A j \in landing : SameName(j, chosen) \/ ~PlainHeading(outline[j].text)
=============================================================================
