-------------------------------- MODULE Feed --------------------------------
(***************************************************************************)
(* The recommended feed (feed.go): readers scroll it page by page while    *)
(* notes are published, imported, hidden and shown again.  What publishes  *)
(* takes the author's advisory lock first, so that it is one step here     *)
(* unless it holds the lock for long, like a vault import (VaultImport).   *)
(*                                                                         *)
(* A page is two queries; the second fills in text, and drops rows deleted *)
(* since, which nothing does to a note that is listed.                     *)
(***************************************************************************)
EXTENDS FeedRank

CONSTANTS
    Tagged,    \* the notes with the tag a reader may filter by
    PageSize,
    Readers,
    Filters,   \* FALSE for the whole feed, TRUE for the tag
    MaxHides   \* bound: how often notes are hidden, moderated or shown again

VARIABLES
    now,
    notes,     \* Null for an id that is no published, or once published, note
    locked,    \* authors whose advisory lock a transaction holds
    scroll,    \* per reader the scroll in progress, or Null
    hides      \* how often notes were hidden so far

feedVars == <<now, notes, locked, scroll, hides>>

Item == [rank : Ranks, id : Notes \cup Batches]

Scroll ==
    [tag : BOOLEAN,                     \* ?tag=
     cursor : Item \cup {Null},         \* older, older_id
     more : BOOLEAN,                    \* the last page had a link to an older one
     \* History: cards listed ever since it began, by whether it showed them.
     unseen : SUBSET (Notes \cup Batches),
     seen : SUBSET (Notes \cup Batches),
     again : SUBSET (Notes \cup Batches)]

ASSUME NullIsApart == Null \notin Row \cup Item \cup Scroll \cup Ranks \cup Times \cup Batches

ASSUME PageAssumption == PageSize \in Nat \ {0} /\ MaxHides \in Nat /\ Filters \subseteq BOOLEAN

FeedTypeOK ==
    /\ now \in Times
    /\ notes \in [Notes -> Row \cup {Null}]
    /\ locked \subseteq Users
    /\ scroll \in [Readers -> Scroll \cup {Null}]
    /\ hides \in 0..MaxHides

FeedInit ==
    /\ now = 0
    /\ notes = [n \in Notes |-> Null]
    /\ locked = {}
    /\ scroll = [r \in Readers |-> Null]
    /\ hides = 0

----------------------------------------------------------------------------
(* What the feed lists *)

Exists(table, n) == table[n] # Null

\* recommendableNote
Recommendable(table, n) == Exists(table, n) /\ table[n].published # Null /\ table[n].shown

HasTag(n, tag) == tag => n \in Tagged

NoteItem(table, n) == [rank |-> table[n].rank, id |-> n]
Card(table, n) == [rank |-> table[n].rank, id |-> table[n].batch]

\* Cards of large imports, and notes that are in none.
Items(table, tag) ==
    LET R == {n \in Notes : Recommendable(table, n) /\ HasTag(n, tag) /\ table[n].rank # Null}
    IN {NoteItem(table, n) : n \in {k \in R : ~IsLarge(table, k)}}
       \cup {Card(table, n) : n \in {k \in R : IsLarge(table, k)}}

\* (x.rank, x.id) < (y.rank, y.id)
Below(x, y) == x.rank < y.rank \/ (x.rank = y.rank /\ x.id < y.id)

\* Mutant of Past: the cursor is a rank alone.
PastByRank(cursor, x) == cursor = Null \/ x.rank < cursor.rank

Past(cursor, x) == cursor = Null \/ Below(x, cursor)

\* ORDER BY rank DESC, id DESC LIMIT PageSize
Top(S) == {x \in S : Cardinality({y \in S : Below(x, y)}) < PageSize}

----------------------------------------------------------------------------
(* recommendedSQL *)

NoteArm(table, tag, cursor) ==
    Top({x \in {NoteItem(table, n) : n \in {k \in Notes : /\ Recommendable(table, k)
                                                          /\ HasTag(k, tag)
                                                          /\ table[k].batch = Null
                                                          /\ table[k].rank # Null}} :
            Past(cursor, x)})

\* Mutant of MayMeet: an import of the cursor's own rank is behind it.
MayMeetBelow(arm, cursor, rank) ==
    /\ cursor # Null => rank < cursor.rank
    /\ Cardinality(arm) = PageSize => \E x \in arm : rank >= x.rank

\* The ranks at which the batch arm looks for imports.
MayMeet(arm, cursor, rank) ==
    /\ cursor # Null => rank <= cursor.rank
    /\ Cardinality(arm) = PageSize => \E x \in arm : rank >= x.rank

\* What the imports met expand to, as far as the first PageSize by rank, WITH TIES.
BatchArm(table, tag, cursor) ==
    LET arm == NoteArm(table, tag, cursor)
        met == {n \in Notes : /\ Exists(table, n) /\ table[n].batch # Null /\ table[n].rank # Null
                              /\ MayMeet(arm, cursor, table[n].rank)}
        listed(n) == Recommendable(table, n) /\ HasTag(n, tag)
        cards == {Card(table, n) : n \in {k \in met : /\ IsLarge(table, k)
                                                      /\ \E m \in Mates(table, k) : listed(m)}}
        single == {NoteItem(table, n) : n \in {k \in met : ~IsLarge(table, k) /\ listed(k)}}
        expanded == {x \in cards \cup single : Past(cursor, x)}
    IN {x \in expanded : Cardinality({y \in expanded : y.rank > x.rank}) < PageSize}

Page(table, tag, cursor) == Top(NoteArm(table, tag, cursor) \cup BatchArm(table, tag, cursor))

----------------------------------------------------------------------------
(* Scrolling *)

Ids(S) == {x.id : x \in S}

\* Cards that left the list meanwhile are no longer listed all along.
Watched(table) ==
    [r \in Readers |->
        LET s == scroll[r] IN
        IF s = Null THEN Null
        ELSE LET still == Ids(Items(table, s.tag))
             IN [s EXCEPT !.unseen = @ \cap still, !.seen = @ \cap still, !.again = @ \cap still]]

LastOf(page) == CHOOSE x \in page : \A y \in page : ~Below(y, x)

\* GetFeed: a page with anything on it links to the next one.
After(s, page) ==
    [s EXCEPT !.cursor = IF page = {} THEN @ ELSE LastOf(page),
              !.more = page # {},
              !.unseen = @ \ Ids(page),
              !.seen = @ \cup (s.unseen \cap Ids(page)),
              !.again = @ \cup (s.seen \cap Ids(page))]

GetFeed(r, tag) ==
    /\ scroll[r] = Null
    /\ scroll' = [scroll EXCEPT ![r] =
                     After([tag |-> tag, cursor |-> Null, more |-> TRUE,
                            unseen |-> Ids(Items(notes, tag)), seen |-> {}, again |-> {}],
                           Page(notes, tag, Null))]
    /\ UNCHANGED <<now, notes, locked, hides>>

GetOlder(r) ==
    /\ scroll[r] # Null
    /\ scroll[r].more
    /\ scroll' = [scroll EXCEPT ![r] = After(@, Page(notes, @.tag, @.cursor))]
    /\ UNCHANGED <<now, notes, locked, hides>>

----------------------------------------------------------------------------
(* Publishing *)

Tick ==
    /\ now < MaxTime
    /\ now' = now + 1
    /\ UNCHANGED <<notes, locked, scroll, hides>>

Store(table) ==
    /\ notes' = table
    /\ scroll' = Watched(table)

NewRow(batch, at) ==
    [batch |-> batch, published |-> at, shown |-> TRUE, first |-> Null, rank |-> Null]

IsPublic(n) == notes[n] # Null /\ notes[n].published # Null

\* PublishNote, PublishSpace for a child (S one note), PostManageNotes: notes that
\* are drafts, hidden or public already, at least one of them not public.
Publish(a, S) ==
    /\ a \notin locked
    /\ \A n \in S : Author[n] = a
    /\ \E n \in S : ~IsPublic(n)
    /\ Store(Assign([n \in Notes |->
                        IF n \notin S THEN notes[n]
                        ELSE IF notes[n] = Null THEN NewRow(Null, now)
                        ELSE IF notes[n].published = Null THEN [notes[n] EXCEPT !.published = now]
                        ELSE notes[n]], S))
    /\ UNCHANGED <<now, locked, hides>>

\* saveImportedNote: a file of a batch that the batch editor saves one by one.
SaveImportedNote(n, b) ==
    /\ Author[n] \notin locked
    /\ notes[n] = Null
    /\ \A m \in Notes : notes[m] # Null /\ notes[m].batch = b => Author[m] = Author[n]
    /\ Store(Assign([notes EXCEPT ![n] = NewRow(b, now)], {n}))
    /\ UNCHANGED <<now, locked, hides>>

\* PostManageNotes, without the lock: the note is a draft again, with its rank.
Hide(n) ==
    /\ hides < MaxHides
    /\ hides' = hides + 1
    /\ IsPublic(n)
    /\ Store([notes EXCEPT ![n].published = Null])
    /\ UNCHANGED <<now, locked>>

\* setHidden, deletion, and a change of reach through the space, without the lock.
Moderate(n) ==
    /\ hides < MaxHides
    /\ hides' = hides + 1
    /\ notes[n] # Null
    /\ Store([notes EXCEPT ![n].shown = ~@])
    /\ UNCHANGED <<now, locked>>

\* A server of the version before ranks, still running during a deploy, publishes.
PublishUnranked(n) ==
    /\ notes[n] = Null
    /\ Store([notes EXCEPT ![n] = NewRow(Null, now)])
    /\ UNCHANGED <<now, locked, hides>>

\* AssignUnranked, when this version starts.
AssignUnranked ==
    LET S == {n \in Notes : notes[n] # Null /\ notes[n].rank = Null /\ notes[n].published # Null}
    IN
    /\ S # {}
    /\ \A n \in S : Author[n] \notin locked
    /\ Store(Assign(notes, S))
    /\ UNCHANGED <<now, locked, hides>>

FeedNext(EditorBatches) ==
    \/ \E r \in Readers, tag \in Filters : GetFeed(r, tag)
    \/ \E r \in Readers : GetOlder(r)
    \/ Tick
    \/ \E a \in Users, S \in SUBSET Notes : Publish(a, S)
    \/ \E n \in Notes, b \in EditorBatches : SaveImportedNote(n, b)
    \/ \E n \in Notes : Hide(n) \/ Moderate(n) \/ PublishUnranked(n)
    \/ AssignUnranked

----------------------------------------------------------------------------
(* What must hold *)

\* All ranked notes of one import share a rank, however they were published; the
\* feed's key (rank, batch) of a card stands on it (feed.go:319).
BatchSharesRank ==
    \A n \in Notes : notes[n] # Null /\ notes[n].rank # Null =>
        \A m \in RankedMates(notes, n) : notes[m].rank = notes[n].rank

Ranked(table) == {n \in Notes : table[n] # Null /\ table[n].rank # Null}

\* What one call ranked has the ranks of a call for each.
RankedInTurn(old, new) ==
    LET fresh == Ranked(new) \ Ranked(old)
    IN (\A n, m \in fresh : new[n].published = new[m].published) =>
           new = OneByOne([n \in Notes |-> IF n \in fresh
                                           THEN [new[n] EXCEPT !.rank = Null, !.first = Null]
                                           ELSE new[n]], fresh)

\* feedrank.go:43: notes that one call ranks get the ranks they would have got one
\* after the other: published_at less BurstStep for each card of their author in
\* the window before, hidden ones too, and one rank per import.  (For notes with
\* one published_at, which are all but those AssignUnranked finds.)
RanksAsIfOneByOne == [][RankedInTurn(notes, notes')]_notes

\* What the two arms with their limits return is the top of all that is listed
\* past the cursor: no import is cut off and none is listed twice.
PageIsTopOfFeed ==
    \A r \in Readers : scroll[r] # Null =>
        LET s == scroll[r]
        IN Page(notes, s.tag, s.cursor) = Top({x \in Items(notes, s.tag) : Past(s.cursor, x)})

\* feed.go:187: of what is listed all along a scroll, nothing is repeated, and
\* nothing was dropped when the last page is reached, whatever was published,
\* hidden or imported meanwhile.  (The notes of an import that becomes one card
\* meanwhile are not listed all along: they may be dropped, and shown again.)
ScrollIsComplete ==
    \A r \in Readers : scroll[r] # Null =>
        /\ scroll[r].again = {}
        /\ ~scroll[r].more => scroll[r].unseen = {}
=============================================================================
