----------------------------- MODULE PagedLists -----------------------------
(***************************************************************************)
(* The lists that a reader loads page by page below a cursor (time, id):   *)
(* what she saved (likes.go), what the authors she follows wrote (feed.go),*)
(* a tag (tags.go), a profile (profile.go).  Between two pages the buttons *)
(* that save and follow are pressed, in several tabs, each press an insert *)
(* and, where the row was there already, a delete (saves.go, follow.go);   *)
(* notes are edited, hidden and shown again.  The list of a tag has a row  *)
(* for each spelling of it that a note carries.                            *)
(***************************************************************************)
EXTENDS Integers, Sequences, FiniteSets

CONSTANTS
    Entries,    \* notes, numbered like their ids
    Everyone,   \* the author that the list of followed authors is about
    Clicks,     \* presses in flight
    ListPage,   \* rows on a page: 20
    Spellings,  \* bound on the spellings of a tag on one note
    MaxSeconds, \* bound on the clock
    MaxChanges  \* bound on the changes while the reader pages
ASSUME PagedListsAssumption ==
    /\ Entries \subseteq Nat /\ Everyone \notin Entries
    /\ ListPage \in Nat \ {0} /\ Spellings \in Nat \ {0} /\ MaxSeconds \in Nat \ {0} /\ MaxChanges \in Nat

VARIABLES
    list,      \* which of the lists
    clock,     \* seconds
    updated,   \* notes.updated_at
    spelled,   \* rows of note_tags that are the list's tag; 1 in the other lists
    edits,     \* per note: the time read by the transaction that has its row, -1 without
    since,     \* created_at of the row in saves or follows, -1 without one
    withdrawn, \* hidden notes
    clicks,    \* presses in flight: the time read, and whether the row was there
    shown,     \* the pages loaded: the notes of their rows, in order
    cursor,    \* older, older_id
    listEnded, \* there is no link to an older page
    steady,    \* notes that were in the list, at their time, all along (history)
    late,      \* notes that were saved with the time of an earlier second (history)
    changes

pagedVars == <<list, clock, updated, spelled, edits, since, withdrawn, clicks, shown, cursor, listEnded,
               steady, late, changes>>

Seconds == 0 .. MaxSeconds
Pressable == Entries \cup {Everyone}
Click == [about : Pressable, time : Seconds, met : BOOLEAN]

PagedTypeOK ==
    /\ list \in {"saved", "following", "tag", "profile"}
    /\ clock \in Seconds
    /\ updated \in [Entries -> Seconds]
    /\ spelled \in [Entries -> 0 .. Spellings]
    /\ edits \in [Entries -> {-1} \cup Seconds]
    /\ since \in [Pressable -> {-1} \cup Seconds]
    /\ withdrawn \subseteq Entries
    /\ clicks \in [Clicks -> SUBSET Click]
    /\ shown \in Seq(Seq(Entries))
    /\ cursor \in {<< >>} \cup Seconds \X Entries
    /\ listEnded \in BOOLEAN
    /\ steady \subseteq Entries /\ late \subseteq Entries
    /\ changes \in 0 .. MaxChanges

Subject(n) == IF list = "saved" THEN n ELSE Everyone
Wanted(n) == spelled[n] > 0 /\ (list \in {"saved", "following"} => since[Subject(n)] >= 0)
Listed == {n \in Entries \ withdrawn : Wanted(n)}
TimeOf(n) == IF list = "saved" THEN since[n] ELSE updated[n]

\* Mutant of OlderThan: the time alone.
OlderByTime(n, k) == k = << >> \/ TimeOf(n) < k[1]

\* (time, id) < (older, older_id)
OlderThan(n, k) ==
    \/ k = << >>
    \/ TimeOf(n) < k[1]
    \/ TimeOf(n) = k[1] /\ n < k[2]

Newer(m, n) == TimeOf(m) > TimeOf(n) \/ (TimeOf(m) = TimeOf(n) /\ m > n)

Older == {n \in Listed : OlderThan(n, cursor)}

\* A row of the list: the note, and which of its spellings.
RowsOlder == {r \in Older \X (1 .. Spellings) : r[2] <= spelled[r[1]]}

\* ORDER BY time DESC, id DESC LIMIT ListPage; the rows of one note are in no order.
IsNextPage(page) ==
    /\ \A i, j \in DOMAIN page : i < j =>
           page[i] # page[j] /\ (page[i][1] = page[j][1] \/ Newer(page[i][1], page[j][1]))
    /\ \A r \in RowsOlder :
           \/ \E i \in DOMAIN page : page[i] = r
           \/ Len(page) = ListPage /\ (page[ListPage][1] = r[1] \/ Newer(page[ListPage][1], r[1]))

PagedInit ==
    /\ list \in {"saved", "following", "tag", "profile"}
    /\ clock = 1
    /\ updated \in [Entries -> {0, 1}]
    /\ since \in [Pressable -> {-1, 0, 1}]
    /\ spelled \in [Entries -> IF list = "tag" THEN 0 .. Spellings ELSE {1}]
    /\ edits = [n \in Entries |-> -1]
    /\ list = "saved" => updated = [n \in Entries |-> 0] /\ since[Everyone] = -1
    /\ list # "saved" => \A n \in Entries : since[n] = -1
    /\ list \in {"tag", "profile"} => since[Everyone] = -1
    /\ withdrawn = {}
    /\ clicks \in [Clicks -> {{}} \cup {{[about |-> n, time |-> 0, met |-> FALSE]} : n \in Entries}]
    /\ Cardinality({c \in Clicks : clicks[c] # {}}) <= IF list = "saved" THEN 1 ELSE 0
    /\ shown = << >>
    /\ cursor = << >>
    /\ listEnded = FALSE
    /\ steady = Listed
    /\ late = {}
    /\ changes = 0

\* The feed of followed authors asks for another page until one is empty, the
\* other lists until one is short.
IsLastPage(k) == k < (IF list = "following" THEN 1 ELSE ListPage)

LoadPage ==
    /\ \E k \in 0 .. ListPage : \E page \in [1 .. k -> RowsOlder] :
          /\ IsNextPage(page)
          /\ shown' = Append(shown, [i \in 1 .. k |-> page[i][1]])
          /\ cursor' = IF k = 0 THEN cursor ELSE <<TimeOf(page[k][1]), page[k][1]>>
          /\ listEnded' = IsLastPage(k)
    /\ UNCHANGED <<list, clock, updated, spelled, edits, since, withdrawn, clicks, steady, late, changes>>

----------------------------------------------------------------------------
(* Meanwhile *)

Change ==
    /\ changes < MaxChanges
    /\ changes' = changes + 1

Unsettled(S) == steady' = steady \ S
About(s) == {n \in Entries : Subject(n) = s}

\* GetSaved lists what PostSave lets through: readable notes.
MayPress(s) ==
    CASE list = "saved" -> s \in Entries \ withdrawn
      [] list = "following" -> s = Everyone
      [] OTHER -> FALSE

\* The time is read before the statement that stores it is sent.
Press(c, s) ==
    /\ Change
    /\ clicks[c] = {}
    /\ MayPress(s)
    /\ clicks' = [clicks EXCEPT ![c] = {[about |-> s, time |-> clock, met |-> FALSE]}]
    /\ UNCHANGED <<list, clock, updated, spelled, edits, since, withdrawn, shown, cursor, listEnded, steady, late>>

\* INSERT ... ON CONFLICT DO NOTHING
PressInsert(c) ==
    /\ \E k \in clicks[c] :
          /\ ~k.met
          /\ IF since[k.about] < 0
             THEN /\ since' = [since EXCEPT ![k.about] = k.time]
                  /\ clicks' = [clicks EXCEPT ![c] = {}]
                  /\ Unsettled(About(k.about))
                  /\ late' = late \cup {n \in Entries : n = k.about /\ k.time < clock}
             ELSE /\ clicks' = [clicks EXCEPT ![c] = {[k EXCEPT !.met = TRUE]}]
                  /\ UNCHANGED <<since, steady, late>>
    /\ UNCHANGED <<list, clock, updated, spelled, edits, withdrawn, shown, cursor, listEnded, changes>>

\* The row was there: DELETE.  Another press may have removed it, or put it back.
PressDelete(c) ==
    /\ \E k \in clicks[c] :
          /\ k.met
          /\ since' = [since EXCEPT ![k.about] = -1]
          /\ Unsettled(About(k.about))
    /\ clicks' = [clicks EXCEPT ![c] = {}]
    /\ UNCHANGED <<list, clock, updated, spelled, edits, withdrawn, shown, cursor, listEnded, late, changes>>

PressFails(c) ==
    /\ clicks[c] # {}
    /\ clicks' = [clicks EXCEPT ![c] = {}]
    /\ UNCHANGED <<list, clock, updated, spelled, edits, since, withdrawn, shown, cursor, listEnded, steady, late,
                   changes>>

\* publishDocument reads the time when it has the row's lock.
BeginEdit(n) ==
    /\ Change
    /\ list # "saved"
    /\ n \notin withdrawn
    /\ edits[n] < 0
    /\ edits' = [edits EXCEPT ![n] = clock]
    /\ UNCHANGED <<list, clock, updated, spelled, since, withdrawn, clicks, shown, cursor, listEnded, steady, late>>

\* An edit puts a note on top, except in the list of what was saved, and sets its tags.
CommitEdit(n) ==
    /\ edits[n] >= 0
    /\ updated' = [updated EXCEPT ![n] = edits[n]]
    /\ \E k \in IF list = "tag" THEN 0 .. Spellings ELSE {1} : spelled' = [spelled EXCEPT ![n] = k]
    /\ edits' = [edits EXCEPT ![n] = -1]
    /\ Unsettled({n})
    /\ UNCHANGED <<list, clock, since, withdrawn, clicks, shown, cursor, listEnded, late, changes>>

RollBackEdit(n) ==
    /\ edits[n] >= 0
    /\ edits' = [edits EXCEPT ![n] = -1]
    /\ UNCHANGED <<list, clock, updated, spelled, since, withdrawn, clicks, shown, cursor, listEnded, steady, late,
                   changes>>

\* It keeps its time while it is hidden; it waits for the row's lock.
Withdraw(n) ==
    /\ Change
    /\ edits[n] < 0
    /\ withdrawn' = (withdrawn \ {n}) \cup ({n} \ withdrawn)
    /\ Unsettled({n})
    /\ UNCHANGED <<list, clock, updated, spelled, edits, since, clicks, shown, cursor, listEnded, late>>

NextSecond ==
    /\ clock < MaxSeconds
    /\ clock' = clock + 1
    /\ UNCHANGED <<list, updated, spelled, edits, since, withdrawn, clicks, shown, cursor, listEnded, steady, late,
                   changes>>

\* Until the reader has come to the end.
PagedNext ==
    /\ ~listEnded
    /\ \/ LoadPage
       \/ \E c \in Clicks, s \in Pressable : Press(c, s)
       \/ \E c \in Clicks : PressInsert(c) \/ PressDelete(c) \/ PressFails(c)
       \/ \E n \in Entries : BeginEdit(n) \/ CommitEdit(n) \/ RollBackEdit(n) \/ Withdraw(n)
       \/ NextSecond

PagedSpec == PagedInit /\ [][PagedNext]_pagedVars

----------------------------------------------------------------------------
(* What must hold *)

\* docs/BETA-vault-import.md:51, "Profile, tag, saved, following: notes of one second
\* page without gaps or repeats": no note is on two pages, and at the end all notes
\* were shown that stood in the list at their place all along, whatever was saved,
\* followed, edited, hidden and shown meanwhile.  On one page of a tag a note has a
\* row for each of its spellings; and a note that was shown, removed, and then saved
\* by a press that had read the clock a second or more before may come again below.
PagesHaveNoGaps ==
    /\ \A p, q \in DOMAIN shown : \A i \in DOMAIN shown[p], j \in DOMAIN shown[q] :
           shown[p][i] = shown[q][j] =>
               \/ p = q /\ (i = j \/ list = "tag")
               \/ shown[p][i] \in late
    /\ listEnded => \A n \in steady : \E p \in DOMAIN shown : \E i \in DOMAIN shown[p] : shown[p][i] = n
=============================================================================
