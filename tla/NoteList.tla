------------------------------ MODULE NoteList ------------------------------
(***************************************************************************)
(* The list of the writer's own notes beside the editor (private-desk.js): *)
(* words that are searched once typing rests, a filter, pages that "more"  *)
(* appends, and a reload for each save the editor reports.  Every load has *)
(* the next generation, and what answers for an older one is dropped.      *)
(***************************************************************************)
EXTENDS Integers, Sequences

CONSTANTS
    Words, NoteFilters,  \* texts of the search field; the filter buttons
    Matches,             \* how many notes each pair of them finds
    DeskPage,            \* notes per answer, 50 in the code
    Loads,               \* requests in flight at a time
    MaxSaves, MaxListed, \* bounds on saves, and on the length of the list
    NoLoad

ASSUME NoteListAssumption ==
    /\ Matches \in [Words \X NoteFilters -> Nat] /\ DeskPage \in Nat \ {0}
    /\ MaxSaves \in Nat /\ MaxListed \in Nat

VARIABLES
    saves,     \* saves the server made; each one reorders the notes
    told,      \* saves the editor told the list of
    unsure,    \* the answer to the latest save was lost
    words, noteFilter,
    typing,    \* the timer that ends typing is running
    listed,    \* rows shown: <<saves, <<words, filter>>, position>>
    offset, more,
    missed,    \* no load has filled the list, or one failed since
    loads      \* requests in flight, the latest generation among them marked

noteListVars == <<saves, told, unsure, words, noteFilter, typing, listed, offset, more, missed, loads>>

Searched == <<words, noteFilter>>

Load == [asked : Words \X NoteFilters, append : BOOLEAN, from : Nat, latest : BOOLEAN,
         read : {-1} \cup 0 .. MaxSaves]
ASSUME NoLoadIsNone == NoLoad \notin Load

NoteListTypeOK ==
    /\ saves \in 0 .. MaxSaves /\ told \in 0 .. saves /\ unsure \in BOOLEAN
    /\ Searched \in Words \X NoteFilters /\ typing \in BOOLEAN
    /\ listed \in Seq((0 .. saves) \X (Words \X NoteFilters) \X (Nat \ {0}))
    /\ Len(listed) <= MaxListed /\ offset \in 0 .. Len(listed) /\ more \in BOOLEAN /\ missed \in BOOLEAN
    /\ \A l \in Loads : loads[l] = NoLoad \/ loads[l] \in Load

Sent(append, from, asked) ==
    [asked |-> asked, append |-> append, from |-> from, latest |-> TRUE, read |-> -1]

\* The page as it arrives; its script ends with the first load.
NoteListPage ==
    /\ saves = 0 /\ told = 0 /\ unsure = FALSE
    /\ words \in Words /\ noteFilter \in NoteFilters /\ typing = FALSE
    /\ listed = << >> /\ offset = 0 /\ more = FALSE /\ missed = TRUE

NoteListInit ==
    /\ NoteListPage
    /\ \E first \in Loads : loads = [l \in Loads |-> IF l = first THEN Sent(FALSE, 0, Searched) ELSE NoLoad]

----------------------------------------------------------------------------
(* load *)

IsLatest(l) == loads[l] # NoLoad /\ loads[l].latest

Superseded(l) == IF loads[l] = NoLoad THEN NoLoad ELSE [loads[l] EXCEPT !.latest = FALSE]

\* It reads the fields when it starts, whatever the timer is about to do.
StartLoad(l, append, asked) ==
    /\ loads[l] = NoLoad
    /\ offset' = IF append THEN offset ELSE 0
    /\ loads' = [[k \in Loads |-> Superseded(k)] EXCEPT ![l] = Sent(append, offset', asked)]

\* GetDeskNotes, while the request is on its way.
ReadNotes(l) ==
    /\ loads[l] # NoLoad /\ loads[l].read = -1
    /\ loads' = [loads EXCEPT ![l].read = saves]
    /\ UNCHANGED <<saves, told, unsure, words, noteFilter, typing, listed, offset, more, missed>>

PageRows(q) ==
    LET count == Matches[q.asked] - q.from IN
    [i \in 1 .. (IF count > DeskPage THEN DeskPage ELSE IF count > 0 THEN count ELSE 0) |->
        <<q.read, q.asked, q.from + i>>]

\* Mutant of Heeded: any answer is shown.
HeededAlways(l) == loads[l].read # -1

Heeded(l) == loads[l].read # -1 /\ loads[l].latest

ShowAnswer(l) ==
    /\ loads[l] # NoLoad /\ loads[l].read # -1
    /\ loads' = [loads EXCEPT ![l] = NoLoad]
    /\ IF Heeded(l)
       THEN LET q == loads[l] IN
            /\ listed' = (IF q.append THEN listed ELSE << >>) \o PageRows(q)
            /\ offset' = offset + Len(PageRows(q))
            /\ more' = (q.from + DeskPage < Matches[q.asked])
            /\ missed' = (q.append /\ missed)
            /\ unsure' = (unsure /\ (q.append \/ q.read # saves))
            /\ Len(listed') <= MaxListed
       ELSE UNCHANGED <<listed, offset, more, missed, unsure>>
    /\ UNCHANGED <<saves, told, words, noteFilter, typing>>

\* Lost, refused, or answered with an error: the old rows stay.
FailedLoad(l) ==
    /\ loads[l] # NoLoad
    /\ loads' = [loads EXCEPT ![l] = NoLoad]
    /\ missed' = (missed \/ (IsLatest(l) /\ ~loads[l].append))
    /\ UNCHANGED <<saves, told, unsure, words, noteFilter, typing, listed, offset, more>>

----------------------------------------------------------------------------
(* What calls it *)

ClickFilter(l, f) ==
    /\ StartLoad(l, FALSE, <<words, f>>) /\ noteFilter' = f
    /\ UNCHANGED <<saves, told, unsure, words, typing, listed, more, missed>>

Type(w) ==
    /\ words' = w /\ typing' = TRUE
    /\ UNCHANGED <<saves, told, unsure, noteFilter, listed, offset, more, missed, loads>>

TypingRests(l) ==
    /\ typing /\ typing' = FALSE /\ StartLoad(l, FALSE, Searched)
    /\ UNCHANGED <<saves, told, unsure, words, noteFilter, listed, more, missed>>

\* The button is disabled while the latest load is under way.
ClickMore(l) ==
    /\ more /\ ~ \E k \in Loads : IsLatest(k)
    /\ StartLoad(l, TRUE, Searched)
    /\ UNCHANGED <<saves, told, unsure, words, noteFilter, typing, listed, more, missed>>

\* The editor's autosave: on the server; then on the page, unless newer text is
\* saved first.
NoteSavedOnServer ==
    /\ saves < MaxSaves /\ saves' = saves + 1
    /\ UNCHANGED <<told, unsure, words, noteFilter, typing, listed, offset, more, missed, loads>>

NoteSaved(l) ==
    /\ told < saves /\ told' = saves /\ StartLoad(l, FALSE, Searched)
    /\ UNCHANGED <<saves, unsure, words, noteFilter, typing, listed, more, missed>>

LoseSaved ==
    /\ told < saves /\ told' = saves /\ unsure' = TRUE
    /\ UNCHANGED <<saves, words, noteFilter, typing, listed, offset, more, missed, loads>>

NoteListNext ==
    \/ \E l \in Loads : ReadNotes(l) \/ ShowAnswer(l) \/ FailedLoad(l)
    \/ \E l \in Loads, f \in NoteFilters : ClickFilter(l, f)
    \/ \E w \in Words : Type(w)
    \/ \E l \in Loads : TypingRests(l) \/ ClickMore(l) \/ NoteSaved(l)
    \/ NoteSavedOnServer
    \/ LoseSaved

NoteListSpec == NoteListInit /\ [][NoteListNext]_noteListVars

----------------------------------------------------------------------------
(* What must hold *)

Settled ==
    /\ ~typing /\ told = saves /\ ~unsure /\ ~missed
    /\ \A l \in Loads : ~IsLatest(l)

\* The generations of private-desk.js: when the page waits for nothing that
\* could still change the list, the list is the first pages of what the words
\* and the filter ask for, in the order the latest save left, with no row
\* twice, whatever answers are still to come for older loads; and "more" is
\* offered exactly when there are more.
ListShowsTheQuery ==
    Settled =>
        /\ listed = [i \in 1 .. offset |-> <<saves, Searched, i>>]
        /\ more <=> offset < Matches[Searched]
=============================================================================
