-------------------------------- MODULE Tour --------------------------------
(***************************************************************************)
(* The first choice of a new user (onboarding.go): copies of the notes of  *)
(* a tour, made one by one in a transaction, linked among each other and   *)
(* one of them pinned by a statement of its own; or nothing.  Meanwhile    *)
(* she may choose again in another tab, write notes of her own, save       *)
(* drafts, as copies are, under the same or another slug and with other    *)
(* links, or change her handle.                                            *)
(***************************************************************************)
EXTENDS Integers, Sequences, FiniteSets

CONSTANTS
    TourNotes,   \* slugs, in the order of seed.TourNotes
    TourLinks,   \* per slug the slugs its body links in the same vault
    Welcome,
    Forks,       \* requests that copy the tour
    OtherSlugs,  \* of her own notes, beside those of the tour
    MaxOwn,      \* bound on her own notes
    MaxRenamed,  \* bound on the drafts that she renames
    MaxHandles,  \* bound on the handles that she has had
    NoNote

Slugs == {TourNotes[k] : k \in DOMAIN TourNotes}
ASSUME TourAssumption ==
    /\ TourNotes \in Seq(Slugs)
    /\ \A j, k \in DOMAIN TourNotes : TourNotes[j] = TourNotes[k] => j = k
    /\ Welcome \in Slugs
    /\ TourLinks \in [Slugs -> SUBSET Slugs]
    /\ OtherSlugs \cap Slugs = {}
    /\ MaxOwn \in Nat /\ MaxRenamed \in Nat /\ MaxHandles \in Nat \ {0}

Note == (Forks \X Slugs) \cup ({NoNote} \X (1 .. MaxOwn))
Copies(w) == {w} \X Slugs
ASSUME NoNoteAssumption == NoNote \notin Note \cup Forks

RowsOf(f) == DOMAIN f \subseteq Note /\ \A n \in DOMAIN f : f[n] \in Slugs \cup OtherSlugs
EdgesOf(f) == DOMAIN f \subseteq Note \X Slugs /\ \A e \in DOMAIN f : f[e] \in Note \cup {NoNote}

VARIABLES
    slugOf,    \* committed notes -> slug
    leads,     \* <<note, slug of the link>> -> the note stored for it, committed; a
               \* link into the vault of a handle that nobody has is left out
    adrift,    \* links of copies that were stored when the copy that the tour means
               \* had another slug, or not at all (history)
    handles,   \* handles she has had: the last is hers
    pinned,
    onboarded,
    forks,     \* per request where it is
    renames    \* drafts renamed

tourVars == <<slugOf, leads, adrift, handles, pinned, onboarded, forks, renames>>

TourTypeOK ==
    /\ RowsOf(slugOf)
    /\ EdgesOf(leads)
    /\ adrift \subseteq Note \X Slugs
    /\ handles \in 1 .. MaxHandles
    /\ pinned \in {NoNote} \cup DOMAIN slugOf
    /\ onboarded \in BOOLEAN
    /\ \A w \in Forks :
        /\ DOMAIN forks[w] = {"phase", "handle", "slugOf", "leads", "calm"}
        /\ forks[w].phase \in {"asked", "copying", "copied", "marked", "failed"}
        /\ forks[w].handle \in 0 .. handles
        /\ RowsOf(forks[w].slugOf)
        /\ EdgesOf(forks[w].leads)
        /\ forks[w].calm \in BOOLEAN
    /\ renames \in 0 .. MaxRenamed

\* The handle is the one of the session, the tables are inserted and not committed,
\* and calm says that nothing was renamed meanwhile (history).
NotForked == [phase |-> "asked", handle |-> 0, slugOf |-> << >>, leads |-> << >>, calm |-> TRUE]

TourInit ==
    /\ slugOf = << >>
    /\ leads = << >>
    /\ adrift = {}
    /\ handles = 1
    /\ pinned = NoNote
    /\ onboarded = FALSE
    /\ forks = [w \in Forks |-> NotForked]
    /\ renames = 0

----------------------------------------------------------------------------
(* Copying *)

With(f, g) == [x \in DOMAIN f \cup DOMAIN g |-> IF x \in DOMAIN g THEN g[x] ELSE f[x]]

Has(table, s) == \E n \in DOMAIN table : table[n] = s
Holder(table, s) == IF Has(table, s) THEN CHOOSE n \in DOMAIN table : table[n] = s ELSE NoNote

\* UNIQUE(author_id, slug_ci): an insert fails on a committed row, and waits for
\* a row that another request may still commit.
Awaited(w, s) == \E v \in Forks \ {w} : forks[v].phase = "copying" /\ Has(forks[v].slugOf, s)

BeginFork(w) ==
    /\ forks[w].phase = "asked"
    /\ forks' = [forks EXCEPT ![w].phase = "copying", ![w].handle = handles]
    /\ UNCHANGED <<slugOf, leads, adrift, handles, pinned, onboarded, renames>>

\* Mutant of Backfilled: links to notes that are copied later stay open.
BackfilledNone(edges, s, n, known) == edges

\* recomputeLinks: the links of n are deleted and those of its text inserted, each
\* with the note that has its slug now.  The handle of the session is looked up, and
\* nobody has it once she changed it.
Recomputed(edges, n, body, known, table) ==
    LET kept == {e \in DOMAIN edges : e[1] # n}
        fresh == {n} \X (IF known THEN body ELSE {})
    IN  [e \in kept \cup fresh |-> IF e \in fresh THEN Holder(table, e[2]) ELSE edges[e]]

\* The links that wait for the slug that n has now.
Backfilled(edges, s, n, known) ==
    [e \in DOMAIN edges |-> IF known /\ edges[e] = NoNote /\ e[2] = s THEN n ELSE edges[e]]

\* The insert, recomputeLinks and the UPDATE of links, those of committed notes too.
CopyNote(w) ==
    LET f == forks[w]
        s == TourNotes[Cardinality(DOMAIN f.slugOf) + 1]
        n == <<w, s>>
        mine == With(f.slugOf, [x \in {n} |-> s])
        known == f.handle = handles
        stubs == {e \in DOMAIN leads : known /\ leads[e] = NoNote /\ e[2] = s}
        edges == Recomputed(f.leads, n, TourLinks[s], known, With(slugOf, mine))
    IN
    /\ f.phase = "copying"
    /\ Cardinality(DOMAIN f.slugOf) < Len(TourNotes)
    /\ ~Has(slugOf, s)
    /\ ~Awaited(w, s)
    /\ forks' = [forks EXCEPT ![w].slugOf = mine,
                              ![w].leads = With(Backfilled(edges, s, n, known), [e \in stubs |-> n])]
    /\ UNCHANGED <<slugOf, leads, adrift, handles, pinned, onboarded, renames>>

CommitFork(w) ==
    /\ forks[w].phase = "copying"
    /\ Cardinality(DOMAIN forks[w].slugOf) = Len(TourNotes)
    /\ slugOf' = With(slugOf, forks[w].slugOf)
    /\ leads' = With(leads, forks[w].leads)
    /\ adrift' = IF forks[w].calm THEN adrift ELSE adrift \cup Copies(w) \X Slugs
    /\ forks' = [forks EXCEPT ![w] = [NotForked EXCEPT !.phase = "copied"]]
    /\ UNCHANGED <<handles, pinned, onboarded, renames>>

\* Mutant of RolledBack: each insert commits on its own.
RolledBackNothing(w) == /\ slugOf' = With(slugOf, forks[w].slugOf)
                        /\ leads' = With(leads, forks[w].leads)
RolledBack(w) == UNCHANGED <<slugOf, leads>>

\* A slug that is taken, an error, a lost connection or a crash.
FailFork(w) ==
    /\ forks[w].phase = "copying"
    /\ RolledBack(w)
    /\ forks' = [forks EXCEPT ![w] = [NotForked EXCEPT !.phase = "failed"]]
    /\ UNCHANGED <<adrift, handles, pinned, onboarded, renames>>

\* The UPDATE of users, after the copies are committed, or never.
MarkForked(w) ==
    /\ forks[w].phase = "copied"
    /\ pinned' = <<w, Welcome>>
    /\ onboarded' = TRUE
    /\ forks' = [forks EXCEPT ![w].phase = "marked"]
    /\ UNCHANGED <<slugOf, leads, adrift, handles, renames>>

Skip ==
    /\ onboarded' = TRUE
    /\ UNCHANGED <<slugOf, leads, adrift, handles, pinned, forks, renames>>

----------------------------------------------------------------------------
(* Meanwhile *)

\* An insert or a rename that would wait for a fork is seen when it goes through.
MayTake(s) == ~Has(slugOf, s) /\ \A w \in Forks : ~Has(forks[w].slugOf, s)

\* What renaming disturbs: the forks under way.
Disturbed == [w \in Forks |-> IF forks[w].phase = "copying" THEN [forks[w] EXCEPT !.calm = FALSE] ELSE forks[w]]

\* The links of a text: those of the tour, in a copy, or what she leaves of them.
Texts(n) == IF n[1] \in Forks THEN SUBSET TourLinks[n[2]] ELSE {{}}

\* saveNote: her own note, under a slug of the tour or another, and without links.
\* Its slug resolves those that wait for it.
WriteOwn(i, s) ==
    LET n == <<NoNote, i>>
    IN
    /\ n \notin DOMAIN slugOf
    /\ MayTake(s)
    /\ slugOf' = With(slugOf, [x \in {n} |-> s])
    /\ leads' = Backfilled(leads, s, n, TRUE)
    /\ UNCHANGED <<adrift, handles, pinned, onboarded, forks, renames>>

\* A link that a fork under way fills is locked, and deleted when it ends.
Filling(n) == \E w \in Forks : \E e \in DOMAIN forks[w].leads : e[1] = n

\* The copy that link l of n means has its slug.
Borne(n, l, table) == n[1] \in Forks /\ <<n[1], l>> \in DOMAIN table /\ table[<<n[1], l>>] = l

\* Autosave of a draft, with the same first line or another, and with the handle of
\* its request, which she may have changed since.
SaveDraft(n, s, body, known) ==
    LET named == [slugOf EXCEPT ![n] = s]
    IN
    /\ n \in DOMAIN slugOf
    /\ ~Filling(n)
    /\ known \/ handles > 1
    /\ slugOf' = named
    /\ leads' = Backfilled(Recomputed(leads, n, body, known, named), s, n, TRUE)
    /\ adrift' = (adrift \ ({n} \X Slugs)) \cup
                 {n} \X {l \in Slugs : ~(known /\ l \in body /\ Borne(n, l, named))}
    /\ \/ s = slugOf[n] /\ UNCHANGED <<forks, renames>>
       \/ /\ MayTake(s)
          /\ renames < MaxRenamed
          /\ renames' = renames + 1
          /\ forks' = Disturbed
    /\ UNCHANGED <<handles, pinned, onboarded>>

RenameHandle ==
    /\ handles < MaxHandles
    /\ handles' = handles + 1
    /\ forks' = Disturbed
    /\ UNCHANGED <<slugOf, leads, adrift, pinned, onboarded, renames>>

TourNext ==
    \/ \E w \in Forks :
        BeginFork(w) \/ CopyNote(w) \/ CommitFork(w) \/ FailFork(w) \/ MarkForked(w)
    \/ Skip
    \/ \E i \in 1 .. MaxOwn, s \in Slugs \cup OtherSlugs : WriteOwn(i, s)
    \/ \E n \in Note, s \in Slugs \cup OtherSlugs, known \in BOOLEAN :
        \E body \in Texts(n) : SaveDraft(n, s, body, known)
    \/ RenameHandle

TourSpec == TourInit /\ [][TourNext]_tourVars

----------------------------------------------------------------------------
(* What must hold *)

\* onboarding.go:73, "copies every TourHandle-authored note into the new user's
\* vault. Same-vault wiki links naturally re-resolve to the new copies": a request
\* leaves all copies or none, and the links between them, those to notes copied
\* later too, lead to its own copies, whatever notes she has and however many
\* requests run, unless she renames a draft or herself just then.  They do so for
\* good, whatever is renamed, until she saves a copy again: then its links lead to
\* the copies that have their slugs still.  What is pinned is the first page of a
\* tour that is whole.
TourIsWhole ==
    /\ \A w \in Forks :
        IF forks[w].phase \in {"copied", "marked"}
        THEN /\ Copies(w) \subseteq DOMAIN slugOf
             /\ \A s \in Slugs : \A l \in TourLinks[s] :
                    <<<<w, s>>, l>> \notin adrift =>
                        /\ <<<<w, s>>, l>> \in DOMAIN leads
                        /\ leads[<<<<w, s>>, l>>] = <<w, l>>
        ELSE Copies(w) \cap DOMAIN slugOf = {}
    /\ pinned # NoNote => onboarded /\ pinned[2] = Welcome /\ pinned \in DOMAIN slugOf
=============================================================================
