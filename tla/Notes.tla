------------------------------- MODULE Notes -------------------------------
(***************************************************************************)
(* The life of one author's notes: drafts, autosaves, publishing, the note *)
(* manager, deletion, moderation and the orphan sweep, as the handlers of  *)
(* internal/handlers run them against PostgreSQL.                          *)
(*                                                                         *)
(* A handler that reads and writes a row inside one transaction that locks *)
(* it FOR UPDATE is one action.  PatchNote is two: it reads slug and       *)
(* published_at before its transaction begins, computes the new slug from  *)
(* what it read, and only then locks the row.  Requests by anyone but the  *)
(* author are refused before they touch a row and are not modelled.        *)
(***************************************************************************)
EXTENDS NoteRow

CONSTANTS
    Requests,   \* PATCH requests that can be in flight at a time
    MaxVersion  \* bound on edit_version

ASSUME VersionAssumption == MaxVersion \in Nat

VARIABLES
    present,    \* ids of the rows in the table
    swept,      \* ids of the rows sweepOrphanDrafts removed; ids are not reused
    rows,       \* row per id (meaningless outside present)
    patches     \* per request: what PatchNote holds between its read and its transaction

vars == <<present, swept, rows, patches>>

Patch == [note : Notes, slug : Slugs, doc : Doc,
          revision : Nat \cup {Null}, reach : Reach \cup {Null}]
ASSUME NullIsNoPatch == Null \notin Patch
ASSUME NullIsNoVersion == Null \notin Nat

TypeOK ==
    /\ present \subseteq Notes
    /\ swept \subseteq Notes
    /\ rows \in [Notes -> Row]
    /\ patches \in [Requests -> Patch \cup {Null}]

Init ==
    /\ present = {}
    /\ swept = {}
    /\ rows = [n \in Notes |-> FreshDraft(n)]
    /\ patches = [e \in Requests |-> Null]

\* UNIQUE(author_id, slug_ci): deleted and hidden notes keep their slug.
SlugFree(n, slug) == \A m \in present \ {n} : rows[m].slug # slug

RevisionMatches(n, revision) == revision = Null \/ revision = rows[n].version

----------------------------------------------------------------------------
(* Creating notes *)

CreateDraft(n) ==
    /\ n \notin present \cup swept
    /\ present' = present \cup {n}
    /\ rows' = [rows EXCEPT ![n] = FreshDraft(n)]
    /\ UNCHANGED <<swept, patches>>

\* saveNote, behind POST /write and the single-file imports: inserted published.
SaveNote(n, doc) ==
    /\ n \notin present \cup swept
    /\ Kebab[doc.title] # Null
    /\ doc.title # Blank
    /\ SlugFree(n, TitleSlug(Kebab[doc.title]))
    /\ present' = present \cup {n}
    /\ rows' = [rows EXCEPT ![n] =
                   Assigned([NewRow(TitleSlug(Kebab[doc.title]), doc, "public")
                                EXCEPT !.published = TRUE])]
    /\ UNCHANGED <<swept, patches>>

----------------------------------------------------------------------------
(* Autosave *)

\* PatchNote up to its call of autosaveNoteDocument.
PatchRead(e, n, doc, revision, reach) ==
    /\ patches[e] = Null
    /\ n \in present
    /\ Available(rows[n])
    /\ patches' = [patches EXCEPT ![e] =
                      [note |-> n, slug |-> PatchSlug(n, rows[n], doc.title),
                       doc |-> doc, revision |-> revision, reach |-> reach]]
    /\ UNCHANGED <<present, swept, rows>>

\* Mutant of Accepts: the row is only checked before the transaction.
AcceptsUnchecked(p) == p.note \in present /\ RevisionMatches(p.note, p.revision)

\* autosaveNoteDocument finds the row still there, unmoderated and unedited.
Accepts(p) ==
    /\ p.note \in present
    /\ Available(rows[p.note])
    /\ RevisionMatches(p.note, p.revision)

\* Its UPDATE would take a slug another note holds.
SlugTaken(p) == ~rows[p.note].published /\ ~SlugFree(p.note, p.slug)

Autosave(e) ==
    LET p == patches[e] IN
    /\ p # Null
    /\ Accepts(p)
    /\ ~SlugTaken(p)
    /\ rows[p.note].version < MaxVersion
    /\ rows' = [rows EXCEPT ![p.note] = Autosaved(@, p.slug, p.doc, p.reach)]
    /\ patches' = [patches EXCEPT ![e] = Null]
    /\ UNCHANGED <<present, swept>>

\* 404, 409 (edited elsewhere) or 409 (slug taken): the transaction rolls back.
\* A request given up by its client ends the same way.
AutosaveFails(e) ==
    /\ patches[e] # Null
    /\ patches' = [patches EXCEPT ![e] = Null]
    /\ UNCHANGED <<present, swept, rows>>

----------------------------------------------------------------------------
(* Publishing and managing *)

PublishNote(n, revision) ==
    /\ n \in present
    /\ RevisionMatches(n, revision)
    /\ Publishable(rows[n])
    /\ rows[n].version < MaxVersion
    /\ rows' = [rows EXCEPT ![n] = PublishedRow(@)]
    /\ UNCHANGED <<present, swept, patches>>

\* PostManageNotes: one action over a set of notes, all or nothing.
Targets(S) == {n \in S \cap present : Available(rows[n])}

ManageNotes(S, action) ==
    /\ action = "publish" => \A n \in Targets(S) : Manageable(rows[n])
    /\ rows' = [n \in Notes |-> IF n \in Targets(S) THEN Managed(rows[n], action) ELSE rows[n]]
    /\ UNCHANGED <<present, swept, patches>>

DeleteNote(n) ==
    /\ n \in present
    /\ rows' = [rows EXCEPT ![n].deleted = TRUE]
    /\ UNCHANGED <<present, swept, patches>>

BulkDeleteDrafts(S) ==
    /\ rows' = [n \in Notes |-> IF n \in S \cap present /\ ~rows[n].published
                                THEN [rows[n] EXCEPT !.deleted = TRUE]
                                ELSE rows[n]]
    /\ UNCHANGED <<present, swept, patches>>

\* setHidden, from PostAdminHide.
Moderate(n, hide) ==
    /\ n \in present
    /\ rows' = [rows EXCEPT ![n].hidden = hide]
    /\ UNCHANGED <<present, swept, patches>>

\* GetWrite's sweep.  Which orphans are older than the cutoff is left open.
SweepOrphanDrafts(S) ==
    /\ \A n \in S : n \in present /\ Orphan(rows[n])
    /\ present' = present \ S
    /\ swept' = swept \cup S
    /\ rows' = [n \in Notes |-> IF n \in S THEN FreshDraft(n) ELSE rows[n]]
    /\ UNCHANGED patches

----------------------------------------------------------------------------
\* The revision a request carries: none, or the one its editor loaded last.  A
\* PATCH with an older one is refused whatever happens, as AutosaveFails refuses it.
Revisions(n) == {Null, rows[n].version}

Next ==
    \/ \E n \in Notes : CreateDraft(n)
    \/ \E n \in Notes, doc \in Doc : SaveNote(n, doc)
    \/ \E e \in Requests, n \in Notes, doc \in Doc,
          reach \in Reach \cup {Null} :
          \E revision \in Revisions(n) : PatchRead(e, n, doc, revision, reach)
    \/ \E e \in Requests : Autosave(e)
    \/ \E e \in Requests : AutosaveFails(e)
    \/ \E n \in Notes : \E revision \in Revisions(n) : PublishNote(n, revision)
    \/ \E S \in SUBSET Notes, action \in {"publish", "hide", "delete"} : ManageNotes(S, action)
    \/ \E n \in Notes : DeleteNote(n)
    \/ \E S \in SUBSET Notes : BulkDeleteDrafts(S)
    \/ \E n \in Notes, hide \in BOOLEAN : Moderate(n, hide)
    \/ \E S \in SUBSET Notes : SweepOrphanDrafts(S)

Spec == Init /\ [][Next]_vars

----------------------------------------------------------------------------
(* What must hold *)

\* A note readers can reach has a title, a rank in the recommended feed, and a
\* slug of its own instead of the random one it was created with, whatever
\* autosaves that read an earlier slug commit late (PatchNote, publishDocument).
PublishedIsComplete ==
    \A n \in present : rows[n].published =>
        rows[n].doc.title # Blank /\ rows[n].ranked /\ rows[n].slug # DraftSlug(n)

\* Tags and links always describe the text readers see, never pending text:
\* every handler that replaces body_md rebuilds them in the same transaction.
IndexFollowsText == \A n \in present : rows[n].index = rows[n].doc.body

\* While a note stays public its URL does not change, although PatchNote
\* decides the slug from a published_at it read before the note was locked.
PublishedSlugIsPermanent ==
    [][\A n \in present \cap present' :
          rows[n].published /\ rows'[n].published => rows'[n].slug = rows[n].slug]_vars

\* Autosaving touches private text only: what readers see of a public note
\* changes in a publish alone, and then to exactly the pending text and reach.
PublicChangesOnlyByPublish ==
    [][\A n \in present \cap present' :
          /\ rows[n].published /\ rows'[n].published
          /\ <<rows'[n].doc, rows'[n].reach>> # <<rows[n].doc, rows[n].reach>>
          => /\ rows'[n].doc = EditorDoc(rows[n])
             /\ rows'[n].reach = EditorReach(rows[n])
             /\ rows'[n].draft = Null /\ rows'[n].draftReach = Null]_vars

\* A moderated or deleted note is frozen: no request of its author, not even an
\* autosave that read the row before, changes anything but the deletion mark,
\* and a deletion is never undone.
UnavailableIsFrozen ==
    [][\A n \in present \cap present' : ~Available(rows[n]) =>
          /\ rows'[n] = [rows[n] EXCEPT !.hidden = rows'[n].hidden, !.deleted = rows'[n].deleted]
          /\ rows[n].deleted => rows'[n].deleted]_vars

\* The orphan sweep, which looks at title and body only, never removes a row
\* that still holds pending text.
SweepSparesText ==
    [][\A n \in present \ present' : EditorDoc(rows[n]) = EmptyDoc]_vars

\* Nothing an open editor shows changes without a new edit_version: a revision
\* that still matches therefore proves its sender saw the current text and reach.
EditsAreVersioned ==
    [][\A n \in present \cap present' :
          \/ rows'[n].version > rows[n].version
          \/ EditorDoc(rows'[n]) = EditorDoc(rows[n])
             /\ EditorReach(rows'[n]) = EditorReach(rows[n])]_vars

\* A row readers can reach is complete; a row with pending text has been
\* published, so it has a title; a titled row has left its first slug behind.
RowInv(n, row) ==
    /\ row.published => row.doc.title # Blank /\ row.ranked
    /\ row.draft # Null => row.doc.title # Blank
    /\ row.doc.title # Blank => row.slug # DraftSlug(n)
    /\ row.index = row.doc.body

\* The slug a request in flight carries suits the title it carries.
Suits(n, slug, doc) == doc.title # Blank => slug # DraftSlug(n)
PatchInv(p) == p # Null => Suits(p.note, p.slug, p.doc)

\* PublishedIsComplete and IndexFollowsText are not inductive by themselves: a
\* late autosave writes the slug its request carried, and the orphan sweep and
\* the note manager look at the title alone.
IInv ==
    /\ TypeOK
    /\ \A n \in Notes : RowInv(n, rows[n])
    /\ \A e \in Requests : PatchInv(patches[e])

\* What a row means to its author and its readers, for Publication.
StateOf(n) ==
    IF n \in present THEN IF rows[n].deleted THEN "deleted"
                          ELSE IF rows[n].published THEN "public" ELSE "private"
    ELSE IF n \in swept THEN "gone" ELSE "absent"
Seen(n) ==
    [state |-> StateOf(n), hidden |-> rows[n].hidden,
     front |-> [doc |-> rows[n].doc, reach |-> rows[n].reach],
     back |-> [doc |-> EditorDoc(rows[n]), reach |-> EditorReach(rows[n])]]

Publications == INSTANCE Publication WITH notes <- [n \in Notes |-> Seen(n)], Titled <- HasTitle

\* The handlers together, with autosaves in flight across a publish, a
\* withdrawal, a deletion or the sweep, do nothing to a note that Publication
\* does not allow: readers get what was published and keep it until the next
\* publish, the author gets what was last accepted, and no text disappears.
ImplementsPublication == Publications!Spec

\* Said of the sweep (notes.go:437): it deletes "notes opened at /write that
\* were never written to or published".
SweepSparesPublished ==
    [][\A n \in present \ present' : ~rows[n].ranked]_vars

\* A note that becomes public does so with the reach its author last chose.
PublishedAsChosen ==
    [][\A n \in present \cap present' :
          ~rows[n].published /\ rows'[n].published
          => rows'[n].reach = EditorReach(rows[n])]_vars
=============================================================================
