------------------------------ MODULE NoteRow ------------------------------
(***************************************************************************)
(* One row of the notes table, and what each handler does to the row it    *)
(* holds locked.  The operators here are the row updates themselves; the   *)
(* modules that extend this one say which transaction runs them and when.  *)
(*                                                                         *)
(* Text is abstracted to a title and a body drawn from small sets.  Times  *)
(* are abstracted to whether a timestamp is set.  The rows of note_tags    *)
(* and links that belong to a note are abstracted to `index', the body     *)
(* they were last computed from.                                           *)
(***************************************************************************)
EXTENDS Naturals

CONSTANTS
    Notes,      \* note ids
    Titles,     \* trimmed titles, Blank among them
    Bodies,     \* bodies, Empty among them
    Blank,      \* the title ''
    Empty,      \* the body ''
    SlugNames,  \* what kebabSlug can return for a title
    Kebab,      \* kebabSlug: Null for a title without letters and digits
    DraftLike,  \* the slug names that begin with "draft-"
    Null        \* SQL NULL, and "not given" in a request

ASSUME TextAssumption ==
    /\ Blank \in Titles
    /\ Empty \in Bodies
    /\ Kebab \in [Titles -> SlugNames \cup {Null}]
    /\ Kebab[Blank] = Null
    /\ DraftLike \subseteq SlugNames
    /\ Null \notin SlugNames

Doc == [title : Titles, body : Bodies]
ASSUME NullIsNoDoc == Null \notin Doc

Reach == {"public", "semi"}
ASSUME NullIsNoReach == Null \notin Reach

EmptyDoc == [title |-> Blank, body |-> Empty]

\* A note's slug is the random one createDraft gives it, the fallback for a
\* title kebabSlug cannot spell, or the kebab form of a title.
DraftSlug(n) == <<"draft", n>>
FallbackSlug(n) == <<"note", n>>
TitleSlug(s) == <<"title", s>>
Slugs == {"draft", "note"} \X Notes \cup {"title"} \X SlugNames

HasDraftPrefix(slug) == slug[1] = "draft" \/ (slug[1] = "title" /\ slug[2] \in DraftLike)

Row ==
    [slug : Slugs,
     doc : Doc,                     \* title, body_md: what readers see
     draft : Doc \cup {Null},       \* draft_title, draft_body_md
     reach : Reach,                 \* distribution
     draftReach : Reach \cup {Null}, \* draft_distribution
     published : BOOLEAN,           \* published_at IS NOT NULL
     hidden : BOOLEAN,              \* hidden_at IS NOT NULL (moderation)
     deleted : BOOLEAN,             \* deleted_at IS NOT NULL
     version : Nat,                 \* edit_version
     ranked : BOOLEAN,              \* feed_rank, first_published_at set
     index : Bodies]                \* what note_tags and links were built from

Coalesce(x, y) == IF x = Null THEN y ELSE x

\* What the editor shows for a row: pending text over published text.
EditorDoc(row) == Coalesce(row.draft, row.doc)
EditorReach(row) == Coalesce(row.draftReach, row.reach)

\* The rows an author can still act on, as every author-side WHERE clause has it.
Available(row) == ~row.deleted /\ ~row.hidden

NewRow(slug, doc, reach) ==
    [slug |-> slug, doc |-> doc, draft |-> Null, reach |-> reach,
     draftReach |-> Null, published |-> FALSE, hidden |-> FALSE,
     deleted |-> FALSE, version |-> 0, ranked |-> FALSE, index |-> doc.body]

FreshDraft(n) == NewRow(DraftSlug(n), EmptyDoc, "semi")

\* feedrank.Assign, as far as one row shows it: ranked once, and only if published.
Assigned(row) == [row EXCEPT !.ranked = @ \/ row.published]

\* The slug PatchNote computes from the row it read before its transaction.
PatchSlug(n, row, title) ==
    IF title = Blank \/ row.published THEN row.slug
    ELSE IF Kebab[title] # Null THEN TitleSlug(Kebab[title])
    ELSE IF HasDraftPrefix(row.slug) THEN FallbackSlug(n)
    ELSE row.slug

\* The two branches of autosaveNoteDocument: a public note keeps its text and
\* the new text waits beside it; a private one takes it, with the slug.

\* Mutant of SavedAside: edit_version is left alone.
SavedAsideUnversioned(row, doc, reach) ==
    [row EXCEPT !.draft = doc, !.draftReach = Coalesce(reach, @)]

SavedAside(row, doc, reach) ==
    [row EXCEPT !.draft = doc, !.draftReach = Coalesce(reach, @), !.version = @ + 1]

SavedInPlace(row, slug, doc, reach) ==
    [row EXCEPT !.doc = doc, !.draft = Null, !.slug = slug, !.index = doc.body,
                !.draftReach = Coalesce(reach, @), !.version = @ + 1]

\* Mutant of Autosaved: published_at is not read again under the lock.
AutosavedAsRead(row, slug, doc, reach) == SavedInPlace(row, slug, doc, reach)

Autosaved(row, slug, doc, reach) ==
    IF row.published THEN SavedAside(row, doc, reach)
                     ELSE SavedInPlace(row, slug, doc, reach)

\* publishDocument: refused for a blank title, else the pending text and reach
\* become the public ones and everything derived from the text is rebuilt.
Publishable(row) == Available(row) /\ EditorDoc(row).title # Blank

\* Mutant of PublishedRow: tags and links are not rebuilt.
PublishedStaleIndex(row) ==
    Assigned([row EXCEPT !.doc = EditorDoc(row), !.draft = Null,
                         !.reach = EditorReach(row), !.draftReach = Null,
                         !.published = TRUE, !.version = @ + 1])

PublishedRow(row) ==
    Assigned([row EXCEPT !.doc = EditorDoc(row), !.draft = Null,
                         !.reach = EditorReach(row), !.draftReach = Null,
                         !.published = TRUE, !.version = @ + 1,
                         !.index = EditorDoc(row).body])

\* PostManageNotes, one row at a time.

Manageable(row) == row.doc.title # Blank /\ ~HasDraftPrefix(row.slug)

\* Mutant of Managed: published without feedrank.Assign.
ManagedUnranked(row, action) ==
    CASE action = "publish" -> [row EXCEPT !.published = TRUE]
      [] action = "hide"    -> [row EXCEPT !.published = FALSE]
      [] action = "delete"  -> [row EXCEPT !.deleted = TRUE]

\* Mutant of Managed: showing a note again drops its pending text.
ManagedForgets(row, action) ==
    CASE action = "publish" -> Assigned([row EXCEPT !.published = TRUE, !.draft = Null])
      [] action = "hide"    -> [row EXCEPT !.published = FALSE]
      [] action = "delete"  -> [row EXCEPT !.deleted = TRUE]

Managed(row, action) ==
    CASE action = "publish" -> Assigned([row EXCEPT !.published = TRUE])
      [] action = "hide"    -> [row EXCEPT !.published = FALSE]
      [] action = "delete"  -> [row EXCEPT !.deleted = TRUE]

\* The rows sweepOrphanDrafts may delete once they are old enough.
Orphan(row) == ~row.published /\ row.doc = EmptyDoc

----------------------------------------------------------------------------
(* What a row means to its author and its readers, for Publication *)

HasTitle(doc) == doc.title # Blank

RowState(row) ==
    IF row.deleted THEN "deleted" ELSE IF row.published THEN "public" ELSE "private"

View(s, h, f, b) == [state |-> s, hidden |-> h, front |-> f, back |-> b]

\* Of a row in the table.
SeenRow(row) ==
    View(RowState(row), row.hidden,
         [doc |-> row.doc, reach |-> row.reach],
         [doc |-> EditorDoc(row), reach |-> EditorReach(row)])
=============================================================================
