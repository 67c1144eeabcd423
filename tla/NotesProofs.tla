---------------------------- MODULE NotesProofs ----------------------------
(***************************************************************************)
(* What holds of Notes for every set of notes, texts and requests and      *)
(* every bound on edit_version.                                            *)
(***************************************************************************)
EXTENDS Notes, NoteRowProofs

----------------------------------------------------------------------------
(* The row updates keep RowInv. *)

\* A fresh draft satisfies the row invariant: its title is blank.
LEMMA FreshDraftInv ==
    ASSUME NEW n \in Notes
    PROVE  RowInv(n, FreshDraft(n))
BY DEF RowInv, FreshDraft, NewRow, EmptyDoc

\* Slugs of different forms differ.
LEMMA SlugKinds ==
    ASSUME NEW n \in Notes
    PROVE  /\ \A m \in Notes : FallbackSlug(m) # DraftSlug(n)
           /\ \A s \in SlugNames : TitleSlug(s) # DraftSlug(n)
           /\ HasDraftPrefix(DraftSlug(n))
BY DEF FallbackSlug, TitleSlug, DraftSlug, HasDraftPrefix

\* A note inserted published satisfies the row invariant.
LEMMA SavedNoteInv ==
    ASSUME NEW n \in Notes, NEW doc \in Doc, NEW s \in SlugNames, doc.title # Blank
    PROVE  LET row == Assigned([NewRow(TitleSlug(s), doc, "public") EXCEPT !.published = TRUE])
           IN  row \in Row /\ RowInv(n, row)
<1> DEFINE new == NewRow(TitleSlug(s), doc, "public")
           pub == [new EXCEPT !.published = TRUE]
           row == Assigned(pub)
<1>1. new \in Row
  <2>1. "public" \in Reach BY DEF Reach
  <2>2. QED BY <2>1, SlugTypes, NewRowType
<1>2. pub \in Row BY <1>1 DEF Row
<1>3. row \in Row BY <1>2, AssignedType
<1>4. /\ row.published = TRUE /\ row.ranked = TRUE /\ row.draft = Null
      /\ row.doc = doc /\ row.slug = TitleSlug(s) /\ row.index = doc.body
  BY DEF Assigned, NewRow
<1>5. row.slug # DraftSlug(n) BY <1>4, SlugKinds
<1>6. RowInv(n, row) BY <1>4, <1>5 DEF RowInv
<1>7. QED BY <1>3, <1>6

\* An autosave keeps the row invariant if its slug suits its title.
LEMMA AutosavedInv ==
    ASSUME NEW n \in Notes, NEW row \in Row, RowInv(n, row),
           NEW slug \in Slugs, NEW doc \in Doc, Suits(n, slug, doc),
           NEW reach \in Reach \cup {Null}
    PROVE  RowInv(n, Autosaved(row, slug, doc, reach))
<1>1. CASE row.published
  <2> DEFINE r == SavedAside(row, doc, reach)
  <2>1. /\ r.published = row.published /\ r.doc = row.doc /\ r.slug = row.slug
        /\ r.index = row.index /\ r.ranked = row.ranked
    BY DEF SavedAside, Row
  <2>2. RowInv(n, r) BY <1>1, <2>1 DEF RowInv
  <2>3. QED BY <1>1, <2>2 DEF Autosaved
<1>2. CASE ~row.published
  <2> DEFINE r == SavedInPlace(row, slug, doc, reach)
  <2>1. /\ r.published = row.published /\ r.doc = doc /\ r.slug = slug
        /\ r.index = doc.body /\ r.draft = Null
    BY DEF SavedInPlace, Row
  <2>2. RowInv(n, r) BY <1>2, <2>1 DEF RowInv, Suits
  <2>3. QED BY <1>2, <2>2 DEF Autosaved
<1>3. QED BY <1>1, <1>2

\* Publishing keeps the row invariant: it is refused for a blank title.
LEMMA PublishedRowInv ==
    ASSUME NEW n \in Notes, NEW row \in Row, RowInv(n, row), Publishable(row)
    PROVE  RowInv(n, PublishedRow(row))
<1>1. EditorDoc(row).title # Blank BY DEF Publishable
<1>2. row.slug # DraftSlug(n)
  BY <1>1 DEF EditorDoc, Coalesce, RowInv
<1>3. QED BY <1>1, <1>2, PublishedRowFields DEF RowInv

\* The note manager keeps the row invariant: it publishes titled rows only.
LEMMA ManagedInv ==
    ASSUME NEW n \in Notes, NEW row \in Row, RowInv(n, row),
           NEW action \in {"publish", "hide", "delete"},
           action = "publish" => Manageable(row)
    PROVE  RowInv(n, Managed(row, action))
BY ManagedFields DEF RowInv, Manageable

\* The marks of deletion and moderation do not bear on the row invariant.
LEMMA MarkInv ==
    ASSUME NEW n \in Notes, NEW row \in Row, RowInv(n, row), NEW b \in BOOLEAN
    PROVE  /\ [row EXCEPT !.deleted = b] \in Row /\ RowInv(n, [row EXCEPT !.deleted = b])
           /\ [row EXCEPT !.hidden = b] \in Row /\ RowInv(n, [row EXCEPT !.hidden = b])
<1>1. [row EXCEPT !.deleted = b] \in Row /\ [row EXCEPT !.hidden = b] \in Row
  BY DEF Row
<1>2. RowInv(n, [row EXCEPT !.deleted = b]) BY DEF RowInv, Row
<1>3. RowInv(n, [row EXCEPT !.hidden = b]) BY DEF RowInv, Row
<1>4. QED BY <1>1, <1>2, <1>3

\* PatchNote computes a slug that suits the title it was sent.
LEMMA PatchSlugSuits ==
    ASSUME NEW n \in Notes, NEW row \in Row, RowInv(n, row), NEW doc \in Doc
    PROVE  Suits(n, PatchSlug(n, row, doc.title), doc)
<1>1. SUFFICES ASSUME doc.title # Blank
               PROVE  PatchSlug(n, row, doc.title) # DraftSlug(n)
  BY DEF Suits
<1>2. CASE row.published
  BY <1>1, <1>2 DEF PatchSlug, RowInv
<1>3. CASE ~row.published /\ Kebab[doc.title] # Null
  <2>1. doc.title \in Titles BY DEF Doc
  <2>2. Kebab[doc.title] \in SlugNames BY <1>3, <2>1, TextAssumption
  <2>3. QED BY <1>1, <1>3, <2>2, SlugKinds DEF PatchSlug
<1>4. CASE ~row.published /\ Kebab[doc.title] = Null
  BY <1>1, <1>4, SlugKinds DEF PatchSlug
<1>5. QED BY <1>2, <1>3, <1>4

----------------------------------------------------------------------------
(* The invariant is inductive. *)

\* The empty table satisfies the inductive invariant.
LEMMA InitIInv == Init => IInv
<1>1. SUFFICES ASSUME Init PROVE IInv OBVIOUS
<1>2. TypeOK BY <1>1, FreshDraftType DEF Init, TypeOK
<1>3. \A n \in Notes : RowInv(n, rows[n]) BY <1>1, FreshDraftInv DEF Init
<1>4. \A e \in Requests : PatchInv(patches[e]) BY <1>1 DEF Init, PatchInv
<1>5. QED BY <1>2, <1>3, <1>4 DEF IInv

\* An action that leaves the requests alone has only its rows to account for.
LEMMA RowsStep ==
    ASSUME IInv, patches' = patches, present' \subseteq Notes, swept' \subseteq Notes,
           NEW f, rows' = [n \in Notes |-> f[n]],
           \A n \in Notes : f[n] \in Row /\ RowInv(n, f[n])
    PROVE  IInv'
<1>1. TypeOK' BY DEF IInv, TypeOK
<1>2. (\A n \in Notes : RowInv(n, rows[n]))'
  <2>1. \A n \in Notes : rows'[n] = f[n] OBVIOUS
  <2>2. \A n \in Notes : RowInv(n, rows'[n]) BY <2>1
  <2>3. QED BY <2>2 DEF RowInv
<1>3. (\A e \in Requests : PatchInv(patches[e]))' BY DEF IInv, PatchInv
<1>4. QED BY <1>1, <1>2, <1>3 DEF IInv

\* An action that leaves the rows alone has only the requests to account for.
LEMMA RequestStep ==
    ASSUME IInv, UNCHANGED <<present, swept, rows>>, NEW e \in Requests,
           NEW p \in Patch \cup {Null}, PatchInv(p), patches' = [patches EXCEPT ![e] = p]
    PROVE  IInv'
<1>1. TypeOK' BY DEF IInv, TypeOK
<1>2. (\A n \in Notes : RowInv(n, rows[n]))' BY DEF IInv, RowInv
<1>3. \A d \in Requests : PatchInv(patches'[d]) BY DEF IInv, TypeOK
<1>4. (\A d \in Requests : PatchInv(patches[d]))' BY <1>3 DEF PatchInv
<1>5. QED BY <1>1, <1>2, <1>4 DEF IInv

\* CreateDraft keeps it.
LEMMA CreateDraftIInv ==
    ASSUME IInv, NEW n \in Notes, CreateDraft(n)
    PROVE  IInv'
<1> DEFINE f == [m \in Notes |-> IF m = n THEN FreshDraft(n) ELSE rows[m]]
<1>1. rows' = [m \in Notes |-> f[m]] BY DEF IInv, TypeOK, CreateDraft
<1>2. \A m \in Notes : f[m] \in Row /\ RowInv(m, f[m])
  BY FreshDraftType, FreshDraftInv DEF IInv, TypeOK
<1>3. present' \subseteq Notes /\ swept' \subseteq Notes /\ patches' = patches
  BY DEF IInv, TypeOK, CreateDraft
<1> HIDE DEF f
<1>4. QED BY <1>1, <1>2, <1>3, RowsStep

\* SaveNote keeps it.
LEMMA SaveNoteIInv ==
    ASSUME IInv, NEW n \in Notes, NEW doc \in Doc, SaveNote(n, doc)
    PROVE  IInv'
<1> DEFINE row == Assigned([NewRow(TitleSlug(Kebab[doc.title]), doc, "public")
                               EXCEPT !.published = TRUE])
           f == [m \in Notes |-> IF m = n THEN row ELSE rows[m]]
<1>1. rows' = [m \in Notes |-> f[m]] BY DEF IInv, TypeOK, SaveNote
<1>2. row \in Row /\ RowInv(n, row)
  <2>1. doc.title \in Titles BY DEF Doc
  <2>2. Kebab[doc.title] \in SlugNames BY <2>1, TextAssumption DEF SaveNote
  <2>3. QED BY <2>2, SavedNoteInv DEF SaveNote
<1> HIDE DEF row
<1>3. \A m \in Notes : f[m] \in Row /\ RowInv(m, f[m])
  BY <1>2 DEF IInv, TypeOK
<1>4. present' \subseteq Notes /\ swept' \subseteq Notes /\ patches' = patches
  BY DEF IInv, TypeOK, SaveNote
<1> HIDE DEF f
<1>5. QED BY <1>1, <1>3, <1>4, RowsStep

\* PatchRead keeps it: the slug it computes suits the title.
LEMMA PatchReadIInv ==
    ASSUME IInv, NEW e \in Requests, NEW n \in Notes, NEW doc \in Doc,
           NEW reach \in Reach \cup {Null}, NEW revision \in Revisions(n),
           PatchRead(e, n, doc, revision, reach)
    PROVE  IInv'
<1> DEFINE p == [note |-> n, slug |-> PatchSlug(n, rows[n], doc.title),
                 doc |-> doc, revision |-> revision, reach |-> reach]
<1>1. rows[n] \in Row /\ RowInv(n, rows[n]) BY DEF IInv, TypeOK
<1>2. revision \in Nat \cup {Null} BY <1>1 DEF Revisions, Row
<1>3. PatchSlug(n, rows[n], doc.title) \in Slugs
  <2>1. doc.title \in Titles BY DEF Doc
  <2>2. QED BY <1>1, <2>1, PatchSlugType
<1>4. p \in Patch BY <1>2, <1>3 DEF Patch
<1>5. PatchInv(p) BY <1>1, PatchSlugSuits DEF PatchInv
<1>6. patches' = [patches EXCEPT ![e] = p] /\ UNCHANGED <<present, swept, rows>>
  BY DEF PatchRead
<1> HIDE DEF p
<1>7. QED BY <1>4, <1>5, <1>6, RequestStep

\* A refused autosave keeps it.
LEMMA AutosaveFailsIInv ==
    ASSUME IInv, NEW e \in Requests, AutosaveFails(e)
    PROVE  IInv'
<1>1. PatchInv(Null) BY DEF PatchInv
<1>2. QED BY <1>1, RequestStep DEF AutosaveFails

\* Autosave keeps it, although its slug comes from an earlier state.
LEMMA AutosaveIInv ==
    ASSUME IInv, NEW e \in Requests, Autosave(e)
    PROVE  IInv'
<1> DEFINE p == patches[e]
           row == Autosaved(rows[p.note], p.slug, p.doc, p.reach)
           f == [m \in Notes |-> IF m = p.note THEN row ELSE rows[m]]
<1>1. p \in Patch /\ PatchInv(p) BY DEF IInv, TypeOK, Autosave
<1>2. /\ p.note \in Notes /\ p.slug \in Slugs /\ p.doc \in Doc
      /\ p.reach \in Reach \cup {Null} /\ Suits(p.note, p.slug, p.doc)
  BY <1>1, NullIsNoPatch DEF Patch, PatchInv
<1>3. rows[p.note] \in Row /\ RowInv(p.note, rows[p.note])
  BY <1>2 DEF IInv, TypeOK
<1>4. row \in Row /\ RowInv(p.note, row)
  BY <1>2, <1>3, AutosavedType, AutosavedInv
<1>5. /\ rows' = [m \in Notes |-> f[m]]
      /\ UNCHANGED <<present, swept>>
      /\ patches' = [patches EXCEPT ![e] = Null]
  BY <1>2 DEF IInv, TypeOK, Autosave
<1> HIDE DEF p, row
<1>6. \A m \in Notes : f[m] \in Row /\ RowInv(m, f[m])
  BY <1>4 DEF IInv, TypeOK
<1>7. \A m \in Notes : rows'[m] \in Row /\ RowInv(m, rows'[m]) BY <1>5, <1>6
<1>8. TypeOK' BY <1>5, <1>6 DEF IInv, TypeOK
<1>9. (\A m \in Notes : RowInv(m, rows[m]))' BY <1>7 DEF RowInv
<1>10. \A d \in Requests : PatchInv(patches'[d])
  BY <1>5 DEF IInv, TypeOK, PatchInv
<1>11. (\A d \in Requests : PatchInv(patches[d]))' BY <1>10 DEF PatchInv
<1>12. QED BY <1>8, <1>9, <1>11 DEF IInv

\* PublishNote keeps it.
LEMMA PublishNoteIInv ==
    ASSUME IInv, NEW n \in Notes, NEW revision \in Revisions(n), PublishNote(n, revision)
    PROVE  IInv'
<1> DEFINE f == [m \in Notes |-> IF m = n THEN PublishedRow(rows[n]) ELSE rows[m]]
<1>1. rows[n] \in Row /\ RowInv(n, rows[n]) BY DEF IInv, TypeOK
<1>2. PublishedRow(rows[n]) \in Row /\ RowInv(n, PublishedRow(rows[n]))
  BY <1>1, PublishedRowType, PublishedRowInv DEF PublishNote
<1>3. rows' = [m \in Notes |-> f[m]] BY DEF IInv, TypeOK, PublishNote
<1>4. \A m \in Notes : f[m] \in Row /\ RowInv(m, f[m])
  BY <1>2 DEF IInv, TypeOK
<1>5. present' \subseteq Notes /\ swept' \subseteq Notes /\ patches' = patches
  BY DEF IInv, TypeOK, PublishNote
<1> HIDE DEF f
<1>6. QED BY <1>3, <1>4, <1>5, RowsStep

\* ManageNotes keeps it.
LEMMA ManageNotesIInv ==
    ASSUME IInv, NEW S \in SUBSET Notes, NEW action \in {"publish", "hide", "delete"},
           ManageNotes(S, action)
    PROVE  IInv'
<1> DEFINE f == [n \in Notes |-> IF n \in Targets(S) THEN Managed(rows[n], action) ELSE rows[n]]
<1>1. \A n \in Notes : rows[n] \in Row /\ RowInv(n, rows[n]) BY DEF IInv, TypeOK
<1>2. \A n \in Targets(S) : Managed(rows[n], action) \in Row /\ RowInv(n, Managed(rows[n], action))
  <2>1. Targets(S) \subseteq Notes BY DEF Targets
  <2>2. QED BY <1>1, <2>1, ManagedType, ManagedInv DEF ManageNotes
<1>3. rows' = [n \in Notes |-> f[n]] BY DEF ManageNotes
<1>4. \A n \in Notes : f[n] \in Row /\ RowInv(n, f[n]) BY <1>1, <1>2
<1>5. present' \subseteq Notes /\ swept' \subseteq Notes /\ patches' = patches
  BY DEF IInv, TypeOK, ManageNotes
<1> HIDE DEF f
<1>6. QED BY <1>3, <1>4, <1>5, RowsStep

\* DeleteNote, BulkDeleteDrafts and Moderate set one mark on some rows.
LEMMA MarksIInv ==
    ASSUME IInv,
           \/ \E n \in Notes : DeleteNote(n)
           \/ \E S \in SUBSET Notes : BulkDeleteDrafts(S)
           \/ \E n \in Notes, hide \in BOOLEAN : Moderate(n, hide)
    PROVE  IInv'
<1>1. \A n \in Notes : rows[n] \in Row /\ RowInv(n, rows[n]) BY DEF IInv, TypeOK
<1>2. \A n \in Notes, b \in BOOLEAN :
        /\ [rows[n] EXCEPT !.deleted = b] \in Row /\ RowInv(n, [rows[n] EXCEPT !.deleted = b])
        /\ [rows[n] EXCEPT !.hidden = b] \in Row /\ RowInv(n, [rows[n] EXCEPT !.hidden = b])
  BY <1>1, MarkInv
<1>3. rows \in [Notes -> Row] BY DEF IInv, TypeOK
<1>4. CASE \E n \in Notes : DeleteNote(n)
  <2>1. PICK n \in Notes : DeleteNote(n) BY <1>4
  <2> DEFINE f == [m \in Notes |-> IF m = n THEN [rows[n] EXCEPT !.deleted = TRUE] ELSE rows[m]]
  <2>2. rows' = [m \in Notes |-> f[m]] BY <1>3, <2>1 DEF DeleteNote
  <2>3. \A m \in Notes : f[m] \in Row /\ RowInv(m, f[m]) BY <1>1, <1>2
  <2>4. present' \subseteq Notes /\ swept' \subseteq Notes /\ patches' = patches
    BY <2>1 DEF IInv, TypeOK, DeleteNote
  <2> HIDE DEF f
  <2>5. QED BY <2>2, <2>3, <2>4, RowsStep
<1>5. CASE \E S \in SUBSET Notes : BulkDeleteDrafts(S)
  <2>1. PICK S \in SUBSET Notes : BulkDeleteDrafts(S) BY <1>5
  <2> DEFINE f == [m \in Notes |-> IF m \in S \cap present /\ ~rows[m].published
                                   THEN [rows[m] EXCEPT !.deleted = TRUE] ELSE rows[m]]
  <2>2. rows' = [m \in Notes |-> f[m]] BY <2>1 DEF BulkDeleteDrafts
  <2>3. \A m \in Notes : f[m] \in Row /\ RowInv(m, f[m]) BY <1>1, <1>2
  <2>4. present' \subseteq Notes /\ swept' \subseteq Notes /\ patches' = patches
    BY <2>1 DEF IInv, TypeOK, BulkDeleteDrafts
  <2> HIDE DEF f
  <2>5. QED BY <2>2, <2>3, <2>4, RowsStep
<1>6. CASE \E n \in Notes, hide \in BOOLEAN : Moderate(n, hide)
  <2>1. PICK n \in Notes, hide \in BOOLEAN : Moderate(n, hide) BY <1>6
  <2> DEFINE f == [m \in Notes |-> IF m = n THEN [rows[n] EXCEPT !.hidden = hide] ELSE rows[m]]
  <2>2. rows' = [m \in Notes |-> f[m]] BY <1>3, <2>1 DEF Moderate
  <2>3. \A m \in Notes : f[m] \in Row /\ RowInv(m, f[m]) BY <1>1, <1>2
  <2>4. present' \subseteq Notes /\ swept' \subseteq Notes /\ patches' = patches
    BY <2>1 DEF IInv, TypeOK, Moderate
  <2> HIDE DEF f
  <2>5. QED BY <2>2, <2>3, <2>4, RowsStep
<1>7. QED BY <1>4, <1>5, <1>6

\* The orphan sweep keeps it.
LEMMA SweepIInv ==
    ASSUME IInv, NEW S \in SUBSET Notes, SweepOrphanDrafts(S)
    PROVE  IInv'
<1> DEFINE f == [n \in Notes |-> IF n \in S THEN FreshDraft(n) ELSE rows[n]]
<1>1. rows' = [n \in Notes |-> f[n]] BY DEF SweepOrphanDrafts
<1>2. \A n \in Notes : f[n] \in Row /\ RowInv(n, f[n])
  BY FreshDraftType, FreshDraftInv DEF IInv, TypeOK
<1>3. present' \subseteq Notes /\ swept' \subseteq Notes /\ patches' = patches
  BY DEF IInv, TypeOK, SweepOrphanDrafts
<1> HIDE DEF f
<1>4. QED BY <1>1, <1>2, <1>3, RowsStep

\* Every step keeps the inductive invariant.
LEMMA NextIInv == IInv /\ [Next]_vars => IInv'
<1>1. ASSUME IInv, Next PROVE IInv'
  BY <1>1, CreateDraftIInv, SaveNoteIInv, PatchReadIInv, AutosaveIInv, AutosaveFailsIInv,
     PublishNoteIInv, ManageNotesIInv, MarksIInv, SweepIInv DEF Next
<1>2. ASSUME IInv, UNCHANGED vars PROVE IInv'
  BY <1>2 DEF IInv, TypeOK, RowInv, PatchInv, vars
<1>3. QED BY <1>1, <1>2

----------------------------------------------------------------------------
(* Invariants *)

\* Every reachable state satisfies the inductive invariant.
THEOREM NotesInvariant == Spec => []IInv
BY InitIInv, NextIInv, PTL DEF Spec

\* The table and the requests in flight stay well formed.
THEOREM NotesTypeCorrect == Spec => []TypeOK
<1>1. IInv => TypeOK BY DEF IInv
<1>2. QED BY <1>1, NotesInvariant, PTL

\* Readers only reach notes with a title, a rank and a settled slug.
THEOREM NotesPublishedComplete == Spec => []PublishedIsComplete
<1>1. IInv => PublishedIsComplete BY DEF IInv, TypeOK, RowInv, PublishedIsComplete
<1>2. QED BY <1>1, NotesInvariant, PTL

\* Tags and links describe the text readers see.
THEOREM NotesIndexFollowsText == Spec => []IndexFollowsText
<1>1. IInv => IndexFollowsText BY DEF IInv, TypeOK, RowInv, IndexFollowsText
<1>2. QED BY <1>1, NotesInvariant, PTL

----------------------------------------------------------------------------
(* Action properties: every step changes a row in one of five ways. *)

RowChange(row, new) ==
    \/ new = row
    \/ /\ Available(row)
       /\ \E slug \in Slugs, doc \in Doc, reach \in Reach \cup {Null} :
             new = Autosaved(row, slug, doc, reach)
    \/ Publishable(row) /\ new = PublishedRow(row)
    \/ /\ Available(row)
       /\ \E action \in {"publish", "hide", "delete"} :
             /\ action = "publish" => Manageable(row)
             /\ new = Managed(row, action)
    \/ new = [row EXCEPT !.deleted = TRUE]
    \/ \E hide \in BOOLEAN : new = [row EXCEPT !.hidden = hide]

\* Rows leave the table only in the sweep.
RowsChange ==
    /\ \A n \in present \cap present' : RowChange(rows[n], rows'[n])
    /\ \A n \in present \ present' : Orphan(rows[n])

\* A row that is left alone changes in no way RowsChange forbids.
LEMMA SameRow ==
    ASSUME NEW row
    PROVE  RowChange(row, row)
BY DEF RowChange

\* Every step changes the rows as RowsChange says.
LEMMA NextRowsChange == IInv /\ [Next]_vars => RowsChange
<1>1. SUFFICES ASSUME IInv, [Next]_vars PROVE RowsChange OBVIOUS
<1>2. rows \in [Notes -> Row] /\ present \subseteq Notes BY <1>1 DEF IInv, TypeOK
<1>3. CASE UNCHANGED vars BY <1>3 DEF vars, RowsChange, RowChange
<1>4. CASE \E n \in Notes : CreateDraft(n)
  BY <1>2, <1>4 DEF CreateDraft, RowsChange, RowChange
<1>5. CASE \E n \in Notes, doc \in Doc : SaveNote(n, doc)
  <2>1. PICK n \in Notes, doc \in Doc : SaveNote(n, doc) BY <1>5
  <2>2. \A m \in present : m # n BY <2>1 DEF SaveNote
  <2>3. \A m \in present : rows'[m] = rows[m] BY <1>2, <2>1, <2>2 DEF SaveNote
  <2>4. present \subseteq present' BY <2>1 DEF SaveNote
  <2>5. QED BY <2>3, <2>4 DEF RowsChange, RowChange
<1>6. CASE \E e \in Requests, n \in Notes, doc \in Doc, reach \in Reach \cup {Null} :
              \E revision \in Revisions(n) : PatchRead(e, n, doc, revision, reach)
  BY <1>6 DEF PatchRead, RowsChange, RowChange
<1>7. CASE \E e \in Requests : AutosaveFails(e)
  BY <1>7 DEF AutosaveFails, RowsChange, RowChange
<1>8. CASE \E e \in Requests : Autosave(e)
  <2>1. PICK e \in Requests : Autosave(e) BY <1>8
  <2> DEFINE p == patches[e]
  <2>2. p \in Patch BY <1>1, <2>1 DEF IInv, TypeOK, Autosave
  <2>3. p.note \in Notes /\ p.slug \in Slugs /\ p.doc \in Doc /\ p.reach \in Reach \cup {Null}
    BY <2>2 DEF Patch
  <2>4. /\ rows' = [rows EXCEPT ![p.note] = Autosaved(rows[p.note], p.slug, p.doc, p.reach)]
        /\ Available(rows[p.note]) /\ present' = present
    BY <2>1 DEF Autosave, Accepts
  <2> HIDE DEF p
  <2>5. \A n \in present : n # p.note => rows'[n] = rows[n] BY <1>2, <2>4
  <2>6. rows'[p.note] = Autosaved(rows[p.note], p.slug, p.doc, p.reach) BY <1>2, <2>3, <2>4
  <2>7. RowChange(rows[p.note], rows'[p.note]) BY <2>3, <2>4, <2>6 DEF RowChange
  <2>8. \A n \in present \cap present' : RowChange(rows[n], rows'[n])
    BY <2>5, <2>7, SameRow
  <2>9. QED BY <2>4, <2>8 DEF RowsChange
<1>9. CASE \E n \in Notes : \E revision \in Revisions(n) : PublishNote(n, revision)
  BY <1>2, <1>9 DEF PublishNote, Publishable, RowsChange, RowChange
<1>10. CASE \E S \in SUBSET Notes, action \in {"publish", "hide", "delete"} : ManageNotes(S, action)
  BY <1>2, <1>10 DEF ManageNotes, Targets, RowsChange, RowChange
<1>11. CASE \E n \in Notes : DeleteNote(n)
  BY <1>2, <1>11 DEF DeleteNote, RowsChange, RowChange
<1>12. CASE \E S \in SUBSET Notes : BulkDeleteDrafts(S)
  BY <1>2, <1>12 DEF BulkDeleteDrafts, RowsChange, RowChange
<1>13. CASE \E n \in Notes, hide \in BOOLEAN : Moderate(n, hide)
  <2>1. PICK n \in Notes, hide \in BOOLEAN : Moderate(n, hide) BY <1>13
  <2>2. rows'[n] = [rows[n] EXCEPT !.hidden = hide] BY <1>2, <2>1 DEF Moderate
  <2>3. \A m \in present : m # n => rows'[m] = rows[m] BY <1>2, <2>1 DEF Moderate
  <2>4. present' = present BY <2>1 DEF Moderate
  <2>5. QED BY <2>2, <2>3, <2>4 DEF RowsChange, RowChange
<1>14. CASE \E S \in SUBSET Notes : SweepOrphanDrafts(S)
  BY <1>2, <1>14 DEF SweepOrphanDrafts, RowsChange, RowChange
<1>15. QED BY <1>1, <1>3, <1>4, <1>5, <1>6, <1>7, <1>8, <1>9, <1>10, <1>11, <1>12, <1>13, <1>14 DEF Next

\* The same five ways, by the fields the properties are about.
LEMMA RowChangeFields ==
    ASSUME NEW row \in Row, NEW new, RowChange(row, new)
    PROVE  \/ /\ new.doc = row.doc /\ new.draft = row.draft /\ new.slug = row.slug
              /\ new.reach = row.reach /\ new.draftReach = row.draftReach
           \/ /\ new.version = row.version + 1
              /\ new.published = row.published /\ new.reach = row.reach
              /\ row.published => new.slug = row.slug /\ new.doc = row.doc
           \/ new = PublishedRow(row)
<1>1. CASE new = row BY <1>1
<1>2. CASE \E slug \in Slugs, doc \in Doc, reach \in Reach \cup {Null} :
              new = Autosaved(row, slug, doc, reach)
  BY <1>2, AutosavedFields
<1>3. CASE new = PublishedRow(row) BY <1>3
<1>4. CASE \E action \in {"publish", "hide", "delete"} : new = Managed(row, action)
  BY <1>4, ManagedFields
<1>5. CASE new = [row EXCEPT !.deleted = TRUE] BY <1>5, MarkFields
<1>6. CASE \E hide \in BOOLEAN : new = [row EXCEPT !.hidden = hide] BY <1>6, MarkFields
<1>7. QED BY <1>1, <1>2, <1>3, <1>4, <1>5, <1>6 DEF RowChange

\* The slug of a note that stays public, in one step.
LEMMA SlugPermanentStep ==
    ASSUME NEW row \in Row, NEW new, RowChange(row, new)
    PROVE  row.published /\ new.published => new.slug = row.slug
BY RowChangeFields, PublishedRowFields

\* What an editor shows and edit_version, in one step.
LEMMA EditsVersionedStep ==
    ASSUME NEW row \in Row, NEW new, RowChange(row, new)
    PROVE  \/ new.version > row.version
           \/ EditorDoc(new) = EditorDoc(row) /\ EditorReach(new) = EditorReach(row)
<1>1. row.version \in Nat BY DEF Row
<1>2. \/ new.version = row.version + 1
      \/ /\ new.doc = row.doc /\ new.draft = row.draft
         /\ new.reach = row.reach /\ new.draftReach = row.draftReach
  BY RowChangeFields, PublishedRowFields
<1>3. CASE new.version = row.version + 1 BY <1>1, <1>3
<1>4. CASE /\ new.doc = row.doc /\ new.draft = row.draft
           /\ new.reach = row.reach /\ new.draftReach = row.draftReach
  BY <1>4 DEF EditorDoc, EditorReach
<1>5. QED BY <1>2, <1>3, <1>4

\* Public text and reach, in one step.
LEMMA PublicChangesStep ==
    ASSUME NEW row \in Row, NEW new, RowChange(row, new), row.published, new.published,
           <<new.doc, new.reach>> # <<row.doc, row.reach>>
    PROVE  /\ new.doc = EditorDoc(row) /\ new.reach = EditorReach(row)
           /\ new.draft = Null /\ new.draftReach = Null
<1>1. new.doc # row.doc \/ new.reach # row.reach OBVIOUS
<1>2. new = PublishedRow(row)
  BY <1>1, RowChangeFields
<1>3. QED BY <1>2, PublishedRowFields

\* A moderated or deleted row, in one step.
LEMMA FrozenStep ==
    ASSUME NEW row \in Row, NEW new, RowChange(row, new), ~Available(row)
    PROVE  /\ new = [row EXCEPT !.hidden = new.hidden, !.deleted = new.deleted]
           /\ row.deleted => new.deleted
<1>1. \/ new = row
      \/ new = [row EXCEPT !.deleted = TRUE]
      \/ \E hide \in BOOLEAN : new = [row EXCEPT !.hidden = hide]
  BY DEF RowChange, Publishable
<1>2. QED BY <1>1 DEF Row

\* From one row to all rows in the table.
LEMMA RowsStepOf ==
    ASSUME IInv, [Next]_vars
    PROVE  /\ \A n \in present \cap present' : rows[n] \in Row /\ RowChange(rows[n], rows'[n])
           /\ \A n \in present \ present' : Orphan(rows[n]) /\ RowInv(n, rows[n])
BY NextRowsChange DEF RowsChange, IInv, TypeOK

\* A public note keeps its URL for as long as it stays public.
THEOREM NotesSlugPermanent == Spec => PublishedSlugIsPermanent
<1>1. IInv /\ [Next]_vars =>
        [\A n \in present \cap present' :
           rows[n].published /\ rows'[n].published => rows'[n].slug = rows[n].slug]_vars
  BY RowsStepOf, SlugPermanentStep
<1>2. QED BY <1>1, NotesInvariant, PTL DEF Spec, PublishedSlugIsPermanent

\* Every change an open editor would show moves edit_version on.
THEOREM NotesEditsVersioned == Spec => EditsAreVersioned
<1>1. IInv /\ [Next]_vars =>
        [\A n \in present \cap present' :
           \/ rows'[n].version > rows[n].version
           \/ EditorDoc(rows'[n]) = EditorDoc(rows[n])
              /\ EditorReach(rows'[n]) = EditorReach(rows[n])]_vars
  BY RowsStepOf, EditsVersionedStep
<1>2. QED BY <1>1, NotesInvariant, PTL DEF Spec, EditsAreVersioned

\* What readers see of a public note changes only by publishing what is pending.
THEOREM NotesPublicChanges == Spec => PublicChangesOnlyByPublish
<1>1. IInv /\ [Next]_vars =>
        [\A n \in present \cap present' :
           /\ rows[n].published /\ rows'[n].published
           /\ <<rows'[n].doc, rows'[n].reach>> # <<rows[n].doc, rows[n].reach>>
           => /\ rows'[n].doc = EditorDoc(rows[n])
              /\ rows'[n].reach = EditorReach(rows[n])
              /\ rows'[n].draft = Null /\ rows'[n].draftReach = Null]_vars
  BY RowsStepOf, PublicChangesStep
<1>2. QED BY <1>1, NotesInvariant, PTL DEF Spec, PublicChangesOnlyByPublish

\* A moderated or deleted note is frozen.
THEOREM NotesFrozen == Spec => UnavailableIsFrozen
<1>1. IInv /\ [Next]_vars =>
        [\A n \in present \cap present' : ~Available(rows[n]) =>
           /\ rows'[n] = [rows[n] EXCEPT !.hidden = rows'[n].hidden, !.deleted = rows'[n].deleted]
           /\ rows[n].deleted => rows'[n].deleted]_vars
  BY RowsStepOf, FrozenStep
<1>2. QED BY <1>1, NotesInvariant, PTL DEF Spec, UnavailableIsFrozen

\* The orphan sweep removes no row with text in it, pending text included.
THEOREM NotesSweepSparesText == Spec => SweepSparesText
<1>1. ASSUME NEW n \in Notes, NEW row \in Row, Orphan(row), RowInv(n, row)
      PROVE  EditorDoc(row) = EmptyDoc
  BY <1>1 DEF Orphan, RowInv, EditorDoc, Coalesce, EmptyDoc
<1>2. IInv /\ [Next]_vars =>
        [\A n \in present \ present' : EditorDoc(rows[n]) = EmptyDoc]_vars
  BY <1>1, RowsStepOf DEF IInv, TypeOK
<1>3. QED BY <1>2, NotesInvariant, PTL DEF Spec, SweepSparesText

----------------------------------------------------------------------------
(* Notes implements Publication. *)

May(x, y) == x = y \/ Publications!Step(x, y)

\* The operators of Publication on single notes do not depend on the table.
LEMMA SameOperators == \A x, y :
   /\ Contract!Open(x) <=> Publications!Open(x)
   /\ Contract!Absent = Publications!Absent
   /\ Contract!Create(x, y) <=> Publications!Create(x, y)
   /\ Contract!Edit(x, y) <=> Publications!Edit(x, y)
   /\ Contract!Publish(x, y) <=> Publications!Publish(x, y)
   /\ Contract!Show(x, y) <=> Publications!Show(x, y)
   /\ Contract!Withdraw(x, y) <=> Publications!Withdraw(x, y)
   /\ Contract!Delete(x, y) <=> Publications!Delete(x, y)
   /\ Contract!Moderate(x, y) <=> Publications!Moderate(x, y)
   /\ Contract!Forget(x, y) <=> Publications!Forget(x, y)
<1> TAKE x, y
<1>1. Contract!Open(x) <=> Publications!Open(x) BY DEF Contract!Open, Publications!Open
<1>2. Contract!Absent = Publications!Absent BY DEF Contract!Absent, Publications!Absent, Contract!Fresh, Publications!Fresh
<1>3. Contract!Create(x, y) <=> Publications!Create(x, y) BY <1>2 DEF Contract!Create, Publications!Create
<1>4. Contract!Edit(x, y) <=> Publications!Edit(x, y) BY <1>1 DEF Contract!Edit, Publications!Edit, Contract!Face, Publications!Face
<1>5. Contract!Publish(x, y) <=> Publications!Publish(x, y) BY <1>1 DEF Contract!Publish, Publications!Publish
<1>6. Contract!Show(x, y) <=> Publications!Show(x, y) BY <1>1 DEF Contract!Show, Publications!Show
<1>7. Contract!Withdraw(x, y) <=> Publications!Withdraw(x, y) BY <1>1 DEF Contract!Withdraw, Publications!Withdraw
<1>8. Contract!Delete(x, y) <=> Publications!Delete(x, y) BY <1>1 DEF Contract!Delete, Publications!Delete
<1>9. Contract!Moderate(x, y) <=> Publications!Moderate(x, y) BY <1>1 DEF Contract!Moderate, Publications!Moderate
<1>10. Contract!Forget(x, y) <=> Publications!Forget(x, y) BY <1>2 DEF Contract!Forget, Publications!Forget
<1>11. QED BY <1>1, <1>2, <1>3, <1>4, <1>5, <1>6, <1>7, <1>8, <1>9, <1>10

\* What the row updates do to a view does not depend on who else is in the table.
LEMMA RowMayIsMay == \A x, y : RowMay(x, y) => May(x, y)
BY SameOperators DEF RowMay, May, Contract!Step, Publications!Step

\* What a step may make of a row that stays in the table is allowed by Publication.
LEMMA RowChangeIsAllowed ==
    ASSUME NEW row \in Row, NEW new, RowChange(row, new)
    PROVE  May(SeenRow(row), SeenRow(new))
<1> SUFFICES RowMay(SeenRow(row), SeenRow(new)) BY RowMayIsMay
<1>1. CASE new = row BY <1>1 DEF RowMay
<1>2. CASE /\ Available(row)
           /\ \E slug \in Slugs, doc \in Doc, reach \in Reach \cup {Null} :
                 new = Autosaved(row, slug, doc, reach)
  BY <1>2, AutosavedIsEdit
<1>3. CASE Publishable(row) /\ new = PublishedRow(row)
  BY <1>3, PublishedIsPublish DEF RowMay, Contract!Step
<1>4. CASE /\ Available(row)
           /\ \E action \in {"publish", "hide", "delete"} :
                 (action = "publish" => Manageable(row)) /\ new = Managed(row, action)
  BY <1>4, ManagedIsManaged
<1>5. CASE new = [row EXCEPT !.deleted = TRUE] BY <1>5, MarksAreMarks
<1>6. CASE \E hide \in BOOLEAN : new = [row EXCEPT !.hidden = hide] BY <1>6, MarksAreMarks
<1>7. QED BY <1>1, <1>2, <1>3, <1>4, <1>5, <1>6 DEF RowChange

----------------------------------------------------------------------------
(* Rows that enter the table, leave it or stay outside *)

\* The row createDraft or saveNote inserts.
InsertedRow(doc, s) == Assigned([NewRow(TitleSlug(s), doc, "public") EXCEPT !.published = TRUE])
Inserted(n, row) ==
    \/ row = FreshDraft(n)
    \/ \E doc \in Doc, s \in SlugNames : doc.title # Blank /\ row = InsertedRow(doc, s)

\* Outside the table a row is blank: nothing of a swept note is left.
AbsentInv == \A n \in Notes \ present : rows[n] = FreshDraft(n)

TableChange ==
    /\ \A n \in present \ present' : n \in swept' /\ rows'[n] = FreshDraft(n)
    /\ \A n \in present' \ present : n \notin swept /\ Inserted(n, rows'[n])
    /\ \A n \in Notes \ (present \cup present') :
          rows'[n] = rows[n] /\ (n \in swept' <=> n \in swept)

\* Every step changes the table as TableChange says.
LEMMA NextTableChange == IInv /\ [Next]_vars => TableChange
<1>1. SUFFICES ASSUME IInv, [Next]_vars PROVE TableChange OBVIOUS
<1>2. rows \in [Notes -> Row] /\ present \subseteq Notes BY <1>1 DEF IInv, TypeOK
<1>3. CASE UNCHANGED vars BY <1>3 DEF vars, TableChange
<1>4. CASE \E n \in Notes : CreateDraft(n)
  BY <1>2, <1>4 DEF CreateDraft, TableChange, Inserted
<1>5. CASE \E n \in Notes, doc \in Doc : SaveNote(n, doc)
  <2>1. PICK n \in Notes, doc \in Doc : SaveNote(n, doc) BY <1>5
  <2>2. Kebab[doc.title] \in SlugNames
    <3>1. doc.title \in Titles BY DEF Doc
    <3>2. QED BY <2>1, <3>1, TextAssumption DEF SaveNote
  <2>3. rows' = [rows EXCEPT ![n] = InsertedRow(doc, Kebab[doc.title])]
    BY <2>1 DEF SaveNote, InsertedRow
  <2>4. /\ present' = present \cup {n} /\ n \notin present \cup swept /\ swept' = swept
        /\ doc.title # Blank
    BY <2>1 DEF SaveNote
  <2>5. Inserted(n, rows'[n]) BY <1>2, <2>2, <2>3, <2>4 DEF Inserted
  <2>6. \A m \in Notes : m # n => rows'[m] = rows[m] BY <1>2, <2>3
  <2>7. QED BY <2>4, <2>5, <2>6 DEF TableChange
<1>6. CASE \E e \in Requests, n \in Notes, doc \in Doc, reach \in Reach \cup {Null} :
              \E revision \in Revisions(n) : PatchRead(e, n, doc, revision, reach)
  BY <1>6 DEF PatchRead, TableChange
<1>7. CASE \E e \in Requests : AutosaveFails(e) BY <1>7 DEF AutosaveFails, TableChange
<1>8. CASE \E e \in Requests : Autosave(e)
  <2>1. PICK e \in Requests : Autosave(e) BY <1>8
  <2> DEFINE p == patches[e]
  <2>2. /\ p.note \in present /\ present' = present /\ swept' = swept
        /\ rows' = [rows EXCEPT ![p.note] = Autosaved(rows[p.note], p.slug, p.doc, p.reach)]
    BY <2>1 DEF Autosave, Accepts
  <2> HIDE DEF p
  <2>3. \A n \in Notes \ present : rows'[n] = rows[n] BY <1>2, <2>2
  <2>4. QED BY <2>2, <2>3 DEF TableChange
<1>9. CASE \E n \in Notes : \E revision \in Revisions(n) : PublishNote(n, revision)
  BY <1>2, <1>9 DEF PublishNote, TableChange
<1>10. CASE \E S \in SUBSET Notes, action \in {"publish", "hide", "delete"} : ManageNotes(S, action)
  BY <1>2, <1>10 DEF ManageNotes, Targets, TableChange
<1>11. CASE \E n \in Notes : DeleteNote(n)
  BY <1>2, <1>11 DEF DeleteNote, TableChange
<1>12. CASE \E S \in SUBSET Notes : BulkDeleteDrafts(S)
  BY <1>2, <1>12 DEF BulkDeleteDrafts, TableChange
<1>13. CASE \E n \in Notes, hide \in BOOLEAN : Moderate(n, hide)
  BY <1>2, <1>13 DEF Moderate, TableChange
<1>14. CASE \E S \in SUBSET Notes : SweepOrphanDrafts(S)
  BY <1>2, <1>14 DEF SweepOrphanDrafts, TableChange
<1>15. QED BY <1>1, <1>3, <1>4, <1>5, <1>6, <1>7, <1>8, <1>9, <1>10, <1>11, <1>12, <1>13, <1>14 DEF Next

\* Rows outside the table are blank in every reachable state.
LEMMA AbsentInvariant == Spec => [](IInv /\ AbsentInv)
<1>1. Init => AbsentInv BY DEF Init, AbsentInv
<1>2. IInv /\ AbsentInv /\ [Next]_vars => AbsentInv'
  BY NextTableChange DEF AbsentInv, TableChange, FreshDraft, DraftSlug
<1>3. QED BY <1>1, <1>2, NotesInvariant, PTL DEF Spec

----------------------------------------------------------------------------
(* The refinement *)

\* What Seen says of note n, of its membership and row.
SeenOf(n, P, W, row) ==
    View(IF n \in P THEN RowState(row) ELSE IF n \in W THEN "gone" ELSE "absent",
         row.hidden,
         [doc |-> row.doc, reach |-> row.reach],
         [doc |-> EditorDoc(row), reach |-> EditorReach(row)])

\* Before and after a step.
LEMMA SeenIsSeenOf ==
    ASSUME NEW n \in Notes
    PROVE  /\ Seen(n) = SeenOf(n, present, swept, rows[n])
           /\ Seen(n)' = SeenOf(n, present', swept', rows'[n])
BY DEF Seen, StateOf, SeenOf, View, RowState, EditorDoc, EditorReach, Coalesce

\* A fresh row outside the table is absent, or gone if it was swept.
LEMMA FreshIsSeen ==
    ASSUME NEW n \in Notes, NEW row, row = FreshDraft(n), NEW P, NEW W
    PROVE  /\ n \in P => SeenOf(n, P, W, row) = [Publications!Absent EXCEPT !.state = "private"]
           /\ n \notin P /\ n \in W =>
                SeenOf(n, P, W, row) = [Publications!Absent EXCEPT !.state = "gone"]
           /\ n \notin P /\ n \notin W => SeenOf(n, P, W, row) = Publications!Absent
<1> DEFINE f == Publications!Fresh
           h == FALSE
           x == Publications!Absent
           y == SeenOf(n, P, W, row)
<1>1. /\ row.doc = EmptyDoc /\ row.reach = "semi" /\ row.hidden = h
      /\ RowState(row) = "private" /\ EditorDoc(row) = EmptyDoc /\ EditorReach(row) = "semi"
  BY DEF FreshDraft, NewRow, RowState, EditorDoc, EditorReach, Coalesce
<1>2. f = [doc |-> EmptyDoc, reach |-> "semi"] BY DEF Publications!Fresh
<1>3. x = View("absent", h, f, f) BY DEF View, Publications!Absent
<1> HIDE DEF f, h, x
<1>4. /\ n \in P => y = View("private", h, f, f)
      /\ n \notin P /\ n \in W => y = View("gone", h, f, f)
      /\ n \notin P /\ n \notin W => y = View("absent", h, f, f)
  BY <1>1, <1>2 DEF SeenOf
<1>5. /\ [x EXCEPT !.state = "private"] = View("private", h, f, f)
      /\ [x EXCEPT !.state = "gone"] = View("gone", h, f, f)
  BY <1>3 DEF View
<1>6. QED BY <1>3, <1>4, <1>5 DEF x

\* What saveNote inserts is created public, with the text it was sent.
LEMMA InsertedIsCreated ==
    ASSUME NEW doc \in Doc, NEW s \in SlugNames, doc.title # Blank
    PROVE  Publications!Create(Publications!Absent, SeenRow(InsertedRow(doc, s)))
<1> DEFINE row == InsertedRow(doc, s)
           x == Publications!Absent
           y == SeenRow(row)
           f == [doc |-> doc, reach |-> "public"]
           g == Publications!Fresh
           h == FALSE
<1>1. /\ row.doc = doc /\ row.reach = "public" /\ row.hidden = h
      /\ row.published = TRUE /\ row.deleted = FALSE
      /\ row.draft = Null /\ row.draftReach = Null
  BY DEF InsertedRow, Assigned, NewRow
<1>2. EditorDoc(row) = doc /\ EditorReach(row) = "public" /\ RowState(row) = "public"
  BY <1>1 DEF EditorDoc, EditorReach, Coalesce, RowState
<1>3. x = View("absent", h, g, g) BY DEF View, Publications!Absent
<1>4. f.doc = doc /\ f.reach = "public" OBVIOUS
<1> HIDE DEF row, h, g
<1>5. y = View("public", h, f, f) BY <1>1, <1>2 DEF SeenRow
<1> HIDE DEF x, y, f
<1>6. y = [x EXCEPT !.state = "public", !.front = f, !.back = f]
  <2> DEFINE u == [x EXCEPT !.state = "public"]
             v == [u EXCEPT !.front = f]
  <2>1. u = View("public", h, g, g) BY <1>3 DEF View
  <2>2. [x EXCEPT !.state = "public", !.front = f, !.back = f] = [v EXCEPT !.back = f] OBVIOUS
  <2> HIDE DEF u
  <2>3. v = View("public", h, f, g) BY <2>1 DEF View
  <2> HIDE DEF v
  <2>4. [v EXCEPT !.back = f] = y BY <1>5, <2>3 DEF View
  <2>5. QED BY <2>2, <2>4
<1>7. y.front = f BY <1>5, ViewParts
<1>8. HasTitle(y.front.doc) /\ y.front.reach = "public" BY <1>4, <1>7 DEF HasTitle
<1>9. y = [x EXCEPT !.state = "public", !.front = y.front, !.back = y.front] BY <1>6, <1>7
<1>10. Publications!Create(x, y) BY <1>8, <1>9 DEF Publications!Create, x
<1>11. QED BY <1>10 DEF x, y, row

\* Every step does to every note what Publication allows.
LEMMA NextIsAllowed ==
    ASSUME IInv, AbsentInv, [Next]_vars, NEW n \in Notes
    PROVE  May(SeenOf(n, present, swept, rows[n]), SeenOf(n, present', swept', rows'[n]))
<1> DEFINE x == SeenOf(n, present, swept, rows[n])
           y == SeenOf(n, present', swept', rows'[n])
<1>1. TableChange BY NextTableChange
<1>2. rows[n] \in Row /\ RowInv(n, rows[n]) BY DEF IInv, TypeOK
<1>3. CASE n \in present /\ n \in present'
  <2>1. x = SeenRow(rows[n]) /\ y = SeenRow(rows'[n]) BY <1>3 DEF SeenOf, SeenRow
  <2>2. RowChange(rows[n], rows'[n]) BY <1>3, RowsStepOf
  <2>3. QED BY <1>2, <2>1, <2>2, RowChangeIsAllowed
<1>4. CASE n \in present /\ n \notin present'
  <2>1. n \in swept' /\ rows'[n] = FreshDraft(n) BY <1>1, <1>4 DEF TableChange
  <2>2. y = [Publications!Absent EXCEPT !.state = "gone"] BY <1>4, <2>1, FreshIsSeen
  <2>3. Orphan(rows[n]) BY <1>4, RowsStepOf
  <2>4. rows[n].doc = EmptyDoc /\ EditorDoc(rows[n]) = EmptyDoc
    BY <1>2, <2>3 DEF Orphan, RowInv, EditorDoc, Coalesce, EmptyDoc
  <2>5. /\ x.state \in {"private", "deleted"}
        /\ x.front.doc = EmptyDoc /\ x.back.doc = EmptyDoc
    BY <1>4, <2>3, <2>4 DEF SeenOf, View, RowState, Orphan
  <2>6. Publications!Forget(x, y) BY <2>2, <2>5 DEF Publications!Forget
  <2>7. QED BY <2>6 DEF May, Publications!Step
<1>5. CASE n \notin present /\ n \in present'
  <2>1. n \notin swept /\ Inserted(n, rows'[n]) BY <1>1, <1>5 DEF TableChange
  <2>2. x = Publications!Absent BY <1>5, <2>1, FreshIsSeen DEF AbsentInv
  <2>3. CASE rows'[n] = FreshDraft(n)
    <3>1. y = [x EXCEPT !.state = "private"] BY <1>5, <2>2, <2>3, FreshIsSeen
    <3>2. Publications!Create(x, y) BY <2>2, <3>1 DEF Publications!Create
    <3>3. QED BY <3>2 DEF May, Publications!Step
  <2>4. CASE \E doc \in Doc, s \in SlugNames :
                doc.title # Blank /\ rows'[n] = InsertedRow(doc, s)
    <3>1. y = SeenRow(rows'[n]) BY <1>5 DEF SeenOf, SeenRow
    <3>2. Publications!Create(x, y) BY <2>2, <2>4, <3>1, InsertedIsCreated
    <3>3. QED BY <3>2 DEF May, Publications!Step
  <2>5. QED BY <2>1, <2>3, <2>4 DEF Inserted
<1>6. CASE n \notin present /\ n \notin present'
  <2>1. rows'[n] = rows[n] /\ (n \in swept' <=> n \in swept) BY <1>1, <1>6 DEF TableChange
  <2>2. x = y BY <1>6, <2>1 DEF SeenOf
  <2>3. QED BY <2>2 DEF May
<1>7. QED BY <1>3, <1>4, <1>5, <1>6

\* Autosaves in flight, publishing, the note manager, moderation and the sweep
\* together do to a note only what Publication promises its author and readers.
THEOREM NotesImplementPublication == Spec => ImplementsPublication
<1>1. Init => Publications!Init
  <2>1. SUFFICES ASSUME Init, NEW n \in Notes PROVE Seen(n) = Publications!Absent
    BY DEF Publications!Init
  <2>2. Seen(n) = SeenOf(n, present, swept, rows[n]) BY SeenIsSeenOf
  <2>3. QED BY <2>1, <2>2, FreshIsSeen DEF Init
<1>2. IInv /\ AbsentInv /\ [Next]_vars => [Publications!Next]_[n \in Notes |-> Seen(n)]
  <2>1. SUFFICES ASSUME IInv, AbsentInv, [Next]_vars PROVE Publications!Next OBVIOUS
  <2>2. SUFFICES ASSUME NEW n \in Notes PROVE May(Seen(n), Seen(n)')
    BY DEF Publications!Next, May
  <2>3. May(SeenOf(n, present, swept, rows[n]), SeenOf(n, present', swept', rows'[n]))
    BY <2>1, NextIsAllowed
  <2>4. QED BY <2>3, SeenIsSeenOf
<1>3. QED BY <1>1, <1>2, AbsentInvariant, PTL DEF Spec, ImplementsPublication, Publications!Spec
=============================================================================
