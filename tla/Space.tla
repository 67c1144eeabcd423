------------------------------- MODULE Space -------------------------------
(***************************************************************************)
(* "My space" (spaces.go): a private document that lists the author's      *)
(* notes, the pages that edit it (space-editor.js), and its publication,   *)
(* which may publish drafts among its children and change the reach of     *)
(* others, while the children live their own life.                         *)
(*                                                                         *)
(* PutSpace is two actions: it counts its children before it writes the    *)
(* document, and locks none of them.  PublishSpace locks the space and all *)
(* its children and is one.  A document is abstracted to whether it has a  *)
(* title and to its note blocks; the handlers of the children (see Notes)  *)
(* are one action each.  A deleted child looks here like one moderated for *)
(* good, so ModerateChild stands for both.                                 *)
(***************************************************************************)
EXTENDS NoteRow

CONSTANTS
    Tabs,        \* pages that edit the space
    MaxVersion,  \* bound on the edit_version a child's own editor reaches
    MaxRevision  \* bound on the space's revision, and so on its publishes

ASSUME SpaceAssumption == MaxVersion \in Nat /\ MaxRevision \in Nat /\ Null \notin Nat

VARIABLES
    rows,   \* the author's notes
    space,  \* the author's row of user_spaces; revision 0 while there is none
    tab     \* per page: what it loaded, and its PUT between count and write

vars == <<rows, space, tab>>

\* Per listed note, the reach the document asks for, if any.
Blocks == UNION {[S -> Reach \cup {Null}] : S \in SUBSET Notes}
Document == [titled : BOOLEAN, blocks : Blocks]
ASSUME NullIsNoDocument == Null \notin Document

Untouched == [titled |-> TRUE, blocks |-> [n \in {} |-> Null]]

SpaceRow ==
    [revision : Nat,
     document : Document,
     listed : SUBSET Notes]  \* note blocks of the public document, none before the first

Page ==
    [revision : Nat,
     document : Document,          \* the document that revision stands for (history)
     put : Document \cup {Null}]

TypeOK ==
    /\ rows \in [Notes -> Row]
    /\ space \in SpaceRow
    /\ tab \in [Tabs -> Page]

\* A page as GetSpace fills it.
Loaded(row) == [revision |-> row.revision, document |-> row.document, put |-> Null]

Init ==
    /\ rows = [n \in Notes |-> FreshDraft(n)]
    /\ space = [revision |-> 0, document |-> Untouched, listed |-> {}]
    /\ tab = [t \in Tabs |-> Loaded(space)]

----------------------------------------------------------------------------
(* The children *)

SaveChild(n, doc, reach) ==
    /\ Available(rows[n])
    /\ rows[n].version < MaxVersion
    /\ rows' = [rows EXCEPT ![n] = Autosaved(@, PatchSlug(n, @, doc.title), doc, reach)]
    /\ UNCHANGED <<space, tab>>

PublishChild(n) ==
    /\ Publishable(rows[n])
    /\ rows[n].version < MaxVersion
    /\ rows' = [rows EXCEPT ![n] = PublishedRow(@)]
    /\ UNCHANGED <<space, tab>>

ManageChild(n, action) ==
    /\ Available(rows[n])
    /\ action = "publish" => Manageable(rows[n])
    /\ rows' = [rows EXCEPT ![n] = Managed(@, action)]
    /\ UNCHANGED <<space, tab>>

ModerateChild(n, hide) ==
    /\ rows' = [rows EXCEPT ![n].hidden = hide]
    /\ UNCHANGED <<space, tab>>

----------------------------------------------------------------------------
(* The space *)

\* A page is opened or reloaded, whatever it was waiting for.
GetSpace(t) ==
    /\ tab' = [tab EXCEPT ![t] = Loaded(space)]
    /\ UNCHANGED <<rows, space>>

\* PutSpace up to the count of its children.
PutCount(t, document) ==
    /\ tab[t].put = Null
    /\ \A n \in DOMAIN document.blocks : Available(rows[n])
    /\ tab' = [tab EXCEPT ![t].put = document]
    /\ UNCHANGED <<rows, space>>

\* Mutant of Current: a page that found no space overwrites the one made since.
CurrentOrFirst(t) == tab[t].revision \in {0, space.revision}

\* INSERT ... ON CONFLICT DO NOTHING for revision 0, else UPDATE ... WHERE revision.
Current(t) == tab[t].revision = space.revision

\* The document is written.  The page hears of it, or the answer is lost.
PutSpace(t) ==
    LET revision == space.revision + 1 IN
    /\ tab[t].put # Null
    /\ Current(t)
    /\ revision <= MaxRevision
    /\ space' = [space EXCEPT !.revision = revision, !.document = tab[t].put]
    /\ \/ tab' = [tab EXCEPT ![t].revision = revision, ![t].document = tab[t].put, ![t].put = Null]
       \/ tab' = [tab EXCEPT ![t].put = Null]
    /\ UNCHANGED rows

\* 409, or no answer although nothing was written.
PutFails(t) ==
    /\ tab[t].put # Null
    /\ tab' = [tab EXCEPT ![t].put = Null]
    /\ UNCHANGED <<rows, space>>

\* Mutants of ListedRow: a listed child is published, drafts of a public one
\* included; its new reach is not a new version; an older pending reach stays.
ListedPublished(row, reach) == PublishedRow([row EXCEPT !.draftReach = Coalesce(reach, @)])
ListedUnversioned(row, reach) ==
    IF ~row.published THEN PublishedRow([row EXCEPT !.draftReach = Coalesce(reach, @)])
    ELSE IF reach # Null THEN [row EXCEPT !.reach = reach, !.draftReach = Null]
    ELSE row
ListedAtReach(row, reach) ==
    IF ~row.published THEN PublishedRow([row EXCEPT !.reach = Coalesce(reach, @)])
    ELSE IF reach # Null THEN [row EXCEPT !.reach = reach, !.version = @ + 1]
    ELSE row

\* What publishing the space does to a child it lists, with the reach it asks for:
\* a draft is published; of a public child only the reach changes.
ListedRow(row, reach) ==
    IF ~row.published THEN PublishedRow([row EXCEPT !.draftReach = Coalesce(reach, @)])
    ELSE IF reach # Null THEN [row EXCEPT !.reach = reach, !.draftReach = Null, !.version = @ + 1]
    ELSE row

\* Mutant of Listed: every child is.
ListedAll(ids) == DOMAIN space.document.blocks

\* The children that are public already or that the author ticked.
Listed(ids) == {n \in DOMAIN space.document.blocks : rows[n].published \/ n \in ids}

\* The page then leaves for the public space, or the answer is lost.
PublishSpace(t, ids) ==
    LET blocks == space.document.blocks IN
    /\ tab[t].put = Null
    /\ space.revision \in 1 .. MaxRevision - 1
    /\ tab[t].revision = space.revision
    /\ space.document.titled
    /\ \A n \in DOMAIN blocks : Available(rows[n])
    /\ ids \subseteq DOMAIN blocks
    /\ \A n \in Listed(ids) : rows[n].published \/ Publishable(rows[n])
    /\ rows' = [n \in Notes |-> IF n \in Listed(ids) THEN ListedRow(rows[n], blocks[n])
                                                     ELSE rows[n]]
    /\ space' = [revision |-> space.revision + 1,
                 document |-> [space.document EXCEPT !.blocks =
                     [n \in DOMAIN blocks |-> IF n \in Listed(ids) THEN Null ELSE blocks[n]]],
                 listed |-> Listed(ids)]
    /\ UNCHANGED tab

----------------------------------------------------------------------------
Child(n) ==
    \/ \E doc \in Doc, reach \in Reach \cup {Null} : SaveChild(n, doc, reach)
    \/ PublishChild(n)
    \/ \E action \in {"publish", "hide"} : ManageChild(n, action)
    \/ \E hide \in BOOLEAN : ModerateChild(n, hide)

Editor(t) ==
    \/ GetSpace(t)
    \/ \E document \in Document : PutCount(t, document)
    \/ PutSpace(t) \/ PutFails(t)
    \/ \E ids \in SUBSET Notes : PublishSpace(t, ids)

Next == (\E n \in Notes : Child(n)) \/ (\E t \in Tabs : Editor(t))

Spec == Init /\ [][Next]_vars

----------------------------------------------------------------------------
(* What must hold *)

SpacePublished == \E t \in Tabs, ids \in SUBSET Notes : PublishSpace(t, ids)

\* Publishing the space changes only the reach of a child that is public
\* already: text its author is still working on stays private, and pending.
UnfinishedTextStaysPrivate ==
    [][SpacePublished => \A n \in Notes : rows[n].published =>
          rows'[n].doc = rows[n].doc /\ rows'[n].draft = rows[n].draft]_vars

\* Publishing the space shows what the author chose and still has: a draft she did
\* not tick stays a draft and out of the public space, and a child removed meanwhile,
\* be it between the count of its PutSpace and the write, is left alone and unlisted.
OnlyChosenChildrenShow ==
    [][\A t \in Tabs, ids \in SUBSET Notes : PublishSpace(t, ids) =>
          \A n \in Notes :
              /\ ~rows[n].published /\ n \notin ids =>
                    ~rows'[n].published /\ n \notin space'.listed
              /\ ~Available(rows[n]) => rows'[n] = rows[n] /\ n \notin space'.listed]_vars

\* The reach asked for in the space is the one readers get, and no reach chosen
\* earlier in the note's own editor can come back and replace it.
ReachAsAsked ==
    [][SpacePublished => \A n \in space'.listed :
          LET asked == space.document.blocks[n] IN
          asked # Null => rows'[n].reach = asked /\ rows'[n].draftReach = Null]_vars

\* Publishing the space gives each child it changes a new edit_version, so that
\* an editor open on the child cannot overwrite the change unnoticed.
ChildEditsAreVersioned ==
    [][\A n \in Notes :
          \/ rows'[n].version > rows[n].version
          \/ EditorDoc(rows'[n]) = EditorDoc(rows[n])
             /\ EditorReach(rows'[n]) = EditorReach(rows[n])]_vars

\* No blind overwrite: a document replaces only the one its page had loaded,
\* also when two pages make the first one, or an answer was lost.
SpaceIsNotOverwritten ==
    [][\A t \in Tabs : PutSpace(t) => tab[t].document = space.document]_vars

Publications == INSTANCE SpacePublication WITH
    notes <- [n \in Notes |-> SeenRow(rows[n])], revision <- space.revision,
    listed <- space.listed, Titled <- HasTitle

\* The pages of the space, with their lost answers and late writes, and the
\* handlers of the children together do nothing to a child that SpacePublication
\* does not allow: the space publishes drafts whole, of public children changes
\* the reach alone, and touches no child that it does not list.
ImplementsSpacePublication == Publications!SpaceSpec
=============================================================================
