------------------------------- MODULE Editor -------------------------------
(***************************************************************************)
(* The editor page (static/cmeditor.js) of one note, open in any number of *)
(* browser tabs, against PatchNote and PublishNote.                        *)
(*                                                                         *)
(* A tab saves with at most one PATCH in flight and publishes with a save  *)
(* followed by a POST.  Requests and responses may be lost, and a request  *)
(* whose client gave up may still reach the server later (tab = Null).     *)
(* The tabs share one local copy of unsaved text (localStorage).  A        *)
(* request is handled by the server in one step: what PatchNote reads      *)
(* before its transaction decides the slug alone (see Notes).              *)
(***************************************************************************)
EXTENDS NoteRow, FiniteSets

CONSTANTS
    Tabs,       \* browser tabs
    Note,       \* the note they edit
    MaxVersion, \* bound on edit_version
    MaxEdits,   \* bound on the edits and reach choices made in all
    MaxOpens,   \* bound on the times the page is opened
    MaxLate     \* bound on the late requests at a time

ASSUME EditorAssumption ==
    /\ Note \in Notes
    /\ Null \notin Nat \cup Tabs
    /\ MaxVersion \in Nat /\ MaxEdits \in Nat /\ MaxOpens \in Nat /\ MaxLate \in Nat

VARIABLES
    row,    \* the notes row
    tab,    \* per tab: the page's variables
    net,    \* requests on their way to the server
    copy,   \* localStorage["commaplace:draft:" + noteId]; Null when absent
    edits,  \* edits made so far, for the bound alone
    opens   \* pages opened so far, for the bound alone

vars == <<row, tab, net, copy, edits, opens>>

Form == [doc : Doc, reach : Reach]

Msg == [tab : Tabs \cup {Null},   \* the tab that waits for the response, if any still does
        kind : {"patch", "publish"}, form : Form, revision : Nat,
        base : Form]       \* the server text its tab had seen last (history)

Tab ==
    [open : BOOLEAN,
     form : Form,                 \* easymde.value() and the distribution select
     base : Form,                 \* the server text that revision stands for (history)
     revision : Nat,              \* noteRevision
     request : Form \cup {Null},  \* requestValue of the PATCH in flight, if inflight
     saved : Nat \cup {Null},     \* result.revision of the accepted PATCH, on its way
     published : Nat \cup {Null}, \* d.revision of the accepted POST, on its way
     failed : BOOLEAN,            \* lastError
     timer : BOOLEAN,             \* the debounce timer is armed
     waiting : BOOLEAN,           \* a call of save() polls for the one in flight
     publish : {"no", "polling", "saving", "posting"},
     status : {"saved", "dirty", "saving", "error"},
     banner : Doc \cup {Null}]    \* the copy offered for recovery
ASSUME NullIsNoForm == Null \notin Form

TypeOK ==
    /\ row \in Row
    /\ tab \in [Tabs -> Tab]
    /\ net \subseteq Msg
    /\ copy \in Doc \cup {Null}
    /\ edits \in Nat /\ opens \in Nat

ServerForm(r) == [doc |-> EditorDoc(r), reach |-> EditorReach(r)]

\* A page as GetEdit renders it; a local copy that differs is offered.
Page(r, saved) ==
    [open |-> TRUE, form |-> ServerForm(r), base |-> ServerForm(r),
     revision |-> r.version, request |-> Null, saved |-> Null,
     published |-> Null, failed |-> FALSE, timer |-> FALSE,
     waiting |-> FALSE, publish |-> "no", status |-> "saved",
     banner |-> IF saved = EditorDoc(r) THEN Null ELSE saved]

Closed(p) == [p EXCEPT !.open = FALSE]

Init ==
    /\ row = FreshDraft(Note)
    /\ tab = [t \in Tabs |-> Closed(Page(FreshDraft(Note), Null))]
    /\ net = {}
    /\ copy = Null
    /\ edits = 0
    /\ opens = 0

Request(t, kind, p) ==
    [tab |-> t, kind |-> kind, form |-> p.form, revision |-> p.revision, base |-> p.base]

\* save(): the page afterwards, and the requests it sends.  A call made while
\* another save is in flight polls until that one is over.
Saving(p) ==
    IF p.request # Null
    THEN [p EXCEPT !.timer = FALSE, !.waiting = TRUE]
    ELSE [p EXCEPT !.timer = FALSE, !.request = p.form, !.failed = FALSE, !.status = "saving"]

Sent(t, p) == IF p.request # Null THEN {} ELSE {Request(t, "patch", p)}

\* Save the page p, which tab t has just become.
Save(t, p) ==
    /\ tab' = [tab EXCEPT ![t] = Saving(p)]
    /\ net' = net \cup Sent(t, p)

----------------------------------------------------------------------------
(* The writer *)

Open(t) ==
    /\ ~tab[t].open
    /\ opens < MaxOpens
    /\ tab' = [tab EXCEPT ![t] = Page(row, copy)]
    /\ opens' = opens + 1
    /\ UNCHANGED <<row, net, copy, edits>>

\* Typing, and the edits that need no typing and so may come while a publish
\* has made the page read-only: an uploaded image, an imported file.
Edit(t, doc) ==
    /\ tab[t].open
    /\ doc # tab[t].form.doc
    /\ edits < MaxEdits
    /\ copy' = doc
    /\ tab' = [tab EXCEPT ![t].form.doc = doc, ![t].timer = TRUE, ![t].status = "dirty"]
    /\ edits' = edits + 1
    /\ UNCHANGED <<row, net, opens>>

ChooseReach(t, reach) ==
    /\ tab[t].open
    /\ tab[t].publish = "no"
    /\ reach # tab[t].form.reach
    /\ edits < MaxEdits
    /\ Save(t, [tab[t] EXCEPT !.form.reach = reach])
    /\ edits' = edits + 1
    /\ UNCHANGED <<row, copy, opens>>

Autosave(t) ==
    /\ tab[t].open
    /\ tab[t].timer
    /\ Save(t, tab[t])
    /\ UNCHANGED <<row, copy, edits, opens>>

\* The desk asks for a save before it leaves the page (commaDeskSave).  At most
\* one such call waits at a time: more would only poll beside it.
Flush(t) ==
    /\ tab[t].open
    /\ ~tab[t].waiting
    /\ Save(t, tab[t])
    /\ UNCHANGED <<row, copy, edits, opens>>

Recover(t) ==
    /\ tab[t].open
    /\ tab[t].banner # Null
    /\ copy' = IF tab[t].banner = tab[t].form.doc THEN copy ELSE tab[t].banner
    /\ Save(t, [tab[t] EXCEPT !.form.doc = tab[t].banner, !.banner = Null])
    /\ UNCHANGED <<row, edits, opens>>

Discard(t) ==
    /\ tab[t].open
    /\ tab[t].banner # Null
    /\ copy' = Null
    /\ tab' = [tab EXCEPT ![t].banner = Null]
    /\ UNCHANGED <<row, net, edits, opens>>

ClickPublish(t) ==
    /\ tab[t].open
    /\ tab[t].publish = "no"
    /\ IF tab[t].request # Null
       THEN tab' = [tab EXCEPT ![t].publish = "polling", ![t].timer = FALSE] /\ UNCHANGED net
       ELSE Save(t, [tab[t] EXCEPT !.publish = "saving"])
    /\ UNCHANGED <<row, copy, edits, opens>>

\* Nobody waits for t's requests of these kinds any more: each was refused or is
\* lost, or will be late.  A late one that carries an old revision will be
\* refused unheard, so only one with the current revision is kept.
Abandoned(t, kinds) == {m \in net : m.tab = t /\ m.kind \in kinds}
Late == {m \in net : m.tab = Null}
GiveUp(t, kinds) ==
    \E late \in SUBSET {m \in Abandoned(t, kinds) : m.revision = row.version} :
        /\ Cardinality(Late \cup late) <= MaxLate
        /\ net' = (net \ Abandoned(t, kinds)) \cup {[m EXCEPT !.tab = Null] : m \in late}

\* The tab is closed, reloaded or crashes, whatever it was doing.
Close(t) ==
    /\ tab[t].open
    /\ tab' = [tab EXCEPT ![t] = Closed(Page(FreshDraft(Note), Null))]
    /\ GiveUp(t, {"patch", "publish"})
    /\ UNCHANGED <<row, copy, edits, opens>>

----------------------------------------------------------------------------
(* The page's callbacks *)

\* Mutants of Unchanged: the reach is not compared; nothing is.
UnchangedText(form, request) == form.doc = request.doc
UnchangedAssumed(form, request) == TRUE

Unchanged(form, request) == form = request

\* The PATCH succeeded: adopt the new revision, drop the local copy if it holds
\* nothing newer, save again if the page has moved on, else go on to publish.
SaveAnswered(t) ==
    LET p == [tab[t] EXCEPT !.revision = tab[t].saved, !.base = tab[t].request,
                            !.request = Null, !.saved = Null]
        unchanged == Unchanged(p.form, tab[t].request)
    IN
    /\ tab[t].saved # Null
    /\ copy' = IF p.form.doc = tab[t].request.doc THEN Null ELSE copy
    /\ CASE ~unchanged -> Save(t, p)
         [] unchanged /\ p.publish = "saving" ->
              /\ tab' = [tab EXCEPT ![t] = [p EXCEPT !.status = "saved", !.publish = "posting"]]
              /\ net' = net \cup {Request(t, "publish", p)}
         [] OTHER ->
              /\ tab' = [tab EXCEPT ![t] = [p EXCEPT !.status = "saved"]]
              /\ UNCHANGED net
    /\ UNCHANGED <<row, edits, opens>>

\* Mutant of SaveFailed: the promise of a save that fails is never rejected.
SaveFailedSilently(t) ==
    /\ tab[t].request # Null
    /\ tab' = [tab EXCEPT ![t].request = Null, ![t].saved = Null, ![t].failed = TRUE,
                          ![t].status = "error"]
    /\ GiveUp(t, {"patch"})
    /\ UNCHANGED <<row, copy, edits, opens>>

\* Mutant of SaveFailed: the failure is not shown.
SaveFailedUnshown(t) ==
    /\ tab[t].request # Null
    /\ tab' = [tab EXCEPT ![t].request = Null, ![t].saved = Null, ![t].failed = TRUE,
                          ![t].publish = IF @ = "saving" THEN "no" ELSE @]
    /\ GiveUp(t, {"patch"})
    /\ UNCHANGED <<row, copy, edits, opens>>

\* The PATCH was refused (edited elsewhere, a taken slug, a moderated note, an
\* error), or no answer came, whatever the server did with it.
SaveFailed(t) ==
    /\ tab[t].request # Null
    /\ tab' = [tab EXCEPT ![t].request = Null, ![t].saved = Null, ![t].failed = TRUE,
                          ![t].status = "error",
                          ![t].publish = IF @ = "saving" THEN "no" ELSE @]
    /\ GiveUp(t, {"patch"})
    /\ UNCHANGED <<row, copy, edits, opens>>

\* The 50 ms poll of a save() that waits, and of a publish that waits.
Poll(t) ==
    /\ tab[t].waiting
    /\ tab[t].request = Null
    /\ IF tab[t].failed
       THEN tab' = [tab EXCEPT ![t].waiting = FALSE] /\ UNCHANGED net
       ELSE Save(t, [tab[t] EXCEPT !.waiting = FALSE])
    /\ UNCHANGED <<row, copy, edits, opens>>

PollPublish(t) ==
    /\ tab[t].publish = "polling"
    /\ tab[t].request = Null
    /\ IF tab[t].failed
       THEN tab' = [tab EXCEPT ![t].publish = "no"] /\ UNCHANGED net
       ELSE Save(t, [tab[t] EXCEPT !.publish = "saving"])
    /\ UNCHANGED <<row, copy, edits, opens>>

\* A pane of the desk adopts the new revision; any other page is left for the
\* published note.
PublishAnswered(t) ==
    /\ tab[t].published # Null
    /\ \/ tab' = [tab EXCEPT ![t].revision = tab[t].published, ![t].publish = "no", ![t].published = Null]
          /\ UNCHANGED net
       \/ tab' = [tab EXCEPT ![t] = Closed(Page(FreshDraft(Note), Null))]
          /\ GiveUp(t, {"patch", "publish"})
    /\ UNCHANGED <<row, copy, edits, opens>>

PublishFailed(t) ==
    /\ tab[t].publish = "posting"
    /\ tab' = [tab EXCEPT ![t].publish = "no", ![t].published = Null, ![t].status = "error"]
    /\ GiveUp(t, {"publish"})
    /\ UNCHANGED <<row, copy, edits, opens>>
----------------------------------------------------------------------------
(* The server *)

\* m is accepted, and its tab, if it still waits, will hear of it.  Late
\* requests have the old revision from now on.
Accept(m) ==
    /\ net' = net \ (Late \cup {m})
    /\ tab' = IF m.tab = Null THEN tab
               ELSE IF m.kind = "patch" THEN [tab EXCEPT ![m.tab].saved = row'.version]
               ELSE [tab EXCEPT ![m.tab].published = row'.version]

\* Mutant of RevisionMatches: any revision will do.
RevisionUnchecked(m) == m.kind \in {"patch", "publish"}

\* autosaveNoteDocument and PublishNote compare the revision under the row lock.
RevisionMatches(m) == m.revision = row.version

ServePatch(m) ==
    /\ m.kind = "patch"
    /\ RevisionMatches(m)
    /\ row.version < MaxVersion
    /\ row' = Autosaved(row, row.slug, m.form.doc, m.form.reach)
    /\ Accept(m)
    /\ UNCHANGED <<copy, edits, opens>>

ServePublish(m) ==
    /\ m.kind = "publish"
    /\ RevisionMatches(m)
    /\ Publishable(row)
    /\ row.version < MaxVersion
    /\ row' = PublishedRow(row)
    /\ Accept(m)
    /\ UNCHANGED <<copy, edits, opens>>

----------------------------------------------------------------------------
SaveSettles(t) == SaveAnswered(t) \/ SaveFailed(t)
PublishSettles(t) == PublishAnswered(t) \/ PublishFailed(t)

Writer(t) ==
    \/ Open(t) \/ Close(t)
    \/ \E doc \in Doc : Edit(t, doc)
    \/ \E reach \in Reach : ChooseReach(t, reach)
    \/ Flush(t)
    \/ Recover(t) \/ Discard(t)
    \/ ClickPublish(t)

Next ==
    \/ \E t \in Tabs : Writer(t) \/ Autosave(t) \/ SaveSettles(t) \/ Poll(t)
                      \/ PollPublish(t) \/ PublishSettles(t)
    \/ \E m \in net : ServePatch(m) \/ ServePublish(m)

\* The browser runs its timers, and every fetch ends in a response or an error.
\* The 50 ms poll is strongly fair: a save that ends leaves it time to run
\* before an 800 ms debounce or another click can start the next one.
Fairness ==
    \A t \in Tabs :
        /\ WF_vars(Autosave(t))
        /\ WF_vars(SaveSettles(t))
        /\ WF_vars(PublishSettles(t))
        /\ WF_vars(Poll(t))
        /\ SF_vars(PollPublish(t))

Spec == Init /\ [][Next]_vars /\ Fairness

----------------------------------------------------------------------------
(* What must hold *)

\* No blind overwrite: whatever is lost, late or retried, a PATCH the server
\* accepts comes from a page that had seen the very text and reach it replaces.
NoBlindOverwrite ==
    [][\A m \in net : ServePatch(m) => m.base = ServerForm(row)]_vars

\* A publish makes public exactly the text and the reach its tab showed when it
\* was sent, never what another tab saved in between.
PublishesWhatIsShown ==
    [][\A m \in net : ServePublish(m) => EditorDoc(row') = m.form.doc /\ row'.reach = m.form.reach]_vars

\* The page says "saved" only of text and reach the server acknowledged.
SavedMeansSaved ==
    \A t \in Tabs : tab[t].open /\ tab[t].status = "saved" => tab[t].form = tab[t].base

\* No edit is forgotten: while the page shows anything the server has not
\* acknowledged, a save is in flight or due, or the failure is on display.
UnsavedIsPursued ==
    \A t \in Tabs : tab[t].open /\ tab[t].form # tab[t].base =>
        tab[t].timer \/ tab[t].request # Null \/ tab[t].waiting \/ tab[t].status = "error"

\* The publish button never stays locked: whatever is lost or refused, the page
\* is given back to its writer.
PublishReturns ==
    \A t \in Tabs : tab[t].publish # "no" ~> tab[t].publish = "no"

\* Said of localStorage (cmeditor.js:154): it keeps "a local safety copy only
\* while the server has not acknowledged the latest text", which the writer can
\* "explicitly recover or ignore": only then may the copy be dropped.
CopyKeptUntilAcknowledged ==
    [][copy # Null /\ copy' = Null
       => copy = EditorDoc(row) \/ \E t \in Tabs : Discard(t)]_vars

\* Said in the 409 of PatchNote (notes.go:527): "another editor has updated this
\* note".  With one tab there is no other editor, so no save carries an old revision.
ConflictMeansOtherEditor ==
    \A m \in net : m.kind = "patch" /\ m.tab # Null => m.revision = row.version
=============================================================================
