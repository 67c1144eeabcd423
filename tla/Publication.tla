---------------------------- MODULE Publication ----------------------------
(***************************************************************************)
(* What the notes promise their authors and readers, without slugs, edit   *)
(* versions, requests in flight, ranks or an index.  A note has a front,   *)
(* the text and reach that readers get while it is public, and a back, the *)
(* text and reach its author sees.  Notes implements this module.          *)
(***************************************************************************)
CONSTANTS Notes, Doc, Reach, EmptyDoc, Titled(_)

VARIABLE notes

Face == [doc : Doc, reach : Reach]
States == {"absent", "private", "public", "deleted", "gone"}
Note == [state : States, hidden : BOOLEAN, front : Face, back : Face]

Fresh == [doc |-> EmptyDoc, reach |-> "semi"]
Absent == [state |-> "absent", hidden |-> FALSE, front |-> Fresh, back |-> Fresh]

Init == notes = [n \in Notes |-> Absent]

----------------------------------------------------------------------------
(* What may become of one note.  Each operator relates it before and after. *)

Open(x) == x.state \in {"private", "public"} /\ ~x.hidden

Create(x, y) ==
    /\ x = Absent
    /\ \/ y = [x EXCEPT !.state = "private"]
       \/ /\ Titled(y.front.doc) /\ y.front.reach = "public"
          /\ y = [x EXCEPT !.state = "public", !.front = y.front, !.back = y.front]

\* The author writes.  Readers of a public note notice nothing; a private one
\* will be shown with the new text.
Edit(x, y) ==
    /\ Open(x)
    /\ y.back \in Face
    /\ y = [x EXCEPT !.back = y.back,
                     !.front = [doc |-> IF x.state = "public" THEN x.front.doc ELSE y.back.doc,
                                reach |-> x.front.reach]]

\* Publishing turns the back to the front, all of it.
Publish(x, y) ==
    /\ Open(x)
    /\ Titled(x.back.doc)
    /\ y = [x EXCEPT !.state = "public", !.front = x.back]

\* Withdrawing and showing again change nothing else.
Show(x, y) == Open(x) /\ Titled(x.front.doc) /\ y = [x EXCEPT !.state = "public"]
Withdraw(x, y) == Open(x) /\ y = [x EXCEPT !.state = "private"]

Delete(x, y) == x.state \in {"private", "public"} /\ y = [x EXCEPT !.state = "deleted"]

Moderate(x, y) ==
    /\ x.state \in {"private", "public", "deleted"}
    /\ y.hidden \in BOOLEAN /\ y = [x EXCEPT !.hidden = y.hidden]

\* Only a note without any text of its author disappears for good.
Forget(x, y) ==
    /\ x.state \in {"private", "deleted"}
    /\ x.front.doc = EmptyDoc /\ x.back.doc = EmptyDoc
    /\ y = [Absent EXCEPT !.state = "gone"]

Step(x, y) ==
    \/ Create(x, y) \/ Edit(x, y) \/ Publish(x, y) \/ Show(x, y) \/ Withdraw(x, y)
    \/ Delete(x, y) \/ Moderate(x, y) \/ Forget(x, y)

\* A request may act on several notes at once.
Next == \A n \in Notes : \A x \in {notes[n]}, y \in {notes'[n]} : x = y \/ Step(x, y)

Spec == Init /\ [][Next]_notes
=============================================================================
