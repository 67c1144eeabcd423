-------------------------- MODULE SpacePublication --------------------------
(***************************************************************************)
(* What "my space" promises on top of Publication: saving the private      *)
(* document changes nothing that anybody else sees, and publishing it does *)
(* three things to the children that it lists, and nothing to the others.  *)
(* Documents, pages, versions and requests are left out.  Space implements *)
(* this module.                                                            *)
(***************************************************************************)
EXTENDS Publication, Naturals

VARIABLES
    revision,  \* of the space, saved or published
    listed     \* children in the public space

SpaceInit ==
    /\ notes = [n \in Notes |-> [Absent EXCEPT !.state = "private"]]
    /\ revision = 0
    /\ listed = {}

\* A draft is published, all of it, perhaps with another reach.
PublishAt(x, y) ==
    /\ x.state = "private"
    /\ \E reach \in Reach : Publish([x EXCEPT !.back.reach = reach], y)

\* A public child gets another reach, for its readers and in its editor: its text
\* stays the one they have, and what its author has not published stays unpublished.
Relabel(x, y) ==
    /\ x.state = "public" /\ Open(x)
    /\ \E reach \in Reach : y = [x EXCEPT !.front.reach = reach, !.back.reach = reach]

Keep(x, y) == x.state = "public" /\ Open(x) /\ y = x

\* A child lives its own life.
ChildStep ==
    /\ UNCHANGED <<revision, listed>>
    /\ \E n \in Notes : /\ \E x \in {notes[n]}, y \in {notes'[n]} : Step(x, y)
                        /\ \A m \in Notes \ {n} : notes'[m] = notes[m]

SaveStep == revision' = revision + 1 /\ UNCHANGED <<notes, listed>>

PublishStep ==
    /\ revision' = revision + 1
    /\ listed' \in SUBSET Notes
    /\ \A n \in Notes : \A x \in {notes[n]}, y \in {notes'[n]} :
          IF n \in listed' THEN PublishAt(x, y) \/ Relabel(x, y) \/ Keep(x, y) ELSE y = x

SpaceNext == ChildStep \/ SaveStep \/ PublishStep

SpaceSpec == SpaceInit /\ [][SpaceNext]_<<notes, revision, listed>>
=============================================================================
