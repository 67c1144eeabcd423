---------------------------- MODULE LinkPreview ----------------------------
(***************************************************************************)
(* The card that shows a note while the pointer rests on a link to it      *)
(* (linkpreview.js): timers, requests that answer in any order, and a card *)
(* the pointer may enter.  hoverAnchor always is the link under the        *)
(* pointer and has no variable here.                                       *)
(***************************************************************************)
EXTENDS Naturals

CONSTANTS
    Anchors,       \* links with a preview, each to a note of its own
    Nowhere,       \* no link
    PreviewCard,   \* the card, as a place for the pointer
    MaxLost,       \* bound on hide timers whose id was overwritten
    MaxFetches     \* bound on the requests for one preview at a time

ASSUME PreviewAssumption ==
    Nowhere \notin Anchors /\ PreviewCard \notin Anchors \cup {Nowhere} /\ MaxLost \in Nat /\ MaxFetches \in Nat

VARIABLES
    pointer,       \* a link, the card, or neither
    activeKey,
    popup,         \* the link whose preview is shown, or Nowhere
    showTimer,     \* the link it will open, or Nowhere
    hideTimer,     \* whether the timer that hideTimer names is running
    lostTimers,    \* hide timers that run and that hideTimer names no more
    fetches,       \* requests in flight, per link
    cache          \* link -> whether its preview has anything to show

previewVars == <<pointer, activeKey, popup, showTimer, hideTimer, lostTimers, fetches, cache>>

PreviewTypeOK ==
    /\ pointer \in Anchors \cup {Nowhere, PreviewCard}
    /\ {activeKey, popup, showTimer} \subseteq Anchors \cup {Nowhere}
    /\ hideTimer \in BOOLEAN
    /\ lostTimers \in 0 .. MaxLost
    /\ fetches \in [Anchors -> 0 .. MaxFetches]
    /\ DOMAIN cache \subseteq Anchors /\ \A a \in DOMAIN cache : cache[a] \in BOOLEAN

PreviewInit ==
    /\ pointer = Nowhere
    /\ activeKey = Nowhere /\ popup = Nowhere /\ showTimer = Nowhere
    /\ hideTimer = FALSE /\ lostTimers = 0
    /\ fetches = [a \in Anchors |-> 0]
    /\ cache = [a \in {} |-> FALSE]

\* Mutant of Leaves: the card does not listen for mouseleave.
LeavesLink == pointer \in Anchors

\* mouseout of a link, mouseleave of the card; both schedule hiding.
Leaves == pointer \in Anchors \/ (pointer = PreviewCard /\ popup # Nowhere)

\* scheduleHide overwrites the id of a timer that may be running.
ScheduleHide ==
    /\ lostTimers' = IF hideTimer THEN lostTimers + 1 ELSE lostTimers
    /\ lostTimers' <= MaxLost

\* Onto a link: scheduleShow, which does nothing for the key that is active.
Enter(a) ==
    /\ pointer # a
    /\ pointer' = a
    /\ IF Leaves THEN ScheduleHide ELSE UNCHANGED lostTimers
    /\ IF a = activeKey
       THEN /\ showTimer' = IF Leaves THEN Nowhere ELSE showTimer
            /\ hideTimer' = (hideTimer \/ Leaves)
            /\ UNCHANGED activeKey
       ELSE /\ activeKey' = a
            /\ showTimer' = a
            /\ hideTimer' = FALSE
    /\ UNCHANGED <<popup, fetches, cache>>

\* mouseenter cancels hiding.
EnterCard ==
    /\ pointer # PreviewCard /\ popup # Nowhere
    /\ pointer' = PreviewCard
    /\ IF Leaves THEN ScheduleHide ELSE UNCHANGED lostTimers
    /\ showTimer' = IF Leaves THEN Nowhere ELSE showTimer
    /\ hideTimer' = FALSE
    /\ UNCHANGED <<activeKey, popup, fetches, cache>>

LeaveToNowhere ==
    /\ pointer # Nowhere
    /\ pointer' = Nowhere
    /\ IF Leaves THEN ScheduleHide ELSE UNCHANGED lostTimers
    /\ showTimer' = IF Leaves THEN Nowhere ELSE showTimer
    /\ hideTimer' = (hideTimer \/ Leaves)
    /\ UNCHANGED <<activeKey, popup, fetches, cache>>

\* open, 350 ms later
Open ==
    /\ showTimer # Nowhere
    /\ showTimer' = Nowhere
    /\ IF showTimer \in DOMAIN cache
       THEN /\ popup' = IF pointer = showTimer /\ cache[showTimer] THEN showTimer ELSE popup
            /\ UNCHANGED fetches
       ELSE /\ fetches[showTimer] < MaxFetches
            /\ fetches' = [fetches EXCEPT ![showTimer] = @ + 1]
            /\ UNCHANGED popup
    /\ UNCHANGED <<pointer, activeKey, hideTimer, lostTimers, cache>>

\* The answer, empty for an error or a note that cannot be read, is kept for good.
Answer(a, some) ==
    /\ fetches[a] > 0
    /\ fetches' = [fetches EXCEPT ![a] = @ - 1]
    /\ cache' = [b \in DOMAIN cache \cup {a} |-> IF b = a THEN some ELSE cache[b]]
    /\ popup' = IF a = activeKey /\ pointer = a /\ some THEN a ELSE popup
    /\ UNCHANGED <<pointer, activeKey, showTimer, hideTimer, lostTimers>>

HideNow == popup' = Nowhere /\ activeKey' = Nowhere

HideTimerFires ==
    /\ \/ hideTimer /\ hideTimer' = FALSE /\ UNCHANGED lostTimers
       \/ lostTimers > 0 /\ lostTimers' = lostTimers - 1 /\ UNCHANGED hideTimer
    /\ HideNow
    /\ UNCHANGED <<pointer, showTimer, fetches, cache>>

ScrollPage ==
    /\ showTimer' = Nowhere /\ hideTimer' = FALSE
    /\ IF popup # Nowhere THEN HideNow ELSE UNCHANGED <<popup, activeKey>>
    /\ UNCHANGED <<pointer, lostTimers, fetches, cache>>

Escape ==
    /\ showTimer' = Nowhere /\ hideTimer' = FALSE
    /\ HideNow
    /\ UNCHANGED <<pointer, lostTimers, fetches, cache>>

PreviewNext ==
    \/ \E a \in Anchors : Enter(a) \/ Answer(a, TRUE) \/ Answer(a, FALSE)
    \/ EnterCard \/ LeaveToNowhere \/ Open \/ HideTimerFires \/ ScrollPage \/ Escape

PreviewSpec == PreviewInit /\ [][PreviewNext]_previewVars

\* A card is never left behind: while one is shown the pointer is on it, or on its
\* link, or on another link whose own preview is active, or a timer will hide it,
\* in whatever order timers fire, requests answer and the pointer moves.
PreviewFollowsPointer ==
    popup # Nowhere =>
        \/ pointer \in {PreviewCard, popup}
        \/ pointer \in Anchors /\ activeKey = pointer
        \/ hideTimer
=============================================================================
