------------------------------ MODULE TagCache ------------------------------
(***************************************************************************)
(* The in-process caches over the tags of readable notes: the chips of the *)
(* feed and the related tags of a tag page (render.go, feed.go, tags.go).  *)
(* A writer commits and then expires both, a step each; a reader looks,    *)
(* queries and stores, and a write may fall between any two of them.       *)
(***************************************************************************)
EXTENDS Reading

CONSTANTS
    TagRequests,   \* requests of the server that write, or refill a cache
    CloudMax,      \* relatedTagCacheMax
    MaxWrites,     \* bound on the changes of posts
    Chips          \* the cache of the chips, beside one per tag

ASSUME TagCacheAssumption == CloudMax \in Nat \ {0} /\ MaxWrites \in Nat /\ Chips \notin Tags

VARIABLES
    chips,      \* tagChipCache
    clouds,     \* relatedTagCache: entries of at most CloudMax tags
    refills,    \* per request the refill it is at, or Chips
    expiring,   \* per request that committed, the caches it has still to expire
    writes      \* how often a post was written, or became too old for the chips

tagVars == <<posts, chips, clouds, refills, expiring, writes>>

Counts == UNION {[S -> 0 .. Cardinality(Posts \X Tags)] : S \in SUBSET Tags}

\* late (history): after the query that the data came from a write committed, or a
\* post that the chips count became older than 30 days.
Entry == [data : Counts, fresh : BOOLEAN, late : BOOLEAN]
Refill == [of : Tags \cup {Chips}, queried : BOOLEAN, data : Counts, late : BOOLEAN]

TagCacheTypeOK ==
    /\ posts \in [Posts -> Post]
    /\ chips \in Entry
    /\ DOMAIN clouds \subseteq Tags /\ Cardinality(DOMAIN clouds) <= CloudMax
    /\ \A t \in DOMAIN clouds : clouds[t] \in Entry
    /\ refills \in [TagRequests -> Refill \cup {Chips}]
    /\ expiring \in [TagRequests -> SUBSET {"chips", "clouds"}]
    /\ writes \in 0 .. MaxWrites

NoCounts == [t \in {} |-> 0]
NoClouds == [t \in {} |-> 0]
Unused == [data |-> NoCounts, fresh |-> FALSE, late |-> FALSE]

\* A server starts, over posts that are public and without tags.
TagCacheInit ==
    /\ posts = [n \in Posts |-> [published |-> TRUE, hidden |-> FALSE, deleted |-> FALSE,
                                 reach |-> "public", tags |-> {}, recent |-> TRUE]]
    /\ chips = Unused
    /\ clouds = NoClouds
    /\ refills = [q \in TagRequests |-> Chips]
    /\ expiring = [q \in TagRequests |-> {}]
    /\ writes = 0

Idle(q) == refills[q] = Chips /\ expiring[q] = {}

----------------------------------------------------------------------------
(* Writers *)

\* What a handler may make of a post before it expires the caches.
PublishPost(n) ==     \* PublishNote, PublishSpace, imports
    {p \in Post : p.published /\ p.recent /\ p.hidden = posts[n].hidden /\ p.deleted = posts[n].deleted}
ManagePost(n) == {[posts[n] EXCEPT !.published = b] : b \in BOOLEAN} \cup {[posts[n] EXCEPT !.deleted = TRUE]}
ModeratePost(n) == {[posts[n] EXCEPT !.hidden = ~@]}
DeletePost(n) == {[posts[n] EXCEPT !.deleted = TRUE]}

Rewritten(n) ==
    (IF Kept(n) THEN PublishPost(n) \cup ManagePost(n) ELSE {}) \cup ModeratePost(n) \cup DeletePost(n)

Overtaken(caches) ==
    [q \in TagRequests |->
        IF refills[q] # Chips /\ refills[q].queried /\ refills[q].of \in caches
        THEN [refills[q] EXCEPT !.late = TRUE] ELSE refills[q]]

\* Mutant of ToExpire: a handler that knows of the chips alone.
ToExpireChips == {"chips"}

ToExpire == {"chips", "clouds"}

Write(q, n) ==
    /\ Idle(q)
    /\ writes < MaxWrites
    /\ writes' = writes + 1
    /\ \E p \in Rewritten(n) : posts' = [posts EXCEPT ![n] = p]
    /\ refills' = Overtaken(Tags \cup {Chips})
    /\ expiring' = [expiring EXCEPT ![q] = ToExpire]
    /\ UNCHANGED <<chips, clouds>>

\* The COMMIT took effect and its answer was lost: the handler reports an error
\* and expires nothing.
LoseCommit(n) ==
    /\ writes < MaxWrites
    /\ writes' = writes + 1
    /\ \E p \in Rewritten(n) : posts' = [posts EXCEPT ![n] = p]
    /\ refills' = Overtaken(Tags \cup {Chips})
    /\ chips' = [chips EXCEPT !.late = chips.fresh]
    /\ clouds' = [t \in DOMAIN clouds |-> [clouds[t] EXCEPT !.late = TRUE]]
    /\ UNCHANGED expiring

\* 30 days pass since a post was written; no handler knows.
PassMonth(n) ==
    /\ posts[n].recent
    /\ writes < MaxWrites
    /\ writes' = writes + 1
    /\ posts' = [posts EXCEPT ![n].recent = FALSE]
    /\ refills' = Overtaken({Chips})
    /\ chips' = [chips EXCEPT !.late = chips.fresh]
    /\ UNCHANGED <<clouds, expiring>>

\* Data past its time is never read and is dropped here.
ExpireChips(q) ==
    /\ "chips" \in expiring[q]
    /\ chips' = Unused
    /\ expiring' = [expiring EXCEPT ![q] = @ \ {"chips"}]
    /\ UNCHANGED <<posts, clouds, refills, writes>>

ExpireClouds(q) ==
    /\ expiring[q] = {"clouds"}
    /\ clouds' = NoClouds
    /\ expiring' = [expiring EXCEPT ![q] = {}]
    /\ UNCHANGED <<posts, chips, refills, writes>>

----------------------------------------------------------------------------
(* Readers *)

Cached(of) == IF of = Chips THEN chips.fresh ELSE of \in DOMAIN clouds /\ clouds[of].fresh

\* topTagChips and relatedTags on a miss; a hit changes nothing.
Look(q, of) ==
    /\ Idle(q)
    /\ ~Cached(of)
    /\ refills' = [refills EXCEPT ![q] = [of |-> of, queried |-> FALSE, data |-> NoCounts, late |-> FALSE]]
    /\ UNCHANGED <<posts, chips, clouds, expiring, writes>>

Query(q) ==
    /\ refills[q] # Chips /\ ~refills[q].queried
    /\ refills' = [refills EXCEPT ![q].queried = TRUE,
                                  ![q].data = IF refills[q].of = Chips THEN TopTags
                                              ELSE RelatedTags(refills[q].of)]
    /\ UNCHANGED <<posts, chips, clouds, expiring, writes>>

\* What put may leave of the entries to make room for tag t.
Room(t) ==
    LET entries == DOMAIN clouds
        live == {u \in entries : clouds[u].fresh}
    IN IF t \in entries \/ Cardinality(entries) < CloudMax THEN {entries}
       ELSE IF Cardinality(live) < CloudMax THEN {live}
       ELSE {S \in SUBSET live : Cardinality(S) = CloudMax - 1}

StoreRefill(q) ==
    /\ refills[q] # Chips /\ refills[q].queried
    /\ LET r == refills[q]
           entry == [data |-> r.data, fresh |-> TRUE, late |-> r.late]
       IN IF r.of = Chips
          THEN chips' = entry /\ UNCHANGED clouds
          ELSE /\ \E S \in Room(r.of) :
                     clouds' = [u \in S \cup {r.of} |-> IF u = r.of THEN entry ELSE clouds[u]]
               /\ UNCHANGED chips
    /\ refills' = [refills EXCEPT ![q] = Chips]
    /\ UNCHANGED <<posts, expiring, writes>>

\* A query that fails, or is cut short, stores nothing.
FailRefill(q) ==
    /\ refills[q] # Chips
    /\ refills' = [refills EXCEPT ![q] = Chips]
    /\ UNCHANGED <<posts, chips, clouds, expiring, writes>>

\* Five minutes pass for an entry.
Age(of) ==
    /\ Cached(of)
    /\ IF of = Chips
       THEN chips' = Unused /\ UNCHANGED clouds
       ELSE clouds' = [clouds EXCEPT ![of] = Unused] /\ UNCHANGED chips
    /\ UNCHANGED <<posts, refills, expiring, writes>>

Restart ==
    /\ chips' = Unused /\ clouds' = NoClouds
    /\ refills' = [q \in TagRequests |-> Chips]
    /\ expiring' = [q \in TagRequests |-> {}]
    /\ UNCHANGED <<posts, writes>>

TagCacheNext ==
    \/ \E q \in TagRequests, n \in Posts : Write(q, n)
    \/ \E n \in Posts : LoseCommit(n) \/ PassMonth(n)
    \/ \E q \in TagRequests : ExpireChips(q) \/ ExpireClouds(q) \/ Query(q) \/ StoreRefill(q) \/ FailRefill(q)
    \/ \E q \in TagRequests, of \in Tags \cup {Chips} : Look(q, of)
    \/ \E of \in Tags \cup {Chips} : Age(of)
    \/ Restart

TagCacheSpec == TagCacheInit /\ [][TagCacheNext]_tagVars

----------------------------------------------------------------------------
(* What must hold *)

\* render.go:66: a fresh entry tells what the table holds, for every handler that
\* changes which notes are readable, recommended or tagged, except until the
\* handler that committed a change has expired it (never, when the COMMIT's answer was
\* lost), when the change fell between the query and the store of the very refill it
\* came from, and for the chips when a post has become too old to count.
StaleOnlyByOverlap ==
    /\ chips.fresh /\ ~chips.late =>
          chips.data = TopTags \/ \E q \in TagRequests : "chips" \in expiring[q]
    /\ \A t \in DOMAIN clouds : clouds[t].fresh /\ ~clouds[t].late =>
          clouds[t].data = RelatedTags(t) \/ \E q \in TagRequests : "clouds" \in expiring[q]
=============================================================================
