------------------------------ MODULE MCLinks ------------------------------
(* A note of alice's that names its own vault and bob's with one slug, which *)
(* is its own too; two of bob's, of which one has that slug at a time, and   *)
(* one links back.                                                           *)
EXTENDS Links, TLC

CONSTANTS alice, bob, a1, b1, b2, hAlice, hBob, hNew, s1, s2

Own == [user |-> Null, slug |-> s1]
IntoAlices == [user |-> hAlice, slug |-> s1]
IntoBobs == [user |-> hBob, slug |-> s1]

MCAuthor == a1 :> alice @@ b1 :> bob @@ b2 :> bob
MCFirstHandle == alice :> hAlice @@ bob :> hBob
\* Either may get the other's handle.
MCWishes == alice :> {hAlice, hBob} @@ bob :> {hBob, hNew, hAlice}
MCDrafts ==
    a1 :> {[slug |-> s1, body |-> {Own, IntoBobs}]}
    @@ b1 :> {[slug |-> s1, body |-> {IntoAlices}], [slug |-> s2, body |-> {}]}
    @@ b2 :> {[slug |-> s1, body |-> {}]}
MCSymmetry == Permutations(Requests)
=============================================================================
