------------------------------ MODULE MCNotes ------------------------------
(* Notes on a small instance.  Of the titles a .cfg may take, t_plain has an *)
(* ordinary slug, t_emoji none, and the slug of t_drafty begins "draft-".    *)
EXTENDS Notes, TLC
CONSTANTS t_plain, t_emoji, t_drafty, s_plain, s_drafty
MCKebab == [t \in Titles |-> CASE t = t_plain -> s_plain [] t = t_drafty -> s_drafty [] OTHER -> Null]
MCSymmetry == Permutations(Notes) \cup Permutations(Requests)
=============================================================================
