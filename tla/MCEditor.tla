------------------------------ MODULE MCEditor ------------------------------
(* Editor on a small instance: one note; of its titles, t_plain has a slug,   *)
(* and t_emoji, in one .cfg, none.                                            *)
EXTENDS Editor, TLC
CONSTANTS t_plain, t_emoji, s_plain
MCKebab == [t \in Titles |-> IF t = t_plain THEN s_plain ELSE Null]
MCSymmetry == Permutations(Tabs)
=============================================================================
