------------------------------ MODULE MCSpace ------------------------------
(* Space on a small instance: one title with a slug, and the blank one.      *)
EXTENDS Space, TLC
CONSTANTS t_plain, s_plain
MCKebab == [t \in Titles |-> IF t = t_plain THEN s_plain ELSE Null]
MCSymmetry == Permutations(Tabs)
=============================================================================
