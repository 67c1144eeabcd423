----------------------------- MODULE MCReading -----------------------------
(* Two posts of one author, two members and a guest. *)
EXTENDS TagCache
CONSTANTS ann, ben
mcVariants == [t \in Tags |-> Tags]
mcTagSets == SUBSET Tags
mcWriter == [n \in Posts |-> ann]
mcFollows == Members \X Members
mcSaves == Members \X Posts
mcEdges == Posts \X Posts
mcChapters == [a \in Members |-> Posts]
=============================================================================
