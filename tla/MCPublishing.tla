---------------------------- MODULE MCPublishing ----------------------------
(* Publishing on small sets, for TLC *)
EXTENDS Publishing, TLC

CONSTANT DefaultSlug  \* what every title is turned into

MCTitleSlug == [t \in Texts |-> DefaultSlug]

\* slots are interchangeable, and so are posts when all or none are paginated
Interchangeable == Permutations(Slots) \cup Permutations(Posts)
=============================================================================
