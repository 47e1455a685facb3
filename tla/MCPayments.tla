----------------------------- MODULE MCPayments -----------------------------
(* Payments on small sets, for TLC *)
EXTENDS Payments, TLC

CONSTANTS c1, c2, s1, s2, p1, p2, p3

\* one contractor, on one website
OneAuthor == [p \in Posts |-> c1]
OneSite == [p \in Posts |-> s1]

\* p1 and p2 are of c1, one on each website; p3 is of c2
TwoAuthors == (p1 :> c1) @@ (p2 :> c1) @@ (p3 :> c2)
TwoSites == (p1 :> s1) @@ (p2 :> s2) @@ (p3 :> s1)

PayOne == {<<c1>>}
PayBoth == {<<c1, c2>>, <<c2>>}

\* retries are interchangeable
Interchangeable == Permutations(Retriers)
=============================================================================
