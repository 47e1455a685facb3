------------------------------- MODULE Ledger -------------------------------
(***************************************************************************)
(* What paying contractors amounts to: an article which has been published *)
(* is due once, and a payment settles due articles of one contractor, all  *)
(* of them or none.                                                        *)
(***************************************************************************)
EXTENDS Naturals

CONSTANTS Posts, Contractors, AuthorOf

VARIABLES
    due,      \* articles to be paid
    failed,   \* articles whose payment failed
    charged   \* how often each article was charged for

vars == <<due, failed, charged>>

Init ==
    /\ due = {}
    /\ failed = {}
    /\ charged = [p \in Posts |-> 0]

Publish(p) ==
    /\ p \notin due \cup failed /\ charged[p] = 0
    /\ due' = due \cup {p}
    /\ UNCHANGED <<failed, charged>>

Due(c) == {p \in due : AuthorOf[p] = c}

Pay(products) ==
    /\ due' = due \ products
    /\ charged' = [p \in Posts |-> IF p \in products THEN charged[p] + 1 ELSE charged[p]]
    /\ UNCHANGED failed

Fail(products) ==
    /\ due' = due \ products
    /\ failed' = failed \cup products
    /\ UNCHANGED charged

Next ==
    \/ \E p \in Posts : Publish(p)
    \/ \E c \in Contractors : \E products \in SUBSET Due(c) : Pay(products) \/ Fail(products)

Spec == Init /\ [][Next]_vars
=============================================================================
