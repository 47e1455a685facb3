------------------------------- MODULE Vault --------------------------------
(***************************************************************************)
(* Passwords kept for others in a category (lib/pwmanager.js), under       *)
(* overlapping requests (controllers/pwmanager.js).                        *)
(***************************************************************************)
EXTENDS Naturals, SequencesExt

CONSTANTS
    Passwords,
    MaxRequests  \* bound on the requests; the n-th writes what is numbered n

VARIABLES
    category,   \* whether it is there
    passwords,  \* whether each is there, its name, its secret, and whether it can be decrypted
    requests,   \* what is done to which password, how far it is, and the name it has read
    past        \* last name and secret which each was given, passwords created when the category was gone,
                \* those on which a new secret overlapped another request, and those whose removal died

vars == <<category, passwords, requests, past>>

Ops == {"create", "secret", "both", "rename", "remove", "drop"}
Steps == {"begun", "half", "answered", "silent", "dead"}
Numbers == 0..MaxRequests

TypeOK ==
    /\ category \in BOOLEAN
    /\ passwords \in [Passwords -> [there : BOOLEAN, name : Numbers, secret : Numbers]]
    /\ ToSet(requests) \subseteq [op : Ops, of : Passwords, step : Steps, name : Numbers]
    /\ past.name \in [Passwords -> Numbers] /\ past.secret \in [Passwords -> Numbers]
    /\ past.late \subseteq Passwords /\ past.crossed \subseteq Passwords /\ past.died \subseteq Passwords

Init ==
    /\ category = TRUE
    /\ passwords = [p \in Passwords |-> [there |-> FALSE, name |-> 0, secret |-> 0]]
    /\ requests = << >>
    /\ past = [name |-> [p \in Passwords |-> 0], secret |-> [p \in Passwords |-> 0], late |-> {}, crossed |-> {},
               died |-> {}]

-----------------------------------------------------------------------------

Open(op) == {r \in DOMAIN requests : requests[r].op \in op /\ requests[r].step \in {"begun", "half"}}
Step(r, step) == requests' = [requests EXCEPT ![r].step = step]

\* the page offers what it has loaded, which may be gone
Of(p, ops) == {r \in DOMAIN requests : requests[r].of = p /\ requests[r].op \in ops}
Known(p) == \E r \in Of(p, {"create"}) : requests[r].step = "answered"

\* a password is created once, and the page then offers it, even when it is gone
Begin ==
    /\ Len(requests) < MaxRequests
    /\ \E op \in Ops, p \in Passwords :
          /\ CASE op = "create" -> Of(p, {"create"}) = {}
               [] op = "drop" -> p = CHOOSE q \in Passwords : TRUE
               [] OTHER -> Known(p)
          /\ requests' = Append(requests, [op |-> op, of |-> p, step |-> "begun", name |-> 0])
          /\ past' = [past EXCEPT !.crossed =
                          IF Open({"secret", "both", "rename"}) \intersect Of(p, Ops) = {} THEN @ ELSE @ \union {p}]
    /\ UNCHANGED <<category, passwords>>

\* createPassword(): nothing asks whether the category is still there
Create(r) ==
    /\ requests[r].op = "create" /\ requests[r].step = "begun"
    /\ LET p == requests[r].of IN
         /\ passwords' = [passwords EXCEPT ![p] = [there |-> TRUE, name |-> r, secret |-> r]]
         /\ past' = [past EXCEPT !.name[p] = r, !.secret[p] = r, !.late = IF category THEN @ ELSE @ \union {p}]
    /\ Step(r, "answered")
    /\ UNCHANGED category

\* updatePassword(): with a new secret the password is read first, for its name unless there is a new one
\* as well; if it is gone, the callback throws
Read(r) ==
    /\ requests[r].op \in {"secret", "both"} /\ requests[r].step = "begun"
    /\ LET p == passwords[requests[r].of] IN
         requests' = [requests EXCEPT ![r].step = IF p.there THEN "half" ELSE "silent",
                                      ![r].name = IF requests[r].op = "both" THEN r ELSE p.name]
    /\ UNCHANGED <<category, passwords, past>>

\* then both are written
Write(r) ==
    /\ requests[r].op \in {"secret", "both"} /\ requests[r].step = "half"
    /\ LET p == requests[r].of IN
         /\ passwords' = IF passwords[p].there
                         THEN [passwords EXCEPT ![p].name = requests[r].name, ![p].secret = r] ELSE passwords
         /\ past' = [past EXCEPT !.secret[p] = r, !.name[p] = IF requests[r].op = "both" THEN r ELSE @]
    /\ Step(r, "answered")
    /\ UNCHANGED category

\* without one the update is made at once
Rename(r) ==
    /\ requests[r].op = "rename" /\ requests[r].step = "begun"
    /\ LET p == requests[r].of IN
         /\ passwords' = IF passwords[p].there THEN [passwords EXCEPT ![p].name = r] ELSE passwords
         /\ past' = [past EXCEPT !.name[p] = r]
    /\ Step(r, "answered")
    /\ UNCHANGED category

\* removePassword()
Forget(r) ==
    /\ requests[r].op = "remove" /\ requests[r].step = "begun"
    /\ passwords' = [passwords EXCEPT ![requests[r].of].there = FALSE]
    /\ Step(r, "answered")
    /\ UNCHANGED <<category, past>>

\* A mutant of Drop: what was in it stays.
DropOnly(r) ==
    /\ requests[r].op = "drop" /\ requests[r].step = "begun"
    /\ category' = FALSE
    /\ Step(r, "answered")
    /\ UNCHANGED <<passwords, past>>

\* removeCategory(), and then what was in it
Drop(r) ==
    /\ requests[r].op = "drop" /\ requests[r].step = "begun"
    /\ category' = FALSE
    /\ Step(r, "half")
    /\ UNCHANGED <<passwords, past>>

DropPasswords(r) ==
    /\ requests[r].op = "drop" /\ requests[r].step = "half"
    /\ passwords' = [p \in Passwords |-> [passwords[p] EXCEPT !.there = FALSE]]
    /\ Step(r, "answered")
    /\ UNCHANGED <<category, past>>

\* the worker dies, with all it was doing
Crash ==
    /\ Open(Ops) # {}
    /\ requests' = [r \in DOMAIN requests |-> IF r \in Open(Ops) THEN [requests[r] EXCEPT !.step = "dead"] ELSE requests[r]]
    /\ past' = [past EXCEPT !.died = IF \E r \in Open({"drop"}) : requests[r].step = "half"
                                     THEN @ \union {p \in Passwords : passwords[p].there} ELSE @]
    /\ UNCHANGED <<category, passwords>>

Next ==
    \/ Begin \/ Crash
    \/ \E r \in DOMAIN requests :
          Create(r) \/ Read(r) \/ Write(r) \/ Rename(r) \/ Forget(r) \/ Drop(r) \/ DropPasswords(r)

Spec == Init /\ [][Next]_vars

-----------------------------------------------------------------------------
(* Properties *)

\* A password is in a category which is there, or on its way out, unless it was created after the
\* category was removed, or the worker died between the two removals (pwmanager.js:104).
NoOrphan ==
    category \/ \A p \in Passwords :
        passwords[p].there => p \in past.late \union past.died \/ \E r \in Open({"drop"}) : requests[r].step = "half"

\* A password has the last name and the last secret it was given; a name given while a new secret was
\* on its way may be lost, a secret is not (pwmanager.js:153).
LastGiven ==
    \A p \in Passwords : passwords[p].there =>
        /\ passwords[p].secret = past.secret[p]
        /\ passwords[p].name = past.name[p] \/ p \in past.crossed
=============================================================================
