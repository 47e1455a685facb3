------------------------------ MODULE Cakepops ------------------------------
(***************************************************************************)
(* Messages which pop up one after the other in a user's dashboard until   *)
(* he has read them (layout/cakepopsmanager.js), and which ones he has     *)
(* (controllers/cakepop.js).                                               *)
(***************************************************************************)
EXTENDS Naturals, SequencesExt

CONSTANTS
    Pops,
    MaxClicks,  \* bound on his clicks
    MaxFlips    \* bound on what the editors change

VARIABLES
    mendatory,  \* pops which are to be answered, and not just dismissed
    read,       \* pops he has read, as stored
    list,       \* pops left on the page, each with what it was when the page was loaded
    flight,     \* his requests: the pop, the action, and how each was answered
    past        \* pops which were loaded, clicks and changes, and what may excuse what is wrong

vars == <<mendatory, read, list, flight, past>>

Statuses == {"sent", "ok", "error"}

TypeOK ==
    /\ mendatory \subseteq Pops /\ read \subseteq Pops
    /\ ToSet(list) \subseteq [pop : Pops, mendatory : BOOLEAN]
    /\ ToSet(flight) \subseteq [pop : Pops, action : {"read", "respond"}, status : Statuses]
    /\ past.loaded \subseteq Pops /\ past.clicks \in 0..MaxClicks /\ past.flips \in 0..MaxFlips
    /\ past.flipped \subseteq Pops /\ past.doubled \in BOOLEAN /\ past.failed \in BOOLEAN

\* the page has loaded those which are live and unread
Init ==
    /\ mendatory \in SUBSET Pops /\ read \in SUBSET Pops
    /\ list = [i \in DOMAIN SetToSeq(Pops \ read) |->
                  [pop |-> SetToSeq(Pops \ read)[i], mendatory |-> SetToSeq(Pops \ read)[i] \in mendatory]]
    /\ flight = << >>
    /\ past = [loaded |-> Pops \ read, clicks |-> 0, flips |-> 0, flipped |-> {}, doubled |-> FALSE, failed |-> FALSE]

-----------------------------------------------------------------------------

\* An editor changes what a pop asks for.
Flip ==
    /\ past.flips < MaxFlips
    /\ \E p \in Pops :
          /\ mendatory' = IF p \in mendatory THEN mendatory \ {p} ELSE mendatory \union {p}
          /\ past' = [past EXCEPT !.flips = @ + 1, !.flipped = @ \union {p}]
    /\ UNCHANGED <<read, list, flight>>

\* dismiss() and respond(): of the pop in front, which stays until the answer
Click ==
    /\ list # << >> /\ past.clicks < MaxClicks
    /\ flight' = Append(flight, [pop |-> Head(list).pop, status |-> "sent",
                                 action |-> IF Head(list).mendatory THEN "respond" ELSE "read"])
    /\ past' = [past EXCEPT !.clicks = @ + 1, !.doubled = @ \/ flight # << >>]
    /\ UNCHANGED <<mendatory, read, list>>

\* adminPOST(): matches nothing, and says so to nobody, when the pop has become of the other kind
Serve(i) ==
    /\ flight[i].status = "sent"
    /\ \/ /\ read' = IF (flight[i].pop \in mendatory) = (flight[i].action = "respond")
                     THEN read \union {flight[i].pop} ELSE read
          /\ flight' = [flight EXCEPT ![i].status = "ok"]
          /\ UNCHANGED past
       \/ /\ flight' = [flight EXCEPT ![i].status = "error"]
          /\ past' = [past EXCEPT !.failed = TRUE]
          /\ UNCHANGED read
    /\ UNCHANGED <<mendatory, list>>

\* the pop which is in front by now goes, in case of an error as well
Answer(i) ==
    /\ flight[i].status # "sent"
    /\ list' = IF list = << >> THEN list ELSE Tail(list)
    /\ flight' = RemoveAt(flight, i)
    /\ UNCHANGED <<mendatory, read, past>>

\* A mutant of Lose: the pop goes without an answer.
LoseBoth(i) ==
    /\ list' = IF list = << >> THEN list ELSE Tail(list)
    /\ flight' = RemoveAt(flight, i)
    /\ UNCHANGED <<mendatory, read, past>>

\* without an answer nothing goes
Lose(i) ==
    /\ flight' = RemoveAt(flight, i)
    /\ UNCHANGED <<mendatory, read, list, past>>

Next == Flip \/ Click \/ \E i \in DOMAIN flight : Serve(i) \/ Answer(i) \/ Lose(i)

Spec == Init /\ [][Next]_vars

-----------------------------------------------------------------------------
(* Properties *)

Left == {list[i].pop : i \in DOMAIN list}

\* A pop which is gone from the page is stored as read, and will not be shown again, unless an answer was
\* an error, it was dismissed while another answer was on its way, or an editor changed whether it is to
\* be answered (cakepopsmanager.js:108, cakepop.js:97).
GoneIsRead == ~past.doubled /\ ~past.failed => past.loaded \ Left \subseteq read \union past.flipped

\* A pop which waits behind others is not read before it is in front, whatever is lost or changed
\* (cakepopsmanager.js:101).
OneAtATime ==
    ~past.doubled => \A i \in 2..Len(list) : list[i].pop \notin read
=============================================================================
