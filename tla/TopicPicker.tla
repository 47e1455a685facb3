---------------------------- MODULE TopicPicker ----------------------------
(***************************************************************************)
(* The field from which the topic of an article is picked: a category,     *)
(* then slides of topics, each fetched when a topic of the slide before is *)
(* clicked (widgets/form.js).  Answers may come in any order, or not.      *)
(***************************************************************************)
EXTENDS Naturals, Sequences

CONSTANTS
    Topics,
    ChildrenOf,   \* topics right under each topic, and under the category
    Category,     \* the one category there is
    Directories,  \* topics which are no end topics
    None,
    MaxClicks     \* bound on what is asked for

VARIABLES
    picker,  \* phase it is in, parents of the slides shown, and the topic staged
    value,   \* topic the form was told of
    flight,  \* requests not answered yet, in the order they were sent
    past     \* topic it was opened with, topic clicked last, requests sent, and what may excuse what is wrong

vars == <<picker, value, flight, past>>

Phases == {"loading", "category", "tree", "lock"}
Asks == [kind : {"categories", "lock", "ofcategory", "childof"}, topic : Topics \union {None}, index : Nat]
Ask(kind, topic, index) == [kind |-> kind, topic |-> topic, index |-> index]

TypeOK ==
    /\ picker.phase \in Phases /\ picker.staged \in Topics \union {None}
    /\ picker.slides \in Seq(Topics \union {Category})
    /\ value \in Topics \union {None}
    /\ flight \in Seq(Asks)
    /\ past.found \in Topics \union {None} /\ past.clicked \in Topics \union {None} /\ past.sent \in 1..MaxClicks
    /\ past.overlapped \in BOOLEAN /\ past.reordered \in BOOLEAN /\ past.lost \in BOOLEAN

\* of an article with a topic, of which nothing is known, or without
Init ==
    /\ value \in {None} \union Topics
    /\ picker = [phase |-> "loading", slides |-> << >>, staged |-> None]
    /\ flight = <<IF value = None THEN Ask("categories", None, 0) ELSE Ask("lock", value, 0)>>
    /\ past = [found |-> value, clicked |-> value, sent |-> 1, overlapped |-> FALSE, reordered |-> FALSE, lost |-> FALSE]

-----------------------------------------------------------------------------

Send(ask) ==
    /\ past.sent < MaxClicks
    /\ flight' = Append(flight, ask)
    /\ past' = [past EXCEPT !.sent = @ + 1, !.overlapped = @ \/ flight # << >>,
                            !.clicked = IF ask.kind = "childof" THEN ask.topic ELSE @]

ChooseCategory ==
    /\ picker.phase = "category"
    /\ Send(Ask("ofcategory", None, 0))
    /\ UNCHANGED <<picker, value>>

\* a topic of any slide which is shown
Click ==
    /\ picker.phase = "tree"
    /\ \E i \in DOMAIN picker.slides : \E t \in ChildrenOf[picker.slides[i]] : Send(Ask("childof", t, i))
    /\ UNCHANGED <<picker, value>>

\* the form is not told that nothing is picked any more
Reset ==
    /\ picker' = [phase |-> "loading", slides |-> << >>, staged |-> None]
    /\ Send(Ask("categories", None, 0))
    /\ UNCHANGED value

\* A mutant of Lockin: directories are locked in as well.
LockinAny ==
    /\ picker.staged # None /\ picker.phase # "lock"
    /\ picker' = [picker EXCEPT !.phase = "lock"]
    /\ UNCHANGED <<value, flight, past>>

Lockin ==
    /\ picker.staged # None /\ picker.phase # "lock"
    /\ picker.staged \notin Directories
    /\ picker' = [picker EXCEPT !.phase = "lock"]
    /\ UNCHANGED <<value, flight, past>>

\* the slides up to the one clicked, whichever they are now, and the children if there are any
Under(ask) ==
    LET kept == SubSeq(picker.slides, 1, IF ask.index < Len(picker.slides) THEN ask.index ELSE Len(picker.slides)) IN
        IF ChildrenOf[ask.topic] = {} THEN kept ELSE Append(kept, ask.topic)

Answered(ask) ==
    CASE ask.kind = "categories" -> [picker EXCEPT !.phase = "category"]
      [] ask.kind = "lock" -> [picker EXCEPT !.phase = "lock", !.staged = ask.topic]
      [] ask.kind = "ofcategory" -> [picker EXCEPT !.phase = "tree", !.slides = <<Category>>]
      [] ask.kind = "childof" -> [phase |-> "tree", slides |-> Under(ask), staged |-> ask.topic]

\* the requests not answered yet, but the i-th
Without(i) == SubSeq(flight, 1, i - 1) \o SubSeq(flight, i + 1, Len(flight))

\* the form is told of a directory as well
Answer ==
    \E i \in DOMAIN flight :
        /\ picker' = Answered(flight[i])
        /\ value' = IF flight[i].kind = "childof" THEN flight[i].topic ELSE value
        /\ flight' = Without(i)
        /\ past' = [past EXCEPT !.reordered = @ \/ i # 1]

Lose ==
    \E i \in DOMAIN flight :
        /\ flight' = Without(i)
        /\ past' = [past EXCEPT !.lost = TRUE]
        /\ UNCHANGED <<picker, value>>

Next == ChooseCategory \/ Click \/ Reset \/ Lockin \/ Answer \/ Lose

Spec == Init /\ [][Next]_vars

-----------------------------------------------------------------------------
(* Properties *)

\* However clicks and answers interleave, the topic which is staged is the one the form was told of, and
\* the last which was clicked, once its children are there, unless answers were lost or came in another
\* order (form.js:686).
StagedIsPicked ==
    picker.staged # None /\ ~past.reordered =>
        /\ picker.staged = value
        /\ value = past.clicked \/ past.lost \/ \E i \in DOMAIN flight : flight[i].topic = past.clicked

\* The slides are a path from the category to the topic staged, unless one was clicked while another was
\* on its way (form.js:676).
SlidesArePath ==
    ~past.overlapped =>
        /\ \A i \in 1..(Len(picker.slides) - 1) : picker.slides[i + 1] \in ChildrenOf[picker.slides[i]]
        /\ picker.phase = "tree" => picker.slides[1] = Category
        /\ picker.phase = "tree" /\ picker.staged # None =>
              LET last == picker.slides[Len(picker.slides)] IN picker.staged \in {last} \union ChildrenOf[last]

\* A topic which is locked in is the one the article had, or an end topic, whatever was clicked and
\* arrived in between (form.js:711).
LockedIsEnd == picker.phase = "lock" => picker.staged \in {past.found} \union (Topics \ Directories)
=============================================================================
