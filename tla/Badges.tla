------------------------------- MODULE Badges -------------------------------
(***************************************************************************)
(* One badge of one user (lib/badges.js).  An event which may earn it has  *)
(* what it is for counted, looks for the decoration, and writes the new    *)
(* level, with other events in between.                                    *)
(***************************************************************************)
EXTENDS Naturals, Sequences, FiniteSetsExt

CONSTANTS
    Levels,    \* what each level takes, lowest first; a level is numbered from 1 here, and from 0 in the code
    MaxEvents  \* bound on the events

VARIABLES
    worth,        \* what there is to count
    decorations,  \* level of each decoration, oldest first
    checks,       \* events being checked
    past          \* events, the most that was counted in a check which is over, and what may excuse the rest

vars == <<worth, decorations, checks, past>>

Steps == {"count", "find", "write"}

TypeOK ==
    /\ worth \in 0..MaxEvents
    /\ decorations \in Seq(DOMAIN Levels)
    /\ checks \in Seq([step : Steps, count : 0..MaxEvents, found : 0..Len(Levels)])
    /\ past.events \in 0..MaxEvents /\ past.peak \in 0..MaxEvents /\ past.counted \in 0..MaxEvents
    /\ past.overlapped \in BOOLEAN /\ past.lost \in BOOLEAN

Init ==
    /\ worth = 0 /\ decorations = << >> /\ checks = << >>
    /\ past = [events |-> 0, peak |-> 0, counted |-> 0, overlapped |-> FALSE, lost |-> FALSE]

-----------------------------------------------------------------------------

\* something worth a badge is done, and the hook fired
Event ==
    /\ past.events < MaxEvents
    /\ worth' = worth + 1
    /\ checks' = Append(checks, [step |-> "count", count |-> 0, found |-> 0])
    /\ past' = [past EXCEPT !.events = @ + 1, !.peak = Max({@, worth + 1}), !.overlapped = @ \/ checks # << >>]
    /\ UNCHANGED decorations

\* an article is unpublished, or the day it counts for ends
Undo ==
    /\ worth > 0
    /\ worth' = worth - 1
    /\ UNCHANGED <<decorations, checks, past>>

Count(i) ==
    /\ checks[i].step = "count"
    /\ checks' = [checks EXCEPT ![i].step = "find", ![i].count = worth]
    /\ UNCHANGED <<worth, decorations, past>>

\* check(): the decoration found is the oldest
Find(i) ==
    /\ checks[i].step = "find"
    /\ checks' = [checks EXCEPT ![i].step = "write", ![i].found = IF decorations = << >> THEN 0 ELSE decorations[1]]
    /\ UNCHANGED <<worth, decorations, past>>

\* what is next after a level takes, which nothing reaches after the last one
Reaches(count, level) == level <= Len(Levels) /\ count >= Levels[level]

\* the highest level which can be reached in a row from the one after the one found
NewLevel(check) ==
    Max({l \in (check.found + 1)..Len(Levels) : \A m \in (check.found + 1)..l : Reaches(check.count, m)})

\* the checks which go on, but the i-th
Without(i) == SubSeq(checks, 1, i - 1) \o SubSeq(checks, i + 1, Len(checks))

\* A mutant of Write: always an insertion.
WriteAnother(i) ==
    /\ checks[i].step = "write"
    /\ decorations' = IF Reaches(checks[i].count, checks[i].found + 1) THEN Append(decorations, NewLevel(checks[i]))
                      ELSE decorations
    /\ checks' = Without(i)
    /\ past' = [past EXCEPT !.counted = Max({@, checks[i].count})]
    /\ UNCHANGED worth

\* an update of the decoration found, or an insertion of another
Write(i) ==
    /\ checks[i].step = "write"
    /\ decorations' =
          IF ~Reaches(checks[i].count, checks[i].found + 1) THEN decorations
          ELSE IF checks[i].found = 0 THEN Append(decorations, NewLevel(checks[i]))
          ELSE [decorations EXCEPT ![1] = NewLevel(checks[i])]
    /\ checks' = Without(i)
    /\ past' = [past EXCEPT !.counted = Max({@, checks[i].count})]
    /\ UNCHANGED worth

\* the worker dies, and what it was checking with it
Crash ==
    /\ checks # << >>
    /\ checks' = << >>
    /\ past' = [past EXCEPT !.lost = TRUE]
    /\ UNCHANGED <<worth, decorations>>

Next == Event \/ Undo \/ Crash \/ \E i \in DOMAIN checks : Count(i) \/ Find(i) \/ Write(i)

Spec == Init /\ [][Next]_vars

-----------------------------------------------------------------------------
(* Properties *)

Highest(count) == Max({0} \union {l \in DOMAIN Levels : Levels[l] <= count})

\* However checks overlap, no level is above what was earned at some time (badges.js:185).
NoneUnearned == \A i \in DOMAIN decorations : decorations[i] <= Highest(past.peak)

\* There is one decoration, of the level earned by the most that was counted, unless checks overlapped,
\* however much a single event is short of a level, or skips one after a crash (badges.js:186).
LevelIsEarned ==
    ~past.overlapped =>
        decorations = IF Highest(past.counted) = 0 THEN << >> ELSE <<Highest(past.counted)>>
=============================================================================
