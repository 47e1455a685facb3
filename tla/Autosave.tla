----------------------------- MODULE Autosave ------------------------------
(***************************************************************************)
(* A field of the dashboard which is saved whenever it changes             *)
(* (widgets/form.js), over requests which wait while the page knows that   *)
(* it is offline, and are lost while it does not (data/api.js).            *)
(***************************************************************************)
EXTENDS Naturals, Sequences

CONSTANTS
    MaxChanges,  \* bound on the changes made; the n-th one makes the value n
    MaxCuts      \* bound on the connections lost

VARIABLES
    field,  \* its value, the marks shown beside it, and the timers which take them away
    told,   \* value the form it is on was told of
    queue,  \* values kept until the page is online
    wire,   \* requests sent: the value, and how it was answered
    db,     \* value stored
    net,    \* whether there is a connection, and whether the page thinks so
    past    \* changes and cuts made, and what may excuse what is wrong

vars == <<field, told, queue, wire, db, net, past>>

Values == 0..MaxChanges

TypeOK ==
    /\ field.value \in Values /\ field.saving \in BOOLEAN /\ field.saved \in BOOLEAN /\ field.error \in BOOLEAN
    /\ field.timers \in 0..MaxChanges /\ field.last \in BOOLEAN
    /\ told \in Values /\ db \in Values
    /\ queue \in Seq(Values)
    /\ wire \in Seq([value : Values, status : {"sent", "stored", "refused"}])
    /\ net \in [up : BOOLEAN, known : BOOLEAN]
    /\ past.changes \in 0..MaxChanges /\ past.cuts \in 0..MaxCuts
    /\ past.overlapped \in BOOLEAN /\ past.lost \in BOOLEAN /\ past.refused \in BOOLEAN /\ past.reordered \in BOOLEAN

Init ==
    /\ field = [value |-> 0, saving |-> FALSE, saved |-> FALSE, error |-> FALSE, timers |-> 0, last |-> FALSE]
    /\ told = 0 /\ db = 0
    /\ queue = << >> /\ wire = << >>
    /\ net = [up |-> TRUE, known |-> TRUE]
    /\ past = [changes |-> 0, cuts |-> 0, overlapped |-> FALSE, lost |-> FALSE, refused |-> FALSE, reordered |-> FALSE]

-----------------------------------------------------------------------------
(* API.request() *)

Sent(values) == [i \in DOMAIN values |-> [value |-> values[i], status |-> "sent"]]

\* changed(): only the last timer is cleared
Change ==
    /\ past.changes < MaxChanges
    /\ LET v == past.changes + 1 IN
         /\ field' = [field EXCEPT !.value = v, !.saving = TRUE, !.timers = IF field.last THEN @ - 1 ELSE @,
                                   !.last = FALSE]
         /\ queue' = IF net.known THEN queue ELSE Append(queue, v)
         /\ wire' = IF net.known /\ net.up THEN wire \o Sent(<<v>>) ELSE wire
         /\ past' = [past EXCEPT !.changes = v, !.overlapped = @ \/ field.saving,
                                 !.lost = @ \/ (net.known /\ ~net.up)]
    /\ UNCHANGED <<told, db, net>>

\* The server stores what it receives, in any order, or refuses to.
Serve(i) ==
    /\ wire[i].status = "sent"
    /\ \/ /\ db' = wire[i].value
          /\ wire' = [wire EXCEPT ![i].status = "stored"]
          /\ past' = [past EXCEPT !.reordered = @ \/ \E j \in 1..(i - 1) : wire[j].status = "sent"]
       \/ /\ wire' = [wire EXCEPT ![i].status = "refused"]
          /\ past' = [past EXCEPT !.refused = TRUE]
          /\ UNCHANGED db
    /\ UNCHANGED <<field, told, queue, net>>

\* the requests on their way, but the i-th
Without(i) == SubSeq(wire, 1, i - 1) \o SubSeq(wire, i + 1, Len(wire))

\* the form is told of the value there is now
AnswerStored(i) ==
    /\ wire[i].status = "stored"
    /\ field' = [field EXCEPT !.saving = FALSE, !.saved = TRUE, !.timers = @ + 1, !.last = TRUE]
    /\ told' = field.value
    /\ wire' = Without(i)
    /\ UNCHANGED <<queue, db, net, past>>

AnswerRefused(i) ==
    /\ wire[i].status = "refused"
    /\ field' = [field EXCEPT !.saving = FALSE, !.error = TRUE]
    /\ wire' = Without(i)
    /\ UNCHANGED <<told, queue, db, net, past>>

\* three seconds after an answer
Timer ==
    /\ field.timers > 0
    /\ field' = [field EXCEPT !.saved = FALSE, !.error = FALSE, !.timers = @ - 1, !.last = @ /\ field.timers > 1]
    /\ UNCHANGED <<told, queue, wire, db, net, past>>

\* the connection is gone, and with it what was being sent or answered, of which nobody is told
Cut ==
    /\ net.up /\ past.cuts < MaxCuts
    /\ net' = [net EXCEPT !.up = FALSE]
    /\ past' = [past EXCEPT !.cuts = @ + 1, !.lost = @ \/ wire # << >>]
    /\ wire' = << >>
    /\ UNCHANGED <<field, told, queue, db>>

Disconnect ==
    /\ ~net.up /\ net.known
    /\ net' = [net EXCEPT !.known = FALSE]
    /\ UNCHANGED <<field, told, queue, wire, db, past>>

\* the connection is back, and may be before its loss was noticed
Back ==
    /\ ~net.up
    /\ net' = [net EXCEPT !.up = TRUE]
    /\ UNCHANGED <<field, told, queue, wire, db, past>>

\* A mutant of Reconnect: what waited is dropped.
ReconnectEmpty ==
    /\ net.up /\ ~net.known
    /\ net' = [net EXCEPT !.known = TRUE]
    /\ queue' = << >>
    /\ UNCHANGED <<field, told, wire, db, past>>

\* processPendingRequests(): what waited is sent, in its order
Reconnect ==
    /\ net.up /\ ~net.known
    /\ net' = [net EXCEPT !.known = TRUE]
    /\ wire' = wire \o Sent(queue)
    /\ queue' = << >>
    /\ UNCHANGED <<field, told, db, past>>

Next ==
    \/ Change \/ Timer
    \/ Cut \/ Disconnect \/ Back \/ Reconnect
    \/ \E i \in DOMAIN wire : Serve(i) \/ AnswerStored(i) \/ AnswerRefused(i)

Spec == Init /\ [][Next]_vars

-----------------------------------------------------------------------------
(* Properties *)

\* A field with neither spinner nor error shows what is stored, and the form was told of it, unless it
\* was changed while it was being saved: a loss leaves the spinner (form.js:36).
ShownAsStored ==
    ~field.saving /\ ~field.error /\ ~past.overlapped => db = field.value /\ told = field.value

\* However changes overlap, online or off, the last one is stored in the end, unless a request was lost
\* or refused, or the server handled them in another order (api.js:5).
LastIsStored ==
    ~past.lost /\ ~past.refused /\ ~past.reordered /\ queue = << >> /\ (\A i \in DOMAIN wire : wire[i].status # "sent")
        => db = field.value
=============================================================================
