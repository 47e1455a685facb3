------------------------------ MODULE BigList ------------------------------
(***************************************************************************)
(* A list of the dashboard which fetches its items a batch at a time, and  *)
(* starts over when its filters change (widgets/biglist.js).  Requests may *)
(* overtake one another, and fail.                                         *)
(***************************************************************************)
EXTENDS Naturals, Sequences, FiniteSetsExt

CONSTANTS
    Filters,     \* values of the one field of the toolbar
    Batch,       \* items asked for at a time
    MaxItems,    \* bound on what matches a filter
    MaxRequests  \* bound on the requests sent

VARIABLES
    matching,  \* how many items match each filter
    list,      \* items shown, the batches counted, the filter chosen, whether the spinner is shown
    flight,    \* requests not answered yet, in the order they were sent
    past       \* requests sent, and what may excuse what is wrong

vars == <<matching, list, flight, past>>

Items == [filter : Filters, n : 1..MaxItems]
Loads == [overwrite : BOOLEAN, filter : Filters, skip : 0..(Batch * MaxRequests)]

TypeOK ==
    /\ matching \in [Filters -> 0..MaxItems]
    /\ list.items \in Seq(Items)
    /\ list.index \in 0..(MaxRequests + 1) /\ list.filter \in Filters /\ list.loading \in BOOLEAN
    /\ flight \in Seq(Loads)
    /\ past.sent \in 1..MaxRequests /\ past.overtaken \in BOOLEAN /\ past.doubled \in BOOLEAN /\ past.failed \in BOOLEAN

\* the items of a filter which a request is answered with
BatchOf(load) ==
    [i \in 1..Min({Batch, matching[load.filter] - Min({load.skip, matching[load.filter]})}) |->
        [filter |-> load.filter, n |-> load.skip + i]]

\* componentDidMount() has asked for the first batch; filters may have been kept from an earlier visit
Init ==
    /\ matching \in [Filters -> {Batch - 1, MaxItems}]
    /\ \E f \in Filters :
          /\ list = [items |-> << >>, index |-> 0, filter |-> f, loading |-> TRUE]
          /\ flight = <<[overwrite |-> TRUE, filter |-> f, skip |-> 0]>>
    /\ past = [sent |-> 1, overtaken |-> FALSE, doubled |-> FALSE, failed |-> FALSE]

-----------------------------------------------------------------------------
(* The page *)

\* toolbarFieldChanged(), componentWillReceiveProps() and loadMore(true)
ChangeFilter ==
    /\ past.sent < MaxRequests
    /\ \E f \in Filters :
          /\ list' = [list EXCEPT !.filter = f, !.index = 0, !.loading = TRUE]
          /\ flight' = Append(flight, [overwrite |-> TRUE, filter |-> f, skip |-> 0])
    /\ past' = [past EXCEPT !.sent = @ + 1]
    /\ UNCHANGED matching

\* loadMore(false), whether or not another request is in flight
LoadMore ==
    /\ past.sent < MaxRequests
    /\ Len(list.items) >= Batch
    /\ list' = [list EXCEPT !.loading = FALSE]
    /\ flight' = Append(flight, [overwrite |-> FALSE, filter |-> list.filter, skip |-> list.index * Batch])
    /\ past' = [past EXCEPT !.sent = @ + 1, !.doubled = @ \/ flight # << >>]
    /\ UNCHANGED matching

\* A mutant of Overwritten: it is added to what was there.
OverwrittenBelow(load) == [list EXCEPT !.items = @ \o BatchOf(load), !.index = 1, !.loading = FALSE]

\* the first batch replaces what was there
Overwritten(load) == [list EXCEPT !.items = BatchOf(load), !.index = 1, !.loading = FALSE]

\* a further one is added to it
Added(load) == [list EXCEPT !.items = @ \o BatchOf(load), !.index = @ + 1, !.loading = FALSE]

\* the requests not answered yet, but the i-th
Without(i) == SubSeq(flight, 1, i - 1) \o SubSeq(flight, i + 1, Len(flight))

Answer ==
    \E i \in DOMAIN flight :
        /\ list' = IF flight[i].overwrite THEN Overwritten(flight[i]) ELSE Added(flight[i])
        /\ flight' = Without(i)
        /\ past' = [past EXCEPT !.overtaken = @ \/ i # 1]
        /\ UNCHANGED matching

\* A request is lost, or refused: nobody is told, or what is told is no list, and stops the callback.
Fail ==
    \E i \in DOMAIN flight :
        /\ flight' = Without(i)
        /\ past' = [past EXCEPT !.failed = TRUE]
        /\ UNCHANGED <<matching, list>>

Next == ChangeFilter \/ LoadMore \/ Answer \/ Fail

Spec == Init /\ [][Next]_vars /\ WF_vars(Answer)

-----------------------------------------------------------------------------
(* Properties *)

Smooth == ~past.overtaken /\ ~past.doubled /\ ~past.failed

\* Once everything is answered, and unless answers overtook one another, or failed, or more was asked
\* for while something was in flight, the list is the first batches of the filter chosen, with no item
\* twice and none skipped (biglist.js:65).
ListOfFilter ==
    Smooth /\ flight = << >> =>
        list.items = [i \in 1..Min({list.index * Batch, matching[list.filter]}) |-> [filter |-> list.filter, n |-> i]]

\* What is shown is never of two filters at once, not while requests are in flight either, under the
\* same conditions (biglist.js:84).
OneFilter == Smooth => \A i, j \in DOMAIN list.items : list.items[i].filter = list.items[j].filter

\* The spinner goes in the end, in whatever order answers come, unless a request failed (biglist.js:84).
SpinnerGoes == list.loading ~> ~list.loading \/ past.failed
=============================================================================
