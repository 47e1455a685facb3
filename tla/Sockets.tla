------------------------------ MODULE Sockets ------------------------------
(***************************************************************************)
(* The sockets of one user, over several workers (lib/notifications.js):   *)
(* the shared memory server keeps the list of their ids, and where the     *)
(* user is in the admin interface (the hits).                              *)
(***************************************************************************)
EXTENDS Naturals, Sequences

CONSTANTS
    Conns,    \* socket connections, each made once
    MaxHits   \* bound on the pages visited

VARIABLES
    memory,   \* in the cache: the ids listed, and the page each id is known to be on
    pc,       \* life of each connection
    hit,      \* each visit of a page, in order: its connection, and its next round trip
    wire,     \* removals of pages nobody waits for
    log       \* the hits collection, tabs still open, and whether visits of a tab overlapped

vars == <<memory, pc, hit, wire, log>>

NoPage == 0
Pages == 0..MaxHits

PCs == {"new", "session", "add", "bound", "leave", "leave.get", "gone"}

TypeOK ==
    /\ memory \in [list : SUBSET Conns, page : [Conns -> Pages]]
    /\ pc \in [Conns -> PCs]
    /\ hit \in Seq([conn : Conns, step : {"get", "set", "done"}]) /\ Len(hit) <= MaxHits
    /\ wire \subseteq Conns
    /\ log \in [hits : [1..MaxHits -> Nat], open : SUBSET Conns, overlapped : BOOLEAN]

Init ==
    /\ memory = [list |-> {}, page |-> [c \in Conns |-> NoPage]]
    /\ pc = [c \in Conns |-> "new"]
    /\ hit = << >>
    /\ wire = {}
    /\ log = [hits |-> [p \in 1..MaxHits |-> 0], open |-> Conns, overlapped |-> FALSE]

Goto(c, next) == pc' = [pc EXCEPT ![c] = next]

-----------------------------------------------------------------------------
(* onSocketConnection() *)

Connect(c) == pc[c] = "new" /\ Goto(c, "session") /\ UNCHANGED <<memory, hit, wire, log>>

\* a session which is not in the cache leaves the socket alone
GetSession(c) ==
    /\ pc[c] = "session"
    /\ \E next \in {"add", "gone"} : Goto(c, next)
    /\ UNCHANGED <<memory, hit, wire, log>>

\* A mutant of Add: the handlers are bound without listing the id.
AddUnlisted(c) == pc[c] = "add" /\ Goto(c, "bound") /\ UNCHANGED <<memory, hit, wire, log>>

\* the id is listed, and the handlers are bound, that of disconnect included
Add(c) ==
    /\ pc[c] = "add"
    /\ memory' = [memory EXCEPT !.list = @ \union {c}]
    /\ Goto(c, "bound")
    /\ UNCHANGED <<hit, wire, log>>

-----------------------------------------------------------------------------
(* hit() *)

Visiting(c) == \E p \in DOMAIN hit : hit[p].conn = c /\ hit[p].step # "done"

\* the browser does not wait for the visit before
Hit(c) ==
    /\ pc[c] = "bound" /\ c \in log.open
    /\ Len(hit) < MaxHits
    /\ hit' = Append(hit, [conn |-> c, step |-> "get"])
    /\ log' = [log EXCEPT !.overlapped = @ \/ Visiting(c)]
    /\ UNCHANGED <<memory, pc, wire>>

Record(p) == IF p = NoPage THEN log.hits ELSE [log.hits EXCEPT ![p] = @ + 1]

\* the time spent on the page before is recorded
HitGet(p) ==
    /\ hit[p].step = "get"
    /\ log' = [log EXCEPT !.hits = Record(memory.page[hit[p].conn])]
    /\ hit' = [hit EXCEPT ![p].step = "set"]
    /\ UNCHANGED <<memory, pc, wire>>

\* A mutant of HitSet: the id is stored where the page should be.
HitSetId(p) ==
    /\ hit[p].step = "set"
    /\ memory' = [memory EXCEPT !.page[hit[p].conn] = hit[p].conn]
    /\ hit' = [hit EXCEPT ![p].step = "done"]
    /\ UNCHANGED <<pc, wire, log>>

HitSet(p) ==
    /\ hit[p].step = "set"
    /\ memory' = [memory EXCEPT !.page[hit[p].conn] = p]
    /\ hit' = [hit EXCEPT ![p].step = "done"]
    /\ UNCHANGED <<pc, wire, log>>

-----------------------------------------------------------------------------
(* disconnect() *)

\* the browser closes the tab, whatever the worker is at
Close(c) ==
    /\ pc[c] # "new" /\ c \in log.open
    /\ log' = [log EXCEPT !.open = @ \ {c}]
    /\ pc' = IF pc[c] = "bound" THEN [pc EXCEPT ![c] = "leave"] ELSE pc
    /\ UNCHANGED <<memory, hit, wire>>

\* the server forgets the list when it is empty
Leave(c) ==
    /\ pc[c] = "leave"
    /\ memory' = [memory EXCEPT !.list = @ \ {c}]
    /\ Goto(c, "leave.get")
    /\ UNCHANGED <<hit, wire, log>>

\* the last page is recorded, and forgotten without waiting
LeaveGet(c) ==
    /\ pc[c] = "leave.get"
    /\ log' = [log EXCEPT !.hits = Record(memory.page[c]), !.overlapped = @ \/ Visiting(c)]
    /\ wire' = wire \union {c}
    /\ Goto(c, "gone")
    /\ UNCHANGED <<memory, hit>>

Unset ==
    \E c \in wire :
        /\ memory' = [memory EXCEPT !.page[c] = NoPage]
        /\ wire' = wire \ {c}
        /\ UNCHANGED <<pc, hit, log>>

Next ==
    \/ \E c \in Conns :
          \/ Connect(c) \/ GetSession(c) \/ Add(c)
          \/ Hit(c) \/ Close(c) \/ Leave(c) \/ LeaveGet(c)
    \/ \E p \in DOMAIN hit : HitGet(p) \/ HitSet(p)
    \/ Unset

Serve(c) == GetSession(c) \/ Add(c) \/ Leave(c) \/ LeaveGet(c)

Spec == Init /\ [][Next]_vars /\ WF_vars(\E c \in Conns : Serve(c))

-----------------------------------------------------------------------------
(* Properties *)

\* notifyUser reaches every tab whose handlers are bound, however many others of the user come
\* and go: it is on the list for as long (notifications.js:243, sharedmemory.js:156).
TabsListed == \A c \in Conns : pc[c] = "bound" => c \in memory.list

\* The time on a page is recorded once at most, unless a tab visits the next page, or closes, while
\* the cache is still asked about the one before (notifications.js:51, 79).
RecordedOnce == ~log.overlapped => \A p \in 1..MaxHits : log.hits[p] <= 1

Leaving == {c \in memory.list : pc[c] = "leave"}

\* A tab which closes leaves the list, if its handlers were bound when it did
\* (notifications.js:78).
TabsLeave == Leaving # {} ~> Leaving = {}
=============================================================================
