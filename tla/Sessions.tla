------------------------------ MODULE Sessions ------------------------------
(***************************************************************************)
(* A session is kept twice, in the database and in the shared memory       *)
(* server (lib/session.js).  Requests look in the cache first; what they   *)
(* write to it they mostly do not wait for, and each such request is a     *)
(* connection of its own, so that two of them may arrive in either order.  *)
(***************************************************************************)
EXTENDS Naturals, FiniteSets

CONSTANTS
    Tokens,      \* sessions; a token is drawn once
    Slots,       \* requests in flight
    MaxCrashes   \* bound on restarts of all processes

VARIABLES
    stored,  \* tokens in the sessions collection, in the cache, and of users logged out
    wire,    \* requests to the cache nobody waits for, and insertions into the database
    pc,      \* next round trip of each slot
    token,   \* the session each slot is about
    boot     \* what the elder worker still has to load into the cache; crashes so far

vars == <<stored, wire, pc, token, boot>>

PCs == {"idle", "create.cache", "inject.cache", "inject.find", "remove.db"}
Purposes == {"login", "visit", "logout"}

TypeOK ==
    /\ stored \in [db : SUBSET Tokens, cache : SUBSET Tokens,
                   held : SUBSET Tokens, out : SUBSET Tokens, lost : SUBSET Tokens]
    /\ wire \subseteq {"insert", "add", "remove"} \X Tokens
    /\ pc \in [Slots -> PCs]
    /\ token \in [Slots -> [t : Tokens, purpose : Purposes]]
    /\ boot \in [read : SUBSET Tokens, crashes : 0..MaxCrashes]

Fresh == {t \in Tokens : /\ t \notin stored.held \union stored.out \union stored.lost
                         /\ \A s \in Slots : pc[s] # "idle" => token[s].t # t}

Init ==
    /\ stored = [db |-> {}, cache |-> {}, held |-> {}, out |-> {}, lost |-> {}]
    /\ wire = {}
    /\ pc = [s \in Slots |-> "idle"]
    /\ token = [s \in Slots |-> [t |-> CHOOSE t \in Tokens : TRUE, purpose |-> "visit"]]
    /\ boot = [read |-> {}, crashes |-> 0]

Goto(s, next) == pc' = [pc EXCEPT ![s] = next]

-----------------------------------------------------------------------------
(* createSessionInCli() *)

Login(s) ==
    /\ pc[s] = "idle"
    /\ \E t \in Fresh :
          /\ token' = [token EXCEPT ![s] = [t |-> t, purpose |-> "login"]]
          /\ wire' = wire \union {<<"insert", t>>}
    /\ Goto(s, "create.cache")
    /\ UNCHANGED <<stored, boot>>

\* the cookie is given when the cache has the session, whether or not the database does
CreateCache(s) ==
    /\ pc[s] = "create.cache"
    /\ stored' = [stored EXCEPT !.cache = @ \union {token[s].t}, !.held = @ \union {token[s].t}]
    /\ Goto(s, "idle")
    /\ UNCHANGED <<wire, token, boot>>

-----------------------------------------------------------------------------
(* injectSessionInCli(), before every request, and removeSession() of a logout *)

\* users log out when their login has long reached the database
Arrive(s) ==
    /\ pc[s] = "idle"
    /\ \E t \in stored.held, p \in {"visit", "logout"} :
          /\ p = "logout" => <<"insert", t>> \notin wire
          /\ token' = [token EXCEPT ![s] = [t |-> t, purpose |-> p]]
    /\ Goto(s, "inject.cache")
    /\ UNCHANGED <<stored, wire, boot>>

AfterInject(s) == IF token[s].purpose = "logout" THEN "remove.db" ELSE "idle"

InjectCache(s) ==
    /\ pc[s] = "inject.cache"
    /\ Goto(s, IF token[s].t \in stored.cache THEN AfterInject(s) ELSE "inject.find")
    /\ UNCHANGED <<stored, wire, token, boot>>

\* a session found in the database is sent to the cache without waiting; one which is not
\* there leaves the user without session
InjectFind(s) ==
    /\ pc[s] = "inject.find"
    /\ IF token[s].t \in stored.db
       THEN wire' = wire \union {<<"add", token[s].t>>} /\ Goto(s, AfterInject(s))
       ELSE UNCHANGED wire /\ Goto(s, "idle")
    /\ UNCHANGED <<stored, token, boot>>

\* A mutant of RemoveDb: the cache is told first, and the database forgotten.
RemoveCacheOnly(s) ==
    /\ pc[s] = "remove.db"
    /\ stored' = [stored EXCEPT !.held = @ \ {token[s].t}, !.out = @ \union {token[s].t}]
    /\ wire' = wire \union {<<"remove", token[s].t>>}
    /\ Goto(s, "idle")
    /\ UNCHANGED <<token, boot>>

RemoveDb(s) ==
    /\ pc[s] = "remove.db"
    /\ stored' = [stored EXCEPT !.db = @ \ {token[s].t}, !.held = @ \ {token[s].t},
                                !.out = @ \union {token[s].t}]
    /\ wire' = wire \union {<<"remove", token[s].t>>}
    /\ Goto(s, "idle")
    /\ UNCHANGED <<token, boot>>

-----------------------------------------------------------------------------
(* The shared memory server, and the database, which handle what was sent to them in any
   order *)

Deliver ==
    \E m \in wire :
        /\ wire' = wire \ {m}
        /\ stored' = CASE m[1] = "insert" -> [stored EXCEPT !.db = @ \union {m[2]}]
                       [] m[1] = "add" -> [stored EXCEPT !.cache = @ \union {m[2]}]
                       [] m[1] = "remove" -> [stored EXCEPT !.cache = @ \ {m[2]}]
        /\ UNCHANGED <<pc, token, boot>>

\* the state of a crash which leaves the elder worker with what to load
CrashWith(read) ==
    /\ boot.crashes < MaxCrashes
    /\ boot' = [read |-> read, crashes |-> boot.crashes + 1]
    /\ LET unsaved == {t \in Tokens : <<"insert", t>> \in wire} IN
         stored' = [stored EXCEPT !.cache = {}, !.held = @ \ unsaved,
                                  !.lost = @ \union unsaved]
    /\ wire' = {}
    /\ pc' = [s \in Slots |-> "idle"]
    /\ UNCHANGED token

\* every process goes down, with the cache and what was on the wire; the elder worker
\* comes back with the first batch of its cursor over the sessions
Crash == CrashWith(stored.db)

\* initSessionsFromDatabase, a session at a time, as it was when it was read
Load ==
    \E t \in boot.read :
        /\ boot' = [boot EXCEPT !.read = @ \ {t}]
        /\ stored' = [stored EXCEPT !.cache = @ \union {t}]
        /\ UNCHANGED <<wire, pc, token>>

Next ==
    \/ \E s \in Slots :
          \/ Login(s) \/ CreateCache(s)
          \/ Arrive(s) \/ InjectCache(s) \/ InjectFind(s) \/ RemoveDb(s)
    \/ Deliver
    \/ Load
    \/ Crash

Spec == Init /\ [][Next]_vars

-----------------------------------------------------------------------------
(* Properties *)

\* Whoever has a cookie and has not logged out will be found, whatever crashes: in the
\* cache, for as long as the database has not got the session (session.js:162).
SessionsFound ==
    \A t \in stored.held :
        \/ t \in stored.db
        \/ t \in stored.cache /\ <<"insert", t>> \in wire

\* A session which was logged out of is in the cache only until the cache is told, for as
\* long as no restart makes requests look into the database (session.js:119, 177).
LoggedOutGone ==
    \A t \in stored.out :
        /\ t \notin stored.db
        /\ boot.crashes = 0 /\ t \in stored.cache => <<"remove", t>> \in wire

\* Nothing but a restart brings the cache and the database apart for good: when nothing is on
\* its way, the cache has what users hold (session.js:196).
CacheComplete ==
    wire = {} /\ boot.read = {} => stored.held \subseteq stored.cache
=============================================================================
