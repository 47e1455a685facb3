----------------------------- MODULE Ponglinks -----------------------------
(***************************************************************************)
(* The versions of a short link, each with a hash and a destination: in    *)
(* the database, in the shared cache which redirects from them, and on the *)
(* pages of users, who send all of them when they change one               *)
(* (controllers/ponglinks.js, lib/ponglinks.js).                           *)
(***************************************************************************)
EXTENDS Naturals, SequencesExt

CONSTANTS
    Users,     \* each with a page open
    Slots,     \* requests in flight
    MaxEdits   \* bound on the changes made

VARIABLES
    db,     \* versions in the database
    cache,  \* destination of each hash in the shared cache
    pages,  \* versions on each user's page
    pc,     \* next round trip of each request, and of the elder child's setup
    req,    \* whose it is, and the versions it has
    log     \* changes made, hashes handed out, and what may excuse what is wrong

vars == <<db, cache, pages, pc, req, log>>

None == 0
Dests == 1..(MaxEdits + 2)
Hashes == 1..(MaxEdits + 2)   \* from 1000
Setup == "setup"
NoRequest == [user |-> CHOOSE u \in Users : TRUE, versions |-> << >>]

IsVersions(s) == Len(s) <= MaxEdits + 2 /\ \A i \in DOMAIN s : s[i].hash \in Hashes \union {None} /\ s[i].dest \in Dests

TypeOK ==
    /\ IsVersions(db)
    /\ cache \in [Hashes -> Dests \union {None}]
    /\ \A u \in Users : IsVersions(pages[u])
    /\ pc \in [Slots \union {Setup} -> {"idle", "update", "find", "cache"}]
    /\ \A r \in Slots \union {Setup} : req[r].user \in Users /\ IsVersions(req[r].versions)
    /\ log \in [edits : 0..MaxEdits, handed : SUBSET Hashes, reused : BOOLEAN, topped : BOOLEAN,
                stale : BOOLEAN, raced : BOOLEAN]

\* a link of two versions, which are in the cache
Init ==
    /\ db = <<[hash |-> 1, dest |-> 1], [hash |-> 2, dest |-> 2]>>
    /\ cache = [h \in Hashes |-> IF h <= 2 THEN h ELSE None]
    /\ pages = [u \in Users |-> db]
    /\ pc = [r \in Slots \union {Setup} |-> "idle"]
    /\ req = [r \in Slots \union {Setup} |-> NoRequest]
    /\ log = [edits |-> 0, handed |-> {1, 2}, reused |-> FALSE, topped |-> FALSE, stale |-> FALSE, raced |-> FALSE]

Busy == \E r \in Slots \union {Setup} : pc[r] # "idle"
Goto(r, next) == pc' = [pc EXCEPT ![r] = next]
Done(r) == Goto(r, "idle") /\ req' = [req EXCEPT ![r] = NoRequest]

HashesOf(s) == {s[i].hash : i \in DOMAIN s} \ {None}

-----------------------------------------------------------------------------
(* maybeCreateHash() *)

\* A mutant of NestHash: the first hash which is free.
NestLowest(s) == CHOOSE h \in Hashes : h \notin HashesOf(s) /\ 1..(h - 1) \subseteq HashesOf(s)

NestHash(s) == IF HashesOf(s) = {} THEN 1 ELSE Max(HashesOf(s)) + 1

Hashed(s) ==
    LET hashed[n \in 0..Len(s)] ==
            IF n = 0 THEN s
            ELSE LET acc == hashed[n - 1] IN
                   IF acc[n].hash # None THEN acc ELSE [acc EXCEPT ![n].hash = NestHash(acc)]
    IN hashed[Len(s)]

-----------------------------------------------------------------------------

\* a page is opened, or loaded again
Open(u) == pages[u] # db /\ pages' = [pages EXCEPT ![u] = db] /\ UNCHANGED <<db, cache, pc, req, log>>

\* addVersion(), onVersionChange() and removeVersion(); the hashes are created before the update
Edit(r, u) ==
    /\ pc[r] = "idle" /\ log.edits < MaxEdits
    /\ \E versions \in {Append(pages[u], [hash |-> None, dest |-> log.edits + 3])}
                       \union {[pages[u] EXCEPT ![i].dest = log.edits + 3] : i \in DOMAIN pages[u]}
                       \union {RemoveAt(pages[u], i) : i \in DOMAIN pages[u]} :
          LET new == HashesOf(Hashed(versions)) \ HashesOf(versions) IN
            /\ pages' = [pages EXCEPT ![u] = versions]
            /\ req' = [req EXCEPT ![r] = [user |-> u, versions |-> Hashed(versions)]]
            /\ log' = [log EXCEPT !.edits = @ + 1,
                          !.reused = @ \/ new \intersect log.handed # {},
                          !.stale = @ \/ pages[u] # db,
                          !.raced = @ \/ Busy]
    /\ Goto(r, "update")
    /\ UNCHANGED <<db, cache>>

Update(r) ==
    /\ pc[r] = "update"
    /\ db' = req[r].versions
    /\ log' = [log EXCEPT !.handed = @ \union HashesOf(db'),
                          !.topped = @ \/ Max(log.handed) \notin HashesOf(db')]
    /\ Goto(r, "find")
    /\ UNCHANGED <<cache, pages, req>>

\* what is there is sent to the page, and to the cache
Find(r) ==
    /\ pc[r] = "find" /\ r # Setup
    /\ req' = [req EXCEPT ![r].versions = db]
    /\ pages' = [pages EXCEPT ![req[r].user] = db]
    /\ Goto(r, "cache")
    /\ UNCHANGED <<db, cache, log>>

\* what is no version any more stays
Cache(r) ==
    /\ pc[r] = "cache"
    /\ cache' = [h \in Hashes |-> IF h \notin HashesOf(req[r].versions) THEN cache[h]
                                  ELSE (CHOOSE v \in ToSet(req[r].versions) : v.hash = h).dest]
    /\ Done(r)
    /\ UNCHANGED <<db, pages, log>>

\* the cache dies, and with it all workers
Restart ==
    /\ cache' = [h \in Hashes |-> None]
    /\ pc' = [r \in Slots \union {Setup} |-> IF r = Setup THEN "find" ELSE "idle"]
    /\ req' = [r \in Slots \union {Setup} |-> NoRequest]
    /\ UNCHANGED <<db, pages, log>>

\* setup() of the elder child, while the others may serve
SetupFind ==
    /\ pc[Setup] = "find"
    /\ req' = [req EXCEPT ![Setup].versions = db]
    /\ Goto(Setup, "cache")
    /\ UNCHANGED <<db, cache, pages, log>>

Next ==
    \/ Restart \/ SetupFind
    \/ \E u \in Users : Open(u)
    \/ \E r \in Slots :
          \/ \E u \in Users : Edit(r, u)
          \/ Update(r) \/ Find(r)
    \/ \E r \in Slots \union {Setup} : Cache(r)

Spec == Init /\ [][Next]_vars

-----------------------------------------------------------------------------
(* Properties *)

\* However pages overlap and whatever is added and removed, no two versions have one hash (ponglinks.js:34).
HashesUnique == \A i, j \in DOMAIN db : db[i].hash = db[j].hash => i = j

\* A hash which was handed out is never given to another version, unless the highest was removed, or
\* the page did not know of it (ponglinks.js:34).
HashesKept == log.reused => log.topped \/ log.stale \/ log.raced

\* When nothing is in flight each version is redirected to where it should, after a restart too, unless
\* requests overlapped and stored in another order (controllers/ponglinks.js:62).
Redirected ==
    ~Busy /\ ~log.raced => \A i \in DOMAIN db : cache[db[i].hash] = db[i].dest
=============================================================================
