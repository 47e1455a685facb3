------------------------------ MODULE Plugins -------------------------------
(***************************************************************************)
(* Plugins (lib/plugins.js), registered when a worker boots (core.js) and  *)
(* from the dashboard (controllers/plugins.js).  Each worker has its own,  *)
(* and all share the collection which says which are active.               *)
(***************************************************************************)
EXTENDS Naturals, FiniteSetsExt

CONSTANTS
    Workers,
    Found,      \* plugins in the directory
    Silent,     \* of those, plugins whose register() throws, or does not call back
    Stubborn,   \* of those, plugins without unregister()
    Gone,       \* plugins which are active and whose directory was removed
    MaxJobs     \* bound on the requests and crashes

VARIABLES
    active,      \* plugins the collection has as active
    registered,  \* plugins each worker has in memory
    todo,        \* plugins a booting worker still has to register, and the one it waits for; {} and none
    jobs,        \* registrations and their opposites on their way in each worker
    served,      \* whether each worker has gone on with its boot
    past         \* requests and crashes, plugins registered again over themselves, those a worker was asked for
                 \* while it looked for them, plugins requests crossed on, and those which other workers
                 \* changed since each booted

vars == <<active, registered, todo, jobs, served, past>>

Plugins == Found \union Gone
Steps == {"search", "update", "done", "off", "unregister"}

TypeOK ==
    /\ active \subseteq Plugins
    /\ registered \in [Workers -> SUBSET Found]
    /\ todo \in [Workers -> SUBSET Plugins]
    /\ jobs \in [Workers -> SUBSET [plugin : Plugins, step : Steps, request : 0..MaxJobs]]
    /\ served \in [Workers -> BOOLEAN]
    /\ past.jobs \in 0..MaxJobs /\ past.twice \in SUBSET Plugins /\ past.again \in SUBSET Plugins
    /\ past.crossed \in SUBSET Plugins /\ past.elsewhere \in [Workers -> SUBSET Plugins]

\* all workers boot over the collection there is
Init ==
    /\ active \in {a \in SUBSET Plugins : Gone \subseteq a}
    /\ registered = [w \in Workers |-> {}]
    /\ todo = [w \in Workers |-> active]
    /\ jobs = [w \in Workers |-> {}]
    /\ served = [w \in Workers |-> FALSE]
    /\ past = [jobs |-> 0, twice |-> {}, again |-> {}, crossed |-> {}, elsewhere |-> [w \in Workers |-> {}]]

-----------------------------------------------------------------------------

\* what the boot registers is request 0
Job(p, step, request) == [plugin |-> p, step |-> step, request |-> request]
Moved(w, j, step) == jobs' = [jobs EXCEPT ![w] = (@ \ {j}) \union {Job(j.plugin, step, j.request)}]
Over(w, j) == jobs' = [jobs EXCEPT ![w] = @ \ {j}]
Boots(w) == \E j \in jobs[w] : j.request = 0

\* the collection is changed behind the backs of the other workers
Elsewhere(w, p) == [v \in Workers |-> IF v = w THEN past.elsewhere[v] ELSE past.elsewhere[v] \union {p}]

\* some other request works on a plugin
Crossing(p) == IF \E w \in Workers : \E j \in jobs[w] : j.plugin = p THEN {p} ELSE {}

\* the worker looks for the plugin, and does not have it as registered yet
Seeking(w, p) == IF \E j \in jobs[w] : j.plugin = p /\ j.step = "search" THEN {p} ELSE {}

\* init(): the next plugin of the list, which is called back at once if it is registered
BootNext(w) ==
    /\ ~Boots(w)
    /\ \E p \in todo[w] :
          /\ todo' = [todo EXCEPT ![w] = @ \ {p}]
          /\ jobs' = IF p \in registered[w] THEN jobs
                     ELSE [jobs EXCEPT ![w] = @ \union {Job(p, "search", 0)}]
          /\ past' = [past EXCEPT !.crossed = @ \union Crossing(p)]
    /\ UNCHANGED <<active, registered, served>>

\* the rest of the boot
Serve(w) ==
    /\ ~served[w] /\ todo[w] = {} /\ ~Boots(w)
    /\ served' = [served EXCEPT ![w] = TRUE]
    /\ UNCHANGED <<active, registered, todo, jobs, past>>

\* A mutant of Register: a plugin which is registered is registered again.
RegisterAnyway(w) ==
    /\ served[w] /\ past.jobs < MaxJobs
    /\ \E p \in Found :
          /\ jobs' = [jobs EXCEPT ![w] = @ \union {Job(p, "search", past.jobs + 1)}]
          /\ past' = [past EXCEPT !.jobs = @ + 1, !.again = @ \union Seeking(w, p), !.crossed = @ \union Crossing(p)]
    /\ UNCHANGED <<active, registered, todo, served>>

\* registerPlugin() of a request, which is answered when it calls back; the same may be asked again
\* while it looks for the plugin
Register(w) ==
    /\ served[w] /\ past.jobs < MaxJobs
    /\ \E p \in Found \ registered[w] :
          /\ jobs' = [jobs EXCEPT ![w] = @ \union {Job(p, "search", past.jobs + 1)}]
          /\ past' = [past EXCEPT !.jobs = @ + 1, !.again = @ \union Seeking(w, p), !.crossed = @ \union Crossing(p)]
    /\ UNCHANGED <<active, registered, todo, served>>

\* the directory is read; a plugin which is not there calls back
Search(w, j) ==
    /\ j.step = "search"
    /\ IF j.plugin \in Found
       THEN /\ registered' = [registered EXCEPT ![w] = @ \union {j.plugin}]
            /\ past' = [past EXCEPT !.twice = IF j.plugin \in registered[w] THEN @ \union {j.plugin} ELSE @]
            /\ Moved(w, j, "update")
       ELSE Over(w, j) /\ UNCHANGED <<registered, past>>
    /\ UNCHANGED <<active, todo, served>>

\* the collection has it as active, and then register() is called
Update(w, j) ==
    /\ j.step = "update"
    /\ active' = active \union {j.plugin}
    /\ past' = IF j.plugin \in active THEN past ELSE [past EXCEPT !.elsewhere = Elsewhere(w, j.plugin)]
    /\ Moved(w, j, "done")
    /\ UNCHANGED <<registered, todo, served>>

Registered(w, j) ==
    /\ j.step = "done" /\ j.plugin \notin Silent
    /\ Over(w, j)
    /\ UNCHANGED <<active, registered, todo, served, past>>

\* unregisterPlugin(), which the request does not wait for; what is on its way out may be asked to go again
Unregister(w) ==
    /\ served[w] /\ past.jobs < MaxJobs
    /\ \E p \in registered[w] :
          /\ jobs' = [jobs EXCEPT ![w] = @ \union {Job(p, "off", past.jobs + 1)}]
          /\ past' = [past EXCEPT !.jobs = @ + 1, !.crossed = @ \union Crossing(p)]
    /\ UNCHANGED <<active, registered, todo, served>>

\* A mutant of Off: the collection keeps it.
OffUnstored(w, j) ==
    /\ j.step = "off"
    /\ Moved(w, j, "unregister")
    /\ UNCHANGED <<active, registered, todo, served, past>>

Off(w, j) ==
    /\ j.step = "off"
    /\ active' = active \ {j.plugin}
    /\ past' = [past EXCEPT !.elsewhere = Elsewhere(w, j.plugin)]
    /\ Moved(w, j, "unregister")
    /\ UNCHANGED <<registered, todo, served>>

\* a plugin which cannot be unregistered stays
Unregistered(w, j) ==
    /\ j.step = "unregister"
    /\ registered' = [registered EXCEPT ![w] = IF j.plugin \in Stubborn THEN @ ELSE @ \ {j.plugin}]
    /\ Over(w, j)
    /\ UNCHANGED <<active, todo, served, past>>

\* the worker dies, is forked again, and boots over what is active now
Crash(w) ==
    /\ past.jobs < MaxJobs
    /\ registered' = [registered EXCEPT ![w] = {}]
    /\ todo' = [todo EXCEPT ![w] = active]
    /\ jobs' = [jobs EXCEPT ![w] = {}]
    /\ served' = [served EXCEPT ![w] = FALSE]
    /\ past' = [past EXCEPT !.jobs = @ + 1, !.crossed = @ \union {j.plugin : j \in jobs[w]}, !.elsewhere[w] = {}]
    /\ UNCHANGED active

Boot(w) == BootNext(w) \/ Serve(w) \/ \E j \in jobs[w] : Search(w, j) \/ Update(w, j) \/ Registered(w, j)

Next ==
    \E w \in Workers :
        \/ Boot(w) \/ Register(w) \/ Unregister(w) \/ Crash(w)
        \/ \E j \in jobs[w] : Off(w, j) \/ Unregistered(w, j)

Spec == Init /\ [][Next]_vars /\ WF_vars(\E w \in Workers : Boot(w))

-----------------------------------------------------------------------------
(* Properties *)

Settled(w) == todo[w] = {} /\ \A j \in jobs[w] : j.step = "done"

\* What a worker has registered is what is active, when nothing is on its way in it, unless it cannot be
\* unregistered, requests crossed on it, or another worker was asked since this one booted: whoever
\* restarts agrees with the collection (plugins.js:156).
RegisteredIsActive ==
    \A w \in Workers : Settled(w) =>
        SymDiff(registered[w], active \ Gone) \subseteq Stubborn \union past.crossed \union past.elsewhere[w]

\* register() of a plugin is called again over itself, without a restart or an unregistration in between,
\* only when the same worker was asked for the plugin while it was looking for it: a plugin which is
\* registered is refused, whatever was asked of other workers (plugins.js:66).
RegisteredOnce == past.twice \subseteq past.again

Booting == {w \in Workers : ~served[w] /\ \A j \in jobs[w] : j.request = 0 => j.plugin \notin Silent}

\* A worker serves in the end, whatever is active and whoever crosses, unless one of them does not call
\* back (plugins.js:98).
BootEnds == Booting # {} ~> Booting = {}
=============================================================================
