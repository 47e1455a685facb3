------------------------------ MODULE Requests ------------------------------
(***************************************************************************)
(* What becomes of an HTTP request in a worker (pipeline/*.js): it waits   *)
(* for the boot, is looked up in the front cache, routed, given a session, *)
(* dispatched to a handler, and answered.  What a request is like is       *)
(* decided when the code first looks.                                      *)
(***************************************************************************)
EXTENDS Naturals, Sequences, FiniteSets

CONSTANTS Slots   \* requests, each made once

VARIABLES
    pc,      \* where each request is
    req,     \* what is known of each request
    heads,   \* requests whose answer has begun: writeHead throws when called again
    queue,   \* requests which came before the worker was ready
    boot     \* whether the worker is "loading", "ready", or its boot was "broken"

vars == <<pc, req, heads, queue, boot>>

\* DELETE fares like PUT, and what is neither of these like OPTIONS
Methods == {"GET", "POST", "PUT", "OPTIONS"}
Places == {"admin", "login", "livevars", "endpoint", "page", "static", "api", "upload", "unknown"}
PCs == {"new", "front", "queued", "route", "session", "body", "dispatch", "run", "done", "hung"}

TypeOK ==
    /\ pc \in [Slots -> PCs]
    /\ req \in [Slots -> [method : Methods, place : Places, loggedin : BOOLEAN, dash : BOOLEAN,
                          refused : BOOLEAN, runs : 0..2]]
    /\ heads \subseteq Slots
    /\ queue \in Seq(Slots) /\ Len(queue) <= Cardinality(Slots)
    /\ boot \in {"loading", "ready", "broken"}

Init ==
    /\ pc = [r \in Slots |-> "new"]
    /\ req = [r \in Slots |-> [method |-> "GET", place |-> "unknown", loggedin |-> FALSE,
                               dash |-> FALSE, refused |-> FALSE, runs |-> 0]]
    /\ heads = {}
    /\ queue = << >>
    /\ boot = "loading"

Goto(r, next) == pc' = [pc EXCEPT ![r] = next]

\* the request is answered, or the second writeHead throws in a callback, and that is all
Answer(r) == heads' = heads \union {r} /\ Goto(r, "done")

-----------------------------------------------------------------------------
(* Inbound *)

Arrive(r) ==
    /\ pc[r] = "new"
    /\ \E m \in Methods : req' = [req EXCEPT ![r].method = m]
    /\ Goto(r, "front")
    /\ UNCHANGED <<heads, queue, boot>>

\* the front cache has the page; or the client object is made, whose constructor answers when
\* a cookie cannot be decoded, and the request goes on; before the worker is ready it is kept
Front(r) ==
    /\ pc[r] = "front"
    /\ \/ Answer(r) /\ UNCHANGED queue
       \/ /\ \E weird \in SUBSET {r} : heads' = heads \union weird
          /\ IF boot = "loading"
             THEN Goto(r, "queued") /\ queue' = Append(queue, r)
             ELSE Goto(r, "route") /\ UNCHANGED queue
    /\ UNCHANGED <<req, boot>>

\* what becomes of the first n requests kept, and of the others
Handled(n) == [r \in Slots |->
    IF pc[r] # "queued" THEN pc[r]
    ELSE IF \E i \in 1..n : queue[i] = r THEN "route" ELSE "hung"]

\* A mutant of HandleQueue: the worker is ready, and those who wait are forgotten.
ForgetQueue ==
    /\ boot = "loading"
    /\ boot' = "ready"
    /\ queue' = << >>
    /\ UNCHANGED <<pc, req, heads>>

\* handleQueue(): ready is set, and each request kept is validated and handled; when the head
\* of one was written before, writeHead may throw here, and core.js goes no further
HandleQueue ==
    /\ boot = "loading"
    /\ \/ boot' = "ready" /\ pc' = Handled(Len(queue))
       \/ /\ \E i \in DOMAIN queue : queue[i] \in heads /\ pc' = Handled(i)
          /\ boot' = "broken"
    /\ queue' = << >>
    /\ UNCHANGED <<req, heads>>

-----------------------------------------------------------------------------
(* Handler and Router *)

\* A mutant of Route: the header is not tried.
RouteAnyway(r) ==
    /\ pc[r] = "route"
    /\ \E place \in Places \ {"unknown"} : req' = [req EXCEPT ![r].place = place]
    /\ Goto(r, "session")
    /\ UNCHANGED <<heads, queue, boot>>

\* A path ending in a slash, an unknown website, what cannot be parsed, OPTIONS and methods nobody
\* supports are answered.  The head of a request answered before cannot be written, and
\* the router, which sets a header, leaves it.  Static files need no session.
Route(r) ==
    /\ pc[r] = "route"
    /\ \/ Answer(r) /\ UNCHANGED req
       \/ /\ r \notin heads
          /\ \E place \in Places \ {"unknown"} :
                /\ place # "api" => req[r].method # "OPTIONS"
                /\ place = "upload" => req[r].method = "POST"
                /\ req' = [req EXCEPT ![r].place = place]
                /\ Goto(r, IF place = "static" /\ req[r].method # "POST" THEN "dispatch" ELSE "session")
          /\ UNCHANGED heads
    /\ UNCHANGED <<queue, boot>>

\* whether the body is read before the request is dispatched
Reads(r) == req[r].method = "POST" /\ req[r].place \notin {"api", "upload"}

\* the session is injected, or is none; without one nothing is posted but a login, unless the
\* website allows it, and then the handler reads what was posted
Session(r) ==
    /\ pc[r] = "session"
    /\ \E in \in (IF req[r].place = "static" THEN {FALSE} ELSE BOOLEAN), dash \in BOOLEAN :
          /\ dash => in /\ req[r].place = "admin"
          /\ req' = [req EXCEPT ![r].loggedin = in, ![r].dash = dash]
          /\ IF Reads(r) /\ (in \/ req[r].place = "login")
             THEN Goto(r, "body") /\ UNCHANGED heads
             ELSE \/ Goto(r, "dispatch") /\ UNCHANGED heads
                  \/ Reads(r) /\ Answer(r)
    /\ UNCHANGED <<queue, boot>>

\* JSON, or a form: dispatched when it has come; a file which is too large is answered; one of a
\* type which is not supported is answered, and dispatched when it has come; for one
\* which is supported a module is required which is not there
Body(r) ==
    /\ pc[r] = "body"
    /\ \/ Goto(r, "dispatch") /\ UNCHANGED <<heads, req>>
       \/ Answer(r) /\ UNCHANGED req
       \/ /\ heads' = heads \union {r}
          /\ req' = [req EXCEPT ![r].refused = TRUE]
          /\ Goto(r, "dispatch")
       \/ Goto(r, "hung") /\ UNCHANGED <<heads, req>>
    /\ UNCHANGED <<queue, boot>>

-----------------------------------------------------------------------------
(* Dispatcher, Endpoints, and the handlers *)

\* A mutant of MayAdmin: whoever puts or deletes is not asked.
MayAdminPut(r) == req[r].method \in {"GET", "POST"} => req[r].dash

\* who may have the admin interface: a GET or POST needs the right to the dashboard, a PUT or
\* DELETE a session
MayAdmin(r) == IF req[r].method \in {"GET", "POST"} THEN req[r].dash ELSE req[r].loggedin

\* whether the request is handed to a handler; outside the admin interface there are no handlers of PUT
\* and DELETE, and looking for one throws
Handed(r) ==
    CASE req[r].place = "admin" -> MayAdmin(r)
      [] req[r].place = "livevars" -> req[r].method = "GET" /\ req[r].loggedin
      [] req[r].place \in {"api", "upload"} -> TRUE
      [] OTHER -> req[r].method \in {"GET", "POST"}

Dispatch(r) ==
    /\ pc[r] = "dispatch"
    /\ \/ Handed(r) /\ Goto(r, "run") /\ UNCHANGED heads
       \/ Answer(r)
    /\ UNCHANGED <<req, queue, boot>>

\* a handler answers; or throws, which crash() answers, but not that of an API, or in a
\* callback of its own; or never calls back
Run(r) ==
    /\ pc[r] = "run"
    /\ req' = [req EXCEPT ![r].runs = @ + 1]
    /\ \/ Answer(r)
       \/ Goto(r, "hung") /\ UNCHANGED heads
    /\ UNCHANGED <<queue, boot>>

\* the server closes connections after twelve seconds
Timeout(r) == pc[r] = "hung" /\ Goto(r, "done") /\ UNCHANGED <<req, heads, queue, boot>>

Next ==
    \/ HandleQueue
    \/ \E r \in Slots :
          \/ Arrive(r) \/ Front(r) \/ Route(r) \/ Session(r) \/ Body(r)
          \/ Dispatch(r) \/ Run(r) \/ Timeout(r)

Step(r) == Front(r) \/ Route(r) \/ Session(r) \/ Body(r) \/ Dispatch(r) \/ Run(r) \/ Timeout(r)

Spec == Init /\ [][Next]_vars /\ WF_vars(HandleQueue) /\ WF_vars(\E r \in Slots : Step(r))

-----------------------------------------------------------------------------
(* Properties *)

\* No handler runs for a request which was answered, but for the upload of a file of a type
\* which is not supported (handler.js:109), and none runs twice.
HandledOnce ==
    \A r \in Slots :
        /\ req[r].runs <= 1
        /\ pc[r] \in {"session", "body", "dispatch", "run"} /\ r \in heads => req[r].refused

\* What a handler does for a user without a session is an API, which has tokens of its own; the upload of
\* an image, the one handler under /admin which runs whether there is a session or not (handler.js:246,
\* mediaupload.js:88), and that is a POST; or a GET or POST which is neither of the admin interface nor
\* of live variables: nothing is put or deleted (dispatcher.js:17, 33, 56, 86, 118).
SessionAsked ==
    \A r \in Slots : req[r].runs > 0 /\ ~req[r].loggedin =>
        \/ req[r].place = "api"
        \/ req[r].place = "upload" /\ req[r].method = "POST"
        \/ req[r].place \notin {"admin", "upload", "livevars"} /\ req[r].method \in {"GET", "POST"}

Waiting == {r \in Slots : pc[r] = "queued"}

\* A request which came before the worker was ready is handled when it is, unless one of those
\* which waited was answered already and broke the boot (inbound.js:55).
QueueServed == Waiting # {} ~> Waiting = {} \/ boot = "broken"
=============================================================================
