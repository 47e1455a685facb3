------------------------------- MODULE Pages -------------------------------
(***************************************************************************)
(* A styled page (lib/styledpages.js) and its files under the html root of *)
(* a website.  A visitor is served the file of the path he asks for        *)
(* (pipeline/htmlserver.js); when there is none, the page whose slug it is *)
(* is rendered into its file, and that is served.  To save a page renders  *)
(* it too.  Nothing is ever removed: deleteFile() is given a path which is *)
(* not under the html root, and fails.                                     *)
(***************************************************************************)
EXTENDS Naturals

CONSTANTS
    Slugs,
    Requests,    \* requests in flight, of any worker
    MaxSaves,    \* bound on the saves
    MaxVisits    \* bound on the visits

VARIABLES
    row,    \* the page in the database
    files,  \* what is on disk
    pc,     \* next step of each request
    req,    \* what each request is about
    log     \* requests made, and what may excuse a page

vars == <<row, files, pc, req, log>>

Statuses == {"invisible", "magiclink", "public"}
Versions == 1..(MaxSaves + 1)
Row == [slug : Slugs, status : Statuses, ver : Versions]

\* a path is a slug, which the magic link follows or not
Path == Slugs \X BOOLEAN
File == [ver : 0..(MaxSaves + 1), whole : BOOLEAN]
Absent == [ver |-> 0, whole |-> FALSE]

\* generateFileName()
Landing(page) == <<page.slug, page.status = "magiclink">>

Request == [kind : {"visit", "save"}, path : Path, key : BOOLEAN, page : Row]
NoRequest == CHOOSE q \in Request : TRUE

TypeOK ==
    /\ row \in Row
    /\ files \in [Path -> File]
    /\ pc \in [Requests -> {"idle", "look", "find", "update", "read", "open", "fill", "pipe"}]
    /\ req \in [Requests -> Request]
    /\ log \in [saves : 0..MaxSaves, visits : 0..MaxVisits,
                torn : BOOLEAN, overlapped : BOOLEAN, raced : BOOLEAN, crashed : BOOLEAN]

\* a page which was just created
Init ==
    \E s \in Slugs :
        /\ row = [slug |-> s, status |-> "invisible", ver |-> 1]
        /\ files = [p \in Path |-> Absent]
        /\ pc = [r \in Requests |-> "idle"]
        /\ req = [r \in Requests |-> NoRequest]
        /\ log = [saves |-> 0, visits |-> 0, torn |-> FALSE, overlapped |-> FALSE, raced |-> FALSE, crashed |-> FALSE]

Goto(r, next) == pc' = [pc EXCEPT ![r] = next]
Done(r) == Goto(r, "idle") /\ req' = [req EXCEPT ![r] = NoRequest]

Busy(r) == pc[r] # "idle"
SomeBusy == \E q \in Requests : Busy(q)

-----------------------------------------------------------------------------
(* A visit *)

\* with the access key of the page, or without
Visit(r) ==
    /\ ~Busy(r) /\ log.visits < MaxVisits
    /\ \E p \in Path, k \in BOOLEAN :
          req' = [req EXCEPT ![r] = [@ EXCEPT !.kind = "visit", !.path = p, !.key = k]]
    /\ Goto(r, "look")
    /\ log' = [log EXCEPT !.visits = @ + 1, !.overlapped = @ \/ SomeBusy,
                          !.raced = @ \/ \E q \in Requests : Busy(q) /\ req[q].kind = "save"]
    /\ UNCHANGED <<row, files>>

\* serveClient()
Look(r) ==
    /\ pc[r] = "look"
    /\ Goto(r, IF files[req[r].path] = Absent THEN "find" ELSE "pipe")
    /\ UNCHANGED <<row, files, req, log>>

MaySee(r, page) == page.status = "public" \/ (page.status = "magiclink" /\ req[r].key)

\* serveOrFallback(): the page is rendered, or nothing is found
Find(r) ==
    /\ pc[r] = "find"
    /\ IF req[r].path = <<row.slug, FALSE>> /\ MaySee(r, row)
       THEN /\ req' = [req EXCEPT ![r].page = row]
            /\ Goto(r, "open")
       ELSE Done(r)
    /\ UNCHANGED <<row, files, log>>

\* pipeFileToClient()
Pipe(r) ==
    /\ pc[r] = "pipe"
    /\ log' = [log EXCEPT !.torn = @ \/ ~files[req[r].path].whole]
    /\ Done(r)
    /\ UNCHANGED <<row, files>>

-----------------------------------------------------------------------------
(* save() *)

Save(r) ==
    /\ ~Busy(r) /\ log.saves < MaxSaves
    /\ req' = [req EXCEPT ![r].kind = "save", ![r].page = row]
    /\ Goto(r, "update")
    /\ log' = [log EXCEPT !.saves = @ + 1, !.overlapped = @ \/ SomeBusy, !.raced = @ \/ SomeBusy]
    /\ UNCHANGED <<row, files>>

Update(r) ==
    /\ pc[r] = "update"
    /\ \E s \in Slugs, status \in Statuses : row' = [slug |-> s, status |-> status, ver |-> row.ver + 1]
    /\ Goto(r, "read")
    /\ UNCHANGED <<files, req, log>>

\* A mutant of Read: the page is rendered as it was before.
ReadOld(r) == pc[r] = "read" /\ Goto(r, "open") /\ UNCHANGED <<row, files, req, log>>

Read(r) ==
    /\ pc[r] = "read"
    /\ req' = [req EXCEPT ![r].page = row]
    /\ Goto(r, "open")
    /\ UNCHANGED <<row, files, log>>

-----------------------------------------------------------------------------
(* generatePage(), with or without the theme *)

\* whom the end of the writing is told
Written(r) ==
    IF req[r].kind = "save" THEN Done(r)
    ELSE Goto(r, "pipe") /\ req' = [req EXCEPT ![r].path = Landing(req[r].page)]

\* the file is opened, and what was in it is gone
Open(r) ==
    /\ pc[r] = "open"
    /\ files' = [files EXCEPT ![Landing(req[r].page)] = [ver |-> req[r].page.ver, whole |-> FALSE]]
    /\ Goto(r, "fill")
    /\ UNCHANGED <<row, req, log>>

\* over what another request wrote meanwhile, of which a longer end may be left
Fill(r) ==
    /\ pc[r] = "fill"
    /\ LET page == req[r].page
           there == files[Landing(page)]
       IN \E whole \in IF there.whole /\ there.ver # page.ver THEN BOOLEAN ELSE {TRUE} :
             files' = [files EXCEPT ![Landing(page)] = [ver |-> page.ver, whole |-> whole]]
    /\ Written(r)
    /\ UNCHANGED <<row, log>>

\* the worker dies
Crash(r) ==
    /\ Busy(r)
    /\ Done(r)
    /\ log' = [log EXCEPT !.crashed = TRUE]
    /\ UNCHANGED <<row, files>>

Next ==
    \E r \in Requests :
        \/ Visit(r) \/ Look(r) \/ Find(r) \/ Pipe(r)
        \/ Save(r) \/ Update(r) \/ Read(r)
        \/ Open(r) \/ Fill(r) \/ Crash(r)

Spec == Init /\ [][Next]_vars

-----------------------------------------------------------------------------
(* Properties *)

\* A visitor is served a whole page, unless requests overlapped or a worker died while it wrote one,
\* whose half stays (styledpages.js:95).
ServedWhole == log.torn => log.overlapped \/ log.crashed

\* When nothing is in flight the file of a page is the page as it is in the database, or is not there,
\* however it was renamed and shown and however visits overlapped; unless a save overlapped with another
\* request, which may have rendered the page it read before (styledpages.js:146).
FileIsPage ==
    ~log.raced /\ ~log.crashed /\ ~SomeBusy =>
        files[Landing(row)] \in {Absent, [ver |-> row.ver, whole |-> TRUE]}
=============================================================================
