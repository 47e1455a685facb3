------------------------------ MODULE Editions ------------------------------
(***************************************************************************)
(* Editions are what articles are filed under, one for each level          *)
(* (controllers/editions.js, lib/editions.js).  To merge, replace or move  *)
(* one rewrites the articles which refer to it, one after the other or     *)
(* all at once, while others do the same.                                  *)
(***************************************************************************)
EXTENDS Naturals, FiniteSets

CONSTANTS
    Eds,      \* editions
    Levels,   \* their levels, naturals
    Posts,    \* articles
    Slots,    \* requests in flight
    MaxJobs   \* bound on the requests made

VARIABLES
    eds,      \* each edition's level, and whether it is active
    posts,    \* the edition of each article at each level
    pc,       \* next round trip of each request
    req,      \* what each request is about
    log       \* requests made, whether two overlapped, or one changed a level meanwhile

vars == <<eds, posts, pc, req, log>>

None == "none"
Filing == [Levels -> Eds \union {None}]
NewLevel == CHOOSE l \in Levels : TRUE
NoRequest == [from |-> {}, to |-> None, level |-> NewLevel, rest |-> {}, read |-> << >>, groups |-> {}]

PCs == {"idle", "merge.check", "merge.mark", "merge.find", "merge.write", "replace.mark", "replace.posts",
        "level.groups", "level.asked", "level.mark", "level.posts"}

TypeOK ==
    /\ eds \in [Eds -> [level : Levels, active : BOOLEAN]]
    /\ posts \in [Posts -> Filing]
    /\ pc \in [Slots -> PCs]
    /\ \A r \in Slots :
          /\ req[r].from \subseteq Eds /\ req[r].to \in Eds \union {None} /\ req[r].level \in Levels
          /\ req[r].rest \subseteq Eds /\ req[r].groups \subseteq Filing
          /\ DOMAIN req[r].read \subseteq Posts
    /\ log \in [jobs : 0..MaxJobs, overlapped : BOOLEAN, moved : BOOLEAN]

\* articles are filed under active editions of the level they are filed at
Proper(filing) == \A l \in Levels : filing[l] # None => eds[filing[l]].active /\ eds[filing[l]].level = l

\* as far as there are editions
Filed(filing) == Proper(filing) /\ \A l \in Levels : filing[l] = None => \A e \in Eds : eds[e].level # l

Init ==
    /\ eds \in [Eds -> [level : Levels, active : {TRUE}]]
    /\ posts \in [Posts -> {f \in Filing : Filed(f)}]
    /\ pc = [r \in Slots |-> "idle"]
    /\ req = [r \in Slots |-> NoRequest]
    /\ log = [jobs |-> 0, overlapped |-> FALSE, moved |-> FALSE]

Busy == \E r \in Slots : pc[r] # "idle"
Moving == \E r \in Slots : pc[r] \in {"level.groups", "level.asked", "level.mark", "level.posts"}

Goto(r, next) == pc' = [pc EXCEPT ![r] = next]

\* the user chooses among the editions which are active
Active == {e \in Eds : eds[e].active}

Begin(r, first, job) ==
    /\ pc[r] = "idle" /\ log.jobs < MaxJobs
    /\ Goto(r, first)
    /\ req' = [req EXCEPT ![r] = job]
    /\ log' = [jobs |-> log.jobs + 1, overlapped |-> log.overlapped \/ Busy,
               moved |-> log.moved \/ Moving \/ (Busy /\ first = "level.groups")]
    /\ UNCHANGED <<eds, posts>>

-----------------------------------------------------------------------------
(* merge and automergesimilar *)

StartMerge(r) ==
    \E from, to \in Active :
        from # to /\ Begin(r, "merge.check", [NoRequest EXCEPT !.from = {from}, !.to = to])

\* editions of a level which share a slug, the first of which is the parent of the others
StartAutomerge(r) ==
    \E l \in Levels : \E same \in SUBSET {e \in Active : eds[e].level = l} : \E to \in same : \E from \in same \ {to} :
        Begin(r, "merge.mark", [NoRequest EXCEPT !.from = {from}, !.to = to, !.level = l,
                                                 !.rest = same \ {from, to}])

MergeCheck(r) ==
    /\ pc[r] = "merge.check"
    /\ \E e \in req[r].from :
          IF eds[e].level = eds[req[r].to].level
          THEN Goto(r, "merge.mark") /\ req' = [req EXCEPT ![r].level = eds[e].level]
          ELSE Goto(r, "idle") /\ req' = [req EXCEPT ![r] = NoRequest]
    /\ UNCHANGED <<eds, posts, log>>

Deactivate(from) == eds' = [e \in Eds |-> IF e \in from THEN [eds[e] EXCEPT !.active = FALSE] ELSE eds[e]]

MergeMark(r) ==
    /\ pc[r] = "merge.mark"
    /\ Deactivate(req[r].from)
    /\ Goto(r, "merge.find")
    /\ UNCHANGED <<posts, req, log>>

\* updatePostsAfterMerge(): a cursor over the articles which refer to the edition, as they are now
MergeFind(r) ==
    /\ pc[r] = "merge.find"
    /\ LET found == {p \in Posts : \E l \in Levels : posts[p][l] \in req[r].from} IN
         req' = [req EXCEPT ![r].read = [p \in found |-> posts[p]]]
    /\ Goto(r, "merge.write")
    /\ UNCHANGED <<eds, posts, log>>

\* A mutant of MergeWrite: only the first article is updated.
MergeWriteOnce(r) ==
    /\ pc[r] = "merge.write"
    /\ \E p \in DOMAIN req[r].read : posts' = [posts EXCEPT ![p][req[r].level] = req[r].to]
    /\ Goto(r, "idle")
    /\ req' = [req EXCEPT ![r] = NoRequest]
    /\ UNCHANGED <<eds, log>>

\* an article is written with all its editions as they were read; then the next one, the next task
\* of an automatic merge, or the answer
MergeWrite(r) ==
    /\ pc[r] = "merge.write"
    /\ \/ \E p \in DOMAIN req[r].read :
             /\ posts' = [posts EXCEPT ![p] = [req[r].read[p] EXCEPT ![req[r].level] = req[r].to]]
             /\ req' = [req EXCEPT ![r].read = [q \in DOMAIN @ \ {p} |-> @[q]]]
             /\ UNCHANGED pc
       \/ /\ DOMAIN req[r].read = {}
          /\ IF req[r].rest = {} THEN Goto(r, "idle") /\ req' = [req EXCEPT ![r] = NoRequest]
             ELSE /\ \E e \in req[r].rest : req' = [req EXCEPT ![r].from = {e}, ![r].rest = @ \ {e}]
                  /\ Goto(r, "merge.mark")
          /\ UNCHANGED posts
    /\ UNCHANGED <<eds, log>>

-----------------------------------------------------------------------------
(* replacewith *)

\* the level is that of the first to be replaced; the page offers those of one level
StartReplace(r) ==
    \E l \in Levels : \E from \in SUBSET {e \in Active : eds[e].level = l} \ {{}} : \E to \in Active \ from :
        /\ eds[to].level = l
        /\ Begin(r, "replace.mark", [NoRequest EXCEPT !.from = from, !.to = to, !.level = l])

ReplaceMark(r) ==
    /\ pc[r] = "replace.mark"
    /\ Deactivate(req[r].from)
    /\ Goto(r, "replace.posts")
    /\ UNCHANGED <<posts, req, log>>

ReplacePosts(r) ==
    /\ pc[r] = "replace.posts"
    /\ posts' = [p \in Posts |-> IF posts[p][req[r].level] \in req[r].from
                                 THEN [posts[p] EXCEPT ![req[r].level] = req[r].to] ELSE posts[p]]
    /\ Goto(r, "idle")
    /\ req' = [req EXCEPT ![r] = NoRequest]
    /\ UNCHANGED <<eds, log>>

-----------------------------------------------------------------------------
(* changelevel *)

StartMove(r) ==
    \E e \in Active : \E l \in Levels \ {eds[e].level} :
        Begin(r, "level.groups", [NoRequest EXCEPT !.from = {e}, !.level = l])

\* the articles which are filed under it at its level are grouped; none, and it is moved at once
MoveGroups(r) ==
    /\ pc[r] = "level.groups"
    /\ LET groups == {posts[p] : p \in {q \in Posts : \E e \in req[r].from : posts[q][eds[e].level] = e}} IN
         /\ req' = [req EXCEPT ![r].groups = groups]
         /\ Goto(r, IF groups = {} THEN "level.mark" ELSE "level.asked")
    /\ UNCHANGED <<eds, posts, log>>

\* the user files each group anew, or gives up
MoveCommit(r) ==
    /\ pc[r] = "level.asked"
    /\ \/ Goto(r, "level.mark") /\ UNCHANGED req
       \/ Goto(r, "idle") /\ req' = [req EXCEPT ![r] = NoRequest]
    /\ UNCHANGED <<eds, posts, log>>

MoveMark(r) ==
    /\ pc[r] = "level.mark"
    /\ eds' = [e \in Eds |-> IF e \in req[r].from THEN [eds[e] EXCEPT !.level = req[r].level] ELSE eds[e]]
    /\ Goto(r, "level.posts")
    /\ UNCHANGED <<posts, req, log>>

\* the articles of a group are those which are filed the same to the last level
MovePosts(r) ==
    /\ pc[r] = "level.posts"
    /\ \/ \E g \in req[r].groups : \E new \in {f \in Filing : Proper(f)} :
             /\ posts' = [p \in Posts |-> IF posts[p] = g THEN new ELSE posts[p]]
             /\ req' = [req EXCEPT ![r].groups = @ \ {g}]
             /\ UNCHANGED pc
       \/ /\ req[r].groups = {}
          /\ Goto(r, "idle")
          /\ req' = [req EXCEPT ![r] = NoRequest]
          /\ UNCHANGED posts
    /\ UNCHANGED <<eds, log>>

Next ==
    \E r \in Slots :
        \/ StartMerge(r) \/ StartAutomerge(r) \/ StartReplace(r) \/ StartMove(r)
        \/ MergeCheck(r) \/ MergeMark(r) \/ MergeFind(r) \/ MergeWrite(r)
        \/ ReplaceMark(r) \/ ReplacePosts(r)
        \/ MoveGroups(r) \/ MoveCommit(r) \/ MoveMark(r) \/ MovePosts(r)

Merging(r) == MergeCheck(r) \/ MergeMark(r) \/ MergeFind(r) \/ MergeWrite(r)

Spec == Init /\ [][Next]_vars /\ \A r \in Slots : WF_vars(Merging(r))

-----------------------------------------------------------------------------
(* Properties *)

\* No article is left under an edition which was merged or replaced, as long as no two requests
\* overlap (editions.js:14).
NoneLeftBehind ==
    ~log.overlapped /\ ~Busy => \A p \in Posts : Proper(posts[p])

\* However merges and replacements overlap, and with whatever an article is written back, it stays filed
\* at each level under an edition of that level, unless an edition was moved meanwhile (editions.js:15).
LevelsKept ==
    ~log.moved /\ ~Moving =>
        \A p \in Posts, l \in Levels : posts[p][l] # None => eds[posts[p][l]].level = l

\* A merge comes to its end, with as many articles as there are, and as many editions (editions.js:5).
MergeEnds == \A r \in Slots : pc[r] = "merge.write" ~> pc[r] = "idle"
=============================================================================
