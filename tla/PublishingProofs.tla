-------------------------- MODULE PublishingProofs --------------------------
(* Theorems about Publishing *)
EXTENDS Publishing, TLAPS

\* Articles stay articles through every function handlers apply to them.
LEMMA AbsentType == Absent \in PostRec
<1>1. (CHOOSE t \in Incomplete : TRUE) \in Texts
  BY ArticlesAssumption
<1>2. QED
  BY <1>1 DEF Absent, Draft, PostRec, Statuses

LEMMA DraftType ==
  ASSUME NEW t \in Incomplete
  PROVE  Draft(t) \in PostRec
BY ArticlesAssumption DEF Draft, PostRec, Statuses

LEMMA MergeType ==
  ASSUME NEW post \in PostRec, NEW e \in Edits
  PROVE  /\ Merge(post, e) \in PostRec
         /\ Merge(post, e).status = post.status
         /\ Merge(post, e).name = post.name
         /\ Merge(post, e).url = post.url
         /\ Merge(post, e).dated = post.dated
BY DEF Merge, PostRec, Edits

LEMMA NamedType ==
  ASSUME NEW post \in PostRec
  PROVE  /\ Named(post) \in PostRec
         /\ Named(post).name \in Slugs
<1>1. SlugOf(post.text) \in Slugs
  BY ArticlesAssumption DEF SlugOf, PostRec
<1>2. QED
  BY <1>1, ArticlesAssumption DEF Named, PostRec

LEMMA PublishedType ==
  ASSUME NEW post \in PostRec, NEW valid \in PostRec
  PROVE  Published(post, valid) \in PostRec
BY DEF Published, PostRec, Url, Urls, Statuses

LEMMA RenamedType ==
  ASSUME NEW post \in PostRec, NEW read \in PostRec, NEW s \in Slugs
  PROVE  Renamed(post, read, s) \in PostRec
BY DEF Renamed, PostRec, Url, Urls

LEMMA RefreshedType ==
  ASSUME NEW post \in PostRec, NEW read \in PostRec
  PROVE  Refreshed(post, read) \in PostRec
BY DEF Refreshed, CurrentUrl, PostRec, Url, Urls

LEMMA StatusType ==
  ASSUME NEW post \in PostRec, NEW o \in StatusOps
  PROVE  [post EXCEPT !.status = NewStatus[o]] \in PostRec
BY DEF NewStatus, StatusOps, PostRec, Statuses

-----------------------------------------------------------------------------
(* Type correctness *)

LEMMA InitType == Init => TypeOK
BY AbsentType, ArticlesAssumption
   DEF Init, TypeOK, RequestOK, Requests, NoRequest, PCs, Statuses

\* The shape of every step of a slot: what it does to the bookkeeping of the slot
\* keeps the slot well-formed.
LEMMA BeginType ==
  ASSUME TypeOK, NEW r \in Slots, NEW p \in Posts, NEW o \in AllOperations,
         NEW a \in Edits \cup Slugs \cup Texts \cup {None}, NEW first \in PCs,
         Begin(r, o, p, a, first),
         first \in {"save.read", "save.history", "save.write"} => a \in Edits,
         first \in {"slug.exists", "slug.read", "slug.write", "slug.history"} => a \in Slugs,
         first \in {"autosave.read", "autosave.insert"} => a \in Texts,
         first \in {"status.write", "status.history"} => o \in StatusOps
  PROVE  TypeOK'
<1>1. pc' \in [Slots -> PCs] /\ req' \in [Slots -> Requests]
  BY DEF TypeOK, Begin, Requests
<1>2. snap' \in [Slots -> PostRec]
  BY AbsentType DEF TypeOK, Begin
<1>3. ASSUME NEW s \in Slots PROVE RequestOK(s)'
  <2>1. CASE s = r
    BY <2>1 DEF TypeOK, Begin, RequestOK
  <2>2. CASE s # r
    BY <2>2 DEF TypeOK, Begin, RequestOK
  <2>3. QED BY <2>1, <2>2
<1>4. QED
  BY <1>1, <1>2, <1>3 DEF TypeOK, Begin

LEMMA GotoType ==
  ASSUME TypeOK, NEW r \in Slots, NEW at \in PCs, Goto(r, at),
         pc[r] # "idle",
         at \in {"save.read", "save.history", "save.write"} =>
             pc[r] \in {"save.read", "save.history", "save.write"},
         at \in {"slug.exists", "slug.read", "slug.write", "slug.history"} =>
             pc[r] \in {"slug.exists", "slug.read", "slug.write", "slug.history"},
         at \in {"autosave.read", "autosave.insert"} =>
             pc[r] \in {"autosave.read", "autosave.insert"},
         at \in {"status.write", "status.history"} =>
             pc[r] \in {"status.write", "status.history"}
  PROVE  /\ pc' \in [Slots -> PCs] /\ req' \in [Slots -> Requests]
         /\ told' \in {"none", "ok", "error"}
         /\ \A s \in Slots : RequestOK(s)'
<1>1. pc' \in [Slots -> PCs] /\ req' = req /\ told' = "none"
  BY DEF TypeOK, Goto
<1>2. ASSUME NEW s \in Slots PROVE RequestOK(s)'
  <2>1. CASE s = r
    BY <2>1 DEF TypeOK, Goto, RequestOK
  <2>2. CASE s # r
    BY <2>2 DEF TypeOK, Goto, RequestOK
  <2>3. QED BY <2>1, <2>2
<1>3. QED
  BY <1>1, <1>2 DEF TypeOK

LEMMA AnswerType ==
  ASSUME TypeOK, NEW r \in Slots, NEW what \in {"none", "ok", "error"}, Answer(r, what)
  PROVE  /\ pc' \in [Slots -> PCs] /\ req' \in [Slots -> Requests]
         /\ snap' \in [Slots -> PostRec]
         /\ told' \in {"none", "ok", "error"}
         /\ \A s \in Slots : RequestOK(s)'
<1>1. pc' \in [Slots -> PCs]
  BY DEF TypeOK, Answer, PCs
<1>2. req' \in [Slots -> Requests]
  BY DEF TypeOK, Answer, Requests, NoRequest
<1>3. snap' \in [Slots -> PostRec]
  BY AbsentType DEF TypeOK, Answer
<1>4. ASSUME NEW s \in Slots PROVE RequestOK(s)'
  <2>1. CASE s = r
    BY <2>1 DEF TypeOK, Answer, RequestOK
  <2>2. CASE s # r
    BY <2>2 DEF TypeOK, Answer, RequestOK
  <2>3. QED BY <2>1, <2>2
<1>5. QED
  BY <1>1, <1>2, <1>3, <1>4 DEF Answer

LEMMA StartType ==
  ASSUME TypeOK, NEW r \in Slots, NEW p \in Posts, Start(r, p)
  PROVE  TypeOK'
<1>1. CASE StartSave(r, p)
  BY <1>1, BeginType DEF StartSave, PCs, AllOperations
<1>2. CASE StartSlug(r, p)
  BY <1>2, BeginType DEF StartSlug, PCs, AllOperations
<1>3. CASE StartPublish(r, p)
  BY <1>3, BeginType DEF StartPublish, PCs, AllOperations
<1>4. CASE StartRefresh(r, p)
  BY <1>4, BeginType DEF StartRefresh, PCs, AllOperations
<1>5. CASE StartAutosave(r, p)
  BY <1>5, BeginType DEF StartAutosave, PCs, AllOperations
<1>6. ASSUME NEW o \in StatusOps, StartStatus(r, p, o) PROVE TypeOK'
  <2>1. Begin(r, o, p, None, "status.write") /\ o \in AllOperations
    BY <1>6 DEF StartStatus, AllOperations
  <2>2. QED
    BY <2>1, BeginType DEF PCs
<1>7. QED
  BY <1>1, <1>2, <1>3, <1>4, <1>5, <1>6 DEF Start

\* a written article is an article, and the rest of the state is as typed as before
LEMMA WriteType ==
  ASSUME TypeOK, NEW p \in Posts, NEW post \in PostRec, Write(p, post)
  PROVE  posts' \in [Posts -> PostRec]
BY DEF TypeOK, Write

LEMMA LogType ==
  ASSUME TypeOK, NEW p \in Posts, NEW t \in EntryTypes, Log(p, t)
  PROVE  history' \in [Posts -> SUBSET EntryTypes]
BY DEF TypeOK, Log

LEMMA ReadType ==
  ASSUME TypeOK, NEW r \in Slots, NEW post \in PostRec, NEW at, Read(r, post, at)
  PROVE  snap' \in [Slots -> PostRec] /\ Goto(r, at)
BY DEF TypeOK, Read

LEMMA StepType ==
  ASSUME TypeOK, NEW r \in Slots, Step(r)
  PROVE  TypeOK'
<1> DEFINE p == req[r].post
<1>0. /\ pc[r] # "idle" => p \in Posts
      /\ pc[r] # "idle" => posts[p] \in PostRec
      /\ snap[r] \in PostRec
      /\ RequestOK(r)
  BY DEF TypeOK, RequestOK
<1>1. CASE SaveRead(r)
  <2>1. CASE Answer(r, "ok")
    BY <1>1, <2>1, AnswerType DEF SaveRead, TypeOK
  <2>2. CASE Read(r, posts[p], "save.history")
    BY <1>0, <1>1, <2>2, ReadType, GotoType DEF SaveRead, TypeOK, PCs
  <2>3. QED BY <1>1, <2>1, <2>2 DEF SaveRead
<1>2. CASE SaveHistory(r)
  BY <1>2, GotoType DEF SaveHistory, TypeOK, PCs
<1>3. CASE SaveWrite(r)
  <2>1. Merge(snap[r], req[r].arg) \in PostRec
    BY <1>0, <1>3, MergeType DEF SaveWrite, RequestOK
  <2>2. QED
    BY <1>0, <1>3, <2>1, WriteType, AnswerType DEF SaveWrite, TypeOK
<1>4. CASE SlugExists(r)
  <2>1. CASE Answer(r, "error")
    BY <1>4, <2>1, AnswerType DEF SlugExists, TypeOK
  <2>2. CASE Goto(r, "slug.read") /\ UNCHANGED snap
    BY <1>4, <2>2, GotoType DEF SlugExists, TypeOK, PCs
  <2>3. QED BY <1>4, <2>1, <2>2 DEF SlugExists
<1>5. CASE SlugRead(r)
  BY <1>0, <1>5, ReadType, GotoType DEF SlugRead, TypeOK, PCs
<1>6. CASE SlugWrite(r)
  <2>1. Renamed(posts[p], snap[r], req[r].arg) \in PostRec
    BY <1>0, <1>6, RenamedType DEF SlugWrite, RequestOK
  <2>2. QED
    BY <1>0, <1>6, <2>1, WriteType, GotoType DEF SlugWrite, TypeOK, PCs
<1>7. CASE SlugHistory(r)
  <2>1. CASE Throw(r)
    BY <1>7, <2>1, GotoType DEF SlugHistory, Throw, TypeOK, PCs
  <2>2. CASE Answer(r, "ok")
    BY <1>7, <2>2, AnswerType DEF SlugHistory, TypeOK
  <2>3. QED BY <1>7, <2>1, <2>2 DEF SlugHistory
<1>8. CASE PublishRead(r)
  <2>1. CASE Answer(r, "ok")
    BY <1>8, <2>1, AnswerType DEF PublishRead, TypeOK
  <2>2. CASE Read(r, Named(posts[p]), "publish.write")
    <3>1. Named(posts[p]) \in PostRec
      BY <1>0, <1>8, NamedType DEF PublishRead
    <3>2. QED
      BY <3>1, <1>8, <2>2, ReadType, GotoType DEF PublishRead, TypeOK, PCs
  <2>3. QED BY <1>8, <2>1, <2>2 DEF PublishRead
<1>9. CASE PublishWrite(r)
  <2>1. Published(posts[p], snap[r]) \in PostRec
    BY <1>0, <1>9, PublishedType DEF PublishWrite
  <2>2. QED
    BY <1>0, <1>9, <2>1, WriteType, GotoType DEF PublishWrite, TypeOK, PCs
<1>10. CASE PublishAutosave(r)
  BY <1>10, GotoType DEF PublishAutosave, TypeOK, PCs
<1>11. CASE PublishHistory(r)
  BY <1>0, <1>11, LogType, GotoType DEF PublishHistory, TypeOK, PCs, EntryTypes
<1>12. CASE PublishGenerate(r)
  <2>1. CASE Throw(r)
    BY <1>12, <2>1, GotoType DEF PublishGenerate, Throw, TypeOK, PCs
  <2>2. CASE Answer(r, "ok")
    BY <1>12, <2>2, AnswerType DEF PublishGenerate, TypeOK
  <2>3. QED BY <1>12, <2>1, <2>2 DEF PublishGenerate
<1>13. CASE StatusWrite(r)
  <2>1. [posts[p] EXCEPT !.status = NewStatus[req[r].op]] \in PostRec
    BY <1>0, <1>13, StatusType DEF StatusWrite, RequestOK
  <2>2. QED
    BY <1>0, <1>13, <2>1, WriteType, GotoType DEF StatusWrite, TypeOK, PCs
<1>14. CASE StatusHistory(r)
  <2>1. EntryType[req[r].op] \in EntryTypes
    BY <1>0, <1>14 DEF StatusHistory, RequestOK, EntryType, EntryTypes, StatusOps
  <2>2. QED
    BY <1>0, <1>14, <2>1, LogType, AnswerType DEF StatusHistory, TypeOK
<1>15. CASE RefreshRead(r)
  BY <1>0, <1>15, ReadType, GotoType DEF RefreshRead, TypeOK, PCs
<1>16. CASE RefreshWrite(r)
  <2>1. Refreshed(posts[p], snap[r]) \in PostRec
    BY <1>0, <1>16, RefreshedType DEF RefreshWrite
  <2>2. QED
    BY <1>0, <1>16, <2>1, WriteType, GotoType DEF RefreshWrite, TypeOK, PCs
<1>17. CASE RefreshHistory(r)
  BY <1>17, GotoType DEF RefreshHistory, TypeOK, PCs
<1>18. CASE RefreshGenerate(r)
  <2>1. CASE Throw(r)
    BY <1>18, <2>1, GotoType DEF RefreshGenerate, Throw, TypeOK, PCs
  <2>2. CASE Answer(r, "ok")
    BY <1>18, <2>2, AnswerType DEF RefreshGenerate, TypeOK
  <2>3. QED BY <1>18, <2>1, <2>2 DEF RefreshGenerate
<1>19. CASE AutosaveRead(r)
  <2>1. CASE Answer(r, "ok")
    BY <1>19, <2>1, AnswerType DEF AutosaveRead, TypeOK
  <2>2. CASE Goto(r, "autosave.insert") /\ UNCHANGED snap
    BY <1>19, <2>2, GotoType DEF AutosaveRead, TypeOK, PCs
  <2>3. QED BY <1>19, <2>1, <2>2 DEF AutosaveRead
<1>20. CASE AutosaveInsert(r)
  BY <1>0, <1>20, AnswerType DEF AutosaveInsert, TypeOK, RequestOK
<1>21. QED
  BY <1>1, <1>2, <1>3, <1>4, <1>5, <1>6, <1>7, <1>8, <1>9, <1>10, <1>11, <1>12,
     <1>13, <1>14, <1>15, <1>16, <1>17, <1>18, <1>19, <1>20 DEF Step

LEMMA NextType == TypeOK /\ [Next]_vars => TypeOK'
<1> SUFFICES ASSUME TypeOK, [Next]_vars PROVE TypeOK'
  OBVIOUS
<1>1. ASSUME NEW p \in Posts, Create(p) PROVE TypeOK'
  BY <1>1, DraftType DEF Create, Write, TypeOK, RequestOK
<1>2. ASSUME NEW r \in Slots, NEW p \in Posts, Start(r, p) PROVE TypeOK'
  BY <1>2, StartType
<1>3. ASSUME NEW r \in Slots, Step(r) PROVE TypeOK'
  BY <1>3, StepType
<1>4. ASSUME NEW r \in Slots, WorkerDies(r) PROVE TypeOK'
  <2>1. OwedEntry(r) \subseteq EntryTypes /\ req[r].post \in Posts
    BY <1>4 DEF WorkerDies, OwedEntry, EntryTypes, EntryType, StatusOps, TypeOK, RequestOK
  <2>2. QED
    BY <1>4, <2>1, AnswerType DEF WorkerDies, TypeOK
<1>5. CASE UNCHANGED vars
  BY <1>5 DEF vars, TypeOK, RequestOK
<1>6. QED
  BY <1>1, <1>2, <1>3, <1>4, <1>5 DEF Next

\* Every reachable state is well-typed: articles keep their shape, and a handler's
\* request and snapshot are what its next round trip needs.
THEOREM TypeCorrect == Spec => []TypeOK
BY InitType, NextType, PTL DEF Spec

-----------------------------------------------------------------------------
(* A published article can be reached *)

LEMMA UrlNotNone ==
  ASSUME NEW e \in Editions \cup {None}, NEW n \in Slugs \cup {None}
  PROVE  Url(e, n) # None
BY ArticlesAssumption DEF Url, Urls

\* What a step may do to the articles, as far as their addresses go.
LEMMA AddressKept ==
  ASSUME AddressableInv, [Next]_vars, NEW p \in Posts, posts'[p].status = "published"
  PROVE  Addressable(posts'[p])
<1> USE DEF AddressableInv
<1>0. TypeOK'
  BY NextType
<1>1. CASE posts' = posts
  BY <1>1 DEF PublishedAddressable
<1>2. ASSUME NEW q \in Posts, Create(q) PROVE Addressable(posts'[p])
  BY <1>2 DEF Create, Write, Draft, PublishedAddressable, TypeOK
<1>3. ASSUME NEW r \in Slots, SaveWrite(r) PROVE Addressable(posts'[p])
  <2>1. /\ snap[r] \in PostRec /\ req[r].arg \in Edits
        /\ snap[r].status = "published" => Addressable(snap[r])
    BY <1>3 DEF SaveWrite, TypeOK, RequestOK, SnapshotsAddressable
  <2>2. QED
    BY <1>3, <2>1, MergeType DEF SaveWrite, Write, Addressable, PublishedAddressable, TypeOK
<1>4. ASSUME NEW r \in Slots, SlugWrite(r) PROVE Addressable(posts'[p])
  <2>1. snap[r] \in PostRec /\ req[r].arg \in Slugs /\ posts[p] \in PostRec
    BY <1>4 DEF SlugWrite, TypeOK, RequestOK
  <2>2. Url(None, snap[r].name) # None /\ req[r].arg # None
    BY <2>1, UrlNotNone, ArticlesAssumption DEF PostRec
  <2>3. QED
    BY <1>4, <2>1, <2>2
       DEF SlugWrite, Write, Renamed, Addressable, PublishedAddressable, TypeOK, PostRec
<1>5. ASSUME NEW r \in Slots, PublishWrite(r) PROVE Addressable(posts'[p])
  <2>1. snap[r] \in PostRec /\ snap[r].name # None /\ posts[p] \in PostRec
    BY <1>5 DEF PublishWrite, TypeOK, SnapshotsAddressable
  <2>2. Url(snap[r].edition, snap[r].name) # None
    BY <2>1, UrlNotNone DEF PostRec
  <2>3. QED
    BY <1>5, <2>1, <2>2
       DEF PublishWrite, Write, Published, Addressable, PublishedAddressable, TypeOK, PostRec
<1>6. ASSUME NEW r \in Slots, StatusWrite(r) PROVE Addressable(posts'[p])
  <2>1. req[r].op \in StatusOps /\ posts[p] \in PostRec
    BY <1>6 DEF StatusWrite, TypeOK, RequestOK
  <2>2. NewStatus[req[r].op] # "published"
    BY <2>1 DEF NewStatus, StatusOps
  <2>3. QED
    BY <1>6, <2>1, <2>2 DEF StatusWrite, Write, PublishedAddressable, TypeOK, PostRec
<1>7. ASSUME NEW r \in Slots, RefreshWrite(r) PROVE Addressable(posts'[p])
  <2>1. snap[r] \in PostRec /\ posts[p] \in PostRec
    BY <1>7 DEF RefreshWrite, TypeOK
  <2>2. CurrentUrl(snap[r]) # None
    BY <2>1, UrlNotNone DEF CurrentUrl, PostRec
  <2>3. QED
    BY <1>7, <2>1, <2>2
       DEF RefreshWrite, Write, Refreshed, Addressable, PublishedAddressable, TypeOK, PostRec
<1>8. QED
  <2>1. CASE UNCHANGED vars
    BY <2>1, <1>1 DEF vars
  <2>2. ASSUME NEW r \in Slots, NEW q \in Posts, Start(r, q) PROVE posts' = posts
    BY <2>2 DEF Start, StartSave, StartSlug, StartPublish, StartRefresh, StartAutosave,
                StartStatus, Begin
  <2>3. ASSUME NEW r \in Slots, WorkerDies(r) PROVE posts' = posts
    BY <2>3 DEF WorkerDies
  <2>4. ASSUME NEW r \in Slots, Step(r),
               ~SaveWrite(r), ~SlugWrite(r), ~PublishWrite(r), ~StatusWrite(r), ~RefreshWrite(r)
        PROVE  posts' = posts
    BY <2>4 DEF Step, SaveRead, SaveHistory, SlugExists, SlugRead, SlugHistory, PublishRead,
                PublishAutosave, PublishHistory, PublishGenerate, StatusHistory, RefreshRead,
                RefreshHistory, RefreshGenerate, AutosaveRead, AutosaveInsert
  <2>5. QED
    BY <1>1, <1>2, <1>3, <1>4, <1>5, <1>6, <1>7, <2>1, <2>2, <2>3, <2>4 DEF Next

\* A step of one slot leaves the other slots as they are.
LEMMA OtherSlotsKept ==
  ASSUME TypeOK, NEW r \in Slots, NEW s \in Slots, s # r,
         Step(r) \/ WorkerDies(r) \/ \E p \in Posts : Start(r, p)
  PROVE  pc'[s] = pc[s] /\ req'[s] = req[s] /\ snap'[s] = snap[s]
<1> USE DEF TypeOK, Answer, Goto, Read, Throw
<1>1. CASE Step(r)
  BY <1>1 DEF Step, SaveRead, SaveHistory, SaveWrite, SlugExists, SlugRead, SlugWrite,
     SlugHistory, PublishRead, PublishWrite, PublishAutosave, PublishHistory,
     PublishGenerate, StatusWrite, StatusHistory, RefreshRead, RefreshWrite,
     RefreshHistory, RefreshGenerate, AutosaveRead, AutosaveInsert
<1>2. CASE WorkerDies(r)
  BY <1>2 DEF WorkerDies
<1>3. CASE \E p \in Posts : Start(r, p)
  BY <1>3 DEF Start, StartSave, StartSlug, StartPublish, StartRefresh, StartAutosave,
              StartStatus, Begin
<1>4. QED BY <1>1, <1>2, <1>3

\* How a slot comes to hold a snapshot which is about to be written: a save has just
\* read the article, or moves on with what it read; a publication has validated it.
LEMMA SnapshotSource ==
  ASSUME TypeOK, NEW r \in Slots,
         Step(r) \/ WorkerDies(r) \/ \E p \in Posts : Start(r, p)
  PROVE  /\ pc'[r] \in {"save.history", "save.write"} =>
              \/ SaveRead(r) /\ snap'[r] = posts[req[r].post] /\ req' = req /\ req[r].post \in Posts
              \/ SaveHistory(r) /\ snap'[r] = snap[r] /\ req' = req /\ pc[r] = "save.history"
         /\ pc'[r] = "publish.write" =>
              PublishRead(r) /\ snap'[r] = Named(posts[req[r].post]) /\ req[r].post \in Posts
<1> USE DEF TypeOK, Answer, Goto, Read, Throw
<1>1. CASE Step(r)
  <2>1. CASE SaveRead(r) BY <2>1 DEF SaveRead, RequestOK
  <2>2. CASE SaveHistory(r) BY <2>2 DEF SaveHistory
  <2>3. CASE PublishRead(r) BY <2>3 DEF PublishRead, RequestOK
  <2>4. CASE ~SaveRead(r) /\ ~SaveHistory(r) /\ ~PublishRead(r)
    BY <1>1, <2>4 DEF Step, SaveWrite, SlugExists, SlugRead, SlugWrite,
       SlugHistory, PublishWrite, PublishAutosave, PublishHistory,
       PublishGenerate, StatusWrite, StatusHistory, RefreshRead, RefreshWrite,
       RefreshHistory, RefreshGenerate, AutosaveRead, AutosaveInsert
  <2>5. QED BY <2>1, <2>2, <2>3, <2>4
<1>2. CASE WorkerDies(r)
  BY <1>2 DEF WorkerDies
<1>3. CASE \E p \in Posts : Start(r, p)
  BY <1>3 DEF Start, StartSave, StartSlug, StartPublish, StartRefresh, StartAutosave,
              StartStatus, Begin
<1>4. QED BY <1>1, <1>2, <1>3

LEMMA SnapshotsAddressableKept ==
  ASSUME AddressableInv, [Next]_vars
  PROVE  SnapshotsAddressable'
<1> USE DEF AddressableInv
<1>1. CASE UNCHANGED <<pc, snap>>
  BY <1>1 DEF SnapshotsAddressable
<1>2. ASSUME NEW r \in Slots, Step(r) \/ WorkerDies(r) \/ \E p \in Posts : Start(r, p)
      PROVE  SnapshotsAddressable'
  <2> SUFFICES ASSUME NEW s \in Slots
               PROVE  /\ pc'[s] \in {"save.history", "save.write"} /\ snap'[s].status = "published"
                            => Addressable(snap'[s])
                      /\ pc'[s] = "publish.write" => snap'[s].name # None
    BY DEF SnapshotsAddressable
  <2>1. CASE s # r
    BY <1>2, <2>1, OtherSlotsKept DEF SnapshotsAddressable
  <2>2. CASE s = r
    <3>1. ASSUME pc'[r] = "publish.write" PROVE snap'[r].name # None
      <4>1. snap'[r] = Named(posts[req[r].post]) /\ req[r].post \in Posts
        BY <1>2, <3>1, SnapshotSource
      <4>2. posts[req[r].post] \in PostRec
        BY <4>1 DEF TypeOK
      <4>3. QED
        BY <4>1, <4>2, NamedType, ArticlesAssumption
    <3>2. ASSUME pc'[r] \in {"save.history", "save.write"}, snap'[r].status = "published"
          PROVE  Addressable(snap'[r])
      BY <1>2, <3>2, SnapshotSource DEF SnapshotsAddressable, PublishedAddressable
    <3>3. QED BY <2>2, <3>1, <3>2
  <2>3. QED BY <2>1, <2>2
<1>3. QED
  BY <1>1, <1>2 DEF Next, vars, Create

\* Whatever requests overlap and whichever workers die, an article which is published
\* has a name, a url and a publication date.
THEOREM PublishedAreAddressable == Spec => []PublishedAddressable
<1>1. Init => AddressableInv
  <2>1. ASSUME Init PROVE PublishedAddressable /\ SnapshotsAddressable
    BY <2>1 DEF Init, Absent, Draft, PublishedAddressable, SnapshotsAddressable
  <2>2. QED BY <2>1, InitType DEF AddressableInv
<1>2. AddressableInv /\ [Next]_vars => AddressableInv'
  <2> SUFFICES ASSUME AddressableInv, [Next]_vars PROVE AddressableInv'
    OBVIOUS
  <2>1. TypeOK'
    BY NextType DEF AddressableInv
  <2>2. PublishedAddressable'
    BY AddressKept DEF PublishedAddressable
  <2>3. QED
    BY <2>1, <2>2, SnapshotsAddressableKept DEF AddressableInv
<1>3. AddressableInv => PublishedAddressable
  BY DEF AddressableInv
<1>4. QED
  BY <1>1, <1>2, <1>3, PTL DEF Spec

-----------------------------------------------------------------------------
(* A decision leaves its history entry *)

LEMMA HistoryGrows ==
  ASSUME TypeOK, [Next]_vars, NEW p \in Posts
  PROVE  history[p] \subseteq history'[p] /\ lost \subseteq lost'
<1>1. CASE UNCHANGED vars
  BY <1>1 DEF vars
<1>2. ASSUME NEW q \in Posts, Create(q) PROVE UNCHANGED <<history, lost>>
  BY <1>2 DEF Create
<1>3. ASSUME NEW r \in Slots, NEW q \in Posts, Start(r, q) PROVE UNCHANGED <<history, lost>>
  BY <1>3 DEF Start, StartSave, StartSlug, StartPublish, StartRefresh, StartAutosave,
              StartStatus, Begin
<1>4. ASSUME NEW r \in Slots, WorkerDies(r) PROVE UNCHANGED history /\ lost \subseteq lost'
  BY <1>4 DEF WorkerDies
<1>5. ASSUME NEW r \in Slots, Step(r)
      PROVE  UNCHANGED lost /\ history[p] \subseteq history'[p]
  <2>1. CASE PublishHistory(r)
    BY <2>1 DEF PublishHistory, Log, TypeOK
  <2>2. CASE StatusHistory(r)
    BY <2>2 DEF StatusHistory, Log, TypeOK
  <2>3. CASE ~PublishHistory(r) /\ ~StatusHistory(r)
    BY <1>5, <2>3 DEF Step, SaveRead, SaveHistory, SaveWrite, SlugExists, SlugRead,
       SlugWrite, SlugHistory, PublishRead, PublishWrite, PublishAutosave,
       PublishGenerate, StatusWrite, RefreshRead, RefreshWrite, RefreshHistory,
       RefreshGenerate, AutosaveRead, AutosaveInsert
  <2>4. QED BY <2>1, <2>2, <2>3
<1>6. QED
  BY <1>1, <1>2, <1>3, <1>4, <1>5 DEF Next

\* An owed entry is still owed after a step, or has been written, or was lost.
LEMMA OwedKept ==
  ASSUME TypeOK, NEW r \in Slots, NEW p \in Posts, NEW type \in OwedEntry(r),
         req[r].post = p,
         Step(r) \/ WorkerDies(r) \/ \E q \in Posts : Start(r, q)
  PROVE  Explained(p, type)'
<1>1. pc[r] \in {"publish.autosave", "publish.history", "status.history"}
  BY DEF OwedEntry
<1>2. CASE Step(r)
  <2>1. CASE PublishAutosave(r)
    <3>1. type = "published" /\ pc'[r] = "publish.history" /\ req'[r] = req[r]
      BY <2>1 DEF PublishAutosave, Goto, OwedEntry, TypeOK
    <3>2. type \in OwedEntry(r)'
      BY <3>1 DEF OwedEntry
    <3>3. QED BY <3>1, <3>2 DEF Explained
  <2>2. CASE PublishHistory(r)
    <3>1. type = "published"
      BY <2>2 DEF PublishHistory, OwedEntry
    <3>2. QED BY <2>2, <3>1 DEF PublishHistory, Log, Explained, TypeOK
  <2>3. CASE StatusHistory(r)
    <3>1. type = EntryType[req[r].op]
      BY <2>3 DEF StatusHistory, OwedEntry
    <3>2. QED BY <2>3, <3>1 DEF StatusHistory, Log, Explained, TypeOK
  <2>4. QED
    BY <1>1, <1>2, <2>1, <2>2, <2>3 DEF Step, SaveRead, SaveHistory, SaveWrite, SlugExists,
       SlugRead, SlugWrite, SlugHistory, PublishRead, PublishWrite, PublishGenerate,
       StatusWrite, RefreshRead, RefreshWrite, RefreshHistory, RefreshGenerate,
       AutosaveRead, AutosaveInsert
<1>3. CASE WorkerDies(r)
  BY <1>3 DEF WorkerDies, Explained
<1>4. CASE \E q \in Posts : Start(r, q)
  BY <1>1, <1>4 DEF Start, StartSave, StartSlug, StartPublish, StartRefresh, StartAutosave,
              StartStatus, Begin
<1>5. QED BY <1>2, <1>3, <1>4

LEMMA ExplainedKept ==
  ASSUME TypeOK, [Next]_vars, NEW p \in Posts, NEW type, Explained(p, type)
  PROVE  Explained(p, type)'
<1>1. CASE type \in history[p]
  BY <1>1, HistoryGrows DEF Explained
<1>2. CASE <<p, type>> \in lost
  BY <1>2, HistoryGrows DEF Explained
<1>3. ASSUME NEW r \in Slots, req[r].post = p, type \in OwedEntry(r)
      PROVE  Explained(p, type)'
  <2>1. CASE UNCHANGED <<pc, req>>
    BY <1>3, <2>1 DEF Explained, OwedEntry
  <2>2. ASSUME NEW s \in Slots, Step(s) \/ WorkerDies(s) \/ \E q \in Posts : Start(s, q)
        PROVE  Explained(p, type)'
    <3>1. CASE s = r
      BY <1>3, <2>2, <3>1, OwedKept
    <3>2. CASE s # r
      BY <1>3, <2>2, <3>2, OtherSlotsKept DEF Explained, OwedEntry
    <3>3. QED BY <3>1, <3>2
  <2>3. QED
    BY <2>1, <2>2 DEF Next, vars, Create
<1>4. QED
  BY <1>1, <1>2, <1>3 DEF Explained

\* Each step which gives an article a status owes the entry which explains it, has
\* the status from the article itself, or from the snapshot of a save.
LEMMA StatusSource ==
  ASSUME TypeOK, [Next]_vars, NEW p \in Posts
  PROVE  \/ posts'[p].status = posts[p].status
         \/ Explaining(posts'[p].status) = {}
         \/ \E r \in Slots : /\ pc[r] = "save.write" /\ req[r].post = p
                             /\ posts'[p].status = snap[r].status
         \/ \E r \in Slots : /\ req'[r].post = p
                             /\ Explaining(posts'[p].status) \subseteq OwedEntry(r)'
<1>1. ASSUME NEW q \in Posts, Create(q) PROVE posts'[p].status = posts[p].status
                                           \/ Explaining(posts'[p].status) = {}
  BY <1>1 DEF Create, Write, Draft, Explaining, TypeOK
<1>2. ASSUME NEW r \in Slots, SaveWrite(r)
      PROVE  posts'[p].status = posts[p].status
             \/ /\ pc[r] = "save.write" /\ req[r].post = p
                /\ posts'[p].status = snap[r].status
  <2>1. snap[r] \in PostRec /\ req[r].arg \in Edits
    BY <1>2 DEF SaveWrite, TypeOK, RequestOK
  <2>2. QED
    BY <1>2, <2>1, MergeType DEF SaveWrite, Write, TypeOK
<1>3. ASSUME NEW r \in Slots, SlugWrite(r) PROVE posts'[p].status = posts[p].status
  BY <1>3 DEF SlugWrite, Write, Renamed, TypeOK, PostRec
<1>4. ASSUME NEW r \in Slots, RefreshWrite(r) PROVE posts'[p].status = posts[p].status
  BY <1>4 DEF RefreshWrite, Write, Refreshed, TypeOK, PostRec
<1>5. ASSUME NEW r \in Slots, PublishWrite(r)
      PROVE  posts'[p].status = posts[p].status
             \/ /\ req'[r].post = p
                /\ Explaining(posts'[p].status) \subseteq OwedEntry(r)'
  <2>1. CASE req[r].post = p
    <3>1. posts'[p].status = "published" /\ pc'[r] = "publish.autosave" /\ req' = req
      BY <1>5, <2>1 DEF PublishWrite, Write, Published, Goto, TypeOK, PostRec
    <3>2. QED
      BY <2>1, <3>1 DEF Explaining, OwedEntry
  <2>2. CASE req[r].post # p
    BY <1>5, <2>2 DEF PublishWrite, Write, TypeOK
  <2>3. QED BY <2>1, <2>2
<1>6. ASSUME NEW r \in Slots, StatusWrite(r)
      PROVE  posts'[p].status = posts[p].status
             \/ /\ req'[r].post = p
                /\ Explaining(posts'[p].status) \subseteq OwedEntry(r)'
  <2>1. CASE req[r].post = p
    <3>1. /\ posts'[p].status = NewStatus[req[r].op] /\ pc'[r] = "status.history"
          /\ req' = req /\ req[r].op \in StatusOps
      BY <1>6, <2>1 DEF StatusWrite, Write, Goto, TypeOK, RequestOK, PostRec
    <3>2. OwedEntry(r)' = {EntryType[req[r].op]}
      BY <3>1 DEF OwedEntry
    <3>3. Explaining(NewStatus[req[r].op]) \subseteq {EntryType[req[r].op]}
      BY <3>1 DEF Explaining, NewStatus, EntryType, StatusOps
    <3>4. QED
      BY <2>1, <3>1, <3>2, <3>3
  <2>2. CASE req[r].post # p
    BY <1>6, <2>2 DEF StatusWrite, Write, TypeOK
  <2>3. QED BY <2>1, <2>2
<1>7. CASE posts' = posts
  BY <1>7
<1>8. QED
  <2>1. CASE UNCHANGED vars
    BY <2>1, <1>7 DEF vars
  <2>2. ASSUME NEW r \in Slots, NEW q \in Posts, Start(r, q) PROVE posts' = posts
    BY <2>2 DEF Start, StartSave, StartSlug, StartPublish, StartRefresh, StartAutosave,
                StartStatus, Begin
  <2>3. ASSUME NEW r \in Slots, WorkerDies(r) PROVE posts' = posts
    BY <2>3 DEF WorkerDies
  <2>4. ASSUME NEW r \in Slots, Step(r),
               ~SaveWrite(r), ~SlugWrite(r), ~PublishWrite(r), ~StatusWrite(r), ~RefreshWrite(r)
        PROVE  posts' = posts
    BY <2>4 DEF Step, SaveRead, SaveHistory, SlugExists, SlugRead, SlugHistory, PublishRead,
                PublishAutosave, PublishHistory, PublishGenerate, StatusHistory, RefreshRead,
                RefreshHistory, RefreshGenerate, AutosaveRead, AutosaveInsert
  <2>5. QED
    BY <1>1, <1>2, <1>3, <1>4, <1>5, <1>6, <1>7, <2>1, <2>2, <2>3, <2>4 DEF Next

LEMMA StatusExplainedKept ==
  ASSUME ExplainedInv, [Next]_vars
  PROVE  StatusExplained'
<1> SUFFICES ASSUME NEW p \in Posts, NEW type \in Explaining(posts'[p].status)
             PROVE  Explained(p, type)'
  BY DEF StatusExplained, Explaining
<1> USE DEF ExplainedInv
<1>1. CASE posts'[p].status = posts[p].status
  BY <1>1, ExplainedKept DEF StatusExplained
<1>2. CASE Explaining(posts'[p].status) = {}
  BY <1>2
<1>3. ASSUME NEW r \in Slots, pc[r] = "save.write", req[r].post = p,
             posts'[p].status = snap[r].status
      PROVE  Explained(p, type)'
  BY <1>3, ExplainedKept DEF SnapshotsExplained
<1>4. ASSUME NEW r \in Slots, req'[r].post = p,
             Explaining(posts'[p].status) \subseteq OwedEntry(r)'
      PROVE  Explained(p, type)'
  BY <1>4 DEF Explained
<1>5. QED
  BY <1>1, <1>2, <1>3, <1>4, StatusSource

LEMMA SnapshotsExplainedKept ==
  ASSUME ExplainedInv, [Next]_vars
  PROVE  SnapshotsExplained'
<1> USE DEF ExplainedInv
<1> SUFFICES ASSUME NEW s \in Slots, pc'[s] \in {"save.history", "save.write"},
                    NEW type \in Explaining(snap'[s].status)
             PROVE  Explained(req[s].post, type)'
  BY DEF SnapshotsExplained, Explaining
<1>1. ASSUME pc[s] \in {"save.history", "save.write"}, snap'[s] = snap[s], req'[s] = req[s]
      PROVE  Explained(req[s].post, type)'
  BY <1>1, ExplainedKept DEF SnapshotsExplained, TypeOK, RequestOK
<1>2. CASE UNCHANGED <<pc, snap, req>>
  BY <1>1, <1>2
<1>3. ASSUME NEW r \in Slots, Step(r) \/ WorkerDies(r) \/ \E p \in Posts : Start(r, p)
      PROVE  Explained(req[s].post, type)'
  <2>1. CASE s # r
    BY <1>1, <1>3, <2>1, OtherSlotsKept
  <2>2. CASE s = r
    <3>1. CASE /\ snap'[r] = posts[req[r].post] /\ req' = req /\ req[r].post \in Posts
      BY <2>2, <3>1, ExplainedKept DEF StatusExplained
    <3>2. CASE /\ snap'[r] = snap[r] /\ req' = req /\ pc[r] = "save.history"
      BY <1>1, <2>2, <3>2
    <3>3. QED
      BY <1>3, <2>2, <3>1, <3>2, SnapshotSource
  <2>3. QED BY <2>1, <2>2
<1>4. QED
  BY <1>2, <1>3 DEF Next, vars, Create

\* Whoever finds an article reviewing, published, deleted or destroyed finds the
\* history entry of that decision, unless its handler is about to write it or died
\* before it could.
THEOREM StatusesAreExplained == Spec => []StatusExplained
<1>1. Init => ExplainedInv
  <2>1. ASSUME Init PROVE StatusExplained /\ SnapshotsExplained
    BY <2>1 DEF Init, Absent, Draft, StatusExplained, SnapshotsExplained, Explaining
  <2>2. QED BY <2>1, InitType DEF ExplainedInv
<1>2. ExplainedInv /\ [Next]_vars => ExplainedInv'
  <2> SUFFICES ASSUME ExplainedInv, [Next]_vars PROVE ExplainedInv'
    OBVIOUS
  <2>1. TypeOK'
    BY NextType DEF ExplainedInv
  <2>2. QED
    BY <2>1, StatusExplainedKept, SnapshotsExplainedKept DEF ExplainedInv
<1>3. ExplainedInv => StatusExplained
  BY DEF ExplainedInv
<1>4. QED
  BY <1>1, <1>2, <1>3, PTL DEF Spec

-----------------------------------------------------------------------------
(* What Publishing promises an editor who works alone: with one request served at a time, what its     *)
(* handler has read is the article as it stands.  From that follow that links are kept, that a handler *)
(* hangs on articles of several pages only, and that the handlers implement ContentStore.              *)

\* one request is served at a time
Alone == \A r, s \in Slots : r = s

\* what a handler knows of its article, and of the others
Current(r) ==
    /\ pc[r] # "idle" => posts[req[r].post].status # "absent"
    /\ pc[r] \in {"save.history", "save.write", "slug.write", "refresh.write"} =>
           snap[r] = posts[req[r].post]
    /\ pc[r] = "publish.write" =>
           /\ snap[r] = Named(posts[req[r].post])
           /\ Complete(posts[req[r].post])
    /\ pc[r] \in {"slug.read", "slug.write"} => \A q \in Posts : posts[q].name # req[r].arg
    /\ pc[r] = "slug.history" => snap[r].name # req[r].arg
    /\ pc[r] = "status.write" /\ req[r].op = "submit" => posts[req[r].post].status # "published"
    /\ pc[r] = "hung" => req[r].post \in Paginated

AloneInv == TypeOK /\ \A r \in Slots : Current(r)

LEMMA InitAlone == Init => AloneInv
<1>1. ASSUME Init, NEW r \in Slots PROVE Current(r)
  BY <1>1 DEF Init, Current
<1>2. QED
  BY <1>1, InitType DEF AloneInv

\* an article which is created is none of those being worked on, and has no name yet
LEMMA CreateAlone ==
  ASSUME AloneInv, NEW p \in Posts, Create(p), NEW r \in Slots
  PROVE  Current(r)'
<1>1. /\ UNCHANGED <<pc, req, snap>>
      /\ posts[p].status = "absent"
      /\ \E t \in Incomplete : posts' = [posts EXCEPT ![p] = Draft(t)]
  BY DEF Create, Write
<1>2. posts \in [Posts -> PostRec] /\ Current(r) /\ RequestOK(r)
  BY DEF AloneInv, TypeOK
<1>3. \A q \in Posts : q # p => posts'[q] = posts[q]
  BY <1>1, <1>2
<1>4. posts'[p].name = None
  BY <1>1, <1>2 DEF Draft
<1>5. CASE pc[r] = "idle"
  BY <1>1, <1>5 DEF Current
<1>6. CASE pc[r] # "idle"
  <2>1. req[r].post \in Posts /\ req[r].post # p
    BY <1>1, <1>2, <1>6 DEF Current, RequestOK
  <2>2. posts'[req[r].post] = posts[req[r].post]
    BY <1>3, <2>1
  <2>3. ASSUME pc[r] \in {"slug.read", "slug.write"}, NEW q \in Posts
        PROVE  posts'[q].name # req[r].arg
    <3>1. req[r].arg \in Slugs /\ posts[q].name # req[r].arg
      BY <1>2, <2>3 DEF Current, RequestOK
    <3>2. QED
      BY <1>3, <1>4, <3>1, ArticlesAssumption
  <2>4. QED
    BY <1>1, <1>2, <2>2, <2>3 DEF Current
<1>7. QED
  BY <1>5, <1>6

LEMMA StartAlone ==
  ASSUME AloneInv, NEW r \in Slots, NEW p \in Posts, Start(r, p)
  PROVE  Current(r)'
<1>1. ASSUME NEW o, NEW a, NEW first, Begin(r, o, p, a, first),
             first \in {"save.read", "slug.exists", "publish.read", "refresh.read", "autosave.read"}
      PROVE  Current(r)'
  BY <1>1 DEF Begin, Current, AloneInv, TypeOK
<1>2. ASSUME NEW o \in StatusOps, StartStatus(r, p, o)
      PROVE  Current(r)'
  BY <1>2 DEF StartStatus, Begin, Current, AloneInv, TypeOK
<1>3. QED
  BY <1>1, <1>2 DEF Start, StartSave, StartSlug, StartPublish, StartRefresh, StartAutosave

\* the steps which write an article leave none absent
LEMMA WriteAlone ==
  ASSUME AloneInv, NEW r \in Slots,
         \/ SaveWrite(r) \/ SlugWrite(r) \/ PublishWrite(r) \/ StatusWrite(r) \/ RefreshWrite(r)
  PROVE  Current(r)'
<1> DEFINE p == req[r].post
<1>1. /\ p \in Posts /\ posts \in [Posts -> PostRec] /\ Current(r) /\ RequestOK(r)
      /\ pc \in [Slots -> PCs] /\ req \in [Slots -> Requests] /\ snap \in [Slots -> PostRec]
  BY DEF AloneInv, TypeOK, RequestOK, SaveWrite, SlugWrite, PublishWrite, StatusWrite, RefreshWrite
<1>2. CASE SaveWrite(r)
  BY <1>1, <1>2 DEF SaveWrite, Answer, Current
<1>3. CASE SlugWrite(r)
  <2>1. /\ pc[r] = "slug.write" /\ pc'[r] = "slug.history" /\ req' = req /\ snap' = snap
        /\ posts'[p] = Renamed(posts[p], snap[r], req[r].arg)
    BY <1>1, <1>3 DEF SlugWrite, Write, Goto
  <2>2. posts'[p].status = posts[p].status
    BY <1>1, <2>1 DEF Renamed, PostRec
  <2>3. snap[r].name # req[r].arg
    BY <1>1, <2>1 DEF Current
  <2>4. QED
    BY <1>1, <2>1, <2>2, <2>3 DEF Current
<1>4. CASE PublishWrite(r)
  <2>1. /\ pc[r] = "publish.write" /\ pc'[r] = "publish.autosave" /\ req' = req /\ snap' = snap
        /\ posts'[p] = Published(posts[p], snap[r])
    BY <1>1, <1>4 DEF PublishWrite, Write, Goto
  <2>2. posts'[p].status = "published"
    BY <1>1, <2>1 DEF Published, PostRec
  <2>3. QED
    BY <1>1, <2>1, <2>2 DEF Current
<1>5. CASE StatusWrite(r)
  <2>1. /\ pc[r] = "status.write" /\ pc'[r] = "status.history" /\ req' = req /\ snap' = snap
        /\ posts'[p] = [posts[p] EXCEPT !.status = NewStatus[req[r].op]]
    BY <1>1, <1>5 DEF StatusWrite, Write, Goto
  <2>2. req[r].op \in StatusOps
    BY <1>1, <2>1 DEF RequestOK
  <2>3. posts'[p].status # "absent"
    BY <1>1, <2>1, <2>2 DEF NewStatus, StatusOps, PostRec
  <2>4. QED
    BY <1>1, <2>1, <2>3 DEF Current
<1>6. CASE RefreshWrite(r)
  <2>1. /\ pc[r] = "refresh.write" /\ pc'[r] = "refresh.history" /\ req' = req /\ snap' = snap
        /\ posts'[p] = Refreshed(posts[p], snap[r])
    BY <1>1, <1>6 DEF RefreshWrite, Write, Goto
  <2>2. posts'[p].status = posts[p].status
    BY <1>1, <2>1 DEF Refreshed, PostRec
  <2>3. QED
    BY <1>1, <2>1, <2>2 DEF Current
<1>7. QED
  BY <1>2, <1>3, <1>4, <1>5, <1>6

\* the steps which read one, or only go on
LEMMA StepAlone ==
  ASSUME AloneInv, NEW r \in Slots, Step(r) \/ WorkerDies(r)
  PROVE  Current(r)'
<1> DEFINE p == req[r].post
<1>1. /\ posts \in [Posts -> PostRec] /\ Current(r) /\ RequestOK(r)
      /\ pc \in [Slots -> PCs] /\ req \in [Slots -> Requests] /\ snap \in [Slots -> PostRec]
  BY DEF AloneInv, TypeOK
<1>2. ASSUME NEW what, Answer(r, what), posts' = posts
      PROVE  Current(r)'
  BY <1>1, <1>2 DEF Answer, Current
<1>3. ASSUME NEW at, Goto(r, at), posts' = posts, pc[r] # "idle",
             at \in {"publish.autosave", "publish.history", "publish.generate",
                     "refresh.history", "refresh.generate", "autosave.insert"}
      PROVE  Current(r)'
  BY <1>1, <1>3 DEF Goto, Current
<1>4. ASSUME Throw(r), posts' = posts, pc[r] # "idle", p \in Paginated
      PROVE  Current(r)'
  BY <1>1, <1>4 DEF Throw, Goto, Current
<1>5. CASE SaveRead(r)
  <2>1. CASE Answer(r, "ok") /\ posts' = posts
    BY <1>2, <2>1
  <2>2. CASE Read(r, posts[p], "save.history") /\ posts' = posts /\ pc[r] = "save.read"
    BY <1>1, <2>2 DEF Read, Goto, Current
  <2>3. QED
    BY <1>5, <2>1, <2>2 DEF SaveRead
<1>6. CASE SaveHistory(r)
  BY <1>1, <1>6 DEF SaveHistory, Goto, Current
<1>7. CASE SlugExists(r)
  <2>1. CASE Answer(r, "error") /\ posts' = posts
    BY <1>2, <2>1
  <2>2. CASE Goto(r, "slug.read") /\ ~SlugTaken(req[r].arg) /\ posts' = posts /\ pc[r] = "slug.exists"
    BY <1>1, <2>2 DEF Goto, SlugTaken, Current
  <2>3. QED
    BY <1>7, <2>1, <2>2 DEF SlugExists
<1>8. CASE SlugRead(r)
  BY <1>1, <1>8 DEF SlugRead, Read, Goto, Current
<1>9. CASE SlugHistory(r)
  <2>1. Answer(r, "ok") /\ posts' = posts
    BY <1>1, <1>9 DEF SlugHistory, Current
  <2>2. QED
    BY <1>2, <2>1
<1>10. CASE PublishRead(r)
  <2>1. CASE Answer(r, "ok") /\ posts' = posts
    BY <1>2, <2>1
  <2>2. CASE Read(r, Named(posts[p]), "publish.write") /\ Complete(posts[p]) /\ posts' = posts /\ pc[r] = "publish.read"
    BY <1>1, <2>2 DEF Read, Goto, Current
  <2>3. QED
    BY <1>10, <2>1, <2>2 DEF PublishRead
<1>11. CASE RefreshRead(r)
  <2>1. /\ pc[r] = "refresh.read" /\ posts' = posts /\ req' = req
        /\ snap'[r] = posts[p] /\ pc'[r] \in {"refresh.write", "refresh.generate"}
    BY <1>1, <1>11 DEF RefreshRead, Read, Goto
  <2>2. QED
    BY <1>1, <2>1 DEF Current
<1>12. CASE PublishGenerate(r)
  BY <1>2, <1>4, <1>12 DEF PublishGenerate
<1>13. CASE RefreshGenerate(r)
  BY <1>2, <1>4, <1>13 DEF RefreshGenerate
<1>14. CASE \/ PublishAutosave(r) \/ PublishHistory(r) \/ RefreshHistory(r)
            \/ StatusHistory(r) \/ AutosaveRead(r) \/ AutosaveInsert(r) \/ WorkerDies(r)
  BY <1>2, <1>3, <1>14
     DEF PublishAutosave, PublishHistory, RefreshHistory, StatusHistory, AutosaveRead, AutosaveInsert, WorkerDies
<1>15. QED
  BY <1>5, <1>6, <1>7, <1>8, <1>9, <1>10, <1>11, <1>12, <1>13, <1>14, WriteAlone DEF Step

LEMMA NextAlone ==
  ASSUME Alone, AloneInv, [Next]_vars
  PROVE  AloneInv'
<1>1. TypeOK'
  BY NextType DEF AloneInv
<1>2. SUFFICES ASSUME NEW s \in Slots PROVE Current(s)'
  BY <1>1 DEF AloneInv
<1>3. CASE UNCHANGED vars
  BY <1>3 DEF vars, AloneInv, Current
<1>4. ASSUME NEW p \in Posts, Create(p) PROVE Current(s)'
  BY <1>4, CreateAlone
<1>5. ASSUME NEW r \in Slots, NEW p \in Posts, Start(r, p) PROVE Current(s)'
  BY <1>5, StartAlone DEF Alone
<1>6. ASSUME NEW r \in Slots, Step(r) \/ WorkerDies(r) PROVE Current(s)'
  BY <1>6, StepAlone DEF Alone
<1>7. QED
  BY <1>3, <1>4, <1>5, <1>6 DEF Next

THEOREM AloneInvariant == ASSUME Alone PROVE Spec => []AloneInv
<1>1. AloneInv /\ [Next]_vars => AloneInv'
  BY NextAlone
<1>2. QED
  BY <1>1, InitAlone, PTL DEF Spec

-----------------------------------------------------------------------------
(* What a step makes of the article it writes *)

LEMMA Writes ==
  ASSUME AloneInv, [Next]_vars, posts' # posts
  PROVE  \/ \E p \in Posts : Store!Create(p)
         \/ \E r \in Slots :
               LET p == req[r].post IN
               /\ p \in Posts /\ Store!Exists(p)
               /\ \/ /\ req[r].arg \in Edits
                     /\ Write(p, Merge(posts[p], req[r].arg))
                  \/ /\ req[r].arg \in Slugs /\ \A q \in Posts : posts[q].name # req[r].arg
                     /\ Write(p, Renamed(posts[p], posts[p], req[r].arg))
                  \/ Complete(posts[p]) /\ Write(p, Published(posts[p], Named(posts[p])))
                  \/ Write(p, Refreshed(posts[p], posts[p]))
                  \/ \E o \in StatusOps :
                        /\ o = "submit" => posts[p].status # "published"
                        /\ Write(p, [posts[p] EXCEPT !.status = NewStatus[o]])
<1>1. CASE UNCHANGED vars
  BY <1>1 DEF vars
<1>2. ASSUME NEW p \in Posts, Create(p) PROVE Store!Create(p)
  BY <1>2 DEF Create, Write, Draft, Store!Create, Store!Exists, Store!Become, Store!Draft
<1>3. ASSUME NEW r \in Slots, NEW p \in Posts, Start(r, p) PROVE posts' = posts
  BY <1>3 DEF Start, StartSave, StartSlug, StartPublish, StartRefresh, StartAutosave, StartStatus, Begin
<1>4. ASSUME NEW r \in Slots, Step(r),
             ~SaveWrite(r), ~SlugWrite(r), ~PublishWrite(r), ~StatusWrite(r), ~RefreshWrite(r)
      PROVE  posts' = posts
  BY <1>4 DEF Step, SaveRead, SaveHistory, SlugExists, SlugRead, SlugHistory, PublishRead,
              PublishAutosave, PublishHistory, PublishGenerate, StatusHistory, RefreshRead,
              RefreshHistory, RefreshGenerate, AutosaveRead, AutosaveInsert
<1>5. ASSUME NEW r \in Slots, WorkerDies(r) PROVE posts' = posts
  BY <1>5 DEF WorkerDies
<1>6. ASSUME NEW r \in Slots,
             \/ SaveWrite(r) \/ SlugWrite(r) \/ PublishWrite(r) \/ StatusWrite(r) \/ RefreshWrite(r)
      PROVE  LET p == req[r].post IN
               /\ p \in Posts /\ Store!Exists(p)
               /\ \/ /\ req[r].arg \in Edits
                     /\ Write(p, Merge(posts[p], req[r].arg))
                  \/ /\ req[r].arg \in Slugs /\ \A q \in Posts : posts[q].name # req[r].arg
                     /\ Write(p, Renamed(posts[p], posts[p], req[r].arg))
                  \/ Complete(posts[p]) /\ Write(p, Published(posts[p], Named(posts[p])))
                  \/ Write(p, Refreshed(posts[p], posts[p]))
                  \/ \E o \in StatusOps :
                        /\ o = "submit" => posts[p].status # "published"
                        /\ Write(p, [posts[p] EXCEPT !.status = NewStatus[o]])
  <2> DEFINE p == req[r].post
  <2>1. Current(r) /\ RequestOK(r)
    BY DEF AloneInv, TypeOK
  <2>2. p \in Posts /\ Store!Exists(p)
    BY <1>6, <2>1 DEF RequestOK, Current, Store!Exists, SaveWrite, SlugWrite, PublishWrite, StatusWrite, RefreshWrite
  <2>3. CASE SaveWrite(r)
    BY <2>1, <2>2, <2>3 DEF SaveWrite, Current, RequestOK
  <2>4. CASE SlugWrite(r)
    BY <2>1, <2>2, <2>4 DEF SlugWrite, Current, RequestOK
  <2>5. CASE PublishWrite(r)
    BY <2>1, <2>2, <2>5 DEF PublishWrite, Current
  <2>6. CASE StatusWrite(r)
    <3>1. req[r].op \in StatusOps /\ (req[r].op = "submit" => posts[p].status # "published")
      BY <2>1, <2>6 DEF StatusWrite, Current, RequestOK
    <3>2. QED
      BY <2>2, <2>6, <3>1 DEF StatusWrite
  <2>7. CASE RefreshWrite(r)
    BY <2>1, <2>2, <2>7 DEF RefreshWrite, Current
  <2>8. QED
    BY <1>6, <2>3, <2>4, <2>5, <2>6, <2>7
<1>7. QED
  BY <1>1, <1>2, <1>3, <1>4, <1>5, <1>6 DEF Next

-----------------------------------------------------------------------------
(* Theorems *)

\* One editor at a time, a handler is left hanging by articles of several pages only: a slug which is the
\* article's own is refused before it can reach the diff which throws (lib/content.js:561-598).
THEOREM HangsOnPages == ASSUME Alone PROVE Spec => []HangsOnlyOnPages
<1>1. AloneInv => HangsOnlyOnPages
  BY DEF AloneInv, Current, HangsOnlyOnPages
<1>2. QED
  BY <1>1, AloneInvariant, PTL

\* an article which is not there has no links
Blank == \A p \in Posts : posts[p].status = "absent" => Links(posts[p]) = {}

LinksInv == AloneInv /\ Blank

\* a write keeps what links to the article, and leaves it there
LEMMA WriteKeepsLinks ==
  ASSUME AloneInv, NEW r \in Slots, NEW p \in Posts, NEW new,
         Store!Exists(p),
         \/ req[r].arg \in Edits /\ new = Merge(posts[p], req[r].arg)
         \/ req[r].arg \in Slugs /\ new = Renamed(posts[p], posts[p], req[r].arg)
         \/ new = Published(posts[p], Named(posts[p]))
         \/ new = Refreshed(posts[p], posts[p])
         \/ \E o \in StatusOps : new = [posts[p] EXCEPT !.status = NewStatus[o]]
  PROVE  Links(posts[p]) \subseteq Links(new) /\ new.status # "absent"
<1>1. posts[p] \in PostRec /\ posts[p].status # "absent"
  BY DEF AloneInv, TypeOK, Store!Exists
<1>2. CASE req[r].arg \in Edits /\ new = Merge(posts[p], req[r].arg)
  BY <1>1, <1>2 DEF Merge, Links, PostRec
<1>3. CASE req[r].arg \in Slugs /\ new = Renamed(posts[p], posts[p], req[r].arg)
  BY <1>1, <1>3 DEF Renamed, Links, PostRec
<1>4. CASE new = Published(posts[p], Named(posts[p]))
  <2>1. /\ new.status = "published" /\ new.aliases = posts[p].aliases
        /\ new.name = Named(posts[p]).name
    BY <1>1, <1>4 DEF Published, PostRec
  <2>2. posts[p].name # None => new.name = posts[p].name
    BY <2>1 DEF Named
  <2>3. QED
    BY <1>1, <2>1, <2>2, ArticlesAssumption DEF Links
<1>5. CASE new = Refreshed(posts[p], posts[p])
  BY <1>1, <1>5 DEF Refreshed, Links, PostRec
<1>6. ASSUME NEW o \in StatusOps, new = [posts[p] EXCEPT !.status = NewStatus[o]]
      PROVE  Links(posts[p]) \subseteq Links(new) /\ new.status # "absent"
  <2>1. NewStatus[o] # "absent"
    BY DEF NewStatus, StatusOps
  <2>2. QED
    BY <1>1, <1>6, <2>1 DEF Links, PostRec
<1>7. QED
  BY <1>2, <1>3, <1>4, <1>5, <1>6

LEMMA LinksStep ==
  ASSUME LinksInv, [Next]_vars, NEW p \in Posts
  PROVE  /\ Links(posts[p]) \subseteq Links(posts'[p])
         /\ posts'[p].status = "absent" => Links(posts'[p]) = {}
<1>1. posts \in [Posts -> PostRec] /\ posts[p] \in PostRec /\ AloneInv /\ Blank
  BY DEF LinksInv, AloneInv, TypeOK
<1>2. CASE posts' = posts
  BY <1>1, <1>2 DEF Blank
<1>3. ASSUME NEW q \in Posts, Store!Create(q)
      PROVE  /\ Links(posts[p]) \subseteq Links(posts'[p])
             /\ posts'[p].status = "absent" => Links(posts'[p]) = {}
  <2>1. PICK t \in Incomplete : posts' = [posts EXCEPT ![q] = Draft(t)]
    BY <1>3 DEF Store!Create, Store!Become, Store!Draft, Draft
  <2>2. CASE p = q
    <3>1. Links(posts[p]) = {}
      BY <1>1, <1>3, <2>2 DEF Blank, Store!Create, Store!Exists
    <3>2. posts'[p].status = "draft"
      BY <1>1, <2>1, <2>2 DEF Draft
    <3>3. QED
      BY <3>1, <3>2
  <2>3. CASE p # q
    BY <1>1, <2>1, <2>3 DEF Blank
  <2>4. QED
    BY <2>2, <2>3
<1>4. ASSUME NEW q \in Posts, NEW new, Write(q, new),
             Links(posts[q]) \subseteq Links(new), new.status # "absent"
      PROVE  /\ Links(posts[p]) \subseteq Links(posts'[p])
             /\ posts'[p].status = "absent" => Links(posts'[p]) = {}
  <2>1. posts' = [posts EXCEPT ![q] = new]
    BY <1>4 DEF Write
  <2>2. CASE p = q
    BY <1>1, <1>4, <2>1, <2>2
  <2>3. CASE p # q
    BY <1>1, <2>1, <2>3 DEF Blank
  <2>4. QED
    BY <2>2, <2>3
<1>5. ASSUME NEW r \in Slots, req[r].post \in Posts, Store!Exists(req[r].post), NEW new,
             Write(req[r].post, new),
             \/ req[r].arg \in Edits /\ new = Merge(posts[req[r].post], req[r].arg)
             \/ req[r].arg \in Slugs /\ new = Renamed(posts[req[r].post], posts[req[r].post], req[r].arg)
             \/ new = Published(posts[req[r].post], Named(posts[req[r].post]))
             \/ new = Refreshed(posts[req[r].post], posts[req[r].post])
             \/ \E o \in StatusOps : new = [posts[req[r].post] EXCEPT !.status = NewStatus[o]]
      PROVE  /\ Links(posts[p]) \subseteq Links(posts'[p])
             /\ posts'[p].status = "absent" => Links(posts'[p]) = {}
  BY <1>1, <1>4, <1>5, WriteKeepsLinks
<1>6. CASE posts' # posts /\ ~\E q \in Posts : Store!Create(q)
  <2>1. PICK r \in Slots :
          LET q == req[r].post IN
          /\ q \in Posts /\ Store!Exists(q)
          /\ \/ /\ req[r].arg \in Edits
                /\ Write(q, Merge(posts[q], req[r].arg))
             \/ /\ req[r].arg \in Slugs /\ \A x \in Posts : posts[x].name # req[r].arg
                /\ Write(q, Renamed(posts[q], posts[q], req[r].arg))
             \/ Complete(posts[q]) /\ Write(q, Published(posts[q], Named(posts[q])))
             \/ Write(q, Refreshed(posts[q], posts[q]))
             \/ \E o \in StatusOps :
                   /\ o = "submit" => posts[q].status # "published"
                   /\ Write(q, [posts[q] EXCEPT !.status = NewStatus[o]])
    BY <1>1, <1>6, Writes
  <2> DEFINE q == req[r].post
  <2>2. CASE req[r].arg \in Edits /\ Write(q, Merge(posts[q], req[r].arg))
    BY <1>5, <2>1, <2>2
  <2>3. CASE req[r].arg \in Slugs /\ Write(q, Renamed(posts[q], posts[q], req[r].arg))
    BY <1>5, <2>1, <2>3
  <2>4. CASE Write(q, Published(posts[q], Named(posts[q])))
    BY <1>5, <2>1, <2>4
  <2>5. CASE Write(q, Refreshed(posts[q], posts[q]))
    BY <1>5, <2>1, <2>5
  <2>6. ASSUME NEW o \in StatusOps, Write(q, [posts[q] EXCEPT !.status = NewStatus[o]])
        PROVE  /\ Links(posts[p]) \subseteq Links(posts'[p])
               /\ posts'[p].status = "absent" => Links(posts'[p]) = {}
    BY <1>5, <2>1, <2>6
  <2>7. QED
    BY <2>1, <2>2, <2>3, <2>4, <2>5, <2>6
<1>7. QED
  BY <1>2, <1>3, <1>6

\* One editor at a time, a link once given out keeps finding its article (editSlug and refreshURL,
\* lib/content.js:561, 849).
THEOREM LinksAreKept == ASSUME Alone PROVE Spec => LinksKept
<1>1. ASSUME Init, NEW p \in Posts PROVE Links(posts[p]) = {}
  <2>1. posts[p].name = None /\ posts[p].aliases = {}
    BY <1>1 DEF Init, Absent, Draft
  <2>2. QED
    BY <2>1, ArticlesAssumption DEF Links
<1>a. Init => Blank
  BY <1>1 DEF Blank
<1>2. AloneInv /\ Blank /\ [Next]_vars => Blank'
  BY LinksStep DEF LinksInv, Blank
<1>3. AloneInv /\ Blank /\ [Next]_vars => [\A p \in Posts : Links(posts[p]) \subseteq Links(posts'[p])]_vars
  BY LinksStep DEF LinksInv
<1>4. QED
  BY <1>a, <1>2, <1>3, AloneInvariant, PTL DEF Spec, LinksKept

LEMMA StoreInit == Init => Store!Init
BY DEF Init, Absent, Draft, Store!Init, Store!Absent, Store!Draft

LEMMA StoreStep ==
  ASSUME AloneInv, [Next]_vars
  PROVE  [Store!Next]_posts
<1> SUFFICES ASSUME posts' # posts PROVE Store!Next
  OBVIOUS
<1>1. ASSUME NEW p \in Posts, Store!Create(p) PROVE Store!Next
  BY <1>1 DEF Store!Next
<1>2. ASSUME NEW r \in Slots, req[r].post \in Posts, Store!Exists(req[r].post),
             req[r].arg \in Edits, Write(req[r].post, Merge(posts[req[r].post], req[r].arg))
      PROVE  Store!Next
  <2>1. Store!Save(req[r].post)
    BY <1>2 DEF Write, Merge, Edits, Store!Save, Store!Become, Store!Merge, Store!Edits
  <2>2. QED
    BY <1>2, <2>1 DEF Store!Next
<1>3. ASSUME NEW r \in Slots, req[r].post \in Posts, Store!Exists(req[r].post),
             req[r].arg \in Slugs, \A q \in Posts : posts[q].name # req[r].arg,
             Write(req[r].post, Renamed(posts[req[r].post], posts[req[r].post], req[r].arg))
      PROVE  Store!Next
  <2>1. Store!EditSlug(req[r].post)
    BY <1>3 DEF Write, Renamed, Url, Store!EditSlug, Store!Become, Store!Renamed, Store!Url
  <2>2. QED
    BY <1>3, <2>1 DEF Store!Next
<1>4. ASSUME NEW p \in Posts, Store!Exists(p), Complete(posts[p]),
             Write(p, Published(posts[p], Named(posts[p])))
      PROVE  Store!Next
  <2>1. Store!Publish(p)
    BY <1>4 DEF Write, Complete, Published, Named, SlugOf, Url, Store!Publish, Store!Become,
                Store!Complete, Store!Published, Store!Named, Store!SlugOf, Store!Url
  <2>2. QED
    BY <1>4, <2>1 DEF Store!Next
<1>5. ASSUME NEW p \in Posts, Store!Exists(p), Write(p, Refreshed(posts[p], posts[p]))
      PROVE  Store!Next
  <2>1. Store!Refresh(p)
    BY <1>5 DEF Write, Refreshed, CurrentUrl, Url, Store!Refresh, Store!Become,
                Store!Refreshed, Store!CurrentUrl, Store!Url
  <2>2. QED
    BY <1>5, <2>1 DEF Store!Next
<1>6. ASSUME NEW p \in Posts, Store!Exists(p), NEW o \in StatusOps,
             o = "submit" => posts[p].status # "published",
             Write(p, [posts[p] EXCEPT !.status = NewStatus[o]])
      PROVE  Store!Next
  <2>1. o \in Store!StatusOps /\ Store!NewStatus[o] = NewStatus[o]
    BY DEF StatusOps, NewStatus, Store!StatusOps, Store!NewStatus
  <2>2. Store!SetStatus(p, o)
    BY <1>6, <2>1 DEF Write, Store!SetStatus, Store!Become
  <2>3. QED
    BY <1>6, <2>1, <2>2 DEF Store!Next
<1>7. QED
  BY <1>1, <1>2, <1>3, <1>4, <1>5, <1>6, Writes

\* One editor at a time, each request takes effect at once, on the article as it stands: the handlers
\* implement ContentStore (lib/content.js:544-1000).
THEOREM StoreImplemented == ASSUME Alone PROVE Spec => AtomicStore
<1>1. AloneInv /\ [Next]_vars => [Store!Next]_posts
  BY StoreStep
<1>2. QED
  BY <1>1, StoreInit, AloneInvariant, PTL DEF Spec, AtomicStore, Store!Spec
=============================================================================
