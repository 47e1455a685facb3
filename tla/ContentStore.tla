---------------------------- MODULE ContentStore ----------------------------
(***************************************************************************)
(* What the publishing handlers promise an editor who works alone: an      *)
(* article changes by one whole operation at a time, each applied to the   *)
(* article as it stands.                                                   *)
(***************************************************************************)
EXTENDS Articles

VARIABLE posts  \* the content collection

Init == posts = [p \in Posts |-> Absent]

Exists(p) == posts[p].status # "absent"

Become(p, post) == posts' = [posts EXCEPT ![p] = post]

Create(p) == ~Exists(p) /\ \E t \in Incomplete : Become(p, Draft(t))

Save(p) == Exists(p) /\ \E e \in Edits : Become(p, Merge(posts[p], e))

EditSlug(p) ==
    /\ Exists(p)
    /\ \E s \in Slugs :
          /\ \A q \in Posts : posts[q].name # s
          /\ Become(p, Renamed(posts[p], posts[p], s))

Publish(p) ==
    /\ Exists(p)
    /\ Complete(posts[p])
    /\ Become(p, Published(posts[p], Named(posts[p])))

Refresh(p) == Exists(p) /\ Become(p, Refreshed(posts[p], posts[p]))

SetStatus(p, o) ==
    /\ Exists(p)
    /\ o = "submit" => posts[p].status # "published"
    /\ Become(p, [posts[p] EXCEPT !.status = NewStatus[o]])

Next ==
    \E p \in Posts :
        \/ Create(p) \/ Save(p) \/ EditSlug(p) \/ Publish(p) \/ Refresh(p)
        \/ \E o \in StatusOps : SetStatus(p, o)

Spec == Init /\ [][Next]_posts
=============================================================================
