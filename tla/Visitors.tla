------------------------------ MODULE Visitors ------------------------------
(***************************************************************************)
(* Visitors of a website who log in to the data server                     *)
(* (dataserver/handlers.js): it keeps their sessions in its own memory,    *)
(* and their rows, tokens and favourites in the database, from which a     *)
(* server which starts loads the sessions while it answers already.        *)
(***************************************************************************)
EXTENDS Naturals, Sequences

CONSTANTS
    Visitors,
    Articles,
    Slots,        \* requests in flight
    MaxTokens,    \* bound on the tokens made
    MaxRestarts,  \* bound on the restarts of the server
    None

VARIABLES
    rows,      \* fbusers: the token each visitor was made with
    keys,      \* fbsessions: tokens stored
    favs,      \* fbusersfav: whose favourite each article is, for its _id is that of the article
    sessions,  \* in memory: whom each token opens
    flight,    \* requests in flight, with what they have read
    issued,    \* for whom each token was made, in order
    wire,      \* writes nobody waits for
    loading,   \* sessions read when the server started and not in memory yet
    past       \* restarts left, tokens in the hands of visitors, and visitors whose requests crossed

vars == <<rows, keys, favs, sessions, flight, issued, wire, loading, past>>

Tokens == 1..MaxTokens
NoToken == 0

Idle == [step |-> "idle", who |-> None, token |-> NoToken, article |-> None]

Request == [step : {"idle", "find", "found", "insert", "fav", "unfav"},
            who : Visitors \union {None}, token : Tokens \union {NoToken}, article : Articles \union {None}]

\* a token to be stored, or what is left of a visitor to be deleted
Write == [what : {"key"}, of : Tokens] \union [what : {"row", "favs"}, of : Visitors]

TypeOK ==
    /\ rows \in [Visitors -> Tokens \union {NoToken}]
    /\ keys \subseteq Tokens
    /\ favs \in [Articles -> Visitors \union {None}]
    /\ sessions \in [Tokens -> Visitors \union {None}]
    /\ flight \in [Slots -> Request]
    /\ issued \in Seq(Visitors) /\ Len(issued) <= MaxTokens
    /\ wire \subseteq Write
    /\ loading \subseteq [token : Tokens, who : Visitors \union {None}]
    /\ past \in [restarts : 0..MaxRestarts, held : SUBSET Tokens, crossed : SUBSET Visitors]

Init ==
    /\ rows = [v \in Visitors |-> NoToken]
    /\ keys = {}
    /\ favs = [a \in Articles |-> None]
    /\ sessions = [t \in Tokens |-> None]
    /\ flight = [r \in Slots |-> Idle]
    /\ issued = << >>
    /\ wire = {}
    /\ loading = {}
    /\ past = [restarts |-> MaxRestarts, held |-> {}, crossed |-> {}]

Owner(write) == IF write.what = "key" THEN issued[write.of] ELSE write.of
OnWire(v) == {write \in wire : Owner(write) = v}
InFlight(v) == {r \in Slots : flight[r].who = v}
Loaded(v) == {entry \in loading : issued[entry.token] = v}

\* something of this visitor is under way
Busy(v) == InFlight(v) # {} \/ OnWire(v) # {} \/ Loaded(v) # {}
Crossing(v) == IF Busy(v) THEN past.crossed \union {v} ELSE past.crossed

Done(r) == flight' = [flight EXCEPT ![r] = Idle]

-----------------------------------------------------------------------------
(* POST introduce, and gintroduce *)

\* what Facebook or Google says of the visitor has arrived, and the database is asked
Introduce(r, v) ==
    /\ flight[r] = Idle
    /\ flight' = [flight EXCEPT ![r] = [Idle EXCEPT !.step = "find", !.who = v]]
    /\ past' = [past EXCEPT !.crossed = Crossing(v)]
    /\ UNCHANGED <<rows, keys, favs, sessions, issued, wire, loading>>

\* the session is opened, and the token given to the visitor
Open(r, v, t) ==
    /\ sessions' = [sessions EXCEPT ![t] = v]
    /\ past' = [past EXCEPT !.held = @ \union {t}]
    /\ flight' = [flight EXCEPT ![r] = Idle]

Find(r) ==
    /\ flight[r].step = "find"
    /\ LET t == rows[flight[r].who] IN
         /\ t # NoToken
         /\ flight' = [flight EXCEPT ![r].step = "found", ![r].token = t]
    /\ UNCHANGED <<rows, keys, favs, sessions, issued, wire, loading, past>>

\* what was found may be gone by now
Found(r) ==
    /\ flight[r].step = "found"
    /\ Open(r, flight[r].who, flight[r].token)
    /\ UNCHANGED <<rows, keys, favs, issued, wire, loading>>

\* A mutant of FindNone: the token is not stored.
FindNoneUnstored(r) ==
    /\ flight[r].step = "find" /\ rows[flight[r].who] = NoToken
    /\ Len(issued) < MaxTokens
    /\ issued' = Append(issued, flight[r].who)
    /\ flight' = [flight EXCEPT ![r].step = "insert", ![r].token = Len(issued')]
    /\ UNCHANGED <<rows, keys, favs, sessions, wire, loading, past>>

\* a token is made, and nobody waits for it to be stored
FindNone(r) ==
    /\ flight[r].step = "find" /\ rows[flight[r].who] = NoToken
    /\ Len(issued) < MaxTokens
    /\ issued' = Append(issued, flight[r].who)
    /\ wire' = wire \union {[what |-> "key", of |-> Len(issued')]}
    /\ flight' = [flight EXCEPT ![r].step = "insert", ![r].token = Len(issued')]
    /\ UNCHANGED <<rows, keys, favs, sessions, loading, past>>

\* a second row of a visitor is refused, and nobody looks at the error
Insert(r) ==
    /\ flight[r].step = "insert"
    /\ rows' = [rows EXCEPT ![flight[r].who] = IF @ = NoToken THEN flight[r].token ELSE @]
    /\ Open(r, flight[r].who, flight[r].token)
    /\ UNCHANGED <<keys, favs, issued, wire, loading>>

\* gintroduce reads who the visitor is once his token is on its way to the database: without an id, or
\* with what is not JSON, he is refused, and the token stays there, of nobody's row
Refuse(r) ==
    /\ flight[r].step = "insert"
    /\ Done(r)
    /\ UNCHANGED <<rows, keys, favs, sessions, issued, wire, loading, past>>

-----------------------------------------------------------------------------
(* DELETE introduce, DELETE me *)

Close(t) ==
    /\ sessions' = [sessions EXCEPT ![t] = None]
    /\ UNCHANGED <<rows, keys, favs, flight, issued, loading>>

\* the token stays in the database
LogOut(t) ==
    /\ sessions[t] # None /\ t \in past.held
    /\ Close(t)
    /\ past' = [past EXCEPT !.held = @ \ {t}]
    /\ UNCHANGED wire

\* A mutant of Forget: the session is left to expire.
ForgetRow(t) ==
    /\ sessions[t] # None /\ t \in past.held
    /\ wire' = wire \union [what : {"row", "favs"}, of : {sessions[t]}]
    /\ past' = [past EXCEPT !.held = @ \ {t}, !.crossed = Crossing(sessions[t])]
    /\ UNCHANGED <<rows, keys, favs, sessions, flight, issued, loading>>

\* nobody waits for the row and the favourites to be deleted
Forget(t) ==
    /\ sessions[t] # None /\ t \in past.held
    /\ wire' = wire \union [what : {"row", "favs"}, of : {sessions[t]}]
    /\ Close(t)
    /\ past' = [past EXCEPT !.held = @ \ {t}, !.crossed = Crossing(sessions[t])]

Deliver(write) ==
    /\ keys' = IF write.what = "key" THEN keys \union {write.of} ELSE keys
    /\ rows' = IF write.what = "row" THEN [rows EXCEPT ![write.of] = NoToken] ELSE rows
    /\ favs' = IF write.what = "favs" THEN [a \in Articles |-> IF favs[a] = write.of THEN None ELSE favs[a]] ELSE favs
    /\ wire' = wire \ {write}
    /\ UNCHANGED <<sessions, flight, issued, loading, past>>

-----------------------------------------------------------------------------
(* POST fav, DELETE fav *)

Favour(r, t) ==
    /\ flight[r] = Idle
    /\ sessions[t] # None /\ t \in past.held
    /\ \E a \in Articles, step \in {"fav", "unfav"} :
          flight' = [flight EXCEPT ![r] = [step |-> step, who |-> sessions[t], token |-> t, article |-> a]]
    /\ past' = [past EXCEPT !.crossed = Crossing(sessions[t])]
    /\ UNCHANGED <<rows, keys, favs, sessions, issued, wire, loading>>

\* an article which is somebody's favourite is refused to others
InsertFav(r) ==
    /\ flight[r].step = "fav"
    /\ favs' = [favs EXCEPT ![flight[r].article] = IF @ = None THEN flight[r].who ELSE @]
    /\ Done(r)
    /\ UNCHANGED <<rows, keys, sessions, issued, wire, loading, past>>

\* whose it is does not matter
RemoveFav(r) ==
    /\ flight[r].step = "unfav"
    /\ favs' = [favs EXCEPT ![flight[r].article] = None]
    /\ Done(r)
    /\ UNCHANGED <<rows, keys, sessions, issued, wire, loading, past>>

-----------------------------------------------------------------------------
(* The server dies, and another starts *)

\* tokens are joined with the rows of their visitors; writes on their way may be lost, and a visitor of
\* several tokens has them all back
Restart ==
    /\ past.restarts > 0
    /\ sessions' = [t \in Tokens |-> None]
    /\ flight' = [r \in Slots |-> Idle]
    /\ wire' = {}
    /\ loading' = {[token |-> t, who |-> IF rows[issued[t]] = NoToken THEN None ELSE issued[t]] : t \in keys}
    /\ past' = [past EXCEPT !.restarts = @ - 1,
                            !.crossed = @ \union {v \in Visitors : \/ Busy(v)
                                                                   \/ \E i, j \in DOMAIN issued :
                                                                        i # j /\ issued[i] = v /\ issued[j] = v}]
    /\ UNCHANGED <<rows, keys, favs, issued>>

\* preload(), which puts an undefined session in place of one without a row
Load(entry) ==
    /\ sessions' = [sessions EXCEPT ![entry.token] = entry.who]
    /\ loading' = loading \ {entry}
    /\ UNCHANGED <<rows, keys, favs, flight, issued, wire, past>>

Next ==
    \/ \E r \in Slots :
          \/ \E v \in Visitors : Introduce(r, v)
          \/ Find(r) \/ Found(r) \/ FindNone(r) \/ Insert(r) \/ Refuse(r)
          \/ \E t \in Tokens : Favour(r, t)
          \/ InsertFav(r) \/ RemoveFav(r)
    \/ \E t \in Tokens : LogOut(t) \/ Forget(t)
    \/ \E write \in wire : Deliver(write)
    \/ Restart
    \/ \E entry \in loading : Load(entry)

Spec == Init /\ [][Next]_vars

-----------------------------------------------------------------------------
(* Properties *)

\* Who was given a token and has not logged out with it stays logged in, over restarts of the server,
\* once his session is loaded; unless requests of his crossed, or the server died with one
\* (handlers.js:72, 416).
StaysIn ==
    \A t \in past.held :
        Loaded(issued[t]) = {} /\ issued[t] \notin past.crossed => sessions[t] = issued[t]

\* A visitor who had himself erased has no session and no favourite left, once that is done and until he
\* introduces himself again; unless another request of his was under way, which may bring them back
\* (handlers.js:171).
ErasedGone ==
    \A v \in Visitors :
        rows[v] = NoToken /\ ~Busy(v) /\ v \notin past.crossed =>
            /\ \A t \in Tokens : sessions[t] # v
            /\ \A a \in Articles : favs[a] # v
=============================================================================
