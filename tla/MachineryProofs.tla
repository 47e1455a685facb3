-------------------------- MODULE MachineryProofs --------------------------
(***************************************************************************)
(* What holds of MCMachinery for every value of the constants: of the      *)
(* janitor and the data server (ServersKept), and of hooks, scheduled jobs *)
(* and badges (RunWhenDue).  Each has an invariant of its own, kept by its *)
(* steps and left alone by those of the others.  DashboardProofs has the   *)
(* pages and widgets.                                                      *)
(***************************************************************************)
EXTENDS MCMachinery, FiniteSetTheorems, SequenceTheorems, WellFoundedInduction, TLAPS

-----------------------------------------------------------------------------
(* The janitor *)

JanInv ==
    /\ queue \in Seq(CAIJ!Task)
    /\ loop \in [timers : Nat, answers : Nat, throws : Nat, forgets : Nat]
    /\ jobs \subseteq {"module"}
    /\ counts \in [pushes : Nat, strays : Nat]
    /\ CAIJ!LoopsCounted /\ CAIJ!JobsKnown

-----------------------------------------------------------------------------
(* The data server *)

Made(t) == t \in 1..Len(issued)

VisTypes ==
    /\ rows \in [Visitors -> Visit!Tokens \union {Visit!NoToken}]
    /\ keys \subseteq Visit!Tokens
    /\ favs \in [Articles -> Visitors \union {None}]
    /\ sessions \in [Visit!Tokens -> Visitors \union {None}]
    /\ flight \in [Slots -> Visit!Request]
    /\ issued \in Seq(Visitors) /\ Len(issued) <= MaxTokens
    /\ sends \subseteq Visit!Write
    /\ loading \subseteq [token : Visit!Tokens, who : Visitors \union {None}]
    /\ visitPast \in [restarts : Nat, held : SUBSET Visit!Tokens, crossed : SUBSET Visitors]

\* a token was made for whom it is of
VisMade ==
    /\ \A v \in Visitors : rows[v] # Visit!NoToken => Made(rows[v]) /\ issued[rows[v]] = v
    /\ \A t \in Visit!Tokens : sessions[t] # None => Made(t) /\ issued[t] = sessions[t]
    /\ \A r \in Slots :
          /\ flight[r].step = "idle" <=> flight[r].who = None
          /\ flight[r].step \in {"found", "insert"} => Made(flight[r].token) /\ issued[flight[r].token] = flight[r].who
          /\ flight[r].step \in {"fav", "unfav"} => flight[r].article \in Articles
    /\ \A w \in sends : w.what = "key" => Made(w.of)
    /\ \A e \in loading : Made(e.token) /\ e.who \in {None, issued[e.token]}
    /\ \A t \in visitPast.held : Made(t)
    /\ \A t \in keys : Made(t)

Has(x, o) == \E w \in sends : w.what = x /\ w.of = o

\* one request of a visitor at a time, and none while something of him is written or loaded
VisAlone(v) ==
    /\ \A q, r \in Slots : flight[q].who = v /\ flight[r].who = v => q = r
    /\ \A r \in Slots : flight[r].who = v =>
          /\ ~Has("row", v) /\ ~Has("favs", v)
          /\ flight[r].step # "insert" => \A w \in sends : Visit!Owner(w) # v
          /\ \A e \in loading : issued[e.token] # v
          /\ flight[r].step = "found" => rows[v] = flight[r].token
          /\ flight[r].step = "insert" => /\ rows[v] = Visit!NoToken
                                          /\ flight[r].token \in keys \/ Has("key", flight[r].token)
          /\ flight[r].step = "fav" => rows[v] # Visit!NoToken
    /\ \A e \in loading, w \in sends : issued[e.token] = v => Visit!Owner(w) # v
    /\ \A e \in loading : issued[e.token] = v =>
          IF e.who = None THEN rows[v] = Visit!NoToken ELSE rows[v] = e.token

\* his one session is that of his row, the row is kept while he has one, and what is left of it is on its way out
VisKept(v) ==
    /\ rows[v] # Visit!NoToken => rows[v] \in keys \/ Has("key", rows[v])
    /\ \A t \in Visit!Tokens : sessions[t] = v => rows[v] = t /\ ~Has("row", v)
    /\ \A t \in visitPast.held : issued[t] = v =>
          /\ rows[v] = t /\ ~Has("row", v)
          /\ sessions[t] = v \/ \E e \in loading : e.token = t /\ e.who = v
    /\ \A a \in Articles : favs[a] = v => Has("favs", v) \/ (rows[v] # Visit!NoToken /\ ~Has("row", v))

VisCalm == \A v \in Visitors : v \notin visitPast.crossed => VisAlone(v) /\ VisKept(v)

VisInv == VisTypes /\ VisMade /\ VisCalm

-----------------------------------------------------------------------------
(* The janitor's steps *)

LEMMA JanInit == ASSUME CAIJ!Init PROVE JanInv
BY DEF CAIJ!Init, JanInv, CAIJ!LoopsCounted, CAIJ!JobsKnown, CAIJ!Running

LEMMA JanStays == ASSUME JanInv, UNCHANGED janitor PROVE JanInv'
BY DEF JanInv, janitor, CAIJ!LoopsCounted, CAIJ!JobsKnown, CAIJ!Running

LEMMA JanPush == ASSUME JanInv, NEW t \in CAIJ!Task, queue' = Append(queue, t), jobs \subseteq jobs',
                        t.name = "module" => "module" \in jobs'
  PROVE queue' \in Seq(CAIJ!Task) /\ CAIJ!JobsKnown'
<1>1. queue \in Seq(CAIJ!Task)  BY DEF JanInv
<1>2. queue' \in Seq(CAIJ!Task)  BY <1>1
<1>3. \A i \in DOMAIN queue' : queue'[i] = t \/ (i \in DOMAIN queue /\ queue'[i] = queue[i])  BY <1>1
<1>4. CAIJ!JobsKnown'
  BY <1>3 DEF JanInv, CAIJ!JobsKnown
<1>5. QED  BY <1>2, <1>4

\* as many cooldowns and tasks in progress as n, and what a decision and the end of a task do to them
Counted(l, n) ==
    /\ l \in [timers : Nat, answers : Nat, throws : Nat, forgets : Nat]
    /\ l.timers + (l.answers + l.throws + l.forgets) = n

Turn(l, k) ==
    \/ l.timers > 0 /\ \E f \in {"answers", "throws", "forgets"} : k = [l EXCEPT !.timers = @ - 1, ![f] = @ + 1]
    \/ l.answers > 0 /\ k = [l EXCEPT !.answers = @ - 1, !.timers = @ + 1]
    \/ l.throws > 0 /\ k = [l EXCEPT !.throws = @ - 1, !.timers = @ + 1]

LEMMA JanLoop == ASSUME NEW l, NEW k, NEW n, Counted(l, n), Turn(l, k) PROVE Counted(k, n)
<1>0. l \in [timers : Nat, answers : Nat, throws : Nat, forgets : Nat]
      /\ l.timers + (l.answers + l.throws + l.forgets) = n
  BY DEF Counted
<1>1. l.timers \in Nat /\ l.answers \in Nat /\ l.throws \in Nat /\ l.forgets \in Nat  BY <1>0
<1>2. ASSUME NEW f \in {"answers", "throws", "forgets"}, l.timers > 0, k = [l EXCEPT !.timers = @ - 1, ![f] = @ + 1]
      PROVE  /\ k \in [timers : Nat, answers : Nat, throws : Nat, forgets : Nat]
             /\ k.timers + (k.answers + k.throws + k.forgets) = n
  <2>1. CASE f = "answers"
    <3>1. k = [timers |-> l.timers - 1, answers |-> l.answers + 1, throws |-> l.throws, forgets |-> l.forgets]
      BY <1>0, <1>2, <2>1
    <3>2. l.timers - 1 \in Nat  BY <1>1, <1>2
    <3>3. QED  BY <1>0, <1>1, <1>2, <3>1, <3>2
  <2>2. CASE f = "throws"
    <3>1. k = [timers |-> l.timers - 1, answers |-> l.answers, throws |-> l.throws + 1, forgets |-> l.forgets]
      BY <1>0, <1>2, <2>2
    <3>2. l.timers - 1 \in Nat  BY <1>1, <1>2
    <3>3. QED  BY <1>0, <1>1, <1>2, <3>1, <3>2
  <2>3. CASE f = "forgets"
    <3>1. k = [timers |-> l.timers - 1, answers |-> l.answers, throws |-> l.throws, forgets |-> l.forgets + 1]
      BY <1>0, <1>2, <2>3
    <3>2. l.timers - 1 \in Nat  BY <1>1, <1>2
    <3>3. QED  BY <1>0, <1>1, <1>2, <3>1, <3>2
  <2>4. QED  BY <2>1, <2>2, <2>3
<1>3. ASSUME l.answers > 0, k = [l EXCEPT !.answers = @ - 1, !.timers = @ + 1]
      PROVE  /\ k \in [timers : Nat, answers : Nat, throws : Nat, forgets : Nat]
             /\ k.timers + (k.answers + k.throws + k.forgets) = n
  <2>1. k = [timers |-> l.timers + 1, answers |-> l.answers - 1, throws |-> l.throws, forgets |-> l.forgets]
    BY <1>0, <1>3
  <2>2. l.answers - 1 \in Nat  BY <1>1, <1>3
  <2>3. QED  BY <1>0, <1>1, <1>3, <2>1, <2>2
<1>4. ASSUME l.throws > 0, k = [l EXCEPT !.throws = @ - 1, !.timers = @ + 1]
      PROVE  /\ k \in [timers : Nat, answers : Nat, throws : Nat, forgets : Nat]
             /\ k.timers + (k.answers + k.throws + k.forgets) = n
  <2>1. k = [timers |-> l.timers + 1, answers |-> l.answers, throws |-> l.throws - 1, forgets |-> l.forgets]
    BY <1>0, <1>4
  <2>2. l.throws - 1 \in Nat  BY <1>1, <1>4
  <2>3. QED  BY <1>0, <1>1, <1>4, <2>1, <2>2
<1>5. QED  BY <1>2, <1>3, <1>4 DEF Turn, Counted

LEMMA JanStepKept == ASSUME JanInv, CAIJ!Next PROVE JanInv'
<1>t. /\ queue \in Seq(CAIJ!Task) /\ Counted(loop, 1 + counts.strays)
      /\ jobs \subseteq {"module"} /\ counts \in [pushes : Nat, strays : Nat]
  BY DEF JanInv, CAIJ!LoopsCounted, CAIJ!Running, Counted
<1>q. ASSUME queue' \in Seq(CAIJ!Task), Counted(loop', 1 + counts'.strays), jobs' \subseteq {"module"},
             counts' \in [pushes : Nat, strays : Nat], CAIJ!JobsKnown'
      PROVE  JanInv'
  BY <1>q DEF JanInv, CAIJ!LoopsCounted, CAIJ!Running, Counted
<1>1. CASE CAIJ!Decide
  <2>1. queue # << >> /\ queue' = Tail(queue) /\ jobs' = jobs /\ counts' = counts /\ loop.timers > 0
    BY <1>1 DEF CAIJ!Decide
  <2>2. PICK fate \in CAIJ!Fates(Head(queue)) :
          loop' = loop \/ loop' = [loop EXCEPT !.timers = @ - 1, ![fate] = @ + 1]
    BY <1>1 DEF CAIJ!Decide
  <2>3. fate \in {"answers", "throws", "forgets"}  BY <2>2 DEF CAIJ!Fates
  <2>4. Counted(loop', 1 + counts.strays)
    <3>1. CASE loop' = loop  BY <3>1, <1>t
    <3>2. CASE loop' = [loop EXCEPT !.timers = @ - 1, ![fate] = @ + 1]
      BY <3>2, <2>1, <2>3, <1>t, JanLoop DEF Turn
    <3>3. QED  BY <2>2, <3>1, <3>2
  <2>5. queue' \in Seq(CAIJ!Task) /\ \A i \in DOMAIN queue' : i + 1 \in DOMAIN queue /\ queue'[i] = queue[i + 1]
    BY <2>1, <1>t
  <2>6. CAIJ!JobsKnown'  BY <2>1, <2>5 DEF JanInv, CAIJ!JobsKnown
  <2>7. QED  BY <2>1, <2>4, <2>5, <2>6, <1>t, <1>q
<1>2. CASE CAIJ!Answer
  <2>1. /\ loop.answers > 0 /\ loop' = [loop EXCEPT !.answers = @ - 1, !.timers = @ + 1]
        /\ queue' = queue /\ jobs' = jobs /\ counts' = counts
    BY <1>2 DEF CAIJ!Answer
  <2>2. Counted(loop', 1 + counts.strays)
    BY <2>1, <1>t, JanLoop DEF Turn
  <2>3. CAIJ!JobsKnown'  BY <2>1 DEF JanInv, CAIJ!JobsKnown
  <2>4. QED  BY <2>1, <2>2, <2>3, <1>t, <1>q
<1>3. CASE CAIJ!Error
  <2>1. /\ loop.throws > 0 /\ loop' = [loop EXCEPT !.throws = @ - 1, !.timers = @ + 1]
        /\ queue' = queue /\ jobs' = jobs /\ counts' = counts
    BY <1>3 DEF CAIJ!Error
  <2>2. Counted(loop', 1 + counts.strays)
    BY <2>1, <1>t, JanLoop DEF Turn
  <2>3. CAIJ!JobsKnown'  BY <2>1 DEF JanInv, CAIJ!JobsKnown
  <2>4. QED  BY <2>1, <2>2, <2>3, <1>t, <1>q
<1>s. ASSUME CAIJ!Stray, queue' = queue, jobs \subseteq jobs', jobs' \subseteq {"module"} PROVE JanInv'
  <2>1. /\ loop' = [loop EXCEPT !.timers = @ + 1]
        /\ counts' = [counts EXCEPT !.strays = @ + 1]
    BY <1>s DEF CAIJ!Stray
  <2>2. loop.timers \in Nat /\ loop.answers \in Nat /\ loop.throws \in Nat /\ loop.forgets \in Nat
    BY <1>t DEF Counted
  <2>3. counts.strays \in Nat /\ counts.pushes \in Nat  BY <1>t
  <2>4. loop' = [timers |-> loop.timers + 1, answers |-> loop.answers, throws |-> loop.throws, forgets |-> loop.forgets]
    BY <2>1, <1>t DEF Counted
  <2>5. counts' = [pushes |-> counts.pushes, strays |-> counts.strays + 1]  BY <2>1, <1>t
  <2>6. counts' \in [pushes : Nat, strays : Nat]  BY <2>3, <2>5
  <2>7. Counted(loop', 1 + counts'.strays)
    <3>1. loop.timers + (loop.answers + loop.throws + loop.forgets) = 1 + counts.strays  BY <1>t DEF Counted
    <3>2. /\ loop' \in [timers : Nat, answers : Nat, throws : Nat, forgets : Nat]
          /\ loop'.timers = loop.timers + 1 /\ loop'.answers = loop.answers
          /\ loop'.throws = loop.throws /\ loop'.forgets = loop.forgets
      BY <2>2, <2>4
    <3>3. counts'.strays = counts.strays + 1  BY <2>5
    <3>4. QED  BY <2>2, <2>3, <3>1, <3>2, <3>3 DEF Counted
  <2>8. CAIJ!JobsKnown'  BY <1>s DEF JanInv, CAIJ!JobsKnown
  <2>9. QED  BY <2>6, <2>7, <2>8, <1>s, <1>t, <1>q
<1>p. ASSUME NEW t \in CAIJ!Task, queue' = Append(queue, t), counts' = [counts EXCEPT !.pushes = @ + 1],
             loop' = loop, jobs \subseteq jobs', jobs' \subseteq {"module"}, t.name = "module" => "module" \in jobs'
      PROVE  JanInv'
  <2>1. queue' \in Seq(CAIJ!Task) /\ CAIJ!JobsKnown'  BY <1>p, JanPush
  <2>2. counts.strays \in Nat /\ counts.pushes \in Nat  BY <1>t
  <2>3. counts' = [pushes |-> counts.pushes + 1, strays |-> counts.strays]  BY <1>p, <1>t
  <2>4. counts' \in [pushes : Nat, strays : Nat] /\ counts'.strays = counts.strays  BY <2>2, <2>3
  <2>5. QED  BY <2>1, <2>4, <1>p, <1>t, <1>q
<1>4. CASE CAIJ!Interval
  <2>1. PICK n \in CAIJ!Names \ {"statsEmail"}, w \in Websites :
          (n = "module" => n \in jobs) /\ CAIJ!Push([name |-> n, site |-> w])
    BY <1>4 DEF CAIJ!Interval
  <2>2. [name |-> n, site |-> w] \in CAIJ!Task  BY DEF CAIJ!Task
  <2>3. QED  BY <2>1, <2>2, <1>p, <1>t DEF CAIJ!Push
<1>5. CASE CAIJ!Message
  <2>1. PICK n \in {"refreshHomepage", "statsEmail"}, w \in Websites \union {CAIJ!NoSite} :
          CAIJ!Push([name |-> n, site |-> w])
    BY <1>5 DEF CAIJ!Message
  <2>2. [name |-> n, site |-> w] \in CAIJ!Task /\ n # "module"  BY DEF CAIJ!Task, CAIJ!Names
  <2>3. QED  BY <2>1, <2>2, <1>p, <1>t DEF CAIJ!Push
<1>6. CASE CAIJ!DirectMessage  BY <1>6, <1>s, <1>t DEF CAIJ!DirectMessage
<1>7. CASE CAIJ!ModuleRunAt  BY <1>7, <1>s, <1>t DEF CAIJ!ModuleRunAt
<1>8. CASE CAIJ!ModuleMessage
  <2>1. jobs' = jobs \union {"module"}  BY <1>8 DEF CAIJ!ModuleMessage
  <2>2. CASE UNCHANGED <<queue, loop, counts>>
    <3>1. CAIJ!JobsKnown'  BY <2>1, <2>2 DEF CAIJ!JobsKnown
    <3>2. QED  BY <3>1, <2>1, <2>2, <1>t, <1>q
  <2>3. CASE ~UNCHANGED <<queue, loop, counts>>
    <3>1. PICK w \in Websites :
            /\ queue' = Append(queue, [name |-> "module", site |-> w])
            /\ counts' = [counts EXCEPT !.pushes = @ + 1] /\ loop' = loop
      BY <1>8, <2>3 DEF CAIJ!ModuleMessage
    <3>2. [name |-> "module", site |-> w] \in CAIJ!Task  BY DEF CAIJ!Task, CAIJ!Names
    <3>3. QED  BY <2>1, <3>1, <3>2, <1>p, <1>t
  <2>4. QED  BY <2>2, <2>3
<1>9. CASE CAIJ!Reborn
  <2>1. /\ queue' = << >> /\ loop' = [timers |-> 1, answers |-> 0, throws |-> 0, forgets |-> 0]
        /\ jobs' = {} /\ counts' = [pushes |-> 0, strays |-> 0]
    BY <1>9 DEF CAIJ!Reborn
  <2>2. Counted(loop', 1 + counts'.strays)  BY <2>1 DEF Counted
  <2>3. QED  BY <2>1, <2>2, <1>q DEF CAIJ!JobsKnown
<1>10. QED  BY <1>1, <1>2, <1>3, <1>4, <1>5, <1>6, <1>7, <1>8, <1>9 DEF CAIJ!Next

-----------------------------------------------------------------------------
(* What the actions of the data server do, field by field *)

\* the request of slot r becomes q, and the others stay
Moved(r, q) == q \in Visit!Request /\ flight' = [flight EXCEPT ![r] = q]

LEMMA Flights == ASSUME VisTypes, NEW r \in Slots, NEW q, Moved(r, q)
  PROVE  /\ flight' \in [Slots -> Visit!Request] /\ q \in Visit!Request /\ flight'[r] = q
         /\ \A p \in Slots : p # r => flight'[p] = flight[p]
BY DEF Moved, VisTypes

LEMMA RequestTyped == ASSUME VisTypes, NEW r \in Slots
  PROVE  /\ flight[r].step \in {"idle", "find", "found", "insert", "fav", "unfav"}
         /\ flight[r].who \in Visitors \union {None}
         /\ flight[r].token \in Visit!Tokens \union {Visit!NoToken}
         /\ flight[r].article \in Articles \union {None}
         /\ flight[r] = [step |-> flight[r].step, who |-> flight[r].who,
                         token |-> flight[r].token, article |-> flight[r].article]
<1>1. flight[r] \in Visit!Request  BY DEF VisTypes
<1>2. QED  BY <1>1 DEF Visit!Request

LEMMA IdleRequest == /\ Visit!Idle \in Visit!Request
                     /\ Visit!Idle.step = "idle" /\ Visit!Idle.who = None
BY DEF Visit!Idle, Visit!Request, Visit!NoToken

LEMMA PastTyped == ASSUME VisTypes
  PROVE  /\ visitPast.restarts \in Nat /\ visitPast.held \subseteq Visit!Tokens /\ visitPast.crossed \subseteq Visitors
         /\ visitPast = [restarts |-> visitPast.restarts, held |-> visitPast.held, crossed |-> visitPast.crossed]
BY DEF VisTypes

\* a visitor is calm after a step only if nothing of him was under way when he did something new
Quiet(v) ==
    /\ \A r \in Slots : flight[r].who # v
    /\ \A w \in sends : Visit!Owner(w) # v
    /\ \A e \in loading : issued[e.token] # v

LEMMA CrossingIs == ASSUME VisTypes, NEW u \in Visitors
  PROVE  /\ Visit!Crossing(u) \subseteq Visitors /\ visitPast.crossed \subseteq Visit!Crossing(u)
         /\ u \notin Visit!Crossing(u) => Quiet(u)
<1>1. Visit!Busy(u) \/ Quiet(u)
  BY DEF Visit!Busy, Visit!InFlight, Visit!OnWire, Visit!Loaded, Quiet
<1>2. QED  BY <1>1, PastTyped DEF Visit!Crossing

LEMMA IntroduceDoes == ASSUME VisTypes, NEW r \in Slots, NEW u \in Visitors, Visit!Introduce(r, u)
  PROVE  /\ flight[r] = Visit!Idle
         /\ Moved(r, [step |-> "find", who |-> u, token |-> Visit!NoToken, article |-> None])
         /\ visitPast'.restarts = visitPast.restarts /\ visitPast'.held = visitPast.held
         /\ visitPast'.crossed = Visit!Crossing(u)
         /\ visitPast' = [restarts |-> visitPast'.restarts, held |-> visitPast'.held, crossed |-> visitPast'.crossed]
         /\ UNCHANGED <<rows, keys, favs, sessions, issued, sends, loading>>
<1>1. [Visit!Idle EXCEPT !.step = "find", !.who = u] = [step |-> "find", who |-> u, token |-> Visit!NoToken, article |-> None]
  <2>1. PICK k : k = [Visit!Idle EXCEPT !.step = "find", !.who = u]  OBVIOUS
  <2>2. PICK f : f = Visit!Idle  OBVIOUS
  <2>3. f = [step |-> "idle", who |-> None, token |-> Visit!NoToken, article |-> None]  BY <2>2 DEF Visit!Idle
  <2>4. k = [f EXCEPT !.step = "find", !.who = u]  BY <2>1, <2>2
  <2>5. k = [step |-> "find", who |-> u, token |-> Visit!NoToken, article |-> None]  BY <2>3, <2>4
  <2>6. QED  BY <2>1, <2>5
<1>2. [step |-> "find", who |-> u, token |-> Visit!NoToken, article |-> None] \in Visit!Request
  BY DEF Visit!Request, Visit!NoToken
<1>3. visitPast' = [visitPast EXCEPT !.crossed = Visit!Crossing(u)]  BY DEF Visit!Introduce
<1>4. /\ flight[r] = Visit!Idle
      /\ flight' = [flight EXCEPT ![r] = [Visit!Idle EXCEPT !.step = "find", !.who = u]]
      /\ UNCHANGED <<rows, keys, favs, sessions, issued, sends, loading>>
  BY DEF Visit!Introduce
<1>5. Moved(r, [step |-> "find", who |-> u, token |-> Visit!NoToken, article |-> None])
  BY <1>1, <1>2, <1>4 DEF Moved
<1>6. /\ visitPast'.restarts = visitPast.restarts /\ visitPast'.held = visitPast.held
      /\ visitPast'.crossed = Visit!Crossing(u)
      /\ visitPast' = [restarts |-> visitPast'.restarts, held |-> visitPast'.held, crossed |-> visitPast'.crossed]
  BY <1>3, PastTyped
<1>7. QED  BY <1>4, <1>5, <1>6

LEMMA FindDoes == ASSUME VisTypes, NEW r \in Slots, Visit!Find(r), flight[r].who \in Visitors
  PROVE  /\ flight[r].step = "find" /\ rows[flight[r].who] # Visit!NoToken
         /\ Moved(r, [step |-> "found", who |-> flight[r].who, token |-> rows[flight[r].who], article |-> flight[r].article])
         /\ UNCHANGED <<rows, keys, favs, sessions, issued, sends, loading, visitPast>>
<1>1. /\ flight[r].step = "find" /\ rows[flight[r].who] # Visit!NoToken
      /\ flight' = [flight EXCEPT ![r].step = "found", ![r].token = rows[flight[r].who]]
      /\ UNCHANGED <<rows, keys, favs, sessions, issued, sends, loading, visitPast>>
  BY DEF Visit!Find
<1> DEFINE t == rows[flight[r].who]
           q == [step |-> "found", who |-> flight[r].who, token |-> t, article |-> flight[r].article]
<1>2. flight' = [flight EXCEPT ![r] = [flight[r] EXCEPT !.step = "found", !.token = t]]
  BY <1>1 DEF VisTypes
<1>3. [flight[r] EXCEPT !.step = "found", !.token = t] = q
  <2>1. PICK k : k = [flight[r] EXCEPT !.step = "found", !.token = t]  OBVIOUS
  <2>2. PICK f : f = flight[r]  OBVIOUS
  <2>3. f = [step |-> f.step, who |-> f.who, token |-> f.token, article |-> f.article]  BY <2>2, RequestTyped
  <2>4. k = [f EXCEPT !.step = "found", !.token = t]  BY <2>1, <2>2
  <2>5. k = [step |-> "found", who |-> f.who, token |-> t, article |-> f.article]  BY <2>3, <2>4
  <2>6. QED  BY <2>1, <2>2, <2>5
<1>4. flight' = [flight EXCEPT ![r] = q]  BY <1>2, <1>3
<1>5. Moved(r, q)
  <2>1. t \in Visit!Tokens \union {Visit!NoToken}  BY DEF VisTypes
  <2>2. q \in Visit!Request  BY <2>1, RequestTyped DEF Visit!Request
  <2>3. QED  BY <2>2, <1>4 DEF Moved
<1>6. QED  BY <1>1, <1>5

LEMMA FoundDoes == ASSUME VisTypes, NEW r \in Slots, Visit!Found(r)
  PROVE  /\ flight[r].step = "found" /\ Moved(r, Visit!Idle)
         /\ sessions' = [sessions EXCEPT ![flight[r].token] = flight[r].who]
         /\ visitPast'.restarts = visitPast.restarts /\ visitPast'.held = visitPast.held \union {flight[r].token}
         /\ visitPast'.crossed = visitPast.crossed
         /\ visitPast' = [restarts |-> visitPast'.restarts, held |-> visitPast'.held, crossed |-> visitPast'.crossed]
         /\ UNCHANGED <<rows, keys, favs, issued, sends, loading>>
<1>1. /\ flight[r].step = "found" /\ flight' = [flight EXCEPT ![r] = Visit!Idle]
      /\ sessions' = [sessions EXCEPT ![flight[r].token] = flight[r].who]
      /\ visitPast' = [visitPast EXCEPT !.held = @ \union {flight[r].token}]
      /\ UNCHANGED <<rows, keys, favs, issued, sends, loading>>
  BY DEF Visit!Found, Visit!Open
<1>2. Moved(r, Visit!Idle)  BY <1>1, IdleRequest DEF Moved
<1>3. /\ visitPast'.restarts = visitPast.restarts /\ visitPast'.held = visitPast.held \union {flight[r].token}
      /\ visitPast'.crossed = visitPast.crossed
      /\ visitPast' = [restarts |-> visitPast'.restarts, held |-> visitPast'.held, crossed |-> visitPast'.crossed]
  BY <1>1, PastTyped
<1>4. QED  BY <1>1, <1>2, <1>3

LEMMA FindNoneDoes == ASSUME VisTypes, NoneAssumption, TokensAssumption, NEW r \in Slots, Visit!FindNone(r), flight[r].who \in Visitors
  PROVE  /\ flight[r].step = "find" /\ rows[flight[r].who] = Visit!NoToken
         /\ issued' = Append(issued, flight[r].who)
         /\ issued' \in Seq(Visitors) /\ Len(issued') = Len(issued) + 1 /\ Len(issued') <= MaxTokens
         /\ Len(issued') \in Visit!Tokens /\ issued'[Len(issued')] = flight[r].who
         /\ \A t : Made(t) => issued'[t] = issued[t] /\ Made(t)' /\ t # Len(issued')
         /\ Len(issued') \in 1..Len(issued')
         /\ sends' = sends \union {[what |-> "key", of |-> Len(issued')]}
         /\ Moved(r, [step |-> "insert", who |-> flight[r].who, token |-> Len(issued'), article |-> flight[r].article])
         /\ UNCHANGED <<rows, keys, favs, sessions, loading, visitPast>>
<1> DEFINE t == Len(issued')
           q == [step |-> "insert", who |-> flight[r].who, token |-> t, article |-> flight[r].article]
<1>1. /\ flight[r].step = "find" /\ rows[flight[r].who] = Visit!NoToken /\ Len(issued) < MaxTokens
      /\ issued' = Append(issued, flight[r].who)
      /\ sends' = sends \union {[what |-> "key", of |-> t]}
      /\ flight' = [flight EXCEPT ![r].step = "insert", ![r].token = t]
      /\ UNCHANGED <<rows, keys, favs, sessions, loading, visitPast>>
  BY DEF Visit!FindNone
<1>2. issued \in Seq(Visitors) /\ Len(issued) \in Nat  BY DEF VisTypes
<1>3. /\ issued' \in Seq(Visitors) /\ t = Len(issued) + 1 /\ issued'[t] = flight[r].who
      /\ \A i \in 1..Len(issued) : issued'[i] = issued[i]
  BY <1>1, <1>2
<1>4. t <= MaxTokens /\ t \in Visit!Tokens  BY <1>1, <1>2, <1>3, TokensAssumption DEF Visit!Tokens
<1>5. \A x : Made(x) => issued'[x] = issued[x] /\ Made(x)' /\ x # t  BY <1>2, <1>3 DEF Made
<1>6. t \in 1..t  BY <1>2, <1>3
<1>7. flight' = [flight EXCEPT ![r] = [flight[r] EXCEPT !.step = "insert", !.token = t]]
  BY <1>1 DEF VisTypes
<1>8. [flight[r] EXCEPT !.step = "insert", !.token = t] = q
  <2>1. PICK k : k = [flight[r] EXCEPT !.step = "insert", !.token = t]  OBVIOUS
  <2>2. PICK f : f = flight[r]  OBVIOUS
  <2>3. f = [step |-> f.step, who |-> f.who, token |-> f.token, article |-> f.article]  BY <2>2, RequestTyped
  <2>4. k = [f EXCEPT !.step = "insert", !.token = t]  BY <2>1, <2>2
  <2>5. k = [step |-> "insert", who |-> f.who, token |-> t, article |-> f.article]  BY <2>3, <2>4
  <2>6. QED  BY <2>1, <2>2, <2>5
<1>9. q \in Visit!Request  BY <1>4, RequestTyped DEF Visit!Request
<1>10. Moved(r, q)  BY <1>7, <1>8, <1>9 DEF Moved
<1>11. QED  BY <1>1, <1>3, <1>4, <1>5, <1>6, <1>10

LEMMA InsertDoes == ASSUME VisTypes, NEW r \in Slots, Visit!Insert(r)
  PROVE  /\ flight[r].step = "insert" /\ Moved(r, Visit!Idle)
         /\ rows' = [rows EXCEPT ![flight[r].who] = IF @ = Visit!NoToken THEN flight[r].token ELSE @]
         /\ sessions' = [sessions EXCEPT ![flight[r].token] = flight[r].who]
         /\ visitPast'.restarts = visitPast.restarts /\ visitPast'.held = visitPast.held \union {flight[r].token}
         /\ visitPast'.crossed = visitPast.crossed
         /\ visitPast' = [restarts |-> visitPast'.restarts, held |-> visitPast'.held, crossed |-> visitPast'.crossed]
         /\ UNCHANGED <<keys, favs, issued, sends, loading>>
<1>1. /\ flight[r].step = "insert" /\ flight' = [flight EXCEPT ![r] = Visit!Idle]
      /\ rows' = [rows EXCEPT ![flight[r].who] = IF @ = Visit!NoToken THEN flight[r].token ELSE @]
      /\ sessions' = [sessions EXCEPT ![flight[r].token] = flight[r].who]
      /\ visitPast' = [visitPast EXCEPT !.held = @ \union {flight[r].token}]
      /\ UNCHANGED <<keys, favs, issued, sends, loading>>
  BY DEF Visit!Insert, Visit!Open
<1>2. Moved(r, Visit!Idle)  BY <1>1, IdleRequest DEF Moved
<1>3. /\ visitPast'.restarts = visitPast.restarts /\ visitPast'.held = visitPast.held \union {flight[r].token}
      /\ visitPast'.crossed = visitPast.crossed
      /\ visitPast' = [restarts |-> visitPast'.restarts, held |-> visitPast'.held, crossed |-> visitPast'.crossed]
  BY <1>1, PastTyped
<1>4. QED  BY <1>1, <1>2, <1>3

LEMMA LogOutDoes == ASSUME VisTypes, NEW t \in Visit!Tokens, Visit!LogOut(t)
  PROVE  /\ sessions' = [sessions EXCEPT ![t] = None]
         /\ visitPast'.restarts = visitPast.restarts /\ visitPast'.held = visitPast.held \ {t}
         /\ visitPast'.crossed = visitPast.crossed
         /\ visitPast' = [restarts |-> visitPast'.restarts, held |-> visitPast'.held, crossed |-> visitPast'.crossed]
         /\ UNCHANGED <<rows, keys, favs, flight, issued, sends, loading>>
<1>1. /\ sessions' = [sessions EXCEPT ![t] = None] /\ visitPast' = [visitPast EXCEPT !.held = @ \ {t}]
      /\ UNCHANGED <<rows, keys, favs, flight, issued, sends, loading>>
  BY DEF Visit!LogOut, Visit!Close
<1>2. QED  BY <1>1, PastTyped

LEMMA ForgetDoes == ASSUME VisTypes, NEW t \in Visit!Tokens, Visit!Forget(t)
  PROVE  /\ sessions[t] \in Visitors
         /\ sends' = sends \union [what : {"row", "favs"}, of : {sessions[t]}]
         /\ sessions' = [sessions EXCEPT ![t] = None]
         /\ visitPast'.restarts = visitPast.restarts /\ visitPast'.held = visitPast.held \ {t}
         /\ visitPast'.crossed = Visit!Crossing(sessions[t])
         /\ visitPast' = [restarts |-> visitPast'.restarts, held |-> visitPast'.held, crossed |-> visitPast'.crossed]
         /\ UNCHANGED <<rows, keys, favs, flight, issued, loading>>
<1>1. /\ sessions[t] # None
      /\ sends' = sends \union [what : {"row", "favs"}, of : {sessions[t]}]
      /\ sessions' = [sessions EXCEPT ![t] = None]
      /\ visitPast' = [visitPast EXCEPT !.held = @ \ {t}, !.crossed = Visit!Crossing(sessions[t])]
      /\ UNCHANGED <<rows, keys, favs, flight, issued, loading>>
  BY DEF Visit!Forget, Visit!Close
<1>2. sessions[t] \in Visitors  BY <1>1 DEF VisTypes
<1>3. QED  BY <1>1, <1>2, PastTyped

LEMMA FavourDoes == ASSUME VisTypes, NEW r \in Slots, NEW t \in Visit!Tokens, Visit!Favour(r, t)
  PROVE  /\ flight[r] = Visit!Idle /\ sessions[t] \in Visitors
         /\ \E a \in Articles, step \in {"fav", "unfav"} :
               Moved(r, [step |-> step, who |-> sessions[t], token |-> t, article |-> a])
         /\ visitPast'.restarts = visitPast.restarts /\ visitPast'.held = visitPast.held
         /\ visitPast'.crossed = Visit!Crossing(sessions[t])
         /\ visitPast' = [restarts |-> visitPast'.restarts, held |-> visitPast'.held, crossed |-> visitPast'.crossed]
         /\ UNCHANGED <<rows, keys, favs, sessions, issued, sends, loading>>
<1>1. /\ flight[r] = Visit!Idle /\ sessions[t] # None
      /\ visitPast' = [visitPast EXCEPT !.crossed = Visit!Crossing(sessions[t])]
      /\ UNCHANGED <<rows, keys, favs, sessions, issued, sends, loading>>
  BY DEF Visit!Favour
<1>2. sessions[t] \in Visitors  BY <1>1 DEF VisTypes
<1>3. PICK a \in Articles, step \in {"fav", "unfav"} :
          flight' = [flight EXCEPT ![r] = [step |-> step, who |-> sessions[t], token |-> t, article |-> a]]
  BY DEF Visit!Favour
<1>4. [step |-> step, who |-> sessions[t], token |-> t, article |-> a] \in Visit!Request
  BY <1>2 DEF Visit!Request
<1>5. Moved(r, [step |-> step, who |-> sessions[t], token |-> t, article |-> a])  BY <1>3, <1>4 DEF Moved
<1>6. /\ visitPast'.restarts = visitPast.restarts /\ visitPast'.held = visitPast.held
      /\ visitPast'.crossed = Visit!Crossing(sessions[t])
      /\ visitPast' = [restarts |-> visitPast'.restarts, held |-> visitPast'.held, crossed |-> visitPast'.crossed]
  BY <1>1, PastTyped
<1>7. QED  BY <1>1, <1>2, <1>5, <1>6

LEMMA FavDone == ASSUME VisTypes, NEW r \in Slots, Visit!InsertFav(r) \/ Visit!RemoveFav(r)
  PROVE  /\ Moved(r, Visit!Idle)
         /\ \/ /\ flight[r].step = "fav"
               /\ favs' = [favs EXCEPT ![flight[r].article] = IF @ = None THEN flight[r].who ELSE @]
            \/ flight[r].step = "unfav" /\ favs' = [favs EXCEPT ![flight[r].article] = None]
         /\ UNCHANGED <<rows, keys, sessions, issued, sends, loading, visitPast>>
BY IdleRequest DEF Visit!InsertFav, Visit!RemoveFav, Visit!Done, Moved

LEMMA RestartDoes == ASSUME VisTypes, Visit!Restart
  PROVE  /\ sessions' = [t \in Visit!Tokens |-> None] /\ flight' = [r \in Slots |-> Visit!Idle] /\ sends' = {}
         /\ loading' = {[token |-> t, who |-> IF rows[issued[t]] = Visit!NoToken THEN None ELSE issued[t]] : t \in keys}
         /\ visitPast'.restarts \in Nat /\ visitPast'.held = visitPast.held
         /\ visitPast'.crossed \subseteq Visitors /\ visitPast.crossed \subseteq visitPast'.crossed
         /\ \A v \in Visitors : v \notin visitPast'.crossed =>
               Quiet(v) /\ \A i, j \in 1..Len(issued) : issued[i] = v /\ issued[j] = v => i = j
         /\ visitPast' = [restarts |-> visitPast'.restarts, held |-> visitPast'.held, crossed |-> visitPast'.crossed]
         /\ UNCHANGED <<rows, keys, favs, issued>>
<1> DEFINE more == {v \in Visitors : \/ Visit!Busy(v)
                                     \/ \E i, j \in DOMAIN issued : i # j /\ issued[i] = v /\ issued[j] = v}
<1>1. /\ visitPast.restarts > 0
      /\ visitPast' = [visitPast EXCEPT !.restarts = @ - 1, !.crossed = @ \union more]
  BY DEF Visit!Restart
<1>2. \A v \in Visitors : v \notin more =>
               Quiet(v) /\ \A i, j \in 1..Len(issued) : issued[i] = v /\ issued[j] = v => i = j
  <2>1. DOMAIN issued = 1..Len(issued)  BY DEF VisTypes
  <2>2. QED  BY <2>1 DEF Visit!Busy, Visit!InFlight, Visit!OnWire, Visit!Loaded, Quiet
<1>3. more \subseteq Visitors  OBVIOUS
<1> HIDE DEF more
<1>4. /\ visitPast'.restarts = visitPast.restarts - 1 /\ visitPast'.held = visitPast.held
      /\ visitPast'.crossed = visitPast.crossed \union more
      /\ visitPast' = [restarts |-> visitPast'.restarts, held |-> visitPast'.held, crossed |-> visitPast'.crossed]
  BY <1>1, PastTyped
<1>5. visitPast'.restarts \in Nat
  <2>1. visitPast.restarts \in Nat /\ visitPast.restarts > 0  BY <1>1, PastTyped
  <2>2. QED  BY <2>1, <1>4
<1>6. /\ sessions' = [t \in Visit!Tokens |-> None] /\ flight' = [r \in Slots |-> Visit!Idle] /\ sends' = {}
      /\ loading' = {[token |-> t, who |-> IF rows[issued[t]] = Visit!NoToken THEN None ELSE issued[t]] : t \in keys}
      /\ UNCHANGED <<rows, keys, favs, issued>>
  BY DEF Visit!Restart
<1>7. QED  BY <1>2, <1>3, <1>4, <1>5, <1>6, PastTyped

-----------------------------------------------------------------------------
(* The types of the data server *)

LEMMA Asker == ASSUME VisTypes, VisMade, NoneAssumption, NEW r \in Slots, flight[r].step # "idle"
  PROVE  flight[r].who \in Visitors /\ flight[r].who # None
BY RequestTyped DEF VisMade

LEMMA TokenMade == ASSUME VisTypes, VisMade, NoneAssumption, NEW r \in Slots, flight[r].step \in {"found", "insert"}
  PROVE  /\ flight[r].who \in Visitors /\ Made(flight[r].token)
         /\ flight[r].token \in Visit!Tokens /\ issued[flight[r].token] = flight[r].who
<1>1. flight[r].who \in Visitors  BY Asker
<1>2. Made(flight[r].token) /\ issued[flight[r].token] = flight[r].who  BY DEF VisMade
<1>3. flight[r].token \in Visit!Tokens \union {Visit!NoToken}  BY RequestTyped
<1>4. flight[r].token # Visit!NoToken  BY <1>2 DEF Made, Visit!NoToken, VisTypes
<1>5. QED  BY <1>1, <1>2, <1>3, <1>4

LEMMA WriteTyped == ASSUME VisTypes, NEW w \in sends
  PROVE  \/ w.what = "key" /\ w.of \in Visit!Tokens
         \/ w.what \in {"row", "favs"} /\ w.of \in Visitors
<1>1. w \in Visit!Write  BY DEF VisTypes
<1>2. QED  BY <1>1 DEF Visit!Write

LEMMA PastIs == ASSUME VisTypes,
                       visitPast'.restarts \in Nat, visitPast'.held \subseteq Visit!Tokens, visitPast'.crossed \subseteq Visitors,
                       visitPast' = [restarts |-> visitPast'.restarts, held |-> visitPast'.held, crossed |-> visitPast'.crossed]
  PROVE  visitPast' \in [restarts : Nat, held : SUBSET Visit!Tokens, crossed : SUBSET Visitors]
<1>1. PICK a, b, c : a = visitPast'.restarts /\ b = visitPast'.held /\ c = visitPast'.crossed  OBVIOUS
<1>2. a \in Nat /\ b \in SUBSET Visit!Tokens /\ c \in SUBSET Visitors  BY <1>1
<1>3. visitPast' = [restarts |-> a, held |-> b, crossed |-> c]  BY <1>1
<1>4. QED  BY <1>2, <1>3

LEMMA VisTypesInit == ASSUME Visit!Init, NoneAssumption, TokensAssumption PROVE VisTypes
<1>1. rows \in [Visitors -> Visit!Tokens \union {Visit!NoToken}]  BY DEF Visit!Init
<1>2. favs \in [Articles -> Visitors \union {None}] /\ sessions \in [Visit!Tokens -> Visitors \union {None}]
  BY DEF Visit!Init
<1>3. flight \in [Slots -> Visit!Request]  BY IdleRequest DEF Visit!Init
<1>4. issued \in Seq(Visitors) /\ Len(issued) <= MaxTokens  BY TokensAssumption DEF Visit!Init
<1>5. visitPast \in [restarts : Nat, held : SUBSET Visit!Tokens, crossed : SUBSET Visitors]
  BY TokensAssumption DEF Visit!Init
<1>6. QED  BY <1>1, <1>2, <1>3, <1>4, <1>5 DEF Visit!Init, VisTypes

LEMMA VisTypesStays == ASSUME VisTypes, UNCHANGED visitors PROVE VisTypes'
BY DEF visitors, VisTypes

LEMMA RefuseDoes == ASSUME VisTypes, NEW r \in Slots, Visit!Refuse(r)
  PROVE  Moved(r, Visit!Idle) /\ UNCHANGED <<rows, keys, favs, sessions, issued, sends, loading, visitPast>>
BY IdleRequest DEF Visit!Refuse, Visit!Done, Moved

LEMMA VisTypesKept == ASSUME VisTypes, VisMade, NoneAssumption, TokensAssumption, Visit!Next PROVE VisTypes'
<1>t. /\ rows \in [Visitors -> Visit!Tokens \union {Visit!NoToken}]
      /\ keys \subseteq Visit!Tokens
      /\ favs \in [Articles -> Visitors \union {None}]
      /\ sessions \in [Visit!Tokens -> Visitors \union {None}]
      /\ flight \in [Slots -> Visit!Request]
      /\ issued \in Seq(Visitors) /\ Len(issued) <= MaxTokens
      /\ sends \subseteq Visit!Write
      /\ loading \subseteq [token : Visit!Tokens, who : Visitors \union {None}]
      /\ visitPast \in [restarts : Nat, held : SUBSET Visit!Tokens, crossed : SUBSET Visitors]
  BY DEF VisTypes
<1>1. ASSUME NEW r \in Slots, NEW u \in Visitors, Visit!Introduce(r, u) PROVE VisTypes'
  <2>1. flight' \in [Slots -> Visit!Request]  BY <1>1, IntroduceDoes, Flights
  <2>2. visitPast' \in [restarts : Nat, held : SUBSET Visit!Tokens, crossed : SUBSET Visitors]
    BY <1>1, IntroduceDoes, CrossingIs, PastTyped, PastIs
  <2>3. UNCHANGED <<rows, keys, favs, sessions, issued, sends, loading>>  BY <1>1, IntroduceDoes
  <2>4. QED  BY <1>t, <2>1, <2>2, <2>3 DEF VisTypes
<1>2. ASSUME NEW r \in Slots, Visit!Find(r) PROVE VisTypes'
  <2>1. flight[r].who \in Visitors
    <3>1. flight[r].step # "idle"  BY <1>2 DEF Visit!Find
    <3>2. QED  BY <3>1, Asker
  <2>2. flight' \in [Slots -> Visit!Request]  BY <1>2, <2>1, FindDoes, Flights
  <2>3. UNCHANGED <<rows, keys, favs, sessions, issued, sends, loading, visitPast>>  BY <1>2, <2>1, FindDoes
  <2>4. QED  BY <1>t, <2>2, <2>3 DEF VisTypes
<1>3. ASSUME NEW r \in Slots, Visit!Found(r) PROVE VisTypes'
  <2>1. flight' \in [Slots -> Visit!Request]  BY <1>3, FoundDoes, Flights
  <2>2. flight[r].who \in Visitors /\ flight[r].token \in Visit!Tokens  BY <1>3, FoundDoes, TokenMade
  <2>3. sessions' \in [Visit!Tokens -> Visitors \union {None}]
    BY <1>t, <1>3, <2>2, FoundDoes
  <2>4. visitPast' \in [restarts : Nat, held : SUBSET Visit!Tokens, crossed : SUBSET Visitors]
    BY <1>3, <2>2, FoundDoes, PastTyped, PastIs
  <2>5. UNCHANGED <<rows, keys, favs, issued, sends, loading>>  BY <1>3, FoundDoes
  <2>6. QED  BY <1>t, <2>1, <2>3, <2>4, <2>5 DEF VisTypes
<1>4. ASSUME NEW r \in Slots, Visit!FindNone(r) PROVE VisTypes'
  <2>1. flight[r].who \in Visitors
    <3>1. flight[r].step # "idle"  BY <1>4 DEF Visit!FindNone
    <3>2. QED  BY <3>1, Asker
  <2>2. flight' \in [Slots -> Visit!Request]  BY <1>4, <2>1, FindNoneDoes, Flights
  <2>3. issued' \in Seq(Visitors) /\ Len(issued') <= MaxTokens /\ Len(issued') \in Visit!Tokens
    BY <1>4, <2>1, FindNoneDoes
  <2>4. sends' \subseteq Visit!Write
    <3>1. PICK n : n = Len(issued')  OBVIOUS
    <3>2. [what |-> "key", of |-> n] \in Visit!Write  BY <2>3, <3>1 DEF Visit!Write
    <3>3. sends' = sends \union {[what |-> "key", of |-> n]}  BY <1>4, <2>1, <3>1, FindNoneDoes
    <3>4. QED  BY <1>t, <3>2, <3>3
  <2>5. UNCHANGED <<rows, keys, favs, sessions, loading, visitPast>>  BY <1>4, <2>1, FindNoneDoes
  <2>6. QED  BY <1>t, <2>2, <2>3, <2>4, <2>5 DEF VisTypes
<1>5. ASSUME NEW r \in Slots, Visit!Insert(r) PROVE VisTypes'
  <2>1. flight' \in [Slots -> Visit!Request]  BY <1>5, InsertDoes, Flights
  <2>2. flight[r].who \in Visitors /\ flight[r].token \in Visit!Tokens  BY <1>5, InsertDoes, TokenMade
  <2>3. sessions' \in [Visit!Tokens -> Visitors \union {None}]
    BY <1>t, <1>5, <2>2, InsertDoes
  <2>4. rows' \in [Visitors -> Visit!Tokens \union {Visit!NoToken}]
    BY <1>t, <1>5, <2>2, InsertDoes
  <2>5. visitPast' \in [restarts : Nat, held : SUBSET Visit!Tokens, crossed : SUBSET Visitors]
    BY <1>5, <2>2, InsertDoes, PastTyped, PastIs
  <2>6. UNCHANGED <<keys, favs, issued, sends, loading>>  BY <1>5, InsertDoes
  <2>7. QED  BY <1>t, <2>1, <2>3, <2>4, <2>5, <2>6 DEF VisTypes
<1>6. ASSUME NEW r \in Slots, NEW t \in Visit!Tokens, Visit!Favour(r, t) PROVE VisTypes'
  <2>1. flight' \in [Slots -> Visit!Request]  BY <1>6, FavourDoes, Flights
  <2>2. visitPast' \in [restarts : Nat, held : SUBSET Visit!Tokens, crossed : SUBSET Visitors]
    BY <1>6, FavourDoes, CrossingIs, PastTyped, PastIs
  <2>3. UNCHANGED <<rows, keys, favs, sessions, issued, sends, loading>>  BY <1>6, FavourDoes
  <2>4. QED  BY <1>t, <2>1, <2>2, <2>3 DEF VisTypes
<1>7. ASSUME NEW r \in Slots, Visit!InsertFav(r) \/ Visit!RemoveFav(r) PROVE VisTypes'
  <2>1. flight' \in [Slots -> Visit!Request]  BY <1>7, FavDone, Flights
  <2>2. favs' \in [Articles -> Visitors \union {None}]
    BY <1>t, <1>7, FavDone, RequestTyped
  <2>3. UNCHANGED <<rows, keys, sessions, issued, sends, loading, visitPast>>  BY <1>7, FavDone
  <2>4. QED  BY <1>t, <2>1, <2>2, <2>3 DEF VisTypes
<1>8. ASSUME NEW t \in Visit!Tokens, Visit!LogOut(t) PROVE VisTypes'
  <2>1. sessions' \in [Visit!Tokens -> Visitors \union {None}]  BY <1>t, <1>8, LogOutDoes
  <2>2. visitPast' \in [restarts : Nat, held : SUBSET Visit!Tokens, crossed : SUBSET Visitors]
    BY <1>8, LogOutDoes, PastTyped, PastIs
  <2>3. UNCHANGED <<rows, keys, favs, flight, issued, sends, loading>>  BY <1>8, LogOutDoes
  <2>4. QED  BY <1>t, <2>1, <2>2, <2>3 DEF VisTypes
<1>9. ASSUME NEW t \in Visit!Tokens, Visit!Forget(t) PROVE VisTypes'
  <2>1. sessions' \in [Visit!Tokens -> Visitors \union {None}]  BY <1>t, <1>9, ForgetDoes
  <2>2. visitPast' \in [restarts : Nat, held : SUBSET Visit!Tokens, crossed : SUBSET Visitors]
    BY <1>9, ForgetDoes, CrossingIs, PastTyped, PastIs
  <2>3. sends' \subseteq Visit!Write
    <3>1. [what : {"row", "favs"}, of : {sessions[t]}] \subseteq Visit!Write  BY <1>9, ForgetDoes DEF Visit!Write
    <3>2. QED  BY <1>t, <1>9, <3>1, ForgetDoes
  <2>4. UNCHANGED <<rows, keys, favs, flight, issued, loading>>  BY <1>9, ForgetDoes
  <2>5. QED  BY <1>t, <2>1, <2>2, <2>3, <2>4 DEF VisTypes
<1>10. ASSUME NEW w \in sends, Visit!Deliver(w) PROVE VisTypes'
  <2>1. keys' \subseteq Visit!Tokens  BY <1>t, <1>10, WriteTyped DEF Visit!Deliver
  <2>2. rows' \in [Visitors -> Visit!Tokens \union {Visit!NoToken}]  BY <1>t, <1>10 DEF Visit!Deliver
  <2>3. favs' \in [Articles -> Visitors \union {None}]  BY <1>t, <1>10 DEF Visit!Deliver
  <2>4. sends' \subseteq sends /\ UNCHANGED <<sessions, flight, issued, loading, visitPast>>  BY <1>10 DEF Visit!Deliver
  <2>5. QED  BY <1>t, <2>1, <2>2, <2>3, <2>4 DEF VisTypes
<1>11. ASSUME Visit!Restart PROVE VisTypes'
  <2>1. flight' \in [Slots -> Visit!Request]  BY <1>11, RestartDoes, IdleRequest
  <2>2. sessions' \in [Visit!Tokens -> Visitors \union {None}]  BY <1>11, RestartDoes
  <2>3. visitPast' \in [restarts : Nat, held : SUBSET Visit!Tokens, crossed : SUBSET Visitors]
    BY <1>11, RestartDoes, PastTyped, PastIs
  <2>4. loading' \subseteq [token : Visit!Tokens, who : Visitors \union {None}]
    <3>1. \A t \in keys : t \in Visit!Tokens /\ issued[t] \in Visitors
      <4>1. \A t \in keys : t \in 1..Len(issued)  BY DEF VisMade, Made
      <4>2. QED  BY <4>1, <1>t
    <3>2. QED  BY <3>1, <1>11, RestartDoes
  <2>5. sends' \subseteq Visit!Write  BY <1>11, RestartDoes
  <2>6. UNCHANGED <<rows, keys, favs, issued>>  BY <1>11, RestartDoes
  <2>7. QED  BY <1>t, <2>1, <2>2, <2>3, <2>4, <2>5, <2>6 DEF VisTypes
<1>12. ASSUME NEW e \in loading, Visit!Load(e) PROVE VisTypes'
  <2>1. e.token \in Visit!Tokens /\ e.who \in Visitors \union {None}  BY <1>t
  <2>2. sessions' = [sessions EXCEPT ![e.token] = e.who] /\ loading' \subseteq loading
        /\ UNCHANGED <<rows, keys, favs, flight, issued, sends, visitPast>>
    BY <1>12 DEF Visit!Load
  <2>3. sessions' \in [Visit!Tokens -> Visitors \union {None}]  BY <1>t, <2>1, <2>2
  <2>4. QED  BY <1>t, <2>2, <2>3 DEF VisTypes
<1>13. ASSUME NEW r \in Slots, Visit!Refuse(r) PROVE VisTypes'
  <2>1. flight' \in [Slots -> Visit!Request]  BY <1>13, RefuseDoes, Flights
  <2>2. UNCHANGED <<rows, keys, favs, sessions, issued, sends, loading, visitPast>>  BY <1>13, RefuseDoes
  <2>3. QED  BY <1>t, <2>1, <2>2 DEF VisTypes
<1>14. QED
  BY <1>1, <1>2, <1>3, <1>4, <1>5, <1>6, <1>7, <1>8, <1>9, <1>10, <1>11, <1>12, <1>13 DEF Visit!Next

-----------------------------------------------------------------------------
(* A token was made for whom it is of *)

RowsMade == \A v \in Visitors : rows[v] # Visit!NoToken => Made(rows[v]) /\ issued[rows[v]] = v
SessionsMade == \A t \in Visit!Tokens : sessions[t] # None => Made(t) /\ issued[t] = sessions[t]
RequestMade(q) ==
    /\ q.step = "idle" <=> q.who = None
    /\ q.step \in {"found", "insert"} => Made(q.token) /\ issued[q.token] = q.who
    /\ q.step \in {"fav", "unfav"} => q.article \in Articles
RequestsMade == \A r \in Slots : RequestMade(flight[r])
WiredMade == \A w \in sends : w.what = "key" => Made(w.of)
LoadingMade == \A e \in loading : Made(e.token) /\ e.who \in {None, issued[e.token]}
HeldMade == (\A t \in visitPast.held : Made(t)) /\ (\A t \in keys : Made(t))

LEMMA MadeParts == VisMade <=> RowsMade /\ SessionsMade /\ RequestsMade /\ WiredMade /\ LoadingMade /\ HeldMade
BY DEF VisMade, RowsMade, SessionsMade, RequestsMade, RequestMade, WiredMade, LoadingMade, HeldMade

LEMMA MadePartsNext ==
  (RowsMade /\ SessionsMade /\ RequestsMade /\ WiredMade /\ LoadingMade /\ HeldMade)' => VisMade'
BY DEF VisMade, RowsMade, SessionsMade, RequestsMade, RequestMade, WiredMade, LoadingMade, HeldMade

LEMMA VisMadeInit == ASSUME Visit!Init PROVE VisMade
<1>1. \A r \in Slots : flight[r].step = "idle" /\ flight[r].who = None
  BY IdleRequest DEF Visit!Init
<1>2. QED  BY <1>1 DEF Visit!Init, VisMade, Visit!NoToken

LEMMA VisMadeStays == ASSUME VisMade, UNCHANGED visitors PROVE VisMade'
BY DEF visitors, VisMade, Made

\* tokens are only added, and what does not change is of whom it was
LEMMA MadeSame == ASSUME VisMade, UNCHANGED issued
  PROVE  /\ (UNCHANGED rows => RowsMade') /\ (UNCHANGED sessions => SessionsMade')
         /\ (UNCHANGED flight => RequestsMade') /\ (sends' \subseteq sends => WiredMade')
         /\ (loading' \subseteq loading => LoadingMade')
         /\ (UNCHANGED keys /\ visitPast'.held \subseteq visitPast.held => HeldMade')
         /\ \A t : Made(t)' <=> Made(t)
BY DEF VisMade, RowsMade, SessionsMade, RequestsMade, RequestMade, WiredMade, LoadingMade, HeldMade, Made

LEMMA RequestsMoved == ASSUME VisTypes, VisMade, NEW r \in Slots, NEW q, Moved(r, q), UNCHANGED issued, RequestMade(q)
  PROVE  RequestsMade'
<1>1. flight'[r] = q /\ \A p \in Slots : p # r => flight'[p] = flight[p]  BY Flights
<1>2. \A p \in Slots : RequestMade(flight[p])  BY MadeParts DEF RequestsMade
<1>3. \A p \in Slots : RequestMade(flight[p])'
  <2> TAKE p \in Slots
  <2>1. CASE p = r  BY <1>1, <2>1 DEF RequestMade, Made
  <2>2. CASE p # r  BY <1>1, <1>2, <2>2 DEF RequestMade, Made
  <2>3. QED  BY <2>1, <2>2
<1>4. QED  BY <1>3 DEF RequestsMade

LEMMA IdleMade == RequestMade(Visit!Idle)
BY IdleRequest DEF RequestMade

LEMMA VisMadeKept == ASSUME VisTypes, VisMade, NoneAssumption, TokensAssumption, Visit!Next PROVE VisMade'
<1>m. RowsMade /\ SessionsMade /\ RequestsMade /\ WiredMade /\ LoadingMade /\ HeldMade  BY MadeParts
<1>1. ASSUME NEW r \in Slots, NEW u \in Visitors, Visit!Introduce(r, u) PROVE VisMade'
  <2> DEFINE q == [step |-> "find", who |-> u, token |-> Visit!NoToken, article |-> None]
  <2>1. Moved(r, q) /\ visitPast'.held = visitPast.held
        /\ UNCHANGED <<rows, keys, favs, sessions, issued, sends, loading>>
    BY <1>1, IntroduceDoes
  <2>2. RequestMade(q)  BY NoneAssumption DEF RequestMade, NoneAssumption
  <2>3. RequestsMade'  BY <2>1, <2>2, RequestsMoved
  <2>4. QED  BY <2>1, <2>3, MadeSame, MadePartsNext
<1>2. ASSUME NEW r \in Slots, Visit!Find(r) PROVE VisMade'
  <2>1. flight[r].who \in Visitors /\ flight[r].who # None
    <3>1. flight[r].step # "idle"  BY <1>2 DEF Visit!Find
    <3>2. QED  BY <3>1, Asker
  <2> DEFINE q == [step |-> "found", who |-> flight[r].who, token |-> rows[flight[r].who], article |-> flight[r].article]
  <2>2. Moved(r, q) /\ rows[flight[r].who] # Visit!NoToken
        /\ UNCHANGED <<rows, keys, favs, sessions, issued, sends, loading, visitPast>>
    BY <1>2, <2>1, FindDoes
  <2>3. RequestMade(q)  BY <1>m, <2>1, <2>2 DEF RequestMade, RowsMade
  <2>4. RequestsMade'  BY <2>2, <2>3, RequestsMoved
  <2>5. QED  BY <2>2, <2>4, MadeSame, MadePartsNext
<1>3. ASSUME NEW r \in Slots, Visit!Found(r) PROVE VisMade'
  <2>1. /\ flight[r].step = "found" /\ Moved(r, Visit!Idle)
        /\ sessions' = [sessions EXCEPT ![flight[r].token] = flight[r].who]
        /\ visitPast'.held = visitPast.held \union {flight[r].token}
        /\ UNCHANGED <<rows, keys, favs, issued, sends, loading>>
    BY <1>3, FoundDoes
  <2>2. /\ Made(flight[r].token) /\ flight[r].token \in Visit!Tokens /\ issued[flight[r].token] = flight[r].who
    BY <2>1, TokenMade
  <2>3. RequestsMade'  BY <2>1, IdleMade, RequestsMoved
  <2>4. SessionsMade'  BY <1>m, <2>1, <2>2, MadeSame DEF SessionsMade, VisTypes
  <2>5. HeldMade'  BY <1>m, <2>1, <2>2, MadeSame DEF HeldMade
  <2>6. QED  BY <2>1, <2>3, <2>4, <2>5, MadeSame, MadePartsNext
<1>4. ASSUME NEW r \in Slots, Visit!FindNone(r) PROVE VisMade'
  <2>1. flight[r].who \in Visitors /\ flight[r].who # None
    <3>1. flight[r].step # "idle"  BY <1>4 DEF Visit!FindNone
    <3>2. QED  BY <3>1, Asker
  <2> DEFINE t == Len(issued')
             q == [step |-> "insert", who |-> flight[r].who, token |-> t, article |-> flight[r].article]
  <2>2. /\ \A x : Made(x) => issued'[x] = issued[x] /\ Made(x)' /\ x # t
        /\ t \in 1..Len(issued') /\ issued'[t] = flight[r].who
        /\ sends' = sends \union {[what |-> "key", of |-> t]} /\ Moved(r, q)
        /\ UNCHANGED <<rows, keys, favs, sessions, loading, visitPast>>
    BY <1>4, <2>1, FindNoneDoes
  <2>3. RowsMade'  BY <1>m, <2>2 DEF RowsMade
  <2>4. SessionsMade'  BY <1>m, <2>2 DEF SessionsMade
  <2>5. RequestsMade'
    <3>1. flight'[r] = q /\ \A p \in Slots : p # r => flight'[p] = flight[p]  BY <2>2, Flights
    <3>2. \A p \in Slots : RequestMade(flight[p])  BY <1>m DEF RequestsMade
    <3>3. \A p \in Slots : RequestMade(flight[p])'
      <4> TAKE p \in Slots
      <4>1. CASE p = r
        <5>1. /\ flight'[p].step = "insert" /\ flight'[p].who = flight[r].who /\ flight'[p].token = t
          BY <3>1, <4>1
        <5>2. flight'[p].token \in 1..t /\ issued'[flight'[p].token] = flight'[p].who  BY <2>2, <5>1
        <5>3. QED  BY <2>1, <5>1, <5>2 DEF RequestMade, Made
      <4>2. CASE p # r  BY <2>2, <3>1, <3>2, <4>2 DEF RequestMade
      <4>3. QED  BY <4>1, <4>2
    <3>4. QED  BY <3>3 DEF RequestsMade
  <2>6. WiredMade'
    <3> SUFFICES ASSUME NEW w \in sends', w.what = "key" PROVE Made(w.of)'  BY DEF WiredMade
    <3>1. CASE w \in sends  BY <1>m, <2>2, <3>1 DEF WiredMade
    <3>2. CASE w \notin sends
      <4>1. w.of = t  BY <2>2, <3>2
      <4>2. QED  BY <2>2, <4>1 DEF Made
    <3>3. QED  BY <3>1, <3>2
  <2>7. LoadingMade'  BY <1>m, <2>2 DEF LoadingMade
  <2>8. HeldMade'  BY <1>m, <2>2 DEF HeldMade
  <2>9. QED  BY <2>3, <2>4, <2>5, <2>6, <2>7, <2>8, MadePartsNext
<1>5. ASSUME NEW r \in Slots, Visit!Insert(r) PROVE VisMade'
  <2>1. /\ flight[r].step = "insert" /\ Moved(r, Visit!Idle)
        /\ rows' = [rows EXCEPT ![flight[r].who] = IF @ = Visit!NoToken THEN flight[r].token ELSE @]
        /\ sessions' = [sessions EXCEPT ![flight[r].token] = flight[r].who]
        /\ visitPast'.held = visitPast.held \union {flight[r].token}
        /\ UNCHANGED <<keys, favs, issued, sends, loading>>
    BY <1>5, InsertDoes
  <2>2. /\ Made(flight[r].token) /\ flight[r].token \in Visit!Tokens /\ issued[flight[r].token] = flight[r].who
    BY <2>1, TokenMade
  <2>3. RequestsMade'  BY <2>1, IdleMade, RequestsMoved
  <2>4. SessionsMade'  BY <1>m, <2>1, <2>2, MadeSame DEF SessionsMade, VisTypes
  <2>5. HeldMade'  BY <1>m, <2>1, <2>2, MadeSame DEF HeldMade
  <2>6. RowsMade'  BY <1>m, <2>1, <2>2, MadeSame DEF RowsMade, VisTypes
  <2>7. QED  BY <2>1, <2>3, <2>4, <2>5, <2>6, MadeSame, MadePartsNext
<1>6. ASSUME NEW r \in Slots, NEW t \in Visit!Tokens, Visit!Favour(r, t) PROVE VisMade'
  <2>1. /\ sessions[t] \in Visitors /\ visitPast'.held = visitPast.held
        /\ UNCHANGED <<rows, keys, favs, sessions, issued, sends, loading>>
    BY <1>6, FavourDoes
  <2>2. PICK a \in Articles, step \in {"fav", "unfav"} :
               Moved(r, [step |-> step, who |-> sessions[t], token |-> t, article |-> a])
    BY <1>6, FavourDoes
  <2> DEFINE q == [step |-> step, who |-> sessions[t], token |-> t, article |-> a]
  <2>3. RequestMade(q)  BY <2>1, <2>2, NoneAssumption DEF RequestMade, NoneAssumption
  <2>4. RequestsMade'  BY <2>1, <2>2, <2>3, RequestsMoved
  <2>5. QED  BY <2>1, <2>4, MadeSame, MadePartsNext
<1>7. ASSUME NEW r \in Slots, Visit!InsertFav(r) \/ Visit!RemoveFav(r) PROVE VisMade'
  <2>1. Moved(r, Visit!Idle) /\ UNCHANGED <<rows, keys, sessions, issued, sends, loading, visitPast>>
    BY <1>7, FavDone
  <2>2. RequestsMade'  BY <2>1, IdleMade, RequestsMoved
  <2>3. QED  BY <2>1, <2>2, MadeSame, MadePartsNext
<1>8. ASSUME NEW t \in Visit!Tokens, Visit!LogOut(t) PROVE VisMade'
  <2>1. /\ sessions' = [sessions EXCEPT ![t] = None] /\ visitPast'.held \subseteq visitPast.held
        /\ UNCHANGED <<rows, keys, favs, flight, issued, sends, loading>>
    BY <1>8, LogOutDoes
  <2>2. SessionsMade'  BY <1>m, <2>1, MadeSame DEF SessionsMade, VisTypes
  <2>3. QED  BY <2>1, <2>2, MadeSame, MadePartsNext
<1>9. ASSUME NEW t \in Visit!Tokens, Visit!Forget(t) PROVE VisMade'
  <2>1. /\ sessions' = [sessions EXCEPT ![t] = None] /\ visitPast'.held \subseteq visitPast.held
        /\ sends' = sends \union [what : {"row", "favs"}, of : {sessions[t]}]
        /\ UNCHANGED <<rows, keys, favs, flight, issued, loading>>
    BY <1>9, ForgetDoes
  <2>2. SessionsMade'  BY <1>m, <2>1, MadeSame DEF SessionsMade, VisTypes
  <2>3. WiredMade'  BY <1>m, <2>1, MadeSame DEF WiredMade
  <2>4. QED  BY <2>1, <2>2, <2>3, MadeSame, MadePartsNext
<1>10. ASSUME NEW w \in sends, Visit!Deliver(w) PROVE VisMade'
  <2>1. /\ keys' = IF w.what = "key" THEN keys \union {w.of} ELSE keys
        /\ rows' = IF w.what = "row" THEN [rows EXCEPT ![w.of] = Visit!NoToken] ELSE rows
        /\ sends' \subseteq sends /\ UNCHANGED <<sessions, flight, issued, loading, visitPast>>
    BY <1>10 DEF Visit!Deliver
  <2>2. RowsMade'  BY <1>m, <2>1, MadeSame DEF RowsMade, VisTypes
  <2>3. HeldMade'  BY <1>m, <2>1, MadeSame DEF HeldMade, WiredMade
  <2>4. QED  BY <2>1, <2>2, <2>3, MadeSame, MadePartsNext
<1>11. ASSUME Visit!Restart PROVE VisMade'
  <2>1. /\ sessions' = [t \in Visit!Tokens |-> None] /\ flight' = [r \in Slots |-> Visit!Idle] /\ sends' = {}
        /\ loading' = {[token |-> t, who |-> IF rows[issued[t]] = Visit!NoToken THEN None ELSE issued[t]] : t \in keys}
        /\ visitPast'.held = visitPast.held /\ UNCHANGED <<rows, keys, favs, issued>>
    BY <1>11, RestartDoes
  <2>2. SessionsMade'  BY <2>1 DEF SessionsMade
  <2>3. RequestsMade'
    <3>1. \A r \in Slots : flight'[r].step = "idle" /\ flight'[r].who = None  BY <2>1, IdleRequest
    <3>2. QED  BY <3>1 DEF RequestsMade, RequestMade
  <2>4. LoadingMade'
    <3> SUFFICES ASSUME NEW e \in loading' PROVE Made(e.token)' /\ e.who \in {None, issued'[e.token]}  BY DEF LoadingMade
    <3>1. PICK t \in keys : e = [token |-> t, who |-> IF rows[issued[t]] = Visit!NoToken THEN None ELSE issued[t]]
      BY <2>1
    <3>2. e.token = t /\ e.who \in {None, issued[t]}  BY <3>1
    <3>3. Made(t)  BY <1>m DEF HeldMade
    <3>4. QED  BY <2>1, <3>2, <3>3, MadeSame
  <2>5. QED  BY <2>1, <2>2, <2>3, <2>4, MadeSame, MadePartsNext
<1>12. ASSUME NEW e \in loading, Visit!Load(e) PROVE VisMade'
  <2>1. sessions' = [sessions EXCEPT ![e.token] = e.who] /\ loading' \subseteq loading
        /\ UNCHANGED <<rows, keys, favs, flight, issued, sends, visitPast>>
    BY <1>12 DEF Visit!Load
  <2>2. Made(e.token) /\ e.who \in {None, issued[e.token]}  BY <1>m DEF LoadingMade
  <2>3. SessionsMade'  BY <1>m, <2>1, <2>2, MadeSame DEF SessionsMade, VisTypes
  <2>4. QED  BY <2>1, <2>3, MadeSame, MadePartsNext
<1>13. ASSUME NEW r \in Slots, Visit!Refuse(r) PROVE VisMade'
  <2>1. Moved(r, Visit!Idle) /\ UNCHANGED <<rows, keys, sessions, issued, sends, loading, visitPast>>
    BY <1>13, RefuseDoes
  <2>2. RequestsMade'  BY <2>1, IdleMade, RequestsMoved
  <2>3. QED  BY <2>1, <2>2, MadeSame, MadePartsNext
<1>14. QED
  BY <1>1, <1>2, <1>3, <1>4, <1>5, <1>6, <1>7, <1>8, <1>9, <1>10, <1>11, <1>12, <1>13 DEF Visit!Next

-----------------------------------------------------------------------------
(* A visitor whose requests did not cross *)

LEMMA OwnerIs == ASSUME NEW w PROVE Visit!Owner(w) = IF w.what = "key" THEN issued[w.of] ELSE w.of
BY DEF Visit!Owner

LEMMA OwnerSame == ASSUME VisMade, NEW w \in sends, UNCHANGED issued \/ \A t : Made(t) => issued'[t] = issued[t]
  PROVE  Visit!Owner(w)' = Visit!Owner(w)
BY DEF Visit!Owner, VisMade

\* of what a visitor is alone with, a step keeps it, or adds nothing of his
LEMMA AloneSame ==
  ASSUME NEW v \in Visitors, VisAlone(v),
         \A q \in Slots : flight'[q].who = v => flight'[q] = flight[q],
         \A w \in sends' : Visit!Owner(w)' = v => w \in sends /\ Visit!Owner(w) = v,
         \A e \in loading' : issued'[e.token] = v => e \in loading /\ issued[e.token] = v,
         rows'[v] = rows[v], keys \subseteq keys',
         \A t : Has("key", t) => Has("key", t)' \/ t \in keys'
  PROVE  VisAlone(v)'
<1>1. \A q, r \in Slots : flight'[q].who = v /\ flight'[r].who = v => q = r  BY DEF VisAlone
<1>2. \A x \in {"row", "favs"} : Has(x, v)' => Has(x, v)
  <2> SUFFICES ASSUME NEW x \in {"row", "favs"}, NEW w \in sends', w.what = x, w.of = v PROVE Has(x, v)  BY DEF Has
  <2>1. Visit!Owner(w)' = v  BY DEF Visit!Owner
  <2>2. QED  BY <2>1 DEF Has
<1>3. ASSUME NEW r \in Slots, flight'[r].who = v
      PROVE  /\ ~Has("row", v)' /\ ~Has("favs", v)'
             /\ flight'[r].step # "insert" => \A w \in sends' : Visit!Owner(w)' # v
             /\ \A e \in loading' : issued'[e.token] # v
             /\ flight'[r].step = "found" => rows'[v] = flight'[r].token
             /\ flight'[r].step = "insert" => /\ rows'[v] = Visit!NoToken
                                              /\ flight[r].token \in keys' \/ Has("key", flight[r].token)'
             /\ flight'[r].step = "fav" => rows'[v] # Visit!NoToken
  <2>1. flight'[r] = flight[r] /\ flight[r].who = v  BY <1>3
  <2>2. ~Has("row", v)' /\ ~Has("favs", v)'  BY <1>2, <2>1 DEF VisAlone
  <2>3. flight'[r].step # "insert" => \A w \in sends' : Visit!Owner(w)' # v  BY <2>1 DEF VisAlone
  <2>4. \A e \in loading' : issued'[e.token] # v  BY <2>1 DEF VisAlone
  <2>5. /\ flight'[r].step = "found" => rows'[v] = flight'[r].token
        /\ flight'[r].step = "insert" => rows'[v] = Visit!NoToken
        /\ flight'[r].step = "fav" => rows'[v] # Visit!NoToken
    BY <2>1 DEF VisAlone
  <2>6. flight'[r].step = "insert" => flight[r].token \in keys' \/ Has("key", flight[r].token)'
    <3>1. flight[r].step = "insert" => flight[r].token \in keys \/ Has("key", flight[r].token)  BY <2>1 DEF VisAlone
    <3>2. QED  BY <2>1, <3>1
  <2>7. QED  BY <2>2, <2>3, <2>4, <2>5, <2>6
<1>4. \A e \in loading', w \in sends' : issued'[e.token] = v => Visit!Owner(w)' # v  BY DEF VisAlone
<1>5. \A e \in loading' : issued'[e.token] = v =>
          IF e.who = None THEN rows'[v] = Visit!NoToken ELSE rows'[v] = e.token
  BY DEF VisAlone
<1>6. \A r \in Slots : flight'[r].who = v => flight'[r] = flight[r]  OBVIOUS
<1>7. \A r \in Slots : flight'[r].who = v =>
             /\ ~Has("row", v)' /\ ~Has("favs", v)'
             /\ flight'[r].step # "insert" => \A w \in sends' : Visit!Owner(w)' # v
             /\ \A e \in loading' : issued'[e.token] # v
             /\ flight'[r].step = "found" => rows'[v] = flight'[r].token
             /\ flight'[r].step = "insert" => /\ rows'[v] = Visit!NoToken
                                              /\ flight'[r].token \in keys' \/ \E w \in sends' : w.what = "key" /\ w.of = flight'[r].token
             /\ flight'[r].step = "fav" => rows'[v] # Visit!NoToken
  BY <1>3, <1>6 DEF Has
<1>8. QED  BY <1>1, <1>4, <1>5, <1>7 DEF VisAlone, Has

\* nothing is under way of a visitor, after a step as well
LEMMA AloneQuiet ==
  ASSUME NEW v \in Visitors, \A q \in Slots : flight'[q].who # v,
         \A e \in loading' : issued'[e.token] # v
  PROVE  VisAlone(v)'
BY DEF VisAlone

\* of what a visitor has, a step keeps it, and adds no session, and nothing of his which goes
LEMMA KeptSame ==
  ASSUME NEW v \in Visitors, VisKept(v),
         rows'[v] = rows[v], keys \subseteq keys',
         \A t : Has("key", t) => Has("key", t)' \/ t \in keys',
         \A t \in Visit!Tokens : sessions'[t] = v => sessions[t] = v,
         Has("row", v)' => Has("row", v),
         \A t \in visitPast'.held : issued'[t] = v =>
            /\ t \in visitPast.held /\ issued[t] = v
            /\ sessions[t] = v => sessions'[t] = v
            /\ \A e \in loading : e.token = t /\ e.who = v => e \in loading' \/ sessions'[t] = v,
         \A a \in Articles : favs'[a] = v => (favs[a] = v /\ (Has("favs", v) => Has("favs", v)'))
                                             \/ (rows[v] # Visit!NoToken /\ ~Has("row", v))
  PROVE  VisKept(v)'
<1>1. rows'[v] # Visit!NoToken => rows'[v] \in keys' \/ Has("key", rows[v])'  BY DEF VisKept
<1>2. \A t \in Visit!Tokens : sessions'[t] = v => rows'[v] = t /\ ~Has("row", v)'  BY DEF VisKept
<1>3. \A t \in visitPast'.held : issued'[t] = v =>
          /\ rows'[v] = t /\ ~Has("row", v)'
          /\ sessions'[t] = v \/ \E e \in loading' : e.token = t /\ e.who = v
  BY DEF VisKept
<1>4. \A a \in Articles : favs'[a] = v => Has("favs", v)' \/ (rows'[v] # Visit!NoToken /\ ~Has("row", v)')
  BY DEF VisKept
<1>5. rows'[v] # Visit!NoToken => rows'[v] \in keys' \/ \E w \in sends' : w.what = "key" /\ w.of = rows'[v]
  BY <1>1 DEF Has
<1>6. QED  BY <1>2, <1>3, <1>4, <1>5 DEF VisKept, Has

\* nothing which a visitor has is changed
LEMMA KeptStays ==
  ASSUME NEW v \in Visitors, VisKept(v), UNCHANGED <<rows, keys, favs, sessions, issued, sends, loading>>,
         visitPast'.held \subseteq visitPast.held
  PROVE  VisKept(v)'
<1>1. \A x, o : Has(x, o)' <=> Has(x, o)  BY DEF Has
<1>2. QED  BY <1>1, KeptSame

LEMMA CalmInit == ASSUME Visit!Init, NoneAssumption PROVE VisCalm
<1>1. \A r \in Slots : flight[r].who = None  BY IdleRequest DEF Visit!Init
<1>2. \A v \in Visitors : v # None  BY DEF NoneAssumption
<1>3. \A v \in Visitors : \A r \in Slots : flight[r].who # v  BY <1>1, <1>2
<1>4. \A v \in Visitors : VisAlone(v)  BY <1>3 DEF Visit!Init, VisAlone
<1>5. \A v \in Visitors : VisKept(v)  BY <1>2 DEF Visit!Init, VisKept
<1>6. QED  BY <1>4, <1>5 DEF VisCalm

LEMMA CalmStays == ASSUME VisCalm, UNCHANGED visitors PROVE VisCalm'
BY DEF visitors, VisCalm, VisAlone, VisKept, Has, Visit!Owner

LEMMA CalmWas == ASSUME VisCalm, NEW v \in Visitors, v \notin visitPast.crossed PROVE VisAlone(v) /\ VisKept(v)
BY DEF VisCalm

\* a request of a visitor begins: nothing else of him was under way
LEMMA CalmBegins ==
  ASSUME VisTypes, VisMade, VisCalm, NoneAssumption, NEW r \in Slots, NEW u \in Visitors, NEW q, Moved(r, q),
         flight[r] = Visit!Idle, q.who = u, q.step \in {"find", "fav", "unfav"}, q.step = "fav" => \E t \in Visit!Tokens : sessions[t] = u,
         visitPast'.crossed = Visit!Crossing(u), visitPast'.held = visitPast.held,
         UNCHANGED <<rows, keys, favs, sessions, issued, sends, loading>>,
         NEW v \in Visitors, v \notin visitPast'.crossed
  PROVE  VisAlone(v)' /\ VisKept(v)'
<1>1. v \notin visitPast.crossed  BY CrossingIs
<1>2. VisAlone(v) /\ VisKept(v)  BY <1>1, CalmWas
<1>3. VisKept(v)'  BY <1>2, KeptStays
<1>4. flight'[r] = q /\ \A p \in Slots : p # r => flight'[p] = flight[p]  BY Flights
<1>5. \A x, o : Has(x, o)' <=> Has(x, o)  BY DEF Has
<1>6. \A w \in sends' : Visit!Owner(w)' = Visit!Owner(w)  BY OwnerSame
<1>7. CASE v # u
  <2>1. \A p \in Slots : flight'[p].who = v => flight'[p] = flight[p]  BY <1>4, <1>7
  <2>2. QED  BY <1>2, <1>3, <1>5, <1>6, <2>1, AloneSame
<1>8. CASE v = u
  <2>1. Quiet(v)  BY <1>8, CrossingIs
  <2>2. \A p \in Slots : flight'[p].who = v => p = r  BY <1>4, <2>1 DEF Quiet
  <2>3. \A w \in sends' : Visit!Owner(w)' # v  BY <1>6, <2>1 DEF Quiet
  <2>4. \A e \in loading' : issued'[e.token] # v  BY <2>1 DEF Quiet
  <2>5. ~Has("row", v)' /\ ~Has("favs", v)'
    <3>1. \A w \in sends : w.what \in {"row", "favs"} => Visit!Owner(w) = w.of  BY DEF Visit!Owner
    <3>2. \A w \in sends : Visit!Owner(w) # v  BY <2>1 DEF Quiet
    <3>3. QED  BY <1>5, <3>1, <3>2 DEF Has
  <2>6. q.step = "fav" => rows'[v] # Visit!NoToken
    <3> SUFFICES ASSUME q.step = "fav" PROVE rows'[v] # Visit!NoToken  OBVIOUS
    <3>1. PICK t \in Visit!Tokens : sessions[t] = v  BY <1>8
    <3>2. rows[v] = t  BY <3>1, <1>2 DEF VisKept
    <3>3. QED  BY <3>2 DEF Visit!Tokens, Visit!NoToken
  <2>7. \A p \in Slots : flight'[p].who = v => flight'[p].step \in {"find", "fav", "unfav"} /\ (flight'[p].step = "fav" => rows'[v] # Visit!NoToken)
    BY <2>2, <2>6, <1>4
  <2>8. VisAlone(v)'  BY <2>2, <2>3, <2>4, <2>5, <2>7 DEF VisAlone
  <2>9. QED  BY <1>3, <2>8
<1>9. QED  BY <1>7, <1>8

LEMMA CalmFind ==
  ASSUME VisTypes, VisMade, VisCalm, NoneAssumption, NEW r \in Slots, Visit!Find(r),
         NEW v \in Visitors, v \notin visitPast'.crossed
  PROVE  VisAlone(v)' /\ VisKept(v)'
<1>1. flight[r].step = "find"  BY DEF Visit!Find
<1>2. flight[r].who \in Visitors  BY <1>1, Asker
<1> DEFINE q == [step |-> "found", who |-> flight[r].who, token |-> rows[flight[r].who], article |-> flight[r].article]
<1>3. Moved(r, q) /\ UNCHANGED <<rows, keys, favs, sessions, issued, sends, loading, visitPast>>
  BY <1>2, FindDoes
<1>4. VisAlone(v) /\ VisKept(v)  BY <1>3, CalmWas
<1>5. VisKept(v)'  BY <1>3, <1>4, KeptStays
<1>6. flight'[r] = q /\ \A p \in Slots : p # r => flight'[p] = flight[p]  BY <1>3, Flights
<1>7. \A x, o : Has(x, o)' <=> Has(x, o)  BY <1>3 DEF Has
<1>8. \A w \in sends' : Visit!Owner(w)' = Visit!Owner(w)  BY <1>3, OwnerSame
<1>9. q.step = "found" /\ q.who = flight[r].who /\ q.token = rows[flight[r].who]  OBVIOUS
<1> HIDE DEF q
<1>10. CASE flight[r].who # v
  <2>1. \A p \in Slots : flight'[p].who = v => flight'[p] = flight[p]  BY <1>6, <1>9, <1>10
  <2>2. QED  BY <1>3, <1>4, <1>5, <1>7, <1>8, <2>1, AloneSame
<1>11. CASE flight[r].who = v
  <2>1. \A p \in Slots : flight'[p].who = v <=> flight[p].who = v  BY <1>6, <1>9, <1>11
  <2>2. \A p \in Slots : flight'[p].who = v => p = r  BY <1>4, <1>11, <2>1 DEF VisAlone
  <2>3. /\ ~Has("row", v) /\ ~Has("favs", v) /\ (\A w \in sends : Visit!Owner(w) # v)
        /\ \A e \in loading : issued[e.token] # v
    BY <1>1, <1>4, <1>11 DEF VisAlone
  <2>4. ~Has("row", v)' /\ ~Has("favs", v)'  BY <1>7, <2>3
  <2>5. \A w \in sends' : Visit!Owner(w)' # v  BY <1>3, <1>8, <2>3
  <2>6. \A e \in loading' : issued'[e.token] # v  BY <1>3, <2>3
  <2>7. \A p \in Slots : flight'[p].who = v => flight'[p].step = "found" /\ flight'[p].token = rows'[v]
    BY <1>3, <1>6, <1>9, <1>11, <2>2
  <2>8. VisAlone(v)'  BY <2>2, <2>4, <2>5, <2>6, <2>7 DEF VisAlone
  <2>9. QED  BY <1>5, <2>8
<1>12. QED  BY <1>10, <1>11

LEMMA CalmFound ==
  ASSUME VisTypes, VisMade, VisCalm, NoneAssumption, NEW r \in Slots, Visit!Found(r),
         NEW v \in Visitors, v \notin visitPast'.crossed
  PROVE  VisAlone(v)' /\ VisKept(v)'
<1>1. /\ flight[r].step = "found" /\ Moved(r, Visit!Idle)
      /\ sessions' = [sessions EXCEPT ![flight[r].token] = flight[r].who]
      /\ visitPast'.held = visitPast.held \union {flight[r].token} /\ visitPast'.crossed = visitPast.crossed
      /\ UNCHANGED <<rows, keys, favs, issued, sends, loading>>
  BY FoundDoes
<1>2. PICK t, u : t = flight[r].token /\ u = flight[r].who  OBVIOUS
<1>3. u \in Visitors /\ t \in Visit!Tokens /\ issued[t] = u  BY <1>1, <1>2, TokenMade
<1>4. VisAlone(v) /\ VisKept(v)  BY <1>1, CalmWas
<1>5. flight'[r] = Visit!Idle /\ \A p \in Slots : p # r => flight'[p] = flight[p]  BY <1>1, Flights
<1>6. \A p \in Slots : flight'[p].who = v => flight'[p] = flight[p]  BY <1>5, IdleRequest DEF NoneAssumption
<1>7. \A x, o : Has(x, o)' <=> Has(x, o)  BY <1>1 DEF Has
<1>8. \A w \in sends' : Visit!Owner(w)' = Visit!Owner(w)  BY <1>1, OwnerSame
<1>9. VisAlone(v)'  BY <1>1, <1>4, <1>6, <1>7, <1>8, AloneSame
<1>10. sessions'[t] = u /\ \A s \in Visit!Tokens : s # t => sessions'[s] = sessions[s]
  BY <1>1, <1>2, <1>3 DEF VisTypes
<1>11. visitPast'.held = visitPast.held \union {t} /\ visitPast.held \subseteq Visit!Tokens  BY <1>1, <1>2, PastTyped
<1>12. CASE u # v
  <2>1. \A s \in Visit!Tokens : sessions'[s] = v => sessions[s] = v  BY <1>10, <1>12
  <2>2. \A s \in visitPast'.held : issued'[s] = v => s \in visitPast.held /\ s # t  BY <1>1, <1>3, <1>11, <1>12
  <2>3. \A s \in visitPast'.held : issued'[s] = v => s \in visitPast.held /\ issued[s] = v /\ sessions'[s] = sessions[s]
    BY <2>2, <1>1, <1>10, <1>11
  <2>4. VisKept(v)'  BY <1>1, <1>4, <1>7, <2>1, <2>3, KeptSame
  <2>5. QED  BY <1>9, <2>4
<1>13. CASE u = v
  <2>1. rows[v] = t /\ ~Has("row", v)  BY <1>1, <1>2, <1>4, <1>13 DEF VisAlone
  <2>2. rows'[v] # Visit!NoToken => rows'[v] \in keys' \/ Has("key", rows[v])'  BY <1>1, <1>4, <1>7 DEF VisKept
  <2>3. \A s \in Visit!Tokens : sessions'[s] = v => rows'[v] = s /\ ~Has("row", v)'
    BY <1>1, <1>4, <1>7, <1>10, <2>1 DEF VisKept
  <2>4. \A s \in visitPast'.held : issued'[s] = v => s = t
    BY <1>1, <1>4, <1>11, <2>1 DEF VisKept
  <2>5. \A s \in visitPast'.held : issued'[s] = v => rows'[v] = s /\ ~Has("row", v)' /\ sessions'[s] = v
    BY <1>1, <1>7, <1>10, <1>13, <2>1, <2>4
  <2>6. \A a \in Articles : favs'[a] = v => (rows'[v] # Visit!NoToken /\ ~Has("row", v)')
    BY <1>1, <1>3, <1>7, <2>1 DEF Visit!Tokens, Visit!NoToken
  <2>7. rows'[v] # Visit!NoToken => rows'[v] \in keys' \/ \E w \in sends' : w.what = "key" /\ w.of = rows'[v]
    BY <1>1, <2>2 DEF Has
  <2>8. VisKept(v)'  BY <2>3, <2>5, <2>6, <2>7 DEF VisKept, Has
  <2>9. QED  BY <1>9, <2>8
<1>14. QED  BY <1>12, <1>13

LEMMA CalmFindNone ==
  ASSUME VisTypes, VisMade, VisCalm, NoneAssumption, TokensAssumption, NEW r \in Slots, Visit!FindNone(r),
         NEW v \in Visitors, v \notin visitPast'.crossed
  PROVE  VisAlone(v)' /\ VisKept(v)'
<1>0. flight[r].step = "find"  BY DEF Visit!FindNone
<1>1. flight[r].who \in Visitors  BY <1>0, Asker
<1>2. PICK t, u : t = Len(issued') /\ u = flight[r].who  OBVIOUS
<1> DEFINE q == [step |-> "insert", who |-> u, token |-> t, article |-> flight[r].article]
           new == [what |-> "key", of |-> t]
<1>3. /\ rows[u] = Visit!NoToken /\ issued'[t] = u
      /\ \A x : Made(x) => issued'[x] = issued[x] /\ x # t
      /\ sends' = sends \union {new} /\ Moved(r, q)
      /\ UNCHANGED <<rows, keys, favs, sessions, loading, visitPast>>
  BY <1>1, <1>2, FindNoneDoes
<1>4. q.step = "insert" /\ q.who = u /\ q.token = t /\ new.what = "key" /\ new.of = t  OBVIOUS
<1> HIDE DEF q, new
<1>5. VisAlone(v) /\ VisKept(v)  BY <1>3, CalmWas
<1>6. flight'[r] = q /\ \A p \in Slots : p # r => flight'[p] = flight[p]  BY <1>3, Flights
<1>7. \A x, o : Has(x, o) => Has(x, o)'  BY <1>3 DEF Has
<1>8. \A x, o : x # "key" /\ Has(x, o)' => Has(x, o)  BY <1>3, <1>4 DEF Has
<1>9. \A w \in sends : Visit!Owner(w)' = Visit!Owner(w)  BY <1>3, OwnerSame
<1>10. Visit!Owner(new)' = u  BY <1>3, <1>4 DEF Visit!Owner
<1>11. \A e \in loading : issued'[e.token] = issued[e.token]  BY <1>3 DEF VisMade
<1>12. \A s \in visitPast.held : issued'[s] = issued[s]  BY <1>3 DEF VisMade
<1>13. VisKept(v)'
  <2>1. \A s \in visitPast'.held : issued'[s] = v => s \in visitPast.held /\ issued[s] = v  BY <1>3, <1>12
  <2>2. Has("row", v)' => Has("row", v)  BY <1>8
  <2>3. \A a \in Articles : favs'[a] = v => favs[a] = v /\ (Has("favs", v) => Has("favs", v)')  BY <1>3, <1>7
  <2>4. QED  BY <1>3, <1>5, <1>7, <2>1, <2>2, <2>3, KeptSame
<1>14. CASE u # v
  <2>1. \A p \in Slots : flight'[p].who = v => flight'[p] = flight[p]  BY <1>4, <1>6, <1>14
  <2>2. \A w \in sends' : Visit!Owner(w)' = v => w \in sends /\ Visit!Owner(w) = v  BY <1>3, <1>9, <1>10, <1>14
  <2>3. \A e \in loading' : issued'[e.token] = v => e \in loading /\ issued[e.token] = v  BY <1>3, <1>11
  <2>4. VisAlone(v)'  BY <1>3, <1>5, <1>7, <2>1, <2>2, <2>3, AloneSame
  <2>5. QED  BY <1>13, <2>4
<1>15. CASE u = v
  <2>1. \A p \in Slots : flight'[p].who = v <=> flight[p].who = v  BY <1>2, <1>4, <1>6, <1>15
  <2>2. \A p \in Slots : flight'[p].who = v => p = r  BY <1>2, <1>5, <1>15, <2>1 DEF VisAlone
  <2>3. /\ ~Has("row", v) /\ ~Has("favs", v) /\ \A e \in loading : issued[e.token] # v
    BY <1>2, <1>5, <1>15 DEF VisAlone
  <2>4. ~Has("row", v)' /\ ~Has("favs", v)'  BY <1>8, <2>3
  <2>5. \A e \in loading' : issued'[e.token] # v  BY <1>3, <1>11, <2>3
  <2>6. Has("key", t)'  BY <1>3, <1>4 DEF Has
  <2>7. \E w \in sends' : w.what = "key" /\ w.of = t  BY <2>6 DEF Has
  <2>8. \A p \in Slots : flight'[p].who = v =>
           /\ flight'[p].step = "insert" /\ rows'[v] = Visit!NoToken
           /\ \E w \in sends' : w.what = "key" /\ w.of = flight'[p].token
    BY <1>3, <1>4, <1>6, <1>15, <2>2, <2>7
  <2>9. VisAlone(v)'  BY <2>2, <2>4, <2>5, <2>8 DEF VisAlone, Has
  <2>10. QED  BY <1>13, <2>9
<1>16. QED  BY <1>14, <1>15

LEMMA CalmInsert ==
  ASSUME VisTypes, VisMade, VisCalm, NoneAssumption, NEW r \in Slots, Visit!Insert(r),
         NEW v \in Visitors, v \notin visitPast'.crossed
  PROVE  VisAlone(v)' /\ VisKept(v)'
<1>1. /\ flight[r].step = "insert" /\ Moved(r, Visit!Idle)
      /\ rows' = [rows EXCEPT ![flight[r].who] = IF @ = Visit!NoToken THEN flight[r].token ELSE @]
      /\ sessions' = [sessions EXCEPT ![flight[r].token] = flight[r].who]
      /\ visitPast'.held = visitPast.held \union {flight[r].token} /\ visitPast'.crossed = visitPast.crossed
      /\ UNCHANGED <<keys, favs, issued, sends, loading>>
  BY InsertDoes
<1>2. PICK t, u : t = flight[r].token /\ u = flight[r].who  OBVIOUS
<1>3. u \in Visitors /\ t \in Visit!Tokens /\ issued[t] = u  BY <1>1, <1>2, TokenMade
<1>4. VisAlone(v) /\ VisKept(v)  BY <1>1, CalmWas
<1>5. flight'[r] = Visit!Idle /\ \A p \in Slots : p # r => flight'[p] = flight[p]  BY <1>1, Flights
<1>6. \A p \in Slots : flight'[p].who = v => flight'[p] = flight[p] /\ p # r  BY <1>5, IdleRequest DEF NoneAssumption
<1>7. \A x, o : Has(x, o)' <=> Has(x, o)  BY <1>1 DEF Has
<1>8. \A w \in sends' : Visit!Owner(w)' = Visit!Owner(w)  BY <1>1, OwnerSame
<1>9. sessions'[t] = u /\ \A s \in Visit!Tokens : s # t => sessions'[s] = sessions[s]
  BY <1>1, <1>2, <1>3 DEF VisTypes
<1>10. visitPast'.held = visitPast.held \union {t} /\ visitPast.held \subseteq Visit!Tokens  BY <1>1, <1>2, PastTyped
<1>11. CASE u # v
  <2>1. rows'[v] = rows[v]  BY <1>1, <1>2, <1>11 DEF VisTypes
  <2>2. VisAlone(v)'  BY <1>1, <1>4, <1>6, <1>7, <1>8, <2>1, AloneSame
  <2>3. \A s \in Visit!Tokens : sessions'[s] = v => sessions[s] = v  BY <1>9, <1>11
  <2>4. \A s \in visitPast'.held : issued'[s] = v => s \in visitPast.held /\ s # t  BY <1>1, <1>3, <1>10, <1>11
  <2>5. \A s \in visitPast'.held : issued'[s] = v => s \in visitPast.held /\ issued[s] = v /\ sessions'[s] = sessions[s]
    BY <2>4, <1>1, <1>9, <1>10
  <2>6. VisKept(v)'  BY <1>1, <1>4, <1>7, <2>1, <2>3, <2>5, KeptSame
  <2>7. QED  BY <2>2, <2>6
<1>12. CASE u = v
  <2>1. /\ rows[v] = Visit!NoToken /\ (t \in keys \/ Has("key", t))
        /\ ~Has("row", v) /\ \A e \in loading : issued[e.token] # v
    BY <1>1, <1>2, <1>4, <1>12 DEF VisAlone
  <2>2. rows'[v] = t  BY <1>1, <1>2, <1>12, <2>1 DEF VisTypes
  <2>3. \A p \in Slots : flight'[p].who # v  BY <1>2, <1>4, <1>6, <1>12 DEF VisAlone
  <2>4. VisAlone(v)'  BY <1>1, <2>1, <2>3, AloneQuiet
  <2>5. t # Visit!NoToken  BY <1>3 DEF Visit!Tokens, Visit!NoToken
  <2>6. \A s \in Visit!Tokens : sessions[s] # v
    <3>1. \A s \in Visit!Tokens : s # Visit!NoToken  BY DEF Visit!Tokens, Visit!NoToken
    <3>2. QED  BY <1>4, <2>1, <3>1 DEF VisKept
  <2>7. \A s \in visitPast.held : issued[s] # v
    <3>1. \A s \in Visit!Tokens : s # Visit!NoToken  BY DEF Visit!Tokens, Visit!NoToken
    <3>2. QED  BY <1>4, <1>10, <2>1, <3>1 DEF VisKept
  <2>8. \A s \in Visit!Tokens : sessions'[s] = v => rows'[v] = s /\ ~Has("row", v)'
    BY <1>7, <1>9, <2>1, <2>2, <2>6
  <2>9. \A s \in visitPast'.held : issued'[s] = v => rows'[v] = s /\ ~Has("row", v)' /\ sessions'[s] = v
    BY <1>1, <1>7, <1>9, <1>10, <1>12, <2>1, <2>2, <2>7
  <2>10. \A a \in Articles : rows'[v] # Visit!NoToken /\ ~Has("row", v)'  BY <1>7, <2>1, <2>2, <2>5
  <2>11. rows'[v] \in keys' \/ \E w \in sends' : w.what = "key" /\ w.of = rows'[v]
    BY <1>1, <2>1, <2>2 DEF Has
  <2>12. VisKept(v)'  BY <2>8, <2>9, <2>10, <2>11 DEF VisKept, Has
  <2>13. QED  BY <2>4, <2>12
<1>13. QED  BY <1>11, <1>12

LEMMA CalmLogOut ==
  ASSUME VisTypes, VisMade, VisCalm, NoneAssumption, NEW t \in Visit!Tokens, Visit!LogOut(t),
         NEW v \in Visitors, v \notin visitPast'.crossed
  PROVE  VisAlone(v)' /\ VisKept(v)'
<1>1. /\ sessions' = [sessions EXCEPT ![t] = None]
      /\ visitPast'.held = visitPast.held \ {t} /\ visitPast'.crossed = visitPast.crossed
      /\ UNCHANGED <<rows, keys, favs, flight, issued, sends, loading>>
  BY LogOutDoes
<1>2. VisAlone(v) /\ VisKept(v)  BY <1>1, CalmWas
<1>3. \A x, o : Has(x, o)' <=> Has(x, o)  BY <1>1 DEF Has
<1>4. \A w \in sends' : Visit!Owner(w)' = Visit!Owner(w)  BY <1>1, OwnerSame
<1>5. VisAlone(v)'  BY <1>1, <1>2, <1>3, <1>4, AloneSame
<1>6. sessions'[t] = None /\ \A s \in Visit!Tokens : s # t => sessions'[s] = sessions[s]  BY <1>1 DEF VisTypes
<1>7. \A s \in Visit!Tokens : sessions'[s] = v => sessions[s] = v  BY <1>6 DEF NoneAssumption
<1>8. \A s \in visitPast'.held : s \in visitPast.held /\ sessions'[s] = sessions[s]  BY <1>1, <1>6, PastTyped
<1>9. VisKept(v)'  BY <1>1, <1>2, <1>3, <1>7, <1>8, KeptSame
<1>10. QED  BY <1>5, <1>9

LEMMA CalmForget ==
  ASSUME VisTypes, VisMade, VisCalm, NoneAssumption, NEW t \in Visit!Tokens, Visit!Forget(t),
         NEW v \in Visitors, v \notin visitPast'.crossed
  PROVE  VisAlone(v)' /\ VisKept(v)'
<1>1. PICK u \in Visitors : u = sessions[t]  BY ForgetDoes
<1>2. /\ sends' = sends \union [what : {"row", "favs"}, of : {u}]
      /\ sessions' = [sessions EXCEPT ![t] = None]
      /\ visitPast'.held = visitPast.held \ {t} /\ visitPast'.crossed = Visit!Crossing(u)
      /\ UNCHANGED <<rows, keys, favs, flight, issued, loading>>
  BY <1>1, ForgetDoes
<1>3. v \notin visitPast.crossed  BY <1>2, CrossingIs
<1>4. VisAlone(v) /\ VisKept(v)  BY <1>3, CalmWas
<1>5. \A w \in sends' : w \in sends \/ (w.what \in {"row", "favs"} /\ w.of = u)  BY <1>2
<1>6. \A x, o : Has(x, o) => Has(x, o)'  BY <1>2 DEF Has
<1>7. \A w \in sends : Visit!Owner(w)' = Visit!Owner(w)  BY <1>2, OwnerSame
<1>8. sessions'[t] = None /\ \A s \in Visit!Tokens : s # t => sessions'[s] = sessions[s]  BY <1>2 DEF VisTypes
<1>9. \A s \in Visit!Tokens : sessions'[s] = v => sessions[s] = v  BY <1>8 DEF NoneAssumption
<1>10. \A s \in visitPast'.held : s \in visitPast.held /\ s # t /\ sessions'[s] = sessions[s]  BY <1>2, <1>8, PastTyped
<1>11. CASE u # v
  <2>1. \A w \in sends' : w \notin sends => Visit!Owner(w)' = u  BY <1>5 DEF Visit!Owner
  <2>2. \A w \in sends' : Visit!Owner(w)' = v => w \in sends /\ Visit!Owner(w) = v  BY <1>7, <1>11, <2>1
  <2>3. Has("row", v)' => Has("row", v)  BY <1>5, <1>11 DEF Has
  <2>4. VisAlone(v)'  BY <1>2, <1>4, <1>6, <2>2, AloneSame
  <2>5. \A a \in Articles : favs'[a] = v => favs[a] = v /\ (Has("favs", v) => Has("favs", v)')  BY <1>2, <1>6
  <2>6. VisKept(v)'  BY <1>2, <1>4, <1>6, <1>9, <1>10, <2>3, <2>5, KeptSame
  <2>7. QED  BY <2>4, <2>6
<1>12. CASE u = v
  <2>1. Quiet(v)  BY <1>2, <1>12, CrossingIs
  <2>2. VisAlone(v)'  BY <1>2, <2>1, AloneQuiet DEF Quiet
  <2>3. rows[v] = t  BY <1>1, <1>4, <1>12 DEF VisKept
  <2>4. \A s \in Visit!Tokens : sessions'[s] # v  BY <1>4, <1>8, <1>9, <2>3 DEF VisKept, NoneAssumption
  <2>5. \A s \in visitPast'.held : issued'[s] # v  BY <1>2, <1>4, <1>10, <2>3 DEF VisKept
  <2>6. Has("favs", v)'
    <3>1. [what |-> "favs", of |-> u] \in sends'  BY <1>2
    <3>2. QED  BY <3>1, <1>12 DEF Has
  <2>7. rows'[v] # Visit!NoToken => rows'[v] \in keys' \/ \E w \in sends' : w.what = "key" /\ w.of = rows'[v]
    <3>1. rows[v] # Visit!NoToken => rows[v] \in keys \/ Has("key", rows[v])  BY <1>4 DEF VisKept
    <3>2. QED  BY <1>2, <3>1 DEF Has
  <2>8. VisKept(v)'  BY <2>4, <2>5, <2>6, <2>7 DEF VisKept, Has
  <2>9. QED  BY <2>2, <2>8
<1>13. QED  BY <1>11, <1>12

LEMMA CalmFav ==
  ASSUME VisTypes, VisMade, VisCalm, NoneAssumption, NEW r \in Slots, Visit!InsertFav(r) \/ Visit!RemoveFav(r),
         NEW v \in Visitors, v \notin visitPast'.crossed
  PROVE  VisAlone(v)' /\ VisKept(v)'
<1>1. /\ Moved(r, Visit!Idle) /\ UNCHANGED <<rows, keys, sessions, issued, sends, loading, visitPast>>
      /\ \/ /\ flight[r].step = "fav"
            /\ favs' = [favs EXCEPT ![flight[r].article] = IF @ = None THEN flight[r].who ELSE @]
         \/ favs' = [favs EXCEPT ![flight[r].article] = None]
  BY FavDone
<1>2. VisAlone(v) /\ VisKept(v)  BY <1>1, CalmWas
<1>3. flight'[r] = Visit!Idle /\ \A p \in Slots : p # r => flight'[p] = flight[p]  BY <1>1, Flights
<1>4. \A p \in Slots : flight'[p].who = v => flight'[p] = flight[p]  BY <1>3, IdleRequest DEF NoneAssumption
<1>5. \A x, o : Has(x, o)' <=> Has(x, o)  BY <1>1 DEF Has
<1>6. \A w \in sends' : Visit!Owner(w)' = Visit!Owner(w)  BY <1>1, OwnerSame
<1>7. VisAlone(v)'  BY <1>1, <1>2, <1>4, <1>5, <1>6, AloneSame
<1>8. \A a \in Articles : favs'[a] = v => favs[a] = v \/ (rows[v] # Visit!NoToken /\ ~Has("row", v))
  <2> SUFFICES ASSUME NEW a \in Articles, favs'[a] = v, favs[a] # v PROVE rows[v] # Visit!NoToken /\ ~Has("row", v)
    OBVIOUS
  <2>1. v # None  BY DEF NoneAssumption
  <2>2. flight[r].step = "fav" /\ flight[r].who = v
    <3>1. CASE favs' = [favs EXCEPT ![flight[r].article] = None]  BY <2>1, <3>1 DEF VisTypes
    <3>2. CASE flight[r].step = "fav" /\ favs' = [favs EXCEPT ![flight[r].article] = IF @ = None THEN flight[r].who ELSE @]
      BY <2>1, <3>2 DEF VisTypes
    <3>3. QED  BY <1>1, <3>1, <3>2
  <2>3. QED  BY <1>2, <2>2 DEF VisAlone
<1>9. Has("favs", v)' <=> Has("favs", v)  BY <1>5
<1>10. Has("row", v)' <=> Has("row", v)  BY <1>5
<1>11. VisKept(v)'  BY <1>1, <1>2, <1>5, <1>8, <1>9, <1>10, KeptSame
<1>12. QED  BY <1>7, <1>11

LEMMA CalmDeliver ==
  ASSUME VisTypes, VisMade, VisCalm, NoneAssumption, NEW w \in sends, Visit!Deliver(w),
         NEW v \in Visitors, v \notin visitPast'.crossed
  PROVE  VisAlone(v)' /\ VisKept(v)'
<1>1. /\ keys' = (IF w.what = "key" THEN keys \union {w.of} ELSE keys)
      /\ rows' = (IF w.what = "row" THEN [rows EXCEPT ![w.of] = Visit!NoToken] ELSE rows)
      /\ favs' = (IF w.what = "favs" THEN [a \in Articles |-> IF favs[a] = w.of THEN None ELSE favs[a]] ELSE favs)
      /\ sends' = sends \ {w} /\ UNCHANGED <<sessions, flight, issued, loading, visitPast>>
  BY DEF Visit!Deliver
<1>2. VisAlone(v) /\ VisKept(v)  BY <1>1, CalmWas
<1>3. \A x, o : Has(x, o)' => Has(x, o)  BY <1>1 DEF Has
<1>4. \A x, o : Has(x, o) => Has(x, o)' \/ (x = w.what /\ o = w.of)  BY <1>1 DEF Has
<1>5. \A z \in sends' : z \in sends /\ Visit!Owner(z)' = Visit!Owner(z)  BY <1>1, OwnerSame
<1>6. keys \subseteq keys' /\ \A t : Has("key", t) => Has("key", t)' \/ t \in keys'  BY <1>1, <1>4
<1>7. CASE ~(w.what = "row" /\ w.of = v)
  <2>1. rows'[v] = rows[v]  BY <1>1, <1>7 DEF VisTypes
  <2>2. VisAlone(v)'  BY <1>1, <1>2, <1>5, <1>6, <2>1, AloneSame
  <2>3. \A a \in Articles : favs'[a] = v => favs[a] = v /\ (Has("favs", v) => Has("favs", v)')
    <3>1. CASE w.what = "favs" /\ w.of = v  BY <1>1, <3>1 DEF NoneAssumption
    <3>2. CASE ~(w.what = "favs" /\ w.of = v)
      <4>1. Has("favs", v) => Has("favs", v)'  BY <1>4, <3>2
      <4>2. \A a \in Articles : favs'[a] = v => favs[a] = v  BY <1>1 DEF NoneAssumption
      <4>3. QED  BY <4>1, <4>2
    <3>3. QED  BY <3>1, <3>2
  <2>4. Has("row", v)' => Has("row", v)  BY <1>3
  <2>5. VisKept(v)'  BY <1>1, <1>2, <1>6, <2>1, <2>3, <2>4, KeptSame
  <2>6. QED  BY <2>2, <2>5
<1>8. CASE w.what = "row" /\ w.of = v
  <2>1. Has("row", v)  BY <1>8 DEF Has
  <2>2. \A p \in Slots : flight'[p].who # v  BY <1>1, <1>2, <2>1 DEF VisAlone
  <2>3. \A e \in loading' : issued'[e.token] # v
    <3>1. Visit!Owner(w) = v  BY <1>8 DEF Visit!Owner
    <3>2. QED  BY <1>1, <1>2, <3>1 DEF VisAlone
  <2>4. VisAlone(v)'  BY <2>2, <2>3, AloneQuiet
  <2>5. rows'[v] = Visit!NoToken  BY <1>1, <1>8 DEF VisTypes
  <2>6. \A t \in Visit!Tokens : sessions'[t] # v  BY <1>1, <1>2, <2>1 DEF VisKept
  <2>7. \A t \in visitPast'.held : issued'[t] # v  BY <1>1, <1>2, <2>1 DEF VisKept
  <2>8. \A a \in Articles : favs'[a] = v => Has("favs", v)'
    <3>1. \A a \in Articles : favs[a] = v => Has("favs", v)  BY <1>2, <2>1 DEF VisKept
    <3>2. Has("favs", v) => Has("favs", v)'  BY <1>4, <1>8
    <3>3. favs' = favs  BY <1>1, <1>8
    <3>4. QED  BY <3>1, <3>2, <3>3
  <2>9. VisKept(v)'  BY <2>5, <2>6, <2>7, <2>8 DEF VisKept
  <2>10. QED  BY <2>4, <2>9
<1>9. QED  BY <1>7, <1>8

LEMMA CalmRestart ==
  ASSUME VisTypes, VisMade, VisCalm, NoneAssumption, Visit!Restart,
         NEW v \in Visitors, v \notin visitPast'.crossed
  PROVE  VisAlone(v)' /\ VisKept(v)'
<1>1. /\ sessions' = [t \in Visit!Tokens |-> None] /\ flight' = [r \in Slots |-> Visit!Idle] /\ sends' = {}
      /\ loading' = {[token |-> t, who |-> IF rows[issued[t]] = Visit!NoToken THEN None ELSE issued[t]] : t \in keys}
      /\ visitPast'.held = visitPast.held /\ visitPast.crossed \subseteq visitPast'.crossed
      /\ UNCHANGED <<rows, keys, favs, issued>>
  BY RestartDoes
<1>2. Quiet(v) /\ \A i, j \in 1..Len(issued) : issued[i] = v /\ issued[j] = v => i = j  BY RestartDoes
<1>3. VisAlone(v) /\ VisKept(v)  BY <1>1, CalmWas
<1>4. v # None  BY DEF NoneAssumption
<1>5. \A x, o : ~Has(x, o)'  BY <1>1 DEF Has
<1>6. ~Has("row", v) /\ ~Has("favs", v) /\ (rows[v] # Visit!NoToken => ~Has("key", rows[v]))
  <2>1. \A w \in sends : w.what \in {"row", "favs"} => w.of # v  BY <1>2 DEF Quiet, Visit!Owner
  <2>2. \A w \in sends : w.what = "key" => issued[w.of] # v  BY <1>2 DEF Quiet, Visit!Owner
  <2>3. rows[v] # Visit!NoToken => issued[rows[v]] = v  BY DEF VisMade
  <2>4. QED  BY <2>1, <2>2, <2>3 DEF Has
<1>7. rows[v] # Visit!NoToken => rows[v] \in keys  BY <1>3, <1>6 DEF VisKept
<1>8. \A t \in Visit!Tokens : Made(t) /\ issued[t] = v /\ rows[v] # Visit!NoToken => rows[v] = t
  BY <1>2 DEF VisMade, Made
<1>9. \A e \in loading' : issued'[e.token] = v =>
          IF e.who = None THEN rows'[v] = Visit!NoToken ELSE rows'[v] = e.token
  <2> SUFFICES ASSUME NEW e \in loading', issued'[e.token] = v
               PROVE  IF e.who = None THEN rows'[v] = Visit!NoToken ELSE rows'[v] = e.token
    OBVIOUS
  <2>1. PICK t \in keys : e = [token |-> t, who |-> IF rows[issued[t]] = Visit!NoToken THEN None ELSE issued[t]]  BY <1>1
  <2>2. e.token = t /\ e.who = IF rows[issued[t]] = Visit!NoToken THEN None ELSE issued[t]  BY <2>1
  <2>3. issued[t] = v  BY <1>1, <2>2
  <2>4. t \in Visit!Tokens /\ Made(t)  BY DEF VisTypes, VisMade
  <2>5. CASE rows[v] = Visit!NoToken  BY <1>1, <2>2, <2>3, <2>5
  <2>6. CASE rows[v] # Visit!NoToken  BY <1>1, <1>4, <1>8, <2>2, <2>3, <2>4, <2>6
  <2>7. QED  BY <2>5, <2>6
<1>10. \A p \in Slots : flight'[p].who # v  BY <1>1, <1>4, IdleRequest
<1>11. VisAlone(v)'  BY <1>1, <1>9, <1>10 DEF VisAlone
<1>12. \A t \in Visit!Tokens : sessions'[t] # v  BY <1>1, <1>4
<1>13. \A t \in visitPast'.held : issued'[t] = v =>
          rows'[v] = t /\ ~Has("row", v)' /\ \E e \in loading' : e.token = t /\ e.who = v
  <2> SUFFICES ASSUME NEW t \in visitPast.held, issued[t] = v
               PROVE  rows[v] = t /\ \E e \in loading' : e.token = t /\ e.who = v
    BY <1>1, <1>5
  <2>1. rows[v] = t  BY <1>3 DEF VisKept
  <2>2. rows[v] # Visit!NoToken  BY <2>1, PastTyped DEF Visit!Tokens, Visit!NoToken
  <2>3. t \in keys  BY <1>7, <2>1, <2>2
  <2>4. [token |-> t, who |-> IF rows[issued[t]] = Visit!NoToken THEN None ELSE issued[t]] \in loading'  BY <1>1, <2>3
  <2>5. [token |-> t, who |-> v] \in loading'
    <3>1. (IF rows[issued[t]] = Visit!NoToken THEN None ELSE issued[t]) = v  BY <2>2
    <3>2. QED  BY <2>4, <3>1
  <2>6. QED  BY <2>1, <2>5
<1>14. \A a \in Articles : favs'[a] = v => rows'[v] # Visit!NoToken /\ ~Has("row", v)'
  BY <1>1, <1>3, <1>5, <1>6 DEF VisKept
<1>15. VisKept(v)'  BY <1>1, <1>7, <1>12, <1>13, <1>14 DEF VisKept
<1>16. QED  BY <1>11, <1>15

LEMMA CalmLoad ==
  ASSUME VisTypes, VisMade, VisCalm, NoneAssumption, NEW e \in loading, Visit!Load(e),
         NEW v \in Visitors, v \notin visitPast'.crossed
  PROVE  VisAlone(v)' /\ VisKept(v)'
<1>1. /\ sessions' = [sessions EXCEPT ![e.token] = e.who] /\ loading' = loading \ {e}
      /\ UNCHANGED <<rows, keys, favs, flight, issued, sends, visitPast>>
  BY DEF Visit!Load
<1>2. VisAlone(v) /\ VisKept(v)  BY <1>1, CalmWas
<1>3. \A x, o : Has(x, o)' <=> Has(x, o)  BY <1>1 DEF Has
<1>4. \A w \in sends' : Visit!Owner(w)' = Visit!Owner(w)  BY <1>1, OwnerSame
<1>5. VisAlone(v)'  BY <1>1, <1>2, <1>3, <1>4, AloneSame
<1>6. PICK t : t = e.token  OBVIOUS
<1>7. t \in Visit!Tokens /\ e.who \in {None, issued[t]}  BY <1>6 DEF VisTypes, VisMade
<1>8. sessions'[t] = e.who /\ \A s \in Visit!Tokens : s # t => sessions'[s] = sessions[s]  BY <1>1, <1>6, <1>7 DEF VisTypes
<1>9. v # None  BY DEF NoneAssumption
<1>10. CASE issued[t] # v
  <2>1. \A s \in Visit!Tokens : sessions'[s] = v => sessions[s] = v  BY <1>7, <1>8, <1>9, <1>10
  <2>2. \A s \in visitPast'.held : issued'[s] = v => s # t /\ s \in visitPast.held /\ issued[s] = v /\ sessions'[s] = sessions[s]
    BY <1>1, <1>8, <1>10, PastTyped
  <2>3. \A s \in visitPast'.held : issued'[s] = v => \A f \in loading : f.token = s => f \in loading'
    BY <1>1, <1>6, <2>2
  <2>4. VisKept(v)'  BY <1>1, <1>2, <1>3, <2>1, <2>2, <2>3, KeptSame
  <2>5. QED  BY <1>5, <2>4
<1>11. CASE issued[t] = v
  <2>1. IF e.who = None THEN rows[v] = Visit!NoToken ELSE rows[v] = t  BY <1>2, <1>6, <1>11 DEF VisAlone
  <2>2. ~Has("row", v)
    <3> SUFFICES ASSUME NEW w \in sends, w.what = "row", w.of = v PROVE FALSE  BY DEF Has
    <3>1. Visit!Owner(w) = v  BY DEF Visit!Owner
    <3>2. QED  BY <1>2, <1>6, <1>11, <3>1 DEF VisAlone
  <2>3. \A s \in Visit!Tokens : s # Visit!NoToken  BY DEF Visit!Tokens, Visit!NoToken
  <2>4. \A s \in Visit!Tokens : sessions'[s] = v => rows'[v] = s /\ ~Has("row", v)'
    BY <1>1, <1>2, <1>3, <1>7, <1>8, <1>9, <2>1, <2>2 DEF VisKept
  <2>5. \A s \in visitPast'.held : issued'[s] = v => rows'[v] = s /\ ~Has("row", v)' /\ sessions'[s] = v
    <3> SUFFICES ASSUME NEW s \in visitPast.held, issued[s] = v PROVE rows[v] = s /\ sessions'[s] = v
      BY <1>1, <1>3, <2>2
    <3>1. rows[v] = s /\ s \in Visit!Tokens  BY <1>2, PastTyped DEF VisKept
    <3>2. rows[v] # Visit!NoToken  BY <2>3, <3>1
    <3>3. s = t /\ e.who = v  BY <1>7, <1>9, <1>11, <2>1, <3>1, <3>2
    <3>4. QED  BY <1>8, <3>1, <3>3
  <2>6. \A a \in Articles : favs'[a] = v => Has("favs", v)' \/ (rows'[v] # Visit!NoToken /\ ~Has("row", v)')
    BY <1>1, <1>2, <1>3 DEF VisKept
  <2>7. rows'[v] # Visit!NoToken => rows'[v] \in keys' \/ \E w \in sends' : w.what = "key" /\ w.of = rows'[v]
    BY <1>1, <1>2 DEF VisKept, Has
  <2>8. VisKept(v)'  BY <2>4, <2>5, <2>6, <2>7 DEF VisKept, Has
  <2>9. QED  BY <1>5, <2>8
<1>12. QED  BY <1>10, <1>11

LEMMA CalmRefuse ==
  ASSUME VisTypes, VisMade, VisCalm, NoneAssumption, NEW r \in Slots, Visit!Refuse(r),
         NEW v \in Visitors, v \notin visitPast'.crossed
  PROVE  VisAlone(v)' /\ VisKept(v)'
<1>1. Moved(r, Visit!Idle) /\ UNCHANGED <<rows, keys, favs, sessions, issued, sends, loading, visitPast>>
  BY RefuseDoes
<1>2. VisAlone(v) /\ VisKept(v)  BY <1>1, CalmWas
<1>3. flight'[r] = Visit!Idle /\ \A p \in Slots : p # r => flight'[p] = flight[p]  BY <1>1, Flights
<1>4. \A p \in Slots : flight'[p].who = v => flight'[p] = flight[p]  BY <1>3, IdleRequest DEF NoneAssumption
<1>5. \A x, o : Has(x, o)' <=> Has(x, o)  BY <1>1 DEF Has
<1>6. \A w \in sends' : Visit!Owner(w)' = Visit!Owner(w)  BY <1>1, OwnerSame
<1>7. VisAlone(v)'  BY <1>1, <1>2, <1>4, <1>5, <1>6, AloneSame
<1>8. VisKept(v)'  BY <1>1, <1>2, KeptStays
<1>9. QED  BY <1>7, <1>8

LEMMA VisCalmKept ==
  ASSUME VisTypes, VisMade, VisCalm, NoneAssumption, TokensAssumption, Visit!Next PROVE VisCalm'
<1> SUFFICES ASSUME NEW v \in Visitors, v \notin visitPast'.crossed PROVE VisAlone(v)' /\ VisKept(v)'  BY DEF VisCalm
<1>1. ASSUME NEW r \in Slots, NEW u \in Visitors, Visit!Introduce(r, u) PROVE VisAlone(v)' /\ VisKept(v)'
  <2> DEFINE q == [step |-> "find", who |-> u, token |-> Visit!NoToken, article |-> None]
  <2>1. /\ Moved(r, q) /\ flight[r] = Visit!Idle /\ visitPast'.crossed = Visit!Crossing(u) /\ visitPast'.held = visitPast.held
        /\ UNCHANGED <<rows, keys, favs, sessions, issued, sends, loading>>
    BY <1>1, IntroduceDoes
  <2>2. q.who = u /\ q.step = "find"  OBVIOUS
  <2> HIDE DEF q
  <2>3. QED  BY <2>1, <2>2, CalmBegins
<1>2. ASSUME NEW r \in Slots, NEW t \in Visit!Tokens, Visit!Favour(r, t) PROVE VisAlone(v)' /\ VisKept(v)'
  <2>1. PICK u \in Visitors : u = sessions[t]  BY <1>2, FavourDoes
  <2>2. PICK a \in Articles, step \in {"fav", "unfav"} :
               Moved(r, [step |-> step, who |-> u, token |-> t, article |-> a])
    BY <1>2, <2>1, FavourDoes
  <2> DEFINE q == [step |-> step, who |-> u, token |-> t, article |-> a]
  <2>3. /\ flight[r] = Visit!Idle /\ visitPast'.crossed = Visit!Crossing(u) /\ visitPast'.held = visitPast.held
        /\ UNCHANGED <<rows, keys, favs, sessions, issued, sends, loading>>
    BY <1>2, <2>1, FavourDoes
  <2>4. q.who = u /\ q.step \in {"find", "fav", "unfav"} /\ Moved(r, q)  BY <2>2
  <2> HIDE DEF q
  <2>5. QED  BY <2>1, <2>3, <2>4, CalmBegins
<1>3. ASSUME NEW r \in Slots, Visit!Find(r) \/ Visit!Found(r) \/ Visit!FindNone(r) \/ Visit!Insert(r)
                              \/ Visit!InsertFav(r) \/ Visit!RemoveFav(r) \/ Visit!Refuse(r)
      PROVE  VisAlone(v)' /\ VisKept(v)'
  BY <1>3, CalmFind, CalmFound, CalmFindNone, CalmInsert, CalmFav, CalmRefuse
<1>4. ASSUME NEW t \in Visit!Tokens, Visit!LogOut(t) \/ Visit!Forget(t) PROVE VisAlone(v)' /\ VisKept(v)'
  BY <1>4, CalmLogOut, CalmForget
<1>5. ASSUME NEW w \in sends, Visit!Deliver(w) PROVE VisAlone(v)' /\ VisKept(v)'  BY <1>5, CalmDeliver
<1>6. ASSUME Visit!Restart PROVE VisAlone(v)' /\ VisKept(v)'  BY <1>6, CalmRestart
<1>7. ASSUME NEW e \in loading, Visit!Load(e) PROVE VisAlone(v)' /\ VisKept(v)'  BY <1>7, CalmLoad
<1>8. QED  BY <1>1, <1>2, <1>3, <1>4, <1>5, <1>6, <1>7 DEF Visit!Next

-----------------------------------------------------------------------------
(* The janitor and the data server among the others *)

LEMMA ServersMove == ASSUME [Next]_vars
  PROVE  (CAIJ!Next \/ UNCHANGED janitor) /\ (Visit!Next \/ UNCHANGED visitors)
BY DEF Next, vars, services

LEMMA VisShows == ASSUME VisInv, NoneAssumption PROVE Visit!StaysIn /\ Visit!ErasedGone
<1>1. VisTypes /\ VisMade /\ VisCalm  BY DEF VisInv
<1>2. ASSUME NEW t \in visitPast.held, Visit!Loaded(issued[t]) = {}, issued[t] \notin visitPast.crossed
      PROVE  sessions[t] = issued[t]
  <2>1. t \in 1..Len(issued)  BY <1>1 DEF VisMade, Made
  <2>2. issued[t] \in Visitors  BY <1>1, <2>1 DEF VisTypes
  <2>3. VisKept(issued[t])  BY <1>1, <1>2, <2>2, CalmWas
  <2>4. ~\E e \in loading : e.token = t  BY <1>2 DEF Visit!Loaded
  <2>5. QED  BY <2>3, <2>4 DEF VisKept
<1>3. Visit!StaysIn  BY <1>2 DEF Visit!StaysIn
<1>4. ASSUME NEW v \in Visitors, rows[v] = Visit!NoToken, ~Visit!Busy(v), v \notin visitPast.crossed
      PROVE  (\A t \in Visit!Tokens : sessions[t] # v) /\ (\A a \in Articles : favs[a] # v)
  <2>1. VisKept(v)  BY <1>1, <1>4, CalmWas
  <2>2. \A t \in Visit!Tokens : t # Visit!NoToken  BY DEF Visit!Tokens, Visit!NoToken
  <2>3. ~Has("favs", v)
    <3>1. \A w \in sends : Visit!Owner(w) # v  BY <1>4 DEF Visit!Busy, Visit!OnWire
    <3>2. \A w \in sends : w.what = "favs" => Visit!Owner(w) = w.of  BY DEF Visit!Owner
    <3>3. QED  BY <3>1, <3>2 DEF Has
  <2>4. QED  BY <1>4, <2>1, <2>2, <2>3 DEF VisKept
<1>5. Visit!ErasedGone  BY <1>4 DEF Visit!ErasedGone
<1>6. QED  BY <1>3, <1>5

LEMMA JanAlways == Spec => []JanInv
<1>1. Init => JanInv  BY JanInit DEF Init
<1>2. JanInv /\ [Next]_vars => JanInv'  BY ServersMove, JanStepKept, JanStays
<1>3. QED  BY <1>1, <1>2, PTL DEF Spec

LEMMA VisAlways == Spec => []VisInv
<1>1. Init => VisInv
  <2> SUFFICES ASSUME Init PROVE VisInv  OBVIOUS
  <2>1. Visit!Init  BY DEF Init
  <2>2. QED  BY <2>1, VisTypesInit, VisMadeInit, CalmInit, NoneAssumption, TokensAssumption DEF VisInv
<1>2. VisInv /\ [Next]_vars => VisInv'
  <2> SUFFICES ASSUME VisInv, [Next]_vars PROVE VisInv'  OBVIOUS
  <2>1. VisTypes /\ VisMade /\ VisCalm  BY DEF VisInv
  <2>2. CASE Visit!Next
    BY <2>1, <2>2, VisTypesKept, VisMadeKept, VisCalmKept, NoneAssumption, TokensAssumption DEF VisInv
  <2>3. CASE UNCHANGED visitors  BY <2>1, <2>3, VisTypesStays, VisMadeStays, CalmStays DEF VisInv
  <2>4. QED  BY <2>2, <2>3, ServersMove
<1>3. QED  BY <1>1, <1>2, PTL DEF Spec

\* caij/ai.js, dataserver/handlers.js: a loop of the janitor is lost or doubled only by an exception of
\* no task, and a queued task of a module has its job; who has a token of the data server stays logged
\* in, and nothing is left of who had himself erased, unless requests of his crossed.
THEOREM ServersAreKept == Spec => []ServersKept
<1>1. JanInv /\ VisInv => ServersKept
  BY VisShows, NoneAssumption DEF JanInv, ServersKept
<1>2. QED  BY <1>1, JanAlways, VisAlways, PTL

-----------------------------------------------------------------------------
(* A sequence without one of its elements *)

Without(s, i) == SubSeq(s, 1, i - 1) \o SubSeq(s, i + 1, Len(s))

LEMMA WithoutOne == ASSUME NEW S, NEW s \in Seq(S), NEW i \in 1..Len(s)
  PROVE  /\ Without(s, i) \in Seq(S) /\ Len(Without(s, i)) = Len(s) - 1
         /\ \A j \in 1..(Len(s) - 1) : Without(s, i)[j] = IF j < i THEN s[j] ELSE s[j + 1]
<1>1. Len(s) \in Nat /\ \A j \in 1..Len(s) : s[j] \in S  BY LenProperties
<1>2. /\ SubSeq(s, 1, i - 1) \in Seq(S) /\ Len(SubSeq(s, 1, i - 1)) = i - 1
      /\ \A j \in 1..(i - 1) : SubSeq(s, 1, i - 1)[j] = s[j]
  <2>1. \A j \in 1..(i - 1) : s[j] \in S  BY <1>1
  <2>2. 1 \in Int /\ i - 1 \in Int  OBVIOUS
  <2>3. /\ SubSeq(s, 1, i - 1) \in Seq(S)
        /\ Len(SubSeq(s, 1, i - 1)) = IF 1 <= i - 1 THEN i - 1 - 1 + 1 ELSE 0
        /\ \A j \in 1..(i - 1 - 1 + 1) : SubSeq(s, 1, i - 1)[j] = s[1 + j - 1]
    BY <2>1, <2>2, SubSeqProperties
  <2>4. QED  BY <2>3
<1>3. /\ SubSeq(s, i + 1, Len(s)) \in Seq(S) /\ Len(SubSeq(s, i + 1, Len(s))) = Len(s) - i
      /\ \A j \in 1..(Len(s) - i) : SubSeq(s, i + 1, Len(s))[j] = s[i + j]
  <2>1. \A j \in (i + 1)..Len(s) : s[j] \in S  BY <1>1
  <2>2. i + 1 \in Int /\ Len(s) \in Int  BY <1>1
  <2>3. /\ SubSeq(s, i + 1, Len(s)) \in Seq(S)
        /\ Len(SubSeq(s, i + 1, Len(s))) = IF i + 1 <= Len(s) THEN Len(s) - (i + 1) + 1 ELSE 0
        /\ \A j \in 1..(Len(s) - (i + 1) + 1) : SubSeq(s, i + 1, Len(s))[j] = s[i + 1 + j - 1]
    BY <2>1, <2>2, SubSeqProperties
  <2>4. QED  BY <1>1, <2>3
<1>4. PICK f, g : f = SubSeq(s, 1, i - 1) /\ g = SubSeq(s, i + 1, Len(s))  OBVIOUS
<1>5. /\ f \o g \in Seq(S) /\ Len(f \o g) = Len(f) + Len(g)
      /\ \A j \in 1..(Len(f) + Len(g)) : (f \o g)[j] = IF j <= Len(f) THEN f[j] ELSE g[j - Len(f)]
  BY <1>2, <1>3, <1>4, ConcatProperties
<1>6. Without(s, i) = f \o g  BY <1>4 DEF Without
<1>7. \A j \in 1..(Len(s) - 1) : (f \o g)[j] = IF j < i THEN s[j] ELSE s[j + 1]
  <2> TAKE j \in 1..(Len(s) - 1)
  <2>1. Len(f) = i - 1 /\ Len(g) = Len(s) - i  BY <1>2, <1>3, <1>4
  <2>2. j \in 1..(Len(f) + Len(g))  BY <1>1, <2>1
  <2>3. CASE j < i
    <3>1. j \in 1..(i - 1) /\ j <= Len(f)  BY <2>1, <2>3
    <3>2. (f \o g)[j] = f[j]  BY <1>5, <2>2, <3>1
    <3>3. f[j] = s[j]  BY <1>2, <1>4, <3>1
    <3>4. QED  BY <2>3, <3>2, <3>3
  <2>4. CASE ~(j < i)
    <3>1. j - Len(f) \in 1..(Len(s) - i) /\ ~(j <= Len(f)) /\ i + (j - Len(f)) = j + 1  BY <1>1, <2>1, <2>4
    <3>2. (f \o g)[j] = g[j - Len(f)]  BY <1>5, <2>2, <3>1
    <3>3. g[j - Len(f)] = s[i + (j - Len(f))]  BY <1>3, <1>4, <3>1
    <3>4. QED  BY <2>4, <3>1, <3>2, <3>3
  <2>5. QED  BY <2>3, <2>4
<1>8. Len(f \o g) = Len(s) - 1
  <2>1. Len(f) = i - 1 /\ Len(g) = Len(s) - i /\ Len(f \o g) = Len(f) + Len(g)  BY <1>2, <1>3, <1>4, <1>5
  <2>2. QED  BY <1>1, <2>1
<1>9. QED  BY <1>5, <1>6, <1>7, <1>8

LEMMA Lengthened == ASSUME NEW S, NEW s \in Seq(S), NEW e \in S
  PROVE  /\ Append(s, e) \in Seq(S) /\ Len(Append(s, e)) = Len(s) + 1 /\ Append(s, e)[Len(s) + 1] = e
         /\ \A j \in 1..Len(s) : Append(s, e)[j] = s[j]
         /\ Append(s, e) # << >>
BY AppendProperties

LEMMA FunctionSeq == ASSUME NEW S, NEW n \in Nat, NEW f \in [1..n -> S] PROVE f \in Seq(S) /\ Len(f) = n
<1>1. f \in Seq(S)  BY SeqDef
<1>2. Len(f) \in Nat /\ DOMAIN f = 1..Len(f)  BY <1>1, LenProperties
<1>3. 1..n = 1..Len(f)  BY <1>2
<1>4. QED  BY <1>1, <1>2, <1>3

LEMMA EmptyIff == ASSUME NEW S, NEW s \in Seq(S) PROVE Len(s) \in Nat /\ (s = << >> <=> Len(s) = 0) /\ DOMAIN s = 1..Len(s)
BY EmptySeq, LenProperties

-----------------------------------------------------------------------------
(* Hooks *)

HookState == [left : [1..MaxAsync -> Nat], started : SUBSET (1..MaxAsync), done : Nat, thrown : BOOLEAN]

HookTypes ==
    /\ asked \in Seq(Nat) /\ given \in Seq(Nat) /\ Len(given) = Len(asked)
    /\ chain \in [1..MaxAsync -> Hook!Fates] /\ index \in Nat
    /\ state \in HookState

\* the priorities from the one asked for to the one given are taken
HookGiven ==
    \A h \in 1..Len(asked) : /\ asked[h] <= given[h]
                             /\ \A p \in asked[h]..given[h] : p \in Hook!Taken

\* only the last hook started has still to call back, all before it said next, and done is to be called
HookChained ==
    (\A h \in 1..MaxAsync : chain[h] # "twice") =>
        /\ index <= MaxAsync + 1 /\ state.started = {h \in 1..MaxAsync : h <= index}
        /\ \A h \in 1..MaxAsync : h # index => state.left[h] = 0
        /\ \A h \in 1..MaxAsync : h < index => chain[h] = "next"
        /\ \A h \in 1..MaxAsync : state.left[h] = 0 \/ (state.left[h] = 1 /\ chain[h] # "never" /\ state.done = 0)
        /\ index = 0 => state.done = 0
        /\ state.done <= 1 /\ ~state.thrown

HookInv == HookTypes /\ HookGiven /\ Hook!LaterRunsFirst /\ HookChained

\* natural numbers have a smallest one
LEMMA Smallest == ASSUME NEW I \in SUBSET Nat, I # {} PROVE \E x \in I : \A y \in I : x <= y
<1>1. PICK x \in I : \A y \in I : <<y, x>> \notin OpToRel(<, Nat)  BY WFMin, NatLessThanWellFounded, Zenon
<1>2. \A y \in I : ~ (y < x)  BY <1>1, Zenon DEF OpToRel
<1>3. QED  BY <1>2

\* n elements are not more numbers than n, so one of n + 1 in a row is free
LEMMA OneIsFree == ASSUME NEW s \in Seq(Nat), NEW p \in Nat
  PROVE  \E q \in p..(p + Len(s)) : \A h \in 1..Len(s) : s[h] # q
<1>1. PICK n : n = Len(s)  OBVIOUS
<1>2. n \in Nat  BY <1>1, LenProperties
<1> SUFFICES ASSUME \A q \in p..(p + n) : \E h \in 1..n : s[h] = q PROVE FALSE  BY <1>1
<1>3. PICK f : f = [q \in p..(p + n) |-> CHOOSE h \in 1..n : s[h] = q]  OBVIOUS
<1>4. f \in [p..(p + n) -> 1..n] /\ \A q \in p..(p + n) : s[f[q]] = q  BY <1>3
<1>5. IsFiniteSet(p..(p + n)) /\ Cardinality(p..(p + n)) = n + 1  BY <1>2, FS_Interval
<1>6. IsFiniteSet(1..n) /\ Cardinality(1..n) = n  BY <1>2, FS_Interval
<1>7. Cardinality(1..n) < Cardinality(p..(p + n))  BY <1>2, <1>5, <1>6
<1>8. \E x, y \in p..(p + n) : x # y /\ f[x] = f[y]
  <2>1. PICK S, T : S = p..(p + n) /\ T = 1..n  OBVIOUS
  <2>2. IsFiniteSet(S) /\ IsFiniteSet(T) /\ Cardinality(T) < Cardinality(S) /\ f \in [S -> T]  BY <1>4, <1>5, <1>6, <1>7, <2>1
  <2>3. \E x, y \in S : x # y /\ f[x] = f[y]  BY <2>2, FS_PigeonHole
  <2>4. QED  BY <2>1, <2>3
<1>9. QED  BY <1>4, <1>8

\* the search for a priority ends, at the first one which is free
LEMMA FreeIs == ASSUME HookTypes, NEW p \in Nat
  PROVE  /\ Hook!FirstFree(p) \in Nat /\ p <= Hook!FirstFree(p) /\ Hook!FirstFree(p) \notin Hook!Taken
         /\ \A r \in p..(Hook!FirstFree(p) - 1) : r \in Hook!Taken
<1>1. PICK n, I : n = Len(asked) /\ I = {q \in p..(p + n) : q \notin Hook!Taken}  OBVIOUS
<1>2. n \in Nat /\ n = Len(given)  BY <1>1, LenProperties DEF HookTypes
<1>3. \A q : q \in Hook!Taken <=> \E h \in 1..n : given[h] = q  BY <1>1 DEF Hook!Taken, Hook!Hooked
<1>4. I \in SUBSET Nat /\ I # {}
  <2>1. given \in Seq(Nat)  BY DEF HookTypes
  <2>2. \E q \in p..(p + n) : \A h \in 1..n : given[h] # q  BY <1>2, <2>1, OneIsFree
  <2>3. QED  BY <1>1, <1>2, <1>3, <2>2
<1>5. PICK x \in I : \A y \in I : x <= y  BY <1>4, Smallest
<1>6. x \in p..(p + n) /\ x \notin Hook!Taken /\ \A r \in p..(x - 1) : r \in Hook!Taken  BY <1>1, <1>2, <1>5
<1>7. \E q \in p..(p + Len(asked)) : q \notin Hook!Taken /\ \A r \in p..(q - 1) : r \in Hook!Taken  BY <1>1, <1>6
<1>8. PICK m : m = Hook!FirstFree(p)  OBVIOUS
<1>9. m \in p..(p + Len(asked)) /\ m \notin Hook!Taken /\ \A r \in p..(m - 1) : r \in Hook!Taken
  BY <1>7, <1>8 DEF Hook!FirstFree
<1>10. m \in Nat /\ p <= m  BY <1>1, <1>2, <1>9
<1>11. QED  BY <1>8, <1>9, <1>10

LEMMA HookInit == ASSUME Hook!Init, AsyncAssumption PROVE HookInv
<1>1. HookTypes
  <2>1. asked \in Seq(Nat) /\ given \in Seq(Nat) /\ Len(given) = Len(asked) /\ Len(asked) = 0  BY DEF Hook!Init
  <2>2. chain \in [1..MaxAsync -> Hook!Fates] /\ index \in Nat  BY DEF Hook!Init
  <2>3. state \in HookState  BY DEF Hook!Init, HookState
  <2>4. QED  BY <2>1, <2>2, <2>3 DEF HookTypes
<1>2. HookGiven /\ Hook!LaterRunsFirst
  <2>1. Len(asked) = 0  BY DEF Hook!Init
  <2>2. QED  BY <2>1 DEF HookGiven, Hook!LaterRunsFirst, Hook!Hooked
<1>3. HookChained  BY AsyncAssumption DEF Hook!Init, HookChained
<1>4. QED  BY <1>1, <1>2, <1>3 DEF HookInv

LEMMA HookStays == ASSUME HookInv, UNCHANGED hooks PROVE HookInv'
<1>1. asked' = asked /\ given' = given /\ chain' = chain /\ index' = index /\ state' = state  BY DEF hooks
<1>2. HookTypes' /\ HookGiven' /\ HookChained'  BY <1>1 DEF HookInv, HookTypes, HookGiven, HookChained, Hook!Taken, Hook!Hooked
<1>3. Hook!LaterRunsFirst'  BY <1>1 DEF HookInv, Hook!LaterRunsFirst, Hook!Hooked, Hook!RunsBefore
<1>4. QED  BY <1>2, <1>3 DEF HookInv

LEMMA HookBind == ASSUME HookInv, Hook!Bind, PrioritiesAssumption PROVE HookInv'
<1>1. HookTypes /\ HookGiven /\ Hook!LaterRunsFirst /\ HookChained  BY DEF HookInv
<1>2. PICK p \in Priorities : asked' = Append(asked, p) /\ given' = Append(given, Hook!FirstFree(p))  BY DEF Hook!Bind
<1>3. PICK n, m : n = Len(asked) /\ m = Hook!FirstFree(p)  OBVIOUS
<1>4. p \in Nat  BY PrioritiesAssumption
<1>5. /\ m \in Nat /\ p <= m /\ m \notin Hook!Taken /\ \A r \in p..(m - 1) : r \in Hook!Taken
  BY <1>1, <1>3, <1>4, FreeIs
<1>6. n \in Nat /\ n = Len(given) /\ asked \in Seq(Nat) /\ given \in Seq(Nat)  BY <1>1, <1>3, LenProperties DEF HookTypes
<1>7. /\ asked' \in Seq(Nat) /\ Len(asked') = n + 1 /\ asked'[n + 1] = p
      /\ \A h \in 1..n : asked'[h] = asked[h]
  <2>1. PICK a, b : a = asked /\ b = Append(a, p)  OBVIOUS
  <2>2. a \in Seq(Nat) /\ p \in Nat  BY <1>4, <1>6, <2>1
  <2>3. b \in Seq(Nat) /\ Len(b) = Len(a) + 1 /\ b[Len(a) + 1] = p /\ \A h \in 1..Len(a) : b[h] = a[h]
    BY <2>1, <2>2, Lengthened
  <2>4. QED  BY <1>2, <1>3, <2>1, <2>3
<1>8. /\ given' \in Seq(Nat) /\ Len(given') = n + 1 /\ given'[n + 1] = m
      /\ \A h \in 1..n : given'[h] = given[h]
  BY <1>2, <1>3, <1>5, <1>6, Lengthened
<1>9. \A h \in 1..n : asked[h] \in Nat /\ given[h] \in Nat  BY <1>3, <1>6, LenProperties
<1>10. chain' = chain /\ index' = index /\ state' = state  BY DEF Hook!Bind
<1>11. \A q : q \in Hook!Taken <=> \E h \in 1..n : given[h] = q  BY <1>3 DEF Hook!Taken, Hook!Hooked
<1>12. \A q : q \in Hook!Taken' <=> \E h \in 1..(n + 1) : given'[h] = q  BY <1>7 DEF Hook!Taken, Hook!Hooked
<1>13. \A q : q \in Hook!Taken' <=> q \in Hook!Taken \/ q = m
  <2>1. 1..(n + 1) = 1..n \union {n + 1}  BY <1>6
  <2>2. QED  BY <1>8, <1>11, <1>12, <2>1
<1>14. HookTypes'  BY <1>1, <1>7, <1>8, <1>10 DEF HookTypes
<1>15. HookGiven'
  <2> SUFFICES ASSUME NEW h \in 1..(n + 1) PROVE asked'[h] <= given'[h] /\ \A q \in asked'[h]..given'[h] : q \in Hook!Taken'
    BY <1>7 DEF HookGiven
  <2>1. CASE h \in 1..n
    <3>1. asked[h] <= given[h] /\ \A q \in asked[h]..given[h] : q \in Hook!Taken  BY <1>1, <1>3, <2>1 DEF HookGiven
    <3>2. QED  BY <1>7, <1>8, <1>13, <2>1, <3>1
  <2>2. CASE h = n + 1
    <3>1. \A q \in p..m : q \in Hook!Taken \/ q = m  BY <1>4, <1>5
    <3>2. QED  BY <1>5, <1>7, <1>8, <1>13, <2>2, <3>1
  <2>3. QED  BY <1>6, <2>1, <2>2
<1>16. Hook!LaterRunsFirst'
  <2> SUFFICES ASSUME NEW g \in 1..(n + 1), NEW h \in 1..(n + 1), g < h, asked'[h] >= asked'[g] PROVE given'[h] > given'[g]
    BY <1>7 DEF Hook!LaterRunsFirst, Hook!Hooked, Hook!RunsBefore
  <2>1. g \in 1..n /\ asked'[g] = asked[g] /\ given'[g] = given[g]  BY <1>6, <1>7, <1>8
  <2>2. CASE h \in 1..n
    <3>1. given[h] > given[g]  BY <1>1, <1>3, <1>7, <2>1, <2>2 DEF Hook!LaterRunsFirst, Hook!Hooked, Hook!RunsBefore
    <3>2. QED  BY <1>8, <2>1, <2>2, <3>1
  <2>3. CASE h = n + 1
    <3>1. p >= asked[g]  BY <1>7, <2>1, <2>3
    <3>2. \A q \in asked[g]..given[g] : q \in Hook!Taken  BY <1>1, <1>3, <2>1 DEF HookGiven
    <3>3. m \notin asked[g]..given[g]  BY <1>5, <3>2
    <3>4. m > given[g]  BY <1>4, <1>5, <1>9, <2>1, <3>1, <3>3
    <3>5. QED  BY <1>8, <2>1, <2>3, <3>4
  <2>4. h \in 1..n \/ h = n + 1  BY <1>6
  <2>5. QED  BY <2>2, <2>3, <2>4
<1>17. HookChained'  BY <1>1, <1>10 DEF HookChained
<1>18. QED  BY <1>14, <1>15, <1>16, <1>17 DEF HookInv

\* the next hook is started when left have still to call back, none of them if nobody calls back twice
LEMMA HookNext == ASSUME HookInv, AsyncAssumption, NEW left \in [1..MaxAsync -> Nat], Hook!NextHook(left),
                         UNCHANGED <<asked, given, chain>>,
                         (\A h \in 1..MaxAsync : chain[h] # "twice") =>
                             /\ \A h \in 1..MaxAsync : left[h] = 0
                             /\ index <= MaxAsync /\ state.done = 0
                             /\ \A h \in 1..MaxAsync : h = index => chain[h] = "next"
  PROVE  HookInv'
<1>1. HookTypes /\ HookGiven /\ Hook!LaterRunsFirst /\ HookChained  BY DEF HookInv
<1>2. PICK s, i, t, N : s = state /\ i = index + 1 /\ t = state' /\ N = 1..MaxAsync  OBVIOUS
<1>3. /\ s = [left |-> s.left, started |-> s.started, done |-> s.done, thrown |-> s.thrown]
      /\ s.left \in [N -> Nat] /\ s.started \in SUBSET N /\ s.done \in Nat /\ s.thrown \in BOOLEAN
  BY <1>1, <1>2 DEF HookTypes, HookState
<1>4. i \in Nat /\ i > 0 /\ index' = i /\ MaxAsync \in Nat  BY <1>1, <1>2, AsyncAssumption DEF HookTypes, Hook!NextHook
<1>5. CASE i = MaxAsync + 1
  <2>1. t = [left |-> left, started |-> s.started, done |-> s.done + 1, thrown |-> s.thrown]
    <3>1. t = [s EXCEPT !.left = left, !.done = @ + 1]  BY <1>2, <1>5 DEF Hook!NextHook
    <3>2. QED  BY <1>3, <3>1
  <2>2. t \in HookState  BY <1>2, <1>3, <2>1 DEF HookState
  <2>3. HookChained'
    <3> SUFFICES ASSUME \A h \in N : chain[h] # "twice"
                 PROVE  /\ i <= MaxAsync + 1 /\ t.started = {h \in N : h <= i}
                        /\ \A h \in N : h # i => t.left[h] = 0
                        /\ \A h \in N : h < i => chain[h] = "next"
                        /\ \A h \in N : t.left[h] = 0 \/ (t.left[h] = 1 /\ chain[h] # "never" /\ t.done = 0)
                        /\ i = 0 => t.done = 0
                        /\ t.done <= 1 /\ ~t.thrown
      BY <1>2, <1>4 DEF HookChained
    <3>1. /\ s.started = {h \in N : h <= index} /\ \A h \in N : h < index => chain[h] = "next"
          /\ ~s.thrown /\ s.done = 0 /\ \A h \in N : left[h] = 0
          /\ \A h \in N : h = index => chain[h] = "next"
      BY <1>1, <1>2 DEF HookChained
    <3>2. \A h \in N : h \in Nat /\ h <= index  BY <1>1, <1>2, <1>4, <1>5 DEF HookTypes
    <3>3. \A h \in N : chain[h] = "next"
      <4>1. \A h \in N : h < index \/ h = index  BY <1>1, <3>2 DEF HookTypes
      <4>2. QED  BY <3>1, <4>1
    <3>4. t.started = {h \in N : h <= i}  BY <1>2, <1>4, <1>5, <2>1, <3>1, <3>2
    <3>5. QED  BY <1>4, <1>5, <2>1, <3>1, <3>3, <3>4
  <2>4. QED  BY <1>1, <1>2, <1>4, <2>2, <2>3 DEF HookInv, HookTypes, HookGiven, Hook!LaterRunsFirst, Hook!Taken, Hook!Hooked, Hook!RunsBefore
<1>6. CASE i > MaxAsync + 1
  <2>1. t = [left |-> left, started |-> s.started, done |-> s.done, thrown |-> TRUE]
    <3>1. index + 1 # MaxAsync + 1 /\ index + 1 > MaxAsync + 1  BY <1>2, <1>4, <1>6
    <3>2. t = [s EXCEPT !.left = left, !.thrown = TRUE]  BY <1>2, <3>1, Zenon DEF Hook!NextHook
    <3>3. QED  BY <1>3, <3>2
  <2>2. t \in HookState  BY <1>2, <1>3, <2>1 DEF HookState
  <2>3. \E h \in N : chain[h] = "twice"  BY <1>1, <1>2, <1>4, <1>6 DEF HookTypes
  <2>4. HookChained'  BY <1>2, <2>3 DEF HookChained
  <2>5. QED  BY <1>1, <1>2, <1>4, <2>2, <2>4 DEF HookInv, HookTypes, HookGiven, Hook!LaterRunsFirst, Hook!Taken, Hook!Hooked, Hook!RunsBefore
<1>7. CASE i <= MaxAsync
  <2>1. PICK k : k = CASE chain[i] = "twice" -> 2 [] chain[i] = "never" -> 0 [] OTHER -> 1  OBVIOUS
  <2>2. i \in N  BY <1>2, <1>4, <1>7
  <2>3. t = [left |-> [left EXCEPT ![i] = k], started |-> s.started \union {i}, done |-> s.done, thrown |-> s.thrown]
    <3>1. index + 1 # MaxAsync + 1 /\ ~(index + 1 > MaxAsync + 1)  BY <1>2, <1>4, <1>7
    <3>2. t = [s EXCEPT !.started = @ \union {i}, !.left = [left EXCEPT ![i] = k]]
      BY <1>2, <2>1, <3>1 DEF Hook!NextHook
    <3>3. QED  BY <1>3, <3>2
  <2>4. k \in Nat /\ (chain[i] # "twice" => k = 0 \/ (k = 1 /\ chain[i] # "never"))  BY <2>1
  <2>5. [left EXCEPT ![i] = k] \in [N -> Nat]  BY <1>2, <2>4
  <2>6. t \in HookState  BY <1>2, <1>3, <2>2, <2>3, <2>5 DEF HookState
  <2>7. HookChained'
    <3> SUFFICES ASSUME \A h \in N : chain[h] # "twice"
                 PROVE  /\ i <= MaxAsync + 1 /\ t.started = {h \in N : h <= i}
                        /\ \A h \in N : h # i => t.left[h] = 0
                        /\ \A h \in N : h < i => chain[h] = "next"
                        /\ \A h \in N : t.left[h] = 0 \/ (t.left[h] = 1 /\ chain[h] # "never" /\ t.done = 0)
                        /\ i = 0 => t.done = 0
                        /\ t.done <= 1 /\ ~t.thrown
      BY <1>2, <1>4 DEF HookChained
    <3>1. /\ s.started = {h \in N : h <= index} /\ \A h \in N : h < index => chain[h] = "next"
          /\ ~s.thrown /\ s.done = 0 /\ \A h \in N : left[h] = 0
          /\ \A h \in N : h = index => chain[h] = "next"
      BY <1>1, <1>2 DEF HookChained
    <3>2. index \in Nat /\ \A h \in N : h \in Nat /\ (h <= i <=> h <= index \/ h = i) /\ (h < i <=> h < index \/ h = index)
      BY <1>1, <1>2, <1>4 DEF HookTypes
    <3>3. t.started = {h \in N : h <= i}  BY <2>2, <2>3, <3>1, <3>2
    <3>4. \A h \in N : h < i => chain[h] = "next"  BY <3>1, <3>2
    <3>5. \A h \in N : t.left[h] = IF h = i THEN k ELSE 0  BY <1>2, <2>2, <2>3, <3>1
    <3>6. chain[i] # "twice"  BY <2>2
    <3>7. t.done = 0 /\ ~t.thrown  BY <2>3, <3>1
    <3>8. QED  BY <1>4, <1>7, <2>4, <3>3, <3>4, <3>5, <3>6, <3>7
  <2>8. QED  BY <1>1, <1>2, <1>4, <2>6, <2>7 DEF HookInv, HookTypes, HookGiven, Hook!LaterRunsFirst, Hook!Taken, Hook!Hooked, Hook!RunsBefore
<1>8. QED  BY <1>4, <1>5, <1>6, <1>7

LEMMA HookFire == ASSUME HookInv, AsyncAssumption, Hook!Fire PROVE HookInv'
<1>1. HookTypes /\ HookChained /\ index = 0 /\ Hook!NextHook(state.left) /\ UNCHANGED <<asked, given, chain>>  BY DEF HookInv, Hook!Fire
<1>2. state.left \in [1..MaxAsync -> Nat]  BY <1>1 DEF HookTypes, HookState
<1>3. ASSUME \A h \in 1..MaxAsync : chain[h] # "twice"
      PROVE  /\ \A h \in 1..MaxAsync : state.left[h] = 0
             /\ index <= MaxAsync /\ state.done = 0
             /\ \A h \in 1..MaxAsync : h = index => chain[h] = "next"
  <2>1. /\ \A h \in 1..MaxAsync : h # index => state.left[h] = 0
        /\ index = 0 => state.done = 0
    BY <1>1, <1>3 DEF HookChained
  <2>2. QED  BY <1>1, <2>1, AsyncAssumption
<1>4. QED  BY <1>1, <1>2, <1>3, HookNext

LEMMA HookCallBack == ASSUME HookInv, AsyncAssumption, NEW c \in 1..MaxAsync, Hook!CallBack(c) PROVE HookInv'
<1>1. HookTypes /\ HookGiven /\ Hook!LaterRunsFirst /\ HookChained  BY DEF HookInv
<1>2. UNCHANGED <<asked, given, chain>> /\ state.left[c] > 0  BY DEF Hook!CallBack
<1>3. PICK s, left, N : s = state /\ left = [state.left EXCEPT ![c] = @ - 1] /\ N = 1..MaxAsync  OBVIOUS
<1>4. /\ s = [left |-> s.left, started |-> s.started, done |-> s.done, thrown |-> s.thrown]
      /\ s.left \in [N -> Nat] /\ s.started \in SUBSET N /\ s.done \in Nat /\ s.thrown \in BOOLEAN
  BY <1>1, <1>3 DEF HookTypes, HookState
<1>5. left \in [N -> Nat] /\ \A h \in N : left[h] = IF h = c THEN s.left[c] - 1 ELSE s.left[h]  BY <1>2, <1>3, <1>4
<1>6. index \in Nat /\ MaxAsync \in Nat  BY <1>1, AsyncAssumption DEF HookTypes
<1>7. ASSUME \A h \in N : chain[h] # "twice"
      PROVE  /\ c = index /\ s.done = 0 /\ chain[c] # "never" /\ \A h \in N : left[h] = 0
             /\ s.started = {h \in N : h <= index} /\ (\A h \in N : h < index => chain[h] = "next") /\ ~s.thrown
  <2>1. /\ \A h \in N : h # index => s.left[h] = 0
        /\ \A h \in N : s.left[h] = 0 \/ (s.left[h] = 1 /\ chain[h] # "never" /\ s.done = 0)
        /\ s.started = {h \in N : h <= index} /\ (\A h \in N : h < index => chain[h] = "next") /\ ~s.thrown
    BY <1>1, <1>3, <1>7 DEF HookChained
  <2>2. c \in N /\ s.left[c] > 0  BY <1>2, <1>3
  <2>3. c = index /\ s.left[c] = 1 /\ chain[c] # "never" /\ s.done = 0  BY <1>4, <2>1, <2>2
  <2>4. \A h \in N : left[h] = 0  BY <1>5, <2>1, <2>3
  <2>5. QED  BY <2>1, <2>3, <2>4
<1>8. CASE chain[c] = "stop"
  <2>1. state' = [left |-> left, started |-> s.started, done |-> s.done + 1, thrown |-> s.thrown] /\ index' = index
    BY <1>3, <1>4, <1>8 DEF Hook!CallBack
  <2>2. state' \in HookState  BY <1>3, <1>4, <1>5, <2>1 DEF HookState
  <2>3. HookChained'
    <3> SUFFICES ASSUME \A h \in N : chain[h] # "twice"
                 PROVE  /\ index <= MaxAsync + 1 /\ state'.started = {h \in N : h <= index}
                        /\ \A h \in N : h # index => state'.left[h] = 0
                        /\ \A h \in N : h < index => chain[h] = "next"
                        /\ \A h \in N : state'.left[h] = 0 \/ (state'.left[h] = 1 /\ chain[h] # "never" /\ state'.done = 0)
                        /\ index = 0 => state'.done = 0
                        /\ state'.done <= 1 /\ ~state'.thrown
      BY <1>2, <1>3, <2>1 DEF HookChained
    <3>1. index \in 1..MaxAsync  BY <1>7
    <3>2. QED  BY <1>6, <1>7, <2>1, <3>1
  <2>4. QED  BY <1>1, <1>2, <2>1, <2>2, <2>3 DEF HookInv, HookTypes, HookGiven, Hook!LaterRunsFirst, Hook!Taken, Hook!Hooked, Hook!RunsBefore
<1>9. CASE chain[c] # "stop"
  <2>1. Hook!NextHook(left)  BY <1>3, <1>9 DEF Hook!CallBack
  <2>2. ASSUME \A h \in 1..MaxAsync : chain[h] # "twice"
        PROVE  /\ \A h \in 1..MaxAsync : left[h] = 0
               /\ index <= MaxAsync /\ state.done = 0
               /\ \A h \in 1..MaxAsync : h = index => chain[h] = "next"
    <3>1. c = index /\ s.done = 0 /\ chain[c] # "never" /\ \A h \in N : left[h] = 0  BY <1>3, <1>7, <2>2
    <3>2. chain[c] \in Hook!Fates  BY <1>1 DEF HookTypes
    <3>3. chain[c] = "next"  BY <1>9, <2>2, <3>1, <3>2 DEF Hook!Fates
    <3>4. QED  BY <1>3, <1>6, <3>1, <3>3
  <2>3. left \in [1..MaxAsync -> Nat]  BY <1>3, <1>5
  <2>4. QED  BY <1>2, <2>1, <2>2, <2>3, HookNext
<1>10. QED  BY <1>8, <1>9

LEMMA HookStep == ASSUME HookInv, AsyncAssumption, PrioritiesAssumption, Hook!Next \/ UNCHANGED hooks PROVE HookInv'
BY HookStays, HookBind, HookFire, HookCallBack DEF Hook!Next

LEMMA HookGood == ASSUME HookInv, AsyncAssumption PROVE Hook!LaterRunsFirst /\ Hook!ChainInOrder
<1>1. HookTypes /\ Hook!LaterRunsFirst /\ HookChained  BY DEF HookInv
<1>2. Hook!ChainInOrder
  <2> SUFFICES ASSUME \A h \in 1..MaxAsync : chain[h] # "twice"
               PROVE  /\ \A h \in state.started : \A g \in 1..(h - 1) : chain[g] = "next" /\ state.left[g] = 0
                      /\ state.done <= 1 /\ ~state.thrown
    BY DEF Hook!ChainInOrder
  <2>1. /\ state.started = {h \in 1..MaxAsync : h <= index}
        /\ \A h \in 1..MaxAsync : h # index => state.left[h] = 0
        /\ \A h \in 1..MaxAsync : h < index => chain[h] = "next"
        /\ state.done <= 1 /\ ~state.thrown
    BY <1>1 DEF HookChained
  <2>2. index \in Nat  BY <1>1 DEF HookTypes
  <2>3. ASSUME NEW h \in state.started, NEW g \in 1..(h - 1) PROVE g \in 1..MaxAsync /\ g < index
    <3>1. h \in 1..MaxAsync /\ h <= index  BY <2>1
    <3>2. QED  BY <2>2, <3>1, AsyncAssumption
  <2>4. QED  BY <2>1, <2>2, <2>3
<1>3. QED  BY <1>1, <1>2

-----------------------------------------------------------------------------
(* Badges *)

BadgeCheck == [step : Badge!Steps, count : Nat, found : Nat]
BadgePast == [events : Nat, peak : Nat, counted : Nat, overlapped : BOOLEAN, lost : BOOLEAN]

BadgeTypes ==
    /\ worth \in Nat /\ decorations \in Seq(Nat) /\ checks \in Seq(BadgeCheck) /\ badgePast \in BadgePast

\* nothing is counted beyond the peak
BadgePeak == worth <= badgePast.peak /\ \A i \in 1..Len(checks) : checks[i].count <= badgePast.peak

\* a check at a time: what it found is there when it writes
BadgeAlone ==
    ~badgePast.overlapped =>
        /\ Len(checks) <= 1
        /\ \A i \in 1..Len(checks) : checks[i].step = "write" =>
              checks[i].found = IF decorations = << >> THEN 0 ELSE decorations[1]

BadgeInv == BadgeTypes /\ BadgePeak /\ Badge!NoneUnearned /\ BadgeAlone /\ Badge!LevelIsEarned

\* a set of numbers which has a bound has a greatest one
LEMMA Greatest == ASSUME NEW I \in SUBSET Nat, I # {}, NEW n \in Nat, \A x \in I : x <= n
  PROVE  Badge!Max(I) \in I /\ \A y \in I : y <= Badge!Max(I)
<1>1. PICK J : J = {k \in Nat : n - k \in I}  OBVIOUS
<1>2. J \in SUBSET Nat /\ J # {}
  <2>1. PICK x \in I : TRUE  OBVIOUS
  <2>2. n - x \in Nat /\ n - (n - x) = x  BY <2>1
  <2>3. n - x \in J  BY <1>1, <2>1, <2>2
  <2>4. QED  BY <1>1, <2>3
<1>3. PICK k \in J : \A y \in J : k <= y  BY <1>2, Smallest
<1>4. \A y \in I : n - k >= y
  <2> TAKE y \in I
  <2>1. n - y \in Nat /\ n - (n - y) = y  OBVIOUS
  <2>2. n - y \in J  BY <1>1, <2>1
  <2>3. QED  BY <1>2, <1>3, <2>1, <2>2
<1>5. n - k \in I  BY <1>1, <1>3
<1>6. \E x \in I : \A y \in I : x >= y  BY <1>4, <1>5
<1>7. PICK m : m = Badge!Max(I)  OBVIOUS
<1>8. m \in I /\ \A y \in I : m >= y  BY <1>6, <1>7 DEF Badge!Max
<1>9. QED  BY <1>7, <1>8

LEMMA GreaterIs == ASSUME NEW m \in Nat, NEW n \in Nat PROVE Badge!Max({m, n}) = IF m <= n THEN n ELSE m
<1>1. PICK k : k = IF m <= n THEN n ELSE m  OBVIOUS
<1>2. k \in {m, n} /\ \A y \in {m, n} : k >= y  BY <1>1
<1>3. \A x \in {m, n} : (\A y \in {m, n} : x >= y) => x = k  BY <1>1
<1>4. Badge!Max({m, n}) = k  BY <1>2, <1>3 DEF Badge!Max
<1>5. QED  BY <1>1, <1>4

LEMMA LevelsAre == ASSUME LevelsAssumption
  PROVE  /\ Len(BadgeLevels) \in Nat /\ DOMAIN BadgeLevels = 1..Len(BadgeLevels)
         /\ \A l \in 1..Len(BadgeLevels) : BadgeLevels[l] \in Nat /\ BadgeLevels[l] > 0
BY LenProperties DEF LevelsAssumption

\* what a higher level takes is more
LEMMA LevelsRise == ASSUME LevelsAssumption, NEW l \in 1..Len(BadgeLevels), NEW m \in 1..Len(BadgeLevels), l < m
  PROVE  BadgeLevels[l] < BadgeLevels[m]
<1>1. PICK n, L, I : n = Len(BadgeLevels) /\ L = BadgeLevels /\ I = {k \in (l + 1)..n : ~(L[l] < L[k])}  OBVIOUS
<1>2. n \in Nat /\ (\A k \in 1..n : L[k] \in Nat) /\ \A k \in 2..n : L[k - 1] < L[k]
  BY <1>1, LevelsAre DEF LevelsAssumption
<1>3. ASSUME I # {} PROVE FALSE
  <2>1. I \in SUBSET Nat  BY <1>1, <1>2
  <2>2. PICK k \in I : \A y \in I : k <= y  BY <1>3, <2>1, Smallest
  <2>3. k \in 2..n /\ k \in (l + 1)..n /\ ~(L[l] < L[k])  BY <1>1, <1>2, <2>2
  <2>4. L[k - 1] < L[k]  BY <1>2, <2>3
  <2>5. k - 1 \in 1..n /\ L[k - 1] \in Nat /\ L[k] \in Nat /\ L[l] \in Nat  BY <1>1, <1>2, <2>3
  <2>6. CASE k = l + 1
    <3>1. k - 1 = l  BY <2>6
    <3>2. QED  BY <2>3, <2>4, <3>1
  <2>7. CASE k # l + 1
    <3>1. k - 1 \in (l + 1)..n  BY <1>1, <1>2, <2>3, <2>7
    <3>2. L[l] < L[k - 1]
      <4>1. ~(k <= k - 1)  BY <2>3
      <4>2. k - 1 \notin I  BY <2>2, <4>1
      <4>3. QED  BY <1>1, <3>1, <4>2
    <3>3. QED  BY <2>3, <2>4, <2>5, <3>2
  <2>8. QED  BY <2>6, <2>7
<1>4. m \in (l + 1)..n  BY <1>1, <1>2
<1>5. QED  BY <1>1, <1>3, <1>4

LEMMA HighestIs == ASSUME LevelsAssumption, NEW c \in Nat
  PROVE  /\ Badge!Highest(c) \in 0..Len(BadgeLevels)
         /\ Badge!Highest(c) # 0 => BadgeLevels[Badge!Highest(c)] <= c
         /\ \A l \in 1..Len(BadgeLevels) : BadgeLevels[l] <= c => l <= Badge!Highest(c)
<1>1. PICK n, I : n = Len(BadgeLevels) /\ I = {0} \union {l \in DOMAIN BadgeLevels : BadgeLevels[l] <= c}  OBVIOUS
<1>2. n \in Nat /\ DOMAIN BadgeLevels = 1..n  BY <1>1, LevelsAre
<1>3. I \in SUBSET Nat /\ I # {} /\ \A x \in I : x <= n  BY <1>1, <1>2
<1>4. Badge!Max(I) \in I /\ \A y \in I : y <= Badge!Max(I)  BY <1>2, <1>3, Greatest
<1>5. PICK m : m = Badge!Highest(c)  OBVIOUS
<1>6. m \in I /\ \A y \in I : y <= m  BY <1>1, <1>4, <1>5 DEF Badge!Highest
<1>7. m \in 0..n /\ (m # 0 => BadgeLevels[m] <= c)  BY <1>1, <1>2, <1>6
<1>8. \A l \in 1..n : BadgeLevels[l] <= c => l <= m  BY <1>1, <1>2, <1>6
<1>9. QED  BY <1>1, <1>5, <1>7, <1>8

\* who counts more is no lower
LEMMA HighestRises == ASSUME LevelsAssumption, NEW c \in Nat, NEW d \in Nat, c <= d PROVE Badge!Highest(c) <= Badge!Highest(d)
<1>1. PICK n, h, k : n = Len(BadgeLevels) /\ h = Badge!Highest(c) /\ k = Badge!Highest(d)  OBVIOUS
<1>2. n \in Nat /\ \A l \in 1..n : BadgeLevels[l] \in Nat /\ BadgeLevels[l] > 0  BY <1>1, LevelsAre
<1>3. h \in 0..n /\ (h # 0 => BadgeLevels[h] <= c)  BY <1>1, HighestIs
<1>4. k \in 0..n /\ \A l \in 1..n : BadgeLevels[l] <= d => l <= k  BY <1>1, HighestIs
<1>5. CASE h # 0
  <2>1. h \in 1..n /\ BadgeLevels[h] <= d  BY <1>2, <1>3, <1>5
  <2>2. QED  BY <1>1, <1>4, <2>1
<1>6. QED  BY <1>1, <1>3, <1>4, <1>5

\* the level written is one above the one found which was earned, and the highest such
LEMMA NewLevelIs == ASSUME LevelsAssumption, NEW q \in BadgeCheck, Badge!Reaches(q.count, q.found + 1)
  PROVE  /\ Badge!NewLevel(q) \in (q.found + 1)..Len(BadgeLevels) /\ BadgeLevels[Badge!NewLevel(q)] <= q.count
         /\ \A l \in (q.found + 1)..Len(BadgeLevels) :
               (\A m \in (q.found + 1)..l : Badge!Reaches(q.count, m)) => l <= Badge!NewLevel(q)
<1>1. PICK n, f, c : n = Len(BadgeLevels) /\ f = q.found + 1 /\ c = q.count  OBVIOUS
<1>2. n \in Nat /\ \A l \in 1..n : BadgeLevels[l] \in Nat /\ BadgeLevels[l] > 0  BY <1>1, LevelsAre
<1>3. f \in Nat /\ f > 0 /\ c \in Nat  BY <1>1 DEF BadgeCheck
<1>4. PICK I : I = {l \in f..n : \A m \in f..l : Badge!Reaches(c, m)}  OBVIOUS
<1>5. f \in I
  <2>1. f <= n  BY <1>1 DEF Badge!Reaches
  <2>2. \A m \in f..f : m = f  BY <1>3
  <2>3. \A m \in f..f : Badge!Reaches(c, m)  BY <1>1, <2>2
  <2>4. f \in f..n  BY <1>2, <1>3, <2>1
  <2>5. QED  BY <1>4, <2>3, <2>4
<1>6. I \in SUBSET Nat /\ I # {} /\ \A x \in I : x <= n
  <2>1. \A x \in f..n : x \in Nat /\ x <= n  BY <1>2, <1>3
  <2>2. I \subseteq f..n  BY <1>4
  <2>3. QED  BY <1>5, <2>1, <2>2
<1>7. Badge!Max(I) \in I /\ \A y \in I : y <= Badge!Max(I)  BY <1>2, <1>6, Greatest
<1>8. PICK m : m = Badge!NewLevel(q)  OBVIOUS
<1>9. m = Badge!Max(I)  BY <1>1, <1>4, <1>8 DEF Badge!NewLevel
<1>10. m \in f..n /\ Badge!Reaches(c, m)  BY <1>3, <1>4, <1>7, <1>9
<1>11. BadgeLevels[m] <= c  BY <1>2, <1>3, <1>10 DEF Badge!Reaches
<1>12. QED  BY <1>1, <1>4, <1>7, <1>8, <1>9, <1>10, <1>11

LEMMA BadgeInit == ASSUME Badge!Init, LevelsAssumption PROVE BadgeInv
<1>1. worth = 0 /\ decorations = << >> /\ checks = << >>
      /\ badgePast = [events |-> 0, peak |-> 0, counted |-> 0, overlapped |-> FALSE, lost |-> FALSE]
  BY DEF Badge!Init
<1>2. Badge!Highest(0) = 0
  <2>1. PICK h : h = Badge!Highest(0)  OBVIOUS
  <2>2. h \in 0..Len(BadgeLevels) /\ (h # 0 => BadgeLevels[h] <= 0)  BY <2>1, HighestIs
  <2>3. \A l \in 1..Len(BadgeLevels) : BadgeLevels[l] \in Nat /\ BadgeLevels[l] > 0  BY LevelsAre
  <2>4. CASE h # 0
    <3>1. h \in 1..Len(BadgeLevels)  BY <2>2, <2>4, LevelsAre
    <3>2. QED  BY <2>2, <2>3, <2>4, <3>1
  <2>5. QED  BY <2>1, <2>4
<1>3. decorations \in Seq(Nat) /\ Len(decorations) = 0 /\ checks \in Seq(BadgeCheck) /\ Len(checks) = 0  BY <1>1
<1>4. BadgeTypes  BY <1>1, <1>3 DEF BadgeTypes, BadgePast
<1>5. BadgePeak /\ BadgeAlone  BY <1>1, <1>3 DEF BadgePeak, BadgeAlone
<1>6. Badge!NoneUnearned
  <2>1. \A i \in DOMAIN decorations : FALSE  BY <1>3, LenProperties
  <2>2. QED  BY <2>1 DEF Badge!NoneUnearned
<1>7. Badge!LevelIsEarned  BY <1>1, <1>2 DEF Badge!LevelIsEarned
<1>8. QED  BY <1>4, <1>5, <1>6, <1>7 DEF BadgeInv

LEMMA BadgeStays == ASSUME BadgeInv, UNCHANGED badges PROVE BadgeInv'
<1>1. worth' = worth /\ decorations' = decorations /\ checks' = checks /\ badgePast' = badgePast  BY DEF badges
<1>2. QED
  BY <1>1 DEF BadgeInv, BadgeTypes, BadgePeak, BadgeAlone, Badge!NoneUnearned, Badge!LevelIsEarned, Badge!Highest

LEMMA BadgePastIs == ASSUME BadgeTypes
  PROVE  /\ badgePast = [events |-> badgePast.events, peak |-> badgePast.peak, counted |-> badgePast.counted,
                         overlapped |-> badgePast.overlapped, lost |-> badgePast.lost]
         /\ badgePast.events \in Nat /\ badgePast.peak \in Nat /\ badgePast.counted \in Nat
         /\ badgePast.overlapped \in BOOLEAN /\ badgePast.lost \in BOOLEAN
BY DEF BadgeTypes, BadgePast

LEMMA BadgeSeqs == ASSUME BadgeTypes
  PROVE  /\ Len(checks) \in Nat /\ DOMAIN checks = 1..Len(checks) /\ (checks = << >> <=> Len(checks) = 0)
         /\ \A i \in 1..Len(checks) : checks[i] \in BadgeCheck
         /\ Len(decorations) \in Nat /\ DOMAIN decorations = 1..Len(decorations) /\ (decorations = << >> <=> Len(decorations) = 0)
         /\ \A i \in 1..Len(decorations) : decorations[i] \in Nat
<1>1. checks \in Seq(BadgeCheck) /\ decorations \in Seq(Nat)  BY DEF BadgeTypes
<1>2. \A i \in 1..Len(checks) : checks[i] \in BadgeCheck  BY <1>1, LenProperties
<1>3. \A i \in 1..Len(decorations) : decorations[i] \in Nat  BY <1>1, LenProperties
<1>4. QED  BY <1>1, <1>2, <1>3, EmptyIff

LEMMA BadgeEvent == ASSUME BadgeInv, LevelsAssumption, Badge!Event PROVE BadgeInv'
<1>1. BadgeTypes /\ BadgePeak /\ Badge!NoneUnearned /\ BadgeAlone /\ Badge!LevelIsEarned  BY DEF BadgeInv
<1>2. PICK q, p : q = [step |-> "count", count |-> 0, found |-> 0] /\ p = badgePast  OBVIOUS
<1>3. worth' = worth + 1 /\ checks' = Append(checks, q) /\ decorations' = decorations  BY <1>2 DEF Badge!Event
<1>4. p = [events |-> p.events, peak |-> p.peak, counted |-> p.counted, overlapped |-> p.overlapped, lost |-> p.lost]
      /\ p.events \in Nat /\ p.peak \in Nat /\ p.counted \in Nat /\ p.overlapped \in BOOLEAN /\ p.lost \in BOOLEAN
  BY <1>1, <1>2, BadgePastIs
<1>5. worth \in Nat /\ worth + 1 \in Nat  BY <1>1 DEF BadgeTypes
<1>6. PICK m : m = Badge!Max({p.peak, worth + 1})  OBVIOUS
<1>7. m \in Nat /\ p.peak <= m /\ worth + 1 <= m
  <2>1. PICK a, b : a = p.peak /\ b = worth + 1  OBVIOUS
  <2>2. a \in Nat /\ b \in Nat /\ m = Badge!Max({a, b})  BY <1>4, <1>5, <1>6, <2>1
  <2>3. m = IF a <= b THEN b ELSE a  BY <2>2, GreaterIs
  <2>4. a <= m /\ b <= m /\ m \in Nat  BY <2>2, <2>3
  <2>5. QED  BY <2>1, <2>4
<1>8. badgePast' = [events |-> p.events + 1, peak |-> m, counted |-> p.counted,
                    overlapped |-> p.overlapped \/ checks # << >>, lost |-> p.lost]
  BY <1>2, <1>4, <1>6 DEF Badge!Event
<1>9. q \in BadgeCheck /\ q.count = 0 /\ q.step = "count"  BY <1>2 DEF BadgeCheck, Badge!Steps
<1>10. PICK s : s = checks  OBVIOUS
<1>11. s \in Seq(BadgeCheck) /\ Len(s) \in Nat  BY <1>1, <1>10, BadgeSeqs DEF BadgeTypes
<1>12. /\ checks' \in Seq(BadgeCheck) /\ Len(checks') = Len(s) + 1 /\ checks'[Len(s) + 1] = q
       /\ \A i \in 1..Len(s) : checks'[i] = s[i]
  BY <1>3, <1>9, <1>10, <1>11, Lengthened
<1>13. BadgeTypes'  BY <1>1, <1>3, <1>4, <1>5, <1>7, <1>8, <1>12 DEF BadgeTypes, BadgePast
<1>14. BadgePeak'
  <2>1. worth' <= badgePast'.peak  BY <1>3, <1>7, <1>8
  <2>2. ASSUME NEW i \in 1..Len(checks') PROVE checks'[i].count <= badgePast'.peak
    <3>1. CASE i \in 1..Len(s)
      <4>1. s[i].count <= p.peak /\ s[i] \in BadgeCheck  BY <1>1, <1>2, <1>10, <3>1, BadgeSeqs DEF BadgePeak
      <4>2. s[i].count \in Nat  BY <4>1 DEF BadgeCheck
      <4>3. QED  BY <1>4, <1>7, <1>8, <1>12, <3>1, <4>1, <4>2
    <3>2. CASE i = Len(s) + 1  BY <1>7, <1>8, <1>9, <1>12, <3>2
    <3>3. QED  BY <1>11, <1>12, <3>1, <3>2
  <2>3. QED  BY <2>1, <2>2 DEF BadgePeak
<1>15. Badge!NoneUnearned'
  <2>1. PICK d, h, k : d = decorations /\ h = Badge!Highest(p.peak) /\ k = Badge!Highest(m)  OBVIOUS
  <2>2. h <= k /\ h \in Nat /\ k \in Nat  BY <1>4, <1>7, <2>1, HighestRises, HighestIs, LevelsAre
  <2>3. ASSUME NEW i \in DOMAIN d PROVE d[i] <= k
    <3>1. d[i] <= h /\ d[i] \in Nat  BY <1>1, <1>2, <2>1, <2>3, BadgeSeqs DEF Badge!NoneUnearned
    <3>2. QED  BY <2>2, <3>1
  <2>4. badgePast'.peak = m /\ decorations' = d  BY <1>3, <1>8, <2>1
  <2>5. QED  BY <2>1, <2>3, <2>4 DEF Badge!NoneUnearned, Badge!Highest
<1>16. BadgeAlone'
  <2> SUFFICES ASSUME ~badgePast'.overlapped
               PROVE  /\ Len(checks') <= 1
                      /\ \A i \in 1..Len(checks') : checks'[i].step # "write"
    BY DEF BadgeAlone
  <2>1. Len(s) = 0  BY <1>1, <1>8, <1>10, BadgeSeqs
  <2>2. QED  BY <1>9, <1>12, <2>1
<1>17. Badge!LevelIsEarned'
  <2>1. badgePast'.counted = badgePast.counted /\ (badgePast.overlapped => badgePast'.overlapped)  BY <1>2, <1>8
  <2>2. QED  BY <1>1, <1>3, <2>1 DEF Badge!LevelIsEarned, Badge!Highest
<1>18. QED  BY <1>13, <1>14, <1>15, <1>16, <1>17 DEF BadgeInv

LEMMA BadgeUndo == ASSUME BadgeInv, Badge!Undo PROVE BadgeInv'
<1>1. worth \in Nat /\ worth <= badgePast.peak /\ badgePast.peak \in Nat  BY BadgePastIs DEF BadgeInv, BadgeTypes, BadgePeak
<1>2. worth' = worth - 1 /\ worth > 0 /\ decorations' = decorations /\ checks' = checks /\ badgePast' = badgePast  BY DEF Badge!Undo
<1>3. worth' \in Nat /\ worth' <= badgePast'.peak  BY <1>1, <1>2
<1>4. BadgeTypes' /\ BadgePeak'  BY <1>2, <1>3 DEF BadgeInv, BadgeTypes, BadgePeak
<1>5. BadgeAlone' /\ Badge!NoneUnearned' /\ Badge!LevelIsEarned'
  BY <1>2 DEF BadgeInv, BadgeAlone, Badge!NoneUnearned, Badge!LevelIsEarned, Badge!Highest
<1>6. QED  BY <1>4, <1>5 DEF BadgeInv

\* a check goes on
LEMMA BadgeMove == ASSUME BadgeInv, NEW i \in 1..Len(checks), NEW q \in BadgeCheck, checks' = [checks EXCEPT ![i] = q],
                          UNCHANGED <<worth, decorations, badgePast>>, q.count <= badgePast.peak,
                          q.step = "write" => q.found = IF decorations = << >> THEN 0 ELSE decorations[1]
  PROVE  BadgeInv'
<1>1. BadgeTypes /\ BadgePeak /\ Badge!NoneUnearned /\ BadgeAlone /\ Badge!LevelIsEarned  BY DEF BadgeInv
<1>2. PICK s : s = checks  OBVIOUS
<1>3. s \in Seq(BadgeCheck) /\ Len(s) \in Nat /\ checks' = [s EXCEPT ![i] = q]  BY <1>1, <1>2, BadgeSeqs DEF BadgeTypes
<1>4. checks' \in Seq(BadgeCheck) /\ Len(checks') = Len(s) /\ \A j \in 1..Len(s) : checks'[j] = IF j = i THEN q ELSE s[j]
  <2>1. s \in [1..Len(s) -> BadgeCheck]  BY <1>3, LenProperties
  <2>2. [s EXCEPT ![i] = q] \in [1..Len(s) -> BadgeCheck]  BY <2>1
  <2>3. [s EXCEPT ![i] = q] \in Seq(BadgeCheck) /\ Len([s EXCEPT ![i] = q]) = Len(s)  BY <1>3, <2>2, FunctionSeq
  <2>4. \A j \in 1..Len(s) : [s EXCEPT ![i] = q][j] = IF j = i THEN q ELSE s[j]  BY <2>1
  <2>5. QED  BY <1>3, <2>3, <2>4
<1>5. BadgeTypes'  BY <1>1, <1>4 DEF BadgeTypes
<1>6. BadgePeak'  BY <1>1, <1>2, <1>4 DEF BadgePeak
<1>7. BadgeAlone'
  <2> SUFFICES ASSUME ~badgePast.overlapped
               PROVE  /\ Len(checks') <= 1
                      /\ \A j \in 1..Len(checks') : checks'[j].step = "write" =>
                            checks'[j].found = IF decorations = << >> THEN 0 ELSE decorations[1]
    BY DEF BadgeAlone
  <2>1. /\ Len(s) <= 1
        /\ \A j \in 1..Len(s) : s[j].step = "write" => s[j].found = IF decorations = << >> THEN 0 ELSE decorations[1]
    BY <1>1, <1>2 DEF BadgeAlone
  <2>2. QED  BY <1>4, <2>1
<1>8. Badge!NoneUnearned' /\ Badge!LevelIsEarned'  BY <1>1 DEF Badge!NoneUnearned, Badge!LevelIsEarned, Badge!Highest
<1>9. QED  BY <1>5, <1>6, <1>7, <1>8 DEF BadgeInv

LEMMA BadgeCount == ASSUME BadgeInv, NEW i \in 1..Len(checks), Badge!Count(i) PROVE BadgeInv'
<1>1. PICK c, q : c = checks[i] /\ q = [c EXCEPT !.step = "find", !.count = worth]  OBVIOUS
<1>2. BadgeTypes /\ BadgePeak  BY DEF BadgeInv
<1>3. c = [step |-> c.step, count |-> c.count, found |-> c.found] /\ c.found \in Nat /\ worth \in Nat
  BY <1>1, <1>2, BadgeSeqs DEF BadgeCheck, BadgeTypes
<1>4. q = [step |-> "find", count |-> worth, found |-> c.found]  BY <1>1, <1>3
<1>5. q \in BadgeCheck  BY <1>3, <1>4 DEF BadgeCheck, Badge!Steps
<1>6. checks' = [checks EXCEPT ![i] = q] /\ UNCHANGED <<worth, decorations, badgePast>>
  <2>1. checks' = [checks EXCEPT ![i] = [@ EXCEPT !.step = "find", !.count = worth]]  BY DEF Badge!Count
  <2>2. QED  BY <1>1, <2>1 DEF Badge!Count
<1>7. q.count <= badgePast.peak /\ q.step # "write"  BY <1>2, <1>4 DEF BadgePeak
<1>8. QED  BY <1>5, <1>6, <1>7, BadgeMove

LEMMA BadgeFind == ASSUME BadgeInv, NEW i \in 1..Len(checks), Badge!Find(i) PROVE BadgeInv'
<1>1. PICK f : f = IF decorations = << >> THEN 0 ELSE decorations[1]  OBVIOUS
<1>2. PICK c, q : c = checks[i] /\ q = [c EXCEPT !.step = "write", !.found = f]  OBVIOUS
<1>3. BadgeTypes /\ BadgePeak  BY DEF BadgeInv
<1>4. c = [step |-> c.step, count |-> c.count, found |-> c.found] /\ c.count \in Nat  BY <1>2, <1>3, BadgeSeqs DEF BadgeCheck
<1>5. f \in Nat  BY <1>1, <1>3, BadgeSeqs
<1>6. q = [step |-> "write", count |-> c.count, found |-> f]  BY <1>2, <1>4
<1>7. q \in BadgeCheck  BY <1>4, <1>5, <1>6 DEF BadgeCheck, Badge!Steps
<1>8. checks' = [checks EXCEPT ![i] = q] /\ UNCHANGED <<worth, decorations, badgePast>>
  <2>1. checks' = [checks EXCEPT ![i] = [@ EXCEPT !.step = "write", !.found = f]]  BY <1>1 DEF Badge!Find
  <2>2. QED  BY <1>2, <2>1 DEF Badge!Find
<1>9. q.count <= badgePast.peak /\ q.found = f  BY <1>2, <1>3, <1>6 DEF BadgePeak
<1>10. QED  BY <1>1, <1>7, <1>8, <1>9, BadgeMove

LEMMA BadgeCrash == ASSUME BadgeInv, Badge!Crash PROVE BadgeInv'
<1>1. BadgeTypes /\ BadgePeak /\ Badge!NoneUnearned /\ BadgeAlone /\ Badge!LevelIsEarned  BY DEF BadgeInv
<1>2. PICK p : p = badgePast  OBVIOUS
<1>3. p = [events |-> p.events, peak |-> p.peak, counted |-> p.counted, overlapped |-> p.overlapped, lost |-> p.lost]
      /\ p.events \in Nat /\ p.peak \in Nat /\ p.counted \in Nat /\ p.overlapped \in BOOLEAN
  BY <1>1, <1>2, BadgePastIs
<1>4. checks' = << >> /\ worth' = worth /\ decorations' = decorations  BY DEF Badge!Crash
<1>5. badgePast' = [events |-> p.events, peak |-> p.peak, counted |-> p.counted, overlapped |-> p.overlapped, lost |-> TRUE]
  BY <1>2, <1>3 DEF Badge!Crash
<1>6. checks' \in Seq(BadgeCheck) /\ Len(checks') = 0  BY <1>4
<1>7. badgePast' \in BadgePast  BY <1>3, <1>5 DEF BadgePast
<1>8. badgePast'.peak = p.peak /\ badgePast'.counted = p.counted /\ badgePast'.overlapped = p.overlapped  BY <1>5
<1>9. BadgeTypes' /\ BadgePeak'  BY <1>1, <1>2, <1>4, <1>6, <1>7, <1>8 DEF BadgeTypes, BadgePeak
<1>10. BadgeAlone'  BY <1>6 DEF BadgeAlone
<1>11. Badge!NoneUnearned' /\ Badge!LevelIsEarned'  BY <1>1, <1>2, <1>4, <1>8 DEF Badge!NoneUnearned, Badge!LevelIsEarned, Badge!Highest
<1>12. QED  BY <1>9, <1>10, <1>11 DEF BadgeInv

\* the level written is the highest which was earned, if the one found was the highest before
LEMMA EarnedIs == ASSUME LevelsAssumption, NEW q \in BadgeCheck, NEW c \in Nat, q.found = Badge!Highest(c), NEW d \in Nat,
                         d = IF c <= q.count THEN q.count ELSE c
  PROVE  Badge!Highest(d) = IF Badge!Reaches(q.count, q.found + 1) THEN Badge!NewLevel(q) ELSE q.found
<1>1. PICK n, L, f, h, k : n = Len(BadgeLevels) /\ L = BadgeLevels /\ f = q.found /\ h = Badge!Highest(d) /\ k = q.count  OBVIOUS
<1>2. n \in Nat /\ k \in Nat /\ \A l \in 1..n : L[l] \in Nat  BY <1>1, LevelsAre DEF BadgeCheck
<1>3. f \in 0..n /\ (f # 0 => L[f] <= c) /\ \A l \in 1..n : L[l] <= c => l <= f  BY <1>1, HighestIs
<1>4. h \in 0..n /\ (h # 0 => L[h] <= d) /\ \A l \in 1..n : L[l] <= d => l <= h  BY <1>1, HighestIs
<1>5. f <= h  BY <1>1, <1>2, HighestRises
<1>6. \A l, m \in 1..n : l < m => L[l] < L[m]  BY <1>1, LevelsRise
<1>7. CASE Badge!Reaches(k, f + 1)
  <2>1. f + 1 \in 1..n /\ L[f + 1] <= k  BY <1>1, <1>2, <1>3, <1>7 DEF Badge!Reaches
  <2>2. ~(L[f + 1] <= c)  BY <1>3, <2>1
  <2>3. d = k  BY <1>1, <1>2, <2>1, <2>2
  <2>4. PICK w : w = Badge!NewLevel(q)  OBVIOUS
  <2>5. w \in (f + 1)..n /\ L[w] <= k /\ \A l \in (f + 1)..n : (\A m \in (f + 1)..l : Badge!Reaches(k, m)) => l <= w
    BY <1>1, <1>7, <2>4, NewLevelIs
  <2>6. w \in 1..n /\ w <= h  BY <1>2, <1>3, <1>4, <2>3, <2>5
  <2>7. h \in (f + 1)..n /\ L[h] <= k  BY <1>3, <1>4, <2>3, <2>5, <2>6
  <2>8. ASSUME NEW m \in (f + 1)..h PROVE Badge!Reaches(k, m)
    <3>1. m \in 1..n /\ h \in 1..n /\ (m < h \/ m = h)  BY <1>2, <1>3, <1>4
    <3>2. L[m] <= L[h]  BY <1>2, <1>6, <3>1
    <3>3. L[m] <= k  BY <1>2, <2>7, <3>1, <3>2
    <3>4. QED  BY <1>1, <1>2, <3>1, <3>3 DEF Badge!Reaches
  <2>9. h <= w  BY <2>5, <2>7, <2>8
  <2>10. QED  BY <1>1, <1>7, <2>4, <2>6, <2>7, <2>9
<1>8. CASE ~Badge!Reaches(k, f + 1)
  <2>1. CASE f = n  BY <1>1, <1>3, <1>4, <1>5, <1>8, <2>1
  <2>2. CASE f # n
    <3>1. f + 1 \in 1..n  BY <1>2, <1>3, <2>2
    <3>2. ~(L[f + 1] <= k) /\ ~(L[f + 1] <= c)  BY <1>1, <1>2, <1>3, <1>8, <3>1 DEF Badge!Reaches
    <3>3. ~(L[f + 1] <= d)  BY <1>1, <3>2
    <3>4. ASSUME h > f PROVE FALSE
      <4>1. h \in 1..n /\ (f + 1 < h \/ f + 1 = h) /\ L[h] <= d  BY <1>3, <1>4, <3>4
      <4>2. L[f + 1] <= L[h]  BY <1>2, <1>6, <3>1, <4>1
      <4>3. QED  BY <1>2, <3>1, <3>3, <4>1, <4>2
    <3>5. QED  BY <1>1, <1>3, <1>4, <1>5, <1>8, <3>4
  <2>3. QED  BY <2>1, <2>2
<1>9. QED  BY <1>7, <1>8, <1>1

LEMMA BadgeWrite == ASSUME BadgeInv, LevelsAssumption, NEW i \in 1..Len(checks), Badge!Write(i) PROVE BadgeInv'
<1>1. BadgeTypes /\ BadgePeak /\ Badge!NoneUnearned /\ BadgeAlone /\ Badge!LevelIsEarned  BY DEF BadgeInv
<1>2. PICK q, p, e, o : q = checks[i] /\ p = badgePast /\ e = decorations /\ o = decorations'  OBVIOUS
<1>3. p = [events |-> p.events, peak |-> p.peak, counted |-> p.counted, overlapped |-> p.overlapped, lost |-> p.lost]
      /\ p.events \in Nat /\ p.peak \in Nat /\ p.counted \in Nat /\ p.overlapped \in BOOLEAN /\ p.lost \in BOOLEAN
  BY <1>1, <1>2, BadgePastIs
<1>4. q \in BadgeCheck /\ q.count \in Nat /\ q.found \in Nat /\ q.step = "write"  BY <1>1, <1>2, BadgeSeqs DEF BadgeCheck, Badge!Write
<1>5. PICK m : m = Badge!Max({p.counted, q.count})  OBVIOUS
<1>6. m \in Nat /\ m = IF p.counted <= q.count THEN q.count ELSE p.counted  BY <1>3, <1>4, <1>5, GreaterIs
<1>7. badgePast' = [events |-> p.events, peak |-> p.peak, counted |-> m, overlapped |-> p.overlapped, lost |-> p.lost]
  BY <1>2, <1>3, <1>5 DEF Badge!Write
<1>8. PICK s : s = checks  OBVIOUS
<1>9. s \in Seq(BadgeCheck) /\ Len(s) \in Nat /\ i \in 1..Len(s)  BY <1>1, <1>8, BadgeSeqs DEF BadgeTypes
<1>10. checks' = Without(s, i) /\ worth' = worth  BY <1>8 DEF Badge!Write, Badge!Without, Without
<1>11. /\ checks' \in Seq(BadgeCheck) /\ Len(checks') = Len(s) - 1
       /\ \A j \in 1..(Len(s) - 1) : checks'[j] = IF j < i THEN s[j] ELSE s[j + 1]
  <2>1. checks \in Seq(BadgeCheck)  BY <1>8, <1>9
  <2>2. /\ Without(checks, i) \in Seq(BadgeCheck) /\ Len(Without(checks, i)) = Len(checks) - 1
        /\ \A j \in 1..(Len(checks) - 1) : Without(checks, i)[j] = IF j < i THEN checks[j] ELSE checks[j + 1]
    BY <2>1, WithoutOne
  <2>3. QED  BY <1>8, <1>10, <2>2
<1>12. e \in Seq(Nat) /\ Len(e) \in Nat /\ DOMAIN e = 1..Len(e) /\ (e = << >> <=> Len(e) = 0) /\ \A j \in 1..Len(e) : e[j] \in Nat
  BY <1>1, <1>2, BadgeSeqs DEF BadgeTypes
<1>13. PICK x : x = Badge!NewLevel(q)  OBVIOUS
<1>14. o = IF ~Badge!Reaches(q.count, q.found + 1) THEN e ELSE IF q.found = 0 THEN Append(e, x) ELSE [e EXCEPT ![1] = x]
  BY <1>2, <1>13 DEF Badge!Write
<1>15. q.count <= p.peak  BY <1>1, <1>2 DEF BadgePeak
<1>16. PICK H : H = Badge!Highest(p.peak)  OBVIOUS
<1>17. H \in Nat /\ \A l \in 1..Len(BadgeLevels) : BadgeLevels[l] <= p.peak => l <= H  BY <1>3, <1>16, HighestIs, LevelsAre
<1>18. Badge!Reaches(q.count, q.found + 1) => x \in Nat /\ x > 0 /\ x <= H
  <2> HAVE Badge!Reaches(q.count, q.found + 1)
  <2>1. x \in (q.found + 1)..Len(BadgeLevels) /\ BadgeLevels[x] <= q.count  BY <1>4, <1>13, NewLevelIs
  <2>2. x \in 1..Len(BadgeLevels) /\ BadgeLevels[x] \in Nat  BY <1>4, <2>1, LevelsAre
  <2>3. BadgeLevels[x] <= p.peak  BY <1>3, <1>4, <1>15, <2>1, <2>2
  <2>4. QED  BY <1>17, <2>2, <2>3, LevelsAre
<1>19. o \in Seq(Nat) /\ \A j \in DOMAIN o : o[j] <= H
  <2>1. \A j \in 1..Len(e) : e[j] <= H  BY <1>1, <1>2, <1>12, <1>16 DEF Badge!NoneUnearned
  <2>2. CASE ~Badge!Reaches(q.count, q.found + 1)  BY <1>12, <1>14, <2>1, <2>2
  <2>3. CASE Badge!Reaches(q.count, q.found + 1) /\ q.found = 0
    <3>1. o = Append(e, x) /\ x \in Nat /\ x <= H  BY <1>14, <1>18, <2>3
    <3>2. /\ o \in Seq(Nat) /\ Len(o) = Len(e) + 1 /\ o[Len(e) + 1] = x /\ \A j \in 1..Len(e) : o[j] = e[j]
      BY <1>12, <3>1, Lengthened
    <3>3. DOMAIN o = 1..(Len(e) + 1)  BY <3>2, LenProperties
    <3>4. \A j \in 1..(Len(e) + 1) : j \in 1..Len(e) \/ j = Len(e) + 1  BY <1>12
    <3>5. QED  BY <2>1, <3>1, <3>2, <3>3, <3>4
  <2>4. CASE Badge!Reaches(q.count, q.found + 1) /\ q.found # 0
    <3>1. o = [e EXCEPT ![1] = x] /\ x \in Nat /\ x <= H  BY <1>14, <1>18, <2>4
    <3>2. e \in [1..Len(e) -> Nat]  BY <1>12
    <3>3. o \in [1..Len(e) -> Nat] /\ \A j \in 1..Len(e) : o[j] = x \/ o[j] = e[j]  BY <3>1, <3>2
    <3>4. o \in Seq(Nat)  BY <1>12, <3>3, FunctionSeq
    <3>5. QED  BY <2>1, <3>1, <3>3, <3>4
  <2>5. QED  BY <2>2, <2>3, <2>4
<1>20. BadgeTypes'
  <2>1. badgePast' \in BadgePast  BY <1>3, <1>6, <1>7 DEF BadgePast
  <2>2. QED  BY <1>1, <1>2, <1>10, <1>11, <1>19, <2>1 DEF BadgeTypes
<1>21. BadgePeak'
  <2>1. worth' <= badgePast'.peak  BY <1>1, <1>2, <1>7, <1>10 DEF BadgePeak
  <2>2. ASSUME NEW j \in 1..(Len(s) - 1) PROVE checks'[j].count <= p.peak
    <3>1. j \in 1..Len(s) /\ j + 1 \in 1..Len(s)  BY <1>9
    <3>2. s[j].count <= p.peak /\ s[j + 1].count <= p.peak  BY <1>1, <1>2, <1>8, <3>1 DEF BadgePeak
    <3>3. QED  BY <1>11, <3>2
  <2>3. badgePast'.peak = p.peak  BY <1>7
  <2>4. QED  BY <1>11, <2>1, <2>2, <2>3 DEF BadgePeak
<1>22. Badge!NoneUnearned'
  <2>1. badgePast'.peak = p.peak  BY <1>7
  <2>2. QED  BY <1>2, <1>16, <1>19, <2>1 DEF Badge!NoneUnearned, Badge!Highest
<1>23. BadgeAlone'
  <2> SUFFICES ASSUME ~badgePast'.overlapped PROVE Len(checks') <= 0
    BY <1>11 DEF BadgeAlone
  <2>1. Len(s) <= 1  BY <1>1, <1>2, <1>7, <1>8 DEF BadgeAlone
  <2>2. QED  BY <1>9, <1>11, <2>1
<1>24. Badge!LevelIsEarned'
  <2>1. PICK h, k : h = Badge!Highest(p.counted) /\ k = Badge!Highest(m)  OBVIOUS
  <2> SUFFICES ASSUME ~p.overlapped PROVE o = IF k = 0 THEN << >> ELSE <<k>>
    <3>1. badgePast'.overlapped = p.overlapped /\ badgePast'.counted = m  BY <1>7
    <3>2. QED  BY <1>2, <2>1, <3>1 DEF Badge!LevelIsEarned, Badge!Highest
  <2>2. e = IF h = 0 THEN << >> ELSE <<h>>  BY <1>1, <1>2, <2>1 DEF Badge!LevelIsEarned
  <2>3. q.found = IF e = << >> THEN 0 ELSE e[1]  BY <1>1, <1>2, <1>4 DEF BadgeAlone
  <2>4. q.found = h  BY <2>2, <2>3
  <2>5. k = IF Badge!Reaches(q.count, q.found + 1) THEN x ELSE q.found
    BY <1>3, <1>4, <1>6, <1>13, <2>1, <2>4, EarnedIs
  <2>6. CASE ~Badge!Reaches(q.count, q.found + 1)  BY <1>14, <2>2, <2>4, <2>5, <2>6
  <2>7. CASE Badge!Reaches(q.count, q.found + 1)
    <3>1. k = x /\ x > 0 /\ x \in Nat  BY <1>18, <2>5, <2>7
    <3>2. CASE h = 0
      <4>1. o = Append(<< >>, x)  BY <1>14, <2>2, <2>4, <2>7, <3>2
      <4>2. o = <<x>>  BY <4>1
      <4>3. QED  BY <3>1, <4>2
    <3>3. CASE h # 0
      <4>1. o = [<<h>> EXCEPT ![1] = x]  BY <1>14, <2>2, <2>4, <2>7, <3>3
      <4>2. o = <<x>>  BY <4>1
      <4>3. QED  BY <3>1, <4>2
    <3>4. QED  BY <3>2, <3>3
  <2>8. QED  BY <2>6, <2>7
<1>25. QED  BY <1>20, <1>21, <1>22, <1>23, <1>24 DEF BadgeInv

LEMMA BadgeStep == ASSUME BadgeInv, LevelsAssumption, Badge!Next \/ UNCHANGED badges PROVE BadgeInv'
<1>1. DOMAIN checks = 1..Len(checks)  BY BadgeSeqs DEF BadgeInv
<1>2. CASE \E i \in DOMAIN checks : Badge!Count(i) \/ Badge!Find(i) \/ Badge!Write(i)
  <2>1. PICK i \in 1..Len(checks) : Badge!Count(i) \/ Badge!Find(i) \/ Badge!Write(i)  BY <1>1, <1>2
  <2>2. QED  BY <2>1, BadgeCount, BadgeFind, BadgeWrite
<1>3. QED  BY <1>2, BadgeStays, BadgeEvent, BadgeUndo, BadgeCrash DEF Badge!Next

-----------------------------------------------------------------------------
(* The calendar *)

LEMMA DivMod == ASSUME NEW t \in Nat, NEW n \in Nat \ {0}
  PROVE  t \div n \in Nat /\ t % n \in 0..(n - 1) /\ t = ((t \div n) * n) + (t % n)
OBVIOUS

LEMMA TimesRise == ASSUME NEW a \in Int, NEW b \in Int, NEW n \in Nat, a < b PROVE a * n + n <= b * n
<1>1. PICK c : c = b - a - 1  OBVIOUS
<1>2. c \in Nat /\ b = a + 1 + c  BY <1>1
<1>3. b * n = a * n + n + c * n  BY <1>2
<1>4. c * n >= 0 /\ c * n \in Nat /\ a * n \in Int  BY <1>2
<1>5. QED  BY <1>3, <1>4

\* quotient and remainder are those of one number only
LEMMA OneWay == ASSUME NEW a \in Int, NEW b \in Int, NEW n \in Nat \ {0}, NEW x \in 0..(n - 1), NEW y \in 0..(n - 1),
                       a * n + x = b * n + y
  PROVE  a = b /\ x = y
<1>1. a * n \in Int /\ b * n \in Int  OBVIOUS
<1>2. ~(a < b)
  <2> SUFFICES ASSUME a < b PROVE FALSE  OBVIOUS
  <2>1. a * n + n <= b * n  BY TimesRise
  <2>2. QED  BY <1>1, <2>1
<1>3. ~(b < a)
  <2> SUFFICES ASSUME b < a PROVE FALSE  OBVIOUS
  <2>1. b * n + n <= a * n  BY TimesRise
  <2>2. QED  BY <1>1, <2>1
<1>4. a = b  BY <1>2, <1>3
<1>5. QED  BY <1>1, <1>4

LEMMA Back == ASSUME NEW d \in Nat, NEW n \in Nat \ {0}, NEW k \in 0..(n - 1)
  PROVE  (d * n + k) \div n = d /\ (d * n + k) % n = k
<1>1. PICK t : t = d * n + k  OBVIOUS
<1>2. t \in Nat  BY <1>1
<1>3. PICK e, y : e = t \div n /\ y = t % n  OBVIOUS
<1>4. e \in Nat /\ y \in 0..(n - 1) /\ t = e * n + y  BY <1>2, <1>3, DivMod
<1>5. e = d /\ y = k  BY <1>1, <1>4, OneWay
<1>6. QED  BY <1>1, <1>3, <1>5

LEMMA MomentIs == ASSUME ScheduleAssumption, NEW d \in Nat, NEW k \in 0..(Ticks - 1)
  PROVE  /\ Sched!Moment(d, k) \in Nat /\ Sched!Day(Sched!Moment(d, k)) = d /\ Sched!Tick(Sched!Moment(d, k)) = k
<1>1. Ticks \in Nat \ {0}  BY DEF ScheduleAssumption
<1>2. d * Ticks \in Nat  BY <1>1
<1>3. (d * Ticks + k) \div Ticks = d /\ (d * Ticks + k) % Ticks = k  BY <1>1, Back
<1>4. QED  BY <1>1, <1>2, <1>3 DEF Sched!Moment, Sched!Day, Sched!Tick

LEMMA MomentOf == ASSUME ScheduleAssumption, NEW t \in Nat
  PROVE  Sched!Day(t) \in Nat /\ Sched!Tick(t) \in 0..(Ticks - 1) /\ t = Sched!Moment(Sched!Day(t), Sched!Tick(t))
<1>1. Ticks \in Nat \ {0}  BY DEF ScheduleAssumption
<1>2. QED  BY <1>1, DivMod DEF Sched!Moment, Sched!Day, Sched!Tick

\* moments are in the order of their days, and those of a day in the order of their ticks
LEMMA MomentOrder == ASSUME ScheduleAssumption, NEW d \in Nat, NEW e \in Nat, NEW j \in 0..(Ticks - 1), NEW k \in 0..(Ticks - 1)
  PROVE  /\ Sched!Moment(d, j) \in Nat /\ Sched!Moment(e, k) \in Nat
         /\ d < e => Sched!Moment(d, j) < Sched!Moment(e, k)
         /\ d = e => (Sched!Moment(d, j) < Sched!Moment(e, k) <=> j < k)
         /\ e <= d + 1 /\ (e = d + 1 => k <= j) => Sched!Moment(e, k) - Sched!Moment(d, j) <= Ticks
<1>1. Ticks \in Nat \ {0}  BY DEF ScheduleAssumption
<1>2. PICK x, y, T : x = d * Ticks /\ y = e * Ticks /\ T = Ticks  OBVIOUS
<1>3. x \in Nat /\ y \in Nat /\ T \in Nat \ {0} /\ j \in 0..(T - 1) /\ k \in 0..(T - 1)  BY <1>1, <1>2
<1>4. Sched!Moment(d, j) = x + j /\ Sched!Moment(e, k) = y + k  BY <1>2 DEF Sched!Moment
<1>5. d < e => x + T <= y  BY <1>1, <1>2, TimesRise
<1>6. d = e => x = y  BY <1>2
<1>7. e < d => y + T <= x  BY <1>1, <1>2, TimesRise
<1>8. e = d + 1 => y = x + T  BY <1>1, <1>2
<1>9. x + j \in Nat /\ y + k \in Nat  BY <1>3
<1>10. d < e => x + j < y + k  BY <1>3, <1>5
<1>11. d = e => (x + j < y + k <=> j < k)  BY <1>3, <1>6
<1>12. e <= d + 1 /\ (e = d + 1 => k <= j) => (y + k) - (x + j) <= T
  <2>1. CASE e < d  BY <1>3, <1>7, <2>1
  <2>2. CASE e = d  BY <1>3, <1>6, <2>2
  <2>3. CASE e = d + 1  BY <1>3, <1>8, <2>3
  <2>4. QED  BY <2>1, <2>2, <2>3
<1>13. QED  BY <1>2, <1>4, <1>9, <1>10, <1>11, <1>12

\* within a week
LEMMA WeekIs == ASSUME ScheduleAssumption, NEW d \in Nat, NEW z \in 0..(Week - 1), NEW j \in 0..(Ticks - 1), NEW k \in 0..(Ticks - 1)
  PROVE  Sched!Moment(d + z, k) - Sched!Moment(d, j) <= Width
<1>1. Ticks \in Nat \ {0} /\ Week \in Nat \ {0, 1} /\ Width \in Nat  BY DEF ScheduleAssumption
<1>2. PICK x, y, w, T : x = d * Ticks /\ y = z * Ticks /\ w = Week * Ticks /\ T = Ticks  OBVIOUS
<1>3. x \in Nat /\ y \in Nat /\ w \in Nat  BY <1>1, <1>2
<1>4. y + T <= w  BY <1>1, <1>2, TimesRise
<1>5. (d + z) * Ticks = x + y  BY <1>1, <1>2
<1>6. w <= Width + 1  BY <1>2 DEF ScheduleAssumption
<1>7. Sched!Moment(d, j) = x + j /\ Sched!Moment(d + z, k) = x + y + k  BY <1>2, <1>5 DEF Sched!Moment
<1>8. j \in 0..(T - 1) /\ k \in 0..(T - 1) /\ T \in Nat  BY <1>1, <1>2
<1>9. QED  BY <1>1, <1>3, <1>4, <1>6, <1>7, <1>8

LEMMA DayFits == ASSUME ScheduleAssumption PROVE Ticks \in Nat \ {0} /\ Width \in Nat \ {0} /\ Ticks <= Width
<1>1. Ticks \in Nat \ {0} /\ Week \in Nat \ {0, 1} /\ Width \in Nat /\ Week * Ticks <= Width + 1  BY DEF ScheduleAssumption
<1>2. 1 * Ticks + Ticks <= Week * Ticks  BY <1>1, TimesRise
<1>3. PICK w : w = Week * Ticks  OBVIOUS
<1>4. w \in Nat /\ Ticks + Ticks <= w /\ w <= Width + 1  BY <1>1, <1>2, <1>3
<1>5. QED  BY <1>1, <1>4

\* each month is a long or a short one after the one before it
LEMMA MonthLength == ASSUME ScheduleAssumption, NEW m \in Nat
  PROVE  /\ Sched!FirstDay(m) \in Nat /\ m <= Sched!FirstDay(m)
         /\ Sched!FirstDay(m + 1) = Sched!FirstDay(m) + (IF m % 2 = 0 THEN Long ELSE Short)
         /\ Sched!FirstDay(m) < Sched!FirstDay(m + 1)
<1>1. Long \in Nat \ {0} /\ Short \in Nat \ {0}  BY DEF ScheduleAssumption
<1>2. PICK k, r, b : k = m \div 2 /\ r = m % 2 /\ b = Long + Short  OBVIOUS
<1>3. k \in Nat /\ r \in {0, 1} /\ m = 2 * k + r  BY <1>2
<1>4. b \in Nat /\ b >= 2  BY <1>1, <1>2
<1>5. k * b \in Nat /\ 2 * k <= k * b
  <2>1. PICK c : c = b - 2  OBVIOUS
  <2>2. c \in Nat /\ b = 2 + c  BY <1>4, <2>1
  <2>3. k * b = 2 * k + k * c  BY <1>3, <2>2
  <2>4. k * c \in Nat  BY <1>3, <2>2
  <2>5. QED  BY <1>3, <2>3, <2>4
<1>6. Sched!FirstDay(m) = k * b + r * Long  BY <1>2 DEF Sched!FirstDay
<1>7. CASE r = 0
  <2>1. (m + 1) \div 2 = k /\ (m + 1) % 2 = 1  BY <1>3, <1>7
  <2>2. Sched!FirstDay(m + 1) = k * b + Long /\ Sched!FirstDay(m) = k * b  BY <1>1, <1>2, <1>5, <1>6, <1>7, <2>1 DEF Sched!FirstDay
  <2>3. m % 2 = 0  BY <1>2, <1>7
  <2>4. QED  BY <1>1, <1>3, <1>5, <1>7, <2>2, <2>3
<1>8. CASE r = 1
  <2>1. (m + 1) \div 2 = k + 1 /\ (m + 1) % 2 = 0  BY <1>3, <1>8
  <2>2. (k + 1) * b = k * b + b  BY <1>3, <1>4
  <2>3. Sched!FirstDay(m + 1) = k * b + b /\ Sched!FirstDay(m) = k * b + Long  BY <1>1, <1>2, <1>4, <1>5, <1>6, <1>8, <2>1, <2>2 DEF Sched!FirstDay
  <2>4. m % 2 = 1  BY <1>2, <1>8
  <2>5. QED  BY <1>1, <1>2, <1>3, <1>5, <1>8, <2>3, <2>4
<1>9. QED  BY <1>3, <1>7, <1>8

\* a month begins when those before it are over
LEMMA MonthsFollow == ASSUME ScheduleAssumption, NEW m \in Nat, NEW n \in Nat, m < n PROVE Sched!FirstDay(m + 1) <= Sched!FirstDay(n)
<1>1. PICK I : I = {k \in Nat : k > m /\ ~(Sched!FirstDay(m + 1) <= Sched!FirstDay(k))}  OBVIOUS
<1>2. ASSUME I # {} PROVE FALSE
  <2>1. I \in SUBSET Nat  BY <1>1
  <2>2. PICK k \in I : \A y \in I : k <= y  BY <1>2, <2>1, Smallest
  <2>3. k \in Nat /\ k > m /\ ~(Sched!FirstDay(m + 1) <= Sched!FirstDay(k))  BY <1>1, <2>2
  <2>4. Sched!FirstDay(m + 1) \in Nat /\ Sched!FirstDay(k) \in Nat  BY <2>3, MonthLength
  <2>5. k # m + 1  BY <2>3, <2>4
  <2>6. k - 1 \in Nat /\ k - 1 > m /\ ~(k <= k - 1)  BY <2>3, <2>5
  <2>7. Sched!FirstDay(m + 1) <= Sched!FirstDay(k - 1)  BY <1>1, <2>2, <2>6
  <2>8. Sched!FirstDay(k - 1) \in Nat /\ Sched!FirstDay(k - 1) < Sched!FirstDay((k - 1) + 1)  BY <2>6, MonthLength
  <2>9. (k - 1) + 1 = k  BY <2>3
  <2>10. Sched!FirstDay(k - 1) < Sched!FirstDay(k)  BY <2>8, <2>9
  <2>11. QED  BY <2>3, <2>4, <2>7, <2>8, <2>10
<1>3. QED  BY <1>1, <1>2

LEMMA MonthIs == ASSUME ScheduleAssumption, NEW t \in Nat, Sched!Day(t) <= MaxDays
  PROVE  /\ Sched!Month(t) \in 0..MaxDays
         /\ Sched!FirstDay(Sched!Month(t)) <= Sched!Day(t) /\ Sched!Day(t) < Sched!FirstDay(Sched!Month(t) + 1)
<1>1. PICK d, I : d = Sched!Day(t) /\ I = {m \in Nat : d < Sched!FirstDay(m + 1)}  OBVIOUS
<1>2. d \in Nat /\ MaxDays \in Nat  BY <1>1, MomentOf DEF ScheduleAssumption
<1>3. d \in I
  <2>1. d + 1 \in Nat  BY <1>2
  <2>2. Sched!FirstDay(d + 1) \in Nat /\ d + 1 <= Sched!FirstDay(d + 1)  BY <2>1, MonthLength
  <2>3. QED  BY <1>1, <1>2, <2>2
<1>4. I \in SUBSET Nat  BY <1>1
<1>5. PICK m \in I : \A y \in I : m <= y  BY <1>3, <1>4, Smallest
<1>6. m \in Nat /\ m <= d /\ d < Sched!FirstDay(m + 1)  BY <1>1, <1>3, <1>5
<1>7. Sched!FirstDay(m) <= d
  <2>1. CASE m = 0
    <3>1. 0 \div 2 = 0 /\ 0 % 2 = 0  OBVIOUS
    <3>2. Sched!FirstDay(0) = 0 * (Long + Short) + 0 * Long  BY <3>1 DEF Sched!FirstDay
    <3>3. Sched!FirstDay(0) = 0  BY <3>2 DEF ScheduleAssumption
    <3>4. QED  BY <1>2, <2>1, <3>3
  <2>2. CASE m # 0
    <3>1. m - 1 \in Nat /\ (m - 1) + 1 = m /\ ~(m <= m - 1)  BY <1>6, <2>2
    <3>2. m - 1 \notin I  BY <1>5, <3>1
    <3>3. ~(d < Sched!FirstDay(m))  BY <1>1, <3>1, <3>2
    <3>4. Sched!FirstDay(m) \in Nat  BY <1>6, MonthLength
    <3>5. QED  BY <1>2, <3>3, <3>4
  <2>3. QED  BY <2>1, <2>2
<1>8. m \in 0..MaxDays  BY <1>1, <1>2, <1>6
<1>9. \E n \in 0..MaxDays : Sched!FirstDay(n) <= Sched!Day(t) /\ Sched!Day(t) < Sched!FirstDay(n + 1)  BY <1>1, <1>6, <1>7, <1>8
<1>10. QED  BY <1>9 DEF Sched!Month

LEMMA MonthOnly == ASSUME ScheduleAssumption, NEW t \in Nat, Sched!Day(t) <= MaxDays, NEW m \in Nat,
                          Sched!FirstDay(m) <= Sched!Day(t), Sched!Day(t) < Sched!FirstDay(m + 1)
  PROVE  Sched!Month(t) = m
<1>1. PICK n, d : n = Sched!Month(t) /\ d = Sched!Day(t)  OBVIOUS
<1>2. MaxDays \in Nat /\ d \in Nat  BY <1>1, MomentOf DEF ScheduleAssumption
<1>3. n \in Nat /\ Sched!FirstDay(n) <= d /\ d < Sched!FirstDay(n + 1)  BY <1>1, <1>2, MonthIs
<1>4. /\ Sched!FirstDay(n) \in Nat /\ Sched!FirstDay(m) \in Nat
      /\ Sched!FirstDay(n + 1) \in Nat /\ Sched!FirstDay(m + 1) \in Nat
  BY <1>3, MonthLength
<1>5. ~(n < m)
  <2> SUFFICES ASSUME n < m PROVE FALSE  OBVIOUS
  <2>1. Sched!FirstDay(n + 1) <= Sched!FirstDay(m)  BY <1>3, MonthsFollow
  <2>2. QED  BY <1>1, <1>2, <1>3, <1>4, <2>1
<1>6. ~(m < n)
  <2> SUFFICES ASSUME m < n PROVE FALSE  OBVIOUS
  <2>1. Sched!FirstDay(m + 1) <= Sched!FirstDay(n)  BY <1>3, MonthsFollow
  <2>2. QED  BY <1>1, <1>2, <1>3, <1>4, <2>1
<1>7. QED  BY <1>1, <1>3, <1>5, <1>6

LEMMA MonthsRise == ASSUME ScheduleAssumption, NEW t \in Nat, NEW u \in Nat, t <= u, Sched!Day(u) <= MaxDays
  PROVE  Sched!Day(t) <= Sched!Day(u) /\ Sched!Month(t) <= Sched!Month(u)
<1>1. PICK d, e, m, n : d = Sched!Day(t) /\ e = Sched!Day(u) /\ m = Sched!Month(t) /\ n = Sched!Month(u)  OBVIOUS
<1>2. MaxDays \in Nat /\ d \in Nat /\ e \in Nat  BY <1>1, MomentOf DEF ScheduleAssumption
<1>3. d <= e
  <2> SUFFICES ASSUME e < d PROVE FALSE  BY <1>2
  <2>1. Sched!Tick(t) \in 0..(Ticks - 1) /\ t = Sched!Moment(d, Sched!Tick(t))  BY <1>1, MomentOf
  <2>2. Sched!Tick(u) \in 0..(Ticks - 1) /\ u = Sched!Moment(e, Sched!Tick(u))  BY <1>1, MomentOf
  <2>3. u < t  BY <1>2, <2>1, <2>2, MomentOrder
  <2>4. QED  BY <2>3
<1>4. d <= MaxDays  BY <1>1, <1>2, <1>3
<1>5. m \in Nat /\ Sched!FirstDay(m) <= d /\ d < Sched!FirstDay(m + 1)  BY <1>1, <1>2, <1>4, MonthIs
<1>6. n \in Nat /\ Sched!FirstDay(n) <= e /\ e < Sched!FirstDay(n + 1)  BY <1>1, <1>2, MonthIs
<1>7. ~(n < m)
  <2> SUFFICES ASSUME n < m PROVE FALSE  OBVIOUS
  <2>1. Sched!FirstDay(n + 1) <= Sched!FirstDay(m)  BY <1>5, <1>6, MonthsFollow
  <2>2. Sched!FirstDay(n + 1) \in Nat /\ Sched!FirstDay(m) \in Nat  BY <1>5, <1>6, MonthLength
  <2>3. QED  BY <1>2, <1>3, <1>5, <1>6, <2>1, <2>2
<1>8. QED  BY <1>1, <1>3, <1>5, <1>6, <1>7

-----------------------------------------------------------------------------
(* Jobs: when they run next *)

LastTick == Sched!Moment(MaxDays, 0)

OnTime(t) ==
    \/ Sched!Fits(t)
    \/ job.every = "weekday" /\ \E u \in {t, t - 1} : u >= 0 /\ Sched!Weekday(u) = job.day /\ Sched!Tick(u) >= job.at
    \/ job.every = "month" /\ (job.day > Short \/ Sched!NextMonthday(t) - t >= Width)

\* the timer has no time to wait
AtOnce(t) == Sched!Later(t) <= t \/ Sched!Later(t) - t > Width

\* the moment of a monthly job in a month
Monthly(m) == Sched!Moment(Sched!FirstDay(m) + job.day - 1, job.at)

LEMMA JobIs == ASSUME ScheduleAssumption, job \in Sched!Jobs
  PROVE  /\ job.every \in {"day", "weekday", "month", "gap", "count"}
         /\ job.every \in {"day", "weekday", "month"} => job.at \in 0..(Ticks - 1)
         /\ job.every = "weekday" => job.day \in 0..(Week - 1)
         /\ job.every = "month" => job.day \in 1..Long
         /\ job.every \in {"gap", "count"} => job.at \in 1..Ticks
<1>1. CASE job \in [every : {"day"}, day : {0}, at : 0..Ticks - 1]  BY <1>1
<1>2. CASE job \in [every : {"weekday"}, day : 0..Week - 1, at : 0..Ticks - 1]  BY <1>2
<1>3. CASE job \in [every : {"month"}, day : 1..Long, at : 0..Ticks - 1]  BY <1>3
<1>4. CASE job \in [every : {"gap", "count"}, day : {0}, at : 1..Ticks]  BY <1>4
<1>5. QED  BY <1>1, <1>2, <1>3, <1>4 DEF Sched!Jobs

LEMMA LastTickIs == ASSUME ScheduleAssumption, NEW t \in 0..LastTick PROVE LastTick \in Nat /\ t \in Nat /\ Sched!Day(t) <= MaxDays
<1>1. MaxDays \in Nat /\ 0 \in 0..(Ticks - 1)  BY DEF ScheduleAssumption
<1>2. LastTick \in Nat /\ Sched!Day(LastTick) = MaxDays  BY <1>1, MomentIs DEF LastTick
<1>3. t \in Nat /\ t <= LastTick  BY <1>2
<1>4. Sched!Day(t) <= Sched!Day(LastTick)  BY <1>1, <1>2, <1>3, MonthsRise
<1>5. QED  BY <1>2, <1>3, <1>4

\* every day
LEMMA DailyLater == ASSUME ScheduleAssumption, job \in Sched!Jobs, job.every = "day", NEW t \in Nat
  PROVE  /\ Sched!Later(t) \in Nat /\ Sched!Later(t) > t /\ Sched!Later(t) - t <= Width /\ Sched!Fits(Sched!Later(t))
         /\ \A u \in Nat : t < u /\ u < Sched!Later(t) => ~Sched!Fits(u)
<1>1. PICK d, k, a, n : /\ d = Sched!Day(t) /\ k = Sched!Tick(t) /\ a = job.at
                        /\ n = IF k < a THEN d ELSE d + 1
  OBVIOUS
<1>2. d \in Nat /\ k \in 0..(Ticks - 1) /\ t = Sched!Moment(d, k)  BY <1>1, MomentOf
<1>3. a \in 0..(Ticks - 1) /\ Ticks \in Nat \ {0} /\ Ticks <= Width /\ Width \in Nat  BY <1>1, JobIs, DayFits
<1>4. Sched!Later(t) = Sched!Moment(n, a)  BY <1>1 DEF Sched!Later, Sched!NextDay
<1>5. n \in Nat /\ n <= d + 1 /\ (n = d + 1 => a <= k) /\ (n = d => k < a) /\ (n = d \/ n = d + 1)  BY <1>1, <1>2, <1>3
<1>6. Sched!Moment(n, a) \in Nat /\ Sched!Tick(Sched!Moment(n, a)) = a  BY <1>3, <1>5, MomentIs
<1>7. t < Sched!Moment(n, a) /\ Sched!Moment(n, a) - t <= Ticks
  <2>1. Sched!Moment(n, a) - Sched!Moment(d, k) <= Ticks  BY <1>2, <1>3, <1>5, MomentOrder
  <2>2. Sched!Moment(d, k) < Sched!Moment(n, a)
    <3>1. CASE n = d  BY <1>2, <1>3, <1>5, <3>1, MomentOrder
    <3>2. CASE n = d + 1
      <4>1. d < n  BY <1>2, <3>2
      <4>2. QED  BY <1>2, <1>3, <1>5, <4>1, MomentOrder
    <3>3. QED  BY <1>5, <3>1, <3>2
  <2>3. QED  BY <1>2, <2>1, <2>2
<1>8. ASSUME NEW u \in Nat, t < u, u < Sched!Moment(n, a), Sched!Fits(u) PROVE FALSE
  <2>1. PICK e : e = Sched!Day(u)  OBVIOUS
  <2>2. e \in Nat /\ u = Sched!Moment(e, a)
    <3>1. Sched!Tick(u) = a  BY <1>1, <1>8 DEF Sched!Fits
    <3>2. QED  BY <2>1, <3>1, MomentOf
  <2>3. ~(n < e) /\ n # e
    <3>1. ~(n < e)
      <4> SUFFICES ASSUME n < e PROVE FALSE  OBVIOUS
      <4>1. Sched!Moment(n, a) < u  BY <1>3, <1>5, <2>2, MomentOrder
      <4>2. QED  BY <1>6, <1>8, <4>1
    <3>2. n # e  BY <1>6, <1>8, <2>2
    <3>3. QED  BY <3>1, <3>2
  <2>4. ~(e < d)
    <3> SUFFICES ASSUME e < d PROVE FALSE  OBVIOUS
    <3>1. u < t  BY <1>2, <1>3, <2>2, MomentOrder
    <3>2. QED  BY <1>8, <3>1
  <2>5. n = d + 1 /\ e = d  BY <1>2, <1>5, <2>2, <2>3, <2>4
  <2>6. k < a  BY <1>2, <1>3, <1>8, <2>2, <2>5, MomentOrder
  <2>7. QED  BY <1>2, <1>3, <1>5, <2>5, <2>6
<1>9. Sched!Fits(Sched!Moment(n, a))  BY <1>1, <1>6 DEF Sched!Fits
<1>10. Sched!Moment(n, a) - t <= Width  BY <1>3, <1>6, <1>7
<1>11. QED  BY <1>4, <1>6, <1>7, <1>8, <1>9, <1>10

\* the days of a week from one to the next of its name
DaysTo(n, d, j) == (j + n - (d % n)) % n

LEMMA WeekdayIs == ASSUME NEW n \in Nat \ {0}, NEW d \in Nat, NEW j \in 0..(n - 1)
  PROVE  /\ DaysTo(n, d, j) \in 0..(n - 1) /\ (d + DaysTo(n, d, j)) % n = j
         /\ \A y \in Nat : y < DaysTo(n, d, j) => (d + y) % n # j
<1> SUFFICES ASSUME NEW z, z = (j + n - (d % n)) % n
             PROVE  /\ z \in 0..(n - 1) /\ (d + z) % n = j
                    /\ \A y \in Nat : y < z => (d + y) % n # j
  BY Zenon DEF DaysTo
<1>1. PICK q, x : q = d \div n /\ x = d % n  OBVIOUS
<1>2. q \in Nat /\ x \in 0..(n - 1) /\ d = q * n + x /\ q * n \in Nat  BY <1>1, DivMod
<1>3. j + n - x \in Nat  BY <1>2
<1>4. z \in 0..(n - 1)  BY <1>1, <1>3, DivMod
<1>5. CASE j < x
  <2>1. j + n - x \in 0..(n - 1)  BY <1>2, <1>5
  <2>2. (0 * n + (j + n - x)) % n = j + n - x  BY <2>1, Back
  <2>3. z = j + n - x
    <3>1. 0 * n + (j + n - x) = j + n - x  BY <1>3
    <3>2. QED  BY <1>1, <2>2, <3>1
  <2>4. d + z = (q + 1) * n + j
    <3>1. (q + 1) * n = q * n + n  BY <1>2
    <3>2. QED  BY <1>2, <2>3, <3>1
  <2>5. (d + z) % n = j
    <3>1. q + 1 \in Nat  BY <1>2
    <3>2. ((q + 1) * n + j) % n = j  BY <3>1, Back
    <3>3. QED  BY <2>4, <3>2
  <2>6. ASSUME NEW y \in Nat, y < z PROVE (d + y) % n # j
    <3>1. CASE x + y < n
      <4>1. x + y \in 0..(n - 1) /\ d + y = q * n + (x + y)  BY <1>2, <3>1
      <4>2. (q * n + (x + y)) % n = x + y  BY <1>2, <4>1, Back
      <4>3. (d + y) % n = x + y  BY <4>1, <4>2
      <4>4. QED  BY <1>2, <1>5, <4>3
    <3>2. CASE ~(x + y < n)
      <4>1. x + y - n \in 0..(n - 1) /\ x + y - n < j  BY <1>2, <1>4, <2>3, <2>6, <3>2
      <4>2. d + y = (q + 1) * n + (x + y - n)
        <5>1. (q + 1) * n = q * n + n  BY <1>2
        <5>2. QED  BY <1>2, <5>1
      <4>3. (d + y) % n = x + y - n
        <5>1. q + 1 \in Nat  BY <1>2
        <5>2. ((q + 1) * n + (x + y - n)) % n = x + y - n  BY <4>1, <5>1, Back
        <5>3. QED  BY <4>2, <5>2
      <4>4. QED  BY <4>1, <4>3
    <3>3. QED  BY <3>1, <3>2
  <2>7. QED  BY <1>4, <2>5, <2>6
<1>6. CASE ~(j < x)
  <2>1. j - x \in 0..(n - 1)  BY <1>2, <1>6
  <2>2. (1 * n + (j - x)) % n = j - x  BY <2>1, Back
  <2>3. z = j - x
    <3>1. 1 * n + (j - x) = j + n - x  BY <1>2
    <3>2. QED  BY <1>1, <2>2, <3>1
  <2>4. d + z = q * n + j  BY <1>2, <2>3
  <2>5. (d + z) % n = j
    <3>1. (q * n + j) % n = j  BY <1>2, Back
    <3>2. QED  BY <2>4, <3>1
  <2>6. ASSUME NEW y \in Nat, y < z PROVE (d + y) % n # j
    <3>1. x + y \in 0..(n - 1) /\ d + y = q * n + (x + y) /\ x + y < j  BY <1>2, <2>3, <2>6
    <3>2. (q * n + (x + y)) % n = x + y  BY <1>2, <3>1, Back
    <3>3. (d + y) % n = x + y  BY <3>1, <3>2
    <3>4. QED  BY <3>1, <3>3
  <2>7. QED  BY <1>4, <2>5, <2>6
<1>7. QED  BY <1>5, <1>6

\* once a week: the time may have passed, and the day be this one
LEMMA WeeklyLater == ASSUME ScheduleAssumption, job \in Sched!Jobs, job.every = "weekday", NEW t \in Nat
  PROVE  /\ Sched!Later(t) \in Nat /\ Sched!Later(t) - t <= Width /\ Sched!Fits(Sched!Later(t))
         /\ Sched!Later(t) <= t => Sched!Weekday(t) = job.day /\ Sched!Tick(t) >= job.at
         /\ \A u \in Nat : t < u /\ u < Sched!Later(t) => ~Sched!Fits(u)
<1>1. PICK d, k, a, z : /\ d = Sched!Day(t) /\ k = Sched!Tick(t) /\ a = job.at
                        /\ z = (job.day + Week - (d % Week)) % Week
  OBVIOUS
<1>2. d \in Nat /\ k \in 0..(Ticks - 1) /\ t = Sched!Moment(d, k)  BY <1>1, MomentOf
<1>3. a \in 0..(Ticks - 1) /\ job.day \in 0..(Week - 1) /\ Week \in Nat \ {0} /\ Ticks \in Nat \ {0}
  BY <1>1, JobIs DEF ScheduleAssumption
<1>4. z \in 0..(Week - 1) /\ (d + z) % Week = job.day /\ \A y \in Nat : y < z => (d + y) % Week # job.day
  <2>1. PICK j, n : j = job.day /\ n = Week  OBVIOUS
  <2>2. n \in Nat \ {0} /\ j \in 0..(n - 1) /\ z = DaysTo(n, d, j)  BY <1>1, <1>3, <2>1 DEF DaysTo
  <2>3. /\ DaysTo(n, d, j) \in 0..(n - 1) /\ (d + DaysTo(n, d, j)) % n = j
        /\ \A y \in Nat : y < DaysTo(n, d, j) => (d + y) % n # j
    BY <1>2, <2>2, WeekdayIs
  <2>4. QED  BY <2>1, <2>2, <2>3
<1>5. Sched!Later(t) = Sched!Moment(d + z, a)  BY <1>1 DEF Sched!Later, Sched!NextWeekday, Sched!Weekday
<1>6. d + z \in Nat  BY <1>2, <1>3, <1>4
<1>7. Sched!Moment(d + z, a) \in Nat /\ Sched!Tick(Sched!Moment(d + z, a)) = a /\ Sched!Day(Sched!Moment(d + z, a)) = d + z
  BY <1>3, <1>6, MomentIs
<1>8. Sched!Fits(Sched!Moment(d + z, a))  BY <1>1, <1>4, <1>7 DEF Sched!Fits, Sched!Weekday
<1>9. Sched!Moment(d + z, a) - t <= Width  BY <1>2, <1>3, <1>4, WeekIs
<1>10. ASSUME Sched!Moment(d + z, a) <= t PROVE Sched!Weekday(t) = job.day /\ Sched!Tick(t) >= job.at
  <2>1. ~(d < d + z)
    <3> SUFFICES ASSUME d < d + z PROVE FALSE  OBVIOUS
    <3>1. t < Sched!Moment(d + z, a)  BY <1>2, <1>3, <1>6, MomentOrder
    <3>2. QED  BY <1>2, <1>7, <1>10, <3>1
  <2>2. z = 0 /\ d + z = d  BY <1>2, <1>3, <1>4, <2>1
  <2>3. ~(k < a)
    <3> SUFFICES ASSUME k < a PROVE FALSE  OBVIOUS
    <3>1. t < Sched!Moment(d + z, a)  BY <1>2, <1>3, <2>2, MomentOrder
    <3>2. QED  BY <1>2, <1>7, <1>10, <3>1
  <2>4. d % Week = job.day  BY <1>4, <2>2
  <2>5. k >= a  BY <1>2, <1>3, <2>3
  <2>6. QED  BY <1>1, <2>4, <2>5 DEF Sched!Weekday
<1>11. ASSUME NEW u \in Nat, t < u, u < Sched!Moment(d + z, a), Sched!Fits(u) PROVE FALSE
  <2>1. PICK e : e = Sched!Day(u)  OBVIOUS
  <2>2. e \in Nat /\ u = Sched!Moment(e, a) /\ e % Week = job.day
    <3>1. Sched!Tick(u) = a /\ Sched!Weekday(u) = job.day  BY <1>1, <1>11 DEF Sched!Fits
    <3>2. QED  BY <2>1, <3>1, MomentOf DEF Sched!Weekday
  <2>3. ~(d + z < e)
    <3> SUFFICES ASSUME d + z < e PROVE FALSE  OBVIOUS
    <3>1. Sched!Moment(d + z, a) < u  BY <1>3, <1>6, <2>2, MomentOrder
    <3>2. QED  BY <1>7, <1>11, <3>1
  <2>4. d + z # e  BY <1>7, <1>11, <2>2
  <2>5. ~(e < d)
    <3> SUFFICES ASSUME e < d PROVE FALSE  OBVIOUS
    <3>1. u < t  BY <1>2, <1>3, <2>2, MomentOrder
    <3>2. QED  BY <1>11, <3>1
  <2>6. e - d \in Nat /\ e - d < z /\ d + (e - d) = e  BY <1>2, <1>3, <1>4, <2>2, <2>3, <2>4, <2>5
  <2>7. QED  BY <1>4, <2>2, <2>6
<1>12. QED  BY <1>5, <1>7, <1>8, <1>9, <1>10, <1>11

\* at every multiple of a gap
LEMMA GapLater == ASSUME ScheduleAssumption, job \in Sched!Jobs, job.every = "gap", NEW t \in Nat
  PROVE  /\ Sched!Later(t) \in Nat /\ Sched!Later(t) > t /\ Sched!Later(t) - t <= Width /\ Sched!Fits(Sched!Later(t))
         /\ \A u \in Nat : t < u /\ u < Sched!Later(t) => ~Sched!Fits(u)
<1>1. PICK a, p : a = job.at /\ p = t \div a  OBVIOUS
<1>2. a \in 1..Ticks /\ a \in Nat \ {0} /\ a <= Width /\ Width \in Nat  BY <1>1, JobIs, DayFits
<1>3. p \in Nat /\ t % a \in 0..(a - 1) /\ t = (p * a) + (t % a)  BY <1>1, <1>2, DivMod
<1>4. PICK l : l = (p + 1) * a  OBVIOUS
<1>5. Sched!Later(t) = l  BY <1>1, <1>4 DEF Sched!Later
<1>6. p * a \in Nat /\ l = p * a + a /\ l \in Nat  BY <1>2, <1>3, <1>4
<1>7. PICK r : r = t % a  OBVIOUS
<1>8. t < l /\ l - t <= Width  BY <1>2, <1>3, <1>6, <1>7
<1>9. Sched!Fits(l)
  <2>1. ((p + 1) * a + 0) % a = 0
    <3>1. p + 1 \in Nat /\ 0 \in 0..(a - 1)  BY <1>2, <1>3
    <3>2. QED  BY <1>2, <3>1, Back
  <2>2. (p + 1) * a + 0 = l  BY <1>4, <1>6
  <2>3. l % a = 0  BY <2>1, <2>2
  <2>4. QED  BY <1>1, <2>3 DEF Sched!Fits
<1>10. ASSUME NEW u \in Nat, t < u, u < l, Sched!Fits(u) PROVE FALSE
  <2>1. PICK q : q = u \div a  OBVIOUS
  <2>2. u % a = 0  BY <1>1, <1>10 DEF Sched!Fits
  <2>3. q \in Nat /\ u = (q * a) + (u % a)  BY <1>2, <2>1, DivMod
  <2>4. q * a \in Nat /\ u = q * a  BY <1>2, <2>2, <2>3
  <2>5. ~(p < q)
    <3> SUFFICES ASSUME p < q PROVE FALSE  OBVIOUS
    <3>1. p * a + a <= q * a  BY <1>2, <1>3, <2>3, TimesRise
    <3>2. QED  BY <1>6, <1>10, <2>4, <3>1
  <2>6. q = p \/ q < p  BY <1>3, <2>3, <2>5
  <2>7. CASE q = p  BY <1>3, <1>6, <1>7, <1>10, <2>4, <2>7
  <2>8. CASE q < p
    <3>1. q * a + a <= p * a  BY <1>2, <1>3, <2>3, <2>8, TimesRise
    <3>2. QED  BY <1>2, <1>3, <1>6, <1>7, <1>10, <2>4, <3>1
  <2>9. QED  BY <2>6, <2>7, <2>8
<1>11. QED  BY <1>5, <1>6, <1>8, <1>9, <1>10

\* after a time
LEMMA CountLater == ASSUME ScheduleAssumption, job \in Sched!Jobs, job.every = "count", NEW t \in Nat
  PROVE  Sched!Later(t) \in Nat /\ Sched!Later(t) > t /\ Sched!Later(t) - t <= Width /\ \A u : Sched!Fits(u)
<1>1. job.at \in 1..Ticks /\ Ticks \in Nat /\ Ticks <= Width /\ Width \in Nat  BY JobIs, DayFits
<1>2. Sched!Later(t) = t + job.at  BY DEF Sched!Later
<1>3. \A u : Sched!Fits(u)  BY DEF Sched!Fits
<1>4. QED  BY <1>1, <1>2, <1>3

LEMMA MonthlyIs == ASSUME ScheduleAssumption, job \in Sched!Jobs, job.every = "month", NEW m \in Nat
  PROVE  Monthly(m) \in Nat /\ Sched!FirstDay(m) + job.day - 1 \in Nat
<1>1. job.at \in 0..(Ticks - 1) /\ job.day \in 1..Long /\ Long \in Nat  BY JobIs DEF ScheduleAssumption
<1>2. PICK d : d = Sched!FirstDay(m) + job.day - 1  OBVIOUS
<1>3. d \in Nat
  <2>1. Sched!FirstDay(m) \in Nat  BY MonthLength
  <2>2. QED  BY <1>1, <1>2, <2>1
<1>4. Sched!Moment(d, job.at) \in Nat  BY <1>1, <1>3, MomentIs
<1>5. QED  BY <1>2, <1>3, <1>4 DEF Monthly

\* the moments of a monthly job are in the order of their months
LEMMA MonthlyRise == ASSUME ScheduleAssumption, job \in Sched!Jobs, job.every = "month", NEW m \in Nat, NEW n \in Nat, m < n
  PROVE  Monthly(m) < Monthly(n)
<1>1. job.at \in 0..(Ticks - 1) /\ job.day \in 1..Long /\ Long \in Nat  BY JobIs DEF ScheduleAssumption
<1>2. PICK d, e : d = Sched!FirstDay(m) + job.day - 1 /\ e = Sched!FirstDay(n) + job.day - 1  OBVIOUS
<1>3. d \in Nat /\ e \in Nat  BY <1>2, MonthlyIs
<1>4. d < e
  <2>1. Sched!FirstDay(m + 1) <= Sched!FirstDay(n)  BY MonthsFollow
  <2>2. Sched!FirstDay(m) \in Nat /\ Sched!FirstDay(m + 1) \in Nat /\ Sched!FirstDay(m) < Sched!FirstDay(m + 1)  BY MonthLength
  <2>3. Sched!FirstDay(n) \in Nat  BY MonthLength
  <2>4. QED  BY <1>1, <1>2, <2>1, <2>2, <2>3
<1>5. Sched!Moment(d, job.at) < Sched!Moment(e, job.at)  BY <1>1, <1>3, <1>4, MomentOrder
<1>6. QED  BY <1>2, <1>5 DEF Monthly

\* once a month: in the month which is, or in the one after it if this month's moment is over
LEMMA MonthlyLater == ASSUME ScheduleAssumption, job \in Sched!Jobs, job.every = "month", NEW t \in 0..LastTick
  PROVE  /\ Sched!Month(t) \in Nat
         /\ \E n \in {Sched!Month(t), Sched!Month(t) + 1} :
              /\ Sched!Later(t) = Monthly(n)
              /\ n = Sched!Month(t) + 1 => Monthly(Sched!Month(t)) <= t
         /\ Sched!Later(t) \in Nat /\ Sched!Later(t) > t
<1>1. PICK d, k, m, a, f : /\ d = Sched!Day(t) /\ k = Sched!Tick(t) /\ m = Sched!Month(t) /\ a = job.at
                           /\ f = Sched!FirstDay(m)
  OBVIOUS
<1>2. t \in Nat /\ d <= MaxDays  BY <1>1, LastTickIs
<1>3. d \in Nat /\ k \in 0..(Ticks - 1) /\ t = Sched!Moment(d, k)  BY <1>1, <1>2, MomentOf
<1>4. m \in Nat /\ f <= d /\ d < Sched!FirstDay(m + 1)
  <2>1. MaxDays \in Nat  BY DEF ScheduleAssumption
  <2>2. QED  BY <1>1, <1>2, <2>1, MonthIs
<1>5. f \in Nat /\ Sched!FirstDay(m + 1) \in Nat  BY <1>1, <1>4, MonthLength
<1>6. a \in 0..(Ticks - 1) /\ job.day \in 1..Long /\ Long \in Nat /\ Ticks \in Nat  BY <1>1, JobIs DEF ScheduleAssumption
<1>7. PICK y, D : y = job.day /\ D = d - f + 1  OBVIOUS
<1>8. y \in 1..Long /\ D \in Nat /\ Sched!DayOfMonth(t) = D
  <2>1. Sched!DayOfMonth(t) = D  BY <1>1, <1>7 DEF Sched!DayOfMonth
  <2>2. D \in Nat  BY <1>3, <1>4, <1>5, <1>7
  <2>3. QED  BY <1>6, <1>7, <2>1, <2>2
<1>9. Sched!Later(t) = IF D = y /\ k < a THEN Sched!Moment(d, a)
                       ELSE Sched!Moment(Sched!FirstDay(m + (IF D < y THEN 0 ELSE 1)) + y - 1, a)
  BY <1>1, <1>7, <1>8 DEF Sched!Later, Sched!NextMonthday
<1>10. PICK b : b = f + y - 1  OBVIOUS
<1>11. b \in Nat /\ Monthly(m) = Sched!Moment(b, a) /\ (b = d <=> D = y) /\ (d < b <=> D < y)
  <2>1. b \in Nat /\ (b = d <=> D = y) /\ (d < b <=> D < y)  BY <1>3, <1>5, <1>6, <1>7, <1>8, <1>10
  <2>2. QED  BY <1>1, <1>7, <1>10, <2>1 DEF Monthly
<1>12. Sched!Moment(b, a) \in Nat  BY <1>6, <1>11, MomentIs
<1>13. CASE D = y /\ k < a
  <2>1. Sched!Later(t) = Monthly(m)  BY <1>9, <1>11, <1>13
  <2>2. t < Sched!Moment(d, a)  BY <1>3, <1>6, <1>13, MomentOrder
  <2>3. m # m + 1  BY <1>4
  <2>4. QED  BY <1>1, <1>4, <1>11, <1>12, <1>13, <2>1, <2>2, <2>3
<1>14. CASE D < y
  <2>1. m + 0 = m /\ ~(D = y)  BY <1>4, <1>6, <1>8, <1>14
  <2>2. Sched!Later(t) = Monthly(m)  BY <1>1, <1>9, <1>10, <1>11, <1>14, <2>1
  <2>3. t < Sched!Moment(b, a)  BY <1>3, <1>6, <1>11, <1>14, MomentOrder
  <2>4. m # m + 1  BY <1>4
  <2>5. QED  BY <1>1, <1>4, <1>11, <1>12, <2>2, <2>3, <2>4
<1>15. CASE ~(D < y) /\ ~(D = y /\ k < a)
  <2>1. Sched!Later(t) = Monthly(m + 1)  BY <1>1, <1>7, <1>9, <1>15 DEF Monthly
  <2>2. PICK c : c = Sched!FirstDay(m + 1) + y - 1  OBVIOUS
  <2>3. c \in Nat /\ d < c  BY <1>3, <1>4, <1>5, <1>6, <1>8, <2>2
  <2>4. Monthly(m + 1) = Sched!Moment(c, a)  BY <1>1, <1>7, <2>2 DEF Monthly
  <2>5. t < Sched!Moment(c, a) /\ Sched!Moment(c, a) \in Nat  BY <1>3, <1>6, <2>3, MomentOrder
  <2>6. Sched!Moment(b, a) <= t
    <3>1. CASE D = y
      <4>1. b = d /\ ~(k < a)  BY <1>11, <1>15, <3>1
      <4>2. ~(Sched!Moment(d, k) < Sched!Moment(d, a))  BY <1>3, <1>6, <4>1, MomentOrder
      <4>3. QED  BY <1>2, <1>3, <1>12, <4>1, <4>2
    <3>2. CASE D # y
      <4>1. b < d  BY <1>3, <1>6, <1>8, <1>11, <1>15, <3>2
      <4>2. Sched!Moment(b, a) < Sched!Moment(d, k)  BY <1>3, <1>6, <1>11, <4>1, MomentOrder
      <4>3. QED  BY <1>2, <1>3, <1>12, <4>2
    <3>3. QED  BY <3>1, <3>2
  <2>7. QED  BY <1>1, <1>4, <1>11, <2>1, <2>4, <2>5, <2>6
<1>16. QED  BY <1>13, <1>14, <1>15

\* a month has the day which every month has
LEMMA MonthlyFits == ASSUME ScheduleAssumption, job \in Sched!Jobs, job.every = "month", job.day <= Short,
                            NEW n \in Nat, Monthly(n) \in 0..LastTick
  PROVE  Sched!Fits(Monthly(n))
<1>1. PICK u, d : u = Monthly(n) /\ d = Sched!FirstDay(n) + job.day - 1  OBVIOUS
<1>2. job.at \in 0..(Ticks - 1) /\ job.day \in 1..Long /\ Long \in Nat /\ Short \in Nat  BY JobIs DEF ScheduleAssumption
<1>3. Sched!FirstDay(n) \in Nat /\ Sched!FirstDay(n + 1) \in Nat
      /\ Sched!FirstDay(n + 1) = Sched!FirstDay(n) + (IF n % 2 = 0 THEN Long ELSE Short)
  BY MonthLength
<1>4. d \in Nat /\ Sched!FirstDay(n) <= d /\ d < Sched!FirstDay(n + 1)
  <2>1. CASE n % 2 = 0
    <3>1. Sched!FirstDay(n + 1) = Sched!FirstDay(n) + Long  BY <1>3, <2>1
    <3>2. QED  BY <1>1, <1>2, <1>3, <3>1
  <2>2. CASE n % 2 # 0
    <3>1. Sched!FirstDay(n + 1) = Sched!FirstDay(n) + Short  BY <1>3, <2>2
    <3>2. QED  BY <1>1, <1>2, <1>3, <3>1
  <2>3. QED  BY <2>1, <2>2
<1>5. u = Sched!Moment(d, job.at)  BY <1>1 DEF Monthly
<1>6. Sched!Day(u) = d /\ Sched!Tick(u) = job.at /\ u \in Nat  BY <1>2, <1>4, <1>5, MomentIs
<1>7. Sched!Day(u) <= MaxDays  BY <1>1, LastTickIs
<1>8. Sched!Month(u) = n  BY <1>4, <1>6, <1>7, MonthOnly
<1>9. Sched!DayOfMonth(u) = job.day  BY <1>1, <1>2, <1>3, <1>6, <1>8 DEF Sched!DayOfMonth
<1>10. QED  BY <1>1, <1>6, <1>9 DEF Sched!Fits

LEMMA FitsMonthly == ASSUME ScheduleAssumption, job \in Sched!Jobs, job.every = "month", NEW u \in 0..LastTick, Sched!Fits(u)
  PROVE  u = Monthly(Sched!Month(u))
<1>1. PICK d, m : d = Sched!Day(u) /\ m = Sched!Month(u)  OBVIOUS
<1>2. u \in Nat /\ d <= MaxDays  BY <1>1, LastTickIs
<1>3. d \in Nat /\ u = Sched!Moment(d, Sched!Tick(u)) /\ MaxDays \in Nat  BY <1>1, <1>2, MomentOf DEF ScheduleAssumption
<1>4. m \in Nat /\ Sched!FirstDay(m) \in Nat
  <2>1. m \in Nat  BY <1>1, <1>2, <1>3, MonthIs
  <2>2. QED  BY <2>1, MonthLength
<1>5. Sched!Tick(u) = job.at /\ Sched!DayOfMonth(u) = job.day  BY DEF Sched!Fits
<1>6. job.day = d - Sched!FirstDay(m) + 1  BY <1>1, <1>5 DEF Sched!DayOfMonth
<1>7. Sched!FirstDay(m) + job.day - 1 = d  BY <1>3, <1>4, <1>6
<1>8. QED  BY <1>1, <1>3, <1>5, <1>7 DEF Monthly

\* no moment of the job is between a tick and the one computed in it
LEMMA MonthlyNone == ASSUME ScheduleAssumption, job \in Sched!Jobs, job.every = "month", NEW t \in 0..LastTick,
                            NEW u \in 0..LastTick, t < u, u < Sched!Later(t)
  PROVE  ~Sched!Fits(u)
<1> SUFFICES ASSUME Sched!Fits(u) PROVE FALSE  OBVIOUS
<1>1. PICK m, k : m = Sched!Month(t) /\ k = Sched!Month(u)  OBVIOUS
<1>2. m \in Nat /\ k \in Nat /\ u = Monthly(k)  BY <1>1, MonthlyLater, FitsMonthly
<1>3. PICK n \in {m, m + 1} : Sched!Later(t) = Monthly(n) /\ (n = m + 1 => Monthly(m) <= t)  BY <1>1, MonthlyLater
<1>4. t \in Nat /\ u \in Nat /\ Sched!Day(u) <= MaxDays  BY LastTickIs
<1>5. m <= k  BY <1>1, <1>4, MonthsRise
<1>6. n \in Nat /\ Monthly(n) \in Nat /\ Monthly(m) \in Nat /\ Monthly(k) \in Nat  BY <1>2, <1>3, MonthlyIs
<1>7. ~(n < k) /\ n # k
  <2>1. n < k => Monthly(n) < Monthly(k)  BY <1>2, <1>6, MonthlyRise
  <2>2. QED  BY <1>2, <1>3, <1>4, <1>6, <2>1
<1>8. n = m + 1 /\ k = m  BY <1>2, <1>3, <1>5, <1>6, <1>7
<1>9. QED  BY <1>2, <1>3, <1>4, <1>6, <1>8

\* a moment which is to come is the same, or has become a later one, in the next tick
LEMMA MonthlyKept == ASSUME ScheduleAssumption, job \in Sched!Jobs, job.every = "month", NEW t \in 0..LastTick,
                            t + 1 <= LastTick, t + 1 < Sched!Later(t)
  PROVE  Sched!Later(t) <= Sched!Later(t + 1)
<1>1. LastTick \in Nat /\ t \in Nat  BY LastTickIs
<1>2. PICK u : u = t + 1  OBVIOUS
<1>3. u \in 0..LastTick /\ u \in Nat /\ t < u  BY <1>1, <1>2
<1>4. PICK m, k : m = Sched!Month(t) /\ k = Sched!Month(u)  OBVIOUS
<1>5. m \in Nat  BY <1>4, MonthlyLater
<1>6. k \in Nat /\ Sched!Later(u) \in Nat /\ Sched!Later(u) > u  BY <1>3, <1>4, MonthlyLater
<1>7. PICK n \in {m, m + 1} : Sched!Later(t) = Monthly(n) /\ (n = m + 1 => Monthly(m) <= t)  BY <1>4, MonthlyLater
<1>8. PICK l \in {k, k + 1} : Sched!Later(u) = Monthly(l)  BY <1>3, <1>4, MonthlyLater
<1>9. m <= k
  <2>1. Sched!Day(u) <= MaxDays  BY <1>3, LastTickIs
  <2>2. QED  BY <1>1, <1>3, <1>4, <2>1, MonthsRise
<1>10. n \in Nat /\ l \in Nat  BY <1>5, <1>6, <1>7, <1>8
<1>11. Monthly(n) \in Nat /\ Monthly(l) \in Nat /\ Monthly(m) \in Nat  BY <1>5, <1>10, MonthlyIs
<1>12. CASE l < n
  <2>1. l = m /\ n = m + 1  BY <1>5, <1>6, <1>7, <1>8, <1>9, <1>12
  <2>2. QED  BY <1>1, <1>2, <1>3, <1>6, <1>7, <1>8, <1>11, <2>1
<1>13. CASE n = l  BY <1>2, <1>7, <1>8, <1>11, <1>13
<1>14. CASE n < l
  <2>1. Monthly(n) < Monthly(l)  BY <1>10, <1>14, MonthlyRise
  <2>2. QED  BY <1>2, <1>7, <1>8, <1>11, <2>1
<1>15. QED  BY <1>10, <1>12, <1>13, <1>14

\* what is computed in a tick is a moment to be waited for, or the job runs at once, which is in time
LEMMA LaterIs == ASSUME ScheduleAssumption, job \in Sched!Jobs, NEW t \in 0..LastTick
  PROVE  /\ Sched!Later(t) \in Nat
         /\ Sched!Later(t) <= t => job.every = "weekday"
         /\ AtOnce(t) => OnTime(t)
         /\ AtOnce(t) /\ t + 1 <= LastTick => OnTime(t + 1)
         /\ ~AtOnce(t) /\ Sched!Later(t) <= LastTick => OnTime(Sched!Later(t))
         /\ job.every # "count" => \A u \in 0..LastTick : t < u /\ u < Sched!Later(t) => ~Sched!Fits(u)
<1>1. LastTick \in Nat /\ t \in Nat /\ 0..LastTick \subseteq Nat  BY LastTickIs
<1>2. PICK l : l = Sched!Later(t)  OBVIOUS
<1>3. Width \in Nat \ {0}  BY DayFits
<1>4. CASE job.every = "day"
  <2>1. /\ l \in Nat /\ l > t /\ l - t <= Width /\ Sched!Fits(l)
        /\ \A u \in Nat : t < u /\ u < l => ~Sched!Fits(u)
    BY <1>1, <1>2, <1>4, DailyLater
  <2>2. ~AtOnce(t)  BY <1>1, <1>2, <1>3, <2>1 DEF AtOnce
  <2>3. QED  BY <1>1, <1>2, <2>1, <2>2 DEF OnTime
<1>5. CASE job.every = "gap"
  <2>1. /\ l \in Nat /\ l > t /\ l - t <= Width /\ Sched!Fits(l)
        /\ \A u \in Nat : t < u /\ u < l => ~Sched!Fits(u)
    BY <1>1, <1>2, <1>5, GapLater
  <2>2. ~AtOnce(t)  BY <1>1, <1>2, <1>3, <2>1 DEF AtOnce
  <2>3. QED  BY <1>1, <1>2, <2>1, <2>2 DEF OnTime
<1>6. CASE job.every = "count"
  <2>1. l \in Nat /\ l > t /\ l - t <= Width /\ Sched!Fits(l)  BY <1>1, <1>2, <1>6, CountLater
  <2>2. ~AtOnce(t)  BY <1>1, <1>2, <1>3, <2>1 DEF AtOnce
  <2>3. QED  BY <1>1, <1>2, <1>6, <2>1, <2>2 DEF OnTime
<1>7. CASE job.every = "weekday"
  <2>1. /\ l \in Nat /\ l - t <= Width /\ Sched!Fits(l)
        /\ l <= t => Sched!Weekday(t) = job.day /\ Sched!Tick(t) >= job.at
        /\ \A u \in Nat : t < u /\ u < l => ~Sched!Fits(u)
    BY <1>1, <1>2, <1>7, WeeklyLater
  <2>2. AtOnce(t) => OnTime(t) /\ OnTime(t + 1)
    <3> SUFFICES ASSUME AtOnce(t) PROVE OnTime(t) /\ OnTime(t + 1)  OBVIOUS
    <3>1. l <= t  BY <1>1, <1>2, <1>3, <2>1 DEF AtOnce
    <3>2. Sched!Weekday(t) = job.day /\ Sched!Tick(t) >= job.at  BY <2>1, <3>1
    <3>3. t \in {t, t - 1} /\ t >= 0 /\ t \in {t + 1, (t + 1) - 1}  BY <1>1
    <3>4. QED  BY <1>7, <3>2, <3>3 DEF OnTime
  <2>3. QED  BY <1>1, <1>2, <1>7, <2>1, <2>2 DEF OnTime
<1>8. CASE job.every = "month"
  <2>1. l \in Nat /\ l > t  BY <1>2, <1>8, MonthlyLater
  <2>2. \A u : Sched!Later(u) = Sched!NextMonthday(u)  BY <1>8 DEF Sched!Later
  <2>3. AtOnce(t) => OnTime(t)
    <3> SUFFICES ASSUME AtOnce(t) PROVE OnTime(t)  OBVIOUS
    <3>1. l - t >= Width  BY <1>1, <1>2, <1>3, <2>1 DEF AtOnce
    <3>2. QED  BY <1>2, <1>8, <2>2, <3>1 DEF OnTime
  <2>4. AtOnce(t) /\ t + 1 <= LastTick => OnTime(t + 1)
    <3> SUFFICES ASSUME AtOnce(t), t + 1 <= LastTick PROVE OnTime(t + 1)  OBVIOUS
    <3>1. l - t > Width  BY <1>1, <1>2, <1>3, <2>1 DEF AtOnce
    <3>2. t + 1 < l  BY <1>1, <1>3, <2>1, <3>1
    <3>3. l <= Sched!Later(t + 1)  BY <1>2, <1>8, <3>2, MonthlyKept
    <3>4. Sched!Later(t + 1) \in Nat
      <4>1. t + 1 \in 0..LastTick  BY <1>1
      <4>2. QED  BY <1>8, <4>1, MonthlyLater
    <3>5. Sched!Later(t + 1) - (t + 1) >= Width  BY <1>1, <1>3, <2>1, <3>1, <3>3, <3>4
    <3>6. QED  BY <1>8, <2>2, <3>5 DEF OnTime
  <2>5. l <= LastTick => OnTime(l)
    <3> SUFFICES ASSUME l <= LastTick PROVE OnTime(l)  OBVIOUS
    <3>1. CASE job.day > Short  BY <1>8, <3>1 DEF OnTime
    <3>2. CASE job.day <= Short
      <4>1. PICK n \in {Sched!Month(t), Sched!Month(t) + 1} : l = Monthly(n)  BY <1>2, <1>8, MonthlyLater
      <4>2. n \in Nat
        <5>1. Sched!Month(t) \in Nat  BY <1>8, MonthlyLater
        <5>2. QED  BY <5>1
      <4>3. Monthly(n) \in 0..LastTick  BY <1>1, <2>1, <4>1
      <4>4. Sched!Fits(Monthly(n))  BY <1>8, <3>2, <4>2, <4>3, MonthlyFits
      <4>5. QED  BY <4>1, <4>4 DEF OnTime
    <3>3. job.day > Short \/ job.day <= Short
      <4>1. job.day \in 1..Long /\ Long \in Nat /\ Short \in Nat  BY <1>8, JobIs DEF ScheduleAssumption
      <4>2. QED  BY <4>1
    <3>4. QED  BY <3>1, <3>2, <3>3
  <2>6. \A u \in 0..LastTick : t < u /\ u < l => ~Sched!Fits(u)  BY <1>2, <1>8, MonthlyNone
  <2>7. ~(l <= t)  BY <1>1, <2>1
  <2>8. QED  BY <1>2, <2>1, <2>3, <2>4, <2>5, <2>6, <2>7
<1>9. job.every \in {"day", "weekday", "month", "gap", "count"}  BY JobIs
<1>10. QED  BY <1>4, <1>5, <1>6, <1>7, <1>8, <1>9

-----------------------------------------------------------------------------
(* Schedule: the invariant *)

SchedTypes ==
    /\ job \in Sched!Jobs /\ now \in 0..LastTick /\ runs \subseteq 0..now
    /\ due \in Nat \union {Sched!Unscheduled, Sched!NoTimer}

\* a timer is not of the past, it fires in time, and again in a tick only if there is no time to wait
SchedTimer ==
    /\ due = Sched!Unscheduled => runs = {}
    /\ due = Sched!NoTimer => job.every = "weekday"
    /\ due \in Nat => due >= now
    /\ due \in Nat /\ due = now /\ now \in runs => AtOnce(now)
    /\ due \in Nat /\ due <= LastTick => OnTime(due)

\* before its timer fires a job has run at every moment it asked for
SchedNone ==
    due \in Nat /\ job.every # "count" =>
        \A t \in 0..LastTick : t < due /\ Sched!Fits(t) /\ (\E r \in runs : r <= t) => t \in runs

SchedInv == SchedTypes /\ SchedTimer /\ SchedNone /\ Sched!RunsOnTime

LEMMA SchedInit == ASSUME Sched!Init, ScheduleAssumption PROVE SchedInv
<1>1. Week \in Nat /\ MaxDays \in Nat /\ Week <= MaxDays /\ 0 \in 0..(Ticks - 1)  BY DEF ScheduleAssumption
<1>2. job \in Sched!Jobs /\ now \in 0..Sched!Moment(Week, 0) /\ due = Sched!Unscheduled /\ runs = {}
  BY DEF Sched!Init
<1>3. /\ Sched!Moment(Week, 0) \in Nat /\ LastTick \in Nat
      /\ Week < MaxDays => Sched!Moment(Week, 0) < LastTick
      /\ Week = MaxDays => Sched!Moment(Week, 0) = LastTick
  BY <1>1, MomentOrder DEF LastTick
<1>4. now \in 0..LastTick  BY <1>1, <1>2, <1>3
<1>5. due \notin Nat /\ due # Sched!NoTimer  BY <1>2 DEF Sched!Unscheduled, Sched!NoTimer
<1>6. SchedTypes  BY <1>2, <1>4 DEF SchedTypes
<1>7. SchedTimer /\ SchedNone  BY <1>2, <1>5 DEF SchedTimer, SchedNone
<1>8. Sched!RunsOnTime  BY <1>2 DEF Sched!RunsOnTime
<1>9. QED  BY <1>6, <1>7, <1>8 DEF SchedInv

LEMMA SchedStays == ASSUME SchedInv, UNCHANGED schedule PROVE SchedInv'
<1>1. job' = job /\ now' = now /\ due' = due /\ runs' = runs  BY DEF schedule
<1>2. QED
  BY <1>1 DEF SchedInv, SchedTypes, SchedTimer, SchedNone, Sched!RunsOnTime, AtOnce, OnTime, LastTick, Sched!Moment,
     Sched!Jobs, Sched!Unscheduled, Sched!NoTimer, Sched!Fits, Sched!Later, Sched!NextDay, Sched!NextWeekday,
     Sched!NextMonthday, Sched!Weekday, Sched!Day, Sched!Tick, Sched!Month, Sched!DayOfMonth, Sched!FirstDay

\* when a job runs does not change while the job does not
LEMMA SameJob == ASSUME job' = job
  PROVE  /\ \A t : Sched!Later(t)' = Sched!Later(t)
         /\ \A t : AtOnce(t)' = AtOnce(t)
         /\ \A t : OnTime(t)' = OnTime(t)
         /\ \A t : Sched!Fits(t)' = Sched!Fits(t)
BY DEF AtOnce, OnTime, Sched!Moment,
     Sched!Fits, Sched!Later, Sched!NextDay, Sched!NextWeekday,
     Sched!NextMonthday, Sched!Weekday, Sched!Day, Sched!Tick, Sched!Month, Sched!DayOfMonth, Sched!FirstDay

LEMMA StartIs == ASSUME ScheduleAssumption, SchedTypes, NEW t \in 0..LastTick, Sched!Start(t)
  PROVE  \/ due' = Sched!NoTimer /\ job.every = "weekday"
         \/ due' = t /\ AtOnce(t)
         \/ due' = Sched!Later(t) /\ due' > t /\ ~AtOnce(t)
<1>1. job \in Sched!Jobs /\ t \in Nat  BY LastTickIs DEF SchedTypes
<1>2. Sched!Later(t) \in Nat /\ (Sched!Later(t) <= t => job.every = "weekday")  BY <1>1, LaterIs
<1>3. Width \in Nat  BY DEF ScheduleAssumption
<1>4. CASE due' = IF Sched!Later(t) < t \/ Sched!Later(t) - t > Width THEN t ELSE Sched!Later(t)
  <2>1. CASE AtOnce(t)
    <3>1. due' = t  BY <1>1, <1>2, <1>3, <1>4, <2>1 DEF AtOnce
    <3>2. QED  BY <2>1, <3>1
  <2>2. CASE ~AtOnce(t)
    <3>1. due' = Sched!Later(t) /\ due' > t  BY <1>1, <1>2, <1>3, <1>4, <2>2 DEF AtOnce
    <3>2. QED  BY <2>2, <3>1
  <2>3. QED  BY <2>1, <2>2
<1>5. CASE Sched!Later(t) = t /\ due' = Sched!NoTimer  BY <1>1, <1>2, <1>5
<1>6. QED  BY <1>4, <1>5 DEF Sched!Start

\* the timer of a job which starts
LEMMA SchedStart == ASSUME ScheduleAssumption, SchedInv, Sched!Start(now), job' = job, now' = now,
                           runs' \in SUBSET (0..now), runs' \subseteq runs \union {now}, runs \subseteq runs',
                           job.every # "count" =>
                               \A t \in 0..LastTick : t < now /\ Sched!Fits(t) /\ (\E r \in runs' : r <= t) => t \in runs',
                           now \in runs' \/ runs' = {},
                           now \in runs' => OnTime(now)
  PROVE  SchedInv'
<1>1. job \in Sched!Jobs /\ now \in 0..LastTick /\ now \in Nat /\ LastTick \in Nat  BY LastTickIs DEF SchedInv, SchedTypes
<1>2. /\ \A t : Sched!Later(t)' = Sched!Later(t)
      /\ \A t : AtOnce(t)' = AtOnce(t)
      /\ \A t : OnTime(t)' = OnTime(t)
      /\ \A t : Sched!Fits(t)' = Sched!Fits(t)
  BY SameJob
<1>3. \/ due' = Sched!NoTimer /\ job.every = "weekday"
      \/ due' = now /\ AtOnce(now)
      \/ due' = Sched!Later(now) /\ due' > now /\ ~AtOnce(now)
  BY <1>1, StartIs DEF SchedInv
<1>4. /\ Sched!Later(now) \in Nat
      /\ AtOnce(now) => OnTime(now)
      /\ ~AtOnce(now) /\ Sched!Later(now) <= LastTick => OnTime(Sched!Later(now))
      /\ job.every # "count" => \A u \in 0..LastTick : now < u /\ u < Sched!Later(now) => ~Sched!Fits(u)
  BY <1>1, LaterIs
<1>5. Sched!NoTimer \notin Nat /\ Sched!Unscheduled \notin Nat /\ Sched!NoTimer # Sched!Unscheduled
  BY DEF Sched!Unscheduled, Sched!NoTimer
<1>6. LastTick' = LastTick  BY DEF LastTick, Sched!Moment
<1>7. SchedTypes'
  <2>1. due' \in Nat \union {Sched!Unscheduled, Sched!NoTimer}  BY <1>1, <1>3, <1>4
  <2>2. (job \in Sched!Jobs)'  BY <1>1 DEF Sched!Jobs
  <2>3. (Sched!Unscheduled = -2 /\ Sched!NoTimer = -1)'  BY DEF Sched!Unscheduled, Sched!NoTimer
  <2>4. QED  BY <1>1, <1>6, <2>1, <2>2, <2>3 DEF SchedTypes, Sched!Unscheduled, Sched!NoTimer
<1>8. SchedTimer'
  <2>1. due' # Sched!Unscheduled  BY <1>1, <1>3, <1>4, <1>5
  <2>2. due' = Sched!NoTimer => job.every = "weekday"  BY <1>1, <1>3, <1>4, <1>5
  <2>3. due' \in Nat => due' >= now  BY <1>1, <1>3, <1>5
  <2>4. due' \in Nat /\ due' = now => AtOnce(now)  BY <1>1, <1>3, <1>5
  <2>5. due' \in Nat /\ due' <= LastTick => OnTime(due')  BY <1>1, <1>3, <1>4, <1>5
  <2>6. due' \in Nat /\ due' <= LastTick' => OnTime(due)'
    <3>1. OnTime(due)' <=> OnTime(due')  BY SameJob DEF OnTime, Sched!Moment, Sched!Fits, Sched!NextMonthday,
            Sched!Weekday, Sched!Day, Sched!Tick, Sched!Month, Sched!DayOfMonth, Sched!FirstDay
    <3>2. QED  BY <1>6, <2>5, <3>1
  <2>7. due' = now => (AtOnce(now)' <=> AtOnce(now))
    BY DEF AtOnce, Sched!Moment, Sched!Later, Sched!NextDay, Sched!NextWeekday,
           Sched!NextMonthday, Sched!Weekday, Sched!Day, Sched!Tick, Sched!Month, Sched!DayOfMonth, Sched!FirstDay
  <2>8. QED  BY <1>1, <2>1, <2>2, <2>3, <2>4, <2>6, <2>7 DEF SchedTimer, Sched!Unscheduled, Sched!NoTimer
<1>9. SchedNone'
  <2>1. SUFFICES ASSUME due' \in Nat, job.every # "count", NEW t \in 0..LastTick, t < due', Sched!Fits(t),
                        NEW r \in runs', r <= t
                 PROVE  t \in runs'
    BY <1>2, <1>6 DEF SchedNone
  <2>2. t \in Nat /\ r \in 0..now  BY <1>1, <2>1
  <2>3. CASE t < now  BY <2>1, <2>3
  <2>4. CASE t = now
    <3>1. now \in runs'  BY <2>1
    <3>2. QED  BY <2>4, <3>1
  <2>5. CASE now < t
    <3>1. due' = Sched!Later(now)  BY <1>1, <1>3, <1>5, <2>1, <2>2, <2>5
    <3>2. ~Sched!Fits(t)  BY <1>4, <2>1, <2>5, <3>1
    <3>3. QED  BY <2>1, <3>2
  <2>6. QED  BY <1>1, <2>2, <2>3, <2>4, <2>5
<1>10. Sched!RunsOnTime'
  <2>1. \A t \in runs : OnTime(t)  BY DEF SchedInv, Sched!RunsOnTime, OnTime
  <2>2. \A t \in runs' : OnTime(t)  BY <2>1
  <2>3. \A t \in runs' : OnTime(t)'  BY <1>2, <2>2
  <2>4. QED  BY <2>3 DEF Sched!RunsOnTime, OnTime
<1>11. QED  BY <1>7, <1>8, <1>9, <1>10 DEF SchedInv

LEMMA SchedSchedule == ASSUME ScheduleAssumption, SchedInv, Sched!Schedule PROVE SchedInv'
<1>1. due = Sched!Unscheduled /\ Sched!Start(now) /\ job' = job /\ now' = now /\ runs' = runs  BY DEF Sched!Schedule
<1>2. runs' = {}  BY <1>1 DEF SchedInv, SchedTimer
<1>3. QED  BY <1>1, <1>2, SchedStart

LEMMA SchedRun == ASSUME ScheduleAssumption, SchedInv, Sched!Run PROVE SchedInv'
<1>1. due >= 0 /\ due <= now /\ Sched!Start(now) /\ runs' = runs \union {now} /\ job' = job /\ now' = now  BY DEF Sched!Run
<1>2. now \in 0..LastTick /\ now \in Nat /\ LastTick \in Nat /\ runs \subseteq 0..now  BY LastTickIs DEF SchedInv, SchedTypes
<1>3. due \in Nat
  <2>1. due \in Nat \union {-2, -1}  BY DEF SchedInv, SchedTypes, Sched!Unscheduled, Sched!NoTimer
  <2>2. QED  BY <1>1, <2>1
<1>4. due = now  BY <1>1, <1>2, <1>3 DEF SchedInv, SchedTimer
<1>5. OnTime(now)  BY <1>2, <1>3, <1>4 DEF SchedInv, SchedTimer
<1>6. ASSUME job.every # "count", NEW t \in 0..LastTick, t < now, Sched!Fits(t), NEW r \in runs', r <= t PROVE t \in runs'
  <2>1. r \in runs
    <3>1. r # now  BY <1>2, <1>6
    <3>2. QED  BY <1>1, <3>1
  <2>2. t \in runs  BY <1>3, <1>4, <1>6, <2>1 DEF SchedInv, SchedNone
  <2>3. QED  BY <1>1, <2>2
<1>7. runs' \in SUBSET (0..now) /\ runs' \subseteq runs \union {now} /\ runs \subseteq runs' /\ now \in runs'  BY <1>1, <1>2
<1>8. QED  BY <1>1, <1>5, <1>6, <1>7, SchedStart

LEMMA SchedPass == ASSUME ScheduleAssumption, SchedInv, Sched!Pass PROVE SchedInv'
<1>1. /\ due # Sched!Unscheduled /\ (due \notin 0..now \/ now \in runs) /\ now < LastTick
      /\ now' = now + 1 /\ due' = (IF due \in 0..now THEN now + 1 ELSE due)
      /\ job' = job /\ runs' = runs
  BY DEF Sched!Pass, LastTick
<1>2. job \in Sched!Jobs /\ now \in 0..LastTick /\ now \in Nat /\ LastTick \in Nat /\ runs \subseteq 0..now
  BY LastTickIs DEF SchedInv, SchedTypes
<1>3. /\ \A t : AtOnce(t)' = AtOnce(t)
      /\ \A t : OnTime(t)' = OnTime(t)
      /\ \A t : Sched!Fits(t)' = Sched!Fits(t)
  BY <1>1, SameJob
<1>4. LastTick' = LastTick  BY DEF LastTick, Sched!Moment
<1>5. due \in Nat \union {-2, -1} /\ Sched!NoTimer = -1 /\ Sched!Unscheduled = -2
  BY DEF SchedInv, SchedTypes, Sched!Unscheduled, Sched!NoTimer
<1>6. due \in 0..now => due = now /\ now \in runs /\ AtOnce(now) /\ OnTime(now + 1)
  <2> SUFFICES ASSUME due \in 0..now PROVE due = now /\ now \in runs /\ AtOnce(now) /\ OnTime(now + 1)  OBVIOUS
  <2>1. due \in Nat /\ due = now  BY <1>2 DEF SchedInv, SchedTimer
  <2>2. now \in runs  BY <1>1
  <2>3. AtOnce(now)  BY <2>1, <2>2 DEF SchedInv, SchedTimer
  <2>4. now + 1 <= LastTick  BY <1>1, <1>2
  <2>5. OnTime(now + 1)  BY <1>2, <2>3, <2>4, LaterIs
  <2>6. QED  BY <2>1, <2>2, <2>3, <2>5
<1>7. due \in Nat /\ due \notin 0..now => due >= now + 1  BY <1>2
<1>8. now + 1 \notin runs  BY <1>2
<1>9. SchedTypes'
  <2>1. (job \in Sched!Jobs)'  BY <1>1, <1>2 DEF Sched!Jobs
  <2>2. now' \in 0..LastTick /\ runs' \subseteq 0..now'  BY <1>1, <1>2
  <2>3. due' \in Nat \union {-2, -1}  BY <1>1, <1>2, <1>5
  <2>4. QED  BY <1>4, <2>1, <2>2, <2>3 DEF SchedTypes, Sched!Unscheduled, Sched!NoTimer
<1>10. SchedTimer'
  <2>1. due' # -2  BY <1>1, <1>2, <1>5
  <2>2. due' = -1 => job.every = "weekday"  BY <1>1, <1>2, <1>5 DEF SchedInv, SchedTimer
  <2>3. due' \in Nat => due' >= now'  BY <1>1, <1>2, <1>5, <1>7
  <2>4. now' \notin runs'  BY <1>1, <1>8
  <2>5. due' \in Nat /\ due' <= LastTick => OnTime(due')  BY <1>1, <1>6 DEF SchedInv, SchedTimer
  <2>6. OnTime(due)' <=> OnTime(due')
    BY <1>1 DEF OnTime, Sched!Moment, Sched!Fits, Sched!NextMonthday,
         Sched!Weekday, Sched!Day, Sched!Tick, Sched!Month, Sched!DayOfMonth, Sched!FirstDay
  <2>7. QED  BY <1>1, <1>4, <2>1, <2>2, <2>3, <2>4, <2>5, <2>6 DEF SchedTimer, Sched!Unscheduled, Sched!NoTimer
<1>11. SchedNone'
  <2>1. SUFFICES ASSUME due' \in Nat, job.every # "count", NEW t \in 0..LastTick, t < due', Sched!Fits(t),
                        NEW r \in runs, r <= t
                 PROVE  t \in runs
    BY <1>1, <1>3, <1>4 DEF SchedNone
  <2>2. t \in Nat /\ due \in Nat  BY <1>1, <1>2, <2>1
  <2>3. CASE t < due  BY <2>1, <2>2, <2>3 DEF SchedInv, SchedNone
  <2>4. CASE ~(t < due)
    <3>1. due \in 0..now  BY <1>1, <2>1, <2>4
    <3>2. due = now /\ now \in runs /\ due' = now + 1  BY <1>1, <1>6, <3>1
    <3>3. t = now  BY <1>2, <2>1, <2>2, <2>4, <3>2
    <3>4. QED  BY <3>2, <3>3
  <2>5. QED  BY <2>3, <2>4
<1>12. Sched!RunsOnTime'
  <2>1. \A t \in runs : OnTime(t)  BY DEF SchedInv, Sched!RunsOnTime, OnTime
  <2>2. \A t \in runs' : OnTime(t)'  BY <1>1, <1>3, <2>1
  <2>3. QED  BY <2>2 DEF Sched!RunsOnTime, OnTime
<1>13. QED  BY <1>9, <1>10, <1>11, <1>12 DEF SchedInv

LEMMA SchedRemove == ASSUME ScheduleAssumption, SchedInv, Sched!Remove PROVE SchedInv'
<1>1. due' = -2 /\ runs' = {} /\ job' = job /\ now' = now  BY DEF Sched!Remove, Sched!Unscheduled
<1>2. LastTick' = LastTick  BY DEF LastTick, Sched!Moment
<1>3. due' \notin Nat /\ due' # -1  BY <1>1
<1>4. SchedTypes'
  <2>1. (job \in Sched!Jobs)'  BY <1>1 DEF Sched!Jobs, SchedInv, SchedTypes
  <2>2. now' \in 0..LastTick /\ runs' \subseteq 0..now'  BY <1>1 DEF SchedInv, SchedTypes
  <2>3. QED  BY <1>1, <1>2, <2>1, <2>2 DEF SchedTypes, Sched!Unscheduled, Sched!NoTimer
<1>5. SchedTimer'  BY <1>1, <1>3 DEF SchedTimer, Sched!Unscheduled, Sched!NoTimer
<1>6. SchedNone' /\ Sched!RunsOnTime'  BY <1>1, <1>3 DEF SchedNone, Sched!RunsOnTime
<1>7. QED  BY <1>4, <1>5, <1>6 DEF SchedInv

LEMMA SchedStep == ASSUME ScheduleAssumption, SchedInv, Sched!Next PROVE SchedInv'
BY SchedSchedule, SchedRun, SchedPass, SchedRemove DEF Sched!Next

\* so no moment is missed
LEMMA SchedGood == ASSUME ScheduleAssumption, SchedInv PROVE Sched!RunsOnTime /\ Sched!NoneMissed
<1>1. now \in 0..LastTick /\ now \in Nat /\ LastTick \in Nat  BY LastTickIs DEF SchedInv, SchedTypes
<1>2. ASSUME NEW t \in 0..(now - 1), Sched!Fits(t), NEW r \in runs, r <= t
      PROVE  t \in runs \/ job.every = "count" \/ (job.every = "weekday" /\ due = Sched!NoTimer)
  <2>1. due # Sched!Unscheduled  BY <1>2 DEF SchedInv, SchedTimer
  <2>2. CASE due = Sched!NoTimer  BY <2>2 DEF SchedInv, SchedTimer
  <2>3. CASE due \in Nat
    <3>1. t \in 0..LastTick /\ t < due  BY <1>1, <1>2, <2>3 DEF SchedInv, SchedTimer
    <3>2. QED  BY <1>2, <2>3, <3>1 DEF SchedInv, SchedNone
  <2>4. QED  BY <2>1, <2>2, <2>3 DEF SchedInv, SchedTypes
<1>3. QED  BY <1>2 DEF Sched!NoneMissed, SchedInv

-----------------------------------------------------------------------------
(* What is due, in the composite *)

LEMMA ServicesMove == ASSUME [Next]_vars
  PROVE  /\ Hook!Next \/ UNCHANGED hooks
         /\ Sched!Next \/ UNCHANGED schedule
         /\ Badge!Next \/ UNCHANGED badges
BY DEF Next, vars, services

LEMMA HooksAlways == Spec => []HookInv
<1>1. Init => HookInv  BY HookInit, AsyncAssumption DEF Init
<1>2. HookInv /\ [Next]_vars => HookInv'  BY ServicesMove, HookStep, AsyncAssumption, PrioritiesAssumption
<1>3. QED  BY <1>1, <1>2, PTL DEF Spec

LEMMA ScheduleAlways == Spec => []SchedInv
<1>1. Init => SchedInv  BY SchedInit, ScheduleAssumption DEF Init
<1>2. SchedInv /\ [Next]_vars => SchedInv'  BY ServicesMove, SchedStep, SchedStays, ScheduleAssumption
<1>3. QED  BY <1>1, <1>2, PTL DEF Spec

LEMMA BadgesAlways == Spec => []BadgeInv
<1>1. Init => BadgeInv  BY BadgeInit, LevelsAssumption DEF Init
<1>2. BadgeInv /\ [Next]_vars => BadgeInv'  BY ServicesMove, BadgeStep, LevelsAssumption
<1>3. QED  BY <1>1, <1>2, PTL DEF Spec

\* Theorem: of two hooks the later runs first, unless it asked for less, and asynchronous hooks run
\* one after the other; a job runs when it asked to, but for two kinds, and misses no moment of its own;
\* and a badge is of the level which was earned, whatever the priorities, the calendar, the widths of
\* the timers and the levels are (lib/hooks.js, lib/scheduler.js, lib/badges.js).
THEOREM ServicesRunWhenDue == Spec => []RunWhenDue
<1>1. HookInv => Hook!LaterRunsFirst /\ Hook!ChainInOrder  BY HookGood, AsyncAssumption
<1>2. SchedInv => Sched!RunsOnTime /\ Sched!NoneMissed  BY SchedGood, ScheduleAssumption
<1>3. BadgeInv => Badge!NoneUnearned /\ Badge!LevelIsEarned  BY DEF BadgeInv
<1>4. HookInv /\ SchedInv /\ BadgeInv => RunWhenDue  BY <1>1, <1>2, <1>3 DEF RunWhenDue
<1>5. QED  BY <1>4, HooksAlways, ScheduleAlways, BadgesAlways, PTL

-----------------------------------------------------------------------------
(* What is counted for the janitor, and its types *)

LEMMA SeqsAre == ASSUME NEW S, NEW T, NEW s \in Seq(S), \A k \in 1..Len(s) : s[k] \in T PROVE s \in Seq(T)
<1>1. Len(s) \in Nat /\ DOMAIN s = 1..Len(s) /\ s = [k \in 1..Len(s) |-> s[k]]  BY LenProperties
<1>2. s \in [1..Len(s) -> T]  BY <1>1
<1>3. QED  BY <1>1, <1>2, SeqDef

\* tasks which wait were pushed
JanBounds == Len(queue) <= counts.pushes /\ counts.pushes <= MaxPushes /\ counts.strays <= MaxStrays

LEMMA JanBoundsKept == ASSUME JanInv, JanBounds, CAIJ!Next \/ UNCHANGED janitor PROVE JanBounds'
<1>1. queue \in Seq(CAIJ!Task) /\ Len(queue) \in Nat /\ counts \in [pushes : Nat, strays : Nat]
  BY DEF JanInv
<1>2. PICK c : c = counts  OBVIOUS
<1>3. c = [pushes |-> c.pushes, strays |-> c.strays] /\ c.pushes \in Nat /\ c.strays \in Nat
      /\ Len(queue) <= c.pushes /\ c.pushes <= MaxPushes /\ c.strays <= MaxStrays /\ MaxPushes \in Nat /\ MaxStrays \in Nat
  BY <1>1, <1>2, CountsAssumption DEF JanBounds, CountsAssumption
<1>4. ASSUME NEW t, queue' = Append(queue, t), c.pushes < MaxPushes, counts' = [c EXCEPT !.pushes = @ + 1]
      PROVE  JanBounds'
  <2>1. counts' = [pushes |-> c.pushes + 1, strays |-> c.strays]  BY <1>3, <1>4
  <2>2. Len(queue') = Len(queue) + 1  BY <1>1, <1>4
  <2>3. c.pushes + 1 <= MaxPushes /\ Len(queue) + 1 <= c.pushes + 1  BY <1>1, <1>3, <1>4
  <2>4. QED  BY <1>3, <2>1, <2>2, <2>3 DEF JanBounds
<1>5. ASSUME queue' = queue, c.strays < MaxStrays, counts' = [c EXCEPT !.strays = @ + 1] PROVE JanBounds'
  <2>1. counts' = [pushes |-> c.pushes, strays |-> c.strays + 1]  BY <1>3, <1>5
  <2>2. c.strays + 1 <= MaxStrays  BY <1>3, <1>5
  <2>3. QED  BY <1>3, <1>5, <2>1, <2>2 DEF JanBounds
<1>6. CASE queue' = queue /\ counts' = counts  BY <1>6 DEF JanBounds
<1>7. CASE CAIJ!Decide
  <2>1. queue # << >> /\ queue' = Tail(queue) /\ counts' = c  BY <1>2, <1>7 DEF CAIJ!Decide
  <2>2. Len(queue') = Len(queue) - 1  BY <1>1, <2>1
  <2>3. Len(queue) - 1 <= c.pushes  BY <1>1, <1>3
  <2>4. QED  BY <1>3, <2>1, <2>2, <2>3 DEF JanBounds
<1>8. CASE CAIJ!Answer \/ CAIJ!Error  BY <1>6, <1>8 DEF CAIJ!Answer, CAIJ!Error
<1>9. CASE CAIJ!Interval
  <2>1. PICK t : CAIJ!Push(t)  BY <1>9 DEF CAIJ!Interval
  <2>2. QED  BY <1>2, <1>4, <2>1 DEF CAIJ!Push
<1>10. CASE CAIJ!Message
  <2>1. PICK t : CAIJ!Push(t)  BY <1>10 DEF CAIJ!Message
  <2>2. QED  BY <1>2, <1>4, <2>1 DEF CAIJ!Push
<1>11. CASE CAIJ!DirectMessage \/ CAIJ!ModuleRunAt
  BY <1>2, <1>5, <1>11 DEF CAIJ!DirectMessage, CAIJ!ModuleRunAt, CAIJ!Stray
<1>12. CASE CAIJ!ModuleMessage
  <2>1. CASE UNCHANGED <<queue, loop, counts>>  BY <1>6, <2>1
  <2>2. CASE ~UNCHANGED <<queue, loop, counts>>
    <3>1. /\ c.pushes < MaxPushes /\ counts' = [c EXCEPT !.pushes = @ + 1]
          /\ \E w \in Websites : queue' = Append(queue, [name |-> "module", site |-> w])
      BY <1>2, <1>12, <2>2 DEF CAIJ!ModuleMessage
    <3>2. QED  BY <1>4, <3>1
  <2>3. QED  BY <2>1, <2>2
<1>13. CASE UNCHANGED janitor  BY <1>6, <1>13 DEF janitor
<1>14. CASE CAIJ!Reborn
  <2>1. queue' = << >> /\ counts' = [pushes |-> 0, strays |-> 0]  BY <1>14 DEF CAIJ!Reborn
  <2>2. Len(queue') = 0  BY <2>1
  <2>3. QED  BY <1>3, <2>1, <2>2, CountsAssumption DEF JanBounds, CountsAssumption
<1>15. QED  BY <1>7, <1>8, <1>9, <1>10, <1>11, <1>12, <1>13, <1>14 DEF CAIJ!Next

LEMMA JanTypes == ASSUME JanInv, JanBounds PROVE CAIJ!TypeOK
<1>1. PICK c : c = counts  OBVIOUS
<1>2. c = [pushes |-> c.pushes, strays |-> c.strays] /\ c.pushes \in Nat /\ c.strays \in Nat  BY <1>1 DEF JanInv
<1>3. /\ queue \in Seq(CAIJ!Task) /\ Len(queue) \in Nat /\ Len(queue) <= c.pushes /\ c.pushes <= MaxPushes
      /\ c.strays <= MaxStrays /\ MaxPushes \in Nat /\ MaxStrays \in Nat
  BY <1>1, CountsAssumption DEF JanInv, JanBounds, CountsAssumption
<1>4. c.pushes \in 0..MaxPushes /\ c.strays \in 0..MaxStrays /\ Len(queue) <= MaxPushes  BY <1>2, <1>3
<1>5. counts \in [pushes : 0..MaxPushes, strays : 0..MaxStrays]  BY <1>1, <1>2, <1>4
<1>6. QED  BY <1>4, <1>5 DEF JanInv, CAIJ!TypeOK

LEMMA JanBoundsInit == ASSUME CAIJ!Init PROVE JanBounds
BY CountsAssumption DEF CAIJ!Init, JanBounds, CountsAssumption

-----------------------------------------------------------------------------
(* What is counted for the data server, and its types *)

\* restarts are counted down
VisBounds == visitPast.restarts <= MaxRestarts

LEMMA VisBoundsInit == ASSUME Visit!Init PROVE VisBounds
<1>1. visitPast = [restarts |-> MaxRestarts, held |-> {}, crossed |-> {}]  BY DEF Visit!Init
<1>2. MaxRestarts <= MaxRestarts  BY TokensAssumption DEF TokensAssumption
<1>3. QED  BY <1>1, <1>2 DEF VisBounds

LEMMA VisBoundsKept == ASSUME VisInv, VisBounds, Visit!Next \/ UNCHANGED visitors PROVE VisBounds'
<1>1. PICK p : p = visitPast  OBVIOUS
<1>2. /\ p = [restarts |-> p.restarts, held |-> p.held, crossed |-> p.crossed]
      /\ p.restarts \in Nat /\ p.restarts <= MaxRestarts /\ MaxRestarts \in Nat
  BY <1>1, PastTyped, TokensAssumption DEF VisInv, VisBounds, TokensAssumption
<1>3. ASSUME NEW h, NEW c, \/ visitPast' = p \/ visitPast' = [p EXCEPT !.crossed = c]
                           \/ visitPast' = [p EXCEPT !.held = h] \/ visitPast' = [p EXCEPT !.held = h, !.crossed = c]
      PROVE  VisBounds'
  <2>1. visitPast'.restarts = p.restarts  BY <1>2, <1>3
  <2>2. QED  BY <1>2, <2>1 DEF VisBounds
<1>4. ASSUME NEW r \in Slots, NEW v, Visit!Introduce(r, v) PROVE VisBounds'
  <2>1. PICK c : visitPast' = [p EXCEPT !.crossed = c]  BY <1>1, <1>4 DEF Visit!Introduce
  <2>2. QED  BY <1>3, <2>1
<1>5. ASSUME NEW r \in Slots, Visit!Found(r) \/ Visit!Insert(r) PROVE VisBounds'
  <2>1. PICK h : visitPast' = [p EXCEPT !.held = h]  BY <1>1, <1>5 DEF Visit!Found, Visit!Insert, Visit!Open
  <2>2. QED  BY <1>3, <2>1
<1>6. ASSUME NEW r \in Slots, NEW t, Visit!Favour(r, t) PROVE VisBounds'
  <2>1. PICK c : visitPast' = [p EXCEPT !.crossed = c]  BY <1>1, <1>6 DEF Visit!Favour
  <2>2. QED  BY <1>3, <2>1
<1>7. ASSUME NEW r \in Slots, Visit!Find(r) \/ Visit!FindNone(r) \/ Visit!InsertFav(r) \/ Visit!RemoveFav(r)
                              \/ Visit!Refuse(r)
      PROVE  VisBounds'
  BY <1>1, <1>2, <1>3, <1>7 DEF Visit!Find, Visit!FindNone, Visit!InsertFav, Visit!RemoveFav, Visit!Refuse
<1>8. ASSUME NEW t, Visit!LogOut(t) \/ Visit!Forget(t) PROVE VisBounds'
  <2>1. PICK h, c : visitPast' = [p EXCEPT !.held = h] \/ visitPast' = [p EXCEPT !.held = h, !.crossed = c]
    BY <1>1, <1>8 DEF Visit!LogOut, Visit!Forget
  <2>2. QED  BY <1>3, <2>1
<1>9. ASSUME NEW w, Visit!Deliver(w) \/ Visit!Load(w) PROVE VisBounds'
  BY <1>1, <1>2, <1>3, <1>9 DEF Visit!Deliver, Visit!Load
<1>10. CASE Visit!Restart
  <2>1. PICK c : visitPast' = [p EXCEPT !.restarts = @ - 1, !.crossed = c]  BY <1>1, <1>10 DEF Visit!Restart
  <2>2. visitPast'.restarts = p.restarts - 1  BY <1>2, <2>1
  <2>3. QED  BY <1>2, <2>2 DEF VisBounds
<1>11. CASE UNCHANGED visitors  BY <1>11 DEF VisBounds, visitors
<1>12. QED  BY <1>4, <1>5, <1>6, <1>7, <1>8, <1>9, <1>10, <1>11 DEF Visit!Next

LEMMA VisGood == ASSUME VisInv, VisBounds PROVE Visit!TypeOK
<1>1. VisTypes  BY DEF VisInv
<1>2. PICK p : p = visitPast  OBVIOUS
<1>3. /\ p = [restarts |-> p.restarts, held |-> p.held, crossed |-> p.crossed]
      /\ p.restarts \in Nat /\ p.held \in SUBSET Visit!Tokens /\ p.crossed \in SUBSET Visitors
      /\ p.restarts <= MaxRestarts /\ MaxRestarts \in Nat
  BY <1>1, <1>2, PastTyped, TokensAssumption DEF VisBounds, TokensAssumption
<1>4. p.restarts \in 0..MaxRestarts  BY <1>3
<1>5. visitPast \in [restarts : 0..MaxRestarts, held : SUBSET Visit!Tokens, crossed : SUBSET Visitors]  BY <1>2, <1>3, <1>4
<1>6. QED  BY <1>1, <1>5 DEF VisTypes, Visit!TypeOK

-----------------------------------------------------------------------------
(* What is counted for badges, and its types *)

\* what was counted is of the events there were, and levels are those there are
BadgeOf == [step : Badge!Steps, count : Nat, found : 0..Len(BadgeLevels)]
BadgeBounds ==
    /\ badgePast.peak <= badgePast.events /\ badgePast.events <= MaxEvents /\ badgePast.counted <= badgePast.peak
    /\ decorations \in Seq(1..Len(BadgeLevels)) /\ checks \in Seq(BadgeOf)

LEMMA BadgeBoundsInit == ASSUME Badge!Init PROVE BadgeBounds
<1>1. badgePast = [events |-> 0, peak |-> 0, counted |-> 0, overlapped |-> FALSE, lost |-> FALSE]
      /\ decorations = << >> /\ checks = << >>
  BY DEF Badge!Init
<1>2. 0 <= MaxEvents  BY CountsAssumption DEF CountsAssumption
<1>3. QED  BY <1>1, <1>2 DEF BadgeBounds

LEMMA BadgeOnward == ASSUME BadgeBounds, NEW i \in 1..Len(checks), NEW q \in BadgeOf, checks' = [checks EXCEPT ![i] = q],
                            UNCHANGED <<decorations, badgePast>>
  PROVE  BadgeBounds'
<1>1. checks \in Seq(BadgeOf)  BY DEF BadgeBounds
<1>2. checks' \in Seq(BadgeOf)  BY <1>1, ExceptSeq
<1>3. QED  BY <1>2 DEF BadgeBounds

LEMMA BadgeOfIs == ASSUME BadgeBounds, NEW i \in 1..Len(checks)
  PROVE  /\ checks[i] \in BadgeOf /\ checks[i] \in BadgeCheck /\ checks[i].count \in Nat /\ checks[i].found \in 0..Len(BadgeLevels)
         /\ checks[i].step \in Badge!Steps
         /\ checks[i] = [step |-> checks[i].step, count |-> checks[i].count, found |-> checks[i].found]
<1>1. PICK c : c = checks[i]  OBVIOUS
<1>2. c \in BadgeOf  BY <1>1, LenProperties DEF BadgeBounds
<1>3. c.count \in Nat /\ c.found \in 0..Len(BadgeLevels) /\ c.step \in Badge!Steps
      /\ c = [step |-> c.step, count |-> c.count, found |-> c.found]
  BY <1>2 DEF BadgeOf
<1>4. c.found \in Nat  BY <1>3
<1>5. c \in BadgeCheck  BY <1>3, <1>4 DEF BadgeCheck
<1>6. QED  BY <1>1, <1>2, <1>3, <1>5

LEMMA BadgeBoundsKept == ASSUME BadgeInv, BadgeBounds, Badge!Next \/ UNCHANGED badges PROVE BadgeBounds'
<1>1. BadgeTypes /\ BadgePeak  BY DEF BadgeInv
<1>2. PICK p, N, s, o : p = badgePast /\ N = Len(BadgeLevels) /\ s = checks /\ o = decorations  OBVIOUS
<1>3. p = [events |-> p.events, peak |-> p.peak, counted |-> p.counted, overlapped |-> p.overlapped, lost |-> p.lost]
      /\ p.events \in Nat /\ p.peak \in Nat /\ p.counted \in Nat
  BY <1>1, <1>2, BadgePastIs
<1>4. p.peak <= p.events /\ p.events <= MaxEvents /\ p.counted <= p.peak /\ o \in Seq(1..N) /\ s \in Seq(BadgeOf)
  BY <1>2 DEF BadgeBounds
<1>5. N \in Nat /\ MaxEvents \in Nat /\ Len(s) \in Nat /\ DOMAIN s = 1..Len(s) /\ worth \in Nat /\ worth <= p.peak
  BY <1>1, <1>2, LevelsAre, LevelsAssumption, BadgeSeqs, CountsAssumption DEF CountsAssumption, BadgeTypes, BadgePeak
<1>6. CASE Badge!Event
  <2>1. PICK q : q = [step |-> "count", count |-> 0, found |-> 0]  OBVIOUS
  <2>2. q \in BadgeOf  BY <1>2, <1>5, <2>1 DEF BadgeOf, Badge!Steps
  <2>3. checks' = Append(s, q) /\ decorations' = o /\ p.events < MaxEvents  BY <1>2, <1>6, <2>1 DEF Badge!Event
  <2>4. checks' \in Seq(BadgeOf)  BY <1>4, <2>2, <2>3, Lengthened
  <2>5. PICK w, m, v : w = worth + 1 /\ m = Badge!Max({p.peak, w}) /\ v = p.peak  OBVIOUS
  <2>6. m = IF v <= w THEN w ELSE v  BY <1>3, <1>5, <2>5, GreaterIs
  <2>7. PICK d : badgePast' = [p EXCEPT !.events = @ + 1, !.peak = m, !.overlapped = d]
    BY <1>2, <1>6, <2>5 DEF Badge!Event
  <2>8. badgePast' = [events |-> p.events + 1, peak |-> m, counted |-> p.counted, overlapped |-> d, lost |-> p.lost]
    BY <1>3, <2>7
  <2>9. m <= p.events + 1 /\ p.events + 1 <= MaxEvents /\ p.counted <= m  BY <1>3, <1>4, <1>5, <2>3, <2>5, <2>6
  <2>10. QED  BY <1>2, <1>4, <2>3, <2>4, <2>8, <2>9 DEF BadgeBounds
<1>7. CASE Badge!Undo \/ UNCHANGED badges  BY <1>7 DEF Badge!Undo, badges, BadgeBounds
<1>8. CASE Badge!Crash
  <2>1. checks' = << >> /\ decorations' = o  BY <1>2, <1>8 DEF Badge!Crash
  <2>2. badgePast' = [events |-> p.events, peak |-> p.peak, counted |-> p.counted, overlapped |-> p.overlapped, lost |-> TRUE]
    BY <1>2, <1>3, <1>8 DEF Badge!Crash
  <2>3. checks' \in Seq(BadgeOf)  BY <2>1
  <2>4. QED  BY <1>2, <1>4, <2>1, <2>2, <2>3 DEF BadgeBounds
<1>9. ASSUME NEW i \in 1..Len(s), Badge!Count(i) PROVE BadgeBounds'
  <2>1. PICK c, q : c = s[i] /\ q = [c EXCEPT !.step = "find", !.count = worth]  OBVIOUS
  <2>2. c = [step |-> c.step, count |-> c.count, found |-> c.found] /\ c.found \in 0..N  BY <1>2, <2>1, BadgeOfIs
  <2>3. q = [step |-> "find", count |-> worth, found |-> c.found]  BY <2>1, <2>2
  <2>4. q \in BadgeOf  BY <1>2, <1>5, <2>2, <2>3 DEF BadgeOf, Badge!Steps
  <2>5. checks' = [checks EXCEPT ![i] = [@ EXCEPT !.step = "find", !.count = worth]]  BY <1>9 DEF Badge!Count
  <2>6. checks' = [checks EXCEPT ![i] = q] /\ UNCHANGED <<decorations, badgePast>>  BY <1>2, <1>9, <2>1, <2>5 DEF Badge!Count
  <2>7. QED  BY <1>2, <2>4, <2>6, BadgeOnward
<1>10. ASSUME NEW i \in 1..Len(s), Badge!Find(i) PROVE BadgeBounds'
  <2>1. PICK f : f = IF decorations = << >> THEN 0 ELSE decorations[1]  OBVIOUS
  <2>2. PICK c, q : c = s[i] /\ q = [c EXCEPT !.step = "write", !.found = f]  OBVIOUS
  <2>3. c = [step |-> c.step, count |-> c.count, found |-> c.found] /\ c.count \in Nat  BY <1>2, <2>2, BadgeOfIs
  <2>4. f \in 0..N
    <3>1. CASE o = << >>  BY <1>2, <1>5, <2>1, <3>1
    <3>2. CASE o # << >>
      <4>1. Len(o) \in Nat /\ Len(o) # 0  BY <1>4, <3>2, EmptyIff
      <4>2. 1 \in 1..Len(o)  BY <4>1
      <4>3. o[1] \in 1..N  BY <1>4, <4>2, LenProperties
      <4>4. QED  BY <1>2, <1>5, <2>1, <3>2, <4>3
    <3>3. QED  BY <3>1, <3>2
  <2>5. q = [step |-> "write", count |-> c.count, found |-> f]  BY <2>2, <2>3
  <2>6. q \in BadgeOf  BY <1>2, <2>3, <2>4, <2>5 DEF BadgeOf, Badge!Steps
  <2>7. checks' = [checks EXCEPT ![i] = [@ EXCEPT !.step = "write", !.found = f]]  BY <1>10, <2>1 DEF Badge!Find
  <2>8. checks' = [checks EXCEPT ![i] = q] /\ UNCHANGED <<decorations, badgePast>>  BY <1>2, <1>10, <2>2, <2>7 DEF Badge!Find
  <2>9. QED  BY <1>2, <2>6, <2>8, BadgeOnward
<1>11. ASSUME NEW i \in 1..Len(s), Badge!Write(i) PROVE BadgeBounds'
  <2>1. PICK q : q = checks[i]  OBVIOUS
  <2>2. q \in BadgeCheck /\ q.count \in Nat /\ q.found \in 0..N  BY <1>2, <2>1, BadgeOfIs
  <2>3. q.count <= p.peak  BY <1>1, <1>2, <2>1 DEF BadgePeak
  <2>4. PICK a, b, m : a = p.counted /\ b = q.count /\ m = Badge!Max({a, b})  OBVIOUS
  <2>5. m = IF a <= b THEN b ELSE a  BY <1>3, <2>2, <2>4, GreaterIs
  <2>6. badgePast' = [events |-> p.events, peak |-> p.peak, counted |-> m, overlapped |-> p.overlapped, lost |-> p.lost]
    BY <1>2, <1>3, <1>11, <2>1, <2>4 DEF Badge!Write
  <2>7. m <= p.peak  BY <1>4, <2>3, <2>4, <2>5
  <2>8. checks' = Without(s, i)  BY <1>2, <1>11 DEF Badge!Write, Badge!Without, Without
  <2>9. checks' \in Seq(BadgeOf)  BY <1>4, <2>8, WithoutOne
  <2>10. PICK x : x = Badge!NewLevel(q)  OBVIOUS
  <2>11. decorations' = IF ~Badge!Reaches(q.count, q.found + 1) THEN o ELSE IF q.found = 0 THEN Append(o, x) ELSE [o EXCEPT ![1] = x]
    BY <1>2, <1>11, <2>1, <2>10 DEF Badge!Write
  <2>12. Badge!Reaches(q.count, q.found + 1) => x \in 1..N
    <3> HAVE Badge!Reaches(q.count, q.found + 1)
    <3>1. x \in (q.found + 1)..N  BY <1>2, <2>2, <2>10, NewLevelIs, LevelsAssumption
    <3>2. QED  BY <1>5, <2>2, <3>1
  <2>13. decorations' \in Seq(1..N)
    <3>1. CASE ~Badge!Reaches(q.count, q.found + 1)  BY <1>4, <2>11, <3>1
    <3>2. CASE Badge!Reaches(q.count, q.found + 1) /\ q.found = 0  BY <1>4, <2>11, <2>12, <3>2, Lengthened
    <3>3. CASE Badge!Reaches(q.count, q.found + 1) /\ q.found # 0
      <4>1. decorations' = [o EXCEPT ![1] = x] /\ x \in 1..N  BY <2>11, <2>12, <3>3
      <4>2. Len(o) \in Nat /\ o \in [1..Len(o) -> 1..N]  BY <1>4, LenProperties
      <4>3. [o EXCEPT ![1] = x] \in [1..Len(o) -> 1..N]  BY <4>1, <4>2
      <4>4. QED  BY <4>1, <4>2, <4>3, FunctionSeq
    <3>4. QED  BY <3>1, <3>2, <3>3
  <2>14. QED  BY <1>2, <1>4, <2>6, <2>7, <2>9, <2>13 DEF BadgeBounds
<1>12. QED  BY <1>2, <1>5, <1>6, <1>7, <1>8, <1>9, <1>10, <1>11 DEF Badge!Next

LEMMA BadgeGood == ASSUME BadgeInv, BadgeBounds PROVE Badge!TypeOK
<1>1. BadgeTypes /\ BadgePeak  BY DEF BadgeInv
<1>2. PICK p, N, s : p = badgePast /\ N = Len(BadgeLevels) /\ s = checks  OBVIOUS
<1>3. p.events \in Nat /\ p.peak \in Nat /\ p.counted \in Nat /\ p.overlapped \in BOOLEAN /\ p.lost \in BOOLEAN
  BY <1>1, <1>2, BadgePastIs
<1>4. p.peak <= p.events /\ p.events <= MaxEvents /\ p.counted <= p.peak /\ decorations \in Seq(1..N) /\ s \in Seq(BadgeOf)
  BY <1>2 DEF BadgeBounds
<1>5. MaxEvents \in Nat /\ worth \in Nat /\ worth <= p.peak  BY <1>1, <1>2, CountsAssumption DEF CountsAssumption, BadgeTypes, BadgePeak
<1>6. worth \in 0..MaxEvents /\ p.events \in 0..MaxEvents /\ p.peak \in 0..MaxEvents /\ p.counted \in 0..MaxEvents
  BY <1>3, <1>4, <1>5
<1>7. DOMAIN BadgeLevels = 1..N  BY <1>2, LevelsAre, LevelsAssumption
<1>8. \A k \in 1..Len(s) : s[k] \in [step : Badge!Steps, count : 0..MaxEvents, found : 0..N]
  <2> TAKE k \in 1..Len(s)
  <2>1. PICK c : c = s[k]  OBVIOUS
  <2>2. c.count \in Nat /\ c.found \in 0..N /\ c.step \in Badge!Steps /\ c = [step |-> c.step, count |-> c.count, found |-> c.found]
    BY <1>2, <2>1, BadgeOfIs
  <2>3. c.count <= p.peak  BY <1>1, <1>2, <2>1 DEF BadgePeak
  <2>4. c.count \in 0..MaxEvents  BY <1>3, <1>4, <1>5, <2>2, <2>3
  <2>5. QED  BY <2>1, <2>2, <2>4
<1>9. s \in Seq([step : Badge!Steps, count : 0..MaxEvents, found : 0..N])  BY <1>4, <1>8, SeqsAre
<1>10. QED  BY <1>2, <1>3, <1>4, <1>6, <1>7, <1>9 DEF Badge!TypeOK

-----------------------------------------------------------------------------
(* What is counted for hooks, and its types *)

\* the times a hook was or will never be called back, of those which start another, and those which said stop
CallsOf(s, ch) == {p \in (1..MaxAsync) \X {1, 2} : p[1] \in s.started /\ ch[p[1]] # "stop" /\ p[2] > s.left[p[1]]}
StopsOf(s, ch) == {h \in 1..MaxAsync : h \in s.started /\ ch[h] = "stop" /\ s.left[h] = 0}

\* every hook started but the first was started by a call, and done is called by one which says stop, or after the last
HookBounds ==
    /\ asked \in Seq(Priorities) /\ Len(asked) <= MaxBinds
    /\ state.started = {h \in 1..MaxAsync : h <= index}
    /\ \A h \in 1..MaxAsync : /\ state.left[h] <= 2 /\ (chain[h] = "stop" => state.left[h] <= 1)
                              /\ state.left[h] > 0 => h <= index
    /\ index > 0 => index <= 1 + Cardinality(CallsOf(state, chain))
    /\ state.done <= Cardinality(StopsOf(state, chain)) + IF index > MaxAsync THEN 1 ELSE 0

LEMMA CallsAre == ASSUME AsyncAssumption, NEW s, NEW ch
  PROVE  /\ IsFiniteSet(CallsOf(s, ch)) /\ Cardinality(CallsOf(s, ch)) \in Nat /\ Cardinality(CallsOf(s, ch)) <= 2 * MaxAsync
         /\ IsFiniteSet(StopsOf(s, ch)) /\ Cardinality(StopsOf(s, ch)) \in Nat /\ Cardinality(StopsOf(s, ch)) <= MaxAsync
<1>1. MaxAsync \in Nat  BY DEF AsyncAssumption
<1>2. PICK N : N = 1..MaxAsync  OBVIOUS
<1>3. IsFiniteSet(N) /\ Cardinality(N) = MaxAsync
  <2>1. IsFiniteSet(1..MaxAsync) /\ Cardinality(1..MaxAsync) = IF 1 > MaxAsync THEN 0 ELSE MaxAsync - 1 + 1
    BY <1>1, FS_Interval
  <2>2. QED  BY <1>1, <1>2, <2>1
<1>4. IsFiniteSet({1, 2}) /\ Cardinality({1, 2}) = 2
  <2>1. IsFiniteSet({1}) /\ Cardinality({1}) = 1  BY FS_Singleton
  <2>2. {1} \union {2} = {1, 2} /\ 2 \notin {1}  OBVIOUS
  <2>3. IsFiniteSet({1} \union {2}) /\ Cardinality({1} \union {2}) = Cardinality({1}) + 1  BY <2>1, <2>2, FS_AddElement
  <2>4. QED  BY <2>1, <2>2, <2>3
<1>5. PICK T : T = {1, 2}  OBVIOUS
<1>6. IsFiniteSet(N \X T) /\ Cardinality(N \X T) = MaxAsync * 2
  <2>1. IsFiniteSet(T) /\ Cardinality(T) = 2  BY <1>4, <1>5
  <2>2. IsFiniteSet(N \X T) /\ Cardinality(N \X T) = Cardinality(N) * Cardinality(T)  BY <1>3, <2>1, FS_Product
  <2>3. QED  BY <1>3, <2>1, <2>2
<1>7. CallsOf(s, ch) \subseteq N \X T /\ StopsOf(s, ch) \subseteq N  BY <1>2, <1>5 DEF CallsOf, StopsOf
<1>8. PICK A, B : A = CallsOf(s, ch) /\ B = StopsOf(s, ch)  OBVIOUS
<1>9. IsFiniteSet(A) /\ Cardinality(A) <= Cardinality(N \X T)  BY <1>6, <1>7, <1>8, FS_Subset
<1>10. IsFiniteSet(B) /\ Cardinality(B) <= Cardinality(N)  BY <1>3, <1>7, <1>8, FS_Subset
<1>11. Cardinality(A) \in Nat /\ Cardinality(B) \in Nat  BY <1>9, <1>10, FS_CardinalityType
<1>12. QED  BY <1>1, <1>3, <1>6, <1>8, <1>9, <1>10, <1>11

\* calls are not taken back
LEMMA CallsGrow == ASSUME AsyncAssumption, NEW s, NEW t, NEW ch, s.started \subseteq t.started,
                          \A h \in 1..MaxAsync : s.left[h] \in Nat /\ t.left[h] \in Nat,
                          \A h \in 1..MaxAsync : h \in s.started => t.left[h] <= s.left[h]
  PROVE  /\ CallsOf(s, ch) \subseteq CallsOf(t, ch) /\ Cardinality(CallsOf(s, ch)) <= Cardinality(CallsOf(t, ch))
         /\ StopsOf(s, ch) \subseteq StopsOf(t, ch) /\ Cardinality(StopsOf(s, ch)) <= Cardinality(StopsOf(t, ch))
<1>1. CallsOf(s, ch) \subseteq CallsOf(t, ch)
  <2> SUFFICES ASSUME NEW h \in 1..MaxAsync, NEW k \in {1, 2}, h \in s.started, ch[h] # "stop", k > s.left[h]
               PROVE  h \in t.started /\ k > t.left[h]
    BY DEF CallsOf
  <2>1. s.left[h] \in Nat /\ t.left[h] \in Nat /\ t.left[h] <= s.left[h]  OBVIOUS
  <2>2. QED  BY <2>1
<1>2. StopsOf(s, ch) \subseteq StopsOf(t, ch)
  <2> SUFFICES ASSUME NEW h \in 1..MaxAsync, h \in s.started, ch[h] = "stop", s.left[h] = 0 PROVE h \in t.started /\ t.left[h] = 0
    BY DEF StopsOf
  <2>1. s.left[h] \in Nat /\ t.left[h] \in Nat /\ t.left[h] <= s.left[h]  OBVIOUS
  <2>2. QED  BY <2>1
<1>3. PICK A, B, C, D : A = CallsOf(s, ch) /\ B = CallsOf(t, ch) /\ C = StopsOf(s, ch) /\ D = StopsOf(t, ch)  OBVIOUS
<1>4. IsFiniteSet(B) /\ IsFiniteSet(D)  BY <1>3, CallsAre
<1>5. Cardinality(A) <= Cardinality(B)  BY <1>1, <1>3, <1>4, FS_Subset
<1>6. Cardinality(C) <= Cardinality(D)  BY <1>2, <1>3, <1>4, FS_Subset
<1>7. QED  BY <1>1, <1>2, <1>3, <1>5, <1>6

\* a hook which calls back counts
LEMMA CallCounts == ASSUME AsyncAssumption, NEW s, NEW t, NEW ch, s.started \subseteq t.started,
                           \A h \in 1..MaxAsync : s.left[h] \in Nat /\ t.left[h] \in Nat,
                           \A h \in 1..MaxAsync : h \in s.started => t.left[h] <= s.left[h],
                           NEW c \in 1..MaxAsync, c \in s.started, s.left[c] \in {1, 2}, t.left[c] = s.left[c] - 1
  PROVE  /\ ch[c] # "stop" => Cardinality(CallsOf(s, ch)) + 1 <= Cardinality(CallsOf(t, ch))
         /\ ch[c] = "stop" /\ s.left[c] = 1 => Cardinality(StopsOf(s, ch)) + 1 <= Cardinality(StopsOf(t, ch))
<1>1. PICK A, B, C, D : A = CallsOf(s, ch) /\ B = CallsOf(t, ch) /\ C = StopsOf(s, ch) /\ D = StopsOf(t, ch)  OBVIOUS
<1>2. /\ IsFiniteSet(A) /\ IsFiniteSet(B) /\ IsFiniteSet(C) /\ IsFiniteSet(D) /\ A \subseteq B /\ C \subseteq D
      /\ Cardinality(A) \in Nat /\ Cardinality(C) \in Nat
  BY <1>1, CallsAre, CallsGrow
<1>3. PICK l : l = s.left[c]  OBVIOUS
<1>4. l \in {1, 2} /\ t.left[c] = l - 1 /\ l > l - 1 /\ ~(l > l)  BY <1>3
<1>5. ch[c] # "stop" => <<c, l>> \in B /\ <<c, l>> \notin A
  <2> HAVE ch[c] # "stop"
  <2>1. PICK e : e = <<c, l>>  OBVIOUS
  <2>2. e \in (1..MaxAsync) \X {1, 2} /\ e[1] = c /\ e[2] = l  BY <1>4, <2>1
  <2>3. c \in t.started  OBVIOUS
  <2>4. e \in B  BY <1>1, <1>4, <2>2, <2>3 DEF CallsOf
  <2>5. e \notin A  BY <1>1, <1>3, <1>4, <2>2 DEF CallsOf
  <2>6. QED  BY <2>1, <2>4, <2>5
<1>6. ch[c] = "stop" /\ l = 1 => c \in D /\ c \notin C
  <2> HAVE ch[c] = "stop" /\ l = 1
  <2>1. c \in t.started /\ t.left[c] = 0 /\ s.left[c] # 0  BY <1>3, <1>4
  <2>2. QED  BY <1>1, <2>1 DEF StopsOf
<1>7. ASSUME NEW E, NEW F, NEW e, IsFiniteSet(E), IsFiniteSet(F), E \subseteq F, e \in F, e \notin E, Cardinality(E) \in Nat
      PROVE  Cardinality(E) + 1 <= Cardinality(F)
  <2>1. PICK G : G = E \union {e}  OBVIOUS
  <2>2. IsFiniteSet(G) /\ Cardinality(G) = Cardinality(E) + 1  BY <1>7, <2>1, FS_AddElement
  <2>3. G \subseteq F  BY <1>7, <2>1
  <2>4. Cardinality(G) <= Cardinality(F)  BY <1>7, <2>3, FS_Subset
  <2>5. QED  BY <2>2, <2>4
<1>8. ch[c] # "stop" => Cardinality(A) + 1 <= Cardinality(B)
  <2> HAVE ch[c] # "stop"
  <2>1. PICK e : e = <<c, l>>  OBVIOUS
  <2>2. e \in B /\ e \notin A  BY <1>5, <2>1
  <2>3. QED  BY <1>2, <1>7, <2>2
<1>9. ch[c] = "stop" /\ l = 1 => Cardinality(C) + 1 <= Cardinality(D)
  <2> HAVE ch[c] = "stop" /\ l = 1
  <2>1. c \in D /\ c \notin C  BY <1>6
  <2>2. QED  BY <1>2, <1>7, <2>1
<1>10. QED  BY <1>1, <1>3, <1>8, <1>9
LEMMA HookBoundsInit == ASSUME Hook!Init PROVE HookBounds
<1>1. /\ asked = << >> /\ index = 0
      /\ state = [left |-> [h \in 1..MaxAsync |-> 0], started |-> {}, done |-> 0, thrown |-> FALSE]
  BY DEF Hook!Init
<1>2. MaxAsync \in Nat /\ 0 <= MaxBinds  BY AsyncAssumption, CountsAssumption DEF AsyncAssumption, CountsAssumption
<1>3. \A h \in 1..MaxAsync : state.left[h] = 0  BY <1>1
<1>4. state.started = {h \in 1..MaxAsync : h <= index}  BY <1>1, <1>2
<1>5. PICK n : n = Cardinality(StopsOf(state, chain))  OBVIOUS
<1>6. n \in Nat  BY <1>5, AsyncAssumption, CallsAre
<1>7. state.done <= n + IF index > MaxAsync THEN 1 ELSE 0  BY <1>1, <1>2, <1>6
<1>8. QED  BY <1>1, <1>2, <1>3, <1>4, <1>5, <1>7 DEF HookBounds

LEMMA HookStateIs == ASSUME HookTypes
  PROVE  /\ state = [left |-> state.left, started |-> state.started, done |-> state.done, thrown |-> state.thrown]
         /\ state.left \in [1..MaxAsync -> Nat] /\ state.started \in SUBSET (1..MaxAsync) /\ state.done \in Nat
         /\ state.thrown \in BOOLEAN
BY DEF HookTypes, HookState

LEMMA NoneLeft == ASSUME HookTypes, AsyncAssumption, NEW left \in [1..MaxAsync -> Nat], Hook!NextHook(left), index + 1 = MaxAsync + 1
  PROVE  state' = [state EXCEPT !.left = left, !.done = @ + 1]
<1>1. PICK s, i, t : s = state /\ i = index + 1 /\ t = state'  OBVIOUS
<1>2. i = MaxAsync + 1  BY <1>1
<1>3. i \in Nat /\ MaxAsync \in Nat  BY <1>1 DEF HookTypes, AsyncAssumption
<1>4. t = [s EXCEPT !.left = left, !.done = @ + 1]  BY <1>1, <1>2, <1>3 DEF Hook!NextHook
<1>5. QED  BY <1>1, <1>4

\* the next hook is started by a call which counts, but for the first
LEMMA HookNextBounds == ASSUME HookInv, HookBounds, NEW left \in [1..MaxAsync -> Nat], Hook!NextHook(left),
                               UNCHANGED <<asked, chain>>, \A h \in 1..MaxAsync : left[h] <= state.left[h],
                               NEW u, u = [left |-> left, started |-> state.started, done |-> state.done, thrown |-> state.thrown],
                               index > 0 => Cardinality(CallsOf(state, chain)) + 1 <= Cardinality(CallsOf(u, chain))
  PROVE  HookBounds'
<1>1. HookTypes  BY DEF HookInv
<1>2. PICK s, i, t, N, ch : s = state /\ i = index + 1 /\ t = state' /\ N = 1..MaxAsync /\ ch = chain  OBVIOUS
<1>3. /\ s = [left |-> s.left, started |-> s.started, done |-> s.done, thrown |-> s.thrown]
      /\ s.left \in [N -> Nat] /\ s.started \in SUBSET N /\ s.done \in Nat
  BY <1>1, <1>2, HookStateIs
<1>4. i \in Nat /\ i > 0 /\ index' = i /\ MaxAsync \in Nat /\ index \in Nat
  BY <1>1, <1>2, AsyncAssumption DEF HookTypes, Hook!NextHook, AsyncAssumption
<1>5. /\ s.started = {h \in N : h <= index}
      /\ \A h \in N : s.left[h] <= 2 /\ (ch[h] = "stop" => s.left[h] <= 1) /\ (s.left[h] > 0 => h <= index)
      /\ index > 0 => index <= 1 + Cardinality(CallsOf(s, ch))
      /\ s.done <= Cardinality(StopsOf(s, ch)) + IF index > MaxAsync THEN 1 ELSE 0
  BY <1>2 DEF HookBounds
<1>6. u.left = left /\ u.started = s.started /\ u.done = s.done  BY <1>2
<1>7. \A h \in N : left[h] \in Nat /\ s.left[h] \in Nat /\ left[h] <= s.left[h]  BY <1>2, <1>3
<1>8. /\ Cardinality(StopsOf(s, ch)) <= Cardinality(StopsOf(u, ch))
  <2>1. \A h \in 1..MaxAsync : s.left[h] \in Nat /\ u.left[h] \in Nat  BY <1>2, <1>6, <1>7
  <2>2. \A h \in 1..MaxAsync : h \in s.started => u.left[h] <= s.left[h]  BY <1>2, <1>6, <1>7
  <2>3. s.started \subseteq u.started  BY <1>6
  <2>4. QED  BY <2>1, <2>2, <2>3, CallsGrow, AsyncAssumption
<1>9. ASSUME u.started \subseteq t.started, \A h \in N : t.left[h] \in Nat, \A h \in N : h \in s.started => t.left[h] = left[h],
             \A h \in N : t.left[h] <= 2 /\ (ch[h] = "stop" => t.left[h] <= 1) /\ (t.left[h] > 0 => h <= i),
             t.started = {h \in N : h <= i}, t.done = s.done + IF i = MaxAsync + 1 THEN 1 ELSE 0
      PROVE  HookBounds'
  <2>1. /\ Cardinality(CallsOf(u, ch)) <= Cardinality(CallsOf(t, ch)) /\ Cardinality(StopsOf(u, ch)) <= Cardinality(StopsOf(t, ch))
    <3>1. \A h \in 1..MaxAsync : u.left[h] \in Nat /\ t.left[h] \in Nat  BY <1>2, <1>6, <1>7, <1>9
    <3>2. \A h \in 1..MaxAsync : h \in u.started => t.left[h] <= u.left[h]  BY <1>2, <1>6, <1>7, <1>9
    <3>3. QED  BY <1>9, <3>1, <3>2, CallsGrow, AsyncAssumption
  <2>2. PICK a, b, c, d, e, f : /\ a = Cardinality(CallsOf(s, ch)) /\ b = Cardinality(CallsOf(u, ch)) /\ c = Cardinality(CallsOf(t, ch))
                                /\ d = Cardinality(StopsOf(s, ch)) /\ e = Cardinality(StopsOf(u, ch)) /\ f = Cardinality(StopsOf(t, ch))
    OBVIOUS
  <2>3. a \in Nat /\ b \in Nat /\ c \in Nat /\ d \in Nat /\ e \in Nat /\ f \in Nat  BY <2>2, CallsAre, AsyncAssumption
  <2>4. b <= c /\ d <= e /\ e <= f /\ (index > 0 => index <= 1 + a /\ a + 1 <= b)  BY <1>2, <1>5, <1>8, <2>1, <2>2
  <2>5. i <= 1 + c
    <3>1. CASE index > 0
      <4>1. index <= 1 + a /\ a + 1 <= b /\ b <= c  BY <2>4, <3>1
      <4>2. i = index + 1  BY <1>2
      <4>3. QED  BY <1>4, <2>3, <4>1, <4>2
    <3>2. CASE ~(index > 0)
      <4>1. i = 1  BY <1>2, <1>4, <3>2
      <4>2. QED  BY <2>3, <4>1
    <3>3. QED  BY <3>1, <3>2
  <2>6. t.done <= f + IF i > MaxAsync THEN 1 ELSE 0
    <3>1. s.done <= d + IF index > MaxAsync THEN 1 ELSE 0  BY <1>5, <2>2
    <3>2. d <= f  BY <2>3, <2>4
    <3>3. CASE i = MaxAsync + 1
      <4>1. ~(index > MaxAsync) /\ i > MaxAsync  BY <1>2, <1>4, <3>3
      <4>2. t.done = s.done + 1 /\ s.done <= d  BY <1>3, <1>9, <2>3, <3>1, <3>3, <4>1
      <4>3. QED  BY <1>3, <2>3, <3>2, <4>1, <4>2
    <3>4. CASE i # MaxAsync + 1
      <4>1. index > MaxAsync <=> i > MaxAsync  BY <1>2, <1>4, <3>4
      <4>2. t.done = s.done  BY <1>3, <1>9, <3>4
      <4>3. QED  BY <1>3, <2>3, <3>1, <3>2, <4>1, <4>2
    <3>5. QED  BY <3>3, <3>4
  <2>7. asked' = asked /\ chain' = ch  BY <1>2
  <2>8. asked \in Seq(Priorities) /\ Len(asked) <= MaxBinds  BY DEF HookBounds
  <2>9. QED  BY <1>2, <1>4, <1>9, <2>2, <2>5, <2>6, <2>7, <2>8 DEF HookBounds
<1>10. \A h \in N : left[h] <= 2 /\ (ch[h] = "stop" => left[h] <= 1) /\ (left[h] > 0 => h <= i)
  <2> TAKE h \in N
  <2>1. h \in Nat /\ left[h] \in Nat /\ s.left[h] \in Nat /\ left[h] <= s.left[h]  BY <1>2, <1>4, <1>7
  <2>2. s.left[h] <= 2 /\ (ch[h] = "stop" => s.left[h] <= 1) /\ (s.left[h] > 0 => h <= index)  BY <1>5
  <2>3. QED  BY <1>2, <1>4, <2>1, <2>2
<1>11. CASE i = MaxAsync + 1 \/ i > MaxAsync + 1
  <2>1. t.left = left /\ t.started = s.started /\ t.done = s.done + IF i = MaxAsync + 1 THEN 1 ELSE 0
    <3>1. CASE i = MaxAsync + 1
      <4>1. index + 1 = MaxAsync + 1  BY <1>2, <3>1
      <4>2. t = [s EXCEPT !.left = left, !.done = @ + 1]
        <5>1. state' = [state EXCEPT !.left = left, !.done = @ + 1]  BY <1>1, <4>1, NoneLeft, AsyncAssumption
        <5>2. QED  BY <1>2, <5>1
      <4>3. t = [left |-> left, started |-> s.started, done |-> s.done + 1, thrown |-> s.thrown]  BY <1>3, <4>2
      <4>4. QED  BY <3>1, <4>3
    <3>2. CASE i > MaxAsync + 1
      <4>1. index + 1 # MaxAsync + 1 /\ index + 1 > MaxAsync + 1 /\ i # MaxAsync + 1  BY <1>2, <1>4, <3>2
      <4>2. t = [s EXCEPT !.left = left, !.thrown = TRUE]  BY <1>2, <4>1, Zenon DEF Hook!NextHook
      <4>3. QED  BY <1>3, <4>1, <4>2
    <3>3. QED  BY <1>11, <3>1, <3>2
  <2>2. s.started = {h \in N : h <= i}
    <3>1. \A h \in N : h \in Nat /\ h <= MaxAsync  BY <1>2, <1>4
    <3>2. index >= MaxAsync  BY <1>2, <1>4, <1>11
    <3>3. \A h \in N : h <= index /\ h <= i  BY <1>2, <1>4, <3>1, <3>2
    <3>4. QED  BY <1>5, <3>3
  <2>3. QED  BY <1>6, <1>7, <1>9, <1>10, <2>1, <2>2
<1>12. CASE i <= MaxAsync
  <2>1. PICK k : k = CASE ch[i] = "twice" -> 2 [] ch[i] = "never" -> 0 [] OTHER -> 1  OBVIOUS
  <2>2. i \in N /\ i \notin s.started  BY <1>2, <1>4, <1>5, <1>12
  <2>3. t.left = [left EXCEPT ![i] = k] /\ t.started = s.started \union {i} /\ t.done = s.done + IF i = MaxAsync + 1 THEN 1 ELSE 0
    <3>1. index + 1 # MaxAsync + 1 /\ ~(index + 1 > MaxAsync + 1) /\ i # MaxAsync + 1  BY <1>2, <1>4, <1>12
    <3>2. t = [s EXCEPT !.started = @ \union {i}, !.left = [left EXCEPT ![i] = k]]
      BY <1>2, <2>1, <3>1 DEF Hook!NextHook
    <3>3. QED  BY <1>3, <3>1, <3>2
  <2>4. k \in Nat /\ k <= 2 /\ (ch[i] = "stop" => k <= 1)  BY <2>1
  <2>5. \A h \in N : t.left[h] = IF h = i THEN k ELSE left[h]  BY <1>2, <2>2, <2>3
  <2>6. t.started = {h \in N : h <= i}
    <3>1. \A h \in N : h \in Nat /\ (h <= i <=> h <= index \/ h = i)  BY <1>2, <1>4
    <3>2. QED  BY <1>5, <2>2, <2>3, <3>1
  <2>7. \A h \in N : t.left[h] \in Nat /\ (h \in s.started => t.left[h] = left[h])  BY <1>7, <2>2, <2>4, <2>5
  <2>8. \A h \in N : t.left[h] <= 2 /\ (ch[h] = "stop" => t.left[h] <= 1) /\ (t.left[h] > 0 => h <= i)
    <3> TAKE h \in N
    <3>1. CASE h = i  BY <1>4, <2>4, <2>5, <3>1
    <3>2. CASE h # i  BY <1>10, <2>5, <3>2
    <3>3. QED  BY <3>1, <3>2
  <2>9. u.started \subseteq t.started  BY <1>6, <2>3
  <2>10. QED  BY <1>9, <2>3, <2>6, <2>7, <2>8, <2>9
<1>13. QED  BY <1>4, <1>11, <1>12
LEMMA HookBoundsKept == ASSUME HookInv, HookBounds, Hook!Next \/ UNCHANGED hooks PROVE HookBounds'
<1>1. HookTypes  BY DEF HookInv
<1>2. PICK s, N, ch : s = state /\ N = 1..MaxAsync /\ ch = chain  OBVIOUS
<1>3. /\ s = [left |-> s.left, started |-> s.started, done |-> s.done, thrown |-> s.thrown]
      /\ s.left \in [N -> Nat] /\ s.started \in SUBSET N /\ s.done \in Nat
  BY <1>1, <1>2, HookStateIs
<1>4. MaxAsync \in Nat /\ index \in Nat  BY <1>1, AsyncAssumption DEF HookTypes, AsyncAssumption
<1>5. /\ s.started = {h \in N : h <= index}
      /\ \A h \in N : s.left[h] <= 2 /\ (ch[h] = "stop" => s.left[h] <= 1) /\ (s.left[h] > 0 => h <= index)
      /\ index > 0 => index <= 1 + Cardinality(CallsOf(s, ch))
      /\ s.done <= Cardinality(StopsOf(s, ch)) + IF index > MaxAsync THEN 1 ELSE 0
  BY <1>2 DEF HookBounds
<1>6. asked \in Seq(Priorities) /\ Len(asked) <= MaxBinds  BY DEF HookBounds
<1>7. CASE UNCHANGED hooks  BY <1>7 DEF hooks, HookBounds
<1>8. CASE Hook!Bind
  <2>1. PICK p \in Priorities : asked' = Append(asked, p) /\ Len(asked) < MaxBinds  BY <1>8 DEF Hook!Bind
  <2>2. PICK a : a = asked  OBVIOUS
  <2>3. a \in Seq(Priorities) /\ Len(a) < MaxBinds /\ Len(a) \in Nat  BY <1>6, <2>1, <2>2, LenProperties
  <2>4. Append(a, p) \in Seq(Priorities) /\ Len(Append(a, p)) = Len(a) + 1  BY <2>3, Lengthened
  <2>5. MaxBinds \in Nat  BY CountsAssumption DEF CountsAssumption
  <2>6. asked' \in Seq(Priorities) /\ Len(asked') <= MaxBinds  BY <2>1, <2>2, <2>3, <2>4, <2>5
  <2>7. chain' = chain /\ index' = index /\ state' = state  BY <1>8 DEF Hook!Bind
  <2>8. QED  BY <2>6, <2>7 DEF HookBounds
<1>9. CASE Hook!Fire
  <2>1. index = 0 /\ Hook!NextHook(state.left) /\ UNCHANGED <<asked, chain>>  BY <1>9 DEF Hook!Fire
  <2>2. state.left \in [1..MaxAsync -> Nat]  BY <1>1, HookStateIs
  <2>3. \A h \in 1..MaxAsync : state.left[h] <= state.left[h]
    <3>1. PICK l : l = state.left  OBVIOUS
    <3>2. \A h \in 1..MaxAsync : l[h] \in Nat  BY <2>2, <3>1
    <3>3. \A h \in 1..MaxAsync : l[h] <= l[h]  BY <3>2
    <3>4. QED  BY <3>1, <3>3
  <2>4. ~(index > 0)  BY <2>1
  <2>5. QED  BY <2>1, <2>2, <2>3, <2>4, HookNextBounds
<1>10. ASSUME NEW c \in N, Hook!CallBack(c) PROVE HookBounds'
  <2>1. PICK left : left = [state.left EXCEPT ![c] = @ - 1]  OBVIOUS
  <2>2. UNCHANGED <<asked, chain>> /\ s.left[c] > 0  BY <1>2, <1>10 DEF Hook!CallBack
  <2>3. left \in [N -> Nat] /\ \A h \in N : left[h] = IF h = c THEN s.left[c] - 1 ELSE s.left[h]
    <3>1. PICK f, n : f = s.left /\ n = s.left[c] - 1  OBVIOUS
    <3>2. f \in [N -> Nat] /\ n \in Nat  BY <1>3, <2>2, <3>1
    <3>3. left = [f EXCEPT ![c] = n]  BY <1>2, <2>1, <3>1
    <3>4. left \in [N -> Nat] /\ \A h \in N : left[h] = IF h = c THEN n ELSE f[h]  BY <3>2, <3>3
    <3>5. QED  BY <3>1, <3>4
  <2>4. PICK u : u = [left |-> left, started |-> s.started, done |-> s.done, thrown |-> s.thrown]  OBVIOUS
  <2>5. u.left = left /\ u.started = s.started  BY <2>4
  <2>6. s.left[c] \in {1, 2} /\ c \in s.started /\ c <= index
    <3>1. s.left[c] \in Nat /\ s.left[c] <= 2 /\ s.left[c] > 0 /\ c <= index  BY <1>3, <1>5, <2>2
    <3>2. QED  BY <1>5, <3>1
  <2>7. \A h \in N : s.left[h] \in Nat /\ left[h] \in Nat /\ left[h] <= s.left[h]
    <3> TAKE h \in N
    <3>1. s.left[h] \in Nat /\ left[h] \in Nat  BY <1>3, <2>3
    <3>2. s.left[c] - 1 <= s.left[c]  BY <2>6
    <3>3. QED  BY <2>3, <3>1, <3>2
  <2>8. left[c] = s.left[c] - 1  BY <2>3
  <2>9. /\ ch[c] # "stop" => Cardinality(CallsOf(s, ch)) + 1 <= Cardinality(CallsOf(u, ch))
        /\ ch[c] = "stop" /\ s.left[c] = 1 => Cardinality(StopsOf(s, ch)) + 1 <= Cardinality(StopsOf(u, ch))
    <3>1. s.started \subseteq u.started  BY <2>5
    <3>2. \A h \in 1..MaxAsync : s.left[h] \in Nat /\ u.left[h] \in Nat  BY <1>2, <2>5, <2>7
    <3>3. \A h \in 1..MaxAsync : h \in s.started => u.left[h] <= s.left[h]  BY <1>2, <2>5, <2>7
    <3>4. c \in 1..MaxAsync /\ u.left[c] = s.left[c] - 1  BY <1>2, <2>5, <2>8
    <3>5. QED  BY <2>6, <3>1, <3>2, <3>3, <3>4, CallCounts, AsyncAssumption
  <2>10. CASE ch[c] # "stop"
    <3>1. Hook!NextHook(left)  BY <1>2, <1>10, <2>1, <2>10 DEF Hook!CallBack
    <3>2. left \in [1..MaxAsync -> Nat] /\ \A h \in 1..MaxAsync : left[h] <= state.left[h]  BY <1>2, <2>3, <2>7
    <3>3. Cardinality(CallsOf(state, chain)) + 1 <= Cardinality(CallsOf(u, chain))  BY <1>2, <2>9, <2>10
    <3>4. u = [left |-> left, started |-> state.started, done |-> state.done, thrown |-> state.thrown]  BY <1>2, <2>4
    <3>5. QED  BY <2>2, <3>1, <3>2, <3>3, <3>4, HookNextBounds
  <2>11. CASE ch[c] = "stop"
    <3>1. state' = [s EXCEPT !.left = left, !.done = @ + 1] /\ index' = index  BY <1>2, <1>10, <2>1, <2>11 DEF Hook!CallBack
    <3>2. PICK t : t = state'  OBVIOUS
    <3>3. t = [left |-> left, started |-> s.started, done |-> s.done + 1, thrown |-> s.thrown]  BY <1>3, <3>1, <3>2
    <3>4. s.left[c] = 1
      <4>1. s.left[c] <= 1  BY <1>5, <2>11
      <4>2. QED  BY <2>6, <4>1
    <3>5. PICK a, b, d, e : /\ a = Cardinality(CallsOf(s, ch)) /\ b = Cardinality(CallsOf(t, ch))
                            /\ d = Cardinality(StopsOf(s, ch)) /\ e = Cardinality(StopsOf(t, ch))
      OBVIOUS
    <3>6. t.left = left /\ t.started = s.started /\ t.done = s.done + 1  BY <3>3
    <3>7. CallsOf(t, ch) = CallsOf(u, ch) /\ StopsOf(t, ch) = StopsOf(u, ch)  BY <2>5, <3>6 DEF CallsOf, StopsOf
    <3>8. a \in Nat /\ b \in Nat /\ d \in Nat /\ e \in Nat  BY <3>5, CallsAre, AsyncAssumption
    <3>9. d + 1 <= e  BY <2>9, <2>11, <3>4, <3>5, <3>7
    <3>10. a <= b
      <4>1. s.started \subseteq t.started  BY <3>6
      <4>2. \A h \in 1..MaxAsync : s.left[h] \in Nat /\ t.left[h] \in Nat  BY <1>2, <2>7, <3>6
      <4>3. \A h \in 1..MaxAsync : h \in s.started => t.left[h] <= s.left[h]  BY <1>2, <2>7, <3>6
      <4>4. Cardinality(CallsOf(s, ch)) <= Cardinality(CallsOf(t, ch))  BY <4>1, <4>2, <4>3, CallsGrow, AsyncAssumption
      <4>5. QED  BY <3>5, <4>4
    <3>11. t.done <= e + IF index > MaxAsync THEN 1 ELSE 0
      <4>1. PICK x \in Nat : x = IF index > MaxAsync THEN 1 ELSE 0  OBVIOUS
      <4>2. s.done <= d + x  BY <1>5, <3>5, <4>1
      <4>3. QED  BY <1>3, <3>6, <3>8, <3>9, <4>1, <4>2
    <3>12. index > 0 => index <= 1 + b
      <4> HAVE index > 0
      <4>1. index <= 1 + a  BY <1>5, <3>5
      <4>2. QED  BY <1>4, <3>8, <3>10, <4>1
    <3>13. \A h \in N : t.left[h] <= 2 /\ (ch[h] = "stop" => t.left[h] <= 1) /\ (t.left[h] > 0 => h <= index)
      <4> TAKE h \in N
      <4>1. left[h] \in Nat /\ s.left[h] \in Nat /\ left[h] <= s.left[h]  BY <2>7
      <4>2. s.left[h] <= 2 /\ (ch[h] = "stop" => s.left[h] <= 1) /\ (s.left[h] > 0 => h <= index)  BY <1>5
      <4>3. QED  BY <3>6, <4>1, <4>2
    <3>14. asked' = asked /\ chain' = ch  BY <1>2, <2>2
    <3>15. t.started = {h \in N : h <= index}  BY <1>5, <3>6
    <3>16. QED  BY <1>2, <1>6, <3>1, <3>2, <3>5, <3>11, <3>12, <3>13, <3>14, <3>15 DEF HookBounds
  <2>12. QED  BY <2>10, <2>11
<1>11. QED  BY <1>2, <1>7, <1>8, <1>9, <1>10 DEF Hook!Next

LEMMA HookTypesGood == ASSUME HookInv, HookBounds PROVE Hook!TypeOK
<1>1. HookTypes  BY DEF HookInv
<1>2. PICK s, N, M : s = state /\ N = 1..MaxAsync /\ M = MaxAsync  OBVIOUS
<1>3. /\ s = [left |-> s.left, started |-> s.started, done |-> s.done, thrown |-> s.thrown]
      /\ s.left \in [N -> Nat] /\ s.started \in SUBSET N /\ s.done \in Nat /\ s.thrown \in BOOLEAN
  BY <1>1, <1>2, HookStateIs
<1>4. M \in Nat /\ index \in Nat  BY <1>1, <1>2, AsyncAssumption DEF HookTypes, AsyncAssumption
<1>5. PICK a, d : a = Cardinality(CallsOf(state, chain)) /\ d = Cardinality(StopsOf(state, chain))  OBVIOUS
<1>6. a \in Nat /\ d \in Nat /\ a <= 2 * M /\ d <= M  BY <1>2, <1>5, CallsAre, AsyncAssumption
<1>7. (index > 0 => index <= 1 + a) /\ s.done <= d + (IF index > M THEN 1 ELSE 0) /\ \A h \in N : s.left[h] <= 2
  BY <1>2, <1>5 DEF HookBounds
<1>8. index \in 0..(2 * M + 1)
  <2>1. CASE index > 0  BY <1>4, <1>6, <1>7, <2>1
  <2>2. CASE ~(index > 0)  BY <1>4, <2>2
  <2>3. QED  BY <2>1, <2>2
<1>9. s.done \in 0..(M + 1)  BY <1>3, <1>4, <1>6, <1>7
<1>10. s.left \in [N -> 0..2]  BY <1>3, <1>7
<1>11. state \in [left : [1..MaxAsync -> 0..2], started : SUBSET (1..MaxAsync), done : 0..MaxAsync + 1, thrown : BOOLEAN]
  BY <1>2, <1>3, <1>9, <1>10
<1>12. chain \in Seq(Hook!Fates) /\ Len(chain) = MaxAsync
  <2>1. PICK F, c : F = Hook!Fates /\ c = chain  OBVIOUS
  <2>2. c \in [1..M -> F]  BY <1>1, <1>2, <2>1 DEF HookTypes
  <2>3. c \in Seq(F) /\ Len(c) = M  BY <1>4, <2>2, FunctionSeq
  <2>4. QED  BY <1>2, <2>1, <2>3
<1>13. QED  BY <1>1, <1>2, <1>8, <1>11, <1>12 DEF HookTypes, HookBounds, Hook!TypeOK

-----------------------------------------------------------------------------
(* What is counted for scheduled jobs, and its types *)

\* a timer is of a moment within a week and two months of the last day
FarTick == Sched!Moment(MaxDays + Week + Long + Short, 0)

SchedBounds == due \in Nat => due <= FarTick

LEMMA Calendar == ScheduleAssumption =>
  /\ Ticks \in Nat \ {0} /\ Week \in Nat \ {0, 1} /\ Long \in Nat \ {0} /\ Short \in Nat \ {0} /\ MaxDays \in Nat
  /\ 0 \in 0..(Ticks - 1) /\ MaxDays + Week + Long + Short \in Nat
BY DEF ScheduleAssumption

LEMMA NotFar == ASSUME ScheduleAssumption, NEW n \in Nat, n < MaxDays + Week + Long + Short, NEW k \in 0..(Ticks - 1)
  PROVE  Sched!Moment(n, k) <= FarTick
<1>1. PICK e : e = MaxDays + Week + Long + Short  OBVIOUS
<1>2. e \in Nat /\ 0 \in 0..(Ticks - 1) /\ n < e  BY <1>1, Calendar
<1>3. Sched!Moment(n, k) \in Nat /\ Sched!Moment(e, 0) \in Nat /\ Sched!Moment(n, k) < Sched!Moment(e, 0)  BY <1>2, MomentOrder
<1>4. FarTick = Sched!Moment(e, 0)  BY <1>1 DEF FarTick
<1>5. QED  BY <1>3, <1>4

LEMMA NextIsFar == ASSUME ScheduleAssumption, NEW t \in 0..LastTick, NEW a \in 0..Ticks
  PROVE  FarTick \in Nat /\ t + a <= FarTick
<1>1. PICK l, s, y, e : l = MaxDays * Ticks /\ s = Ticks /\ y = e * Ticks /\ e = MaxDays + Week + Long + Short  OBVIOUS
<1>2. e \in Nat /\ MaxDays \in Nat /\ Ticks \in Nat \ {0} /\ MaxDays < e  BY <1>1, Calendar
<1>3. l + s <= y  BY <1>1, <1>2, TimesRise
<1>4. l \in Nat /\ y \in Nat /\ s \in Nat  BY <1>1, <1>2
<1>5. LastTick = l + 0 /\ FarTick = y + 0  BY <1>1 DEF LastTick, FarTick, Sched!Moment
<1>6. t \in 0..l /\ a \in 0..s  BY <1>1, <1>4, <1>5
<1>7. QED  BY <1>3, <1>4, <1>5, <1>6

LEMMA LaterIsNear == ASSUME ScheduleAssumption, job \in Sched!Jobs, NEW t \in 0..LastTick PROVE Sched!Later(t) <= FarTick
<1>1. PICK d, k, a, j : d = Sched!Day(t) /\ k = Sched!Tick(t) /\ a = job.at /\ j = job.day  OBVIOUS
<1>2. t \in Nat /\ d \in Nat /\ d <= MaxDays /\ k \in 0..(Ticks - 1) /\ t = Sched!Moment(d, k)
  BY <1>1, LastTickIs, MomentOf
<1>3. PICK D, w, l, s : D = MaxDays /\ w = Week /\ l = Long /\ s = Short  OBVIOUS
<1>4. D \in Nat /\ w \in Nat \ {0, 1} /\ l \in Nat \ {0} /\ s \in Nat \ {0} /\ d <= D  BY <1>2, <1>3, Calendar
<1>5. \A n \in Nat : n < D + w + l + s => \A i \in 0..(Ticks - 1) : Sched!Moment(n, i) <= FarTick  BY <1>3, NotFar
<1>6. CASE job.every = "day"
  <2>1. Sched!Later(t) = Sched!Moment(IF k < a THEN d ELSE d + 1, a)  BY <1>1, <1>6 DEF Sched!Later, Sched!NextDay
  <2>2. a \in 0..(Ticks - 1)  BY <1>1, <1>6, JobIs
  <2>3. d < D + w + l + s /\ d + 1 < D + w + l + s /\ d + 1 \in Nat  BY <1>2, <1>4
  <2>4. QED  BY <1>2, <1>5, <2>1, <2>2, <2>3
<1>7. CASE job.every = "weekday"
  <2>1. PICK z : z = (j + Week - Sched!Weekday(t)) % Week  OBVIOUS
  <2>2. Sched!Later(t) = Sched!Moment(d + z, a)  BY <1>1, <1>7, <2>1 DEF Sched!Later, Sched!NextWeekday
  <2>3. a \in 0..(Ticks - 1) /\ j \in 0..(w - 1)  BY <1>1, <1>3, <1>7, JobIs
  <2>4. Sched!Weekday(t) = d % w  BY <1>1, <1>3 DEF Sched!Weekday
  <2>5. d % w \in 0..(w - 1)  BY <1>2, <1>4
  <2>6. PICK x : x = j + w - (d % w)  OBVIOUS
  <2>7. x \in Nat /\ z = x % w  BY <1>3, <1>4, <2>1, <2>3, <2>4, <2>5, <2>6
  <2>8. z \in 0..(w - 1)  BY <1>4, <2>7
  <2>9. d + z \in Nat /\ d + z < D + w + l + s  BY <1>2, <1>4, <2>8
  <2>10. QED  BY <1>5, <2>2, <2>3, <2>9
<1>8. CASE job.every = "month"
  <2>1. PICK m, f, g : m = Sched!Month(t) /\ f = Sched!FirstDay(m) /\ g = Sched!FirstDay(m + 1)  OBVIOUS
  <2>2. m \in Nat /\ f <= d  BY <1>1, <1>2, <1>4, <2>1, MonthIs, Calendar
  <2>3. f \in Nat /\ g = f + (IF m % 2 = 0 THEN l ELSE s)  BY <1>3, <2>1, <2>2, MonthLength
  <2>4. a \in 0..(Ticks - 1) /\ j \in 1..l  BY <1>1, <1>3, <1>8, JobIs
  <2>5. Sched!DayOfMonth(t) = d - f + 1  BY <1>1, <2>1 DEF Sched!DayOfMonth
  <2>6. PICK v : v = d - f + 1  OBVIOUS
  <2>7. Sched!Later(t) = IF v = j /\ k < a THEN Sched!Moment(d, a)
                         ELSE Sched!Moment(Sched!FirstDay(m + (IF v < j THEN 0 ELSE 1)) + j - 1, a)
    BY <1>1, <1>8, <2>1, <2>5, <2>6 DEF Sched!Later, Sched!NextMonthday
  <2>8. d < D + w + l + s  BY <1>2, <1>4
  <2>9. CASE v = j /\ k < a  BY <1>2, <1>5, <2>4, <2>7, <2>8, <2>9
  <2>10. CASE v < j
    <3>1. m + 0 = m /\ ~(v = j)  BY <2>2, <2>3, <2>4, <2>6, <2>10
    <3>2. Sched!Later(t) = Sched!Moment(f + j - 1, a)  BY <2>1, <2>7, <2>10, <3>1
    <3>3. f + j - 1 \in Nat /\ f + j - 1 < D + w + l + s  BY <1>2, <1>4, <2>2, <2>3, <2>4
    <3>4. QED  BY <1>5, <2>4, <3>2, <3>3
  <2>11. CASE ~(v < j) /\ ~(v = j /\ k < a)
    <3>1. Sched!Later(t) = Sched!Moment(g + j - 1, a)  BY <2>1, <2>7, <2>11
    <3>2. j - 1 <= d - f /\ g <= f + l + s /\ g \in Nat  BY <1>2, <1>4, <2>3, <2>4, <2>6, <2>11
    <3>3. g + j - 1 \in Nat /\ g + j - 1 < D + w + l + s  BY <1>2, <1>4, <2>3, <2>4, <3>2
    <3>4. QED  BY <1>5, <2>4, <3>1, <3>3
  <2>12. QED  BY <2>9, <2>10, <2>11
<1>9. CASE job.every = "gap"
  <2>1. a \in 1..Ticks /\ Ticks \in Nat \ {0}  BY <1>1, <1>9, JobIs, Calendar
  <2>2. PICK q, r : q = t \div a /\ r = t % a  OBVIOUS
  <2>3. a \in Nat \ {0} /\ a \in 0..Ticks  BY <2>1
  <2>4. q \in Nat /\ r \in 0..(a - 1) /\ t = q * a + r  BY <1>2, <2>2, <2>3, DivMod
  <2>5. Sched!Later(t) = (q + 1) * a  BY <1>1, <1>9, <2>2 DEF Sched!Later
  <2>6. (q + 1) * a = q * a + a /\ q * a \in Nat  BY <2>3, <2>4
  <2>7. (q + 1) * a <= t + a  BY <2>3, <2>4, <2>6
  <2>8. t + a <= FarTick /\ FarTick \in Nat  BY <2>3, NextIsFar
  <2>9. QED  BY <1>2, <2>3, <2>5, <2>6, <2>7, <2>8
<1>10. CASE job.every = "count"
  <2>1. a \in 1..Ticks /\ Ticks \in Nat \ {0}  BY <1>1, <1>10, JobIs, Calendar
  <2>2. a \in 0..Ticks  BY <2>1
  <2>3. Sched!Later(t) = t + a  BY <1>1, <1>10 DEF Sched!Later
  <2>4. QED  BY <2>2, <2>3, NextIsFar
<1>11. QED  BY <1>6, <1>7, <1>8, <1>9, <1>10, JobIs

LEMMA SchedBoundsInit == ASSUME Sched!Init PROVE SchedBounds
BY DEF Sched!Init, SchedBounds, Sched!Unscheduled

LEMMA SchedBoundsKept == ASSUME SchedInv, SchedBounds, Sched!Next \/ UNCHANGED schedule PROVE SchedBounds'
<1>1. job \in Sched!Jobs /\ now \in 0..LastTick /\ due \in Nat \union {-2, -1}
  BY DEF SchedInv, SchedTypes, Sched!Unscheduled, Sched!NoTimer
<1>2. now \in Nat /\ LastTick \in Nat  BY <1>1, ScheduleAssumption, LastTickIs
<1>3. FarTick' = FarTick  BY DEF FarTick, Sched!Moment
<1>4. Ticks \in Nat \ {0}  BY ScheduleAssumption, Calendar
<1>5. FarTick \in Nat /\ now <= FarTick /\ LastTick <= FarTick
  <2>1. 0 \in 0..Ticks /\ LastTick \in 0..LastTick  BY <1>2, <1>4
  <2>2. now + 0 <= FarTick /\ LastTick + 0 <= FarTick /\ FarTick \in Nat  BY <1>1, <2>1, ScheduleAssumption, NextIsFar
  <2>3. QED  BY <1>2, <2>2
<1>6. ASSUME Sched!Start(now) PROVE due' \in Nat => due' <= FarTick
  <2>1. Sched!Later(now) <= FarTick  BY <1>1, ScheduleAssumption, LaterIsNear
  <2>2. due' = Sched!NoTimer \/ due' = now \/ due' = Sched!Later(now)  BY <1>6 DEF Sched!Start
  <2>3. Sched!NoTimer \notin Nat  BY DEF Sched!NoTimer
  <2>4. QED  BY <1>5, <2>1, <2>2, <2>3
<1>7. CASE Sched!Schedule \/ Sched!Run  BY <1>3, <1>6, <1>7 DEF Sched!Schedule, Sched!Run, SchedBounds
<1>8. CASE Sched!Pass
  <2>1. now < LastTick /\ (due' = now + 1 \/ due' = due)  BY <1>8 DEF Sched!Pass, LastTick
  <2>2. now + 1 <= FarTick  BY <1>2, <1>5, <2>1
  <2>3. QED  BY <1>3, <2>1, <2>2 DEF SchedBounds
<1>9. CASE Sched!Remove  BY <1>9 DEF Sched!Remove, SchedBounds, Sched!Unscheduled
<1>10. CASE UNCHANGED schedule  BY <1>3, <1>10 DEF schedule, SchedBounds
<1>11. QED  BY <1>7, <1>8, <1>9, <1>10 DEF Sched!Next

LEMMA SchedTypesGood == ASSUME SchedInv, SchedBounds PROVE Sched!TypeOK
<1>1. /\ job \in Sched!Jobs /\ now \in 0..LastTick /\ runs \subseteq 0..now /\ due \in Nat \union {-2, -1}
  BY DEF SchedInv, SchedTypes, Sched!Unscheduled, Sched!NoTimer
<1>2. now \in Nat /\ LastTick \in Nat  BY <1>1, ScheduleAssumption, LastTickIs
<1>3. Ticks \in Nat \ {0} /\ 0 \in 0..Ticks /\ now + 0 <= FarTick /\ FarTick \in Nat
  <2>1. 0 \in 0..Ticks /\ Ticks \in Nat \ {0}  BY ScheduleAssumption, Calendar
  <2>2. QED  BY <1>1, <2>1, ScheduleAssumption, NextIsFar
<1>4. due \in -2..FarTick
  <2>1. CASE due \in Nat  BY <1>3, <2>1 DEF SchedBounds
  <2>2. CASE due \in {-2, -1}  BY <1>3, <2>2
  <2>3. QED  BY <1>1, <2>1, <2>2
<1>5. QED  BY <1>1, <1>4 DEF Sched!TypeOK, Sched!Unscheduled, LastTick, FarTick
=============================================================================
