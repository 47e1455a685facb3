-------------------------- MODULE DashboardProofs --------------------------
(***************************************************************************)
(* What holds of the pages and widgets of the dashboard in MCMachinery     *)
(* (DashboardKept), for every value of the constants: each has an          *)
(* invariant of its own, kept by its steps and left alone by those of the  *)
(* others.  At the end the template engines, and the types of all          *)
(* components (TypeOK).                                                    *)
(***************************************************************************)
EXTENDS MachineryProofs

-----------------------------------------------------------------------------
(* A list of the dashboard *)

\* the first items of a filter, k batches of them
Least(m, n) == IF m <= n THEN m ELSE n
Batches(g, k) == [i \in 1..Least(k * Batch, matching[g]) |-> [filter |-> g, n |-> i]]


-----------------------------------------------------------------------------
(* A field which is saved *)

Waits(i) == wire[i].status = "sent"

FieldTypes ==
    /\ field \in [value : Nat, saving : BOOLEAN, saved : BOOLEAN, error : BOOLEAN, timers : Nat, last : BOOLEAN]
    /\ kept \in Seq(Nat)
    /\ wire \in Seq([value : Nat, status : {"sent", "stored", "refused"}])
    /\ net \in [up : BOOLEAN, known : BOOLEAN] /\ (net.known => kept = << >>)
    /\ fieldPast \in [changes : Nat, cuts : Nat, overlapped : BOOLEAN, lost : BOOLEAN, refused : BOOLEAN, reordered : BOOLEAN]
    /\ db \in Nat /\ told \in Nat
    /\ field.value = fieldPast.changes /\ (field.last => field.timers > 0)

\* one change at a time: what is being saved is the value there is, and no timer is left from before it
FieldAlone == ~fieldPast.overlapped =>
    /\ ~field.saving => wire = << >> /\ kept = << >>
    /\ Len(wire) + Len(kept) <= 1
    /\ \A i \in 1..Len(kept) : kept[i] = field.value
    /\ \A i \in 1..Len(wire) : wire[i].value = field.value /\ (wire[i].status = "stored" => db = field.value)
    /\ field.saving => field.timers = 0
    /\ field.timers = IF field.last THEN 1 ELSE 0
    /\ ~field.saving /\ (~field.error \/ field.timers > 0) => db = field.value /\ told = field.value

\* the last of what waits is the last change, and if nothing waits it is stored
FieldLast == ~fieldPast.lost /\ ~fieldPast.refused /\ ~fieldPast.reordered =>
    IF kept # << >> THEN kept[Len(kept)] = field.value
    ELSE /\ \A i \in 1..Len(wire) : Waits(i) /\ (\A j \in (i + 1)..Len(wire) : ~Waits(j)) => wire[i].value = field.value
         /\ (\A i \in 1..Len(wire) : ~Waits(i)) => db = field.value

FieldInv == FieldTypes /\ FieldAlone /\ FieldLast

-----------------------------------------------------------------------------
(* The picker of a topic *)

PickTypes ==
    /\ picker \in [phase : Picker!Phases, slides : Seq(Topics \union {Category}), staged : Topics \union {None}]
    /\ asks \in Seq(Picker!Asks)
    /\ value \in Topics \union {None}
    /\ pickerPast \in [found : Topics \union {None}, clicked : Topics \union {None}, sent : Nat,
                       overlapped : BOOLEAN, reordered : BOOLEAN, lost : BOOLEAN]
    /\ \A i \in 1..Len(asks) : /\ asks[i].kind = "lock" => asks[i].topic = pickerPast.found
                               /\ asks[i].kind = "childof" => asks[i].topic \in Topics

PickOrdered == ~pickerPast.reordered =>
    /\ picker.staged # None => picker.staged = value
    /\ \A i \in 1..Len(asks) : asks[i].kind = "lock" => i = 1 /\ asks[i].topic = value
    /\ ~pickerPast.lost =>
        \/ value = pickerPast.clicked /\ \A i \in 1..Len(asks) : asks[i].kind # "childof"
        \/ \E i \in 1..Len(asks) : /\ asks[i].kind = "childof" /\ asks[i].topic = pickerPast.clicked
                                   /\ \A j \in (i + 1)..Len(asks) : asks[j].kind # "childof"

Path(s) == \A i \in 1..(Len(s) - 1) : s[i + 1] \in ChildrenOf[s[i]]

PickPath == ~pickerPast.overlapped =>
    /\ Len(asks) <= 1
    /\ Path(picker.slides)
    /\ (picker.phase = "tree") =>
          /\ picker.slides # << >> /\ picker.slides[1] = Category
          /\ (picker.staged # None) =>
                (picker.staged = picker.slides[Len(picker.slides)] \/ picker.staged \in ChildrenOf[picker.slides[Len(picker.slides)]])
    /\ picker.phase = "category" => picker.staged = None
    /\ \A i \in 1..Len(asks) :
          /\ asks[i].kind \in {"categories", "ofcategory"} => picker.staged = None
          /\ asks[i].kind = "childof" =>
                /\ picker.slides # << >> /\ picker.slides[1] = Category
                /\ asks[i].index \in 1..Len(picker.slides) /\ asks[i].topic \in ChildrenOf[picker.slides[asks[i].index]]

PickInv == PickTypes /\ PickOrdered /\ PickPath /\ Picker!LockedIsEnd

-----------------------------------------------------------------------------
(* A content chain *)

ChainContent == [title : Nat, media : BOOLEAN, articles : SUBSET Posts, status : {"draft", "live"}]
ChainAsk == [op : {"title", "media", "articles", "live", "unpublish"}, object : Nat, articles : SUBSET Posts, title : Nat,
             state : {"sent", "read", "done", "refused"}]

ChainTypes ==
    /\ content \in ChainContent
    /\ adding \subseteq Posts
    /\ page.objects \in Seq(ChainContent) /\ page.current \in 1..Len(page.objects)
    /\ page = [objects |-> page.objects, current |-> page.current]
    /\ chainAsks \in Seq(ChainAsk)
    /\ \A i \in 1..Len(chainAsks) : chainAsks[i].object \in 1..Len(page.objects)
    /\ chainPast \in [edits : Nat, others : Nat, overlapped : BOOLEAN, emptied : BOOLEAN, lost : BOOLEAN, listed : BOOLEAN,
                      added : SUBSET Posts]

\* s shows c, but for posts which others have added
Shows(s, c, others) ==
    /\ s.title = c.title /\ s.media = c.media /\ s.status = c.status
    /\ s.articles \subseteq c.articles /\ c.articles \ s.articles \subseteq others

\* what the page g shows, what it will show after the answer of a, and what of c will be stored
ShownBy(g) == g.objects[g.current]

ToShow(a, g) ==
    CASE a.op = "title" -> g.objects[a.object]
      [] a.op = "media" -> ShownBy(g)
      [] a.op = "articles" -> [ShownBy(g) EXCEPT !.articles = a.articles]
      [] OTHER -> [g.objects[a.object] EXCEPT !.status = IF ShownBy(g).status = "draft" THEN "live" ELSE "draft"]

ToStore(a, c) ==
    CASE a.op = "title" -> [c EXCEPT !.title = a.title]
      [] a.op = "media" -> [c EXCEPT !.media = TRUE]
      [] a.op = "articles" -> [c EXCEPT !.articles = a.articles]
      [] a.op = "live" -> [c EXCEPT !.status = "live"]
      [] a.op = "unpublish" -> [c EXCEPT !.status = "draft"]

\* a request which is on its way, with nothing else on its way
ShownAfter(a, g, c, others) ==
    /\ a.state \in {"sent", "read"} => Shows(ToShow(a, g), ToStore(a, c), others)
    /\ a.state = "done" => Shows(ToShow(a, g), c, others)
    /\ a.op = "live" /\ a.state # "done" => Shows(ShownBy(g), c, others)
    /\ a.state = "refused" => a.op = "live"

ChainShown == ~chainPast.overlapped /\ ~chainPast.lost =>
    /\ Len(chainAsks) <= 1
    /\ chainAsks = << >> => Shows(ShownBy(page), content, chainPast.added)
    /\ \A i \in 1..Len(chainAsks) : ShownAfter(chainAsks[i], page, content, chainPast.added)

PublishedIn(s) == \E i \in 1..Len(s) : s[i].op = "live" /\ s[i].state = "read"

ChainComplete == chainPast.emptied \/ ((content.status = "live" \/ PublishedIn(chainAsks)) => Chain!Complete(content))

ChainInv == ChainTypes /\ ChainShown /\ ChainComplete /\ Chain!AddedIsThere

-----------------------------------------------------------------------------
(* Cakepops *)

CakeTypes ==
    /\ pops \in Seq([pop : Pops, mendatory : BOOLEAN])
    /\ popAsks \in Seq([pop : Pops, action : {"read", "respond"}, status : Cake!Statuses])
    /\ popPast \in [loaded : SUBSET Pops, clicks : Nat, flips : Nat, flipped : SUBSET Pops, doubled : BOOLEAN, failed : BOOLEAN]
    /\ \A i, j \in 1..Len(pops) : pops[i].pop = pops[j].pop => i = j
    /\ \A i \in 1..Len(pops) : pops[i].mendatory = (pops[i].pop \in mendatory) \/ pops[i].pop \in popPast.flipped

CakeCalm == ~popPast.doubled =>
    /\ Len(popAsks) <= 1
    /\ \A i \in 1..Len(popAsks) :
          /\ pops # << >> /\ popAsks[i].pop = pops[1].pop /\ popAsks[i].action = IF pops[1].mendatory THEN "respond" ELSE "read"
          /\ popAsks[i].status = "ok" => popAsks[i].pop \in read \union popPast.flipped
          /\ popAsks[i].status = "error" => popPast.failed
    /\ \A i \in 2..Len(pops) : pops[i].pop \notin read
    /\ ~popPast.failed => \A p \in popPast.loaded : p \in read \union popPast.flipped \/ \E i \in 1..Len(pops) : pops[i].pop = p

CakeInv == CakeTypes /\ CakeCalm

-----------------------------------------------------------------------------
(* The list of the dashboard *)

ListLoad == [overwrite : BOOLEAN, filter : Filters, skip : Nat]

ListTypes ==
    /\ matching \in [Filters -> Nat]
    /\ list.filter \in Filters /\ list.index \in Nat
    /\ list = [items |-> list.items, index |-> list.index, filter |-> list.filter, loading |-> list.loading]
    /\ loads \in Seq(ListLoad)
    /\ \A i \in 1..Len(loads) : loads[i].overwrite => loads[i].skip = 0
    /\ listPast = [sent |-> listPast.sent, overtaken |-> listPast.overtaken, doubled |-> listPast.doubled, failed |-> listPast.failed]

ListAnswered ==
    /\ loads = << >> => list.items = Batches(list.filter, list.index)
    /\ \A i \in 2..Len(loads) : loads[i].overwrite
    /\ loads # << >> =>
          /\ loads[Len(loads)].filter = list.filter
          /\ ~loads[1].overwrite => \E k \in Nat :
                /\ loads[1].skip = k * Batch /\ list.items = Batches(loads[1].filter, k)
                /\ Len(loads) = 1 => list.index = k
    /\ \E g \in Filters, k \in Nat : list.items = Batches(g, k)

ListInv == ListTypes /\ (List!Smooth => ListAnswered)

LEMMA LeastIs == ASSUME NEW m \in Nat, NEW n \in Nat PROVE List!Min({m, n}) = Least(m, n)
<1>1. Least(m, n) \in {m, n} /\ \A y \in {m, n} : Least(m, n) <= y  BY DEF Least
<1>2. \A x \in {m, n} : (\A y \in {m, n} : x <= y) => x = Least(m, n)  BY DEF Least
<1>3. PICK x : x = List!Min({m, n})  OBVIOUS
<1>4. x \in {m, n} /\ \A y \in {m, n} : x <= y  BY <1>1, <1>3 DEF List!Min
<1>5. QED  BY <1>2, <1>3, <1>4

LEMMA BatchesAre == BatchAssumption =>
  /\ Batch \in Nat /\ 0 * Batch = 0 /\ 1 * Batch = Batch
  /\ \A k \in Nat : k * Batch \in Nat /\ (k + 1) * Batch = k * Batch + Batch
BY DEF BatchAssumption

LEMMA NoBatch == ASSUME ListTypes, BatchAssumption, NEW g \in Filters PROVE Batches(g, 0) = << >>
<1>1. matching[g] \in Nat  BY DEF ListTypes
<1>2. Least(0 * Batch, matching[g]) = 0  BY <1>1, BatchesAre DEF Least
<1>3. QED  BY <1>2 DEF Batches

\* the items of an answer, and those of a first one, which replace what was there
LEMMA BatchOfIs == ASSUME ListTypes, BatchAssumption, NEW l \in ListLoad
  PROVE  /\ Least(l.skip, matching[l.filter]) \in Nat
         /\ List!BatchOf(l) = [i \in 1..Least(Batch, matching[l.filter] - Least(l.skip, matching[l.filter])) |->
                                  [filter |-> l.filter, n |-> l.skip + i]]
<1>1. l.skip \in Nat /\ matching[l.filter] \in Nat /\ Batch \in Nat  BY BatchesAre DEF ListLoad, ListTypes
<1>2. /\ Least(l.skip, matching[l.filter]) \in Nat
      /\ matching[l.filter] - Least(l.skip, matching[l.filter]) \in Nat
  BY <1>1 DEF Least
<1>3. List!Min({l.skip, matching[l.filter]}) = Least(l.skip, matching[l.filter])  BY <1>1, LeastIs
<1>4. List!Min({Batch, matching[l.filter] - Least(l.skip, matching[l.filter])})
        = Least(Batch, matching[l.filter] - Least(l.skip, matching[l.filter]))
  BY <1>1, <1>2, LeastIs
<1>5. QED  BY <1>2, <1>3, <1>4 DEF List!BatchOf

LEMMA FirstBatch == ASSUME ListTypes, BatchAssumption, NEW l \in ListLoad, l.skip = 0
  PROVE  List!BatchOf(l) = Batches(l.filter, 1)
<1>1. l.filter \in Filters  BY DEF ListLoad
<1>2. matching[l.filter] \in Nat /\ Batch \in Nat /\ 1 * Batch = Batch  BY <1>1, BatchesAre DEF ListTypes
<1>3. matching[l.filter] - Least(0, matching[l.filter]) = matching[l.filter]  BY <1>2 DEF Least
<1>4. List!BatchOf(l) = [i \in 1..Least(Batch, matching[l.filter]) |-> [filter |-> l.filter, n |-> 0 + i]]
  BY <1>3, BatchOfIs
<1>5. \A i \in 1..Least(Batch, matching[l.filter]) : 0 + i = i  OBVIOUS
<1>6. QED  BY <1>2, <1>4, <1>5 DEF Batches

LEMMA NextBatch == ASSUME ListTypes, BatchAssumption, NEW l \in ListLoad, NEW k \in Nat, l.skip = k * Batch
  PROVE  Batches(l.filter, k) \o List!BatchOf(l) = Batches(l.filter, k + 1)
<1> DEFINE g == l.filter
           m == matching[g]
           a == Least(k * Batch, m)
           b == Least(Batch, m - a)
           c == Least((k + 1) * Batch, m)
           S == [filter : Filters, n : Nat]
<1>1. g \in Filters  BY DEF ListLoad
<1>2. m \in Nat /\ Batch \in Nat /\ k * Batch \in Nat /\ (k + 1) * Batch = k * Batch + Batch
  BY <1>1, BatchesAre DEF ListTypes
<1>3. a \in Nat /\ b \in Nat /\ c = a + b /\ (b # 0 => a = k * Batch)
  <2>1. PICK kb, kc : kb = k * Batch /\ kc = (k + 1) * Batch  OBVIOUS
  <2>2. kb \in Nat /\ kc = kb + Batch  BY <1>2, <2>1
  <2>3. a = (IF kb <= m THEN kb ELSE m) /\ c = (IF kc <= m THEN kc ELSE m) /\ b = (IF Batch <= m - a THEN Batch ELSE m - a)
    BY <2>1 DEF Least
  <2> HIDE DEF a, b, c, m
  <2>4. QED  BY <1>2, <2>1, <2>2, <2>3
<1>4. Batches(g, k) = [i \in 1..a |-> [filter |-> g, n |-> i]]  BY DEF Batches
<1>5. List!BatchOf(l) = [i \in 1..b |-> [filter |-> g, n |-> k * Batch + i]]  BY BatchOfIs
<1>6. Batches(g, k + 1) = [i \in 1..c |-> [filter |-> g, n |-> i]]  BY DEF Batches
<1> HIDE DEF a, b, c, m, g
<1>7. PICK f, h : f = Batches(g, k) /\ h = List!BatchOf(l)  OBVIOUS
<1>8. f \in Seq(S) /\ Len(f) = a /\ \A i \in 1..a : f[i] = [filter |-> g, n |-> i]
  <2>1. \A i \in 1..a : [filter |-> g, n |-> i] \in S  BY <1>1
  <2>2. f \in [1..a -> S]  BY <1>4, <1>7, <2>1
  <2>3. f \in Seq(S) /\ Len(f) = a  BY <1>3, <2>2, FunctionSeq
  <2>4. QED  BY <1>4, <1>7, <2>3
<1>9. h \in Seq(S) /\ Len(h) = b /\ \A i \in 1..b : h[i] = [filter |-> g, n |-> k * Batch + i]
  <2>1. \A i \in 1..b : [filter |-> g, n |-> k * Batch + i] \in S  BY <1>1, <1>2
  <2>2. h \in [1..b -> S]  BY <1>5, <1>7, <2>1
  <2>3. h \in Seq(S) /\ Len(h) = b  BY <1>3, <2>2, FunctionSeq
  <2>4. QED  BY <1>5, <1>7, <2>3
<1>10. /\ f \o h \in Seq(S) /\ Len(f \o h) = c
       /\ \A i \in 1..c : (f \o h)[i] = IF i <= a THEN f[i] ELSE h[i - a]
  <2>1. /\ f \o h \in Seq(S) /\ Len(f \o h) = Len(f) + Len(h)
        /\ \A i \in 1..(Len(f) + Len(h)) : (f \o h)[i] = IF i <= Len(f) THEN f[i] ELSE h[i - Len(f)]
    BY <1>8, <1>9, ConcatProperties
  <2>2. Len(f) = a /\ Len(h) = b /\ c = a + b  BY <1>3, <1>8, <1>9
  <2>3. QED  BY <2>1, <2>2
<1>11. \A i \in 1..c : (f \o h)[i] = [filter |-> g, n |-> i]
  <2> TAKE i \in 1..c
  <2>1. CASE i <= a
    <3>1. i \in 1..a  BY <1>3, <2>1
    <3>2. QED  BY <1>8, <1>10, <2>1, <3>1
  <2>2. CASE ~(i <= a)
    <3>1. i - a \in 1..b  BY <1>3, <2>2
    <3>2. k * Batch + (i - a) = i
      <4>1. a = k * Batch  BY <1>3, <3>1
      <4>2. QED  BY <1>2, <1>3, <4>1
    <3>3. h[i - a] = [filter |-> g, n |-> k * Batch + (i - a)]  BY <1>9, <3>1
    <3>4. QED  BY <1>10, <2>2, <3>2, <3>3
  <2>3. QED  BY <2>1, <2>2
<1>12. DOMAIN (f \o h) = 1..c /\ f \o h = [i \in 1..c |-> (f \o h)[i]]  BY <1>10, LenProperties
<1>13. f \o h = [i \in 1..c |-> [filter |-> g, n |-> i]]  BY <1>11, <1>12
<1>14. QED  BY <1>6, <1>7, <1>13 DEF g

LEMMA ListInit == ASSUME List!Init, BatchAssumption PROVE ListInv
<1>1. PICK f \in Filters :
        /\ list = [items |-> << >>, index |-> 0, filter |-> f, loading |-> TRUE]
        /\ loads = <<[overwrite |-> TRUE, filter |-> f, skip |-> 0]>>
  BY DEF List!Init
<1>2. matching \in [Filters -> Nat]
  <2>1. Batch - 1 \in Nat /\ MaxItems \in Nat  BY DEF BatchAssumption
  <2>2. QED  BY <2>1 DEF List!Init
<1>3. list.filter = f /\ list.index = 0 /\ list.items = << >>
      /\ list = [items |-> list.items, index |-> list.index, filter |-> list.filter, loading |-> list.loading]
  BY <1>1
<1>4. /\ loads \in Seq(ListLoad) /\ Len(loads) = 1 /\ loads[1].overwrite /\ loads[1].filter = f /\ loads[1].skip = 0
  BY <1>1 DEF ListLoad
<1>5. listPast = [sent |-> listPast.sent, overtaken |-> listPast.overtaken, doubled |-> listPast.doubled, failed |-> listPast.failed]
  BY DEF List!Init
<1>6. ListTypes  BY <1>2, <1>3, <1>4, <1>5 DEF ListTypes
<1>7. list.items = Batches(f, 0) /\ 0 \in Nat  BY <1>3, <1>6, NoBatch
<1>8. loads # << >>
  <2>1. Len(loads) = 1 /\ Len(<< >>) = 0  BY <1>4
  <2>2. QED  BY <2>1
<1>9. ListAnswered  BY <1>3, <1>4, <1>7, <1>8 DEF ListAnswered
<1>10. QED  BY <1>6, <1>9 DEF ListInv

LEMMA ListStays == ASSUME ListInv, UNCHANGED biglist PROVE ListInv'
BY DEF biglist, ListInv, ListTypes, ListAnswered, Batches, List!Smooth

LEMMA ListGood == ASSUME ListInv, BatchAssumption PROVE List!ListOfFilter /\ List!OneFilter
<1>1. ListTypes /\ (List!Smooth => ListAnswered)  BY DEF ListInv
<1>2. ASSUME List!Smooth, loads = << >>
      PROVE  list.items = [i \in 1..List!Min({list.index * Batch, matching[list.filter]}) |-> [filter |-> list.filter, n |-> i]]
  <2>1. list.items = Batches(list.filter, list.index)  BY <1>1, <1>2 DEF ListAnswered
  <2>2. list.index * Batch \in Nat /\ matching[list.filter] \in Nat  BY <1>1, BatchesAre DEF ListTypes
  <2>3. List!Min({list.index * Batch, matching[list.filter]}) = Least(list.index * Batch, matching[list.filter])
    BY <2>2, LeastIs
  <2>4. QED  BY <2>1, <2>3 DEF Batches
<1>3. List!ListOfFilter  BY <1>2 DEF List!ListOfFilter
<1>4. ASSUME List!Smooth PROVE \A i, j \in DOMAIN list.items : list.items[i].filter = list.items[j].filter
  <2>1. PICK g \in Filters, k \in Nat : list.items = Batches(g, k)  BY <1>1, <1>4 DEF ListAnswered
  <2>2. \A i \in DOMAIN list.items : list.items[i].filter = g  BY <2>1 DEF Batches
  <2>3. QED  BY <2>2
<1>5. List!OneFilter  BY <1>4 DEF List!OneFilter
<1>6. QED  BY <1>3, <1>5

LEMMA ListLoads == ASSUME ListTypes
  PROVE  /\ Len(loads) \in Nat /\ (loads = << >> <=> Len(loads) = 0) /\ DOMAIN loads = 1..Len(loads)
         /\ \A i \in 1..Len(loads) : loads[i] \in ListLoad /\ loads[i].filter \in Filters
                                     /\ loads[i].skip \in Nat /\ loads[i].overwrite \in BOOLEAN
<1>1. loads \in Seq(ListLoad)  BY DEF ListTypes
<1>2. \A i \in 1..Len(loads) : loads[i] \in ListLoad  BY <1>1, LenProperties
<1>3. QED  BY <1>1, <1>2, EmptyIff DEF ListLoad

LEMMA ListChanged == ASSUME ListInv, BatchAssumption, List!ChangeFilter PROVE ListInv'
<1>1. ListTypes /\ (List!Smooth => ListAnswered)  BY DEF ListInv
<1>2. PICK f \in Filters :
        /\ list' = [list EXCEPT !.filter = f, !.index = 0, !.loading = TRUE]
        /\ loads' = Append(loads, [overwrite |-> TRUE, filter |-> f, skip |-> 0])
  BY DEF List!ChangeFilter
<1>3. listPast' = [listPast EXCEPT !.sent = @ + 1] /\ matching' = matching  BY DEF List!ChangeFilter
<1>4. PICK l : l = [overwrite |-> TRUE, filter |-> f, skip |-> 0]  OBVIOUS
<1>5. l \in ListLoad /\ l.overwrite /\ l.filter = f /\ l.skip = 0  BY <1>4 DEF ListLoad
<1>6. list'.filter = f /\ list'.index = 0 /\ list'.items = list.items
      /\ list' = [items |-> list'.items, index |-> list'.index, filter |-> list'.filter, loading |-> list'.loading]
  BY <1>1, <1>2 DEF ListTypes
<1>7. /\ listPast'.overtaken = listPast.overtaken /\ listPast'.doubled = listPast.doubled /\ listPast'.failed = listPast.failed
      /\ listPast' = [sent |-> listPast'.sent, overtaken |-> listPast'.overtaken, doubled |-> listPast'.doubled,
                      failed |-> listPast'.failed]
  BY <1>1, <1>3 DEF ListTypes
<1>8. /\ loads' \in Seq(ListLoad) /\ Len(loads') = Len(loads) + 1 /\ loads'[Len(loads) + 1] = l /\ loads' # << >>
      /\ \A i \in 1..Len(loads) : loads'[i] = loads[i]
  BY <1>1, <1>2, <1>4, <1>5, Lengthened DEF ListTypes
<1>9. Len(loads) \in Nat /\ (loads = << >> <=> Len(loads) = 0)  BY <1>1, ListLoads
<1>10. ListTypes'
  <2>1. \A i \in 1..Len(loads') : loads'[i].overwrite => loads'[i].skip = 0
    <3> TAKE i \in 1..Len(loads')
    <3>1. CASE i = Len(loads) + 1  BY <1>5, <1>8, <3>1
    <3>2. CASE i \in 1..Len(loads)  BY <1>1, <1>8, <3>2 DEF ListTypes
    <3>3. QED  BY <1>8, <1>9, <3>1, <3>2
  <2>2. QED  BY <1>1, <1>3, <1>6, <1>7, <1>8, <2>1 DEF ListTypes
<1>11. ASSUME List!Smooth' PROVE ListAnswered'
  <2>1. ListAnswered  BY <1>1, <1>7, <1>11 DEF List!Smooth
  <2>2. \A g \in Filters, k \in Nat : Batches(g, k)' = Batches(g, k)  BY <1>3 DEF Batches
  <2>3. \A i \in 2..Len(loads') : loads'[i].overwrite
    <3> TAKE i \in 2..Len(loads')
    <3>1. CASE i = Len(loads) + 1  BY <1>5, <1>8, <3>1
    <3>2. CASE i \in 2..Len(loads)
      <4>1. i \in 1..Len(loads)  BY <1>9, <3>2
      <4>2. QED  BY <1>8, <2>1, <3>2, <4>1 DEF ListAnswered
    <3>3. QED  BY <1>8, <1>9, <3>1, <3>2
  <2>4. loads'[Len(loads')].filter = list'.filter  BY <1>5, <1>6, <1>8
  <2>5. ASSUME ~loads'[1].overwrite PROVE \E k \in Nat :
                /\ loads'[1].skip = k * Batch /\ list'.items = [i \in 1..Least(k * Batch, matching'[loads'[1].filter]) |-> [filter |-> loads'[1].filter, n |-> i]]
                /\ Len(loads') = 1 => list'.index = k
    <3>1. Len(loads) # 0  BY <1>5, <1>8, <2>5
    <3>2. 1 \in 1..Len(loads) /\ loads'[1] = loads[1] /\ loads # << >> /\ Len(loads') # 1  BY <1>8, <1>9, <3>1
    <3>3. PICK k \in Nat : loads[1].skip = k * Batch /\ list.items = Batches(loads[1].filter, k)
      BY <2>1, <2>5, <3>2 DEF ListAnswered
    <3>4. loads[1].filter \in Filters  BY <1>1, <3>2, ListLoads
    <3>5. Batches(loads[1].filter, k) = [i \in 1..Least(k * Batch, matching'[loads'[1].filter]) |-> [filter |-> loads'[1].filter, n |-> i]]  BY <1>3, <3>2 DEF Batches
    <3>6. QED  BY <1>6, <3>2, <3>3, <3>5
  <2>6. \E g \in Filters, k \in Nat : list'.items = Batches(g, k)'  BY <1>6, <2>1, <2>2 DEF ListAnswered
  <2>7. loads' # << >>  BY <1>8
  <2>8. ~loads'[1].overwrite => \E k \in Nat :
                /\ loads'[1].skip = k * Batch
                /\ list'.items = [i \in 1..Least(k * Batch, matching'[loads'[1].filter]) |-> [filter |-> loads'[1].filter, n |-> i]]
                /\ Len(loads') = 1 => list'.index = k
    BY <2>5 DEF Batches
  <2>9. QED  BY <2>3, <2>4, <2>6, <2>7, <2>8 DEF ListAnswered, Batches
<1>12. QED  BY <1>10, <1>11 DEF ListInv

LEMMA ListMore == ASSUME ListInv, BatchAssumption, List!LoadMore PROVE ListInv'
<1>1. ListTypes /\ (List!Smooth => ListAnswered)  BY DEF ListInv
<1>2. PICK l : l = [overwrite |-> FALSE, filter |-> list.filter, skip |-> list.index * Batch]  OBVIOUS
<1>3. PICK d \in BOOLEAN : d = (listPast.doubled \/ loads # << >>)  OBVIOUS
<1>4. /\ list' = [list EXCEPT !.loading = FALSE] /\ loads' = Append(loads, l)
      /\ listPast' = [listPast EXCEPT !.sent = @ + 1, !.doubled = d] /\ matching' = matching
  BY <1>2, <1>3 DEF List!LoadMore
<1>5. l \in ListLoad /\ ~l.overwrite /\ l.filter = list.filter /\ l.skip = list.index * Batch
  <2>1. list.filter \in Filters /\ list.index * Batch \in Nat  BY <1>1, BatchesAre DEF ListTypes
  <2>2. QED  BY <1>2, <2>1 DEF ListLoad
<1>6. list'.filter = list.filter /\ list'.index = list.index /\ list'.items = list.items
      /\ list' = [items |-> list'.items, index |-> list'.index, filter |-> list'.filter, loading |-> list'.loading]
  BY <1>1, <1>4 DEF ListTypes
<1>7. /\ listPast'.overtaken = listPast.overtaken /\ listPast'.doubled = d /\ listPast'.failed = listPast.failed
      /\ listPast' = [sent |-> listPast'.sent, overtaken |-> listPast'.overtaken, doubled |-> listPast'.doubled,
                      failed |-> listPast'.failed]
  BY <1>1, <1>4 DEF ListTypes
<1>8. /\ loads' \in Seq(ListLoad) /\ Len(loads') = Len(loads) + 1 /\ loads'[Len(loads) + 1] = l /\ loads' # << >>
      /\ \A i \in 1..Len(loads) : loads'[i] = loads[i]
  BY <1>1, <1>4, <1>5, Lengthened DEF ListTypes
<1>9. Len(loads) \in Nat /\ (loads = << >> <=> Len(loads) = 0)  BY <1>1, ListLoads
<1>10. ListTypes'
  <2>1. \A i \in 1..Len(loads') : loads'[i].overwrite => loads'[i].skip = 0
    <3> TAKE i \in 1..Len(loads')
    <3>1. CASE i = Len(loads) + 1  BY <1>5, <1>8, <3>1
    <3>2. CASE i \in 1..Len(loads)  BY <1>1, <1>8, <3>2 DEF ListTypes
    <3>3. QED  BY <1>8, <1>9, <3>1, <3>2
  <2>2. QED  BY <1>1, <1>4, <1>6, <1>7, <1>8, <2>1 DEF ListTypes
<1>11. ASSUME List!Smooth' PROVE ListAnswered'
  <2>1. loads = << >> /\ List!Smooth  BY <1>3, <1>7, <1>11 DEF List!Smooth
  <2>2. list.items = Batches(list.filter, list.index)  BY <1>1, <2>1 DEF ListAnswered
  <2>3. Len(loads') = 1 /\ loads'[1] = l  BY <1>8, <1>9, <2>1
  <2>4. Batches(list.filter, list.index) = [i \in 1..Least(list.index * Batch, matching[list.filter]) |-> [filter |-> list.filter, n |-> i]]
    BY DEF Batches
  <2>5. list.filter \in Filters /\ list.index \in Nat  BY <1>1 DEF ListTypes
  <2>6. list'.items = [i \in 1..Least(list.index * Batch, matching'[l.filter]) |-> [filter |-> l.filter, n |-> i]]
    BY <1>4, <1>5, <1>6, <2>2, <2>4
  <2>7. \E k \in Nat :
                /\ loads'[1].skip = k * Batch
                /\ list'.items = [i \in 1..Least(k * Batch, matching'[loads'[1].filter]) |-> [filter |-> loads'[1].filter, n |-> i]]
                /\ Len(loads') = 1 => list'.index = k
    BY <1>5, <1>6, <2>3, <2>5, <2>6
  <2>8. \E g \in Filters, k \in Nat : list'.items = [i \in 1..Least(k * Batch, matching'[g]) |-> [filter |-> g, n |-> i]]
    BY <1>5, <2>5, <2>6
  <2>9. loads'[Len(loads')].filter = list'.filter  BY <1>5, <1>6, <2>3
  <2>10. \A i \in 2..Len(loads') : loads'[i].overwrite  BY <2>3
  <2>11. loads' # << >>  BY <1>8
  <2>12. QED  BY <2>7, <2>8, <2>9, <2>10, <2>11 DEF ListAnswered, Batches
<1>12. QED  BY <1>10, <1>11 DEF ListInv

LEMMA ListFail == ASSUME ListInv, List!Fail PROVE ListInv'
<1>1. ListTypes  BY DEF ListInv
<1>2. PICK i \in 1..Len(loads) :
        /\ loads' = Without(loads, i) /\ listPast' = [listPast EXCEPT !.failed = TRUE] /\ matching' = matching /\ list' = list
  BY <1>1, ListLoads DEF List!Fail, List!Without, Without
<1>3. /\ loads' \in Seq(ListLoad) /\ Len(loads') = Len(loads) - 1
      /\ \A j \in 1..(Len(loads) - 1) : loads'[j] = IF j < i THEN loads[j] ELSE loads[j + 1]
  BY <1>1, <1>2, WithoutOne DEF ListTypes
<1>4. listPast'.failed
      /\ listPast' = [sent |-> listPast'.sent, overtaken |-> listPast'.overtaken, doubled |-> listPast'.doubled,
                      failed |-> listPast'.failed]
  BY <1>1, <1>2 DEF ListTypes
<1>5. \A j \in 1..Len(loads') : loads'[j].overwrite => loads'[j].skip = 0
  <2> TAKE j \in 1..Len(loads')
  <2>1. Len(loads) \in Nat  BY <1>1, ListLoads
  <2>2. j \in 1..(Len(loads) - 1) /\ j \in 1..Len(loads) /\ j + 1 \in 1..Len(loads)  BY <1>3, <2>1
  <2>3. loads'[j] = loads[j] \/ loads'[j] = loads[j + 1]  BY <1>3, <2>2
  <2>4. QED  BY <1>1, <2>2, <2>3 DEF ListTypes
<1>6. ListTypes'  BY <1>1, <1>2, <1>3, <1>4, <1>5 DEF ListTypes
<1>7. QED  BY <1>4, <1>6 DEF ListInv, List!Smooth

LEMMA ListAnswers == ASSUME ListInv, BatchAssumption, List!Answer PROVE ListInv'
<1>1. ListTypes /\ (List!Smooth => ListAnswered)  BY DEF ListInv
<1>2. PICK p \in 1..Len(loads) :
        /\ list' = IF loads[p].overwrite THEN List!Overwritten(loads[p]) ELSE List!Added(loads[p])
        /\ loads' = Without(loads, p) /\ listPast' = [listPast EXCEPT !.overtaken = @ \/ p # 1] /\ matching' = matching
  BY <1>1, ListLoads DEF List!Answer, List!Without, Without
<1>3. /\ loads' \in Seq(ListLoad) /\ Len(loads') = Len(loads) - 1
      /\ \A j \in 1..(Len(loads) - 1) : loads'[j] = IF j < p THEN loads[j] ELSE loads[j + 1]
  BY <1>1, <1>2, WithoutOne DEF ListTypes
<1>4. PICK d \in BOOLEAN : d = (listPast.overtaken \/ p # 1)  OBVIOUS
<1>5. /\ listPast'.overtaken = d /\ listPast'.doubled = listPast.doubled /\ listPast'.failed = listPast.failed
      /\ listPast' = [sent |-> listPast'.sent, overtaken |-> listPast'.overtaken, doubled |-> listPast'.doubled,
                      failed |-> listPast'.failed]
  <2>1. listPast' = [listPast EXCEPT !.overtaken = d]  BY <1>2, <1>4
  <2>2. QED  BY <1>1, <2>1 DEF ListTypes
<1>6. PICK l : l = loads[p]  OBVIOUS
<1>7. Len(loads) \in Nat /\ l \in ListLoad /\ l.filter \in Filters /\ l.skip \in Nat /\ l.overwrite \in BOOLEAN
      /\ (loads = << >> <=> Len(loads) = 0) /\ (l.overwrite => l.skip = 0)
  BY <1>1, <1>6, ListLoads DEF ListTypes
<1>8. list'.filter = list.filter /\ list'.index \in Nat
      /\ list' = [items |-> list'.items, index |-> list'.index, filter |-> list'.filter, loading |-> list'.loading]
      /\ (l.overwrite => list'.items = List!BatchOf(l) /\ list'.index = 1)
      /\ (~l.overwrite => list'.items = list.items \o List!BatchOf(l) /\ list'.index = list.index + 1)
  <2>1. CASE l.overwrite
    <3>1. list' = [list EXCEPT !.items = List!BatchOf(l), !.index = 1, !.loading = FALSE]  BY <1>2, <1>6, <2>1 DEF List!Overwritten
    <3>2. QED  BY <1>1, <2>1, <3>1 DEF ListTypes
  <2>2. CASE ~l.overwrite
    <3>1. PICK s, n : s = list.items \o List!BatchOf(l) /\ n = list.index + 1  OBVIOUS
    <3>2. list' = [list EXCEPT !.items = s, !.index = n, !.loading = FALSE]  BY <1>2, <1>6, <2>2, <3>1 DEF List!Added
    <3>3. n \in Nat  BY <1>1, <3>1 DEF ListTypes
    <3>4. /\ list'.filter = list.filter /\ list'.index = n /\ list'.items = s
          /\ list' = [items |-> list'.items, index |-> list'.index, filter |-> list'.filter, loading |-> list'.loading]
      BY <1>1, <3>2 DEF ListTypes
    <3>5. QED  BY <2>2, <3>1, <3>3, <3>4
  <2>3. QED  BY <2>1, <2>2
<1>9. \A j \in 1..Len(loads') : loads'[j].overwrite => loads'[j].skip = 0
  <2> TAKE j \in 1..Len(loads')
  <2>1. j \in 1..(Len(loads) - 1) /\ j \in 1..Len(loads) /\ j + 1 \in 1..Len(loads)  BY <1>3, <1>7
  <2>2. loads'[j] = loads[j] \/ loads'[j] = loads[j + 1]  BY <1>3, <2>1
  <2>3. QED  BY <1>1, <2>1, <2>2 DEF ListTypes
<1>10. ListTypes'  BY <1>1, <1>2, <1>3, <1>5, <1>8, <1>9 DEF ListTypes
<1>11. ASSUME List!Smooth' PROVE ListAnswered'
  <2>1. p = 1 /\ List!Smooth  BY <1>4, <1>5, <1>11 DEF List!Smooth
  <2>2. ListAnswered /\ loads # << >>  BY <1>1, <1>7, <2>1
  <2>3. \A j \in 1..(Len(loads) - 1) : loads'[j] = loads[j + 1]  BY <1>3, <2>1
  <2>4. \A j \in 1..Len(loads') : loads'[j].overwrite
    <3> TAKE j \in 1..Len(loads')
    <3>1. j \in 1..(Len(loads) - 1) /\ j + 1 \in 2..Len(loads)  BY <1>3, <1>7
    <3>2. QED  BY <2>2, <2>3, <3>1 DEF ListAnswered
  <2>5. Len(loads') \in Nat /\ (loads' = << >> <=> Len(loads') = 0)  BY <1>3, EmptyIff
  <2>6. loads' # << >> => loads'[Len(loads')].filter = list'.filter /\ loads'[1].overwrite
    <3> HAVE loads' # << >>
    <3>1. Len(loads') \in 1..(Len(loads) - 1) /\ Len(loads') + 1 = Len(loads) /\ 1 \in 1..Len(loads')  BY <1>3, <1>7, <2>5
    <3>2. loads'[Len(loads')] = loads[Len(loads)]  BY <2>3, <3>1
    <3>3. QED  BY <1>8, <2>2, <2>4, <3>1, <3>2 DEF ListAnswered
  <2>7. loads' = << >> => list.filter = l.filter /\ Len(loads) = 1
    <3> HAVE loads' = << >>
    <3>1. Len(loads) = 1  BY <1>3, <1>7, <2>5
    <3>2. QED  BY <1>6, <2>1, <2>2, <3>1 DEF ListAnswered
  <2>8. PICK k \in Nat : /\ list'.items = Batches(l.filter, k)
                         /\ Len(loads) = 1 => list'.index = k
    <3>1. CASE l.overwrite
      <4>1. list'.items = Batches(l.filter, 1)  BY <1>1, <1>7, <1>8, <3>1, FirstBatch
      <4>2. QED  BY <1>8, <3>1, <4>1
    <3>2. CASE ~l.overwrite
      <4>1. PICK k \in Nat : /\ l.skip = k * Batch /\ list.items = Batches(l.filter, k)
                             /\ Len(loads) = 1 => list.index = k
        BY <1>6, <2>1, <2>2, <3>2 DEF ListAnswered
      <4>2. list'.items = Batches(l.filter, k + 1)  BY <1>1, <1>7, <1>8, <3>2, <4>1, NextBatch
      <4>3. k + 1 \in Nat /\ (Len(loads) = 1 => list'.index = k + 1)  BY <1>8, <3>2, <4>1
      <4>4. QED  BY <4>2, <4>3
    <3>3. QED  BY <3>1, <3>2
  <2>9. list'.items = [i \in 1..Least(k * Batch, matching'[l.filter]) |-> [filter |-> l.filter, n |-> i]]
    BY <1>2, <2>8 DEF Batches
  <2>10. \E g \in Filters, m \in Nat : list'.items = [i \in 1..Least(m * Batch, matching'[g]) |-> [filter |-> g, n |-> i]]
    BY <1>7, <2>9
  <2>11. loads' = << >> => list'.items = [i \in 1..Least(list'.index * Batch, matching'[list'.filter]) |-> [filter |-> list'.filter, n |-> i]]
    BY <1>8, <2>7, <2>8, <2>9
  <2>12. \A j \in 2..Len(loads') : loads'[j].overwrite  BY <2>4, <2>5
  <2>13. QED  BY <2>6, <2>10, <2>11, <2>12 DEF ListAnswered, Batches
<1>12. QED  BY <1>10, <1>11 DEF ListInv

LEMMA ListStep == ASSUME ListInv, BatchAssumption, List!Next \/ UNCHANGED biglist PROVE ListInv'
BY ListStays, ListChanged, ListMore, ListAnswers, ListFail DEF List!Next

-----------------------------------------------------------------------------
(* The field *)

LEMMA FieldInit == ASSUME Field!Init PROVE FieldInv
<1>1. /\ field = [value |-> 0, saving |-> FALSE, saved |-> FALSE, error |-> FALSE, timers |-> 0, last |-> FALSE]
      /\ told = 0 /\ db = 0 /\ kept = << >> /\ wire = << >> /\ net = [up |-> TRUE, known |-> TRUE]
      /\ fieldPast = [changes |-> 0, cuts |-> 0, overlapped |-> FALSE, lost |-> FALSE, refused |-> FALSE, reordered |-> FALSE]
  BY DEF Field!Init
<1>2. Len(wire) = 0 /\ Len(kept) = 0 /\ kept \in Seq(Nat) /\ wire \in Seq([value : Nat, status : {"sent", "stored", "refused"}])
  BY <1>1
<1>3. FieldTypes  BY <1>1, <1>2 DEF FieldTypes
<1>4. FieldAlone  BY <1>1, <1>2 DEF FieldAlone
<1>5. FieldLast  BY <1>1, <1>2 DEF FieldLast
<1>6. QED  BY <1>3, <1>4, <1>5 DEF FieldInv

LEMMA FieldStays == ASSUME FieldInv, UNCHANGED autosave PROVE FieldInv'
BY DEF autosave, FieldInv, FieldTypes, FieldAlone, FieldLast, Waits

FieldRecord == field = [value |-> field.value, saving |-> field.saving, saved |-> field.saved, error |-> field.error,
                        timers |-> field.timers, last |-> field.last]

FieldPastRecord == fieldPast = [changes |-> fieldPast.changes, cuts |-> fieldPast.cuts, overlapped |-> fieldPast.overlapped,
                                lost |-> fieldPast.lost, refused |-> fieldPast.refused, reordered |-> fieldPast.reordered]

LEMMA FieldRecords == ASSUME FieldTypes
  PROVE  /\ FieldRecord /\ FieldPastRecord
         /\ field.value \in Nat /\ field.saving \in BOOLEAN /\ field.saved \in BOOLEAN /\ field.error \in BOOLEAN
         /\ field.timers \in Nat /\ field.last \in BOOLEAN
         /\ fieldPast.changes \in Nat /\ fieldPast.cuts \in Nat /\ fieldPast.overlapped \in BOOLEAN
         /\ fieldPast.lost \in BOOLEAN /\ fieldPast.refused \in BOOLEAN /\ fieldPast.reordered \in BOOLEAN
<1>1. field \in [value : Nat, saving : BOOLEAN, saved : BOOLEAN, error : BOOLEAN, timers : Nat, last : BOOLEAN]
  BY DEF FieldTypes
<1>2. fieldPast \in [changes : Nat, cuts : Nat, overlapped : BOOLEAN, lost : BOOLEAN, refused : BOOLEAN, reordered : BOOLEAN]
  BY DEF FieldTypes
<1>3. FieldRecord  BY <1>1 DEF FieldRecord
<1>4. FieldPastRecord  BY <1>2 DEF FieldPastRecord
<1>5. QED  BY <1>1, <1>2, <1>3, <1>4

LEMMA WireIs == ASSUME FieldTypes
  PROVE  /\ Len(wire) \in Nat /\ (wire = << >> <=> Len(wire) = 0) /\ DOMAIN wire = 1..Len(wire)
         /\ Len(kept) \in Nat /\ (kept = << >> <=> Len(kept) = 0) /\ DOMAIN kept = 1..Len(kept)
         /\ \A i \in 1..Len(kept) : kept[i] \in Nat
         /\ \A i \in 1..Len(wire) : wire[i] \in [value : Nat, status : {"sent", "stored", "refused"}]
         /\ \A i \in 1..Len(wire) : wire[i] = [value |-> wire[i].value, status |-> wire[i].status] /\ wire[i].value \in Nat
<1>1. kept \in Seq(Nat) /\ wire \in Seq([value : Nat, status : {"sent", "stored", "refused"}])  BY DEF FieldTypes
<1>2. /\ Len(wire) \in Nat /\ (wire = << >> <=> Len(wire) = 0) /\ DOMAIN wire = 1..Len(wire)
      /\ Len(kept) \in Nat /\ (kept = << >> <=> Len(kept) = 0) /\ DOMAIN kept = 1..Len(kept)
  BY <1>1, EmptyIff
<1>3. \A i \in 1..Len(wire) : wire[i] \in [value : Nat, status : {"sent", "stored", "refused"}]  BY <1>1, LenProperties
<1>4. \A i \in 1..Len(kept) : kept[i] \in Nat  BY <1>1, LenProperties
<1>5. \A i \in 1..Len(wire) : wire[i] = [value |-> wire[i].value, status |-> wire[i].status] /\ wire[i].value \in Nat  BY <1>3
<1>6. QED  BY <1>2, <1>3, <1>4, <1>5

LEMMA FieldGood == ASSUME FieldInv PROVE Field!ShownAsStored /\ Field!LastIsStored
<1>1. FieldTypes /\ FieldAlone /\ FieldLast  BY DEF FieldInv
<1>2. Field!ShownAsStored  BY <1>1 DEF FieldAlone, Field!ShownAsStored
<1>3. DOMAIN wire = 1..Len(wire)  BY <1>1, WireIs
<1>4. ASSUME ~fieldPast.lost /\ ~fieldPast.refused /\ ~fieldPast.reordered, kept = << >>,
             \A i \in DOMAIN wire : wire[i].status # "sent"
      PROVE  db = field.value
  BY <1>1, <1>3, <1>4 DEF FieldLast, Waits
<1>5. Field!LastIsStored  BY <1>4 DEF Field!LastIsStored
<1>6. QED  BY <1>2, <1>5

\* the requests which values become
LEMMA SentIs == ASSUME NEW s \in Seq(Nat)
  PROVE  /\ Field!Sent(s) \in Seq([value : Nat, status : {"sent", "stored", "refused"}]) /\ Len(Field!Sent(s)) = Len(s)
         /\ \A i \in 1..Len(s) : Field!Sent(s)[i] = [value |-> s[i], status |-> "sent"]
<1>1. Len(s) \in Nat /\ DOMAIN s = 1..Len(s) /\ \A i \in 1..Len(s) : s[i] \in Nat  BY LenProperties
<1>2. Field!Sent(s) = [i \in 1..Len(s) |-> [value |-> s[i], status |-> "sent"]]  BY <1>1 DEF Field!Sent
<1>3. \A i \in 1..Len(s) : [value |-> s[i], status |-> "sent"] \in [value : Nat, status : {"sent", "stored", "refused"}]  BY <1>1
<1>4. Field!Sent(s) \in [1..Len(s) -> [value : Nat, status : {"sent", "stored", "refused"}]]  BY <1>2, <1>3
<1>5. QED  BY <1>1, <1>2, <1>4, FunctionSeq

LEMMA FieldChange == ASSUME FieldInv, Field!Change PROVE FieldInv'
<1>1. FieldTypes /\ FieldAlone /\ FieldLast  BY DEF FieldInv
<1>2. PICK v, n, k, w, o, d :
        /\ v = fieldPast.changes + 1 /\ n = (IF field.last THEN field.timers - 1 ELSE field.timers)
        /\ k = (IF net.known THEN kept ELSE Append(kept, v))
        /\ w = (IF net.known /\ net.up THEN wire \o Field!Sent(<<v>>) ELSE wire)
        /\ o = (fieldPast.overlapped \/ field.saving) /\ d = (fieldPast.lost \/ (net.known /\ ~net.up))
        /\ o \in BOOLEAN /\ d \in BOOLEAN
  OBVIOUS
<1>3. /\ field' = [field EXCEPT !.value = v, !.saving = TRUE, !.timers = n, !.last = FALSE]
      /\ kept' = k /\ wire' = w
      /\ fieldPast' = [fieldPast EXCEPT !.changes = v, !.overlapped = o, !.lost = d]
      /\ told' = told /\ db' = db /\ net' = net
  BY <1>2 DEF Field!Change
<1>4. v \in Nat /\ n \in Nat  BY <1>1, <1>2, FieldRecords DEF FieldTypes
<1>5. PICK f : f = field  OBVIOUS
<1>6. f = [value |-> f.value, saving |-> f.saving, saved |-> f.saved, error |-> f.error, timers |-> f.timers, last |-> f.last]
  BY <1>1, <1>5, FieldRecords DEF FieldRecord
<1>7. field' = [value |-> v, saving |-> TRUE, saved |-> f.saved, error |-> f.error, timers |-> n, last |-> FALSE]
  BY <1>3, <1>5, <1>6
<1>8. PICK g : g = fieldPast  OBVIOUS
<1>9. g = [changes |-> g.changes, cuts |-> g.cuts, overlapped |-> g.overlapped, lost |-> g.lost, refused |-> g.refused,
           reordered |-> g.reordered]
  BY <1>1, <1>8, FieldRecords DEF FieldPastRecord
<1>10. fieldPast' = [changes |-> v, cuts |-> g.cuts, overlapped |-> o, lost |-> d, refused |-> g.refused, reordered |-> g.reordered]
  BY <1>3, <1>8, <1>9
<1>11. field'.value = v /\ field'.saving /\ field'.timers = n /\ ~field'.last /\ field' \in [value : Nat, saving : BOOLEAN, saved : BOOLEAN, error : BOOLEAN, timers : Nat, last : BOOLEAN]
  BY <1>1, <1>4, <1>5, <1>7, FieldRecords
<1>12. /\ fieldPast'.changes = v /\ fieldPast'.overlapped = o /\ fieldPast'.lost = d /\ fieldPast'.refused = fieldPast.refused
       /\ fieldPast'.reordered = fieldPast.reordered
       /\ fieldPast' \in [changes : Nat, cuts : Nat, overlapped : BOOLEAN, lost : BOOLEAN, refused : BOOLEAN, reordered : BOOLEAN]
  <2>1. /\ g.cuts \in Nat /\ g.refused \in BOOLEAN /\ g.reordered \in BOOLEAN  BY <1>1, <1>8, FieldRecords
  <2>2. QED  BY <1>2, <1>4, <1>8, <1>10, <2>1
<1>13. Len(wire) \in Nat /\ Len(kept) \in Nat /\ (wire = << >> <=> Len(wire) = 0) /\ (kept = << >> <=> Len(kept) = 0)
  BY <1>1, WireIs
<1>14. CASE ~net.known
  <2>1. wire' = wire /\ kept' = Append(kept, v)  BY <1>2, <1>3, <1>14
  <2>2. /\ kept' \in Seq(Nat) /\ Len(kept') = Len(kept) + 1 /\ kept'[Len(kept) + 1] = v /\ kept' # << >>
        /\ \A j \in 1..Len(kept) : kept'[j] = kept[j]
    BY <1>1, <1>4, <2>1, Lengthened DEF FieldTypes
  <2>3. FieldTypes'  BY <1>1, <1>3, <1>11, <1>12, <1>14, <2>1, <2>2 DEF FieldTypes
  <2>4. FieldLast'  BY <1>11, <2>2 DEF FieldLast
  <2>5. ASSUME ~fieldPast'.overlapped PROVE wire = << >> /\ kept = << >> /\ ~field.saving /\ n = 0
    BY <1>1, <1>2, <1>12, <2>5, FieldRecords DEF FieldAlone
  <2>6. FieldAlone'
    <3> SUFFICES ASSUME ~fieldPast'.overlapped
                 PROVE  /\ ~field'.saving => wire' = << >> /\ kept' = << >>
                        /\ Len(wire') + Len(kept') <= 1
                        /\ \A i \in 1..Len(kept') : kept'[i] = field'.value
                        /\ \A i \in 1..Len(wire') : wire'[i].value = field'.value /\ (wire'[i].status = "stored" => db' = field'.value)
                        /\ field'.saving => field'.timers = 0
                        /\ field'.timers = IF field'.last THEN 1 ELSE 0
                        /\ ~field'.saving /\ (~field'.error \/ field'.timers > 0) => db' = field'.value /\ told' = field'.value
      BY DEF FieldAlone
    <3>1. Len(wire') = 0 /\ Len(kept') = 1  BY <1>13, <2>1, <2>2, <2>5
    <3>2. n = 0  BY <2>5
    <3>3. kept'[1] = v  BY <1>13, <2>2, <2>5
    <3>4. QED  BY <1>11, <3>1, <3>2, <3>3
  <2>7. QED  BY <2>3, <2>4, <2>6 DEF FieldInv
<1>15. CASE net.known
  <2>1. kept' = kept /\ kept = << >>  BY <1>1, <1>2, <1>3, <1>15 DEF FieldTypes
  <2>2. CASE net.up
    <3>1. wire' = wire \o Field!Sent(<<v>>)  BY <1>2, <1>3, <1>15, <2>2
    <3>2. PICK t : t = <<v>>  OBVIOUS
    <3>3. PICK s : s = Field!Sent(t)  OBVIOUS
    <3>4. s \in Seq([value : Nat, status : {"sent", "stored", "refused"}]) /\ Len(s) = 1 /\ s[1] = [value |-> v, status |-> "sent"]
      <4>1. t \in Seq(Nat) /\ Len(t) = 1 /\ t[1] = v  BY <1>4, <3>2
      <4>2. /\ Field!Sent(t) \in Seq([value : Nat, status : {"sent", "stored", "refused"}]) /\ Len(Field!Sent(t)) = Len(t)
            /\ \A i \in 1..Len(t) : Field!Sent(t)[i] = [value |-> t[i], status |-> "sent"]
        BY <4>1, SentIs
      <4>3. Len(s) = 1 /\ \A i \in 1..1 : s[i] = [value |-> t[i], status |-> "sent"]  BY <3>3, <4>1, <4>2
      <4>4. QED  BY <3>3, <4>1, <4>2, <4>3
    <3>5. /\ wire' \in Seq([value : Nat, status : {"sent", "stored", "refused"}]) /\ Len(wire') = Len(wire) + 1
          /\ \A j \in 1..(Len(wire) + 1) : wire'[j] = IF j <= Len(wire) THEN wire[j] ELSE s[j - Len(wire)]
      <4>1. wire \in Seq([value : Nat, status : {"sent", "stored", "refused"}])  BY <1>1 DEF FieldTypes
      <4>2. wire' = wire \o s  BY <3>1, <3>2, <3>3
      <4>3. /\ wire \o s \in Seq([value : Nat, status : {"sent", "stored", "refused"}]) /\ Len(wire \o s) = Len(wire) + Len(s)
            /\ \A j \in 1..(Len(wire) + Len(s)) : (wire \o s)[j] = IF j <= Len(wire) THEN wire[j] ELSE s[j - Len(wire)]
        BY <3>4, <4>1, ConcatProperties
      <4>4. QED  BY <3>4, <4>2, <4>3
    <3>6. wire'[Len(wire) + 1].value = v /\ wire'[Len(wire) + 1].status = "sent"
      <4>1. wire'[Len(wire) + 1] = s[1]  BY <1>13, <3>5
      <4>2. QED  BY <3>4, <4>1
    <3>7. FieldTypes'  BY <1>1, <1>3, <1>11, <1>12, <1>15, <2>1, <3>5 DEF FieldTypes
    <3>8. \A i \in 1..Len(wire') : wire'[i].status = "sent" /\ (\A j \in (i + 1)..Len(wire') : wire'[j].status # "sent") => wire'[i].value = field'.value
      <4> TAKE i \in 1..Len(wire')
      <4>1. HAVE wire'[i].status = "sent" /\ (\A j \in (i + 1)..Len(wire') : wire'[j].status # "sent")
      <4>2. Len(wire) + 1 \notin (i + 1)..Len(wire')  BY <3>6, <4>1
      <4>3. i = Len(wire) + 1  BY <1>13, <3>5, <4>2
      <4>4. QED  BY <1>11, <3>6, <4>3
    <3>9. ~(\A i \in 1..Len(wire') : wire'[i].status # "sent")
      <4>1. Len(wire) + 1 \in 1..Len(wire')  BY <1>13, <3>5
      <4>2. QED  BY <3>6, <4>1
    <3>10. FieldLast'  BY <2>1, <3>8, <3>9 DEF FieldLast, Waits
    <3>11. FieldAlone'
      <4> SUFFICES ASSUME ~fieldPast'.overlapped
                   PROVE  /\ ~field'.saving => wire' = << >> /\ kept' = << >>
                          /\ Len(wire') + Len(kept') <= 1
                          /\ \A i \in 1..Len(kept') : kept'[i] = field'.value
                          /\ \A i \in 1..Len(wire') : wire'[i].value = field'.value /\ (wire'[i].status = "stored" => db' = field'.value)
                          /\ field'.saving => field'.timers = 0
                          /\ field'.timers = IF field'.last THEN 1 ELSE 0
                          /\ ~field'.saving /\ (~field'.error \/ field'.timers > 0) => db' = field'.value /\ told' = field'.value
        BY DEF FieldAlone
      <4>1. wire = << >> /\ ~field.saving /\ n = 0  BY <1>1, <1>2, <1>12, FieldRecords DEF FieldAlone
      <4>2. Len(wire) = 0 /\ Len(wire') = 1 /\ Len(kept') = 0  BY <1>13, <2>1, <3>5, <4>1
      <4>3. wire'[1].value = v /\ wire'[1].status = "sent"  BY <3>6, <4>2
      <4>4. QED  BY <1>11, <4>1, <4>2, <4>3
    <3>12. QED  BY <3>7, <3>10, <3>11 DEF FieldInv
  <2>3. CASE ~net.up
    <3>1. wire' = wire  BY <1>2, <1>3, <2>3
    <3>2. fieldPast'.lost  BY <1>2, <1>12, <1>15, <2>3
    <3>3. FieldTypes'  BY <1>1, <1>3, <1>11, <1>12, <1>15, <2>1, <3>1 DEF FieldTypes
    <3>4. FieldLast'  BY <3>2 DEF FieldLast
    <3>5. FieldAlone'
      <4> SUFFICES ASSUME ~fieldPast'.overlapped
                   PROVE  /\ ~field'.saving => wire' = << >> /\ kept' = << >>
                          /\ Len(wire') + Len(kept') <= 1
                          /\ \A i \in 1..Len(kept') : kept'[i] = field'.value
                          /\ \A i \in 1..Len(wire') : wire'[i].value = field'.value /\ (wire'[i].status = "stored" => db' = field'.value)
                          /\ field'.saving => field'.timers = 0
                          /\ field'.timers = IF field'.last THEN 1 ELSE 0
                          /\ ~field'.saving /\ (~field'.error \/ field'.timers > 0) => db' = field'.value /\ told' = field'.value
        BY DEF FieldAlone
      <4>1. wire = << >> /\ ~field.saving /\ n = 0  BY <1>1, <1>2, <1>12, FieldRecords DEF FieldAlone
      <4>2. Len(wire') = 0 /\ Len(kept') = 0  BY <1>13, <2>1, <3>1, <4>1
      <4>3. QED  BY <1>11, <4>1, <4>2
    <3>6. QED  BY <3>3, <3>4, <3>5 DEF FieldInv
  <2>4. QED  BY <2>2, <2>3
<1>16. QED  BY <1>14, <1>15

LEMMA FieldServe == ASSUME FieldInv, NEW p \in 1..Len(wire), Field!Serve(p) PROVE FieldInv'
<1>1. FieldTypes /\ FieldAlone /\ FieldLast  BY DEF FieldInv
<1>2. wire[p].status = "sent" /\ field' = field /\ told' = told /\ kept' = kept /\ net' = net  BY DEF Field!Serve
<1>3. Len(wire) \in Nat /\ (wire = << >> <=> Len(wire) = 0) /\ (\A i \in 1..Len(wire) : wire[i] \in [value : Nat, status : {"sent", "stored", "refused"}])
  BY <1>1, WireIs
<1>4. PICK s \in {"stored", "refused"} : /\ wire' = [wire EXCEPT ![p].status = s]
                                         /\ s = "stored" => /\ db' = wire[p].value
                                                            /\ fieldPast' = [fieldPast EXCEPT !.reordered = @ \/ \E j \in 1..(p - 1) : wire[j].status = "sent"]
                                         /\ s = "refused" => fieldPast' = [fieldPast EXCEPT !.refused = TRUE] /\ db' = db
  BY DEF Field!Serve
<1>5. /\ wire' \in Seq([value : Nat, status : {"sent", "stored", "refused"}]) /\ Len(wire') = Len(wire)
      /\ wire'[p].value = wire[p].value /\ wire'[p].status = s
      /\ \A j \in 1..Len(wire) : j # p => wire'[j] = wire[j]
  <2>1. PICK e : e = [wire[p] EXCEPT !.status = s]  OBVIOUS
  <2>2. e \in [value : Nat, status : {"sent", "stored", "refused"}] /\ e.value = wire[p].value /\ e.status = s  BY <1>3, <2>1
  <2>3. wire' = [wire EXCEPT ![p] = e]  BY <1>4, <2>1
  <2>4. wire \in Seq([value : Nat, status : {"sent", "stored", "refused"}])  BY <1>1 DEF FieldTypes
  <2>5. /\ wire' \in Seq([value : Nat, status : {"sent", "stored", "refused"}]) /\ Len(wire') = Len(wire)
        /\ \A j \in 1..Len(wire) : wire'[j] = IF j = p THEN e ELSE wire[j]
    BY <2>2, <2>3, <2>4, ExceptSeq
  <2>6. QED  BY <2>2, <2>5
<1>6. PICK d \in BOOLEAN : d = (fieldPast.reordered \/ \E j \in 1..(p - 1) : wire[j].status = "sent")  OBVIOUS
<1>7. /\ fieldPast'.changes = fieldPast.changes /\ fieldPast'.overlapped = fieldPast.overlapped /\ fieldPast'.lost = fieldPast.lost
      /\ s = "stored" => fieldPast'.refused = fieldPast.refused /\ fieldPast'.reordered = d
      /\ s = "refused" => fieldPast'.refused
      /\ fieldPast' \in [changes : Nat, cuts : Nat, overlapped : BOOLEAN, lost : BOOLEAN, refused : BOOLEAN, reordered : BOOLEAN]
  <2>1. PICK g : g = fieldPast  OBVIOUS
  <2>2. g \in [changes : Nat, cuts : Nat, overlapped : BOOLEAN, lost : BOOLEAN, refused : BOOLEAN, reordered : BOOLEAN]
    BY <1>1, <2>1 DEF FieldTypes
  <2>3. CASE s = "stored"
    <3>1. fieldPast' = [g EXCEPT !.reordered = d]  BY <1>4, <1>6, <2>1, <2>3
    <3>2. QED  BY <2>1, <2>2, <2>3, <3>1
  <2>4. CASE s = "refused"
    <3>1. fieldPast' = [g EXCEPT !.refused = TRUE]  BY <1>4, <2>1, <2>4
    <3>2. QED  BY <2>1, <2>2, <2>4, <3>1
  <2>5. QED  BY <2>3, <2>4
<1>8. db' \in Nat
  BY <1>1, <1>3, <1>4 DEF FieldTypes
<1>9. FieldTypes'  BY <1>1, <1>2, <1>5, <1>7, <1>8 DEF FieldTypes
<1>10. FieldAlone'
  <2> SUFFICES ASSUME ~fieldPast'.overlapped
               PROVE  /\ ~field'.saving => wire' = << >> /\ kept' = << >>
                      /\ Len(wire') + Len(kept') <= 1
                      /\ \A i \in 1..Len(kept') : kept'[i] = field'.value
                      /\ \A i \in 1..Len(wire') : wire'[i].value = field'.value /\ (wire'[i].status = "stored" => db' = field'.value)
                      /\ field'.saving => field'.timers = 0
                      /\ field'.timers = IF field'.last THEN 1 ELSE 0
                      /\ ~field'.saving /\ (~field'.error \/ field'.timers > 0) => db' = field'.value /\ told' = field'.value
    BY DEF FieldAlone
  <2>1. field.saving /\ Len(wire) + Len(kept) <= 1 /\ wire[p].value = field.value /\ (\A i \in 1..Len(kept) : kept[i] = field.value)
        /\ field.timers = 0 /\ field.timers = IF field.last THEN 1 ELSE 0
    BY <1>1, <1>3, <1>7 DEF FieldAlone
  <2>2. Len(kept) \in Nat  BY <1>1, WireIs
  <2>3. p = 1 /\ Len(wire') = 1  BY <1>3, <1>5, <2>1, <2>2
  <2>4. wire'[1].value = field.value /\ (wire'[1].status = "stored" => db' = field.value)  BY <1>4, <1>5, <2>1, <2>3
  <2>5. QED  BY <1>2, <1>5, <2>1, <2>3, <2>4
<1>11. FieldLast'
  <2>1. CASE s = "refused"  BY <1>7, <2>1 DEF FieldLast
  <2>2. CASE s = "stored" /\ kept # << >>  BY <1>1, <1>2, <1>7, <1>6, <2>2 DEF FieldLast
  <2>3. CASE s = "stored" /\ kept = << >>
    <3> SUFFICES ASSUME ~fieldPast'.lost /\ ~fieldPast'.refused /\ ~fieldPast'.reordered
                 PROVE  /\ \A i \in 1..Len(wire') : wire'[i].status = "sent" /\ (\A j \in (i + 1)..Len(wire') : wire'[j].status # "sent")
                              => wire'[i].value = field'.value
                        /\ (\A i \in 1..Len(wire') : wire'[i].status # "sent") => db' = field'.value
      BY <1>2, <2>3 DEF FieldLast, Waits
    <3>1. /\ \A i \in 1..Len(wire) : wire[i].status = "sent" /\ (\A j \in (i + 1)..Len(wire) : wire[j].status # "sent")
                => wire[i].value = field.value
          /\ \A j \in 1..(p - 1) : wire[j].status # "sent"
      BY <1>1, <1>6, <1>7, <2>3 DEF FieldLast, Waits
    <3>2. ASSUME NEW i \in 1..Len(wire), wire'[i].status = "sent", \A j \in (i + 1)..Len(wire) : wire'[j].status # "sent"
          PROVE  wire'[i].value = field.value
      <4>1. i # p  BY <1>5, <2>3, <3>2
      <4>2. wire'[i] = wire[i]  BY <1>5, <4>1
      <4>3. i > p  BY <3>1, <3>2, <4>1, <4>2
      <4>4. \A j \in (i + 1)..Len(wire) : wire[j].status # "sent"
        <5> TAKE j \in (i + 1)..Len(wire)
        <5>1. j \in 1..Len(wire) /\ j # p  BY <4>3
        <5>2. QED  BY <1>5, <3>2, <5>1
      <4>5. QED  BY <3>1, <3>2, <4>2, <4>4
    <3>3. ASSUME \A i \in 1..Len(wire) : wire'[i].status # "sent" PROVE db' = field.value
      <4>1. \A j \in (p + 1)..Len(wire) : wire[j].status # "sent"
        <5> TAKE j \in (p + 1)..Len(wire)
        <5>1. j \in 1..Len(wire) /\ j # p  BY <1>3
        <5>2. QED  BY <1>5, <3>3, <5>1
      <4>2. wire[p].value = field.value  BY <1>2, <3>1, <4>1
      <4>3. QED  BY <1>4, <2>3, <4>2
    <3>4. QED  BY <1>2, <1>5, <3>2, <3>3
  <2>4. QED  BY <2>1, <2>2, <2>3
<1>12. QED  BY <1>9, <1>10, <1>11 DEF FieldInv

\* a request which was answered leaves the others as they wait
LEMMA AnsweredLeaves == ASSUME FieldTypes, NEW p \in 1..Len(wire), wire[p].status # "sent", wire' = Without(wire, p)
  PROVE  /\ wire' \in Seq([value : Nat, status : {"sent", "stored", "refused"}]) /\ Len(wire') = Len(wire) - 1
         /\ FieldLast /\ kept' = kept /\ field'.value = field.value /\ db' = db /\ fieldPast' = fieldPast => FieldLast'
<1>1. /\ wire' \in Seq([value : Nat, status : {"sent", "stored", "refused"}]) /\ Len(wire') = Len(wire) - 1
      /\ \A j \in 1..(Len(wire) - 1) : wire'[j] = IF j < p THEN wire[j] ELSE wire[j + 1]
  <2>1. wire \in Seq([value : Nat, status : {"sent", "stored", "refused"}])  BY DEF FieldTypes
  <2>2. /\ Without(wire, p) \in Seq([value : Nat, status : {"sent", "stored", "refused"}]) /\ Len(Without(wire, p)) = Len(wire) - 1
        /\ \A j \in 1..(Len(wire) - 1) : Without(wire, p)[j] = IF j < p THEN wire[j] ELSE wire[j + 1]
    BY <2>1, WithoutOne
  <2>3. QED  BY <2>2
<1>2. Len(wire) \in Nat  BY WireIs
<1>3. ASSUME FieldLast, kept' = kept, field'.value = field.value, db' = db, fieldPast' = fieldPast PROVE FieldLast'
  <2>1. CASE kept # << >>  BY <1>3, <2>1 DEF FieldLast
  <2>2. CASE kept = << >>
    <3> SUFFICES ASSUME ~fieldPast'.lost /\ ~fieldPast'.refused /\ ~fieldPast'.reordered
                 PROVE  /\ \A i \in 1..Len(wire') : wire'[i].status = "sent" /\ (\A j \in (i + 1)..Len(wire') : wire'[j].status # "sent")
                              => wire'[i].value = field'.value
                        /\ (\A i \in 1..Len(wire') : wire'[i].status # "sent") => db' = field'.value
      BY <1>3, <2>2 DEF FieldLast, Waits
    <3>1. /\ \A i \in 1..Len(wire) : wire[i].status = "sent" /\ (\A j \in (i + 1)..Len(wire) : wire[j].status # "sent")
                => wire[i].value = field.value
          /\ (\A i \in 1..Len(wire) : wire[i].status # "sent") => db = field.value
      BY <1>3, <2>2 DEF FieldLast, Waits
    <3>2. ASSUME NEW i \in 1..Len(wire'), wire'[i].status = "sent", \A j \in (i + 1)..Len(wire') : wire'[j].status # "sent"
          PROVE  wire'[i].value = field.value
      <4>1. PICK k \in 1..Len(wire) : k = (IF i < p THEN i ELSE i + 1)  BY <1>1, <1>2
      <4>2. wire'[i] = wire[k]  BY <1>1, <1>2, <4>1
      <4>3. \A j \in (k + 1)..Len(wire) : wire[j].status # "sent"
        <5> TAKE j \in (k + 1)..Len(wire)
        <5>1. CASE j = p  BY <5>1
        <5>2. CASE j < p
          <6>1. j \in (i + 1)..Len(wire') /\ j \in 1..(Len(wire) - 1)  BY <1>1, <1>2, <4>1, <5>2
          <6>2. QED  BY <1>1, <3>2, <5>2, <6>1
        <5>3. CASE j > p
          <6>1. j - 1 \in (i + 1)..Len(wire') /\ j - 1 \in 1..(Len(wire) - 1) /\ ~(j - 1 < p) /\ j - 1 + 1 = j
            BY <1>1, <1>2, <4>1, <5>3
          <6>2. wire'[j - 1] = wire[j]  BY <1>1, <6>1
          <6>3. QED  BY <3>2, <6>1, <6>2
        <5>4. QED  BY <1>2, <5>1, <5>2, <5>3
      <4>4. QED  BY <3>1, <3>2, <4>2, <4>3
    <3>3. ASSUME \A i \in 1..Len(wire') : wire'[i].status # "sent" PROVE db = field.value
      <4>1. \A j \in 1..Len(wire) : wire[j].status # "sent"
        <5> TAKE j \in 1..Len(wire)
        <5>1. CASE j = p  BY <5>1
        <5>2. CASE j < p
          <6>1. j \in 1..Len(wire') /\ j \in 1..(Len(wire) - 1)  BY <1>1, <1>2, <5>2
          <6>2. QED  BY <1>1, <3>3, <5>2, <6>1
        <5>3. CASE j > p
          <6>1. j - 1 \in 1..Len(wire') /\ j - 1 \in 1..(Len(wire) - 1) /\ ~(j - 1 < p) /\ j - 1 + 1 = j  BY <1>1, <1>2, <5>3
          <6>2. wire'[j - 1] = wire[j]  BY <1>1, <6>1
          <6>3. QED  BY <3>3, <6>1, <6>2
        <5>4. QED  BY <1>2, <5>1, <5>2, <5>3
      <4>2. QED  BY <3>1, <4>1
    <3>4. QED  BY <1>3, <3>2, <3>3
  <2>3. QED  BY <2>1, <2>2
<1>4. QED  BY <1>1, <1>3

LEMMA FieldStored == ASSUME FieldInv, NEW p \in 1..Len(wire), Field!AnswerStored(p) PROVE FieldInv'
<1>1. FieldTypes /\ FieldAlone /\ FieldLast  BY DEF FieldInv
<1>2. /\ wire[p].status = "stored" /\ told' = field.value /\ wire' = Without(wire, p)
      /\ kept' = kept /\ db' = db /\ net' = net /\ fieldPast' = fieldPast
  BY DEF Field!AnswerStored, Field!Without, Without
<1>3. PICK f, n : f = field /\ n = field.timers + 1  OBVIOUS
<1>4. field' = [f EXCEPT !.saving = FALSE, !.saved = TRUE, !.timers = n, !.last = TRUE]  BY <1>3 DEF Field!AnswerStored
<1>5. f = [value |-> f.value, saving |-> f.saving, saved |-> f.saved, error |-> f.error, timers |-> f.timers, last |-> f.last]
  BY <1>1, <1>3, FieldRecords DEF FieldRecord
<1>6. field' = [value |-> f.value, saving |-> FALSE, saved |-> TRUE, error |-> f.error, timers |-> n, last |-> TRUE]
  BY <1>4, <1>5
<1>7. f.value \in Nat /\ f.error \in BOOLEAN /\ n \in Nat /\ n > 0  BY <1>1, <1>3, FieldRecords
<1>8. /\ field'.value = field.value /\ ~field'.saving /\ field'.error = field.error /\ field'.timers = field.timers + 1 /\ field'.last
      /\ field' \in [value : Nat, saving : BOOLEAN, saved : BOOLEAN, error : BOOLEAN, timers : Nat, last : BOOLEAN]
  BY <1>3, <1>6, <1>7
<1>9. wire' \in Seq([value : Nat, status : {"sent", "stored", "refused"}]) /\ Len(wire') = Len(wire) - 1 /\ FieldLast'
  BY <1>1, <1>2, <1>8, AnsweredLeaves
<1>10. field.value \in Nat /\ field'.timers > 0  BY <1>1, <1>3, <1>7, <1>8, FieldRecords
<1>11. FieldTypes'  BY <1>1, <1>2, <1>8, <1>9, <1>10 DEF FieldTypes
<1>12. Len(wire) \in Nat /\ Len(kept) \in Nat /\ (wire = << >> <=> Len(wire) = 0) /\ (kept = << >> <=> Len(kept) = 0)
  BY <1>1, WireIs
<1>13. Len(wire') = 0 <=> wire' = << >>  BY <1>9, EmptyIff
<1>14. FieldAlone'
  <2> SUFFICES ASSUME ~fieldPast'.overlapped
               PROVE  /\ ~field'.saving => wire' = << >> /\ kept' = << >>
                      /\ Len(wire') + Len(kept') <= 1
                      /\ \A i \in 1..Len(kept') : kept'[i] = field'.value
                      /\ \A i \in 1..Len(wire') : wire'[i].value = field'.value /\ (wire'[i].status = "stored" => db' = field'.value)
                      /\ field'.saving => field'.timers = 0
                      /\ field'.timers = IF field'.last THEN 1 ELSE 0
                      /\ ~field'.saving /\ (~field'.error \/ field'.timers > 0) => db' = field'.value /\ told' = field'.value
    BY DEF FieldAlone
  <2>1. wire # << >>  BY <1>12
  <2>2. field.saving /\ Len(wire) + Len(kept) <= 1 /\ db = field.value /\ field.timers = 0
    BY <1>1, <1>2, <2>1 DEF FieldAlone
  <2>3. Len(wire') = 0 /\ Len(kept) = 0  BY <1>9, <1>12, <2>2
  <2>4. QED  BY <1>2, <1>8, <1>12, <1>13, <2>2, <2>3
<1>15. QED  BY <1>9, <1>11, <1>14 DEF FieldInv

LEMMA FieldRefused == ASSUME FieldInv, NEW p \in 1..Len(wire), Field!AnswerRefused(p) PROVE FieldInv'
<1>1. FieldTypes /\ FieldAlone /\ FieldLast  BY DEF FieldInv
<1>2. /\ wire[p].status = "refused" /\ told' = told /\ wire' = Without(wire, p)
      /\ kept' = kept /\ db' = db /\ net' = net /\ fieldPast' = fieldPast
  BY DEF Field!AnswerRefused, Field!Without, Without
<1>3. PICK f : f = field  OBVIOUS
<1>4. field' = [f EXCEPT !.saving = FALSE, !.error = TRUE]  BY <1>3 DEF Field!AnswerRefused
<1>5. f = [value |-> f.value, saving |-> f.saving, saved |-> f.saved, error |-> f.error, timers |-> f.timers, last |-> f.last]
  BY <1>1, <1>3, FieldRecords DEF FieldRecord
<1>6. field' = [value |-> f.value, saving |-> FALSE, saved |-> f.saved, error |-> TRUE, timers |-> f.timers, last |-> f.last]
  BY <1>4, <1>5
<1>7. f.value \in Nat /\ f.saved \in BOOLEAN /\ f.timers \in Nat /\ f.last \in BOOLEAN  BY <1>1, <1>3, FieldRecords
<1>8. /\ field'.value = field.value /\ ~field'.saving /\ field'.error /\ field'.timers = field.timers /\ field'.last = field.last
      /\ field' \in [value : Nat, saving : BOOLEAN, saved : BOOLEAN, error : BOOLEAN, timers : Nat, last : BOOLEAN]
  BY <1>3, <1>6, <1>7
<1>9. wire' \in Seq([value : Nat, status : {"sent", "stored", "refused"}]) /\ Len(wire') = Len(wire) - 1 /\ FieldLast'
  BY <1>1, <1>2, <1>8, AnsweredLeaves
<1>10. FieldTypes'  BY <1>1, <1>2, <1>8, <1>9 DEF FieldTypes
<1>11. Len(wire) \in Nat /\ Len(kept) \in Nat /\ (wire = << >> <=> Len(wire) = 0) /\ (kept = << >> <=> Len(kept) = 0)
  BY <1>1, WireIs
<1>12. Len(wire') = 0 <=> wire' = << >>  BY <1>9, EmptyIff
<1>13. FieldAlone'
  <2> SUFFICES ASSUME ~fieldPast'.overlapped
               PROVE  /\ ~field'.saving => wire' = << >> /\ kept' = << >>
                      /\ Len(wire') + Len(kept') <= 1
                      /\ \A i \in 1..Len(kept') : kept'[i] = field'.value
                      /\ \A i \in 1..Len(wire') : wire'[i].value = field'.value /\ (wire'[i].status = "stored" => db' = field'.value)
                      /\ field'.saving => field'.timers = 0
                      /\ field'.timers = IF field'.last THEN 1 ELSE 0
                      /\ ~field'.saving /\ (~field'.error \/ field'.timers > 0) => db' = field'.value /\ told' = field'.value
    BY DEF FieldAlone
  <2>1. wire # << >>  BY <1>11
  <2>2. field.saving /\ Len(wire) + Len(kept) <= 1 /\ field.timers = 0 /\ field.timers = IF field.last THEN 1 ELSE 0
    BY <1>1, <1>2, <2>1 DEF FieldAlone
  <2>3. Len(wire') = 0 /\ Len(kept) = 0  BY <1>9, <1>11, <2>2
  <2>4. QED  BY <1>2, <1>8, <1>11, <1>12, <2>2, <2>3
<1>14. QED  BY <1>9, <1>10, <1>13 DEF FieldInv

LEMMA FieldTimer == ASSUME FieldInv, Field!Timer PROVE FieldInv'
<1>1. FieldTypes /\ FieldAlone /\ FieldLast  BY DEF FieldInv
<1>2. /\ field.timers > 0 /\ told' = told /\ wire' = wire /\ kept' = kept /\ db' = db /\ net' = net /\ fieldPast' = fieldPast
  BY DEF Field!Timer
<1>3. PICK f, n : f = field /\ n = field.timers - 1  OBVIOUS
<1>4. PICK d \in BOOLEAN : d = (field.last /\ field.timers > 1)  OBVIOUS
<1>5. field' = [f EXCEPT !.saved = FALSE, !.error = FALSE, !.timers = n, !.last = d]  BY <1>3, <1>4 DEF Field!Timer
<1>6. f = [value |-> f.value, saving |-> f.saving, saved |-> f.saved, error |-> f.error, timers |-> f.timers, last |-> f.last]
  BY <1>1, <1>3, FieldRecords DEF FieldRecord
<1>7. field' = [value |-> f.value, saving |-> f.saving, saved |-> FALSE, error |-> FALSE, timers |-> n, last |-> d]
  BY <1>5, <1>6
<1>8. f.value \in Nat /\ f.saving \in BOOLEAN /\ n \in Nat /\ (d => n > 0)
  <2>1. d => field.timers > 1  BY <1>4
  <2>2. field.timers \in Nat /\ f.value \in Nat /\ f.saving \in BOOLEAN  BY <1>1, <1>3, FieldRecords
  <2>3. n \in Nat  BY <1>2, <1>3, <2>2
  <2>4. field.timers > 1 => n > 0  BY <1>3, <2>2
  <2>5. QED  BY <2>1, <2>2, <2>3, <2>4
<1>9. /\ field'.value = field.value /\ field'.saving = field.saving /\ ~field'.error /\ field'.timers = n /\ field'.last = d
      /\ field' \in [value : Nat, saving : BOOLEAN, saved : BOOLEAN, error : BOOLEAN, timers : Nat, last : BOOLEAN]
  BY <1>3, <1>7, <1>8
<1>10. FieldTypes'  BY <1>1, <1>2, <1>8, <1>9 DEF FieldTypes
<1>11. FieldLast'  BY <1>1, <1>2, <1>9 DEF FieldLast, Waits
<1>12. FieldAlone'
  <2> SUFFICES ASSUME ~fieldPast'.overlapped
               PROVE  /\ ~field'.saving => wire' = << >> /\ kept' = << >>
                      /\ Len(wire') + Len(kept') <= 1
                      /\ \A i \in 1..Len(kept') : kept'[i] = field'.value
                      /\ \A i \in 1..Len(wire') : wire'[i].value = field'.value /\ (wire'[i].status = "stored" => db' = field'.value)
                      /\ field'.saving => field'.timers = 0
                      /\ field'.timers = IF field'.last THEN 1 ELSE 0
                      /\ ~field'.saving /\ (~field'.error \/ field'.timers > 0) => db' = field'.value /\ told' = field'.value
    BY DEF FieldAlone
  <2>1. /\ field.saving => field.timers = 0
        /\ field.timers = IF field.last THEN 1 ELSE 0
        /\ ~field.saving /\ (~field.error \/ field.timers > 0) => db = field.value /\ told = field.value
        /\ ~field.saving => wire = << >> /\ kept = << >>
        /\ Len(wire) + Len(kept) <= 1
        /\ \A i \in 1..Len(kept) : kept[i] = field.value
        /\ \A i \in 1..Len(wire) : wire[i].value = field.value /\ (wire[i].status = "stored" => db = field.value)
    BY <1>1, <1>2 DEF FieldAlone
  <2>2. field.timers \in Nat  BY <1>1, FieldRecords
  <2>3. field.timers = 1 \/ field.timers = 0  BY <2>1
  <2>4. field.timers = 1 /\ n = 0 /\ ~(field.timers > 1)  BY <1>2, <1>3, <2>2, <2>3
  <2>5. ~d  BY <1>4, <2>4
  <2>6. ~field.saving
    <3>1. field.timers # 0  BY <2>4
    <3>2. QED  BY <2>1, <3>1
  <2>7. db = field.value /\ told = field.value
    <3>1. field.timers > 0  BY <1>2
    <3>2. QED  BY <2>1, <2>6, <3>1
  <2>8. field'.timers = 0 /\ ~field'.last /\ ~field'.saving  BY <1>9, <2>4, <2>5, <2>6
  <2>9. QED  BY <1>2, <1>9, <2>1, <2>6, <2>7, <2>8
<1>13. QED  BY <1>10, <1>11, <1>12 DEF FieldInv

LEMMA FieldCut == ASSUME FieldInv, Field!Cut PROVE FieldInv'
<1>1. FieldTypes /\ FieldAlone /\ FieldLast  BY DEF FieldInv
<1>2. /\ field' = field /\ told' = told /\ wire' = << >> /\ kept' = kept /\ db' = db /\ net' = [net EXCEPT !.up = FALSE]
  BY DEF Field!Cut
<1>3. PICK g, n : g = fieldPast /\ n = fieldPast.cuts + 1  OBVIOUS
<1>4. PICK d \in BOOLEAN : d = (fieldPast.lost \/ wire # << >>)  OBVIOUS
<1>5. fieldPast' = [g EXCEPT !.cuts = n, !.lost = d]  BY <1>3, <1>4 DEF Field!Cut
<1>6. g = [changes |-> g.changes, cuts |-> g.cuts, overlapped |-> g.overlapped, lost |-> g.lost, refused |-> g.refused,
           reordered |-> g.reordered]
  BY <1>1, <1>3, FieldRecords DEF FieldPastRecord
<1>7. fieldPast' = [changes |-> g.changes, cuts |-> n, overlapped |-> g.overlapped, lost |-> d, refused |-> g.refused,
                    reordered |-> g.reordered]
  BY <1>5, <1>6
<1>8. g.changes \in Nat /\ n \in Nat /\ g.overlapped \in BOOLEAN /\ g.refused \in BOOLEAN /\ g.reordered \in BOOLEAN
  BY <1>1, <1>3, FieldRecords
<1>9. /\ fieldPast'.changes = fieldPast.changes /\ fieldPast'.overlapped = fieldPast.overlapped /\ fieldPast'.lost = d
      /\ fieldPast'.refused = fieldPast.refused /\ fieldPast'.reordered = fieldPast.reordered
      /\ fieldPast' \in [changes : Nat, cuts : Nat, overlapped : BOOLEAN, lost : BOOLEAN, refused : BOOLEAN, reordered : BOOLEAN]
  BY <1>3, <1>7, <1>8
<1>10. wire' \in Seq([value : Nat, status : {"sent", "stored", "refused"}]) /\ Len(wire') = 0  BY <1>2
<1>11. net' \in [up : BOOLEAN, known : BOOLEAN] /\ (net'.known => kept' = << >>)  BY <1>1, <1>2 DEF FieldTypes
<1>12. FieldTypes'  BY <1>1, <1>2, <1>9, <1>10, <1>11 DEF FieldTypes
<1>13. Len(wire) \in Nat /\ Len(kept) \in Nat  BY <1>1, WireIs
<1>14. FieldAlone'  BY <1>1, <1>2, <1>9, <1>10, <1>13 DEF FieldAlone
<1>15. FieldLast'
  <2>1. CASE d  BY <1>9, <2>1 DEF FieldLast
  <2>2. CASE ~d
    <3>1. wire = << >> /\ ~fieldPast.lost  BY <1>4, <2>2
    <3>2. QED  BY <1>1, <1>2, <1>9, <3>1 DEF FieldLast, Waits
  <2>3. QED  BY <2>1, <2>2
<1>16. QED  BY <1>12, <1>14, <1>15 DEF FieldInv

LEMMA FieldBack == ASSUME FieldInv, Field!Back \/ Field!Disconnect PROVE FieldInv'
<1>1. FieldTypes /\ FieldAlone /\ FieldLast  BY DEF FieldInv
<1>2. /\ field' = field /\ told' = told /\ wire' = wire /\ kept' = kept /\ db' = db /\ fieldPast' = fieldPast
  BY DEF Field!Back, Field!Disconnect
<1>3. net' = [net EXCEPT !.up = TRUE] \/ net' = [net EXCEPT !.known = FALSE]  BY DEF Field!Back, Field!Disconnect
<1>4. net' \in [up : BOOLEAN, known : BOOLEAN] /\ (net'.known => kept' = << >>)  BY <1>1, <1>2, <1>3 DEF FieldTypes
<1>5. FieldTypes'  BY <1>1, <1>2, <1>4 DEF FieldTypes
<1>6. FieldAlone'  BY <1>1, <1>2 DEF FieldAlone
<1>7. FieldLast'  BY <1>1, <1>2 DEF FieldLast, Waits
<1>8. QED  BY <1>5, <1>6, <1>7 DEF FieldInv

LEMMA FieldReconnect == ASSUME FieldInv, Field!Reconnect PROVE FieldInv'
<1>1. FieldTypes /\ FieldAlone /\ FieldLast  BY DEF FieldInv
<1>2. /\ field' = field /\ told' = told /\ wire' = wire \o Field!Sent(kept) /\ kept' = << >> /\ db' = db /\ fieldPast' = fieldPast
      /\ net' = [net EXCEPT !.known = TRUE]
  BY DEF Field!Reconnect
<1>3. PICK s : s = Field!Sent(kept)  OBVIOUS
<1>4. /\ s \in Seq([value : Nat, status : {"sent", "stored", "refused"}]) /\ Len(s) = Len(kept)
      /\ \A i \in 1..Len(kept) : s[i].value = kept[i] /\ s[i].status = "sent"
  <2>1. kept \in Seq(Nat)  BY <1>1 DEF FieldTypes
  <2>2. /\ Field!Sent(kept) \in Seq([value : Nat, status : {"sent", "stored", "refused"}]) /\ Len(Field!Sent(kept)) = Len(kept)
        /\ \A i \in 1..Len(kept) : Field!Sent(kept)[i] = [value |-> kept[i], status |-> "sent"]
    <3>1. PICK t : t = kept  OBVIOUS
    <3>2. t \in Seq(Nat)  BY <2>1, <3>1
    <3>3. /\ Field!Sent(t) \in Seq([value : Nat, status : {"sent", "stored", "refused"}]) /\ Len(Field!Sent(t)) = Len(t)
          /\ \A i \in 1..Len(t) : Field!Sent(t)[i] = [value |-> t[i], status |-> "sent"]
      BY <3>2, SentIs
    <3>4. QED  BY <3>1, <3>3
  <2>3. \A i \in 1..Len(kept) : s[i] = [value |-> kept[i], status |-> "sent"]  BY <1>3, <2>2
  <2>4. s \in Seq([value : Nat, status : {"sent", "stored", "refused"}]) /\ Len(s) = Len(kept)  BY <1>3, <2>2
  <2>5. \A i \in 1..Len(kept) : s[i].value = kept[i] /\ s[i].status = "sent"
    <3> TAKE i \in 1..Len(kept)
    <3>1. PICK k : k = kept[i]  OBVIOUS
    <3>2. s[i] = [value |-> k, status |-> "sent"]  BY <2>3, <3>1
    <3>3. QED  BY <3>1, <3>2
  <2>6. QED  BY <2>4, <2>5
<1>5. /\ wire' \in Seq([value : Nat, status : {"sent", "stored", "refused"}]) /\ Len(wire') = Len(wire) + Len(kept)
      /\ \A j \in 1..(Len(wire) + Len(kept)) : wire'[j] = IF j <= Len(wire) THEN wire[j] ELSE s[j - Len(wire)]
  <2>1. wire \in Seq([value : Nat, status : {"sent", "stored", "refused"}])  BY <1>1 DEF FieldTypes
  <2>2. /\ wire \o s \in Seq([value : Nat, status : {"sent", "stored", "refused"}]) /\ Len(wire \o s) = Len(wire) + Len(s)
        /\ \A j \in 1..(Len(wire) + Len(s)) : (wire \o s)[j] = IF j <= Len(wire) THEN wire[j] ELSE s[j - Len(wire)]
    <3>1. s \in Seq([value : Nat, status : {"sent", "stored", "refused"}])  BY <1>4
    <3>2. QED  BY <2>1, <3>1, ConcatProperties
  <2>3. wire' = wire \o s  BY <1>2, <1>3
  <2>4. QED  BY <1>4, <2>2, <2>3
<1>6. net' \in [up : BOOLEAN, known : BOOLEAN]  BY <1>1, <1>2 DEF FieldTypes
<1>7. kept' \in Seq(Nat) /\ Len(kept') = 0  BY <1>2
<1>8. FieldTypes'  BY <1>1, <1>2, <1>5, <1>6, <1>7 DEF FieldTypes
<1>9. Len(wire) \in Nat /\ Len(kept) \in Nat /\ (wire = << >> <=> Len(wire) = 0) /\ (kept = << >> <=> Len(kept) = 0)
      /\ (wire' = << >> <=> Len(wire') = 0)
  BY <1>1, <1>5, WireIs, EmptyIff
<1>10. \A j \in 1..Len(kept) : wire'[Len(wire) + j].value = kept[j] /\ wire'[Len(wire) + j].status = "sent"
  <2> TAKE j \in 1..Len(kept)
  <2>1. Len(wire) + j \in 1..(Len(wire) + Len(kept)) /\ ~(Len(wire) + j <= Len(wire)) /\ Len(wire) + j - Len(wire) = j  BY <1>9
  <2>2. wire'[Len(wire) + j] = s[j]  BY <1>5, <2>1
  <2>3. QED  BY <1>4, <2>2
<1>11. FieldAlone'
  <2> SUFFICES ASSUME ~fieldPast'.overlapped
               PROVE  /\ ~field'.saving => wire' = << >> /\ kept' = << >>
                      /\ Len(wire') + Len(kept') <= 1
                      /\ \A i \in 1..Len(kept') : kept'[i] = field'.value
                      /\ \A i \in 1..Len(wire') : wire'[i].value = field'.value /\ (wire'[i].status = "stored" => db' = field'.value)
                      /\ field'.saving => field'.timers = 0
                      /\ field'.timers = IF field'.last THEN 1 ELSE 0
                      /\ ~field'.saving /\ (~field'.error \/ field'.timers > 0) => db' = field'.value /\ told' = field'.value
    BY DEF FieldAlone
  <2>1. /\ field.saving => field.timers = 0
        /\ field.timers = IF field.last THEN 1 ELSE 0
        /\ ~field.saving /\ (~field.error \/ field.timers > 0) => db = field.value /\ told = field.value
        /\ ~field.saving => wire = << >> /\ kept = << >>
        /\ Len(wire) + Len(kept) <= 1
        /\ \A i \in 1..Len(kept) : kept[i] = field.value
        /\ \A i \in 1..Len(wire) : wire[i].value = field.value /\ (wire[i].status = "stored" => db = field.value)
    BY <1>1, <1>2 DEF FieldAlone
  <2>2. \A i \in 1..Len(wire') : wire'[i].value = field.value /\ (wire'[i].status = "stored" => db = field.value)
    <3> TAKE i \in 1..Len(wire')
    <3>1. CASE i <= Len(wire)
      <4>1. i \in 1..Len(wire) /\ wire'[i] = wire[i]  BY <1>5, <1>9, <3>1
      <4>2. QED  BY <2>1, <4>1
    <3>2. CASE ~(i <= Len(wire))
      <4>1. PICK j \in 1..Len(kept) : Len(wire) + j = i
        <5>1. i - Len(wire) \in 1..Len(kept) /\ Len(wire) + (i - Len(wire)) = i  BY <1>5, <1>9, <3>2
        <5>2. QED  BY <5>1
      <4>2. wire'[i].value = kept[j] /\ wire'[i].status = "sent"  BY <1>10, <4>1
      <4>3. QED  BY <2>1, <4>2
    <3>3. QED  BY <3>1, <3>2
  <2>3. Len(wire') + Len(kept') <= 1  BY <1>5, <1>7, <1>9, <2>1
  <2>4. ~field.saving => wire' = << >>  BY <1>5, <1>9, <2>1
  <2>5. QED  BY <1>2, <1>7, <2>1, <2>2, <2>3, <2>4
<1>12. FieldLast'
  <2> SUFFICES ASSUME ~fieldPast'.lost /\ ~fieldPast'.refused /\ ~fieldPast'.reordered
               PROVE  /\ \A i \in 1..Len(wire') : wire'[i].status = "sent" /\ (\A j \in (i + 1)..Len(wire') : wire'[j].status # "sent")
                            => wire'[i].value = field'.value
                      /\ (\A i \in 1..Len(wire') : wire'[i].status # "sent") => db' = field'.value
    BY <1>2 DEF FieldLast, Waits
  <2>1. CASE kept # << >>
    <3>1. kept[Len(kept)] = field.value  BY <1>1, <1>2, <2>1 DEF FieldLast
    <3>2. Len(kept) \in 1..Len(kept) /\ Len(wire') = Len(wire) + Len(kept)  BY <1>5, <1>9, <2>1
    <3>3. wire'[Len(wire')].value = field.value /\ wire'[Len(wire')].status = "sent" /\ Len(wire') \in 1..Len(wire')
      <4>1. wire'[Len(wire) + Len(kept)].value = kept[Len(kept)] /\ wire'[Len(wire) + Len(kept)].status = "sent"  BY <1>10, <3>2
      <4>2. QED  BY <1>9, <3>1, <3>2, <4>1
    <3>4. \A i \in 1..Len(wire') : i = Len(wire') \/ Len(wire') \in (i + 1)..Len(wire')  BY <3>3
    <3>5. QED  BY <1>2, <3>3, <3>4
  <2>2. CASE kept = << >>
    <3>1. Len(wire') = Len(wire) /\ \A j \in 1..Len(wire) : wire'[j] = wire[j]  BY <1>5, <1>9, <2>2
    <3>2. /\ \A i \in 1..Len(wire) : wire[i].status = "sent" /\ (\A j \in (i + 1)..Len(wire) : wire[j].status # "sent")
                => wire[i].value = field.value
          /\ (\A i \in 1..Len(wire) : wire[i].status # "sent") => db = field.value
      BY <1>1, <1>2, <2>2 DEF FieldLast, Waits
    <3>3. \A i \in 1..Len(wire), j \in Nat : j \in (i + 1)..Len(wire) => j \in 1..Len(wire)  BY <1>9
    <3>4. QED  BY <1>2, <3>1, <3>2, <3>3
  <2>3. QED  BY <2>1, <2>2
<1>13. QED  BY <1>8, <1>11, <1>12 DEF FieldInv

LEMMA FieldStep == ASSUME FieldInv, Field!Next \/ UNCHANGED autosave PROVE FieldInv'
<1>1. FieldTypes  BY DEF FieldInv
<1>2. DOMAIN wire = 1..Len(wire)  BY <1>1, WireIs
<1>3. CASE UNCHANGED autosave  BY <1>3, FieldStays
<1>4. CASE Field!Change \/ Field!Timer \/ Field!Cut \/ Field!Disconnect \/ Field!Back \/ Field!Reconnect
  BY <1>4, FieldChange, FieldTimer, FieldCut, FieldBack, FieldReconnect
<1>5. CASE \E i \in DOMAIN wire : Field!Serve(i) \/ Field!AnswerStored(i) \/ Field!AnswerRefused(i)
  BY <1>2, <1>5, FieldServe, FieldStored, FieldRefused
<1>6. QED  BY <1>3, <1>4, <1>5 DEF Field!Next

-----------------------------------------------------------------------------
(* Cakepops *)

LEMMA CakeInit == ASSUME Cake!Init, PopsAssumption PROVE CakeInv
<1>1. PICK S : S = Pops \ read  OBVIOUS
<1>2. IsFiniteSet(S)
  <2>1. S \in SUBSET Pops  BY <1>1
  <2>2. QED  BY <2>1, FS_Subset DEF PopsAssumption
<1>3. PICK n \in Nat : n = Cardinality(S)  BY <1>2, FS_CardinalityType
<1>4. PICK f : f = Cake!SetToSeq(S)  OBVIOUS
<1>5. f \in [1..n -> S] /\ Cake!IsInjective(f)
  <2>1. ExistsBijection(1..n, S)  BY <1>2, <1>3, FS_CardinalityType
  <2>2. PICK g : g \in Bijection(1..n, S)  BY <2>1 DEF ExistsBijection
  <2>3. g \in [1..n -> S] /\ \A a, b \in 1..n : g[a] = g[b] => a = b
    BY <2>2 DEF Bijection, Injection, IsInjective
  <2>4. g \in [1..n -> S] /\ Cake!IsInjective(g)  BY <2>3 DEF Cake!IsInjective
  <2>5. f = CHOOSE h \in [1..n -> S] : Cake!IsInjective(h)
    <3>1. Cake!Cardinality(S) = n  BY <1>3 DEF Cake!Cardinality, Cardinality
    <3>2. QED  BY <1>4, <3>1 DEF Cake!SetToSeq
  <2>6. QED  BY <2>4, <2>5
<1>6. \A p \in S : \E i \in 1..n : f[i] = p
  <2>1. f \in Injection(1..n, S)  BY <1>5 DEF Injection, IsInjective, Cake!IsInjective
  <2>2. IsFiniteSet(1..n) /\ Cardinality(1..n) = n
    <3>1. 1 \in Int /\ n \in Int  OBVIOUS
    <3>2. IsFiniteSet(1..n) /\ Cardinality(1..n) = IF 1 > n THEN 0 ELSE n - 1 + 1  BY <3>1, FS_Interval
    <3>3. QED  BY <3>2
  <2>3. f \in Surjection(1..n, S)  BY <1>2, <1>3, <2>1, <2>2, FS_Injection
  <2>4. QED  BY <2>3 DEF Surjection
<1>7. DOMAIN f = 1..n /\ (\A i \in 1..n : f[i] \in Pops /\ f[i] \notin read) /\ \A i, j \in 1..n : f[i] = f[j] => i = j
  BY <1>1, <1>5 DEF Cake!IsInjective
<1>8. /\ pops = [i \in 1..n |-> [pop |-> f[i], mendatory |-> f[i] \in mendatory]]
      /\ popAsks = << >> /\ popPast = [loaded |-> S, clicks |-> 0, flips |-> 0, flipped |-> {}, doubled |-> FALSE, failed |-> FALSE]
  BY <1>1, <1>4, <1>7 DEF Cake!Init
<1>9. \A i \in 1..n : pops[i].pop = f[i] /\ pops[i].mendatory = (f[i] \in mendatory) /\ pops[i] \in [pop : Pops, mendatory : BOOLEAN]
  <2> TAKE i \in 1..n
  <2>1. PICK x \in Pops : x = f[i]  BY <1>7
  <2>2. pops[i] = [pop |-> x, mendatory |-> x \in mendatory]  BY <1>8, <2>1
  <2>3. (x \in mendatory) \in BOOLEAN  OBVIOUS
  <2>4. pops[i] \in [pop : Pops, mendatory : BOOLEAN]  BY <2>2, <2>3
  <2>5. pops[i].pop = x /\ pops[i].mendatory = (x \in mendatory)  BY <2>2
  <2>6. QED  BY <2>1, <2>4, <2>5
<1>10. pops \in Seq([pop : Pops, mendatory : BOOLEAN]) /\ Len(pops) = n
  <2>1. pops \in [1..n -> [pop : Pops, mendatory : BOOLEAN]]  BY <1>8, <1>9
  <2>2. QED  BY <2>1, FunctionSeq
<1>11. popAsks \in Seq([pop : Pops, action : {"read", "respond"}, status : Cake!Statuses]) /\ Len(popAsks) = 0  BY <1>8
<1>12. popPast \in [loaded : SUBSET Pops, clicks : Nat, flips : Nat, flipped : SUBSET Pops, doubled : BOOLEAN, failed : BOOLEAN]
  BY <1>1, <1>8
<1>13. CakeTypes
  <2>1. \A i, j \in 1..Len(pops) : pops[i].pop = pops[j].pop => i = j  BY <1>7, <1>9, <1>10
  <2>2. \A i \in 1..Len(pops) : pops[i].mendatory = (pops[i].pop \in mendatory) \/ pops[i].pop \in popPast.flipped  BY <1>9, <1>10
  <2>3. QED  BY <1>10, <1>11, <1>12, <2>1, <2>2 DEF CakeTypes
<1>14. CakeCalm
  <2>1. \A i \in 2..Len(pops) : pops[i].pop \notin read  BY <1>7, <1>9, <1>10
  <2>2. \A p \in popPast.loaded : \E i \in 1..Len(pops) : pops[i].pop = p  BY <1>6, <1>8, <1>9, <1>10
  <2>3. QED  BY <1>11, <2>1, <2>2 DEF CakeCalm
<1>15. QED  BY <1>13, <1>14 DEF CakeInv

LEMMA CakeStays == ASSUME CakeInv, UNCHANGED cakepops PROVE CakeInv'
BY DEF cakepops, CakeInv, CakeTypes, CakeCalm

LEMMA CakeIs == ASSUME CakeTypes
  PROVE  /\ Len(pops) \in Nat /\ (pops = << >> <=> Len(pops) = 0) /\ DOMAIN pops = 1..Len(pops)
         /\ Len(popAsks) \in Nat /\ (popAsks = << >> <=> Len(popAsks) = 0) /\ DOMAIN popAsks = 1..Len(popAsks)
         /\ \A i \in 1..Len(pops) : pops[i] \in [pop : Pops, mendatory : BOOLEAN]
         /\ \A i \in 1..Len(popAsks) : popAsks[i] \in [pop : Pops, action : {"read", "respond"}, status : Cake!Statuses]
         /\ popPast = [loaded |-> popPast.loaded, clicks |-> popPast.clicks, flips |-> popPast.flips, flipped |-> popPast.flipped,
                       doubled |-> popPast.doubled, failed |-> popPast.failed]
         /\ popPast.loaded \in SUBSET Pops /\ popPast.clicks \in Nat /\ popPast.flips \in Nat /\ popPast.flipped \in SUBSET Pops
         /\ popPast.doubled \in BOOLEAN /\ popPast.failed \in BOOLEAN
<1>1. pops \in Seq([pop : Pops, mendatory : BOOLEAN])  BY DEF CakeTypes
<1>2. popAsks \in Seq([pop : Pops, action : {"read", "respond"}, status : Cake!Statuses])  BY DEF CakeTypes
<1>3. popPast \in [loaded : SUBSET Pops, clicks : Nat, flips : Nat, flipped : SUBSET Pops, doubled : BOOLEAN, failed : BOOLEAN]
  BY DEF CakeTypes
<1>4. Len(pops) \in Nat /\ (pops = << >> <=> Len(pops) = 0) /\ DOMAIN pops = 1..Len(pops)  BY <1>1, EmptyIff
<1>5. Len(popAsks) \in Nat /\ (popAsks = << >> <=> Len(popAsks) = 0) /\ DOMAIN popAsks = 1..Len(popAsks)  BY <1>2, EmptyIff
<1>6. \A i \in 1..Len(pops) : pops[i] \in [pop : Pops, mendatory : BOOLEAN]  BY <1>1, LenProperties
<1>7. \A i \in 1..Len(popAsks) : popAsks[i] \in [pop : Pops, action : {"read", "respond"}, status : Cake!Statuses]
  BY <1>2, LenProperties
<1>8. QED  BY <1>3, <1>4, <1>5, <1>6, <1>7

LEMMA CakeGood == ASSUME CakeInv PROVE Cake!GoneIsRead /\ Cake!OneAtATime
<1>1. CakeTypes /\ CakeCalm  BY DEF CakeInv
<1>2. DOMAIN pops = 1..Len(pops)  BY <1>1, CakeIs
<1>3. Cake!OneAtATime  BY <1>1 DEF CakeCalm, Cake!OneAtATime
<1>4. ASSUME ~popPast.doubled, ~popPast.failed, NEW p \in popPast.loaded, p \notin Cake!Left PROVE p \in read \union popPast.flipped
  <2>1. p \in read \union popPast.flipped \/ \E i \in 1..Len(pops) : pops[i].pop = p  BY <1>1, <1>4 DEF CakeCalm
  <2>2. ~\E i \in 1..Len(pops) : pops[i].pop = p  BY <1>2, <1>4 DEF Cake!Left
  <2>3. QED  BY <2>1, <2>2
<1>5. Cake!GoneIsRead  BY <1>4 DEF Cake!GoneIsRead
<1>6. QED  BY <1>3, <1>5

LEMMA CakeFlip == ASSUME CakeInv, Cake!Flip PROVE CakeInv'
<1>1. CakeTypes /\ CakeCalm  BY DEF CakeInv
<1>2. PICK p \in Pops :
        /\ mendatory' = IF p \in mendatory THEN mendatory \ {p} ELSE mendatory \union {p}
        /\ popPast' = [popPast EXCEPT !.flips = @ + 1, !.flipped = @ \union {p}]
        /\ read' = read /\ pops' = pops /\ popAsks' = popAsks
  BY DEF Cake!Flip
<1>3. PICK g, n, s : g = popPast /\ n = popPast.flips + 1 /\ s = popPast.flipped \union {p}  OBVIOUS
<1>4. popPast' = [g EXCEPT !.flips = n, !.flipped = s]  BY <1>2, <1>3
<1>5. g = [loaded |-> g.loaded, clicks |-> g.clicks, flips |-> g.flips, flipped |-> g.flipped, doubled |-> g.doubled,
           failed |-> g.failed]
  BY <1>1, <1>3, CakeIs
<1>6. popPast' = [loaded |-> g.loaded, clicks |-> g.clicks, flips |-> n, flipped |-> s, doubled |-> g.doubled, failed |-> g.failed]
  BY <1>4, <1>5
<1>7. g.loaded \in SUBSET Pops /\ g.clicks \in Nat /\ n \in Nat /\ s \in SUBSET Pops /\ g.doubled \in BOOLEAN /\ g.failed \in BOOLEAN
  BY <1>1, <1>3, CakeIs
<1>8. /\ popPast'.loaded = popPast.loaded /\ popPast'.flipped = popPast.flipped \union {p} /\ popPast'.doubled = popPast.doubled
      /\ popPast'.failed = popPast.failed
      /\ popPast' \in [loaded : SUBSET Pops, clicks : Nat, flips : Nat, flipped : SUBSET Pops, doubled : BOOLEAN, failed : BOOLEAN]
  BY <1>3, <1>6, <1>7
<1>9. \A i \in 1..Len(pops) : pops[i].mendatory = (pops[i].pop \in mendatory') \/ pops[i].pop \in popPast'.flipped
  <2> TAKE i \in 1..Len(pops)
  <2>1. pops[i].mendatory = (pops[i].pop \in mendatory) \/ pops[i].pop \in popPast.flipped  BY <1>1 DEF CakeTypes
  <2>2. CASE pops[i].pop = p  BY <1>8, <2>2
  <2>3. CASE pops[i].pop # p
    <3>1. pops[i].pop \in mendatory' <=> pops[i].pop \in mendatory  BY <1>2, <2>3
    <3>2. (pops[i].pop \in mendatory') = (pops[i].pop \in mendatory)  BY <3>1
    <3>3. QED  BY <1>8, <2>1, <3>2
  <2>4. QED  BY <2>2, <2>3
<1>10. CakeTypes'  BY <1>1, <1>2, <1>8, <1>9 DEF CakeTypes
<1>11. CakeCalm'
  <2>1. \A x : x \in read \union popPast.flipped => x \in read' \union popPast'.flipped  BY <1>2, <1>8
  <2>2. QED  BY <1>1, <1>2, <1>8, <2>1 DEF CakeCalm
<1>12. QED  BY <1>10, <1>11 DEF CakeInv

LEMMA CakeClick == ASSUME CakeInv, Cake!Click PROVE CakeInv'
<1>1. CakeTypes /\ CakeCalm  BY DEF CakeInv
<1>2. PICK a : a = (IF pops[1].mendatory THEN "respond" ELSE "read")  OBVIOUS
<1>3. PICK x : x = [pop |-> pops[1].pop, status |-> "sent", action |-> a]  OBVIOUS
<1>4. PICK d \in BOOLEAN : d = (popPast.doubled \/ popAsks # << >>)  OBVIOUS
<1>5. pops # << >> /\ 1 \in 1..Len(pops) /\ Head(pops) = pops[1]
  <2>1. pops # << >>  BY DEF Cake!Click
  <2>2. Len(pops) \in Nat /\ Len(pops) # 0  BY <1>1, <2>1, CakeIs
  <2>3. pops \in Seq([pop : Pops, mendatory : BOOLEAN])  BY <1>1 DEF CakeTypes
  <2>4. QED  BY <2>1, <2>2, <2>3
<1>6. /\ popAsks' = Append(popAsks, x) /\ popPast' = [popPast EXCEPT !.clicks = @ + 1, !.doubled = d]
      /\ mendatory' = mendatory /\ read' = read /\ pops' = pops
  BY <1>2, <1>3, <1>4, <1>5 DEF Cake!Click
<1>7. x \in [pop : Pops, action : {"read", "respond"}, status : Cake!Statuses] /\ x.pop = pops[1].pop /\ x.status = "sent" /\ x.action = a
  <2>1. pops[1].pop \in Pops  BY <1>1, <1>5, CakeIs
  <2>2. a \in {"read", "respond"}  BY <1>2
  <2>3. QED  BY <1>3, <2>1, <2>2 DEF Cake!Statuses
<1>8. /\ popAsks' \in Seq([pop : Pops, action : {"read", "respond"}, status : Cake!Statuses]) /\ Len(popAsks') = Len(popAsks) + 1
      /\ popAsks'[Len(popAsks) + 1] = x
  <2>1. popAsks \in Seq([pop : Pops, action : {"read", "respond"}, status : Cake!Statuses])  BY <1>1 DEF CakeTypes
  <2>2. QED  BY <1>6, <1>7, <2>1, Lengthened
<1>9. PICK g, n : g = popPast /\ n = popPast.clicks + 1  OBVIOUS
<1>10. popPast' = [g EXCEPT !.clicks = n, !.doubled = d]  BY <1>6, <1>9
<1>11. g = [loaded |-> g.loaded, clicks |-> g.clicks, flips |-> g.flips, flipped |-> g.flipped, doubled |-> g.doubled,
            failed |-> g.failed]
  BY <1>1, <1>9, CakeIs
<1>12. popPast' = [loaded |-> g.loaded, clicks |-> n, flips |-> g.flips, flipped |-> g.flipped, doubled |-> d, failed |-> g.failed]
  BY <1>10, <1>11
<1>13. g.loaded \in SUBSET Pops /\ n \in Nat /\ g.flips \in Nat /\ g.flipped \in SUBSET Pops /\ g.failed \in BOOLEAN
  BY <1>1, <1>9, CakeIs
<1>14. /\ popPast'.loaded = popPast.loaded /\ popPast'.flipped = popPast.flipped /\ popPast'.doubled = d
       /\ popPast'.failed = popPast.failed
       /\ popPast' \in [loaded : SUBSET Pops, clicks : Nat, flips : Nat, flipped : SUBSET Pops, doubled : BOOLEAN, failed : BOOLEAN]
  BY <1>9, <1>12, <1>13
<1>15. CakeTypes'  BY <1>1, <1>6, <1>8, <1>14 DEF CakeTypes
<1>16. CakeCalm'
  <2>1. ASSUME ~d PROVE Len(popAsks') = 1 /\ popAsks'[1] = x
    <3>1. Len(popAsks) = 0  BY <1>1, <1>4, <2>1, CakeIs
    <3>2. QED  BY <1>8, <3>1
  <2>2. ASSUME ~d PROVE \A i \in 1..Len(popAsks') : popAsks'[i] = x
    <3>1. \A i \in 1..1 : i = 1  OBVIOUS
    <3>2. QED  BY <2>1, <2>2, <3>1
  <2>3. ~d => ~popPast.doubled  BY <1>4
  <2>4. x.status # "ok" /\ x.status # "error"  BY <1>7
  <2>5. ~d => /\ Len(popAsks') <= 1
              /\ \A i \in 1..Len(popAsks') :
                    /\ pops # << >> /\ popAsks'[i].pop = pops[1].pop
                    /\ popAsks'[i].action = IF pops[1].mendatory THEN "respond" ELSE "read"
                    /\ popAsks'[i].status # "ok" /\ popAsks'[i].status # "error"
    <3> HAVE ~d
    <3>1. Len(popAsks') = 1  BY <2>1
    <3>2. Len(popAsks') <= 1  BY <3>1
    <3>3. QED  BY <1>2, <1>5, <1>7, <2>2, <2>4, <3>2
  <2>6. QED  BY <1>1, <1>6, <1>14, <2>3, <2>5 DEF CakeCalm
<1>17. QED  BY <1>15, <1>16 DEF CakeInv

LEMMA CakeServe == ASSUME CakeInv, NEW p \in 1..Len(popAsks), Cake!Serve(p) PROVE CakeInv'
<1>1. CakeTypes /\ CakeCalm  BY DEF CakeInv
<1>2. mendatory' = mendatory /\ pops' = pops  BY DEF Cake!Serve
<1>3. PICK s \in {"ok", "error"} :
        /\ popAsks' = [popAsks EXCEPT ![p].status = s]
        /\ s = "ok" => /\ read' = IF (popAsks[p].pop \in mendatory) = (popAsks[p].action = "respond")
                                  THEN read \union {popAsks[p].pop} ELSE read
                       /\ popPast' = popPast
        /\ s = "error" => popPast' = [popPast EXCEPT !.failed = TRUE] /\ read' = read
  BY DEF Cake!Serve
<1>4. Len(popAsks) \in Nat /\ \A i \in 1..Len(popAsks) : popAsks[i] \in [pop : Pops, action : {"read", "respond"}, status : Cake!Statuses]
  BY <1>1, CakeIs
<1>5. /\ popAsks' \in Seq([pop : Pops, action : {"read", "respond"}, status : Cake!Statuses]) /\ Len(popAsks') = Len(popAsks)
      /\ popAsks'[p].pop = popAsks[p].pop /\ popAsks'[p].action = popAsks[p].action /\ popAsks'[p].status = s
      /\ \A j \in 1..Len(popAsks) : j # p => popAsks'[j] = popAsks[j]
  <2>1. PICK e : e = [popAsks[p] EXCEPT !.status = s]  OBVIOUS
  <2>2. /\ e \in [pop : Pops, action : {"read", "respond"}, status : Cake!Statuses] /\ e.pop = popAsks[p].pop
        /\ e.action = popAsks[p].action /\ e.status = s
    BY <1>4, <2>1 DEF Cake!Statuses
  <2>3. popAsks' = [popAsks EXCEPT ![p] = e]  BY <1>3, <2>1
  <2>4. popAsks \in Seq([pop : Pops, action : {"read", "respond"}, status : Cake!Statuses])  BY <1>1 DEF CakeTypes
  <2>5. /\ popAsks' \in Seq([pop : Pops, action : {"read", "respond"}, status : Cake!Statuses]) /\ Len(popAsks') = Len(popAsks)
        /\ \A j \in 1..Len(popAsks) : popAsks'[j] = IF j = p THEN e ELSE popAsks[j]
    BY <2>2, <2>3, <2>4, ExceptSeq
  <2>6. QED  BY <2>2, <2>5
<1>6. /\ popPast'.loaded = popPast.loaded /\ popPast'.flipped = popPast.flipped /\ popPast'.doubled = popPast.doubled
      /\ s = "ok" => popPast'.failed = popPast.failed
      /\ s = "error" => popPast'.failed
      /\ popPast' \in [loaded : SUBSET Pops, clicks : Nat, flips : Nat, flipped : SUBSET Pops, doubled : BOOLEAN, failed : BOOLEAN]
  <2>1. PICK g : g = popPast  OBVIOUS
  <2>2. g \in [loaded : SUBSET Pops, clicks : Nat, flips : Nat, flipped : SUBSET Pops, doubled : BOOLEAN, failed : BOOLEAN]
    BY <1>1, <2>1 DEF CakeTypes
  <2>3. CASE s = "ok"  BY <1>3, <2>1, <2>2, <2>3
  <2>4. CASE s = "error"
    <3>1. popPast' = [g EXCEPT !.failed = TRUE]  BY <1>3, <2>1, <2>4
    <3>2. QED  BY <2>1, <2>2, <2>4, <3>1
  <2>5. QED  BY <2>3, <2>4
<1>7. CakeTypes'  BY <1>1, <1>2, <1>5, <1>6 DEF CakeTypes
<1>8. CakeCalm'
  <2> SUFFICES ASSUME ~popPast.doubled
               PROVE  /\ Len(popAsks') <= 1
                      /\ \A i \in 1..Len(popAsks') :
                            /\ pops' # << >> /\ popAsks'[i].pop = pops'[1].pop
                            /\ popAsks'[i].action = IF pops'[1].mendatory THEN "respond" ELSE "read"
                            /\ popAsks'[i].status = "ok" => popAsks'[i].pop \in read' \union popPast'.flipped
                            /\ popAsks'[i].status = "error" => popPast'.failed
                      /\ \A i \in 2..Len(pops') : pops'[i].pop \notin read'
                      /\ ~popPast'.failed => \A x \in popPast'.loaded : x \in read' \union popPast'.flipped \/ \E i \in 1..Len(pops') : pops'[i].pop = x
    BY <1>6 DEF CakeCalm
  <2>1. /\ Len(popAsks) <= 1
        /\ pops # << >> /\ popAsks[p].pop = pops[1].pop /\ popAsks[p].action = IF pops[1].mendatory THEN "respond" ELSE "read"
        /\ \A i \in 2..Len(pops) : pops[i].pop \notin read
        /\ ~popPast.failed => \A x \in popPast.loaded : x \in read \union popPast.flipped \/ \E i \in 1..Len(pops) : pops[i].pop = x
    BY <1>1 DEF CakeCalm
  <2>2. p = 1 /\ Len(popAsks) = 1
    <3>1. Len(popAsks) \in Nat /\ Len(popAsks) <= 1  BY <1>4, <2>1
    <3>2. QED  BY <3>1
  <2>3. Len(pops) \in Nat /\ 1 \in 1..Len(pops)  BY <1>1, <2>1, CakeIs
  <2>4. read \subseteq read' /\ read' \subseteq read \union {pops[1].pop}  BY <1>3, <2>1
  <2>5. \A i \in 2..Len(pops) : pops[i].pop # pops[1].pop
    <3> TAKE i \in 2..Len(pops)
    <3>1. i \in 1..Len(pops) /\ i # 1  BY <2>3
    <3>2. QED  BY <1>1, <2>3, <3>1 DEF CakeTypes
  <2>6. s = "ok" => popAsks[p].pop \in read' \union popPast.flipped
    <3> HAVE s = "ok"
    <3>1. pops[1].mendatory = (pops[1].pop \in mendatory) \/ pops[1].pop \in popPast.flipped  BY <1>1, <2>3 DEF CakeTypes
    <3>2. CASE pops[1].pop \in popPast.flipped  BY <2>1, <3>2
    <3>3. CASE pops[1].mendatory = (pops[1].pop \in mendatory)
      <4>1. (popAsks[p].action = "respond") <=> (pops[1].pop \in mendatory)
        <5>1. CASE pops[1].pop \in mendatory  BY <2>1, <3>3, <5>1
        <5>2. CASE ~(pops[1].pop \in mendatory)  BY <2>1, <3>3, <5>2
        <5>3. QED  BY <5>1, <5>2
      <4>2. (popAsks[p].pop \in mendatory) = (popAsks[p].action = "respond")  BY <2>1, <4>1
      <4>3. QED  BY <1>3, <4>2
    <3>4. QED  BY <3>1, <3>2, <3>3
  <2>7. \A i \in 1..Len(popAsks') : i = p  BY <1>5, <2>2
  <2>8. popAsks'[p].status = "ok" => s = "ok"  BY <1>5
  <2>9. popAsks'[p].status = "error" => popPast'.failed  BY <1>5, <1>6
  <2>10. ~popPast'.failed => ~popPast.failed  BY <1>6
  <2>11. \A i \in 2..Len(pops') : pops'[i].pop \notin read'  BY <1>2, <2>1, <2>4, <2>5
  <2>12. ~popPast'.failed => \A x \in popPast'.loaded : x \in read' \union popPast'.flipped \/ \E i \in 1..Len(pops') : pops'[i].pop = x
    BY <1>2, <1>6, <2>1, <2>4, <2>10
  <2>13. \A i \in 1..Len(popAsks') :
                            /\ pops' # << >> /\ popAsks'[i].pop = pops'[1].pop
                            /\ popAsks'[i].action = IF pops'[1].mendatory THEN "respond" ELSE "read"
                            /\ popAsks'[i].status = "ok" => popAsks'[i].pop \in read' \union popPast'.flipped
                            /\ popAsks'[i].status = "error" => popPast'.failed
    BY <1>2, <1>5, <1>6, <2>1, <2>6, <2>7, <2>8, <2>9
  <2>14. Len(popAsks') <= 1  BY <1>5, <2>1
  <2>15. QED  BY <2>11, <2>12, <2>13, <2>14
<1>9. QED  BY <1>7, <1>8 DEF CakeInv

LEMMA CakeAnswer == ASSUME CakeInv, NEW p \in 1..Len(popAsks), Cake!Answer(p) PROVE CakeInv'
<1>1. CakeTypes /\ CakeCalm  BY DEF CakeInv
<1>2. /\ popAsks[p].status # "sent" /\ popAsks' = Without(popAsks, p)
      /\ pops' = (IF pops = << >> THEN pops ELSE Tail(pops)) /\ mendatory' = mendatory /\ read' = read /\ popPast' = popPast
  BY DEF Cake!Answer, Cake!RemoveAt, Without
<1>3. /\ popAsks' \in Seq([pop : Pops, action : {"read", "respond"}, status : Cake!Statuses]) /\ Len(popAsks') = Len(popAsks) - 1
  <2>1. popAsks \in Seq([pop : Pops, action : {"read", "respond"}, status : Cake!Statuses])  BY <1>1 DEF CakeTypes
  <2>2. QED  BY <1>2, <2>1, WithoutOne
<1>4. Len(pops) \in Nat /\ (pops = << >> <=> Len(pops) = 0) /\ Len(popAsks) \in Nat
      /\ \A i \in 1..Len(popAsks) : popAsks[i] \in [pop : Pops, action : {"read", "respond"}, status : Cake!Statuses]
  BY <1>1, CakeIs
<1>5. /\ pops' \in Seq([pop : Pops, mendatory : BOOLEAN])
      /\ pops # << >> => Len(pops') = Len(pops) - 1 /\ \A i \in 1..(Len(pops) - 1) : pops'[i] = pops[i + 1]
  <2>1. pops \in Seq([pop : Pops, mendatory : BOOLEAN])  BY <1>1 DEF CakeTypes
  <2>2. CASE pops = << >>  BY <1>2, <2>1, <2>2
  <2>3. CASE pops # << >>
    <3>1. pops' = Tail(pops)  BY <1>2, <2>3
    <3>2. QED  BY <2>1, <2>3, <3>1, HeadTailProperties
  <2>4. QED  BY <2>2, <2>3
<1>6. CakeTypes'
  <2>1. CASE pops = << >>
    <3>1. pops' = pops  BY <1>2, <2>1
    <3>2. QED  BY <1>1, <1>2, <1>3, <3>1 DEF CakeTypes
  <2>2. CASE pops # << >>
    <3>1. \A i \in 1..Len(pops') : i + 1 \in 1..Len(pops) /\ pops'[i] = pops[i + 1]
      <4> TAKE i \in 1..Len(pops')
      <4>1. i \in 1..(Len(pops) - 1) /\ i + 1 \in 1..Len(pops)  BY <1>4, <1>5, <2>2
      <4>2. QED  BY <1>5, <2>2, <4>1
    <3>2. \A i, j \in 1..Len(pops') : pops'[i].pop = pops'[j].pop => i = j
      <4> TAKE i, j \in 1..Len(pops')
      <4>1. HAVE pops'[i].pop = pops'[j].pop
      <4>2. i + 1 = j + 1  BY <1>1, <3>1, <4>1 DEF CakeTypes
      <4>3. QED  BY <4>2
    <3>3. \A i \in 1..Len(pops') : pops'[i].mendatory = (pops'[i].pop \in mendatory') \/ pops'[i].pop \in popPast'.flipped
      BY <1>1, <1>2, <3>1 DEF CakeTypes
    <3>4. QED  BY <1>1, <1>2, <1>3, <1>5, <3>2, <3>3 DEF CakeTypes
  <2>3. QED  BY <2>1, <2>2
<1>7. CakeCalm'
  <2> SUFFICES ASSUME ~popPast.doubled
               PROVE  /\ Len(popAsks') <= 1
                      /\ \A i \in 1..Len(popAsks') :
                            /\ pops' # << >> /\ popAsks'[i].pop = pops'[1].pop
                            /\ popAsks'[i].action = IF pops'[1].mendatory THEN "respond" ELSE "read"
                            /\ popAsks'[i].status = "ok" => popAsks'[i].pop \in read' \union popPast'.flipped
                            /\ popAsks'[i].status = "error" => popPast'.failed
                      /\ \A i \in 2..Len(pops') : pops'[i].pop \notin read'
                      /\ ~popPast'.failed => \A x \in popPast'.loaded : x \in read' \union popPast'.flipped \/ \E i \in 1..Len(pops') : pops'[i].pop = x
    BY <1>2 DEF CakeCalm
  <2>1. /\ Len(popAsks) <= 1
        /\ pops # << >> /\ popAsks[p].pop = pops[1].pop
        /\ popAsks[p].status = "ok" => popAsks[p].pop \in read \union popPast.flipped
        /\ popAsks[p].status = "error" => popPast.failed
        /\ \A i \in 2..Len(pops) : pops[i].pop \notin read
        /\ ~popPast.failed => \A x \in popPast.loaded : x \in read \union popPast.flipped \/ \E i \in 1..Len(pops) : pops[i].pop = x
    BY <1>1 DEF CakeCalm
  <2>2. Len(popAsks') = 0  BY <1>3, <1>4, <2>1
  <2>3. popAsks[p].status \in {"ok", "error"}  BY <1>2, <1>4 DEF Cake!Statuses
  <2>4. \A i \in 2..Len(pops') : pops'[i].pop \notin read'
    <3> TAKE i \in 2..Len(pops')
    <3>1. i \in 1..(Len(pops) - 1) /\ i + 1 \in 2..Len(pops)  BY <1>4, <1>5, <2>1
    <3>2. QED  BY <1>2, <1>5, <2>1, <3>1
  <2>5. ASSUME ~popPast.failed, NEW x \in popPast.loaded, x \notin read \union popPast.flipped PROVE \E i \in 1..Len(pops') : pops'[i].pop = x
    <3>1. PICK i \in 1..Len(pops) : pops[i].pop = x  BY <2>1, <2>5
    <3>2. x # pops[1].pop  BY <2>1, <2>3, <2>5
    <3>3. i # 1  BY <3>1, <3>2
    <3>4. i - 1 \in 1..Len(pops') /\ i - 1 \in 1..(Len(pops) - 1) /\ i - 1 + 1 = i  BY <1>4, <1>5, <2>1, <3>3
    <3>5. pops'[i - 1] = pops[i]  BY <1>5, <2>1, <3>4
    <3>6. QED  BY <3>1, <3>4, <3>5
  <2>6. Len(popAsks') <= 1 /\ \A i \in 1..Len(popAsks') : FALSE  BY <2>2
  <2>7. ~popPast'.failed => \A x \in popPast'.loaded : x \in read' \union popPast'.flipped \/ \E i \in 1..Len(pops') : pops'[i].pop = x
    BY <1>2, <2>5
  <2>8. QED  BY <2>4, <2>6, <2>7
<1>8. QED  BY <1>6, <1>7 DEF CakeInv

LEMMA CakeLose == ASSUME CakeInv, NEW p \in 1..Len(popAsks), Cake!Lose(p) PROVE CakeInv'
<1>1. CakeTypes /\ CakeCalm  BY DEF CakeInv
<1>2. popAsks' = Without(popAsks, p) /\ pops' = pops /\ mendatory' = mendatory /\ read' = read /\ popPast' = popPast
  BY DEF Cake!Lose, Cake!RemoveAt, Without
<1>3. /\ popAsks' \in Seq([pop : Pops, action : {"read", "respond"}, status : Cake!Statuses]) /\ Len(popAsks') = Len(popAsks) - 1
  <2>1. popAsks \in Seq([pop : Pops, action : {"read", "respond"}, status : Cake!Statuses])  BY <1>1 DEF CakeTypes
  <2>2. QED  BY <1>2, <2>1, WithoutOne
<1>4. CakeTypes'  BY <1>1, <1>2, <1>3 DEF CakeTypes
<1>5. Len(popAsks) \in Nat  BY <1>1, CakeIs
<1>6. ~popPast.doubled => Len(popAsks') = 0  BY <1>1, <1>3, <1>5 DEF CakeCalm
<1>7. CakeCalm'  BY <1>1, <1>2, <1>6 DEF CakeCalm
<1>8. QED  BY <1>4, <1>7 DEF CakeInv

LEMMA CakeStep == ASSUME CakeInv, Cake!Next \/ UNCHANGED cakepops PROVE CakeInv'
<1>1. CakeTypes  BY DEF CakeInv
<1>2. DOMAIN popAsks = 1..Len(popAsks)  BY <1>1, CakeIs
<1>3. QED  BY <1>2, CakeStays, CakeFlip, CakeClick, CakeServe, CakeAnswer, CakeLose DEF Cake!Next

-----------------------------------------------------------------------------
(* The picker *)

LEMMA PickIs == ASSUME PickTypes
  PROVE  /\ picker = [phase |-> picker.phase, slides |-> picker.slides, staged |-> picker.staged]
         /\ picker.phase \in Picker!Phases /\ picker.slides \in Seq(Topics \union {Category}) /\ picker.staged \in Topics \union {None}
         /\ Len(picker.slides) \in Nat /\ (picker.slides = << >> <=> Len(picker.slides) = 0)
         /\ DOMAIN picker.slides = 1..Len(picker.slides)
         /\ \A i \in 1..Len(picker.slides) : picker.slides[i] \in Topics \union {Category}
         /\ Len(asks) \in Nat /\ (asks = << >> <=> Len(asks) = 0) /\ DOMAIN asks = 1..Len(asks)
         /\ \A i \in 1..Len(asks) : asks[i] \in Picker!Asks /\ asks[i].topic \in Topics \union {None} /\ asks[i].index \in Nat
         /\ pickerPast = [found |-> pickerPast.found, clicked |-> pickerPast.clicked, sent |-> pickerPast.sent,
                          overlapped |-> pickerPast.overlapped, reordered |-> pickerPast.reordered, lost |-> pickerPast.lost]
         /\ pickerPast.found \in Topics \union {None} /\ pickerPast.clicked \in Topics \union {None} /\ pickerPast.sent \in Nat
         /\ pickerPast.overlapped \in BOOLEAN /\ pickerPast.reordered \in BOOLEAN /\ pickerPast.lost \in BOOLEAN
<1>1. picker \in [phase : Picker!Phases, slides : Seq(Topics \union {Category}), staged : Topics \union {None}]  BY DEF PickTypes
<1>2. asks \in Seq(Picker!Asks)  BY DEF PickTypes
<1>3. pickerPast \in [found : Topics \union {None}, clicked : Topics \union {None}, sent : Nat,
                      overlapped : BOOLEAN, reordered : BOOLEAN, lost : BOOLEAN]
  BY DEF PickTypes
<1>4. picker = [phase |-> picker.phase, slides |-> picker.slides, staged |-> picker.staged] /\ picker.phase \in Picker!Phases
      /\ picker.slides \in Seq(Topics \union {Category}) /\ picker.staged \in Topics \union {None}
  BY <1>1
<1>5. Len(picker.slides) \in Nat /\ (picker.slides = << >> <=> Len(picker.slides) = 0) /\ DOMAIN picker.slides = 1..Len(picker.slides)
  BY <1>4, EmptyIff
<1>6. \A i \in 1..Len(picker.slides) : picker.slides[i] \in Topics \union {Category}  BY <1>4, LenProperties
<1>7. Len(asks) \in Nat /\ (asks = << >> <=> Len(asks) = 0) /\ DOMAIN asks = 1..Len(asks)  BY <1>2, EmptyIff
<1>8. \A i \in 1..Len(asks) : asks[i] \in Picker!Asks  BY <1>2, LenProperties
<1>9. \A i \in 1..Len(asks) : asks[i].topic \in Topics \union {None} /\ asks[i].index \in Nat  BY <1>8 DEF Picker!Asks
<1>10. QED  BY <1>3, <1>4, <1>5, <1>6, <1>7, <1>8, <1>9

LEMMA PickInit == ASSUME Picker!Init PROVE PickInv
<1>1. /\ value \in {None} \union Topics /\ picker = [phase |-> "loading", slides |-> << >>, staged |-> None]
      /\ pickerPast = [found |-> value, clicked |-> value, sent |-> 1, overlapped |-> FALSE, reordered |-> FALSE, lost |-> FALSE]
  BY DEF Picker!Init
<1>2. PICK a : asks = <<a>> /\ a \in Picker!Asks /\ a.kind \in {"categories", "lock"} /\ (a.kind = "lock" => a.topic = value)
  <2>1. CASE value = None
    <3>1. PICK a : a = [kind |-> "categories", topic |-> None, index |-> 0]  OBVIOUS
    <3>2. asks = <<a>>  BY <2>1, <3>1 DEF Picker!Init, Picker!Ask
    <3>3. a \in Picker!Asks /\ a.kind = "categories"  BY <3>1 DEF Picker!Asks
    <3>4. QED  BY <3>2, <3>3
  <2>2. CASE value # None
    <3>1. PICK a : a = [kind |-> "lock", topic |-> value, index |-> 0]  OBVIOUS
    <3>2. asks = <<a>>  BY <2>2, <3>1 DEF Picker!Init, Picker!Ask
    <3>3. a \in Picker!Asks /\ a.kind = "lock" /\ a.topic = value  BY <1>1, <3>1 DEF Picker!Asks
    <3>4. QED  BY <3>2, <3>3
  <2>3. QED  BY <2>1, <2>2
<1>3. asks \in Seq(Picker!Asks) /\ Len(asks) = 1 /\ asks[1] = a  BY <1>2
<1>4. \A i \in 1..Len(asks) : i = 1 /\ asks[i] = a  BY <1>3
<1>5. picker.phase = "loading" /\ picker.slides = << >> /\ picker.staged = None /\ Len(picker.slides) = 0  BY <1>1
<1>6. PickTypes
  <2>1. picker \in [phase : Picker!Phases, slides : Seq(Topics \union {Category}), staged : Topics \union {None}]
    BY <1>1 DEF Picker!Phases
  <2>2. pickerPast \in [found : Topics \union {None}, clicked : Topics \union {None}, sent : Nat,
                        overlapped : BOOLEAN, reordered : BOOLEAN, lost : BOOLEAN]
    BY <1>1
  <2>3. QED  BY <1>1, <1>2, <1>3, <1>4, <2>1, <2>2 DEF PickTypes
<1>7. PickOrdered
  <2>1. \A i \in 1..Len(asks) : asks[i].kind # "childof"  BY <1>2, <1>4
  <2>2. \A i \in 1..Len(asks) : asks[i].kind = "lock" => i = 1 /\ asks[i].topic = value  BY <1>2, <1>4
  <2>3. pickerPast.clicked = value  BY <1>1
  <2>4. QED  BY <1>5, <2>1, <2>2, <2>3 DEF PickOrdered
<1>8. PickPath
  <2>1. Path(picker.slides)  BY <1>5 DEF Path
  <2>2. \A i \in 1..Len(asks) : asks[i].kind # "childof"  BY <1>2, <1>4
  <2>3. QED  BY <1>3, <1>5, <2>1, <2>2 DEF PickPath
<1>9. Picker!LockedIsEnd  BY <1>5 DEF Picker!LockedIsEnd
<1>10. QED  BY <1>6, <1>7, <1>8, <1>9 DEF PickInv

LEMMA PickStays == ASSUME PickInv, UNCHANGED topicpicker PROVE PickInv'
BY DEF topicpicker, PickInv, PickTypes, PickOrdered, PickPath, Path, Picker!LockedIsEnd

LEMMA PickGood == ASSUME PickInv PROVE Picker!StagedIsPicked /\ Picker!SlidesArePath /\ Picker!LockedIsEnd
<1>1. PickTypes /\ PickOrdered /\ PickPath  BY DEF PickInv
<1>2. DOMAIN asks = 1..Len(asks) /\ Len(picker.slides) \in Nat
  BY <1>1, PickIs
<1>3. Picker!StagedIsPicked  BY <1>1, <1>2 DEF PickOrdered, Picker!StagedIsPicked
<1>4. Picker!SlidesArePath
  <2> SUFFICES ASSUME ~pickerPast.overlapped
               PROVE  /\ \A i \in 1..(Len(picker.slides) - 1) : picker.slides[i + 1] \in ChildrenOf[picker.slides[i]]
                      /\ picker.phase = "tree" => picker.slides[1] = Category
                      /\ picker.phase = "tree" /\ picker.staged # None =>
                            picker.staged \in {picker.slides[Len(picker.slides)]} \union ChildrenOf[picker.slides[Len(picker.slides)]]
    BY DEF Picker!SlidesArePath
  <2>1. QED  BY <1>1 DEF PickPath, Path
<1>5. Picker!LockedIsEnd  BY DEF PickInv
<1>6. QED  BY <1>3, <1>4, <1>5

LEMMA PickSent == ASSUME PickInv, NEW a \in Picker!Asks, Picker!Send(a)
  PROVE  /\ asks' \in Seq(Picker!Asks) /\ Len(asks') = Len(asks) + 1 /\ asks'[Len(asks) + 1] = a
         /\ \A i \in 1..Len(asks) : asks'[i] = asks[i]
         /\ pickerPast'.found = pickerPast.found /\ pickerPast'.reordered = pickerPast.reordered /\ pickerPast'.lost = pickerPast.lost
         /\ pickerPast'.clicked = (IF a.kind = "childof" THEN a.topic ELSE pickerPast.clicked)
         /\ ~pickerPast'.overlapped => ~pickerPast.overlapped /\ asks = << >>
         /\ pickerPast' \in [found : Topics \union {None}, clicked : Topics \union {None}, sent : Nat,
                             overlapped : BOOLEAN, reordered : BOOLEAN, lost : BOOLEAN]
<1>1. PickTypes  BY DEF PickInv
<1>2. PICK g, n, c : g = pickerPast /\ n = pickerPast.sent + 1 /\ c = (IF a.kind = "childof" THEN a.topic ELSE pickerPast.clicked)
  OBVIOUS
<1>3. PICK d \in BOOLEAN : d = (pickerPast.overlapped \/ asks # << >>)  OBVIOUS
<1>4. asks' = Append(asks, a) /\ pickerPast' = [g EXCEPT !.sent = n, !.overlapped = d, !.clicked = c]
  BY <1>2, <1>3 DEF Picker!Send
<1>5. g = [found |-> g.found, clicked |-> g.clicked, sent |-> g.sent, overlapped |-> g.overlapped, reordered |-> g.reordered,
           lost |-> g.lost]
  BY <1>1, <1>2, PickIs
<1>6. pickerPast' = [found |-> g.found, clicked |-> c, sent |-> n, overlapped |-> d, reordered |-> g.reordered, lost |-> g.lost]
  BY <1>4, <1>5
<1>7. g.found \in Topics \union {None} /\ g.reordered \in BOOLEAN /\ g.lost \in BOOLEAN /\ n \in Nat /\ c \in Topics \union {None}
  <2>1. a.topic \in Topics \union {None}  BY DEF Picker!Asks
  <2>2. QED  BY <1>1, <1>2, <2>1, PickIs
<1>8. asks \in Seq(Picker!Asks)  BY <1>1 DEF PickTypes
<1>9. /\ asks' \in Seq(Picker!Asks) /\ Len(asks') = Len(asks) + 1 /\ asks'[Len(asks) + 1] = a
      /\ \A i \in 1..Len(asks) : asks'[i] = asks[i]
  BY <1>4, <1>8, Lengthened
<1>10. /\ pickerPast'.found = pickerPast.found /\ pickerPast'.reordered = pickerPast.reordered /\ pickerPast'.lost = pickerPast.lost
       /\ pickerPast'.clicked = c /\ pickerPast'.overlapped = d
  BY <1>2, <1>6
<1>11. pickerPast' \in [found : Topics \union {None}, clicked : Topics \union {None}, sent : Nat,
                        overlapped : BOOLEAN, reordered : BOOLEAN, lost : BOOLEAN]
  BY <1>3, <1>6, <1>7
<1>12. QED  BY <1>2, <1>3, <1>9, <1>10, <1>11

\* what may be sent: no lock, and the topic which is clicked
LEMMA PickSends == ASSUME PickInv, NEW a \in Picker!Asks, Picker!Send(a), a.kind # "lock", a.kind = "childof" => a.topic \in Topics,
                          picker' \in [phase : Picker!Phases, slides : Seq(Topics \union {Category}), staged : Topics \union {None}],
                          picker'.staged \in {picker.staged, None}, value' = value
  PROVE  PickTypes' /\ PickOrdered'
<1>1. PickTypes /\ PickOrdered  BY DEF PickInv
<1>2. PICK n \in Nat : n = Len(asks)  BY <1>1, PickIs
<1>3. /\ asks' \in Seq(Picker!Asks) /\ Len(asks') = n + 1 /\ asks'[n + 1] = a
      /\ \A i \in 1..n : asks'[i] = asks[i]
  BY <1>2, PickSent
<1>4. /\ pickerPast'.found = pickerPast.found /\ pickerPast'.reordered = pickerPast.reordered /\ pickerPast'.lost = pickerPast.lost
      /\ pickerPast'.clicked = (IF a.kind = "childof" THEN a.topic ELSE pickerPast.clicked)
      /\ pickerPast' \in [found : Topics \union {None}, clicked : Topics \union {None}, sent : Nat,
                          overlapped : BOOLEAN, reordered : BOOLEAN, lost : BOOLEAN]
  BY PickSent
<1>5. PickTypes'
  <2>1. \A i \in 1..Len(asks') : /\ asks'[i].kind = "lock" => asks'[i].topic = pickerPast'.found
                                 /\ asks'[i].kind = "childof" => asks'[i].topic \in Topics
    <3> TAKE i \in 1..Len(asks')
    <3>1. CASE i = n + 1  BY <1>3, <3>1
    <3>2. CASE i \in 1..n
      <4>1. asks'[i] = asks[i]  BY <1>3, <3>2
      <4>2. QED  BY <1>1, <1>2, <1>4, <3>2, <4>1 DEF PickTypes
    <3>3. QED  BY <1>3, <3>1, <3>2
  <2>2. value' \in Topics \union {None}  BY <1>1 DEF PickTypes
  <2>3. QED  BY <1>3, <1>4, <2>1, <2>2 DEF PickTypes
<1>6. PickOrdered'
  <2> SUFFICES ASSUME ~pickerPast.reordered
               PROVE  /\ picker'.staged # None => picker'.staged = value'
                      /\ \A i \in 1..Len(asks') : asks'[i].kind = "lock" => i = 1 /\ asks'[i].topic = value'
                      /\ ~pickerPast'.lost =>
                          \/ value' = pickerPast'.clicked /\ \A i \in 1..Len(asks') : asks'[i].kind # "childof"
                          \/ \E i \in 1..Len(asks') : /\ asks'[i].kind = "childof" /\ asks'[i].topic = pickerPast'.clicked
                                                      /\ \A j \in (i + 1)..Len(asks') : asks'[j].kind # "childof"
    BY <1>4 DEF PickOrdered
  <2>1. picker'.staged # None => picker'.staged = value'  BY <1>1 DEF PickOrdered
  <2>2. \A i \in 1..Len(asks') : asks'[i].kind = "lock" => i = 1 /\ asks'[i].topic = value'
    <3> TAKE i \in 1..Len(asks')
    <3>1. CASE i = n + 1  BY <1>3, <3>1
    <3>2. CASE i \in 1..n
      <4>1. asks'[i] = asks[i]  BY <1>3, <3>2
      <4>2. QED  BY <1>1, <1>2, <3>2, <4>1 DEF PickOrdered
    <3>3. QED  BY <1>3, <3>1, <3>2
  <2>3. ASSUME ~pickerPast'.lost
        PROVE  \/ value' = pickerPast'.clicked /\ \A i \in 1..Len(asks') : asks'[i].kind # "childof"
               \/ \E i \in 1..Len(asks') : /\ asks'[i].kind = "childof" /\ asks'[i].topic = pickerPast'.clicked
                                           /\ \A j \in (i + 1)..Len(asks') : asks'[j].kind # "childof"
    <3>1. CASE a.kind = "childof"
      <4>1. n + 1 \in 1..Len(asks') /\ asks'[n + 1].topic = pickerPast'.clicked  BY <1>3, <1>4, <3>1
      <4>2. \A j \in (n + 1 + 1)..Len(asks') : FALSE  BY <1>3
      <4>3. QED  BY <1>3, <3>1, <4>1, <4>2
    <3>2. CASE a.kind # "childof"
      <4>1. pickerPast'.clicked = pickerPast.clicked /\ ~pickerPast.lost  BY <1>4, <2>3, <3>2
      <4>2. CASE value = pickerPast.clicked /\ \A i \in 1..n : asks[i].kind # "childof"
        <5>1. \A i \in 1..Len(asks') : asks'[i].kind # "childof"
          <6> TAKE i \in 1..Len(asks')
          <6>1. i = n + 1 \/ i \in 1..n  BY <1>3
          <6>2. QED  BY <1>3, <3>2, <4>2, <6>1
        <5>2. QED  BY <4>1, <4>2, <5>1
      <4>3. CASE \E i \in 1..n : /\ asks[i].kind = "childof" /\ asks[i].topic = pickerPast.clicked
                                 /\ \A j \in (i + 1)..n : asks[j].kind # "childof"
        <5>1. PICK i \in 1..n : /\ asks[i].kind = "childof" /\ asks[i].topic = pickerPast.clicked
                                /\ \A j \in (i + 1)..n : asks[j].kind # "childof"
          BY <4>3
        <5>2. \A j \in (i + 1)..Len(asks') : asks'[j].kind # "childof"
          <6> TAKE j \in (i + 1)..Len(asks')
          <6>1. j = n + 1 \/ (j \in (i + 1)..n /\ j \in 1..n)  BY <1>3
          <6>2. QED  BY <1>3, <3>2, <5>1, <6>1
        <5>3. i \in 1..Len(asks') /\ asks'[i] = asks[i]  BY <1>3
        <5>4. QED  BY <4>1, <5>1, <5>2, <5>3
      <4>4. QED  BY <1>1, <1>2, <4>1, <4>2, <4>3 DEF PickOrdered
    <3>3. QED  BY <3>1, <3>2
  <2>4. QED  BY <2>1, <2>2, <2>3
<1>7. QED  BY <1>5, <1>6

LEMMA PickCategory == ASSUME PickInv, TopicsAssumption, Picker!ChooseCategory \/ Picker!Click \/ Picker!Reset PROVE PickInv'
<1>1. PickTypes /\ PickOrdered /\ PickPath /\ Picker!LockedIsEnd  BY DEF PickInv
<1>2. PICK a \in Picker!Asks :
        /\ Picker!Send(a) /\ value' = value /\ a.kind # "lock" /\ (a.kind = "childof" => a.topic \in Topics)
        /\ \/ picker' = picker /\ picker.phase = "category" /\ a.kind = "ofcategory"
           \/ /\ picker' = picker /\ picker.phase = "tree" /\ a.kind = "childof"
              /\ a.index \in 1..Len(picker.slides) /\ a.topic \in ChildrenOf[picker.slides[a.index]]
           \/ picker' = [phase |-> "loading", slides |-> << >>, staged |-> None] /\ a.kind = "categories"
  <2>1. CASE Picker!ChooseCategory
    <3>1. PICK a : a = [kind |-> "ofcategory", topic |-> None, index |-> 0]  OBVIOUS
    <3>2. Picker!Send(a) /\ value' = value /\ picker' = picker /\ picker.phase = "category"
      BY <2>1, <3>1 DEF Picker!ChooseCategory, Picker!Ask
    <3>3. a \in Picker!Asks /\ a.kind = "ofcategory"  BY <3>1 DEF Picker!Asks
    <3>4. QED  BY <3>2, <3>3
  <2>2. CASE Picker!Click
    <3>1. PICK i \in DOMAIN picker.slides : \E t \in ChildrenOf[picker.slides[i]] : Picker!Send(Picker!Ask("childof", t, i))
      BY <2>2 DEF Picker!Click
    <3>2. PICK t \in ChildrenOf[picker.slides[i]] : Picker!Send(Picker!Ask("childof", t, i))  BY <3>1
    <3>3. PICK a : a = [kind |-> "childof", topic |-> t, index |-> i]  OBVIOUS
    <3>4. Picker!Send(a) /\ value' = value /\ picker' = picker /\ picker.phase = "tree"
      BY <2>2, <3>2, <3>3 DEF Picker!Click, Picker!Ask
    <3>5. i \in 1..Len(picker.slides) /\ i \in Nat /\ picker.slides[i] \in Topics \union {Category}  BY <1>1, <3>1, PickIs
    <3>6. t \in Topics  BY <3>2, <3>5 DEF TopicsAssumption
    <3>7. a \in Picker!Asks /\ a.kind = "childof" /\ a.topic = t /\ a.index = i  BY <3>3, <3>5, <3>6 DEF Picker!Asks
    <3>8. QED  BY <3>2, <3>4, <3>5, <3>6, <3>7
  <2>3. CASE Picker!Reset
    <3>1. PICK a : a = [kind |-> "categories", topic |-> None, index |-> 0]  OBVIOUS
    <3>2. Picker!Send(a) /\ value' = value /\ picker' = [phase |-> "loading", slides |-> << >>, staged |-> None]
      BY <2>3, <3>1 DEF Picker!Reset, Picker!Ask
    <3>3. a \in Picker!Asks /\ a.kind = "categories"  BY <3>1 DEF Picker!Asks
    <3>4. QED  BY <3>2, <3>3
  <2>4. QED  BY <2>1, <2>2, <2>3
<1>3. /\ picker' \in [phase : Picker!Phases, slides : Seq(Topics \union {Category}), staged : Topics \union {None}]
      /\ picker'.staged \in {picker.staged, None}
  <2>1. CASE picker' = picker  BY <1>1, <2>1 DEF PickTypes
  <2>2. CASE picker' = [phase |-> "loading", slides |-> << >>, staged |-> None]  BY <2>2 DEF Picker!Phases
  <2>3. QED  BY <1>2, <2>1, <2>2
<1>4. PickTypes' /\ PickOrdered'  BY <1>2, <1>3, PickSends
<1>5. PICK n \in Nat : n = Len(asks)  BY <1>1, PickIs
<1>6. /\ Len(asks') = n + 1 /\ asks'[n + 1] = a /\ pickerPast'.found = pickerPast.found
      /\ ~pickerPast'.overlapped => ~pickerPast.overlapped /\ asks = << >>
  BY <1>2, <1>5, PickSent
<1>7. ASSUME ~pickerPast'.overlapped PROVE ~pickerPast.overlapped /\ Len(asks') = 1 /\ \A i \in 1..Len(asks') : asks'[i] = a
  <2>1. asks = << >> /\ ~pickerPast.overlapped  BY <1>6, <1>7
  <2>2. n = 0  BY <1>1, <1>5, <2>1, PickIs
  <2>3. Len(asks') = 1 /\ asks'[1] = a  BY <1>6, <2>2
  <2>4. \A i \in 1..1 : i = 1  OBVIOUS
  <2>5. QED  BY <2>1, <2>3, <2>4
<1>8. PickPath'
  <2>1. CASE picker' = [phase |-> "loading", slides |-> << >>, staged |-> None] /\ a.kind = "categories"
    <3>1. picker'.phase = "loading" /\ picker'.slides = << >> /\ picker'.staged = None /\ Len(picker'.slides) = 0  BY <2>1
    <3>2. QED  BY <1>7, <2>1, <3>1 DEF PickPath, Path
  <2>2. CASE picker' = picker /\ picker.phase = "category" /\ a.kind = "ofcategory"
    BY <1>1, <1>7, <2>2 DEF PickPath, Path
  <2>3. CASE /\ picker' = picker /\ picker.phase = "tree" /\ a.kind = "childof"
             /\ a.index \in 1..Len(picker.slides) /\ a.topic \in ChildrenOf[picker.slides[a.index]]
    BY <1>1, <1>7, <2>3 DEF PickPath, Path
  <2>4. QED  BY <1>2, <2>1, <2>2, <2>3
<1>9. Picker!LockedIsEnd'
  <2>1. picker'.phase # "lock"
    <3>1. CASE picker' = [phase |-> "loading", slides |-> << >>, staged |-> None]  BY <3>1
    <3>2. CASE picker' # [phase |-> "loading", slides |-> << >>, staged |-> None]  BY <1>2, <3>2
    <3>3. QED  BY <3>1, <3>2
  <2>2. QED  BY <2>1 DEF Picker!LockedIsEnd
<1>10. QED  BY <1>4, <1>8, <1>9 DEF PickInv

LEMMA PickLocks == ASSUME PickInv, Picker!Lockin PROVE PickInv'
<1>1. PickTypes /\ PickOrdered /\ PickPath  BY DEF PickInv
<1>2. /\ picker.staged # None /\ picker.staged \notin Directories /\ picker' = [picker EXCEPT !.phase = "lock"]
      /\ value' = value /\ asks' = asks /\ pickerPast' = pickerPast
  BY DEF Picker!Lockin
<1>3. picker'.phase = "lock" /\ picker'.slides = picker.slides /\ picker'.staged = picker.staged
      /\ picker' \in [phase : Picker!Phases, slides : Seq(Topics \union {Category}), staged : Topics \union {None}]
  <2>1. PICK f : f = picker  OBVIOUS
  <2>2. f = [phase |-> f.phase, slides |-> f.slides, staged |-> f.staged]  BY <1>1, <2>1, PickIs
  <2>3. picker' = [phase |-> "lock", slides |-> f.slides, staged |-> f.staged]  BY <1>2, <2>1, <2>2
  <2>4. f.slides \in Seq(Topics \union {Category}) /\ f.staged \in Topics \union {None}  BY <1>1, <2>1, PickIs
  <2>5. QED  BY <2>1, <2>3, <2>4 DEF Picker!Phases
<1>4. PickTypes'  BY <1>1, <1>2, <1>3 DEF PickTypes
<1>5. PickOrdered'  BY <1>1, <1>2, <1>3 DEF PickOrdered
<1>6. PickPath'  BY <1>1, <1>2, <1>3 DEF PickPath, Path
<1>7. Picker!LockedIsEnd'
  <2>1. picker.staged \in Topics  BY <1>1, <1>2, PickIs
  <2>2. picker'.staged \in Topics \ Directories  BY <1>2, <1>3, <2>1
  <2>3. QED  BY <2>2 DEF Picker!LockedIsEnd
<1>8. QED  BY <1>4, <1>5, <1>6, <1>7 DEF PickInv

\* the requests which are left when one is answered or lost
LEMMA PickLeft == ASSUME PickTypes, NEW p \in 1..Len(asks), asks' = Without(asks, p)
  PROVE  /\ asks' \in Seq(Picker!Asks) /\ Len(asks') = Len(asks) - 1
         /\ \A j \in 1..Len(asks') : /\ asks'[j] = (IF j < p THEN asks[j] ELSE asks[j + 1])
                                     /\ j \in 1..Len(asks) /\ j + 1 \in 1..Len(asks)
         /\ \A j \in 1..Len(asks') : \E i \in 1..Len(asks) : i # p /\ asks'[j] = asks[i]
<1>1. asks \in Seq(Picker!Asks) /\ Len(asks) \in Nat  BY PickIs DEF PickTypes
<1>2. /\ asks' \in Seq(Picker!Asks) /\ Len(asks') = Len(asks) - 1
      /\ \A j \in 1..(Len(asks) - 1) : asks'[j] = IF j < p THEN asks[j] ELSE asks[j + 1]
  BY <1>1, WithoutOne
<1>3. \A j \in 1..Len(asks') : /\ asks'[j] = (IF j < p THEN asks[j] ELSE asks[j + 1])
                               /\ j \in 1..Len(asks) /\ j + 1 \in 1..Len(asks)
  BY <1>1, <1>2
<1>4. \A j \in 1..Len(asks') : \E i \in 1..Len(asks) : i # p /\ asks'[j] = asks[i]
  <2> TAKE j \in 1..Len(asks')
  <2>1. CASE j < p
    <3>1. j \in 1..Len(asks) /\ j # p /\ asks'[j] = asks[j]  BY <1>1, <1>3, <2>1
    <3>2. QED  BY <3>1
  <2>2. CASE ~(j < p)
    <3>1. j + 1 \in 1..Len(asks) /\ j + 1 # p /\ asks'[j] = asks[j + 1]  BY <1>1, <1>3, <2>2
    <3>2. QED  BY <3>1
  <2>3. QED  BY <2>1, <2>2
<1>5. QED  BY <1>2, <1>3, <1>4

LEMMA PickLeftTyped == ASSUME PickTypes, NEW p \in 1..Len(asks), asks' = Without(asks, p), pickerPast'.found = pickerPast.found
  PROVE  \A i \in 1..Len(asks') : /\ asks'[i].kind = "lock" => asks'[i].topic = pickerPast'.found
                                  /\ asks'[i].kind = "childof" => asks'[i].topic \in Topics
<1> TAKE i \in 1..Len(asks')
<1>1. PICK j \in 1..Len(asks) : asks'[i] = asks[j]  BY PickLeft
<1>2. QED  BY <1>1 DEF PickTypes

LEMMA PickLoses == ASSUME PickInv, Picker!Lose PROVE PickInv'
<1>1. PickTypes /\ PickOrdered /\ PickPath  BY DEF PickInv
<1>2. PICK p \in 1..Len(asks) :
        /\ asks' = Without(asks, p) /\ pickerPast' = [pickerPast EXCEPT !.lost = TRUE] /\ picker' = picker /\ value' = value
  BY <1>1, PickIs DEF Picker!Lose, Picker!Without, Without
<1>3. /\ pickerPast'.found = pickerPast.found /\ pickerPast'.overlapped = pickerPast.overlapped
      /\ pickerPast'.reordered = pickerPast.reordered /\ pickerPast'.lost
      /\ pickerPast' \in [found : Topics \union {None}, clicked : Topics \union {None}, sent : Nat,
                          overlapped : BOOLEAN, reordered : BOOLEAN, lost : BOOLEAN]
  BY <1>1, <1>2 DEF PickTypes
<1>4. asks' \in Seq(Picker!Asks) /\ Len(asks') = Len(asks) - 1 /\ Len(asks) \in Nat  BY <1>1, <1>2, PickLeft, PickIs
<1>5. PickTypes'
  <2>1. \A i \in 1..Len(asks') : /\ asks'[i].kind = "lock" => asks'[i].topic = pickerPast'.found
                                 /\ asks'[i].kind = "childof" => asks'[i].topic \in Topics
    BY <1>1, <1>2, <1>3, PickLeftTyped
  <2>2. QED  BY <1>1, <1>2, <1>3, <1>4, <2>1 DEF PickTypes
<1>6. PickOrdered'
  <2> SUFFICES ASSUME ~pickerPast.reordered
               PROVE  /\ picker'.staged # None => picker'.staged = value'
                      /\ \A i \in 1..Len(asks') : asks'[i].kind = "lock" => i = 1 /\ asks'[i].topic = value'
    BY <1>3 DEF PickOrdered
  <2>1. \A i \in 1..Len(asks) : asks[i].kind = "lock" => i = 1 /\ asks[i].topic = value  BY <1>1 DEF PickOrdered
  <2>2. \A i \in 1..Len(asks') : asks'[i].kind = "lock" => i = 1 /\ asks'[i].topic = value'
    <3> TAKE i \in 1..Len(asks')
    <3>1. HAVE asks'[i].kind = "lock"
    <3>2. asks'[i] = (IF i < p THEN asks[i] ELSE asks[i + 1]) /\ i \in 1..Len(asks) /\ i + 1 \in 1..Len(asks)
      BY <1>1, <1>2, PickLeft
    <3>3. CASE i < p
      <4>1. asks'[i] = asks[i]  BY <3>2, <3>3
      <4>2. QED  BY <1>2, <2>1, <3>1, <3>2, <4>1
    <3>4. CASE ~(i < p)
      <4>1. asks'[i] = asks[i + 1]  BY <3>2, <3>4
      <4>2. i + 1 = 1  BY <2>1, <3>1, <3>2, <4>1
      <4>3. QED  BY <4>2
    <3>5. QED  BY <3>3, <3>4
  <2>3. QED  BY <1>1, <1>2, <2>2 DEF PickOrdered
<1>7. PickPath'
  <2>1. ASSUME ~pickerPast.overlapped PROVE Len(asks') = 0
    <3>1. Len(asks) <= 1  BY <1>1, <2>1 DEF PickPath
    <3>2. QED  BY <1>4, <3>1
  <2>2. ~pickerPast.overlapped => Len(asks') <= 1 /\ \A i \in 1..Len(asks') : FALSE  BY <2>1
  <2>3. QED  BY <1>1, <1>2, <1>3, <2>2 DEF PickPath, Path
<1>8. Picker!LockedIsEnd'  BY <1>2, <1>3 DEF PickInv, Picker!LockedIsEnd
<1>9. QED  BY <1>5, <1>6, <1>7, <1>8 DEF PickInv

\* the slides after a topic was clicked, while nothing else is on its way
LEMMA UnderIs == ASSUME PickTypes, TopicsAssumption, NEW a \in Picker!Asks, a.topic \in Topics
  PROVE  /\ Picker!Under(a) \in Seq(Topics \union {Category})
         /\ Path(picker.slides) /\ a.index \in 1..Len(picker.slides) /\ a.topic \in ChildrenOf[picker.slides[a.index]] =>
              /\ Path(Picker!Under(a)) /\ Picker!Under(a) # << >> /\ Picker!Under(a)[1] = picker.slides[1]
              /\ \/ a.topic = Picker!Under(a)[Len(Picker!Under(a))]
                 \/ a.topic \in ChildrenOf[Picker!Under(a)[Len(Picker!Under(a))]]
<1>1. PICK s, t, S : s = picker.slides /\ t = a.topic /\ S = Topics \union {Category}  OBVIOUS
<1>2. s \in Seq(S) /\ Len(s) \in Nat /\ a.index \in Nat /\ t \in S /\ (\A i \in 1..Len(s) : s[i] \in S)
  <2>1. a.index \in Nat  BY DEF Picker!Asks
  <2>2. QED  BY <1>1, <2>1, PickIs
<1>3. PICK n \in Nat : n = (IF a.index < Len(s) THEN a.index ELSE Len(s))  BY <1>2
<1>4. n <= Len(s) /\ (a.index \in 1..Len(s) => n = a.index)  BY <1>2, <1>3
<1>5. PICK k : k = SubSeq(s, 1, n)  OBVIOUS
<1>6. k \in Seq(S) /\ Len(k) = n /\ \A i \in 1..n : k[i] = s[i]
  <2>1. \A i \in 1..n : s[i] \in S  BY <1>2, <1>4
  <2>2. 1 \in Int /\ n \in Int  OBVIOUS
  <2>3. /\ SubSeq(s, 1, n) \in Seq(S)
        /\ Len(SubSeq(s, 1, n)) = IF 1 <= n THEN n - 1 + 1 ELSE 0
        /\ \A j \in 1..(n - 1 + 1) : SubSeq(s, 1, n)[j] = s[1 + j - 1]
    BY <2>1, <2>2, SubSeqProperties
  <2>4. QED  BY <1>5, <2>3
<1>7. PICK u : u = Picker!Under(a)  OBVIOUS
<1>8. u = IF ChildrenOf[t] = {} THEN k ELSE Append(k, t)  BY <1>1, <1>3, <1>5, <1>7 DEF Picker!Under
<1>9. CASE ChildrenOf[t] = {}
  <2>1. u = k  BY <1>8, <1>9
  <2>2. ASSUME Path(s), a.index \in 1..Len(s), t \in ChildrenOf[s[a.index]]
        PROVE  Path(u) /\ u # << >> /\ u[1] = s[1] /\ t \in ChildrenOf[u[Len(u)]]
    <3>1. n = a.index /\ n \in 1..Len(s) /\ Len(u) = n  BY <1>4, <1>6, <2>1, <2>2
    <3>2. \A i \in 1..(n - 1) : i \in 1..n /\ i + 1 \in 1..n /\ i \in 1..(Len(s) - 1)  BY <1>2, <3>1
    <3>3. \A i \in 1..(n - 1) : u[i + 1] \in ChildrenOf[u[i]]  BY <1>6, <2>1, <2>2, <3>2 DEF Path
    <3>4. u # << >>  BY <1>6, <2>1, <3>1, EmptyIff
    <3>5. 1 \in 1..n /\ n \in 1..n  BY <3>1
    <3>6. u[1] = s[1] /\ u[Len(u)] = s[a.index]  BY <1>6, <2>1, <3>1, <3>5
    <3>7. QED  BY <2>2, <3>1, <3>3, <3>4, <3>6 DEF Path
  <2>3. QED  BY <1>1, <1>6, <1>7, <2>1, <2>2
<1>10. CASE ChildrenOf[t] # {}
  <2>1. u = Append(k, t)  BY <1>8, <1>10
  <2>2. u \in Seq(S) /\ Len(u) = n + 1 /\ u[n + 1] = t /\ u # << >> /\ \A i \in 1..n : u[i] = s[i]
    BY <1>2, <1>6, <2>1, Lengthened
  <2>3. ASSUME Path(s), a.index \in 1..Len(s), t \in ChildrenOf[s[a.index]]
        PROVE  Path(u) /\ u[1] = s[1] /\ t = u[Len(u)]
    <3>1. n = a.index /\ n \in 1..Len(s)  BY <1>4, <2>3
    <3>2. \A i \in 1..n : u[i + 1] \in ChildrenOf[u[i]]
      <4> TAKE i \in 1..n
      <4>1. CASE i = n  BY <2>2, <2>3, <3>1, <4>1
      <4>2. CASE i # n
        <5>1. i + 1 \in 1..n /\ i \in 1..(Len(s) - 1)  BY <1>2, <3>1, <4>2
        <5>2. s[i + 1] \in ChildrenOf[s[i]]  BY <2>3, <5>1 DEF Path
        <5>3. QED  BY <2>2, <5>1, <5>2
      <4>3. QED  BY <4>1, <4>2
    <3>3. Len(u) - 1 = n /\ 1 \in 1..n  BY <2>2, <3>1
    <3>4. QED  BY <2>2, <3>2, <3>3 DEF Path
  <2>4. QED  BY <1>1, <1>7, <2>2, <2>3
<1>11. QED  BY <1>9, <1>10

LEMMA PickAnswers == ASSUME PickInv, TopicsAssumption, Picker!Answer PROVE PickInv'
<1>1. PickTypes /\ PickOrdered /\ PickPath  BY DEF PickInv
<1>2. PICK p \in 1..Len(asks) :
        /\ picker' = Picker!Answered(asks[p]) /\ value' = IF asks[p].kind = "childof" THEN asks[p].topic ELSE value
        /\ asks' = Without(asks, p) /\ pickerPast' = [pickerPast EXCEPT !.reordered = @ \/ p # 1]
  BY <1>1, PickIs DEF Picker!Answer, Picker!Without, Without
<1>3. PICK d \in BOOLEAN : d = (pickerPast.reordered \/ p # 1)  OBVIOUS
<1>4. /\ pickerPast'.found = pickerPast.found /\ pickerPast'.overlapped = pickerPast.overlapped
      /\ pickerPast'.reordered = d /\ pickerPast'.lost = pickerPast.lost /\ pickerPast'.clicked = pickerPast.clicked
      /\ pickerPast' \in [found : Topics \union {None}, clicked : Topics \union {None}, sent : Nat,
                          overlapped : BOOLEAN, reordered : BOOLEAN, lost : BOOLEAN]
  <2>1. pickerPast' = [pickerPast EXCEPT !.reordered = d]  BY <1>2, <1>3
  <2>2. QED  BY <1>1, <2>1 DEF PickTypes
<1>5. asks' \in Seq(Picker!Asks) /\ Len(asks') = Len(asks) - 1 /\ Len(asks) \in Nat
      /\ \A j \in 1..Len(asks') : /\ asks'[j] = (IF j < p THEN asks[j] ELSE asks[j + 1])
                                  /\ j \in 1..Len(asks) /\ j + 1 \in 1..Len(asks)
  BY <1>1, <1>2, PickLeft, PickIs
<1>6. PICK a \in Picker!Asks : a = asks[p]  BY <1>1, PickIs
<1>7. /\ a.kind \in {"categories", "lock", "ofcategory", "childof"} /\ a.topic \in Topics \union {None}
      /\ a.kind = "lock" => a.topic = pickerPast.found
      /\ a.kind = "childof" => a.topic \in Topics
  BY <1>1, <1>6 DEF PickTypes, Picker!Asks
<1>8. PICK f : f = picker  OBVIOUS
<1>9. f = [phase |-> f.phase, slides |-> f.slides, staged |-> f.staged] /\ f.slides \in Seq(Topics \union {Category})
      /\ f.staged \in Topics \union {None}
  BY <1>1, <1>8, PickIs
<1>10. /\ a.kind = "categories" => picker' = [phase |-> "category", slides |-> f.slides, staged |-> f.staged]
       /\ a.kind = "lock" => picker' = [phase |-> "lock", slides |-> f.slides, staged |-> a.topic]
       /\ a.kind = "ofcategory" => picker' = [phase |-> "tree", slides |-> <<Category>>, staged |-> f.staged]
       /\ a.kind = "childof" => picker' = [phase |-> "tree", slides |-> Picker!Under(a), staged |-> a.topic]
  <2>1. picker' = Picker!Answered(a)  BY <1>2, <1>6
  <2>2. a.kind = "categories" => picker' = [f EXCEPT !.phase = "category"]  BY <1>8, <2>1 DEF Picker!Answered
  <2>3. a.kind = "lock" => picker' = [f EXCEPT !.phase = "lock", !.staged = a.topic]  BY <1>8, <2>1 DEF Picker!Answered
  <2>4. a.kind = "ofcategory" => picker' = [f EXCEPT !.phase = "tree", !.slides = <<Category>>]  BY <1>8, <2>1 DEF Picker!Answered
  <2>5. a.kind = "childof" => picker' = [phase |-> "tree", slides |-> Picker!Under(a), staged |-> a.topic]
    BY <2>1 DEF Picker!Answered
  <2>6. QED  BY <1>9, <2>2, <2>3, <2>4, <2>5
<1>11. /\ a.kind = "categories" => picker'.phase = "category" /\ picker'.slides = picker.slides /\ picker'.staged = picker.staged
       /\ a.kind = "lock" => picker'.phase = "lock" /\ picker'.slides = picker.slides /\ picker'.staged = a.topic
       /\ a.kind = "ofcategory" => picker'.phase = "tree" /\ picker'.slides = <<Category>> /\ picker'.staged = picker.staged
       /\ a.kind = "childof" => picker'.phase = "tree" /\ picker'.slides = Picker!Under(a) /\ picker'.staged = a.topic
  BY <1>8, <1>10
<1>12. picker' \in [phase : Picker!Phases, slides : Seq(Topics \union {Category}), staged : Topics \union {None}]
  <2>1. a.kind = "childof" => Picker!Under(a) \in Seq(Topics \union {Category})  BY <1>1, <1>7, UnderIs
  <2>2. <<Category>> \in Seq(Topics \union {Category})  OBVIOUS
  <2>3. CASE a.kind = "categories"  BY <1>9, <1>10, <2>3 DEF Picker!Phases
  <2>4. CASE a.kind = "lock"  BY <1>7, <1>9, <1>10, <2>4 DEF Picker!Phases
  <2>5. CASE a.kind = "ofcategory"
    <3>1. PICK s : s = <<Category>>  OBVIOUS
    <3>2. picker' = [phase |-> "tree", slides |-> s, staged |-> f.staged]  BY <1>10, <2>5, <3>1
    <3>3. s \in Seq(Topics \union {Category})  BY <2>2, <3>1
    <3>4. QED  BY <1>9, <3>2, <3>3 DEF Picker!Phases
  <2>6. CASE a.kind = "childof"  BY <1>7, <1>10, <2>1, <2>6 DEF Picker!Phases
  <2>7. QED  BY <1>7, <2>3, <2>4, <2>5, <2>6
<1>13. value' \in Topics \union {None}  BY <1>1, <1>2, <1>6, <1>7 DEF PickTypes
<1>14. PickTypes'
  <2>1. \A i \in 1..Len(asks') : /\ asks'[i].kind = "lock" => asks'[i].topic = pickerPast'.found
                                 /\ asks'[i].kind = "childof" => asks'[i].topic \in Topics
    BY <1>1, <1>2, <1>4, PickLeftTyped
  <2>2. QED  BY <1>4, <1>5, <1>12, <1>13, <2>1 DEF PickTypes
<1>15. PickOrdered'
  <2> SUFFICES ASSUME ~d
               PROVE  /\ picker'.staged # None => picker'.staged = value'
                      /\ \A i \in 1..Len(asks') : asks'[i].kind = "lock" => i = 1 /\ asks'[i].topic = value'
                      /\ ~pickerPast'.lost =>
                          \/ value' = pickerPast'.clicked /\ \A i \in 1..Len(asks') : asks'[i].kind # "childof"
                          \/ \E i \in 1..Len(asks') : /\ asks'[i].kind = "childof" /\ asks'[i].topic = pickerPast'.clicked
                                                      /\ \A j \in (i + 1)..Len(asks') : asks'[j].kind # "childof"
    BY <1>4 DEF PickOrdered
  <2>1. p = 1 /\ ~pickerPast.reordered  BY <1>3
  <2>2. \A j \in 1..Len(asks') : asks'[j] = asks[j + 1] /\ j + 1 \in 1..Len(asks) /\ j + 1 # 1
    <3> TAKE j \in 1..Len(asks')
    <3>1. ~(j < p) /\ j + 1 # 1  BY <2>1
    <3>2. QED  BY <1>5, <3>1
  <2>3. /\ picker.staged # None => picker.staged = value
        /\ \A i \in 1..Len(asks) : asks[i].kind = "lock" => i = 1 /\ asks[i].topic = value
        /\ ~pickerPast.lost =>
            \/ value = pickerPast.clicked /\ \A i \in 1..Len(asks) : asks[i].kind # "childof"
            \/ \E i \in 1..Len(asks) : /\ asks[i].kind = "childof" /\ asks[i].topic = pickerPast.clicked
                                       /\ \A j \in (i + 1)..Len(asks) : asks[j].kind # "childof"
    BY <1>1, <2>1 DEF PickOrdered
  <2>4. value' = (IF a.kind = "childof" THEN a.topic ELSE value)  BY <1>2, <1>6
  <2>5. picker'.staged # None => picker'.staged = value'
    <3>1. CASE a.kind = "categories" \/ a.kind = "ofcategory"  BY <1>11, <2>3, <2>4, <3>1
    <3>2. CASE a.kind = "lock"  BY <1>6, <1>11, <2>3, <2>4, <3>2
    <3>3. CASE a.kind = "childof"  BY <1>11, <2>4, <3>3
    <3>4. QED  BY <1>7, <3>1, <3>2, <3>3
  <2>6. \A i \in 1..Len(asks') : asks'[i].kind # "lock"  BY <2>2, <2>3
  <2>7. ASSUME ~pickerPast.lost
        PROVE  \/ value' = pickerPast.clicked /\ \A i \in 1..Len(asks') : asks'[i].kind # "childof"
               \/ \E i \in 1..Len(asks') : /\ asks'[i].kind = "childof" /\ asks'[i].topic = pickerPast.clicked
                                           /\ \A j \in (i + 1)..Len(asks') : asks'[j].kind # "childof"
    <3>1. CASE value = pickerPast.clicked /\ \A i \in 1..Len(asks) : asks[i].kind # "childof"
      <4>1. a.kind # "childof" /\ \A i \in 1..Len(asks') : asks'[i].kind # "childof"  BY <1>6, <2>2, <3>1
      <4>2. QED  BY <2>4, <3>1, <4>1
    <3>2. CASE \E i \in 1..Len(asks) : /\ asks[i].kind = "childof" /\ asks[i].topic = pickerPast.clicked
                                       /\ \A j \in (i + 1)..Len(asks) : asks[j].kind # "childof"
      <4>1. PICK i \in 1..Len(asks) : /\ asks[i].kind = "childof" /\ asks[i].topic = pickerPast.clicked
                                      /\ \A j \in (i + 1)..Len(asks) : asks[j].kind # "childof"
        BY <3>2
      <4>2. CASE i = 1
        <5>1. \A j \in 1..Len(asks') : asks'[j].kind # "childof"
          <6> TAKE j \in 1..Len(asks')
          <6>1. j + 1 \in (i + 1)..Len(asks)  BY <1>5, <4>2
          <6>2. QED  BY <2>2, <4>1, <6>1
        <5>2. QED  BY <1>6, <2>1, <2>4, <4>1, <4>2, <5>1
      <4>3. CASE i # 1
        <5>1. i - 1 \in 1..Len(asks') /\ i - 1 + 1 = i  BY <1>5, <4>3
        <5>2. asks'[i - 1] = asks[i]  BY <2>2, <5>1
        <5>3. \A j \in (i - 1 + 1)..Len(asks') : asks'[j].kind # "childof"
          <6> TAKE j \in (i - 1 + 1)..Len(asks')
          <6>1. j \in 1..Len(asks') /\ j + 1 \in (i + 1)..Len(asks)  BY <1>5
          <6>2. QED  BY <2>2, <4>1, <6>1
        <5>4. QED  BY <4>1, <5>1, <5>2, <5>3
      <4>4. QED  BY <4>2, <4>3
    <3>3. QED  BY <2>3, <2>7, <3>1, <3>2
  <2>8. QED  BY <1>4, <2>5, <2>6, <2>7
<1>16. PickPath'
  <2> SUFFICES ASSUME ~pickerPast.overlapped
               PROVE  /\ Len(asks') = 0
                      /\ Path(picker'.slides)
                      /\ picker'.phase = "tree" =>
                            /\ picker'.slides # << >> /\ picker'.slides[1] = Category
                            /\ picker'.staged # None =>
                                  (picker'.staged = picker'.slides[Len(picker'.slides)] \/ picker'.staged \in ChildrenOf[picker'.slides[Len(picker'.slides)]])
                      /\ picker'.phase = "category" => picker'.staged = None
    <3>1. Len(asks') = 0 => Len(asks') <= 1 /\ \A i \in 1..Len(asks') : FALSE  OBVIOUS
    <3>2. QED  BY <1>4, <3>1 DEF PickPath, Path
  <2>1. /\ Len(asks) <= 1 /\ Path(picker.slides)
        /\ a.kind \in {"categories", "ofcategory"} => picker.staged = None
        /\ a.kind = "childof" =>
              /\ picker.slides # << >> /\ picker.slides[1] = Category
              /\ a.index \in 1..Len(picker.slides) /\ a.topic \in ChildrenOf[picker.slides[a.index]]
    BY <1>1, <1>6 DEF PickPath
  <2>2. Len(asks') = 0  BY <1>5, <2>1
  <2>3. CASE a.kind = "categories"
    <3>1. picker'.phase = "category" /\ picker'.slides = picker.slides /\ picker'.staged = None  BY <1>11, <2>1, <2>3
    <3>2. QED  BY <2>1, <2>2, <3>1
  <2>4. CASE a.kind = "lock"
    <3>1. picker'.phase = "lock" /\ picker'.slides = picker.slides  BY <1>11, <2>4
    <3>2. QED  BY <2>1, <2>2, <3>1
  <2>5. CASE a.kind = "ofcategory"
    <3>1. picker'.phase = "tree" /\ picker'.slides = <<Category>> /\ picker'.staged = None  BY <1>11, <2>1, <2>5
    <3>2. picker'.slides # << >> /\ picker'.slides[1] = Category /\ Len(picker'.slides) = 1  BY <3>1
    <3>3. Path(picker'.slides)  BY <3>2 DEF Path
    <3>4. QED  BY <2>2, <3>1, <3>2, <3>3
  <2>6. CASE a.kind = "childof"
    <3>1. picker'.phase = "tree" /\ picker'.slides = Picker!Under(a) /\ picker'.staged = a.topic  BY <1>11, <2>6
    <3>2. PICK u : u = Picker!Under(a)  OBVIOUS
    <3>3. Path(u) /\ u # << >> /\ u[1] = picker.slides[1] /\ (a.topic = u[Len(u)] \/ a.topic \in ChildrenOf[u[Len(u)]])
      <4>1. /\ Path(Picker!Under(a)) /\ Picker!Under(a) # << >> /\ Picker!Under(a)[1] = picker.slides[1]
            /\ \/ a.topic = Picker!Under(a)[Len(Picker!Under(a))]
               \/ a.topic \in ChildrenOf[Picker!Under(a)[Len(Picker!Under(a))]]
        BY <1>1, <1>7, <2>1, <2>6, UnderIs
      <4>2. QED  BY <3>2, <4>1
    <3>4. QED  BY <2>1, <2>2, <2>6, <3>1, <3>2, <3>3
  <2>7. QED  BY <1>7, <2>3, <2>4, <2>5, <2>6
<1>17. Picker!LockedIsEnd'
  <2>1. picker'.phase = "lock" => picker'.staged = pickerPast.found  BY <1>7, <1>11
  <2>2. QED  BY <1>4, <2>1 DEF Picker!LockedIsEnd
<1>18. QED  BY <1>14, <1>15, <1>16, <1>17 DEF PickInv

LEMMA PickStep == ASSUME PickInv, TopicsAssumption, Picker!Next \/ UNCHANGED topicpicker PROVE PickInv'
BY PickStays, PickCategory, PickLocks, PickAnswers, PickLoses DEF Picker!Next

-----------------------------------------------------------------------------
(* The content chain *)

LEMMA ChainIs == ASSUME ChainTypes
  PROVE  /\ content = [title |-> content.title, media |-> content.media, articles |-> content.articles, status |-> content.status]
         /\ content.title \in Nat /\ content.media \in BOOLEAN /\ content.articles \in SUBSET Posts /\ content.status \in {"draft", "live"}
         /\ page = [objects |-> page.objects, current |-> page.current] /\ page.objects \in Seq(ChainContent)
         /\ Len(page.objects) \in Nat /\ DOMAIN page.objects = 1..Len(page.objects) /\ page.current \in 1..Len(page.objects)
         /\ \A i \in 1..Len(page.objects) : page.objects[i] \in ChainContent
         /\ ShownBy(page) \in ChainContent /\ Chain!Shown = ShownBy(page)
         /\ chainAsks \in Seq(ChainAsk) /\ Len(chainAsks) \in Nat /\ (chainAsks = << >> <=> Len(chainAsks) = 0)
         /\ DOMAIN chainAsks = 1..Len(chainAsks)
         /\ \A i \in 1..Len(chainAsks) : chainAsks[i] \in ChainAsk /\ chainAsks[i].object \in 1..Len(page.objects)
<1>1. content \in ChainContent /\ page.objects \in Seq(ChainContent) /\ page.current \in 1..Len(page.objects)
      /\ page = [objects |-> page.objects, current |-> page.current] /\ chainAsks \in Seq(ChainAsk)
      /\ \A i \in 1..Len(chainAsks) : chainAsks[i].object \in 1..Len(page.objects)
  BY DEF ChainTypes
<1>2. content = [title |-> content.title, media |-> content.media, articles |-> content.articles, status |-> content.status]
      /\ content.title \in Nat /\ content.media \in BOOLEAN /\ content.articles \in SUBSET Posts /\ content.status \in {"draft", "live"}
  BY <1>1 DEF ChainContent
<1>3. Len(page.objects) \in Nat /\ DOMAIN page.objects = 1..Len(page.objects)  BY <1>1, EmptyIff
<1>4. \A i \in 1..Len(page.objects) : page.objects[i] \in ChainContent  BY <1>1, LenProperties
<1>5. ShownBy(page) \in ChainContent /\ Chain!Shown = ShownBy(page)  BY <1>1, <1>4 DEF ShownBy, Chain!Shown
<1>6. Len(chainAsks) \in Nat /\ (chainAsks = << >> <=> Len(chainAsks) = 0) /\ DOMAIN chainAsks = 1..Len(chainAsks)
  BY <1>1, EmptyIff
<1>7. \A i \in 1..Len(chainAsks) : chainAsks[i] \in ChainAsk  BY <1>1, LenProperties
<1>8. QED  BY <1>1, <1>2, <1>3, <1>4, <1>5, <1>6, <1>7

LEMMA ChainPastIs == ASSUME ChainTypes
  PROVE  /\ chainPast = [edits |-> chainPast.edits, others |-> chainPast.others, overlapped |-> chainPast.overlapped,
                         emptied |-> chainPast.emptied, lost |-> chainPast.lost, listed |-> chainPast.listed, added |-> chainPast.added]
         /\ chainPast.edits \in Nat /\ chainPast.others \in Nat /\ chainPast.overlapped \in BOOLEAN /\ chainPast.emptied \in BOOLEAN
         /\ chainPast.lost \in BOOLEAN /\ chainPast.listed \in BOOLEAN /\ chainPast.added \in SUBSET Posts
<1>1. chainPast \in [edits : Nat, others : Nat, overlapped : BOOLEAN, emptied : BOOLEAN, lost : BOOLEAN, listed : BOOLEAN,
                     added : SUBSET Posts]
  BY DEF ChainTypes
<1>2. QED  BY <1>1

\* a record of a chain with one thing changed
LEMMA ContentIs == ASSUME NEW c \in ChainContent
  PROVE  /\ c = [title |-> c.title, media |-> c.media, articles |-> c.articles, status |-> c.status]
         /\ c.title \in Nat /\ c.media \in BOOLEAN /\ c.articles \in SUBSET Posts /\ c.status \in {"draft", "live"}
         /\ \A n \in Nat : [c EXCEPT !.title = n] = [title |-> n, media |-> c.media, articles |-> c.articles, status |-> c.status]
         /\ [c EXCEPT !.media = TRUE] = [title |-> c.title, media |-> TRUE, articles |-> c.articles, status |-> c.status]
         /\ \A s \in SUBSET Posts : [c EXCEPT !.articles = s] = [title |-> c.title, media |-> c.media, articles |-> s, status |-> c.status]
         /\ \A s \in {"draft", "live"} : [c EXCEPT !.status = s] = [title |-> c.title, media |-> c.media, articles |-> c.articles, status |-> s]
<1>1. c = [title |-> c.title, media |-> c.media, articles |-> c.articles, status |-> c.status]  BY DEF ChainContent
<1>2. c.title \in Nat /\ c.media \in BOOLEAN /\ c.articles \in SUBSET Posts /\ c.status \in {"draft", "live"}  BY DEF ChainContent
<1>3. \A n \in Nat : [c EXCEPT !.title = n] = [title |-> n, media |-> c.media, articles |-> c.articles, status |-> c.status]  BY <1>1
<1>4. [c EXCEPT !.media = TRUE] = [title |-> c.title, media |-> TRUE, articles |-> c.articles, status |-> c.status]
  <2>1. \A d \in BOOLEAN : [c EXCEPT !.media = d] = [title |-> c.title, media |-> d, articles |-> c.articles, status |-> c.status]
    BY <1>1
  <2>2. QED  BY <2>1
<1>5. \A s \in SUBSET Posts : [c EXCEPT !.articles = s] = [title |-> c.title, media |-> c.media, articles |-> s, status |-> c.status]
  BY <1>1
<1>6. \A s \in {"draft", "live"} : [c EXCEPT !.status = s] = [title |-> c.title, media |-> c.media, articles |-> c.articles, status |-> s]
  BY <1>1
<1>7. QED  BY <1>1, <1>2, <1>3, <1>4, <1>5, <1>6

\* a request leaves all but what it is about as it was stored
LEMMA StoredIs == ASSUME NEW c \in ChainContent, NEW a \in ChainAsk
  PROVE  /\ ToStore(a, c) \in ChainContent
         /\ a.op = "title" => ToStore(a, c) = [title |-> a.title, media |-> c.media, articles |-> c.articles, status |-> c.status]
         /\ a.op = "media" => ToStore(a, c) = [title |-> c.title, media |-> TRUE, articles |-> c.articles, status |-> c.status]
         /\ a.op = "articles" => ToStore(a, c) = [title |-> c.title, media |-> c.media, articles |-> a.articles, status |-> c.status]
         /\ a.op = "live" => ToStore(a, c) = [title |-> c.title, media |-> c.media, articles |-> c.articles, status |-> "live"]
         /\ a.op = "unpublish" => ToStore(a, c) = [title |-> c.title, media |-> c.media, articles |-> c.articles, status |-> "draft"]
<1>1. a.op \in {"title", "media", "articles", "live", "unpublish"} /\ a.title \in Nat /\ a.articles \in SUBSET Posts  BY DEF ChainAsk
<1>2. PICK n, s : n = a.title /\ s = a.articles  OBVIOUS
<1>3. a.op = "title" => ToStore(a, c) = [title |-> n, media |-> c.media, articles |-> c.articles, status |-> c.status]
  BY <1>1, <1>2, ContentIs DEF ToStore
<1>4. a.op = "media" => ToStore(a, c) = [title |-> c.title, media |-> TRUE, articles |-> c.articles, status |-> c.status]
  BY ContentIs DEF ToStore
<1>5. a.op = "articles" => ToStore(a, c) = [title |-> c.title, media |-> c.media, articles |-> s, status |-> c.status]
  BY <1>1, <1>2, ContentIs DEF ToStore
<1>6. a.op = "live" => ToStore(a, c) = [title |-> c.title, media |-> c.media, articles |-> c.articles, status |-> "live"]
  BY ContentIs DEF ToStore
<1>7. a.op = "unpublish" => ToStore(a, c) = [title |-> c.title, media |-> c.media, articles |-> c.articles, status |-> "draft"]
  BY ContentIs DEF ToStore
<1>8. c.title \in Nat /\ c.media \in BOOLEAN /\ c.articles \in SUBSET Posts /\ c.status \in {"draft", "live"}  BY ContentIs
<1>9. ToStore(a, c) \in ChainContent
  <2>1. CASE a.op = "title"  BY <1>1, <1>2, <1>3, <1>8, <2>1 DEF ChainContent
  <2>2. CASE a.op = "media"
    <3>1. PICK d \in BOOLEAN : d = TRUE  OBVIOUS
    <3>2. ToStore(a, c) = [title |-> c.title, media |-> d, articles |-> c.articles, status |-> c.status]  BY <1>4, <2>2, <3>1
    <3>3. QED  BY <1>8, <3>2 DEF ChainContent
  <2>3. CASE a.op = "articles"  BY <1>1, <1>2, <1>5, <1>8, <2>3 DEF ChainContent
  <2>4. CASE a.op = "live"  BY <1>6, <1>8, <2>4 DEF ChainContent
  <2>5. CASE a.op = "unpublish"  BY <1>7, <1>8, <2>5 DEF ChainContent
  <2>6. QED  BY <1>1, <2>1, <2>2, <2>3, <2>4, <2>5
<1>10. QED  BY <1>2, <1>3, <1>4, <1>5, <1>6, <1>7, <1>9

LEMMA EditedIs == ASSUME NEW a PROVE Chain!Edited(a) = ToStore(a, content)
BY DEF Chain!Edited, ToStore

LEMMA ToShowIs == ASSUME NEW g, g.objects \in Seq(ChainContent), g.current \in 1..Len(g.objects),
                         NEW a \in ChainAsk, a.object \in 1..Len(g.objects)
  PROVE  /\ ShownBy(g) \in ChainContent /\ g.objects[a.object] \in ChainContent /\ ToShow(a, g) \in ChainContent
         /\ a.op = "title" => ToShow(a, g) = g.objects[a.object]
         /\ a.op = "media" => ToShow(a, g) = ShownBy(g)
         /\ a.op = "articles" => ToShow(a, g) = [title |-> ShownBy(g).title, media |-> ShownBy(g).media, articles |-> a.articles,
                                                 status |-> ShownBy(g).status]
         /\ a.op \in {"live", "unpublish"} =>
               ToShow(a, g) = [title |-> g.objects[a.object].title, media |-> g.objects[a.object].media,
                               articles |-> g.objects[a.object].articles,
                               status |-> IF ShownBy(g).status = "draft" THEN "live" ELSE "draft"]
<1>1. \A i \in 1..Len(g.objects) : g.objects[i] \in ChainContent  BY LenProperties
<1>2. PICK b, o, s, x : /\ b = ShownBy(g) /\ o = g.objects[a.object] /\ s = a.articles
                        /\ x = (IF b.status = "draft" THEN "live" ELSE "draft")
  OBVIOUS
<1>3. b \in ChainContent /\ o \in ChainContent  BY <1>1, <1>2 DEF ShownBy
<1>4. a.op \in {"title", "media", "articles", "live", "unpublish"} /\ s \in SUBSET Posts /\ x \in {"draft", "live"}
  BY <1>2 DEF ChainAsk
<1>5. a.op = "title" => ToShow(a, g) = o  BY <1>2 DEF ToShow
<1>6. a.op = "media" => ToShow(a, g) = b  BY <1>2 DEF ToShow
<1>7. a.op = "articles" => ToShow(a, g) = [title |-> b.title, media |-> b.media, articles |-> s, status |-> b.status]
  <2> HAVE a.op = "articles"
  <2>1. ToShow(a, g) = [b EXCEPT !.articles = s]  BY <1>2 DEF ToShow
  <2>2. QED  BY <1>3, <1>4, <2>1, ContentIs
<1>8. a.op \in {"live", "unpublish"} => ToShow(a, g) = [title |-> o.title, media |-> o.media, articles |-> o.articles, status |-> x]
  <2> HAVE a.op \in {"live", "unpublish"}
  <2>1. ToShow(a, g) = [o EXCEPT !.status = x]  BY <1>2 DEF ToShow
  <2>2. QED  BY <1>3, <1>4, <2>1, ContentIs
<1>9. ToShow(a, g) \in ChainContent
  <2>1. /\ b.title \in Nat /\ b.media \in BOOLEAN /\ b.status \in {"draft", "live"}
        /\ o.title \in Nat /\ o.media \in BOOLEAN /\ o.articles \in SUBSET Posts
    BY <1>3, ContentIs
  <2>2. CASE a.op = "title"  BY <1>3, <1>5, <2>2
  <2>3. CASE a.op = "media"  BY <1>3, <1>6, <2>3
  <2>4. CASE a.op = "articles"  BY <1>4, <1>7, <2>1, <2>4 DEF ChainContent
  <2>5. CASE a.op \in {"live", "unpublish"}  BY <1>4, <1>8, <2>1, <2>5 DEF ChainContent
  <2>6. QED  BY <1>4, <2>2, <2>3, <2>4, <2>5
<1>10. QED  BY <1>2, <1>3, <1>5, <1>6, <1>7, <1>8, <1>9

\* the page after an answer
LEMMA AfterIs == ASSUME ChainTypes, NEW a \in ChainAsk, a.object \in 1..Len(page.objects), NEW g, g = Chain!AfterAnswer(a)
  PROVE  /\ g = [objects |-> g.objects, current |-> g.current]
         /\ g.objects \in Seq(ChainContent) /\ Len(g.objects) = Len(page.objects) /\ g.current \in 1..Len(g.objects)
         /\ ShownBy(g) = ToShow(a, page)
<1>1. /\ page = [objects |-> page.objects, current |-> page.current] /\ page.objects \in Seq(ChainContent)
      /\ Len(page.objects) \in Nat /\ DOMAIN page.objects = 1..Len(page.objects) /\ page.current \in 1..Len(page.objects)
      /\ Chain!Shown = ShownBy(page)
  BY ChainIs
<1>2. PICK o, k : o = page.objects /\ k = page.current  OBVIOUS
<1>3. page = [objects |-> o, current |-> k] /\ o \in Seq(ChainContent) /\ k \in 1..Len(o) /\ a.object \in 1..Len(o)
      /\ ShownBy(page) = o[k]
  BY <1>1, <1>2 DEF ShownBy
<1>4. a.op \in {"title", "media", "articles", "live", "unpublish"} /\ a.articles \in SUBSET Posts  BY DEF ChainAsk
<1>5. o[k] \in ChainContent /\ o[a.object] \in ChainContent  BY <1>3, LenProperties
<1>6. CASE a.op = "title"
  <2>1. g = [page EXCEPT !.current = a.object]  BY <1>6 DEF Chain!AfterAnswer
  <2>2. g = [objects |-> o, current |-> a.object]  BY <1>3, <2>1
  <2>3. g.objects = o /\ g.current = a.object  BY <2>2
  <2>4. ToShow(a, page) = o[a.object]  BY <1>2, <1>6 DEF ToShow
  <2>5. QED  BY <1>2, <1>3, <2>2, <2>3, <2>4 DEF ShownBy
<1>7. CASE a.op = "media"
  <2>1. g = page  BY <1>7 DEF Chain!AfterAnswer
  <2>2. ToShow(a, page) = ShownBy(page)  BY <1>7 DEF ToShow
  <2>3. QED  BY <1>1, <2>1, <2>2
<1>8. CASE a.op = "articles"
  <2>1. PICK e : e = [o[k] EXCEPT !.articles = a.articles]  OBVIOUS
  <2>2. g = [page EXCEPT !.objects[page.current].articles = a.articles]  BY <1>8 DEF Chain!AfterAnswer
  <2>3. g = [page EXCEPT !.objects = [o EXCEPT ![k] = e]]  BY <1>2, <2>1, <2>2
  <2>4. PICK q : q = [o EXCEPT ![k] = e]  OBVIOUS
  <2>5. g = [objects |-> q, current |-> k]  BY <1>3, <2>3, <2>4
  <2>6. ToShow(a, page) = e  BY <1>3, <1>8, <2>1 DEF ToShow
  <2>7. e \in ChainContent
    <3>1. ToShow(a, page) \in ChainContent  BY <1>1, ToShowIs
    <3>2. QED  BY <2>6, <3>1
  <2>8. q \in Seq(ChainContent) /\ Len(q) = Len(o) /\ q[k] = e  BY <1>3, <2>4, <2>7, ExceptSeq
  <2>9. g.objects = q /\ g.current = k  BY <2>5
  <2>10. QED  BY <1>2, <1>3, <2>5, <2>6, <2>8, <2>9 DEF ShownBy
<1>9. CASE a.op \in {"live", "unpublish"}
  <2>1. PICK x : x = (IF ShownBy(page).status = "draft" THEN "live" ELSE "draft")  OBVIOUS
  <2>2. PICK e : e = [o[a.object] EXCEPT !.status = x]  OBVIOUS
  <2>3. g = [objects |-> [page.objects EXCEPT ![a.object].status = IF Chain!Shown.status = "draft" THEN "live" ELSE "draft"],
             current |-> a.object]
    BY <1>9 DEF Chain!AfterAnswer
  <2>4. PICK q : q = [o EXCEPT ![a.object] = e]  OBVIOUS
  <2>5. g = [objects |-> q, current |-> a.object]  BY <1>1, <1>2, <2>1, <2>2, <2>3, <2>4
  <2>6. ToShow(a, page) = e  BY <1>2, <1>9, <2>1, <2>2 DEF ToShow
  <2>7. e \in ChainContent
    <3>1. ToShow(a, page) \in ChainContent  BY <1>1, ToShowIs
    <3>2. QED  BY <2>6, <3>1
  <2>8. q \in Seq(ChainContent) /\ Len(q) = Len(o) /\ q[a.object] = e  BY <1>3, <2>4, <2>7, ExceptSeq
  <2>9. g.objects = q /\ g.current = a.object  BY <2>5
  <2>10. QED  BY <1>2, <1>3, <2>5, <2>6, <2>8, <2>9 DEF ShownBy
<1>10. QED  BY <1>4, <1>6, <1>7, <1>8, <1>9

LEMMA ChainGood == ASSUME ChainInv PROVE Chain!ShownIsStored /\ Chain!LiveIsComplete /\ Chain!AddedIsThere
<1>1. ChainTypes /\ ChainShown /\ ChainComplete /\ Chain!AddedIsThere  BY DEF ChainInv
<1>2. ASSUME chainAsks = << >>, ~chainPast.overlapped, ~chainPast.lost
      PROVE  Chain!Shown = [content EXCEPT !.articles = @ \ (chainPast.added \ Chain!Shown.articles)]
  <2>1. PICK s, c, x : s = ShownBy(page) /\ c = content /\ x = chainPast.added  OBVIOUS
  <2>2. s \in ChainContent /\ c \in ChainContent /\ Chain!Shown = s  BY <1>1, <2>1, ChainIs DEF ChainTypes
  <2>3. Shows(s, c, x)  BY <1>1, <1>2, <2>1 DEF ChainShown
  <2>4. s.articles = c.articles \ (x \ s.articles) /\ s.articles \in SUBSET Posts  BY <2>2, <2>3, ContentIs DEF Shows
  <2>5. [c EXCEPT !.articles = s.articles] = [title |-> c.title, media |-> c.media, articles |-> s.articles, status |-> c.status]
    BY <2>2, <2>4, ContentIs
  <2>6. s = [title |-> c.title, media |-> c.media, articles |-> s.articles, status |-> c.status]
    <3>1. s = [title |-> s.title, media |-> s.media, articles |-> s.articles, status |-> s.status]  BY <2>2, ContentIs
    <3>2. s.title = c.title /\ s.media = c.media /\ s.status = c.status  BY <2>3 DEF Shows
    <3>3. QED  BY <3>1, <3>2
  <2>7. [content EXCEPT !.articles = @ \ (chainPast.added \ Chain!Shown.articles)] = [c EXCEPT !.articles = s.articles]
    <3>1. [c EXCEPT !.articles = @ \ (x \ s.articles)] = [c EXCEPT !.articles = c.articles \ (x \ s.articles)]  BY <2>2 DEF ChainContent
    <3>2. QED  BY <2>1, <2>2, <2>4, <3>1
  <2>8. QED  BY <2>2, <2>5, <2>6, <2>7
<1>3. Chain!ShownIsStored  BY <1>2 DEF Chain!ShownIsStored
<1>4. Chain!LiveIsComplete  BY <1>1 DEF ChainComplete, Chain!LiveIsComplete
<1>5. QED  BY <1>1, <1>3, <1>4

-----------------------------------------------------------------------------
(* The steps of the content chain *)

LEMMA ChainInit == ASSUME Chain!Init PROVE ChainInv
<1>1. PICK m \in BOOLEAN, s \in SUBSET Posts : content = [title |-> 0, media |-> m, articles |-> s, status |-> "draft"]
  BY DEF Chain!Init
<1>2. content \in ChainContent /\ content.status = "draft"  BY <1>1 DEF ChainContent
<1>3. adding = {} /\ page = [objects |-> <<content>>, current |-> 1] /\ chainAsks = << >>  BY DEF Chain!Init
<1>4. chainPast = [edits |-> 0, others |-> 0, overlapped |-> FALSE, emptied |-> FALSE, lost |-> FALSE, listed |-> FALSE, added |-> {}]
  BY DEF Chain!Init
<1>5. PICK o : o = <<content>>  OBVIOUS
<1>6. o \in Seq(ChainContent) /\ Len(o) = 1 /\ o[1] = content  BY <1>2, <1>5
<1>7. page.objects = o /\ page.current = 1  BY <1>3, <1>5
<1>8. /\ chainPast.overlapped = FALSE /\ chainPast.emptied = FALSE /\ chainPast.lost = FALSE
      /\ chainPast.listed = FALSE /\ chainPast.added = {}
  BY <1>4
<1>9. chainAsks \in Seq(ChainAsk) /\ Len(chainAsks) = 0  BY <1>3
<1>10. chainPast \in [edits : Nat, others : Nat, overlapped : BOOLEAN, emptied : BOOLEAN, lost : BOOLEAN, listed : BOOLEAN,
                      added : SUBSET Posts]
  <2>1. PICK d \in BOOLEAN : d = FALSE  OBVIOUS
  <2>2. chainPast = [edits |-> 0, others |-> 0, overlapped |-> d, emptied |-> d, lost |-> d, listed |-> d, added |-> {}]
    BY <1>4, <2>1
  <2>3. QED  BY <2>2
<1>11. ChainTypes
  <2>1. 1 \in 1..Len(o)  BY <1>6
  <2>2. \A i \in 1..Len(chainAsks) : FALSE  BY <1>9
  <2>3. QED  BY <1>2, <1>3, <1>5, <1>6, <1>7, <1>9, <1>10, <2>1, <2>2 DEF ChainTypes
<1>12. ChainShown
  <2>1. ShownBy(page) = content  BY <1>6, <1>7 DEF ShownBy
  <2>2. Shows(ShownBy(page), content, chainPast.added)  BY <2>1 DEF Shows
  <2>3. \A i \in 1..Len(chainAsks) : FALSE  BY <1>9
  <2>4. QED  BY <1>9, <2>2, <2>3 DEF ChainShown
<1>13. ~PublishedIn(chainAsks)  BY <1>9 DEF PublishedIn
<1>14. ChainComplete  BY <1>2, <1>13 DEF ChainComplete
<1>15. Chain!AddedIsThere  BY <1>8 DEF Chain!AddedIsThere
<1>16. QED  BY <1>11, <1>12, <1>14, <1>15 DEF ChainInv

LEMMA ChainStays == ASSUME ChainInv, UNCHANGED chains PROVE ChainInv'
<1>1. content' = content /\ adding' = adding /\ page' = page /\ chainAsks' = chainAsks /\ chainPast' = chainPast  BY DEF chains
<1>2. QED  BY <1>1 DEF ChainInv, ChainTypes, ChainShown, ChainComplete, Chain!AddedIsThere, Chain!Complete

\* the page sends a request
LEMMA ChainAsked == ASSUME ChainTypes, NEW op \in {"title", "media", "articles", "live", "unpublish"}, NEW object \in Nat,
                           NEW articles \in SUBSET Posts, Chain!Ask(op, object, articles),
                           NEW b, b = [op |-> op, object |-> object, articles |-> articles, title |-> chainPast.edits + 1,
                                       state |-> "sent"]
  PROVE  /\ b \in ChainAsk /\ chainAsks' \in Seq(ChainAsk) /\ Len(chainAsks') = Len(chainAsks) + 1
         /\ chainAsks'[Len(chainAsks) + 1] = b /\ \A i \in 1..Len(chainAsks) : chainAsks'[i] = chainAsks[i]
         /\ chainPast' \in [edits : Nat, others : Nat, overlapped : BOOLEAN, emptied : BOOLEAN, lost : BOOLEAN,
                            listed : BOOLEAN, added : SUBSET Posts]
         /\ chainPast'.emptied = chainPast.emptied /\ chainPast'.lost = chainPast.lost
         /\ chainPast'.listed = chainPast.listed /\ chainPast'.added = chainPast.added
         /\ ~chainPast'.overlapped => chainAsks = << >> /\ ~chainPast.overlapped
<1>1. chainPast.edits \in Nat /\ chainPast.edits + 1 \in Nat  BY ChainPastIs
<1>2. b \in ChainAsk  BY <1>1 DEF ChainAsk
<1>3. chainAsks' = Append(chainAsks, b)  BY DEF Chain!Ask
<1>4. chainAsks \in Seq(ChainAsk)  BY ChainIs
<1>5. /\ chainAsks' \in Seq(ChainAsk) /\ Len(chainAsks') = Len(chainAsks) + 1
      /\ chainAsks'[Len(chainAsks) + 1] = b /\ \A i \in 1..Len(chainAsks) : chainAsks'[i] = chainAsks[i]
  BY <1>2, <1>3, <1>4, Lengthened
<1>6. PICK d \in BOOLEAN : d = (chainPast.overlapped \/ chainAsks # << >>)  OBVIOUS
<1>7. PICK h : h = chainPast  OBVIOUS
<1>8. PICK n : n = chainPast.edits + 1  OBVIOUS
<1>9. h = [edits |-> h.edits, others |-> h.others, overlapped |-> h.overlapped, emptied |-> h.emptied, lost |-> h.lost,
           listed |-> h.listed, added |-> h.added]
      /\ h.others \in Nat /\ h.emptied \in BOOLEAN /\ h.lost \in BOOLEAN /\ h.listed \in BOOLEAN /\ h.added \in SUBSET Posts
  BY <1>7, ChainPastIs
<1>10. chainPast' = [h EXCEPT !.edits = n, !.overlapped = d]  BY <1>6, <1>7, <1>8 DEF Chain!Ask
<1>11. chainPast' = [edits |-> n, others |-> h.others, overlapped |-> d, emptied |-> h.emptied, lost |-> h.lost,
                     listed |-> h.listed, added |-> h.added]
  BY <1>9, <1>10
<1>12. chainPast' \in [edits : Nat, others : Nat, overlapped : BOOLEAN, emptied : BOOLEAN, lost : BOOLEAN,
                       listed : BOOLEAN, added : SUBSET Posts]
  BY <1>1, <1>8, <1>9, <1>11
<1>13. chainPast'.overlapped = d /\ chainPast'.emptied = h.emptied /\ chainPast'.lost = h.lost
       /\ chainPast'.listed = h.listed /\ chainPast'.added = h.added
  BY <1>11
<1>14. ~chainPast'.overlapped => chainAsks = << >> /\ ~chainPast.overlapped  BY <1>6, <1>13
<1>15. QED  BY <1>2, <1>5, <1>7, <1>12, <1>13, <1>14

\* it is enough that a request which is alone will have shown what is stored
LEMMA ChainSent == ASSUME ChainInv, NEW op \in {"title", "media", "articles", "live", "unpublish"}, NEW object \in Nat,
                          NEW articles \in SUBSET Posts, Chain!Ask(op, object, articles),
                          NEW b, b = [op |-> op, object |-> object, articles |-> articles, title |-> chainPast.edits + 1,
                                      state |-> "sent"],
                          content' = content, adding' = adding,
                          page' = [objects |-> page'.objects, current |-> page'.current],
                          page'.objects \in Seq(ChainContent), page'.current \in 1..Len(page'.objects),
                          Len(page'.objects) \in Nat, Len(page.objects) <= Len(page'.objects), object \in 1..Len(page'.objects),
                          Shows(ShownBy(page), content, chainPast.added) => ShownAfter(b, page', content, chainPast.added)
  PROVE  ChainInv'
<1>1. ChainTypes /\ ChainShown /\ ChainComplete /\ Chain!AddedIsThere  BY DEF ChainInv
<1>2. /\ b \in ChainAsk /\ chainAsks' \in Seq(ChainAsk) /\ Len(chainAsks') = Len(chainAsks) + 1
      /\ chainAsks'[Len(chainAsks) + 1] = b /\ (\A i \in 1..Len(chainAsks) : chainAsks'[i] = chainAsks[i])
      /\ chainPast' \in [edits : Nat, others : Nat, overlapped : BOOLEAN, emptied : BOOLEAN, lost : BOOLEAN,
                         listed : BOOLEAN, added : SUBSET Posts]
      /\ chainPast'.emptied = chainPast.emptied /\ chainPast'.lost = chainPast.lost
      /\ chainPast'.listed = chainPast.listed /\ chainPast'.added = chainPast.added
      /\ (~chainPast'.overlapped => chainAsks = << >> /\ ~chainPast.overlapped)
  BY <1>1, ChainAsked
<1>3. Len(chainAsks) \in Nat /\ Len(page.objects) \in Nat /\ (chainAsks = << >> <=> Len(chainAsks) = 0)
      /\ \A i \in 1..Len(chainAsks) : chainAsks[i].object \in 1..Len(page.objects)
  BY <1>1, ChainIs
<1>4. \A i \in 1..Len(chainAsks') : i = Len(chainAsks) + 1 \/ i \in 1..Len(chainAsks)  BY <1>2, <1>3
<1>5. b.object = object /\ b.state = "sent"  OBVIOUS
<1>6. \A i \in 1..Len(chainAsks') : chainAsks'[i].object \in 1..Len(page'.objects)
  <2> TAKE i \in 1..Len(chainAsks')
  <2>1. CASE i = Len(chainAsks) + 1  BY <1>2, <1>5, <2>1
  <2>2. CASE i \in 1..Len(chainAsks)
    <3>1. chainAsks'[i] = chainAsks[i] /\ chainAsks[i].object \in 1..Len(page.objects)  BY <1>2, <1>3, <2>2
    <3>2. QED  BY <1>3, <3>1
  <2>3. QED  BY <1>4, <2>1, <2>2
<1>7. content \in ChainContent /\ adding \subseteq Posts  BY <1>1 DEF ChainTypes
<1>8. ChainTypes'  BY <1>2, <1>6, <1>7 DEF ChainTypes
<1>9. ChainShown'
  <2> SUFFICES ASSUME ~chainPast'.overlapped, ~chainPast'.lost
               PROVE  /\ Len(chainAsks') <= 1
                      /\ chainAsks' = << >> => Shows(ShownBy(page'), content', chainPast'.added)
                      /\ \A i \in 1..Len(chainAsks') : ShownAfter(chainAsks'[i], page', content', chainPast'.added)
    BY DEF ChainShown
  <2>1. chainAsks = << >> /\ ~chainPast.overlapped /\ ~chainPast.lost  BY <1>2
  <2>2. Len(chainAsks) = 0 /\ Len(chainAsks') = 1  BY <1>2, <1>3, <2>1
  <2>3. chainAsks' # << >>
    <3>1. Len(chainAsks') # 0  BY <2>2
    <3>2. QED  BY <1>2, <3>1, EmptyIff
  <2>4. Shows(ShownBy(page), content, chainPast.added)  BY <1>1, <2>1 DEF ChainShown
  <2>5. ShownAfter(b, page', content, chainPast.added)  BY <2>4
  <2>6. \A i \in 1..Len(chainAsks') : i = Len(chainAsks) + 1  BY <2>2
  <2>7. \A i \in 1..Len(chainAsks') : chainAsks'[i] = b  BY <1>2, <2>6
  <2>8. QED  BY <1>2, <2>2, <2>3, <2>5, <2>7
<1>10. PublishedIn(chainAsks') => PublishedIn(chainAsks)
  <2> HAVE PublishedIn(chainAsks')
  <2>1. PICK i \in 1..Len(chainAsks') : chainAsks'[i].op = "live" /\ chainAsks'[i].state = "read"  BY DEF PublishedIn
  <2>2. i # Len(chainAsks) + 1  BY <1>2, <1>5, <2>1
  <2>3. i \in 1..Len(chainAsks)  BY <1>4, <2>2
  <2>4. QED  BY <1>2, <2>1, <2>3 DEF PublishedIn
<1>11. ChainComplete'
  <2> SUFFICES ASSUME ~chainPast'.emptied, content'.status = "live" \/ PublishedIn(chainAsks') PROVE Chain!Complete(content')
    BY DEF ChainComplete, Chain!Complete
  <2>1. Chain!Complete(content)  BY <1>1, <1>2, <1>10 DEF ChainComplete
  <2>2. QED  BY <2>1
<1>12. Chain!AddedIsThere'  BY <1>1, <1>2 DEF Chain!AddedIsThere
<1>13. QED  BY <1>8, <1>9, <1>11, <1>12 DEF ChainInv

LEMMA ChainTitle == ASSUME ChainInv, Chain!EditTitle PROVE ChainInv'
<1>1. ChainTypes  BY DEF ChainInv
<1>2. PICK o, k, p, n, c : o = page.objects /\ k = page.current /\ p = ShownBy(page) /\ n = chainPast.edits + 1 /\ c = content
  OBVIOUS
<1>3. /\ page = [objects |-> o, current |-> k] /\ o \in Seq(ChainContent) /\ Len(o) \in Nat /\ k \in 1..Len(o)
      /\ p \in ChainContent /\ Chain!Shown = p /\ c \in ChainContent
  BY <1>1, <1>2, ChainIs DEF ChainTypes
<1>4. n \in Nat  BY <1>1, <1>2, ChainPastIs
<1>5. PICK e : e = [p EXCEPT !.title = n]  OBVIOUS
<1>6. e = [title |-> n, media |-> p.media, articles |-> p.articles, status |-> p.status]  BY <1>3, <1>4, <1>5, ContentIs
<1>7. e \in ChainContent
  <2>1. p.media \in BOOLEAN /\ p.articles \in SUBSET Posts /\ p.status \in {"draft", "live"}  BY <1>3, ContentIs
  <2>2. QED  BY <1>4, <1>6, <2>1 DEF ChainContent
<1>8. PICK q : q = Append(o, e)  OBVIOUS
<1>9. q \in Seq(ChainContent) /\ Len(q) = Len(o) + 1 /\ q[Len(o) + 1] = e  BY <1>3, <1>7, <1>8, Lengthened
<1>10. content' = content /\ adding' = adding /\ Chain!Ask("title", Len(page.objects) + 1, {})
       /\ page' = [page EXCEPT !.objects = Append(@, [Chain!Shown EXCEPT !.title = chainPast.edits + 1])]
  BY DEF Chain!EditTitle
<1>11. page' = [objects |-> q, current |-> k]
  <2>1. page' = [page EXCEPT !.objects = q]  BY <1>2, <1>3, <1>5, <1>8, <1>10
  <2>2. QED  BY <1>3, <2>1
<1>12. page'.objects = q /\ page'.current = k  BY <1>11
<1>13. PICK b : b = [op |-> "title", object |-> Len(o) + 1, articles |-> {}, title |-> n, state |-> "sent"]  OBVIOUS
<1>14. /\ b.op = "title" /\ b.object = Len(o) + 1 /\ b.title = n /\ b.state = "sent"  BY <1>13
<1>15. b \in ChainAsk  BY <1>3, <1>4, <1>13 DEF ChainAsk
<1>16. ASSUME Shows(p, c, chainPast.added) PROVE ShownAfter(b, page', c, chainPast.added)
  <2>1. ToShow(b, page') = e
    <3>1. ToShow(b, page') = page'.objects[b.object]  BY <1>14 DEF ToShow
    <3>2. QED  BY <1>9, <1>12, <1>14, <3>1
  <2>2. ToStore(b, c) = [title |-> n, media |-> c.media, articles |-> c.articles, status |-> c.status]
    BY <1>3, <1>14, <1>15, StoredIs
  <2>3. p.media = c.media /\ p.status = c.status /\ p.articles \subseteq c.articles
        /\ c.articles \ p.articles \subseteq chainPast.added
    BY <1>16 DEF Shows
  <2>4. Shows(e, ToStore(b, c), chainPast.added)  BY <1>6, <2>2, <2>3 DEF Shows
  <2>5. QED  BY <1>14, <2>1, <2>4 DEF ShownAfter
<1>17. k \in 1..Len(q) /\ Len(q) \in Nat /\ Len(o) <= Len(q) /\ Len(o) + 1 \in 1..Len(q) /\ Len(o) + 1 \in Nat
  BY <1>3, <1>9
<1>18. "title" \in {"title", "media", "articles", "live", "unpublish"} /\ {} \in SUBSET Posts  OBVIOUS
<1>19. QED  BY <1>2, <1>9, <1>10, <1>11, <1>12, <1>13, <1>16, <1>17, <1>18, ChainSent

LEMMA ChainImage == ASSUME ChainInv, Chain!ChooseImage PROVE ChainInv'
<1>1. ChainTypes  BY DEF ChainInv
<1>2. PICK o, k, p, n, c : o = page.objects /\ k = page.current /\ p = ShownBy(page) /\ n = chainPast.edits + 1 /\ c = content
  OBVIOUS
<1>3. /\ page = [objects |-> o, current |-> k] /\ o \in Seq(ChainContent) /\ Len(o) \in Nat /\ k \in 1..Len(o)
      /\ p \in ChainContent /\ p = o[k] /\ c \in ChainContent
  BY <1>1, <1>2, ChainIs DEF ChainTypes, ShownBy
<1>4. n \in Nat  BY <1>1, <1>2, ChainPastIs
<1>5. PICK e : e = [p EXCEPT !.media = TRUE]  OBVIOUS
<1>6. e = [title |-> p.title, media |-> TRUE, articles |-> p.articles, status |-> p.status]  BY <1>3, <1>5, ContentIs
<1>7. e \in ChainContent
  <2>1. p.title \in Nat /\ p.articles \in SUBSET Posts /\ p.status \in {"draft", "live"}  BY <1>3, ContentIs
  <2>2. PICK d \in BOOLEAN : d = TRUE  OBVIOUS
  <2>3. e = [title |-> p.title, media |-> d, articles |-> p.articles, status |-> p.status]  BY <1>6, <2>2
  <2>4. QED  BY <2>1, <2>3 DEF ChainContent
<1>8. PICK q : q = [o EXCEPT ![k] = e]  OBVIOUS
<1>9. q \in Seq(ChainContent) /\ Len(q) = Len(o) /\ q[k] = e  BY <1>3, <1>7, <1>8, ExceptSeq
<1>10. content' = content /\ adding' = adding /\ Chain!Ask("media", page.current, {})
       /\ page' = [page EXCEPT !.objects[page.current].media = TRUE]
  BY DEF Chain!ChooseImage
<1>11. page' = [objects |-> q, current |-> k]
  <2>1. page' = [page EXCEPT !.objects = [o EXCEPT ![k] = e]]  BY <1>2, <1>3, <1>5, <1>10
  <2>2. QED  BY <1>3, <1>8, <2>1
<1>12. page'.objects = q /\ page'.current = k  BY <1>11
<1>13. PICK b : b = [op |-> "media", object |-> k, articles |-> {}, title |-> n, state |-> "sent"]  OBVIOUS
<1>14. b.op = "media" /\ b.state = "sent"  BY <1>13
<1>15. b \in ChainAsk  BY <1>3, <1>4, <1>13 DEF ChainAsk
<1>16. ASSUME Shows(p, c, chainPast.added) PROVE ShownAfter(b, page', c, chainPast.added)
  <2>1. ToShow(b, page') = e
    <3>1. ToShow(b, page') = ShownBy(page')  BY <1>14 DEF ToShow
    <3>2. QED  BY <1>9, <1>12, <3>1 DEF ShownBy
  <2>2. ToStore(b, c) = [title |-> c.title, media |-> TRUE, articles |-> c.articles, status |-> c.status]
    BY <1>3, <1>14, <1>15, StoredIs
  <2>3. p.title = c.title /\ p.status = c.status /\ p.articles \subseteq c.articles
        /\ c.articles \ p.articles \subseteq chainPast.added
    BY <1>16 DEF Shows
  <2>4. Shows(e, ToStore(b, c), chainPast.added)
    <3>1. PICK d : d = TRUE  OBVIOUS
    <3>2. e = [title |-> p.title, media |-> d, articles |-> p.articles, status |-> p.status]  BY <1>6, <3>1
    <3>3. ToStore(b, c) = [title |-> c.title, media |-> d, articles |-> c.articles, status |-> c.status]  BY <2>2, <3>1
    <3>4. QED  BY <2>3, <3>2, <3>3 DEF Shows
  <2>5. QED  BY <1>14, <2>1, <2>4 DEF ShownAfter
<1>17. k \in 1..Len(q) /\ Len(q) \in Nat /\ Len(o) <= Len(q) /\ k \in Nat  BY <1>3, <1>9
<1>18. "media" \in {"title", "media", "articles", "live", "unpublish"} /\ {} \in SUBSET Posts  OBVIOUS
<1>19. QED  BY <1>2, <1>9, <1>10, <1>11, <1>12, <1>13, <1>16, <1>17, <1>18, ChainSent

LEMMA ChainArticles == ASSUME ChainInv, Chain!ChangeArticles PROVE ChainInv'
<1>1. ChainTypes  BY DEF ChainInv
<1>2. PICK o, k, p, n, c : o = page.objects /\ k = page.current /\ p = ShownBy(page) /\ n = chainPast.edits + 1 /\ c = content
  OBVIOUS
<1>3. /\ page = [objects |-> o, current |-> k] /\ o \in Seq(ChainContent) /\ Len(o) \in Nat /\ k \in 1..Len(o) /\ k \in Nat
      /\ p \in ChainContent /\ c \in ChainContent
  BY <1>1, <1>2, ChainIs DEF ChainTypes
<1>4. n \in Nat  BY <1>1, <1>2, ChainPastIs
<1>5. PICK s \in SUBSET Posts : Chain!Ask("articles", page.current, s)  BY DEF Chain!ChangeArticles
<1>6. content' = content /\ adding' = adding /\ page' = page  BY DEF Chain!ChangeArticles
<1>7. PICK b : b = [op |-> "articles", object |-> k, articles |-> s, title |-> n, state |-> "sent"]  OBVIOUS
<1>8. b.op = "articles" /\ b.state = "sent" /\ b.articles = s /\ b.object = k  BY <1>7
<1>9. b \in ChainAsk  BY <1>3, <1>4, <1>7 DEF ChainAsk
<1>10. ASSUME Shows(p, c, chainPast.added) PROVE ShownAfter(b, page', c, chainPast.added)
  <2>1. ToShow(b, page) = [title |-> p.title, media |-> p.media, articles |-> s, status |-> p.status]
    BY <1>2, <1>3, <1>8, <1>9, ToShowIs
  <2>2. ToStore(b, c) = [title |-> c.title, media |-> c.media, articles |-> s, status |-> c.status]
    BY <1>3, <1>8, <1>9, StoredIs
  <2>3. p.title = c.title /\ p.media = c.media /\ p.status = c.status  BY <1>10 DEF Shows
  <2>4. Shows(ToShow(b, page), ToStore(b, c), chainPast.added)  BY <2>1, <2>2, <2>3 DEF Shows
  <2>5. QED  BY <1>6, <1>8, <2>4 DEF ShownAfter
<1>11. "articles" \in {"title", "media", "articles", "live", "unpublish"}  OBVIOUS
<1>12. QED  BY <1>2, <1>3, <1>5, <1>6, <1>7, <1>10, <1>11, ChainSent

LEMMA ChainToggle == ASSUME ChainInv, Chain!Toggle PROVE ChainInv'
<1>1. ChainTypes  BY DEF ChainInv
<1>2. PICK o, k, p, n, c : o = page.objects /\ k = page.current /\ p = ShownBy(page) /\ n = chainPast.edits + 1 /\ c = content
  OBVIOUS
<1>3. /\ page = [objects |-> o, current |-> k] /\ o \in Seq(ChainContent) /\ Len(o) \in Nat /\ k \in 1..Len(o) /\ k \in Nat
      /\ p \in ChainContent /\ p = o[k] /\ c \in ChainContent /\ Chain!Shown = p
  BY <1>1, <1>2, ChainIs DEF ChainTypes, ShownBy
<1>4. n \in Nat  BY <1>1, <1>2, ChainPastIs
<1>5. PICK x : x = (IF p.status = "draft" THEN "live" ELSE "unpublish")  OBVIOUS
<1>6. Chain!Ask(x, page.current, {}) /\ content' = content /\ adding' = adding /\ page' = page  BY <1>3, <1>5 DEF Chain!Toggle
<1>7. x \in {"title", "media", "articles", "live", "unpublish"} /\ x \in {"live", "unpublish"} /\ {} \in SUBSET Posts  BY <1>5
<1>8. PICK b : b = [op |-> x, object |-> k, articles |-> {}, title |-> n, state |-> "sent"]  OBVIOUS
<1>9. b.op = x /\ b.state = "sent" /\ b.object = k  BY <1>8
<1>10. b \in ChainAsk  BY <1>3, <1>4, <1>7, <1>8 DEF ChainAsk
<1>11. ASSUME Shows(p, c, chainPast.added) PROVE ShownAfter(b, page', c, chainPast.added)
  <2>1. ToShow(b, page) = [title |-> p.title, media |-> p.media, articles |-> p.articles,
                           status |-> IF p.status = "draft" THEN "live" ELSE "draft"]
    BY <1>2, <1>3, <1>7, <1>9, <1>10, ToShowIs
  <2>2. ToStore(b, c) = [title |-> c.title, media |-> c.media, articles |-> c.articles,
                         status |-> IF p.status = "draft" THEN "live" ELSE "draft"]
    <3>1. CASE p.status = "draft"  BY <1>3, <1>5, <1>9, <1>10, <3>1, StoredIs
    <3>2. CASE p.status # "draft"  BY <1>3, <1>5, <1>9, <1>10, <3>2, StoredIs
    <3>3. QED  BY <3>1, <3>2
  <2>3. p.title = c.title /\ p.media = c.media /\ p.articles \subseteq c.articles
        /\ c.articles \ p.articles \subseteq chainPast.added
    BY <1>11 DEF Shows
  <2>4. Shows(ToShow(b, page), ToStore(b, c), chainPast.added)  BY <2>1, <2>2, <2>3 DEF Shows
  <2>5. QED  BY <1>2, <1>6, <1>9, <1>11, <2>4 DEF ShownAfter
<1>12. /\ page' = [objects |-> page'.objects, current |-> page'.current] /\ page'.objects \in Seq(ChainContent)
       /\ page'.current \in 1..Len(page'.objects) /\ Len(page'.objects) \in Nat /\ Len(page.objects) <= Len(page'.objects)
       /\ page.current \in 1..Len(page'.objects) /\ page.current \in Nat
  BY <1>2, <1>3, <1>6
<1>13. x \in {"title", "media", "articles", "live", "unpublish"} /\ {} \in SUBSET Posts  BY <1>7
<1>14. b = [op |-> x, object |-> page.current, articles |-> {}, title |-> chainPast.edits + 1, state |-> "sent"]  BY <1>2, <1>8
<1>15. Shows(ShownBy(page), content, chainPast.added) => ShownAfter(b, page', content, chainPast.added)  BY <1>2, <1>11
<1>16. QED  BY <1>6, <1>12, <1>13, <1>14, <1>15, ChainSent

\* a request in another state
LEMMA ChainMarked == ASSUME ChainTypes, NEW i \in 1..Len(chainAsks), NEW st \in {"sent", "read", "done", "refused"},
                            NEW z \in ChainAsk, z.op = chainAsks[i].op, z.object = chainAsks[i].object,
                            z.articles = chainAsks[i].articles, z.title = chainAsks[i].title, z.state = st,
                            chainAsks' = [chainAsks EXCEPT ![i] = z]
  PROVE  /\ chainAsks' \in Seq(ChainAsk) /\ Len(chainAsks') = Len(chainAsks) /\ chainAsks'[i] = z
         /\ \A j \in 1..Len(chainAsks) : chainAsks'[j].object \in 1..Len(page.objects)
         /\ \A g : ToShow(z, g) = ToShow(chainAsks[i], g)
         /\ \A c : ToStore(z, c) = ToStore(chainAsks[i], c)
         /\ st # "read" /\ PublishedIn(chainAsks') => PublishedIn(chainAsks)
<1>1. PICK a : a = chainAsks[i]  OBVIOUS
<1>2. chainAsks \in Seq(ChainAsk) /\ a \in ChainAsk /\ a.object \in 1..Len(page.objects)  BY <1>1, ChainIs
<1>6. z.op = a.op /\ z.object = a.object /\ z.articles = a.articles /\ z.title = a.title  BY <1>1
<1>7. /\ chainAsks' \in Seq(ChainAsk) /\ Len(chainAsks') = Len(chainAsks)
      /\ \A j \in 1..Len(chainAsks) : chainAsks'[j] = IF j = i THEN z ELSE chainAsks[j]
  BY <1>2, ExceptSeq
<1>8. \A j \in 1..Len(chainAsks) : chainAsks'[j].object \in 1..Len(page.objects)
  <2> TAKE j \in 1..Len(chainAsks)
  <2>1. chainAsks[j].object \in 1..Len(page.objects)  BY ChainIs
  <2>2. QED  BY <1>2, <1>6, <1>7, <2>1
<1>9. \A g : ToShow(z, g) = ToShow(a, g)
  <2> TAKE g
  <2>1. QED  BY <1>6 DEF ToShow
<1>10. \A c : ToStore(z, c) = ToStore(a, c)
  <2> TAKE c
  <2>1. QED  BY <1>6 DEF ToStore
<1>11. st # "read" /\ PublishedIn(chainAsks') => PublishedIn(chainAsks)
  <2> HAVE st # "read" /\ PublishedIn(chainAsks')
  <2>1. PICK j \in 1..Len(chainAsks') : chainAsks'[j].op = "live" /\ chainAsks'[j].state = "read"  BY DEF PublishedIn
  <2>2. j # i  BY <1>6, <1>7, <2>1
  <2>3. j \in 1..Len(chainAsks) /\ chainAsks'[j] = chainAsks[j]  BY <1>7, <2>2
  <2>4. QED  BY <2>1, <2>3 DEF PublishedIn
<1>12. QED  BY <1>1, <1>7, <1>8, <1>9, <1>10, <1>11

\* such a request
LEMMA MarkIs == ASSUME ChainTypes, NEW i \in 1..Len(chainAsks), NEW st \in {"sent", "read", "done", "refused"}
  PROVE  \E z \in ChainAsk : /\ [chainAsks EXCEPT ![i].state = st] = [chainAsks EXCEPT ![i] = z]
                             /\ z.op = chainAsks[i].op /\ z.object = chainAsks[i].object
                             /\ z.articles = chainAsks[i].articles /\ z.title = chainAsks[i].title /\ z.state = st
<1>1. PICK a : a = chainAsks[i]  OBVIOUS
<1>2. a \in ChainAsk  BY <1>1, ChainIs
<1>3. /\ a = [op |-> a.op, object |-> a.object, articles |-> a.articles, title |-> a.title, state |-> a.state]
      /\ a.op \in {"title", "media", "articles", "live", "unpublish"} /\ a.object \in Nat /\ a.articles \in SUBSET Posts
      /\ a.title \in Nat
  BY <1>2 DEF ChainAsk
<1>4. PICK z : z = [a EXCEPT !.state = st]  OBVIOUS
<1>5. z = [op |-> a.op, object |-> a.object, articles |-> a.articles, title |-> a.title, state |-> st]  BY <1>3, <1>4
<1>6. z \in ChainAsk  BY <1>3, <1>5 DEF ChainAsk
<1>7. z.op = a.op /\ z.object = a.object /\ z.articles = a.articles /\ z.title = a.title /\ z.state = st  BY <1>5
<1>8. [chainAsks EXCEPT ![i].state = st] = [chainAsks EXCEPT ![i] = z]  BY <1>1, <1>4
<1>9. QED  BY <1>1, <1>6, <1>7, <1>8

LEMMA PublishingIs == ASSUME ChainTypes PROVE Chain!Publishing = PublishedIn(chainAsks)
<1>1. DOMAIN chainAsks = 1..Len(chainAsks)  BY ChainIs
<1>2. QED  BY <1>1 DEF Chain!Publishing, PublishedIn

\* one request, if there is but one
LEMMA OneAsk == ASSUME ChainTypes, NEW i \in 1..Len(chainAsks), Len(chainAsks) <= 1 PROVE i = 1 /\ Len(chainAsks) = 1
<1>1. PICK n \in Nat : n = Len(chainAsks)  BY ChainIs
<1>2. \A m \in Nat : m <= 1 => \A j \in 1..m : j = 1 /\ m = 1  OBVIOUS
<1>3. n <= 1 /\ i \in 1..n  BY <1>1
<1>4. i = 1 /\ n = 1  BY <1>2, <1>3
<1>5. QED  BY <1>1, <1>4

LEMMA ChainCheck == ASSUME ChainInv, NEW i \in 1..Len(chainAsks), Chain!Check(i) PROVE ChainInv'
<1>1. ChainTypes /\ ChainShown /\ ChainComplete /\ Chain!AddedIsThere  BY DEF ChainInv
<1>2. PICK a : a = chainAsks[i]  OBVIOUS
<1>3. PICK st : st = (IF Chain!Complete(content) THEN "read" ELSE "refused")  OBVIOUS
<1>4. st \in {"sent", "read", "done", "refused"} /\ st \in {"read", "refused"}  BY <1>3
<1>5. a.op = "live" /\ a.state = "sent" /\ content' = content /\ adding' = adding /\ page' = page /\ chainPast' = chainPast
  BY <1>2 DEF Chain!Check
<1>6. chainAsks' = [chainAsks EXCEPT ![i].state = st]  BY <1>3 DEF Chain!Check
<1>7. PICK z \in ChainAsk : /\ [chainAsks EXCEPT ![i].state = st] = [chainAsks EXCEPT ![i] = z]
                            /\ z.op = chainAsks[i].op /\ z.object = chainAsks[i].object
                            /\ z.articles = chainAsks[i].articles /\ z.title = chainAsks[i].title /\ z.state = st
  BY <1>1, <1>4, MarkIs
<1>8. chainAsks' = [chainAsks EXCEPT ![i] = z]  BY <1>6, <1>7
<1>9. /\ z.op = a.op /\ z.state = st /\ chainAsks' \in Seq(ChainAsk) /\ Len(chainAsks') = Len(chainAsks) /\ chainAsks'[i] = z
      /\ (\A j \in 1..Len(chainAsks) : chainAsks'[j].object \in 1..Len(page.objects))
      /\ (\A g : ToShow(z, g) = ToShow(a, g)) /\ (\A c : ToStore(z, c) = ToStore(a, c))
      /\ (st # "read" /\ PublishedIn(chainAsks') => PublishedIn(chainAsks))
  <2>1. /\ chainAsks' \in Seq(ChainAsk) /\ Len(chainAsks') = Len(chainAsks) /\ chainAsks'[i] = z
        /\ (\A j \in 1..Len(chainAsks) : chainAsks'[j].object \in 1..Len(page.objects))
        /\ (\A g : ToShow(z, g) = ToShow(chainAsks[i], g))
        /\ (\A c : ToStore(z, c) = ToStore(chainAsks[i], c))
        /\ (st # "read" /\ PublishedIn(chainAsks') => PublishedIn(chainAsks))
    BY <1>1, <1>4, <1>7, <1>8, ChainMarked
  <2>2. QED  BY <1>2, <1>7, <2>1
<1>10. ChainTypes'  BY <1>1, <1>5, <1>9 DEF ChainTypes
<1>11. Len(chainAsks) \in Nat /\ Len(chainAsks) # 0 /\ chainAsks' # << >>
  <2>1. Len(chainAsks) \in Nat  BY <1>1, ChainIs
  <2>2. Len(chainAsks') # 0  BY <1>9, <2>1
  <2>3. QED  BY <1>9, <2>1, <2>2, EmptyIff
<1>12. ChainShown'
  <2> SUFFICES ASSUME ~chainPast'.overlapped, ~chainPast'.lost
               PROVE  /\ Len(chainAsks') <= 1
                      /\ chainAsks' = << >> => Shows(ShownBy(page'), content', chainPast'.added)
                      /\ \A j \in 1..Len(chainAsks') : ShownAfter(chainAsks'[j], page', content', chainPast'.added)
    BY DEF ChainShown
  <2>1. ~chainPast.overlapped /\ ~chainPast.lost  BY <1>5
  <2>2. Len(chainAsks) <= 1 /\ ShownAfter(a, page, content, chainPast.added)  BY <1>1, <1>2, <2>1 DEF ChainShown
  <2>3. i = 1 /\ Len(chainAsks) = 1  BY <1>1, <2>2, OneAsk
  <2>4. Shows(ToShow(a, page), ToStore(a, content), chainPast.added) /\ Shows(ShownBy(page), content, chainPast.added)
    BY <1>5, <2>2 DEF ShownAfter
  <2>5. ShownAfter(z, page, content, chainPast.added)
    <3>1. z.state \in {"sent", "read"} => Shows(ToShow(z, page), ToStore(z, content), chainPast.added)  BY <1>9, <2>4
    <3>2. z.state # "done" /\ z.op = "live"  BY <1>4, <1>5, <1>9
    <3>3. QED  BY <2>4, <3>1, <3>2 DEF ShownAfter
  <2>6. \A j \in 1..Len(chainAsks') : j = i  BY <1>9, <2>3
  <2>7. QED  BY <1>5, <1>9, <1>11, <2>2, <2>5, <2>6
<1>13. ChainComplete'
  <2> SUFFICES ASSUME ~chainPast'.emptied, content'.status = "live" \/ PublishedIn(chainAsks') PROVE Chain!Complete(content')
    BY DEF ChainComplete, Chain!Complete
  <2>1. CASE st = "read"  BY <1>3, <1>5, <2>1
  <2>2. CASE st # "read"
    <3>1. content.status = "live" \/ PublishedIn(chainAsks)  BY <1>5, <1>9, <2>2
    <3>2. Chain!Complete(content)  BY <1>1, <1>5, <3>1 DEF ChainComplete
    <3>3. QED  BY <1>5, <3>2
  <2>3. QED  BY <2>1, <2>2
<1>14. Chain!AddedIsThere'  BY <1>1, <1>5 DEF Chain!AddedIsThere
<1>15. QED  BY <1>10, <1>12, <1>13, <1>14 DEF ChainInv

\* the page has its answer, or never gets it
LEMMA ChainLeft == ASSUME ChainTypes, NEW i \in 1..Len(chainAsks), chainAsks' = Chain!Without(i)
  PROVE  /\ chainAsks' \in Seq(ChainAsk) /\ Len(chainAsks') = Len(chainAsks) - 1
         /\ \A j \in 1..Len(chainAsks') : \E k \in 1..Len(chainAsks) : chainAsks'[j] = chainAsks[k]
         /\ \A j \in 1..Len(chainAsks') : chainAsks'[j].object \in 1..Len(page.objects)
         /\ PublishedIn(chainAsks') => PublishedIn(chainAsks)
<1>1. chainAsks \in Seq(ChainAsk) /\ Len(chainAsks) \in Nat  BY ChainIs
<1>2. chainAsks' = Without(chainAsks, i)  BY DEF Chain!Without, Without
<1>3. /\ chainAsks' \in Seq(ChainAsk) /\ Len(chainAsks') = Len(chainAsks) - 1
      /\ \A j \in 1..(Len(chainAsks) - 1) : chainAsks'[j] = IF j < i THEN chainAsks[j] ELSE chainAsks[j + 1]
  BY <1>1, <1>2, WithoutOne
<1>4. \A j \in 1..Len(chainAsks') : \E k \in 1..Len(chainAsks) : chainAsks'[j] = chainAsks[k]
  <2> TAKE j \in 1..Len(chainAsks')
  <2>1. j \in 1..Len(chainAsks) /\ j + 1 \in 1..Len(chainAsks)  BY <1>1, <1>3
  <2>2. chainAsks'[j] = chainAsks[j] \/ chainAsks'[j] = chainAsks[j + 1]  BY <1>3
  <2>3. QED  BY <2>1, <2>2
<1>5. \A j \in 1..Len(chainAsks') : chainAsks'[j].object \in 1..Len(page.objects)  BY <1>4, ChainIs
<1>6. PublishedIn(chainAsks') => PublishedIn(chainAsks)  BY <1>4 DEF PublishedIn
<1>7. QED  BY <1>3, <1>4, <1>5, <1>6

LEMMA ChainAnswer == ASSUME ChainInv, NEW i \in 1..Len(chainAsks), Chain!Answer(i) PROVE ChainInv'
<1>1. ChainTypes /\ ChainShown /\ ChainComplete /\ Chain!AddedIsThere  BY DEF ChainInv
<1>2. PICK a : a = chainAsks[i]  OBVIOUS
<1>3. a \in ChainAsk /\ a.object \in 1..Len(page.objects)  BY <1>1, <1>2, ChainIs
<1>4. content' = content /\ adding' = adding /\ chainPast' = chainPast /\ a.state \in {"done", "refused"}
      /\ page' = (IF a.state = "done" THEN Chain!AfterAnswer(a) ELSE page) /\ chainAsks' = Chain!Without(i)
  BY <1>2 DEF Chain!Answer
<1>5. /\ chainAsks' \in Seq(ChainAsk) /\ Len(chainAsks') = Len(chainAsks) - 1
      /\ (\A j \in 1..Len(chainAsks') : chainAsks'[j].object \in 1..Len(page.objects))
      /\ (PublishedIn(chainAsks') => PublishedIn(chainAsks))
  BY <1>1, <1>4, ChainLeft
<1>6. /\ page' = [objects |-> page'.objects, current |-> page'.current]
      /\ page'.objects \in Seq(ChainContent) /\ Len(page'.objects) = Len(page.objects) /\ page'.current \in 1..Len(page'.objects)
      /\ ShownBy(page') = IF a.state = "done" THEN ToShow(a, page) ELSE ShownBy(page)
  <2>1. CASE a.state = "done"
    <3>1. page' = Chain!AfterAnswer(a)  BY <1>4, <2>1
    <3>2. PICK g : g = Chain!AfterAnswer(a)  OBVIOUS
    <3>3. /\ g = [objects |-> g.objects, current |-> g.current]
          /\ g.objects \in Seq(ChainContent) /\ Len(g.objects) = Len(page.objects) /\ g.current \in 1..Len(g.objects)
          /\ ShownBy(g) = ToShow(a, page)
      BY <1>1, <1>3, <3>2, AfterIs
    <3>4. page' = g  BY <3>1, <3>2
    <3>5. QED  BY <2>1, <3>3, <3>4
  <2>2. CASE a.state # "done"
    <3>1. page' = page  BY <1>4, <2>2
    <3>2. QED  BY <1>1, <2>2, <3>1, ChainIs
  <2>3. QED  BY <2>1, <2>2
<1>7. ChainTypes'
  <2>1. content \in ChainContent /\ adding \subseteq Posts
        /\ chainPast \in [edits : Nat, others : Nat, overlapped : BOOLEAN, emptied : BOOLEAN, lost : BOOLEAN, listed : BOOLEAN,
                          added : SUBSET Posts]
    BY <1>1 DEF ChainTypes
  <2>2. QED  BY <1>4, <1>5, <1>6, <2>1 DEF ChainTypes
<1>8. ChainShown'
  <2> SUFFICES ASSUME ~chainPast'.overlapped, ~chainPast'.lost
               PROVE  /\ Len(chainAsks') <= 1
                      /\ Shows(ShownBy(page'), content', chainPast'.added)
                      /\ \A j \in 1..Len(chainAsks') : FALSE
    BY DEF ChainShown
  <2>1. ~chainPast.overlapped /\ ~chainPast.lost  BY <1>4
  <2>2. Len(chainAsks) <= 1 /\ ShownAfter(a, page, content, chainPast.added)  BY <1>1, <1>2, <2>1 DEF ChainShown
  <2>3. Len(chainAsks') = 0
    <3>1. Len(chainAsks) = 1  BY <1>1, <2>2, OneAsk
    <3>2. QED  BY <1>5, <3>1
  <2>4. a.state = "done" => Shows(ToShow(a, page), content, chainPast.added)  BY <2>2 DEF ShownAfter
  <2>5. a.state # "done" => Shows(ShownBy(page), content, chainPast.added)
    <3>1. a.state # "done" => a.op = "live"  BY <1>4, <2>2 DEF ShownAfter
    <3>2. QED  BY <2>2, <3>1 DEF ShownAfter
  <2>6. Shows(ShownBy(page'), content, chainPast.added)  BY <1>6, <2>4, <2>5
  <2>7. QED  BY <1>4, <2>3, <2>6
<1>9. ChainComplete'
  <2> SUFFICES ASSUME ~chainPast'.emptied, content'.status = "live" \/ PublishedIn(chainAsks') PROVE Chain!Complete(content')
    BY DEF ChainComplete, Chain!Complete
  <2>1. Chain!Complete(content)  BY <1>1, <1>4, <1>5 DEF ChainComplete
  <2>2. QED  BY <1>4, <2>1
<1>10. Chain!AddedIsThere'  BY <1>1, <1>4 DEF Chain!AddedIsThere
<1>11. QED  BY <1>7, <1>8, <1>9, <1>10 DEF ChainInv

LEMMA ChainEdit == ASSUME ChainInv, NEW i \in 1..Len(chainAsks), Chain!Edit(i) PROVE ChainInv'
<1>1. ChainTypes /\ ChainShown /\ ChainComplete /\ Chain!AddedIsThere  BY DEF ChainInv
<1>2. PICK a : a = chainAsks[i]  OBVIOUS
<1>3. a \in ChainAsk /\ a.op \in {"title", "media", "articles", "live", "unpublish"}  BY <1>1, <1>2, ChainIs DEF ChainAsk
<1>4. a.state = (IF a.op = "live" THEN "read" ELSE "sent") /\ adding' = adding /\ page' = page /\ content' = Chain!Edited(a)
  BY <1>2 DEF Chain!Edit
<1>5. content \in ChainContent /\ content' = ToStore(a, content)  BY <1>1, <1>4, EditedIs DEF ChainTypes
<1>6. /\ content' \in ChainContent
      /\ a.op = "title" => content' = [title |-> a.title, media |-> content.media, articles |-> content.articles, status |-> content.status]
      /\ a.op = "media" => content' = [title |-> content.title, media |-> TRUE, articles |-> content.articles, status |-> content.status]
      /\ a.op = "articles" => content' = [title |-> content.title, media |-> content.media, articles |-> a.articles, status |-> content.status]
      /\ a.op = "live" => content' = [title |-> content.title, media |-> content.media, articles |-> content.articles, status |-> "live"]
      /\ a.op = "unpublish" => content' = [title |-> content.title, media |-> content.media, articles |-> content.articles, status |-> "draft"]
  BY <1>3, <1>5, StoredIs
<1>7. /\ a.op # "articles" => content'.articles = content.articles
      /\ a.op \notin {"live", "unpublish"} => content'.status = content.status
      /\ a.op = "unpublish" => content'.status = "draft"
  BY <1>3, <1>6
<1>8. a.op # "articles" /\ Chain!Complete(content) => Chain!Complete(content')
  <2> HAVE a.op # "articles" /\ Chain!Complete(content)
  <2>1. content.media /\ content'.articles # {}  BY <1>7 DEF Chain!Complete
  <2>2. content'.media
    <3>1. CASE a.op = "media"
      <4>1. PICK d : d = TRUE  OBVIOUS
      <4>2. content' = [title |-> content.title, media |-> d, articles |-> content.articles, status |-> content.status]
        BY <1>6, <3>1, <4>1
      <4>3. content'.media = d  BY <4>2
      <4>4. QED  BY <4>1, <4>3
    <3>2. CASE a.op # "media"
      <4>1. content'.media = content.media  BY <1>3, <1>6, <3>2
      <4>2. QED  BY <2>1, <4>1
    <3>3. QED  BY <3>1, <3>2
  <2>3. QED  BY <2>1, <2>2 DEF Chain!Complete
<1>9. PICK z \in ChainAsk : /\ [chainAsks EXCEPT ![i].state = "done"] = [chainAsks EXCEPT ![i] = z]
                            /\ z.op = chainAsks[i].op /\ z.object = chainAsks[i].object
                            /\ z.articles = chainAsks[i].articles /\ z.title = chainAsks[i].title /\ z.state = "done"
  BY <1>1, MarkIs
<1>10. chainAsks' = [chainAsks EXCEPT ![i] = z]  BY <1>9 DEF Chain!Edit
<1>11. /\ z.op = a.op /\ chainAsks' \in Seq(ChainAsk) /\ Len(chainAsks') = Len(chainAsks) /\ chainAsks'[i] = z
       /\ (\A j \in 1..Len(chainAsks) : chainAsks'[j].object \in 1..Len(page.objects))
       /\ ToShow(z, page) = ToShow(a, page) /\ (PublishedIn(chainAsks') => PublishedIn(chainAsks))
  <2>1. /\ chainAsks' \in Seq(ChainAsk) /\ Len(chainAsks') = Len(chainAsks) /\ chainAsks'[i] = z
        /\ (\A j \in 1..Len(chainAsks) : chainAsks'[j].object \in 1..Len(page.objects))
        /\ (\A g : ToShow(z, g) = ToShow(chainAsks[i], g))
        /\ ("done" # "read" /\ PublishedIn(chainAsks') => PublishedIn(chainAsks))
    BY <1>1, <1>9, <1>10, ChainMarked
  <2>2. QED  BY <1>2, <1>9, <2>1
<1>12. PICK h : h = chainPast  OBVIOUS
<1>13. h = [edits |-> h.edits, others |-> h.others, overlapped |-> h.overlapped, emptied |-> h.emptied, lost |-> h.lost,
            listed |-> h.listed, added |-> h.added]
       /\ h.edits \in Nat /\ h.others \in Nat /\ h.overlapped \in BOOLEAN /\ h.lost \in BOOLEAN /\ h.added \in SUBSET Posts
  BY <1>1, <1>12, ChainPastIs
<1>14. PICK d \in BOOLEAN : d = (chainPast.emptied \/ (/\ chainAsks[i].op = "articles" /\ (content.status = "live" \/ Chain!Publishing)
                                                       /\ ~Chain!Complete(content')))
  OBVIOUS
<1>15. PICK e \in BOOLEAN : e = (chainPast.listed \/ chainAsks[i].op = "articles")  OBVIOUS
<1>16. chainPast' = [h EXCEPT !.emptied = d, !.listed = e]  BY <1>12, <1>14, <1>15 DEF Chain!Edit
<1>17. chainPast' = [edits |-> h.edits, others |-> h.others, overlapped |-> h.overlapped, emptied |-> d, lost |-> h.lost,
                     listed |-> e, added |-> h.added]
  BY <1>13, <1>16
<1>18. chainPast' \in [edits : Nat, others : Nat, overlapped : BOOLEAN, emptied : BOOLEAN, lost : BOOLEAN, listed : BOOLEAN,
                       added : SUBSET Posts]
  BY <1>13, <1>17
<1>19. /\ chainPast'.overlapped = chainPast.overlapped /\ chainPast'.emptied = d /\ chainPast'.lost = chainPast.lost
       /\ chainPast'.listed = e /\ chainPast'.added = chainPast.added
  BY <1>12, <1>17
<1>20. ChainTypes'
  <2>1. /\ adding \subseteq Posts /\ page.objects \in Seq(ChainContent) /\ page.current \in 1..Len(page.objects)
        /\ page = [objects |-> page.objects, current |-> page.current]
    BY <1>1 DEF ChainTypes
  <2>2. QED  BY <1>4, <1>6, <1>11, <1>18, <2>1 DEF ChainTypes
<1>21. ChainShown'
  <2> SUFFICES ASSUME ~chainPast'.overlapped, ~chainPast'.lost
               PROVE  /\ Len(chainAsks') <= 1
                      /\ chainAsks' = << >> => Shows(ShownBy(page'), content', chainPast'.added)
                      /\ \A j \in 1..Len(chainAsks') : ShownAfter(chainAsks'[j], page', content', chainPast'.added)
    BY DEF ChainShown
  <2>1. ~chainPast.overlapped /\ ~chainPast.lost  BY <1>19
  <2>2. Len(chainAsks) <= 1 /\ ShownAfter(a, page, content, chainPast.added)  BY <1>1, <1>2, <2>1 DEF ChainShown
  <2>3. i = 1 /\ Len(chainAsks) = 1  BY <1>1, <2>2, OneAsk
  <2>4. chainAsks' # << >>
    <3>1. Len(chainAsks') # 0  BY <1>11, <2>3
    <3>2. QED  BY <1>11, <3>1, EmptyIff
  <2>5. Shows(ToShow(a, page), ToStore(a, content), chainPast.added)
    <3>1. a.state \in {"sent", "read"}  BY <1>4
    <3>2. QED  BY <2>2, <3>1 DEF ShownAfter
  <2>6. Shows(ToShow(z, page), content', chainPast.added)  BY <1>5, <1>11, <2>5
  <2>7. ShownAfter(z, page, content', chainPast.added)  BY <1>9, <2>6 DEF ShownAfter
  <2>8. \A j \in 1..Len(chainAsks') : j = i  BY <1>11, <2>3
  <2>9. QED  BY <1>4, <1>11, <1>19, <2>2, <2>4, <2>7, <2>8
<1>22. ChainComplete'
  <2> SUFFICES ASSUME ~chainPast'.emptied, content'.status = "live" \/ PublishedIn(chainAsks') PROVE Chain!Complete(content')
    BY DEF ChainComplete, Chain!Complete
  <2>1. ~d  BY <1>19
  <2>2. ~chainPast.emptied  BY <1>14, <2>1
  <2>3. (content.status = "live" \/ PublishedIn(chainAsks)) => Chain!Complete(content)  BY <1>1, <2>2 DEF ChainComplete
  <2>4. CASE a.op = "articles"
    <3>1. content'.status = content.status  BY <1>7, <2>4
    <3>2. content.status = "live" \/ Chain!Publishing  BY <1>1, <1>11, <3>1, PublishingIs
    <3>3. QED  BY <1>2, <1>14, <2>1, <2>4, <3>2
  <2>5. CASE a.op # "articles"
    <3>1. content.status = "live" \/ PublishedIn(chainAsks)
      <4>1. CASE a.op = "live"
        <5>1. chainAsks[i].op = "live" /\ chainAsks[i].state = "read"  BY <1>2, <1>4, <4>1
        <5>2. QED  BY <5>1 DEF PublishedIn
      <4>2. CASE a.op = "unpublish"  BY <1>7, <1>11, <4>2
      <4>3. CASE a.op \notin {"live", "unpublish"}  BY <1>7, <1>11, <4>3
      <4>4. QED  BY <4>1, <4>2, <4>3
    <3>2. QED  BY <1>8, <2>3, <2>5, <3>1
  <2>6. QED  BY <2>4, <2>5
<1>23. Chain!AddedIsThere'
  <2> SUFFICES ASSUME ~chainPast'.listed PROVE chainPast'.added \subseteq content'.articles
    BY DEF Chain!AddedIsThere
  <2>1. ~e  BY <1>19
  <2>2. ~chainPast.listed /\ a.op # "articles"  BY <1>2, <1>15, <2>1
  <2>3. chainPast.added \subseteq content.articles  BY <1>1, <2>2 DEF Chain!AddedIsThere
  <2>4. QED  BY <1>7, <1>19, <2>2, <2>3
<1>24. QED  BY <1>20, <1>21, <1>22, <1>23 DEF ChainInv

LEMMA ChainLose == ASSUME ChainInv, NEW i \in 1..Len(chainAsks), Chain!Lose(i) PROVE ChainInv'
<1>1. ChainTypes /\ ChainShown /\ ChainComplete /\ Chain!AddedIsThere  BY DEF ChainInv
<1>2. content' = content /\ adding' = adding /\ page' = page /\ chainAsks' = Chain!Without(i)  BY DEF Chain!Lose
<1>3. /\ chainAsks' \in Seq(ChainAsk) /\ (\A j \in 1..Len(chainAsks') : chainAsks'[j].object \in 1..Len(page.objects))
      /\ (PublishedIn(chainAsks') => PublishedIn(chainAsks))
  BY <1>1, <1>2, ChainLeft
<1>4. PICK h : h = chainPast  OBVIOUS
<1>5. h = [edits |-> h.edits, others |-> h.others, overlapped |-> h.overlapped, emptied |-> h.emptied, lost |-> h.lost,
           listed |-> h.listed, added |-> h.added]
      /\ h.edits \in Nat /\ h.others \in Nat /\ h.overlapped \in BOOLEAN /\ h.emptied \in BOOLEAN /\ h.listed \in BOOLEAN
      /\ h.added \in SUBSET Posts
  BY <1>1, <1>4, ChainPastIs
<1>6. PICK d \in BOOLEAN : d = TRUE  OBVIOUS
<1>7. chainPast' = [h EXCEPT !.lost = d]  BY <1>4, <1>6 DEF Chain!Lose
<1>8. chainPast' = [edits |-> h.edits, others |-> h.others, overlapped |-> h.overlapped, emptied |-> h.emptied, lost |-> d,
                    listed |-> h.listed, added |-> h.added]
  BY <1>5, <1>7
<1>9. chainPast' \in [edits : Nat, others : Nat, overlapped : BOOLEAN, emptied : BOOLEAN, lost : BOOLEAN, listed : BOOLEAN,
                      added : SUBSET Posts]
  BY <1>5, <1>8
<1>10. chainPast'.emptied = chainPast.emptied /\ chainPast'.lost = d /\ chainPast'.listed = chainPast.listed
       /\ chainPast'.added = chainPast.added
  BY <1>4, <1>8
<1>11. ChainTypes'
  <2>1. /\ content \in ChainContent /\ adding \subseteq Posts /\ page.objects \in Seq(ChainContent)
        /\ page.current \in 1..Len(page.objects) /\ page = [objects |-> page.objects, current |-> page.current]
    BY <1>1 DEF ChainTypes
  <2>2. QED  BY <1>2, <1>3, <1>9, <2>1 DEF ChainTypes
<1>12. ChainShown'  BY <1>6, <1>10 DEF ChainShown
<1>13. ChainComplete'
  <2> SUFFICES ASSUME ~chainPast'.emptied, content'.status = "live" \/ PublishedIn(chainAsks') PROVE Chain!Complete(content')
    BY DEF ChainComplete, Chain!Complete
  <2>1. Chain!Complete(content)  BY <1>1, <1>2, <1>3, <1>10 DEF ChainComplete
  <2>2. QED  BY <1>2, <2>1
<1>14. Chain!AddedIsThere'  BY <1>1, <1>2, <1>10 DEF Chain!AddedIsThere
<1>15. QED  BY <1>11, <1>12, <1>13, <1>14 DEF ChainInv

LEMMA ChainAddCheck == ASSUME ChainInv, Chain!AddCheck PROVE ChainInv'
<1>1. ChainTypes /\ ChainShown /\ ChainComplete /\ Chain!AddedIsThere  BY DEF ChainInv
<1>2. content' = content /\ page' = page /\ chainAsks' = chainAsks  BY DEF Chain!AddCheck
<1>3. PICK p \in Posts \ (content.articles \union adding) : adding' = adding \union {p}  BY DEF Chain!AddCheck
<1>4. adding' \subseteq Posts  BY <1>1, <1>3 DEF ChainTypes
<1>5. PICK h, n : h = chainPast /\ n = chainPast.others + 1  OBVIOUS
<1>6. h = [edits |-> h.edits, others |-> h.others, overlapped |-> h.overlapped, emptied |-> h.emptied, lost |-> h.lost,
           listed |-> h.listed, added |-> h.added]
      /\ h.edits \in Nat /\ h.overlapped \in BOOLEAN /\ h.emptied \in BOOLEAN /\ h.lost \in BOOLEAN /\ h.listed \in BOOLEAN
      /\ h.added \in SUBSET Posts
  BY <1>1, <1>5, ChainPastIs
<1>7. n \in Nat  BY <1>1, <1>5, ChainPastIs
<1>8. chainPast' = [h EXCEPT !.others = n]  BY <1>5 DEF Chain!AddCheck
<1>9. chainPast' = [edits |-> h.edits, others |-> n, overlapped |-> h.overlapped, emptied |-> h.emptied, lost |-> h.lost,
                    listed |-> h.listed, added |-> h.added]
  BY <1>6, <1>8
<1>10. chainPast' \in [edits : Nat, others : Nat, overlapped : BOOLEAN, emptied : BOOLEAN, lost : BOOLEAN, listed : BOOLEAN,
                       added : SUBSET Posts]
  BY <1>6, <1>7, <1>9
<1>11. chainPast'.overlapped = chainPast.overlapped /\ chainPast'.emptied = chainPast.emptied
       /\ chainPast'.lost = chainPast.lost /\ chainPast'.listed = chainPast.listed /\ chainPast'.added = chainPast.added
  BY <1>5, <1>9
<1>12. ChainTypes'  BY <1>1, <1>2, <1>4, <1>10 DEF ChainTypes
<1>13. ChainShown'  BY <1>1, <1>2, <1>11 DEF ChainShown
<1>14. ChainComplete'  BY <1>1, <1>2, <1>11 DEF ChainComplete, Chain!Complete
<1>15. Chain!AddedIsThere'  BY <1>1, <1>2, <1>11 DEF Chain!AddedIsThere
<1>16. QED  BY <1>12, <1>13, <1>14, <1>15 DEF ChainInv

\* a post which others add changes nothing else
LEMMA ShowsMore == ASSUME NEW s, NEW c \in ChainContent, NEW x, NEW p \in Posts, NEW d, d = [c EXCEPT !.articles = @ \union {p}]
  PROVE  /\ d = [title |-> c.title, media |-> c.media, articles |-> c.articles \union {p}, status |-> c.status]
         /\ d \in ChainContent
         /\ Shows(s, c, x) => Shows(s, d, x \union {p})
<1>1. c = [title |-> c.title, media |-> c.media, articles |-> c.articles, status |-> c.status]
      /\ c.title \in Nat /\ c.media \in BOOLEAN /\ c.articles \in SUBSET Posts /\ c.status \in {"draft", "live"}
  BY ContentIs
<1>2. d = [title |-> c.title, media |-> c.media, articles |-> c.articles \union {p}, status |-> c.status]  BY <1>1
<1>3. c.articles \union {p} \in SUBSET Posts  BY <1>1
<1>4. d \in ChainContent  BY <1>1, <1>2, <1>3 DEF ChainContent
<1>5. d.title = c.title /\ d.media = c.media /\ d.status = c.status /\ d.articles = c.articles \union {p}  BY <1>2
<1>6. Shows(s, c, x) => Shows(s, d, x \union {p})  BY <1>5 DEF Shows
<1>7. QED  BY <1>2, <1>4, <1>6

LEMMA StoresMore == ASSUME NEW s, NEW c \in ChainContent, NEW x, NEW p \in Posts, NEW d,
                           d = [title |-> c.title, media |-> c.media, articles |-> c.articles \union {p}, status |-> c.status],
                           d \in ChainContent, NEW a \in ChainAsk, Shows(s, ToStore(a, c), x)
  PROVE  Shows(s, ToStore(a, d), x \union {p})
<1>1. a.op \in {"title", "media", "articles", "live", "unpublish"}  BY DEF ChainAsk
<1>2. d.title = c.title /\ d.media = c.media /\ d.status = c.status /\ d.articles = c.articles \union {p}  OBVIOUS
<1>3. PICK e, f : e = ToStore(a, c) /\ f = ToStore(a, d)  OBVIOUS
<1>4. PICK m : m = TRUE  OBVIOUS
<1>5. f.title = e.title /\ f.media = e.media /\ f.status = e.status /\ e.articles \subseteq f.articles /\ f.articles \subseteq e.articles \union {p}
  <2>1. CASE a.op = "title"
    <3>1. e = [title |-> a.title, media |-> c.media, articles |-> c.articles, status |-> c.status]  BY <1>3, <2>1, StoredIs
    <3>2. f = [title |-> a.title, media |-> d.media, articles |-> d.articles, status |-> d.status]  BY <1>3, <2>1, StoredIs
    <3>3. QED  BY <1>2, <3>1, <3>2
  <2>2. CASE a.op = "media"
    <3>1. e = [title |-> c.title, media |-> m, articles |-> c.articles, status |-> c.status]  BY <1>3, <1>4, <2>2, StoredIs
    <3>2. f = [title |-> d.title, media |-> m, articles |-> d.articles, status |-> d.status]  BY <1>3, <1>4, <2>2, StoredIs
    <3>3. QED  BY <1>2, <3>1, <3>2
  <2>3. CASE a.op = "articles"
    <3>1. e = [title |-> c.title, media |-> c.media, articles |-> a.articles, status |-> c.status]  BY <1>3, <2>3, StoredIs
    <3>2. f = [title |-> d.title, media |-> d.media, articles |-> a.articles, status |-> d.status]  BY <1>3, <2>3, StoredIs
    <3>3. QED  BY <1>2, <3>1, <3>2
  <2>4. CASE a.op = "live"
    <3>1. e = [title |-> c.title, media |-> c.media, articles |-> c.articles, status |-> "live"]  BY <1>3, <2>4, StoredIs
    <3>2. f = [title |-> d.title, media |-> d.media, articles |-> d.articles, status |-> "live"]  BY <1>3, <2>4, StoredIs
    <3>3. QED  BY <1>2, <3>1, <3>2
  <2>5. CASE a.op = "unpublish"
    <3>1. e = [title |-> c.title, media |-> c.media, articles |-> c.articles, status |-> "draft"]  BY <1>3, <2>5, StoredIs
    <3>2. f = [title |-> d.title, media |-> d.media, articles |-> d.articles, status |-> "draft"]  BY <1>3, <2>5, StoredIs
    <3>3. QED  BY <1>2, <3>1, <3>2
  <2>6. QED  BY <1>1, <2>1, <2>2, <2>3, <2>4, <2>5
<1>6. Shows(s, e, x)  BY <1>3
<1>7. Shows(s, f, x \union {p})  BY <1>5, <1>6 DEF Shows
<1>8. QED  BY <1>3, <1>7

LEMMA ChainAddWrite == ASSUME ChainInv, Chain!AddWrite PROVE ChainInv'
<1>1. ChainTypes /\ ChainShown /\ ChainComplete /\ Chain!AddedIsThere  BY DEF ChainInv
<1>2. page' = page /\ chainAsks' = chainAsks  BY DEF Chain!AddWrite
<1>3. PICK p \in adding : /\ content' = [content EXCEPT !.articles = @ \union {p}]
                          /\ adding' = adding \ {p}
                          /\ chainPast' = [chainPast EXCEPT !.added = @ \union {p}]
  BY DEF Chain!AddWrite
<1>4. p \in Posts /\ adding' \subseteq Posts /\ content \in ChainContent  BY <1>1, <1>3 DEF ChainTypes
<1>5. PICK h, y : h = chainPast /\ y = chainPast.added \union {p}  OBVIOUS
<1>6. h = [edits |-> h.edits, others |-> h.others, overlapped |-> h.overlapped, emptied |-> h.emptied, lost |-> h.lost,
           listed |-> h.listed, added |-> h.added]
      /\ h.edits \in Nat /\ h.others \in Nat /\ h.overlapped \in BOOLEAN /\ h.emptied \in BOOLEAN /\ h.lost \in BOOLEAN
      /\ h.listed \in BOOLEAN /\ h.added \in SUBSET Posts
  BY <1>1, <1>5, ChainPastIs
<1>7. y \in SUBSET Posts  BY <1>4, <1>5, <1>6
<1>8. chainPast' = [h EXCEPT !.added = y]  BY <1>3, <1>5, <1>6
<1>9. chainPast' = [edits |-> h.edits, others |-> h.others, overlapped |-> h.overlapped, emptied |-> h.emptied, lost |-> h.lost,
                    listed |-> h.listed, added |-> y]
  BY <1>6, <1>8
<1>10. chainPast' \in [edits : Nat, others : Nat, overlapped : BOOLEAN, emptied : BOOLEAN, lost : BOOLEAN, listed : BOOLEAN,
                       added : SUBSET Posts]
  BY <1>6, <1>7, <1>9
<1>11. chainPast'.overlapped = chainPast.overlapped /\ chainPast'.emptied = chainPast.emptied
       /\ chainPast'.lost = chainPast.lost /\ chainPast'.listed = chainPast.listed /\ chainPast'.added = chainPast.added \union {p}
  BY <1>5, <1>9
<1>12. PICK c, d : c = content /\ d = [c EXCEPT !.articles = @ \union {p}]  OBVIOUS
<1>13. content' = d /\ c \in ChainContent  BY <1>3, <1>4, <1>12
<1>14. /\ d = [title |-> c.title, media |-> c.media, articles |-> c.articles \union {p}, status |-> c.status]
       /\ d \in ChainContent
       /\ \A s, x : Shows(s, c, x) => Shows(s, d, x \union {p})
  BY <1>4, <1>12, <1>13, ShowsMore
<1>15. d.status = c.status /\ d.media = c.media /\ d.articles = c.articles \union {p}  BY <1>14
<1>16. ChainTypes'
  <2>1. /\ page.objects \in Seq(ChainContent) /\ page.current \in 1..Len(page.objects)
        /\ page = [objects |-> page.objects, current |-> page.current] /\ chainAsks \in Seq(ChainAsk)
        /\ \A i \in 1..Len(chainAsks) : chainAsks[i].object \in 1..Len(page.objects)
    BY <1>1 DEF ChainTypes
  <2>2. QED  BY <1>2, <1>4, <1>10, <1>13, <1>14, <2>1 DEF ChainTypes
<1>17. ChainShown'
  <2> SUFFICES ASSUME ~chainPast'.overlapped, ~chainPast'.lost
               PROVE  /\ Len(chainAsks') <= 1
                      /\ chainAsks' = << >> => Shows(ShownBy(page'), content', chainPast'.added)
                      /\ \A i \in 1..Len(chainAsks') : ShownAfter(chainAsks'[i], page', content', chainPast'.added)
    BY DEF ChainShown
  <2>1. ~chainPast.overlapped /\ ~chainPast.lost  BY <1>11
  <2>2. /\ Len(chainAsks) <= 1
        /\ chainAsks = << >> => Shows(ShownBy(page), c, chainPast.added)
        /\ \A i \in 1..Len(chainAsks) : ShownAfter(chainAsks[i], page, c, chainPast.added)
    BY <1>1, <1>12, <2>1 DEF ChainShown
  <2>3. chainAsks = << >> => Shows(ShownBy(page), d, chainPast.added \union {p})  BY <1>14, <2>2
  <2>4. ASSUME NEW i \in 1..Len(chainAsks) PROVE ShownAfter(chainAsks[i], page, d, chainPast.added \union {p})
    <3>1. PICK a : a = chainAsks[i]  OBVIOUS
    <3>2. a \in ChainAsk  BY <1>1, <3>1, ChainIs
    <3>3. ShownAfter(a, page, c, chainPast.added)  BY <2>2, <3>1
    <3>4. a.state \in {"sent", "read"} => Shows(ToShow(a, page), ToStore(a, d), chainPast.added \union {p})
      <4> HAVE a.state \in {"sent", "read"}
      <4>1. Shows(ToShow(a, page), ToStore(a, c), chainPast.added)  BY <3>3 DEF ShownAfter
      <4>2. QED  BY <1>4, <1>13, <1>14, <3>2, <4>1, StoresMore
    <3>5. a.state = "done" => Shows(ToShow(a, page), d, chainPast.added \union {p})  BY <1>14, <3>3 DEF ShownAfter
    <3>6. a.op = "live" /\ a.state # "done" => Shows(ShownBy(page), d, chainPast.added \union {p})  BY <1>14, <3>3 DEF ShownAfter
    <3>7. a.state = "refused" => a.op = "live"  BY <3>3 DEF ShownAfter
    <3>8. QED  BY <3>1, <3>4, <3>5, <3>6, <3>7 DEF ShownAfter
  <2>5. QED  BY <1>2, <1>11, <1>13, <2>2, <2>3, <2>4
<1>18. ChainComplete'
  <2> SUFFICES ASSUME ~chainPast'.emptied, content'.status = "live" \/ PublishedIn(chainAsks') PROVE Chain!Complete(content')
    BY DEF ChainComplete, Chain!Complete
  <2>1. content.status = "live" \/ PublishedIn(chainAsks)  BY <1>2, <1>12, <1>13, <1>15
  <2>2. Chain!Complete(content)  BY <1>1, <1>11, <2>1 DEF ChainComplete
  <2>3. QED  BY <1>12, <1>13, <1>15, <2>2 DEF Chain!Complete
<1>19. Chain!AddedIsThere'
  <2> SUFFICES ASSUME ~chainPast'.listed PROVE chainPast'.added \subseteq content'.articles
    BY DEF Chain!AddedIsThere
  <2>1. chainPast.added \subseteq content.articles  BY <1>1, <1>11 DEF Chain!AddedIsThere
  <2>2. QED  BY <1>11, <1>12, <1>13, <1>15, <2>1
<1>20. QED  BY <1>16, <1>17, <1>18, <1>19 DEF ChainInv

LEMMA ChainStep == ASSUME ChainInv, Chain!Next \/ UNCHANGED chains PROVE ChainInv'
<1>1. DOMAIN chainAsks = 1..Len(chainAsks)  BY ChainIs DEF ChainInv
<1>2. CASE \E i \in DOMAIN chainAsks : Chain!Answer(i) \/ Chain!Lose(i) \/ Chain!Edit(i) \/ Chain!Check(i)
  <2>1. PICK i \in 1..Len(chainAsks) : Chain!Answer(i) \/ Chain!Lose(i) \/ Chain!Edit(i) \/ Chain!Check(i)  BY <1>1, <1>2
  <2>2. QED  BY <2>1, ChainAnswer, ChainLose, ChainEdit, ChainCheck
<1>3. QED  BY <1>2, ChainStays, ChainTitle, ChainImage, ChainArticles, ChainToggle, ChainAddCheck, ChainAddWrite DEF Chain!Next

-----------------------------------------------------------------------------
(* The dashboard among the others *)

LEMMA DashMoves == ASSUME [Next]_vars
  PROVE  /\ List!Next \/ UNCHANGED biglist
         /\ Field!Next \/ UNCHANGED autosave
         /\ Picker!Next \/ UNCHANGED topicpicker
         /\ Chain!Next \/ UNCHANGED chains
         /\ Cake!Next \/ UNCHANGED cakepops
BY DEF Next, vars, widgets

LEMMA ListAlways == Spec => []ListInv
<1>1. Init => ListInv  BY ListInit, BatchAssumption DEF Init
<1>2. ListInv /\ [Next]_vars => ListInv'  BY DashMoves, ListStep, BatchAssumption
<1>3. QED  BY <1>1, <1>2, PTL DEF Spec

LEMMA FieldAlways == Spec => []FieldInv
<1>1. Init => FieldInv  BY FieldInit DEF Init
<1>2. FieldInv /\ [Next]_vars => FieldInv'  BY DashMoves, FieldStep
<1>3. QED  BY <1>1, <1>2, PTL DEF Spec

LEMMA PickAlways == Spec => []PickInv
<1>1. Init => PickInv  BY PickInit DEF Init
<1>2. PickInv /\ [Next]_vars => PickInv'  BY DashMoves, PickStep, TopicsAssumption
<1>3. QED  BY <1>1, <1>2, PTL DEF Spec

LEMMA ChainAlways == Spec => []ChainInv
<1>1. Init => ChainInv  BY ChainInit DEF Init
<1>2. ChainInv /\ [Next]_vars => ChainInv'  BY DashMoves, ChainStep
<1>3. QED  BY <1>1, <1>2, PTL DEF Spec

LEMMA CakeAlways == Spec => []CakeInv
<1>1. Init => CakeInv  BY CakeInit, PopsAssumption DEF Init
<1>2. CakeInv /\ [Next]_vars => CakeInv'  BY DashMoves, CakeStep
<1>3. QED  BY <1>1, <1>2, PTL DEF Spec

\* widgets/biglist.js, widgets/form.js, pages/contentchains/edit.js, layout/cakepopsmanager.js: a list is
\* of the filter chosen, a field and a page show what is stored, the topic locked in is the end topic
\* which was picked, and what is gone was read, unless requests overlapped, overtook one another or were
\* lost; and a chain is live with all it takes.
THEOREM DashboardIsKept == Spec => []DashboardKept
<1>1. ListInv /\ FieldInv /\ PickInv /\ ChainInv /\ CakeInv => DashboardKept
  <2> HAVE ListInv /\ FieldInv /\ PickInv /\ ChainInv /\ CakeInv
  <2>1. List!ListOfFilter /\ List!OneFilter  BY ListGood, BatchAssumption
  <2>2. Field!ShownAsStored /\ Field!LastIsStored  BY FieldGood
  <2>3. Picker!StagedIsPicked /\ Picker!SlidesArePath /\ Picker!LockedIsEnd  BY PickGood
  <2>4. Chain!ShownIsStored /\ Chain!LiveIsComplete /\ Chain!AddedIsThere  BY ChainGood
  <2>5. Cake!GoneIsRead /\ Cake!OneAtATime  BY CakeGood
  <2>6. QED  BY <2>1, <2>2, <2>3, <2>4, <2>5 DEF DashboardKept
<1>2. QED  BY <1>1, ListAlways, FieldAlways, PickAlways, ChainAlways, CakeAlways, PTL

-----------------------------------------------------------------------------
(* What is counted for lists, and its types *)

\* a request adds a batch at most, and no more of them are answered than were sent
ListBounds ==
    /\ matching \in [Filters -> 0..MaxItems] /\ list.items \in Seq(List!Items) /\ list.loading \in BOOLEAN
    /\ loads \in Seq(List!Loads)
    /\ list.index + Len(loads) <= listPast.sent /\ listPast.sent \in 1..MaxRequests
    /\ listPast.overtaken \in BOOLEAN /\ listPast.doubled \in BOOLEAN /\ listPast.failed \in BOOLEAN

LEMMA SkipsAre == ASSUME NEW n \in Nat, n <= MaxRequests, BatchAssumption
  PROVE  n * Batch \in 0..(Batch * MaxRequests)
<1>1. MaxRequests \in Nat /\ Batch \in Nat  BY CountsAssumption DEF CountsAssumption, BatchAssumption
<1>2. PICK b, m, c : b = Batch /\ m = MaxRequests /\ c = m - n  OBVIOUS
<1>3. b \in Nat /\ m \in Nat /\ c \in Nat /\ m = n + c  BY <1>1, <1>2
<1>4. b * m = n * b + c * b /\ n * b \in Nat /\ c * b \in Nat  BY <1>3
<1>5. n * b \in 0..(b * m)  BY <1>4
<1>6. QED  BY <1>2, <1>5

LEMMA BatchItems == ASSUME ListTypes, ListBounds, BatchAssumption, NEW l \in ListLoad
  PROVE  List!BatchOf(l) \in Seq(List!Items)
<1>1. PICK m, a, b, k, g : /\ m = matching[l.filter] /\ a = Least(l.skip, m) /\ b = Least(Batch, m - a) /\ k = l.skip /\ g = l.filter
  OBVIOUS
<1>2. g \in Filters /\ k \in Nat  BY <1>1 DEF ListLoad
<1>3. m \in 0..MaxItems /\ MaxItems \in Nat /\ Batch \in Nat  BY <1>1, <1>2 DEF ListBounds, BatchAssumption
<1>4. a = (IF k <= m THEN k ELSE m) /\ b = (IF Batch <= m - a THEN Batch ELSE m - a)  BY <1>1 DEF Least
<1>5. b \in Nat /\ \A i \in 1..b : k + i \in 1..MaxItems  BY <1>2, <1>3, <1>4
<1>6. List!BatchOf(l) = [i \in 1..b |-> [filter |-> g, n |-> k + i]]  BY <1>1, BatchOfIs
<1>7. \A i \in 1..b : [filter |-> g, n |-> k + i] \in List!Items  BY <1>2, <1>5 DEF List!Items
<1>8. [i \in 1..b |-> [filter |-> g, n |-> k + i]] \in [1..b -> List!Items]  BY <1>7
<1>9. QED  BY <1>5, <1>6, <1>8, FunctionSeq

LEMMA ListBoundsInit == ASSUME List!Init, BatchAssumption PROVE ListBounds
<1>1. PICK f \in Filters : /\ list = [items |-> << >>, index |-> 0, filter |-> f, loading |-> TRUE]
                           /\ loads = <<[overwrite |-> TRUE, filter |-> f, skip |-> 0]>>
  BY DEF List!Init
<1>2. MaxRequests \in Nat \ {0} /\ Batch \in Nat  BY CountsAssumption DEF CountsAssumption, BatchAssumption
<1>3. listPast = [sent |-> 1, overtaken |-> FALSE, doubled |-> FALSE, failed |-> FALSE]  BY DEF List!Init
<1>4. Batch - 1 \in 0..MaxItems /\ MaxItems \in 0..MaxItems  BY DEF BatchAssumption
<1>5. matching \in [Filters -> 0..MaxItems]
  <2>1. {Batch - 1, MaxItems} \subseteq 0..MaxItems  BY <1>4
  <2>2. matching \in [Filters -> {Batch - 1, MaxItems}]  BY DEF List!Init
  <2>3. QED  BY <2>1, <2>2
<1>6. PICK l : l = [overwrite |-> TRUE, filter |-> f, skip |-> 0]  OBVIOUS
<1>7. 0 \in 0..(Batch * MaxRequests)
  <2>1. 0 \in Nat /\ 0 <= MaxRequests /\ 0 * Batch = 0  BY <1>2
  <2>2. 0 * Batch \in 0..(Batch * MaxRequests)  BY <2>1, SkipsAre
  <2>3. QED  BY <2>1, <2>2
<1>8. l \in List!Loads  BY <1>6, <1>7 DEF List!Loads
<1>9. loads \in Seq(List!Loads) /\ Len(loads) = 1  BY <1>1, <1>6, <1>8
<1>10. list.items = << >> /\ list.index = 0 /\ list.loading = TRUE  BY <1>1
<1>11. list.items \in Seq(List!Items)  BY <1>10
<1>12. 1 \in 1..MaxRequests  BY <1>2
<1>13. listPast.sent = 1 /\ listPast.overtaken = FALSE /\ listPast.doubled = FALSE /\ listPast.failed = FALSE  BY <1>3
<1>14. list.index + Len(loads) <= listPast.sent  BY <1>9, <1>10, <1>13
<1>15. QED  BY <1>5, <1>9, <1>10, <1>11, <1>12, <1>13, <1>14 DEF ListBounds

LEMMA ListBoundsKept == ASSUME ListInv, ListBounds, BatchAssumption, List!Next \/ UNCHANGED biglist PROVE ListBounds'
<1>1. ListTypes  BY DEF ListInv
<1>2. PICK f, g : f = list /\ g = listPast  OBVIOUS
<1>3. /\ f = [items |-> f.items, index |-> f.index, filter |-> f.filter, loading |-> f.loading]
      /\ g = [sent |-> g.sent, overtaken |-> g.overtaken, doubled |-> g.doubled, failed |-> g.failed]
      /\ f.filter \in Filters /\ f.index \in Nat
  BY <1>1, <1>2 DEF ListTypes
<1>4. /\ matching \in [Filters -> 0..MaxItems] /\ f.items \in Seq(List!Items) /\ f.loading \in BOOLEAN
      /\ loads \in Seq(List!Loads)
      /\ f.index + Len(loads) <= g.sent /\ g.sent \in 1..MaxRequests
      /\ g.overtaken \in BOOLEAN /\ g.doubled \in BOOLEAN /\ g.failed \in BOOLEAN
  BY <1>2 DEF ListBounds
<1>5. MaxRequests \in Nat /\ Batch \in Nat /\ Len(loads) \in Nat /\ g.sent \in Nat
  BY <1>1, <1>4, ListLoads, CountsAssumption DEF CountsAssumption, BatchAssumption
<1>6. CASE List!ChangeFilter
  <2>1. PICK z \in Filters : /\ list' = [f EXCEPT !.filter = z, !.index = 0, !.loading = TRUE]
                             /\ loads' = Append(loads, [overwrite |-> TRUE, filter |-> z, skip |-> 0])
    BY <1>2, <1>6 DEF List!ChangeFilter
  <2>2. g.sent < MaxRequests /\ matching' = matching /\ listPast' = [g EXCEPT !.sent = @ + 1]
    BY <1>2, <1>6 DEF List!ChangeFilter
  <2>3. PICK l, n : l = [overwrite |-> TRUE, filter |-> z, skip |-> 0] /\ n = g.sent + 1  OBVIOUS
  <2>4. l \in List!Loads
    <3>1. 0 \in Nat /\ 0 <= MaxRequests /\ 0 * Batch = 0  BY <1>5
    <3>2. 0 * Batch \in 0..(Batch * MaxRequests)  BY <3>1, SkipsAre
    <3>3. QED  BY <2>3, <3>1, <3>2 DEF List!Loads
  <2>5. loads' \in Seq(List!Loads) /\ Len(loads') = Len(loads) + 1  BY <1>4, <2>1, <2>3, <2>4, Lengthened
  <2>6. list'.items = f.items /\ list'.index = 0 /\ list'.loading = TRUE  BY <1>3, <2>1
  <2>7. listPast'.sent = n /\ listPast'.overtaken = g.overtaken /\ listPast'.doubled = g.doubled /\ listPast'.failed = g.failed
    BY <1>3, <2>2, <2>3
  <2>8. n \in 1..MaxRequests /\ 0 + Len(loads') <= n  BY <1>3, <1>4, <1>5, <2>2, <2>3, <2>5
  <2>9. QED  BY <1>4, <2>2, <2>5, <2>6, <2>7, <2>8 DEF ListBounds
<1>7. CASE List!LoadMore
  <2>1. PICK d \in BOOLEAN : d = (listPast.doubled \/ loads # << >>)  OBVIOUS
  <2>2. PICK l, n : l = [overwrite |-> FALSE, filter |-> f.filter, skip |-> f.index * Batch] /\ n = g.sent + 1  OBVIOUS
  <2>3. /\ list' = [f EXCEPT !.loading = FALSE] /\ loads' = Append(loads, l)
        /\ listPast' = [g EXCEPT !.sent = n, !.doubled = d] /\ matching' = matching /\ g.sent < MaxRequests
    BY <1>2, <1>7, <2>1, <2>2 DEF List!LoadMore
  <2>4. l \in List!Loads
    <3>1. f.index <= MaxRequests  BY <1>3, <1>4, <1>5
    <3>2. f.index * Batch \in 0..(Batch * MaxRequests)  BY <1>3, <3>1, SkipsAre
    <3>3. QED  BY <1>3, <2>2, <3>2 DEF List!Loads
  <2>5. loads' \in Seq(List!Loads) /\ Len(loads') = Len(loads) + 1  BY <1>4, <2>3, <2>4, Lengthened
  <2>6. list'.items = f.items /\ list'.index = f.index /\ list'.loading = FALSE  BY <1>3, <2>3
  <2>7. listPast'.sent = n /\ listPast'.overtaken = g.overtaken /\ listPast'.doubled = d /\ listPast'.failed = g.failed
    BY <1>3, <2>3
  <2>8. n \in 1..MaxRequests /\ f.index + Len(loads') <= n  BY <1>3, <1>4, <1>5, <2>2, <2>3, <2>5
  <2>9. QED  BY <1>4, <2>3, <2>5, <2>6, <2>7, <2>8 DEF ListBounds
<1>8. \A i : List!Without(i) = Without(loads, i)  BY DEF List!Without, Without
<1>9. ASSUME NEW i \in 1..Len(loads), loads' = List!Without(i) PROVE loads' \in Seq(List!Loads) /\ Len(loads') = Len(loads) - 1
  BY <1>4, <1>8, <1>9, WithoutOne
<1>10. CASE List!Answer
  <2>1. PICK p \in 1..Len(loads) :
          /\ list' = IF loads[p].overwrite THEN List!Overwritten(loads[p]) ELSE List!Added(loads[p])
          /\ loads' = List!Without(p) /\ listPast' = [listPast EXCEPT !.overtaken = @ \/ p # 1] /\ matching' = matching
    BY <1>1, <1>10, ListLoads DEF List!Answer
  <2>2. PICK d \in BOOLEAN : d = (listPast.overtaken \/ p # 1)  OBVIOUS
  <2>3. listPast' = [g EXCEPT !.overtaken = d]  BY <1>2, <2>1, <2>2
  <2>4. listPast'.sent = g.sent /\ listPast'.overtaken = d /\ listPast'.doubled = g.doubled /\ listPast'.failed = g.failed
    BY <1>3, <2>3
  <2>5. loads' \in Seq(List!Loads) /\ Len(loads') = Len(loads) - 1  BY <1>9, <2>1
  <2>6. PICK l, b : l = loads[p] /\ b = List!BatchOf(l)  OBVIOUS
  <2>7. l \in ListLoad  BY <1>1, <2>6, ListLoads
  <2>8. b \in Seq(List!Items)  BY <1>1, <2>6, <2>7, BatchItems
  <2>9. list'.items \in Seq(List!Items) /\ list'.loading = FALSE /\ (list'.index = 1 \/ list'.index = f.index + 1)
    <3>1. CASE l.overwrite
      <4>1. list' = [f EXCEPT !.items = b, !.index = 1, !.loading = FALSE]  BY <1>2, <2>1, <2>6, <3>1 DEF List!Overwritten
      <4>2. list'.items = b /\ list'.loading = FALSE /\ list'.index = 1  BY <1>3, <4>1
      <4>3. QED  BY <2>8, <4>2
    <3>2. CASE ~l.overwrite
      <4>1. PICK s, n : s = f.items \o b /\ n = f.index + 1  OBVIOUS
      <4>2. list' = [f EXCEPT !.items = s, !.index = n, !.loading = FALSE]  BY <1>2, <2>1, <2>6, <3>2, <4>1 DEF List!Added
      <4>3. list'.items = s /\ list'.loading = FALSE /\ list'.index = n  BY <1>3, <4>2
      <4>4. PICK t : t = f.items  OBVIOUS
      <4>5. t \in Seq(List!Items)  BY <1>4, <4>4
      <4>6. t \o b \in Seq(List!Items)  BY <2>8, <4>5, ConcatProperties
      <4>7. QED  BY <4>1, <4>3, <4>4, <4>6
    <3>3. QED  BY <3>1, <3>2
  <2>10. list'.index + Len(loads') <= g.sent
    <3>1. PICK x, y, a, c, k : x = f.index /\ y = list'.index /\ a = Len(loads) /\ c = Len(loads') /\ k = g.sent  OBVIOUS
    <3>2. x \in Nat /\ a \in Nat /\ k \in Nat /\ x + a <= k /\ c = a - 1 /\ (y = 1 \/ y = x + 1)
      BY <1>3, <1>4, <1>5, <2>5, <2>9, <3>1
    <3>3. y + c <= k  BY <3>2
    <3>4. QED  BY <3>1, <3>3
  <2>11. QED  BY <1>4, <2>1, <2>4, <2>5, <2>9, <2>10 DEF ListBounds
<1>11. CASE List!Fail
  <2>1. PICK p \in 1..Len(loads) :
          /\ loads' = List!Without(p) /\ listPast' = [g EXCEPT !.failed = TRUE] /\ matching' = matching /\ list' = f
    BY <1>1, <1>2, <1>11, ListLoads DEF List!Fail
  <2>2. listPast'.sent = g.sent /\ listPast'.overtaken = g.overtaken /\ listPast'.doubled = g.doubled /\ listPast'.failed = TRUE
    BY <1>3, <2>1
  <2>3. loads' \in Seq(List!Loads) /\ Len(loads') = Len(loads) - 1  BY <1>9, <2>1
  <2>4. f.index + Len(loads') <= g.sent  BY <1>3, <1>4, <1>5, <2>3
  <2>5. QED  BY <1>4, <2>1, <2>2, <2>3, <2>4 DEF ListBounds
<1>12. CASE UNCHANGED biglist  BY <1>12 DEF biglist, ListBounds, List!Items, List!Loads
<1>13. QED  BY <1>6, <1>7, <1>10, <1>11, <1>12 DEF List!Next

LEMMA ListTypesGood == ASSUME ListInv, ListBounds PROVE List!TypeOK
<1>1. PICK x, k, a : x = list.index /\ k = listPast.sent /\ a = Len(loads)  OBVIOUS
<1>2. ListTypes  BY DEF ListInv
<1>3. x \in Nat /\ a \in Nat /\ k \in 1..MaxRequests /\ x + a <= k  BY <1>1, <1>2, ListLoads DEF ListBounds, ListTypes
<1>4. MaxRequests \in Nat  BY CountsAssumption DEF CountsAssumption
<1>5. x \in 0..(MaxRequests + 1)  BY <1>3, <1>4
<1>6. QED  BY <1>1, <1>2, <1>5 DEF ListBounds, ListTypes, List!TypeOK

-----------------------------------------------------------------------------
(* What is counted for fields saved as one types, and its types *)

\* a timer, a request and a value kept is each of a change of its own
FieldBounds ==
    /\ fieldPast.changes <= MaxChanges /\ fieldPast.cuts <= MaxCuts
    /\ kept \in Seq(Field!Values) /\ wire \in Seq([value : Field!Values, status : {"sent", "stored", "refused"}])
    /\ told \in Field!Values /\ db \in Field!Values
    /\ field.timers + Len(wire) + Len(kept) <= fieldPast.changes

LEMMA FieldBoundsInit == ASSUME Field!Init PROVE FieldBounds
<1>1. /\ field = [value |-> 0, saving |-> FALSE, saved |-> FALSE, error |-> FALSE, timers |-> 0, last |-> FALSE]
      /\ told = 0 /\ db = 0 /\ kept = << >> /\ wire = << >>
      /\ fieldPast = [changes |-> 0, cuts |-> 0, overlapped |-> FALSE, lost |-> FALSE, refused |-> FALSE, reordered |-> FALSE]
  BY DEF Field!Init
<1>2. MaxChanges \in Nat /\ MaxCuts \in Nat  BY CountsAssumption DEF CountsAssumption
<1>3. 0 \in Field!Values  BY <1>2 DEF Field!Values
<1>4. /\ Len(wire) = 0 /\ Len(kept) = 0 /\ kept \in Seq(Field!Values)
      /\ wire \in Seq([value : Field!Values, status : {"sent", "stored", "refused"}])
  BY <1>1
<1>5. QED  BY <1>1, <1>2, <1>3, <1>4 DEF FieldBounds

LEMMA SentValues == ASSUME NEW s \in Seq(Field!Values)
  PROVE  /\ Field!Sent(s) \in Seq([value : Field!Values, status : {"sent", "stored", "refused"}])
         /\ Len(Field!Sent(s)) = Len(s)
<1>1. Len(s) \in Nat /\ DOMAIN s = 1..Len(s) /\ \A i \in 1..Len(s) : s[i] \in Field!Values  BY LenProperties
<1>2. Field!Sent(s) = [i \in 1..Len(s) |-> [value |-> s[i], status |-> "sent"]]  BY <1>1 DEF Field!Sent
<1>3. \A i \in 1..Len(s) : [value |-> s[i], status |-> "sent"] \in [value : Field!Values, status : {"sent", "stored", "refused"}]
  BY <1>1
<1>4. Field!Sent(s) \in [1..Len(s) -> [value : Field!Values, status : {"sent", "stored", "refused"}]]  BY <1>2, <1>3
<1>5. QED  BY <1>1, <1>4, FunctionSeq

LEMMA FieldBoundsKept == ASSUME FieldInv, FieldBounds, Field!Next \/ UNCHANGED autosave PROVE FieldBounds'
<1> DEFINE W == [value : Field!Values, status : {"sent", "stored", "refused"}]
<1>1. FieldTypes  BY DEF FieldInv
<1>2. PICK f, g : f = field /\ g = fieldPast  OBVIOUS
<1>3. /\ f = [value |-> f.value, saving |-> f.saving, saved |-> f.saved, error |-> f.error, timers |-> f.timers, last |-> f.last]
      /\ g = [changes |-> g.changes, cuts |-> g.cuts, overlapped |-> g.overlapped, lost |-> g.lost, refused |-> g.refused,
              reordered |-> g.reordered]
      /\ f.value = g.changes /\ f.timers \in Nat /\ g.changes \in Nat /\ g.cuts \in Nat /\ (f.last => f.timers > 0)
  BY <1>1, <1>2, FieldRecords DEF FieldRecord, FieldPastRecord, FieldTypes
<1>4. /\ g.changes <= MaxChanges /\ g.cuts <= MaxCuts /\ kept \in Seq(Field!Values) /\ wire \in Seq(W)
      /\ told \in Field!Values /\ db \in Field!Values /\ f.timers + Len(wire) + Len(kept) <= g.changes
  BY <1>2 DEF FieldBounds
<1>5. MaxChanges \in Nat /\ MaxCuts \in Nat  BY CountsAssumption DEF CountsAssumption
<1>6. Len(wire) \in Nat /\ Len(kept) \in Nat /\ DOMAIN wire = 1..Len(wire) /\ \A i \in 1..Len(wire) : wire[i] \in W
  BY <1>4, LenProperties
<1> HIDE DEF W
<1>7. CASE Field!Change
  <2>1. PICK v, n, o, d :
          /\ v = g.changes + 1 /\ n = (IF f.last THEN f.timers - 1 ELSE f.timers)
          /\ field' = [f EXCEPT !.value = v, !.saving = TRUE, !.timers = n, !.last = FALSE]
          /\ fieldPast' = [g EXCEPT !.changes = v, !.overlapped = o, !.lost = d]
          /\ kept' = (IF net.known THEN kept ELSE Append(kept, v))
          /\ wire' = (IF net.known /\ net.up THEN wire \o Field!Sent(<<v>>) ELSE wire)
    BY <1>2, <1>7 DEF Field!Change
  <2>2. g.changes < MaxChanges /\ told' = told /\ db' = db  BY <1>2, <1>7 DEF Field!Change
  <2>3. field'.timers = n /\ fieldPast'.changes = v /\ fieldPast'.cuts = g.cuts  BY <1>3, <2>1
  <2>4. n \in Nat /\ n <= f.timers /\ v <= MaxChanges /\ v \in Field!Values  BY <1>3, <1>5, <2>1, <2>2 DEF Field!Values
  <2>5. /\ kept' \in Seq(Field!Values) /\ wire' \in Seq(W)
        /\ \/ Len(kept') = Len(kept) /\ Len(wire') = Len(wire)
           \/ Len(kept') = Len(kept) + 1 /\ Len(wire') = Len(wire)
           \/ Len(kept') = Len(kept) /\ Len(wire') = Len(wire) + 1
    <3>1. CASE ~net.known
      <4>1. kept' = Append(kept, v) /\ wire' = wire  BY <2>1, <3>1
      <4>2. QED  BY <1>4, <2>4, <4>1, Lengthened
    <3>2. CASE net.known /\ net.up
      <4>1. kept' = kept /\ wire' = wire \o Field!Sent(<<v>>)  BY <2>1, <3>2
      <4>2. PICK t : t = <<v>>  OBVIOUS
      <4>3. t \in Seq(Field!Values) /\ Len(t) = 1  BY <2>4, <4>2
      <4>4. PICK s : s = Field!Sent(t)  OBVIOUS
      <4>5. s \in Seq(W) /\ Len(s) = 1  BY <4>3, <4>4, SentValues DEF W
      <4>6. wire \o s \in Seq(W) /\ Len(wire \o s) = Len(wire) + Len(s)  BY <1>4, <4>5, ConcatProperties
      <4>7. QED  BY <1>4, <4>1, <4>2, <4>4, <4>5, <4>6
    <3>3. CASE net.known /\ ~net.up  BY <1>4, <2>1, <3>3
    <3>4. QED  BY <3>1, <3>2, <3>3
  <2>6. n + Len(wire') + Len(kept') <= v
    <3>1. PICK t, c, a, b, x, y : /\ t = f.timers /\ c = g.changes /\ a = Len(wire) /\ b = Len(kept)
                                  /\ x = Len(wire') /\ y = Len(kept')
      OBVIOUS
    <3>2. t \in Nat /\ c \in Nat /\ a \in Nat /\ b \in Nat /\ t + a + b <= c /\ v = c + 1  BY <1>3, <1>4, <1>6, <2>1, <3>1
    <3>3. n \in Nat /\ n <= t /\ ((y = b /\ x = a) \/ (y = b + 1 /\ x = a) \/ (y = b /\ x = a + 1))  BY <2>4, <2>5, <3>1
    <3>4. n + x + y <= v  BY <3>2, <3>3
    <3>5. QED  BY <3>1, <3>4
  <2>7. QED  BY <1>4, <2>2, <2>3, <2>4, <2>5, <2>6 DEF FieldBounds, W
<1>8. CASE Field!Timer
  <2>1. PICK n, d : n = f.timers - 1 /\ field' = [f EXCEPT !.saved = FALSE, !.error = FALSE, !.timers = n, !.last = d]
    BY <1>2, <1>8 DEF Field!Timer
  <2>2. field'.timers = n /\ told' = told /\ kept' = kept /\ wire' = wire /\ db' = db /\ fieldPast' = g
    BY <1>2, <1>3, <1>8, <2>1 DEF Field!Timer
  <2>3. n + Len(wire) + Len(kept) <= g.changes  BY <1>3, <1>4, <1>6, <2>1
  <2>4. QED  BY <1>4, <2>2, <2>3 DEF FieldBounds, W
<1>9. CASE Field!Cut
  <2>1. PICK n, d : n = g.cuts + 1 /\ fieldPast' = [g EXCEPT !.cuts = n, !.lost = d]  BY <1>2, <1>9 DEF Field!Cut
  <2>2. g.cuts < MaxCuts /\ field' = f /\ told' = told /\ kept' = kept /\ wire' = << >> /\ db' = db
    BY <1>2, <1>9 DEF Field!Cut
  <2>3. fieldPast'.changes = g.changes /\ fieldPast'.cuts = n  BY <1>3, <2>1
  <2>4. wire' \in Seq(W) /\ Len(wire') = 0  BY <2>2
  <2>5. n <= MaxCuts /\ f.timers + 0 + Len(kept) <= g.changes  BY <1>3, <1>4, <1>5, <1>6, <2>1, <2>2
  <2>6. QED  BY <1>4, <2>2, <2>3, <2>4, <2>5 DEF FieldBounds, W
<1>10. CASE Field!Disconnect \/ Field!Back
  BY <1>10 DEF Field!Disconnect, Field!Back, FieldBounds, Field!Values
<1>11. CASE Field!Reconnect
  <2>1. PICK s : s = Field!Sent(kept)  OBVIOUS
  <2>2. field' = f /\ told' = told /\ wire' = wire \o s /\ kept' = << >> /\ db' = db /\ fieldPast' = g
    BY <1>2, <1>11, <2>1 DEF Field!Reconnect
  <2>3. s \in Seq(W) /\ Len(s) = Len(kept)
    <3>1. PICK t : t = kept  OBVIOUS
    <3>2. t \in Seq(Field!Values)  BY <1>4, <3>1
    <3>3. Field!Sent(t) \in Seq(W) /\ Len(Field!Sent(t)) = Len(t)  BY <3>2, SentValues DEF W
    <3>4. QED  BY <2>1, <3>1, <3>3
  <2>4. wire \o s \in Seq(W) /\ Len(wire \o s) = Len(wire) + Len(s)  BY <1>4, <2>3, ConcatProperties
  <2>5. kept' \in Seq(Field!Values) /\ Len(kept') = 0  BY <2>2
  <2>6. f.timers + Len(wire') + 0 <= g.changes  BY <1>3, <1>4, <1>6, <2>2, <2>3, <2>4
  <2>7. QED  BY <1>4, <2>2, <2>4, <2>5, <2>6 DEF FieldBounds, W
<1>12. ASSUME NEW i \in 1..Len(wire), Field!Serve(i) PROVE FieldBounds'
  <2>1. field' = f /\ told' = told /\ kept' = kept /\ (db' = db \/ db' = wire[i].value)  BY <1>2, <1>12 DEF Field!Serve
  <2>2. PICK d : \/ fieldPast' = [g EXCEPT !.reordered = d]
                 \/ fieldPast' = [g EXCEPT !.refused = TRUE]
    BY <1>2, <1>12 DEF Field!Serve
  <2>3. fieldPast'.changes = g.changes /\ fieldPast'.cuts = g.cuts  BY <1>3, <2>2
  <2>4. PICK a : a = wire[i]  OBVIOUS
  <2>5. a \in W  BY <1>6, <2>4
  <2>6. a = [value |-> a.value, status |-> a.status] /\ a.value \in Field!Values  BY <2>5 DEF W
  <2>7. PICK st \in {"stored", "refused"} : wire' = [wire EXCEPT ![i].status = st]  BY <1>12 DEF Field!Serve
  <2>8. PICK e : e = [a EXCEPT !.status = st]  OBVIOUS
  <2>9. wire' = [wire EXCEPT ![i] = e]  BY <2>4, <2>7, <2>8
  <2>10. e \in W
    <3>1. e = [value |-> a.value, status |-> st]  BY <2>6, <2>8
    <3>2. st \in {"sent", "stored", "refused"}  OBVIOUS
    <3>3. QED  BY <2>6, <3>1, <3>2 DEF W
  <2>11. wire' \in Seq(W) /\ Len(wire') = Len(wire)
    <3>1. i \in 1..Len(wire) /\ wire \in Seq(W)  BY <1>4
    <3>2. QED  BY <2>9, <2>10, <3>1, ExceptSeq
  <2>12. db' \in Field!Values  BY <1>4, <2>1, <2>4, <2>6
  <2>13. QED  BY <1>4, <2>1, <2>3, <2>11, <2>12 DEF FieldBounds, W
<1>13. ASSUME NEW i \in 1..Len(wire), Field!Without(i) = Without(wire, i), wire' = Field!Without(i)
       PROVE  wire' \in Seq(W) /\ Len(wire') = Len(wire) - 1
  BY <1>4, <1>13, WithoutOne
<1>14. \A i : Field!Without(i) = Without(wire, i)  BY DEF Field!Without, Without
<1>15. ASSUME NEW i \in 1..Len(wire), Field!AnswerStored(i) PROVE FieldBounds'
  <2>1. PICK n : n = f.timers + 1 /\ field' = [f EXCEPT !.saving = FALSE, !.saved = TRUE, !.timers = n, !.last = TRUE]
    BY <1>2, <1>15 DEF Field!AnswerStored
  <2>2. told' = f.value /\ wire' = Field!Without(i) /\ kept' = kept /\ db' = db /\ fieldPast' = g
    BY <1>2, <1>15 DEF Field!AnswerStored
  <2>3. field'.timers = n  BY <1>3, <2>1
  <2>4. wire' \in Seq(W) /\ Len(wire') = Len(wire) - 1  BY <1>13, <1>14, <2>2
  <2>5. told' \in Field!Values  BY <1>3, <1>4, <1>5, <2>2 DEF Field!Values
  <2>6. n + Len(wire') + Len(kept) <= g.changes  BY <1>3, <1>4, <1>6, <2>1, <2>4
  <2>7. QED  BY <1>4, <2>2, <2>3, <2>4, <2>5, <2>6 DEF FieldBounds, W
<1>16. ASSUME NEW i \in 1..Len(wire), Field!AnswerRefused(i) PROVE FieldBounds'
  <2>1. field' = [f EXCEPT !.saving = FALSE, !.error = TRUE]  BY <1>2, <1>16 DEF Field!AnswerRefused
  <2>2. told' = told /\ wire' = Field!Without(i) /\ kept' = kept /\ db' = db /\ fieldPast' = g
    BY <1>2, <1>16 DEF Field!AnswerRefused
  <2>3. field'.timers = f.timers  BY <1>3, <2>1
  <2>4. wire' \in Seq(W) /\ Len(wire') = Len(wire) - 1  BY <1>13, <1>14, <2>2
  <2>5. f.timers + Len(wire') + Len(kept) <= g.changes  BY <1>3, <1>4, <1>6, <2>4
  <2>6. QED  BY <1>4, <2>2, <2>3, <2>4, <2>5 DEF FieldBounds, W
<1>17. CASE UNCHANGED autosave  BY <1>17 DEF autosave, FieldBounds, Field!Values
<1>18. QED  BY <1>6, <1>7, <1>8, <1>9, <1>10, <1>11, <1>12, <1>15, <1>16, <1>17 DEF Field!Next

LEMMA FieldTypesGood == ASSUME FieldInv, FieldBounds PROVE Field!TypeOK
<1>1. FieldTypes  BY DEF FieldInv
<1>2. PICK f, g : f = field /\ g = fieldPast  OBVIOUS
<1>3. /\ f.value = g.changes /\ f.saving \in BOOLEAN /\ f.saved \in BOOLEAN /\ f.error \in BOOLEAN
      /\ f.timers \in Nat /\ f.last \in BOOLEAN
      /\ g.changes \in Nat /\ g.cuts \in Nat /\ g.overlapped \in BOOLEAN
      /\ g.lost \in BOOLEAN /\ g.refused \in BOOLEAN /\ g.reordered \in BOOLEAN
  BY <1>1, <1>2, FieldRecords DEF FieldTypes
<1>4. /\ g.changes <= MaxChanges /\ g.cuts <= MaxCuts /\ f.timers + Len(wire) + Len(kept) <= g.changes
  BY <1>2 DEF FieldBounds
<1>5. MaxChanges \in Nat /\ MaxCuts \in Nat /\ Len(wire) \in Nat /\ Len(kept) \in Nat
  BY <1>1, WireIs, CountsAssumption DEF CountsAssumption
<1>6. f.value \in Field!Values /\ f.timers \in 0..MaxChanges /\ g.changes \in 0..MaxChanges /\ g.cuts \in 0..MaxCuts
  BY <1>3, <1>4, <1>5 DEF Field!Values
<1>7. QED  BY <1>1, <1>2, <1>3, <1>6 DEF FieldBounds, FieldTypes, Field!TypeOK

-----------------------------------------------------------------------------
(* What is counted for cakepops and the picker of topics, and its types *)

\* clicks and changes are counted
CakeBounds == mendatory \subseteq Pops /\ read \subseteq Pops /\ popPast.clicks <= MaxClicks /\ popPast.flips <= MaxFlips

LEMMA CakeBoundsInit == ASSUME Cake!Init PROVE CakeBounds
<1>1. /\ mendatory \in SUBSET Pops /\ read \in SUBSET Pops
      /\ popPast = [loaded |-> Pops \ read, clicks |-> 0, flips |-> 0, flipped |-> {}, doubled |-> FALSE, failed |-> FALSE]
  BY DEF Cake!Init
<1>2. 0 <= MaxClicks /\ 0 <= MaxFlips  BY CountsAssumption DEF CountsAssumption
<1>3. QED  BY <1>1, <1>2 DEF CakeBounds

LEMMA CakeBoundsKept == ASSUME CakeInv, CakeBounds, Cake!Next \/ UNCHANGED cakepops PROVE CakeBounds'
<1>1. CakeTypes  BY DEF CakeInv
<1>2. PICK g : g = popPast  OBVIOUS
<1>3. /\ g = [loaded |-> g.loaded, clicks |-> g.clicks, flips |-> g.flips, flipped |-> g.flipped, doubled |-> g.doubled,
              failed |-> g.failed]
      /\ g.clicks \in Nat /\ g.flips \in Nat
  BY <1>1, <1>2, CakeIs
<1>4. mendatory \subseteq Pops /\ read \subseteq Pops /\ g.clicks <= MaxClicks /\ g.flips <= MaxFlips  BY <1>2 DEF CakeBounds
<1>5. MaxClicks \in Nat /\ MaxFlips \in Nat  BY CountsAssumption DEF CountsAssumption
<1>6. CASE Cake!Flip
  <2>0. PICK p \in Pops : \E n, s : /\ mendatory' = IF p \in mendatory THEN mendatory \ {p} ELSE mendatory \union {p}
                                   /\ n = g.flips + 1 /\ popPast' = [g EXCEPT !.flips = n, !.flipped = s]
    BY <1>2, <1>6 DEF Cake!Flip
  <2>1. PICK n, s : /\ mendatory' = IF p \in mendatory THEN mendatory \ {p} ELSE mendatory \union {p}
                    /\ n = g.flips + 1 /\ popPast' = [g EXCEPT !.flips = n, !.flipped = s]
    BY <2>0
  <2>2. g.flips < MaxFlips /\ read' = read  BY <1>2, <1>6 DEF Cake!Flip
  <2>3. popPast'.clicks = g.clicks /\ popPast'.flips = n  BY <1>3, <2>1
  <2>4. n <= MaxFlips  BY <1>3, <1>5, <2>1, <2>2
  <2>5. mendatory' \subseteq Pops  BY <1>4, <2>1
  <2>6. QED  BY <1>4, <2>2, <2>3, <2>4, <2>5 DEF CakeBounds
<1>7. CASE Cake!Click
  <2>1. PICK n, d : n = g.clicks + 1 /\ popPast' = [g EXCEPT !.clicks = n, !.doubled = d]  BY <1>2, <1>7 DEF Cake!Click
  <2>2. g.clicks < MaxClicks /\ read' = read /\ mendatory' = mendatory  BY <1>2, <1>7 DEF Cake!Click
  <2>3. popPast'.clicks = n /\ popPast'.flips = g.flips  BY <1>3, <2>1
  <2>4. n <= MaxClicks  BY <1>3, <1>5, <2>1, <2>2
  <2>5. QED  BY <1>4, <2>2, <2>3, <2>4 DEF CakeBounds
<1>8. ASSUME NEW i \in DOMAIN popAsks, Cake!Serve(i) PROVE CakeBounds'
  <2>1. popAsks[i].pop \in Pops
    <3>1. i \in 1..Len(popAsks)  BY <1>1, CakeIs
    <3>2. PICK a : a = popAsks[i]  OBVIOUS
    <3>3. a \in [pop : Pops, action : {"read", "respond"}, status : Cake!Statuses]  BY <1>1, <3>1, <3>2, CakeIs
    <3>4. QED  BY <3>2, <3>3
  <2>2. read' \subseteq read \union {popAsks[i].pop} /\ mendatory' = mendatory  BY <1>8 DEF Cake!Serve
  <2>3. popPast' = g \/ popPast' = [g EXCEPT !.failed = TRUE]  BY <1>2, <1>8 DEF Cake!Serve
  <2>4. popPast'.clicks = g.clicks /\ popPast'.flips = g.flips  BY <1>3, <2>3
  <2>5. QED  BY <1>4, <2>1, <2>2, <2>4 DEF CakeBounds
<1>9. ASSUME NEW i, Cake!Answer(i) \/ Cake!Lose(i) PROVE CakeBounds'
  BY <1>9 DEF Cake!Answer, Cake!Lose, CakeBounds
<1>10. CASE UNCHANGED cakepops  BY <1>10 DEF cakepops, CakeBounds
<1>11. QED  BY <1>6, <1>7, <1>8, <1>9, <1>10 DEF Cake!Next

LEMMA CakeTypesGood == ASSUME CakeInv, CakeBounds PROVE Cake!TypeOK
<1>1. CakeTypes  BY DEF CakeInv
<1>2. Cake!ToSet(pops) \subseteq [pop : Pops, mendatory : BOOLEAN]
  <2>1. DOMAIN pops = 1..Len(pops) /\ \A i \in 1..Len(pops) : pops[i] \in [pop : Pops, mendatory : BOOLEAN]  BY <1>1, CakeIs
  <2>2. QED  BY <2>1 DEF Cake!ToSet
<1>3. Cake!ToSet(popAsks) \subseteq [pop : Pops, action : {"read", "respond"}, status : Cake!Statuses]
  <2>1. /\ DOMAIN popAsks = 1..Len(popAsks)
        /\ \A i \in 1..Len(popAsks) : popAsks[i] \in [pop : Pops, action : {"read", "respond"}, status : Cake!Statuses]
    BY <1>1, CakeIs
  <2>2. QED  BY <2>1 DEF Cake!ToSet
<1>4. PICK g : g = popPast  OBVIOUS
<1>5. /\ g.loaded \subseteq Pops /\ g.clicks \in Nat /\ g.flips \in Nat /\ g.flipped \subseteq Pops
      /\ g.doubled \in BOOLEAN /\ g.failed \in BOOLEAN
  BY <1>1, <1>4, CakeIs
<1>6. g.clicks <= MaxClicks /\ g.flips <= MaxFlips /\ MaxClicks \in Nat /\ MaxFlips \in Nat
  BY <1>4, CountsAssumption DEF CakeBounds, CountsAssumption
<1>7. g.clicks \in 0..MaxClicks /\ g.flips \in 0..MaxFlips  BY <1>5, <1>6
<1>8. QED  BY <1>2, <1>3, <1>4, <1>5, <1>7 DEF CakeBounds, Cake!TypeOK

\* requests of a picker are counted, the first one too
PickBounds == 1 <= pickerPast.sent /\ pickerPast.sent <= MaxClicks

LEMMA PickBoundsInit == ASSUME Picker!Init PROVE PickBounds
<1>1. pickerPast = [found |-> value, clicked |-> value, sent |-> 1, overlapped |-> FALSE, reordered |-> FALSE, lost |-> FALSE]
  BY DEF Picker!Init
<1>2. MaxClicks \in Nat \ {0}  BY CountsAssumption DEF CountsAssumption
<1>3. 1 <= MaxClicks  BY <1>2
<1>4. QED  BY <1>1, <1>3 DEF PickBounds

LEMMA PickBoundsKept == ASSUME PickInv, PickBounds, Picker!Next \/ UNCHANGED topicpicker PROVE PickBounds'
<1>1. PickTypes  BY DEF PickInv
<1>2. PICK g : g = pickerPast  OBVIOUS
<1>3. /\ g = [found |-> g.found, clicked |-> g.clicked, sent |-> g.sent, overlapped |-> g.overlapped, reordered |-> g.reordered,
              lost |-> g.lost]
      /\ g.sent \in Nat /\ 1 <= g.sent /\ g.sent <= MaxClicks /\ MaxClicks \in Nat
  BY <1>1, <1>2, PickIs, CountsAssumption DEF PickBounds, CountsAssumption
<1>4. ASSUME NEW a, Picker!Send(a) PROVE PickBounds'
  <2>1. PICK n, d, c : n = g.sent + 1 /\ pickerPast' = [g EXCEPT !.sent = n, !.overlapped = d, !.clicked = c]
    BY <1>2, <1>4 DEF Picker!Send
  <2>2. g.sent < MaxClicks  BY <1>2, <1>4 DEF Picker!Send
  <2>3. pickerPast'.sent = n  BY <1>3, <2>1
  <2>4. 1 <= n /\ n <= MaxClicks  BY <1>3, <2>1, <2>2
  <2>5. QED  BY <2>3, <2>4 DEF PickBounds
<1>5. CASE Picker!ChooseCategory \/ Picker!Click \/ Picker!Reset
  BY <1>4, <1>5 DEF Picker!ChooseCategory, Picker!Click, Picker!Reset
<1>6. CASE Picker!Lockin  BY <1>6 DEF Picker!Lockin, PickBounds
<1>7. CASE Picker!Answer \/ Picker!Lose
  <2>1. PICK d : pickerPast' = [g EXCEPT !.reordered = d] \/ pickerPast' = [g EXCEPT !.lost = d]
    BY <1>2, <1>7 DEF Picker!Answer, Picker!Lose
  <2>2. pickerPast'.sent = g.sent  BY <1>3, <2>1
  <2>3. QED  BY <1>3, <2>2 DEF PickBounds
<1>8. CASE UNCHANGED topicpicker  BY <1>8 DEF topicpicker, PickBounds
<1>9. QED  BY <1>5, <1>6, <1>7, <1>8 DEF Picker!Next

LEMMA PickTypesGood == ASSUME PickInv, PickBounds PROVE Picker!TypeOK
<1>1. PickTypes  BY DEF PickInv
<1>2. PICK n : n = pickerPast.sent  OBVIOUS
<1>3. n \in 1..MaxClicks  BY <1>1, <1>2, PickIs, CountsAssumption DEF PickBounds, CountsAssumption
<1>4. asks \in Seq(Picker!Asks) /\ value \in Topics \union {None}  BY <1>1 DEF PickTypes
<1>5. QED  BY <1>1, <1>2, <1>3, <1>4, PickIs DEF Picker!TypeOK

-----------------------------------------------------------------------------
(* What is counted for content chains, and its types *)

\* titles are of requests of the page, which are counted
Titled(s) == \A i \in 1..Len(s) : s[i].title <= MaxEdits

ChainBounds ==
    /\ chainPast.edits <= MaxEdits /\ chainPast.others <= MaxOthers
    /\ content.title <= MaxEdits /\ Titled(page.objects) /\ Titled(chainAsks)

LEMMA TitledMore == ASSUME NEW S, NEW s \in Seq(S), NEW e \in S, Titled(s), e.title <= MaxEdits PROVE Titled(Append(s, e))
<1>1. PICK r : r = Append(s, e)  OBVIOUS
<1>2. Len(s) \in Nat /\ Len(r) = Len(s) + 1 /\ r[Len(s) + 1] = e /\ \A j \in 1..Len(s) : r[j] = s[j]
  BY <1>1, Lengthened, LenProperties
<1>3. \A i \in 1..Len(r) : r[i].title <= MaxEdits
  <2> TAKE i \in 1..Len(r)
  <2>1. CASE i \in 1..Len(s)  BY <1>2, <2>1 DEF Titled
  <2>2. CASE i = Len(s) + 1  BY <1>2, <2>2
  <2>3. QED  BY <1>2, <2>1, <2>2
<1>4. QED  BY <1>1, <1>3 DEF Titled

LEMMA TitledBut == ASSUME NEW S, NEW s \in Seq(S), NEW i \in 1..Len(s), NEW e \in S, Titled(s), e.title <= MaxEdits
  PROVE  Titled([s EXCEPT ![i] = e])
<1>1. PICK r : r = [s EXCEPT ![i] = e]  OBVIOUS
<1>2. Len(r) = Len(s) /\ DOMAIN s = 1..Len(s)  BY <1>1, ExceptSeq, LenProperties
<1>3. \A j \in 1..Len(s) : r[j] = s[j] \/ r[j] = e  BY <1>1, <1>2
<1>4. \A j \in 1..Len(r) : r[j].title <= MaxEdits  BY <1>2, <1>3 DEF Titled
<1>5. QED  BY <1>1, <1>4 DEF Titled

LEMMA TitledLess == ASSUME NEW S, NEW s \in Seq(S), NEW i \in 1..Len(s), Titled(s) PROVE Titled(Without(s, i))
<1>1. PICK r : r = Without(s, i)  OBVIOUS
<1>2. Len(s) \in Nat /\ Len(r) = Len(s) - 1 /\ \A j \in 1..(Len(s) - 1) : r[j] = s[j] \/ r[j] = s[j + 1]
  BY <1>1, WithoutOne, LenProperties
<1>3. \A j \in 1..Len(r) : r[j].title <= MaxEdits
  <2> TAKE j \in 1..Len(r)
  <2>1. j \in 1..(Len(s) - 1) /\ j \in 1..Len(s) /\ j + 1 \in 1..Len(s)  BY <1>2
  <2>2. QED  BY <1>2, <2>1 DEF Titled
<1>4. QED  BY <1>1, <1>3 DEF Titled

LEMMA ChainBoundsInit == ASSUME Chain!Init PROVE ChainBounds
<1>1. content.title = 0  BY DEF Chain!Init
<1>2. page = [objects |-> <<content>>, current |-> 1] /\ chainAsks = << >>  BY DEF Chain!Init
<1>3. chainPast.edits = 0 /\ chainPast.others = 0  BY DEF Chain!Init
<1>4. MaxEdits \in Nat /\ MaxOthers \in Nat  BY CountsAssumption DEF CountsAssumption
<1>5. PICK c : c = content  OBVIOUS
<1>6. PICK s : s = <<c>>  OBVIOUS
<1>7. page.objects = s /\ Len(s) = 1 /\ s[1] = c  BY <1>2, <1>5, <1>6
<1>8. Titled(s)  BY <1>1, <1>4, <1>5, <1>7 DEF Titled
<1>9. Len(chainAsks) = 0  BY <1>2
<1>10. Titled(chainAsks)  BY <1>9 DEF Titled
<1>11. QED  BY <1>1, <1>3, <1>4, <1>7, <1>8, <1>10 DEF ChainBounds

\* a request of the page
LEMMA AskBounds == ASSUME ChainTypes, ChainBounds, NEW op \in {"title", "media", "articles", "live", "unpublish"}, NEW object \in Nat,
                          NEW articles \in SUBSET Posts, Chain!Ask(op, object, articles)
  PROVE  /\ chainPast'.edits = chainPast.edits + 1 /\ chainPast'.edits <= MaxEdits /\ chainPast'.others = chainPast.others
         /\ Titled(chainAsks')
<1>1. PICK h, n, d : h = chainPast /\ n = chainPast.edits + 1 /\ chainPast' = [h EXCEPT !.edits = n, !.overlapped = d]
  BY DEF Chain!Ask
<1>2. h = [edits |-> h.edits, others |-> h.others, overlapped |-> h.overlapped, emptied |-> h.emptied, lost |-> h.lost,
           listed |-> h.listed, added |-> h.added] /\ h.edits \in Nat
  BY <1>1, ChainPastIs
<1>3. chainPast'.edits = n /\ chainPast'.others = h.others  BY <1>1, <1>2
<1>4. MaxEdits \in Nat /\ h.edits < MaxEdits  BY <1>1, CountsAssumption DEF CountsAssumption, Chain!Ask
<1>5. n <= MaxEdits /\ n \in Nat  BY <1>1, <1>2, <1>4
<1>6. PICK b : b = [op |-> op, object |-> object, articles |-> articles, title |-> n, state |-> "sent"]  OBVIOUS
<1>7. b \in ChainAsk /\ b.title = n  BY <1>5, <1>6 DEF ChainAsk
<1>8. chainAsks' = Append(chainAsks, b)  BY <1>1, <1>6 DEF Chain!Ask
<1>9. chainAsks \in Seq(ChainAsk) /\ Titled(chainAsks)  BY ChainIs DEF ChainBounds
<1>10. QED  BY <1>1, <1>3, <1>5, <1>7, <1>8, <1>9, TitledMore

LEMMA ChainBoundsKept == ASSUME ChainInv, ChainBounds, Chain!Next \/ UNCHANGED chains PROVE ChainBounds'
<1>1. ChainTypes  BY DEF ChainInv
<1>2. PICK h, o, k, s, m : h = chainPast /\ o = page.objects /\ k = page.current /\ s = chainAsks /\ m = MaxEdits  OBVIOUS
<1>3. /\ h = [edits |-> h.edits, others |-> h.others, overlapped |-> h.overlapped, emptied |-> h.emptied, lost |-> h.lost,
              listed |-> h.listed, added |-> h.added]
      /\ h.edits \in Nat /\ h.others \in Nat
  BY <1>1, <1>2, ChainPastIs
<1>4. /\ page = [objects |-> o, current |-> k] /\ o \in Seq(ChainContent) /\ Len(o) \in Nat /\ DOMAIN o = 1..Len(o)
      /\ k \in 1..Len(o) /\ (\A i \in 1..Len(o) : o[i] \in ChainContent) /\ Chain!Shown = o[k]
      /\ s \in Seq(ChainAsk) /\ Len(s) \in Nat /\ DOMAIN s = 1..Len(s)
      /\ \A i \in 1..Len(s) : s[i] \in ChainAsk /\ s[i].object \in 1..Len(o)
  BY <1>1, <1>2, ChainIs DEF ShownBy
<1>5. h.edits <= MaxEdits /\ h.others <= MaxOthers /\ content.title <= MaxEdits /\ Titled(o) /\ Titled(s)
  BY <1>2 DEF ChainBounds
<1>6. MaxEdits \in Nat /\ MaxOthers \in Nat  BY CountsAssumption DEF CountsAssumption
<1>7. content \in ChainContent  BY <1>1 DEF ChainTypes
<1>8. \A i \in 1..Len(o) : o[i].title <= MaxEdits  BY <1>5 DEF Titled
<1>9. \A i \in 1..Len(s) : s[i].title <= MaxEdits  BY <1>5 DEF Titled
<1>10. Len(o) + 1 \in Nat /\ k \in Nat /\ {} \in SUBSET Posts  BY <1>4
<1>11. CASE Chain!EditTitle
  <2>1. Chain!Ask("title", Len(page.objects) + 1, {}) /\ content' = content  BY <1>11 DEF Chain!EditTitle
  <2>2. /\ chainPast'.edits = h.edits + 1 /\ chainPast'.edits <= MaxEdits /\ chainPast'.others = h.others /\ Titled(chainAsks')
    BY <1>1, <1>2, <1>10, <2>1, AskBounds
  <2>3. PICK n, e : n = h.edits + 1 /\ e = [o[k] EXCEPT !.title = n]  OBVIOUS
  <2>4. page' = [page EXCEPT !.objects = Append(o, e)]  BY <1>2, <1>4, <1>11, <2>3 DEF Chain!EditTitle
  <2>5. page'.objects = Append(o, e)  BY <1>4, <2>4
  <2>6. e \in ChainContent /\ e.title = n
    <3>1. o[k] \in ChainContent /\ n \in Nat  BY <1>3, <1>4, <2>3
    <3>2. PICK c : c = o[k]  OBVIOUS
    <3>3. e = [title |-> n, media |-> c.media, articles |-> c.articles, status |-> c.status]
          /\ c.media \in BOOLEAN /\ c.articles \in SUBSET Posts /\ c.status \in {"draft", "live"}
      BY <2>3, <3>1, <3>2, ContentIs
    <3>4. QED  BY <3>1, <3>3 DEF ChainContent
  <2>7. Titled(page'.objects)  BY <1>4, <1>5, <2>2, <2>3, <2>5, <2>6, TitledMore
  <2>8. QED  BY <1>5, <2>1, <2>2, <2>7 DEF ChainBounds
<1>12. CASE Chain!ChooseImage
  <2>1. Chain!Ask("media", page.current, {}) /\ content' = content  BY <1>12 DEF Chain!ChooseImage
  <2>2. /\ chainPast'.edits <= MaxEdits /\ chainPast'.others = h.others /\ Titled(chainAsks')
    BY <1>1, <1>2, <1>10, <2>1, AskBounds
  <2>3. PICK e : e = [o[k] EXCEPT !.media = TRUE]  OBVIOUS
  <2>4. page' = [page EXCEPT !.objects = [o EXCEPT ![k] = e]]  BY <1>2, <1>4, <1>12, <2>3 DEF Chain!ChooseImage
  <2>5. page'.objects = [o EXCEPT ![k] = e]  BY <1>4, <2>4
  <2>6. e \in ChainContent /\ e.title = o[k].title
    <3>1. PICK c : c = o[k]  OBVIOUS
    <3>2. c \in ChainContent  BY <1>4, <3>1
    <3>3. PICK d \in BOOLEAN : d = TRUE  OBVIOUS
    <3>4. e = [title |-> c.title, media |-> d, articles |-> c.articles, status |-> c.status]
          /\ c.title \in Nat /\ c.articles \in SUBSET Posts /\ c.status \in {"draft", "live"}
      BY <2>3, <3>1, <3>2, <3>3, ContentIs
    <3>5. QED  BY <3>1, <3>4 DEF ChainContent
  <2>7. Titled(page'.objects)
    <3>1. PICK q : q = [o EXCEPT ![k] = e]  OBVIOUS
    <3>2. o[k].title <= MaxEdits  BY <1>4, <1>8
    <3>3. e.title <= MaxEdits  BY <2>6, <3>2
    <3>4. Titled(q)  BY <1>4, <1>5, <2>6, <3>1, <3>3, TitledBut
    <3>5. QED  BY <2>5, <3>1, <3>4
  <2>8. QED  BY <1>5, <2>1, <2>2, <2>7 DEF ChainBounds
<1>13. CASE Chain!ChangeArticles
  <2>1. PICK x \in SUBSET Posts : Chain!Ask("articles", page.current, x)  BY <1>13 DEF Chain!ChangeArticles
  <2>2. content' = content /\ page' = page  BY <1>13 DEF Chain!ChangeArticles
  <2>3. chainPast'.edits <= MaxEdits /\ chainPast'.others = h.others /\ Titled(chainAsks')  BY <1>1, <1>2, <1>10, <2>1, AskBounds
  <2>4. QED  BY <1>2, <1>5, <2>2, <2>3 DEF ChainBounds
<1>14. CASE Chain!Toggle
  <2>1. PICK op \in {"live", "unpublish"} : Chain!Ask(op, page.current, {})  BY <1>14 DEF Chain!Toggle
  <2>2. content' = content /\ page' = page  BY <1>14 DEF Chain!Toggle
  <2>3. op \in {"title", "media", "articles", "live", "unpublish"}  OBVIOUS
  <2>4. chainPast'.edits <= MaxEdits /\ chainPast'.others = h.others /\ Titled(chainAsks')
    BY <1>1, <1>2, <1>10, <2>1, <2>3, AskBounds
  <2>5. QED  BY <1>2, <1>5, <2>2, <2>4 DEF ChainBounds
<1>15. \A i : Chain!Without(i) = Without(s, i)  BY <1>2 DEF Chain!Without, Without
<1>16. ASSUME NEW i \in 1..Len(s), chainAsks' = Chain!Without(i) PROVE Titled(chainAsks')
  BY <1>4, <1>5, <1>15, <1>16, TitledLess
<1>17. ASSUME NEW i \in 1..Len(s), NEW st \in {"sent", "read", "done", "refused"}, chainAsks' = [s EXCEPT ![i].state = st]
       PROVE  Titled(chainAsks')
  <2>1. PICK a : a = s[i]  OBVIOUS
  <2>2. a \in ChainAsk /\ a.title <= MaxEdits  BY <1>4, <1>9, <2>1
  <2>3. PICK e : e = [a EXCEPT !.state = st]  OBVIOUS
  <2>4. e \in ChainAsk /\ e.title = a.title
    <3>1. a = [op |-> a.op, object |-> a.object, articles |-> a.articles, title |-> a.title, state |-> a.state]
          /\ a.op \in {"title", "media", "articles", "live", "unpublish"} /\ a.object \in Nat /\ a.articles \in SUBSET Posts
          /\ a.title \in Nat
      BY <2>2 DEF ChainAsk
    <3>2. e = [op |-> a.op, object |-> a.object, articles |-> a.articles, title |-> a.title, state |-> st]  BY <2>3, <3>1
    <3>3. QED  BY <3>1, <3>2 DEF ChainAsk
  <2>5. chainAsks' = [s EXCEPT ![i] = e]  BY <1>17, <2>1, <2>3
  <2>6. QED  BY <1>4, <1>5, <2>2, <2>4, <2>5, TitledBut
<1>18. ASSUME NEW i \in 1..Len(s), Chain!Answer(i) PROVE ChainBounds'
  <2>1. /\ chainAsks' = Chain!Without(i) /\ content' = content /\ chainPast' = chainPast
        /\ page' = page \/ page' = Chain!AfterAnswer(s[i])
    BY <1>2, <1>18 DEF Chain!Answer
  <2>2. Titled(chainAsks')  BY <1>16, <2>1
  <2>3. Titled(page'.objects)
    <3>1. CASE page' = page  BY <1>2, <1>5, <3>1
    <3>2. CASE page' = Chain!AfterAnswer(s[i])
      <4>1. PICK a, g : a = s[i] /\ g = Chain!AfterAnswer(a)  OBVIOUS
      <4>2. a \in ChainAsk /\ a.object \in 1..Len(o)  BY <1>4, <4>1
      <4>3. a.op \in {"title", "media", "articles", "live", "unpublish"} /\ a.articles \in SUBSET Posts  BY <4>2 DEF ChainAsk
      <4>4. CASE a.op = "title"
        <5>1. g = [page EXCEPT !.current = a.object]  BY <4>1, <4>4 DEF Chain!AfterAnswer
        <5>2. g.objects = o  BY <1>4, <5>1
        <5>3. QED  BY <1>5, <3>2, <4>1, <5>2
      <4>5. CASE a.op = "media"
        <5>1. g = page  BY <4>1, <4>5 DEF Chain!AfterAnswer
        <5>2. QED  BY <1>2, <1>5, <3>2, <4>1, <5>1
      <4>6. CASE a.op = "articles"
        <5>1. PICK c, e : c = o[k] /\ e = [c EXCEPT !.articles = a.articles]  OBVIOUS
        <5>2. g = [page EXCEPT !.objects[page.current].articles = a.articles]  BY <4>1, <4>6 DEF Chain!AfterAnswer
        <5>3. g = [page EXCEPT !.objects = [o EXCEPT ![k] = e]]  BY <1>2, <5>1, <5>2
        <5>4. g.objects = [o EXCEPT ![k] = e]  BY <1>4, <5>3
        <5>5. c \in ChainContent /\ c.title <= MaxEdits  BY <1>4, <1>8, <5>1
        <5>6. e = [title |-> c.title, media |-> c.media, articles |-> a.articles, status |-> c.status]
              /\ c.title \in Nat /\ c.media \in BOOLEAN /\ c.status \in {"draft", "live"}
          BY <4>3, <5>1, <5>5, ContentIs
        <5>7. e \in ChainContent /\ e.title = c.title  BY <4>3, <5>6 DEF ChainContent
        <5>8. Titled(g.objects)
          <6>1. PICK q : q = [o EXCEPT ![k] = e]  OBVIOUS
          <6>2. Titled(q)  BY <1>4, <1>5, <5>5, <5>7, <6>1, TitledBut
          <6>3. QED  BY <5>4, <6>1, <6>2
        <5>9. QED  BY <3>2, <4>1, <5>8
      <4>7. CASE a.op \in {"live", "unpublish"}
        <5>1. PICK x : x = (IF Chain!Shown.status = "draft" THEN "live" ELSE "draft")  OBVIOUS
        <5>2. PICK c, e, j : j = a.object /\ c = o[j] /\ e = [c EXCEPT !.status = x]  OBVIOUS
        <5>3. g = [objects |-> [page.objects EXCEPT ![a.object].status = IF Chain!Shown.status = "draft" THEN "live" ELSE "draft"],
                   current |-> a.object]
          BY <4>1, <4>7 DEF Chain!AfterAnswer
        <5>4. g.objects = [o EXCEPT ![j] = e]  BY <1>2, <5>1, <5>2, <5>3
        <5>5. j \in 1..Len(o) /\ c \in ChainContent /\ c.title <= MaxEdits  BY <1>4, <1>8, <4>2, <5>2
        <5>6. x \in {"draft", "live"}  BY <5>1
        <5>7. e = [title |-> c.title, media |-> c.media, articles |-> c.articles, status |-> x]
              /\ c.title \in Nat /\ c.media \in BOOLEAN /\ c.articles \in SUBSET Posts
          BY <5>2, <5>5, <5>6, ContentIs
        <5>8. e \in ChainContent /\ e.title = c.title  BY <5>6, <5>7 DEF ChainContent
        <5>9. Titled(g.objects)
          <6>1. PICK q : q = [o EXCEPT ![j] = e]  OBVIOUS
          <6>2. Titled(q)  BY <1>4, <1>5, <5>5, <5>8, <6>1, TitledBut
          <6>3. QED  BY <5>4, <6>1, <6>2
        <5>10. QED  BY <3>2, <4>1, <5>9
      <4>8. QED  BY <4>3, <4>4, <4>5, <4>6, <4>7
    <3>3. QED  BY <2>1, <3>1, <3>2
  <2>4. QED  BY <1>2, <1>5, <2>1, <2>2, <2>3 DEF ChainBounds
<1>19. ASSUME NEW i \in 1..Len(s), Chain!Lose(i) PROVE ChainBounds'
  <2>1. chainAsks' = Chain!Without(i) /\ content' = content /\ page' = page /\ chainPast' = [h EXCEPT !.lost = TRUE]
    BY <1>2, <1>19 DEF Chain!Lose
  <2>2. chainPast'.edits = h.edits /\ chainPast'.others = h.others  BY <1>3, <2>1
  <2>3. Titled(chainAsks')  BY <1>16, <2>1
  <2>4. QED  BY <1>2, <1>5, <2>1, <2>2, <2>3 DEF ChainBounds
<1>20. ASSUME NEW i \in 1..Len(s), Chain!Edit(i) PROVE ChainBounds'
  <2>1. content' = Chain!Edited(s[i]) /\ chainAsks' = [s EXCEPT ![i].state = "done"] /\ page' = page
    BY <1>2, <1>20 DEF Chain!Edit
  <2>2. PICK d, e : chainPast' = [h EXCEPT !.emptied = d, !.listed = e]  BY <1>2, <1>20 DEF Chain!Edit
  <2>3. chainPast'.edits = h.edits /\ chainPast'.others = h.others  BY <1>3, <2>2
  <2>4. "done" \in {"sent", "read", "done", "refused"}  OBVIOUS
  <2>5. Titled(chainAsks')  BY <1>17, <2>1, <2>4
  <2>6. content'.title <= MaxEdits
    <3>1. PICK a, c : a = s[i] /\ c = content  OBVIOUS
    <3>2. a \in ChainAsk /\ a.title <= MaxEdits /\ c \in ChainContent /\ c.title <= MaxEdits  BY <1>4, <1>5, <1>7, <1>9, <3>1
    <3>3. a.op \in {"title", "media", "articles", "live", "unpublish"}  BY <3>2 DEF ChainAsk
    <3>4. PICK r : r = ToStore(a, c)  OBVIOUS
    <3>5. r.title = a.title \/ r.title = c.title
      <4>1. a.op = "title" => r = [title |-> a.title, media |-> c.media, articles |-> c.articles, status |-> c.status]
        BY <3>2, <3>4, StoredIs
      <4>2. a.op = "media" => r = [title |-> c.title, media |-> TRUE, articles |-> c.articles, status |-> c.status]
        BY <3>2, <3>4, StoredIs
      <4>3. a.op = "articles" => r = [title |-> c.title, media |-> c.media, articles |-> a.articles, status |-> c.status]
        BY <3>2, <3>4, StoredIs
      <4>4. a.op = "live" => r = [title |-> c.title, media |-> c.media, articles |-> c.articles, status |-> "live"]
        BY <3>2, <3>4, StoredIs
      <4>5. a.op = "unpublish" => r = [title |-> c.title, media |-> c.media, articles |-> c.articles, status |-> "draft"]
        BY <3>2, <3>4, StoredIs
      <4>6. QED  BY <3>3, <4>1, <4>2, <4>3, <4>4, <4>5
    <3>6. content' = r  BY <2>1, <3>1, <3>4, EditedIs
    <3>7. QED  BY <3>2, <3>5, <3>6
  <2>7. QED  BY <1>2, <1>5, <2>1, <2>3, <2>5, <2>6 DEF ChainBounds
<1>21. ASSUME NEW i \in 1..Len(s), Chain!Check(i) PROVE ChainBounds'
  <2>1. PICK st \in {"sent", "read", "done", "refused"} : chainAsks' = [s EXCEPT ![i].state = st]
    BY <1>2, <1>21 DEF Chain!Check
  <2>2. content' = content /\ page' = page /\ chainPast' = h  BY <1>2, <1>21 DEF Chain!Check
  <2>3. Titled(chainAsks')  BY <1>17, <2>1
  <2>4. QED  BY <1>2, <1>5, <2>2, <2>3 DEF ChainBounds
<1>22. CASE Chain!AddCheck
  <2>1. PICK n : n = h.others + 1 /\ chainPast' = [h EXCEPT !.others = n]  BY <1>2, <1>22 DEF Chain!AddCheck
  <2>2. h.others < MaxOthers /\ content' = content /\ page' = page /\ chainAsks' = s  BY <1>2, <1>22 DEF Chain!AddCheck
  <2>3. chainPast'.edits = h.edits /\ chainPast'.others = n  BY <1>3, <2>1
  <2>4. n <= MaxOthers  BY <1>3, <1>6, <2>1, <2>2
  <2>5. QED  BY <1>2, <1>5, <2>2, <2>3, <2>4 DEF ChainBounds
<1>23. CASE Chain!AddWrite
  <2>1. PICK x, y : content' = [content EXCEPT !.articles = x] /\ chainPast' = [h EXCEPT !.added = y]  BY <1>2, <1>23 DEF Chain!AddWrite
  <2>2. page' = page /\ chainAsks' = s  BY <1>2, <1>23 DEF Chain!AddWrite
  <2>3. chainPast'.edits = h.edits /\ chainPast'.others = h.others  BY <1>3, <2>1
  <2>4. content'.title = content.title
    <3>1. PICK c : c = content  OBVIOUS
    <3>2. c = [title |-> c.title, media |-> c.media, articles |-> c.articles, status |-> c.status]  BY <1>7, <3>1, ContentIs
    <3>3. content' = [c EXCEPT !.articles = x]  BY <2>1, <3>1
    <3>4. QED  BY <3>1, <3>2, <3>3
  <2>5. QED  BY <1>2, <1>5, <2>2, <2>3, <2>4 DEF ChainBounds
<1>24. CASE UNCHANGED chains
  <2>1. content' = content /\ page' = page /\ chainAsks' = s /\ chainPast' = h  BY <1>2, <1>24 DEF chains
  <2>2. QED  BY <1>2, <1>5, <2>1 DEF ChainBounds
<1>25. QED
  BY <1>2, <1>4, <1>11, <1>12, <1>13, <1>14, <1>18, <1>19, <1>20, <1>21, <1>22, <1>23, <1>24 DEF Chain!Next

LEMMA ChainTypesGood == ASSUME ChainInv, ChainBounds PROVE Chain!TypeOK
<1>1. ChainTypes  BY DEF ChainInv
<1>2. PICK h, o : h = chainPast /\ o = page.objects  OBVIOUS
<1>3. MaxEdits \in Nat /\ MaxOthers \in Nat  BY CountsAssumption DEF CountsAssumption
<1>4. \A c \in ChainContent : c.title <= MaxEdits => c \in Chain!Contents
  <2> TAKE c \in ChainContent
  <2> HAVE c.title <= MaxEdits
  <2>1. /\ c = [title |-> c.title, media |-> c.media, articles |-> c.articles, status |-> c.status]
        /\ c.title \in Nat /\ c.media \in BOOLEAN /\ c.articles \in SUBSET Posts /\ c.status \in {"draft", "live"}
    BY ContentIs
  <2>2. c.title \in 0..MaxEdits  BY <1>3, <2>1
  <2>3. QED  BY <2>1, <2>2 DEF Chain!Contents
<1>5. content \in Chain!Contents  BY <1>1, <1>4 DEF ChainTypes, ChainBounds
<1>6. page.objects \in Seq(Chain!Contents)
  <2>1. o \in Seq(ChainContent) /\ Titled(o) /\ \A i \in 1..Len(o) : o[i] \in ChainContent
    BY <1>1, <1>2, ChainIs DEF ChainBounds
  <2>2. \A i \in 1..Len(o) : o[i] \in Chain!Contents  BY <1>4, <2>1 DEF Titled
  <2>3. QED  BY <1>2, <2>1, <2>2, SeqsAre
<1>7. /\ h.edits \in Nat /\ h.others \in Nat /\ h.overlapped \in BOOLEAN /\ h.emptied \in BOOLEAN
      /\ h.lost \in BOOLEAN /\ h.listed \in BOOLEAN /\ h.added \in SUBSET Posts
  BY <1>1, <1>2, ChainPastIs
<1>8. h.edits <= MaxEdits /\ h.others <= MaxOthers  BY <1>2 DEF ChainBounds
<1>9. h.edits \in 0..MaxEdits /\ h.others \in 0..MaxOthers  BY <1>3, <1>7, <1>8
<1>10. adding \subseteq Posts /\ page.current \in DOMAIN page.objects  BY <1>1, ChainIs DEF ChainTypes
<1>11. \A i \in DOMAIN chainAsks :
          /\ chainAsks[i].op \in {"title", "media", "articles", "live", "unpublish"}
          /\ chainAsks[i].state \in {"sent", "read", "done", "refused"}
          /\ chainAsks[i].object \in DOMAIN page.objects /\ chainAsks[i].articles \subseteq Posts
  BY <1>1, ChainIs DEF ChainAsk
<1>12. QED  BY <1>2, <1>5, <1>6, <1>7, <1>9, <1>10, <1>11 DEF Chain!TypeOK

-----------------------------------------------------------------------------
(* The engine of LML2 (lml/compiler.js) *)

\* the loops of s are open around block i of p: each was opened after the one below it, and has rounds left
Loop2 == [at : Nat, index : Nat]

Nest2(s, p, i) ==
    /\ s \in Seq(Loop2)
    /\ \A k \in 1..Len(s) : /\ k <= s[k].at /\ s[k].at < i /\ s[k].at <= Len(p)
                            /\ s[k].index <= Lml2!Rounds(p[s[k].at])
                            /\ \A j \in 1..(k - 1) : s[j].at < s[k].at

Lml2Inv ==
    /\ template \in Seq(Lml2!Blocks) /\ Len(template) <= MaxBlocks
    /\ at \in 0..(Len(template) + 1)
    /\ flags \in [skipping : BOOLEAN, toSkip : Nat, over : {"no", "done", "thrown"}]
    /\ flags.toSkip # 0 => flags.skipping /\ flags.toSkip < at
    /\ Nest2(loops, template, at)
    /\ written \in [1..MaxBlocks -> 0..Lml2!Enough]

LEMMA Lml2Inits == ASSUME Lml2!Init PROVE Lml2Inv
BY CountsAssumption DEF Lml2!Init, Lml2Inv, Nest2, Lml2!Enough, CountsAssumption

LEMMA Lml2Goods == ASSUME Lml2Inv PROVE Lml2!TypeOK
<1>1. Nest2(loops, template, at)  BY DEF Lml2Inv
<1>2. template \in Seq(Lml2!Blocks) /\ Len(template) <= MaxBlocks /\ at \in 0..(Len(template) + 1)  BY DEF Lml2Inv
<1>3. loops \in Seq(Loop2)  BY <1>1 DEF Nest2
<1>4. Len(loops) \in Nat /\ Len(template) \in Nat /\ MaxBlocks \in Nat  BY <1>2, <1>3, CountsAssumption DEF CountsAssumption
<1>5. ASSUME NEW k \in 1..Len(loops) PROVE loops[k] \in [at : 1..MaxBlocks, index : 0..2] /\ k <= Len(template)
  <2>1. PICK l : l = loops[k]  OBVIOUS
  <2>2. l \in Loop2  BY <1>3, <1>5, <2>1
  <2>3. k <= l.at /\ l.at <= Len(template) /\ l.index <= Lml2!Rounds(template[l.at])  BY <1>1, <1>5, <2>1 DEF Nest2
  <2>4. Lml2!Rounds(template[l.at]) \in {0, 2}  BY DEF Lml2!Rounds
  <2>5. l = [at |-> l.at, index |-> l.index] /\ l.at \in Nat /\ l.index \in Nat  BY <2>2 DEF Loop2
  <2>6. l.index <= 2  BY <2>3, <2>4, <2>5
  <2>7. QED  BY <1>2, <1>4, <1>5, <2>1, <2>3, <2>5, <2>6
<1>6. Len(loops) <= MaxBlocks
  <2>1. CASE Len(loops) = 0  BY <2>1, <1>4
  <2>2. CASE Len(loops) > 0  BY <2>2, <1>2, <1>4, <1>5
  <2>3. QED  BY <2>1, <2>2, <1>4
<1>7. loops \in Seq([at : 1..MaxBlocks, index : 0..2])  BY <1>3, <1>5, SeqsAre
<1>8. flags \in [skipping : BOOLEAN, toSkip : 0..MaxBlocks, over : {"no", "done", "thrown"}]
  <2>1. PICK f : f = flags  OBVIOUS
  <2>2. f \in [skipping : BOOLEAN, toSkip : Nat, over : {"no", "done", "thrown"}] /\ (f.toSkip # 0 => f.toSkip < at)
    BY <2>1 DEF Lml2Inv
  <2>3. f = [skipping |-> f.skipping, toSkip |-> f.toSkip, over |-> f.over] /\ f.toSkip \in Nat
        /\ f.skipping \in BOOLEAN /\ f.over \in {"no", "done", "thrown"}
    BY <2>2
  <2>4. f.toSkip \in 0..MaxBlocks  BY <1>2, <1>4, <2>2, <2>3
  <2>5. QED  BY <2>1, <2>3, <2>4
<1>9. QED  BY <1>2, <1>6, <1>7, <1>8 DEF Lml2!TypeOK, Lml2Inv

LEMMA Nest2Stays == ASSUME NEW s, NEW p, NEW q, NEW i \in Nat, NEW j \in Nat, Nest2(s, p, i), i <= j, Len(p) = Len(q),
                           \A k \in 1..Len(p) : p[k] = q[k] PROVE Nest2(s, q, j)
<1>1. s \in Seq(Loop2)  BY DEF Nest2
<1>2. ASSUME NEW k \in 1..Len(s) PROVE /\ k <= s[k].at /\ s[k].at < j /\ s[k].at <= Len(q)
                                       /\ s[k].index <= Lml2!Rounds(q[s[k].at])
                                       /\ \A n \in 1..(k - 1) : s[n].at < s[k].at
  <2>1. PICK l : l = s[k]  OBVIOUS
  <2>0. l \in Loop2  BY <1>1, <1>2, <2>1
  <2>2. l \in Loop2 /\ l.at \in Nat  BY <2>0 DEF Loop2
  <2>3. k <= l.at /\ l.at < i /\ l.at <= Len(p) /\ l.index <= Lml2!Rounds(p[l.at]) /\ \A n \in 1..(k - 1) : s[n].at < l.at
    BY <1>2, <2>1 DEF Nest2
  <2>4. k \in Nat /\ k >= 1  BY <1>1, <1>2
  <2>5. l.at \in 1..Len(p) /\ l.at < j  BY <2>2, <2>3, <2>4
  <2>6. p[l.at] = q[l.at]  BY <2>5
  <2>7. QED  BY <2>1, <2>3, <2>5, <2>6
<1>3. QED  BY <1>1, <1>2 DEF Nest2

LEMMA Nest2Pop == ASSUME NEW s, NEW p, NEW i \in Nat, Nest2(s, p, i), Len(s) > 0
  PROVE Nest2(SubSeq(s, 1, Len(s) - 1), p, i) /\ Nest2(SubSeq(s, 1, Len(s) - 1), p, s[Len(s)].at)
<1>1. s \in Seq(Loop2)  BY DEF Nest2
<1>2. PICK t, n : t = SubSeq(s, 1, n) /\ n = Len(s) - 1  OBVIOUS
<1>3. n \in Nat /\ n <= Len(s) /\ n < Len(s) /\ Len(s) \in 1..Len(s)  BY <1>1, <1>2
<1>4. t \in Seq(Loop2) /\ Len(t) = n /\ \A k \in 1..n : t[k] = s[k]  BY <1>1, <1>2, <1>3
<1>5. ASSUME NEW k \in 1..n PROVE /\ k <= t[k].at /\ t[k].at < i /\ t[k].at <= Len(p)
                                  /\ t[k].index <= Lml2!Rounds(p[t[k].at])
                                  /\ \A j \in 1..(k - 1) : t[j].at < t[k].at
                                  /\ t[k].at < s[Len(s)].at
  <2>1. k \in 1..Len(s) /\ t[k] = s[k] /\ \A j \in 1..(k - 1) : t[j] = s[j]  BY <1>3, <1>4, <1>5
  <2>2. k \in 1..(Len(s) - 1)  BY <1>2, <1>5
  <2>3. s[k].at < s[Len(s)].at  BY <1>3, <2>2 DEF Nest2
  <2>4. QED  BY <2>1, <2>3 DEF Nest2
<1>6. QED  BY <1>2, <1>4, <1>5 DEF Nest2

LEMMA Nest2Push == ASSUME NEW s, NEW p, NEW i \in Nat, Nest2(s, p, i), i \in 1..Len(p), NEW n \in Nat, n <= Lml2!Rounds(p[i])
  PROVE Nest2(Append(s, [at |-> i, index |-> n]), p, i + 1)
<1>1. s \in Seq(Loop2)  BY DEF Nest2
<1>2. PICK l : l = [at |-> i, index |-> n]  OBVIOUS
<1>3. l \in Loop2 /\ l.at = i /\ l.index = n  BY <1>2 DEF Loop2
<1>4. PICK t : t = Append(s, l)  OBVIOUS
<1>5. t \in Seq(Loop2) /\ Len(t) = Len(s) + 1 /\ t[Len(s) + 1] = l /\ \A k \in 1..Len(s) : t[k] = s[k]  BY <1>1, <1>3, <1>4
<1>6. Len(s) \in Nat  BY <1>1
<1>7. Len(s) < i
  <2>1. CASE Len(s) = 0  BY <2>1
  <2>2. CASE Len(s) > 0
    <3>1. Len(s) \in 1..Len(s)  BY <1>6, <2>2
    <3>2. s[Len(s)] \in Loop2  BY <1>1, <3>1
    <3>3. s[Len(s)].at \in Nat  BY <3>2 DEF Loop2
    <3>4. Len(s) <= s[Len(s)].at /\ s[Len(s)].at < i  BY <3>1 DEF Nest2
    <3>5. QED  BY <1>6, <3>3, <3>4
  <2>3. QED  BY <2>1, <2>2, <1>6
<1>8. ASSUME NEW k \in 1..Len(t) PROVE /\ k <= t[k].at /\ t[k].at < i + 1 /\ t[k].at <= Len(p)
                                       /\ t[k].index <= Lml2!Rounds(p[t[k].at])
                                       /\ \A j \in 1..(k - 1) : t[j].at < t[k].at
  <2>1. CASE k \in 1..Len(s)
    <3>1. t[k] = s[k] /\ \A j \in 1..(k - 1) : t[j] = s[j]  BY <1>5, <1>6, <2>1
    <3>2. s[k] \in Loop2  BY <1>1, <2>1
    <3>3. s[k].at \in Nat  BY <3>2 DEF Loop2
    <3>4. s[k].at < i /\ k <= s[k].at /\ s[k].at <= Len(p) /\ s[k].index <= Lml2!Rounds(p[s[k].at])
          /\ \A j \in 1..(k - 1) : s[j].at < s[k].at
      BY <2>1 DEF Nest2
    <3>5. s[k].at < i + 1  BY <3>3, <3>4
    <3>6. QED  BY <3>1, <3>4, <3>5
  <2>2. CASE k = Len(s) + 1
    <3>1. t[k] = l  BY <1>5, <2>2
    <3>2. \A j \in 1..(k - 1) : t[j] = s[j] /\ s[j].at < i  BY <1>5, <1>6, <2>2 DEF Nest2
    <3>3. QED  BY <1>3, <1>6, <1>7, <2>2, <3>1, <3>2
  <2>3. QED  BY <1>5, <1>6, <1>8, <2>1, <2>2
<1>9. QED  BY <1>2, <1>4, <1>5, <1>8 DEF Nest2

\* the top of a stack is itself over, and may be replaced
LEMMA Nest2Top == ASSUME NEW s, NEW p, NEW i \in Nat, Nest2(s, p, i), Len(s) > 0, NEW n \in Nat, n <= Lml2!Rounds(p[s[Len(s)].at])
  PROVE Nest2([s EXCEPT ![Len(s)].index = n], p, s[Len(s)].at + 1)
<1>1. s \in Seq(Loop2)  BY DEF Nest2
<1>2. Len(s) \in Nat /\ Len(s) \in 1..Len(s)  BY <1>1
<1>3. s[Len(s)] \in Loop2  BY <1>1, <1>2
<1>4. PICK l : l = s[Len(s)]  OBVIOUS
<1>5. PICK m : m = [l EXCEPT !.index = n]  OBVIOUS
<1>6. l.at \in Nat /\ m = [at |-> l.at, index |-> n] /\ m \in Loop2  BY <1>3, <1>4, <1>5 DEF Loop2
<1>7. PICK t : t = [s EXCEPT ![Len(s)] = m]  OBVIOUS
<1>8. t = [s EXCEPT ![Len(s)].index = n]  BY <1>4, <1>5, <1>7
<1>9. t \in Seq(Loop2) /\ Len(t) = Len(s) /\ t[Len(s)] = m /\ \A k \in 1..Len(s) : k # Len(s) => t[k] = s[k]
  BY <1>1, <1>2, <1>6, <1>7
<1>10. ASSUME NEW k \in 1..Len(t) PROVE /\ k <= t[k].at /\ t[k].at < l.at + 1 /\ t[k].at <= Len(p)
                                        /\ t[k].index <= Lml2!Rounds(p[t[k].at])
                                        /\ \A j \in 1..(k - 1) : t[j].at < t[k].at
  <2>1. \A j \in 1..(k - 1) : t[j] = s[j]  BY <1>2, <1>9, <1>10
  <2>2. t[k].at = s[k].at  BY <1>4, <1>6, <1>9, <1>10
  <2>3. k <= s[k].at /\ s[k].at <= Len(p) /\ s[k].index <= Lml2!Rounds(p[s[k].at]) /\ \A j \in 1..(k - 1) : s[j].at < s[k].at
    BY <1>9, <1>10 DEF Nest2
  <2>4. s[k] \in Loop2  BY <1>1, <1>9, <1>10
  <2>5. s[k].at \in Nat  BY <2>4 DEF Loop2
  <2>6. CASE k = Len(s)  BY <1>4, <1>6, <1>9, <2>1, <2>2, <2>3, <2>5, <2>6
  <2>7. CASE k # Len(s)
    <3>1. k \in 1..(Len(s) - 1)  BY <1>2, <1>9, <1>10, <2>7
    <3>2. s[k].at < l.at  BY <1>2, <1>4, <3>1 DEF Nest2
    <3>3. QED  BY <1>6, <1>9, <1>10, <2>1, <2>2, <2>3, <2>5, <2>7, <3>2
  <2>8. QED  BY <2>6, <2>7
<1>11. QED  BY <1>4, <1>8, <1>9, <1>10 DEF Nest2

\* runFor(), of a stack whose top is the loop the block belongs to
LEMMA Lml2Rounded == ASSUME Lml2Inv, at > 0, NEW s, Nest2(s, template, at + 1), Len(s) > 0, Lml2!RunFor(s), flags.toSkip = 0,
                        UNCHANGED <<template, written>> PROVE Lml2Inv'
<1>1. template \in Seq(Lml2!Blocks) /\ Len(template) <= MaxBlocks /\ at \in 0..(Len(template) + 1)  BY DEF Lml2Inv
<1>2. PICK l : l = s[Len(s)]  OBVIOUS
<1>3. s \in Seq(Loop2) /\ Len(s) \in 1..Len(s)  BY DEF Nest2
<1>4. l \in Loop2  BY <1>2, <1>3
<1>5. l.at \in Nat /\ l.index \in Nat  BY <1>4 DEF Loop2
<1>6. Len(s) <= l.at /\ l.at <= Len(template) /\ l.index <= Lml2!Rounds(template[l.at])  BY <1>2, <1>3 DEF Nest2
<1>7. at' = l.at + 1 /\ at' \in 0..(Len(template) + 1) /\ l.at \in 1..Len(template)  BY <1>1, <1>2, <1>3, <1>5, <1>6 DEF Lml2!RunFor
<1>8. Lml2!Rounds(template[l.at]) \in Nat  BY DEF Lml2!Rounds
<1>9. /\ Nest2(loops', template, at')
      /\ flags' \in [skipping : BOOLEAN, toSkip : Nat, over : {"no", "done", "thrown"}] /\ flags'.toSkip = 0
  <2>1. flags \in [skipping : BOOLEAN, toSkip : Nat, over : {"no", "done", "thrown"}]  BY DEF Lml2Inv
  <2>2. CASE l.index = Lml2!Rounds(template[l.at])
    <3>1. loops' = SubSeq(s, 1, Len(s) - 1) /\ flags' = [flags EXCEPT !.skipping = TRUE]  BY <1>2, <2>2 DEF Lml2!RunFor, Lml2!Skip
    <3>2. Nest2(loops', template, l.at)  BY <1>1, <1>2, <1>3, <3>1, Nest2Pop
    <3>3. Nest2(loops', template, at')  BY <1>5, <1>7, <3>2, Nest2Stays
    <3>4. QED  BY <2>1, <3>1, <3>3
  <2>3. CASE l.index # Lml2!Rounds(template[l.at])
    <3>1. loops' = [s EXCEPT ![Len(s)].index = @ + 1] /\ flags' = flags  BY <1>2, <2>3 DEF Lml2!RunFor
    <3>2. l.index + 1 \in Nat /\ l.index + 1 <= Lml2!Rounds(template[l.at])  BY <1>5, <1>6, <1>8, <2>3
    <3>3. loops' = [s EXCEPT ![Len(s)].index = l.index + 1]  BY <1>2, <3>1
    <3>4. PICK n \in Nat : n = l.index + 1  BY <3>2
    <3>5. n <= Lml2!Rounds(template[s[Len(s)].at]) /\ Len(s) > 0 /\ at + 1 \in Nat  BY <1>1, <1>2, <3>2, <3>4
    <3>6. Nest2([s EXCEPT ![Len(s)].index = n], template, s[Len(s)].at + 1)  BY <3>5, Nest2Top
    <3>7. Nest2(loops', template, at')  BY <1>2, <1>7, <3>3, <3>4, <3>6
    <3>8. QED  BY <2>1, <3>1, <3>7
  <2>4. QED  BY <2>2, <2>3
<1>10. QED  BY <1>1, <1>7, <1>9 DEF Lml2Inv

LEMMA Lml2Onward == ASSUME Lml2Inv, at \in DOMAIN template, at' = at + 1, loops' = loops, template' = template,
                       written' \in [1..MaxBlocks -> 0..Lml2!Enough],
                       flags' \in [skipping : BOOLEAN, toSkip : Nat, over : {"no", "done", "thrown"}],
                       flags'.toSkip # 0 => flags'.skipping /\ flags'.toSkip < at + 1
  PROVE Lml2Inv'
<1>1. template \in Seq(Lml2!Blocks) /\ Len(template) <= MaxBlocks /\ at \in 1..Len(template)  BY DEF Lml2Inv
<1>2. at' \in 0..(Len(template) + 1) /\ at \in Nat /\ at + 1 \in Nat /\ at <= at + 1  BY <1>1
<1>3. Nest2(loops, template, at)  BY DEF Lml2Inv
<1>4. Nest2(loops, template, at + 1)  BY <1>2, <1>3, Nest2Stays
<1>5. QED  BY <1>1, <1>2, <1>4 DEF Lml2Inv

LEMMA Lml2Nexts == ASSUME Lml2Inv, Lml2!Next PROVE Lml2Inv'
<1>1. /\ template \in Seq(Lml2!Blocks) /\ Len(template) <= MaxBlocks /\ Len(template) \in Nat /\ MaxBlocks \in Nat
      /\ at \in 0..(Len(template) + 1) /\ Nest2(loops, template, at) /\ written \in [1..MaxBlocks -> 0..Lml2!Enough]
      /\ DOMAIN template = 1..Len(template)
  BY CountsAssumption DEF Lml2Inv, CountsAssumption
<1>2. PICK f : f = flags  OBVIOUS
<1>3. /\ f \in [skipping : BOOLEAN, toSkip : Nat, over : {"no", "done", "thrown"}]
      /\ f.toSkip # 0 => f.skipping /\ f.toSkip < at
  BY <1>2 DEF Lml2Inv
<1>4. f = [skipping |-> f.skipping, toSkip |-> f.toSkip, over |-> f.over] /\ f.skipping \in BOOLEAN /\ f.toSkip \in Nat
      /\ f.over \in {"no", "done", "thrown"}
  BY <1>3
<1>5. CASE Lml2!Write
  <2>1. PICK b \in Lml2!Blocks : template' = Append(template, b)  BY <1>5 DEF Lml2!Write
  <2>2. at = 0 /\ Len(template) < MaxBlocks /\ UNCHANGED <<at, flags, loops, written>>  BY <1>5 DEF Lml2!Write
  <2>3. template' \in Seq(Lml2!Blocks) /\ Len(template') = Len(template) + 1  BY <1>1, <2>1
  <2>4. Nest2(loops, template', 0)
    <3>1. loops \in Seq(Loop2)  BY <1>1 DEF Nest2
    <3>2. ASSUME NEW k \in 1..Len(loops) PROVE FALSE
      <4>1. loops[k] \in Loop2  BY <3>1, <3>2
      <4>2. loops[k].at \in Nat /\ loops[k].at < 0  BY <1>1, <2>2, <3>2, <4>1 DEF Loop2, Nest2
      <4>3. QED  BY <4>2
    <3>3. QED  BY <3>1, <3>2 DEF Nest2
  <2>5. QED  BY <1>1, <1>2, <1>3, <2>2, <2>3, <2>4 DEF Lml2Inv
<1>6. CASE Lml2!Deal
  <2>1. at = 0 /\ at' = 1 /\ UNCHANGED <<template, flags, loops, written>>  BY <1>6 DEF Lml2!Deal
  <2>2. Nest2(loops, template, 1)  BY <1>1, <2>1, Nest2Stays
  <2>3. f.toSkip = 0  BY <1>3, <1>4, <2>1
  <2>4. QED  BY <1>1, <1>2, <1>3, <2>1, <2>2, <2>3 DEF Lml2Inv
<1>7. CASE Lml2!Text
  <2>1. at \in DOMAIN template /\ at' = at + 1 /\ UNCHANGED <<template, flags, loops>>  BY <1>7 DEF Lml2!Text, Lml2!Running
  <2>2. written' \in [1..MaxBlocks -> 0..Lml2!Enough]
    <3>1. CASE f.skipping  BY <1>1, <1>2, <1>7, <3>1 DEF Lml2!Text
    <3>2. CASE ~f.skipping
      <4>1. PICK w : w = IF written[at] = Lml2!Enough THEN written[at] ELSE written[at] + 1  OBVIOUS
      <4>2. at \in 1..MaxBlocks  BY <1>1, <2>1
      <4>3. written[at] \in 0..Lml2!Enough  BY <1>1, <4>2
      <4>4. w \in 0..Lml2!Enough  BY <4>1, <4>3 DEF Lml2!Enough
      <4>5. written' = [written EXCEPT ![at] = w]  BY <1>2, <1>7, <3>2, <4>1 DEF Lml2!Text
      <4>6. QED  BY <1>1, <4>4, <4>5
    <3>3. QED  BY <3>1, <3>2
  <2>3. f.toSkip # 0 => f.skipping /\ f.toSkip < at + 1  BY <1>1, <1>3, <1>4
  <2>4. QED  BY <1>2, <1>3, <2>1, <2>2, <2>3, Lml2Onward
<1>8. CASE Lml2!Opening
  <2>1. at \in DOMAIN template /\ template[at] \in Lml2!Openings /\ UNCHANGED <<template, written>>  BY <1>8 DEF Lml2!Opening, Lml2!Running
  <2>2. CASE f.skipping
    <3>1. flags' = [f EXCEPT !.toSkip = @ + 1] /\ at' = at + 1 /\ loops' = loops  BY <1>2, <1>8, <2>2 DEF Lml2!Opening
    <3>2. flags' = [skipping |-> TRUE, toSkip |-> f.toSkip + 1, over |-> f.over]  BY <1>4, <2>2, <3>1
    <3>3. f.toSkip + 1 < at + 1  BY <1>1, <1>3, <1>4, <2>1
    <3>4. f.toSkip + 1 \in Nat  BY <1>4
    <3>5. QED  BY <1>1, <1>4, <2>1, <3>1, <3>2, <3>3, <3>4, Lml2Onward
  <2>3. CASE ~f.skipping /\ template[at] \in Lml2!Ifs
    <3>1. Lml2!Skip(template[at] = "if false") /\ at' = at + 1 /\ loops' = loops  BY <1>2, <1>8, <2>3 DEF Lml2!Opening
    <3>2. PICK b \in BOOLEAN : flags' = [f EXCEPT !.skipping = b]  BY <1>2, <3>1 DEF Lml2!Skip
    <3>3. flags' = [skipping |-> b, toSkip |-> f.toSkip, over |-> f.over] /\ f.toSkip = 0  BY <1>3, <1>4, <2>3, <3>2
    <3>4. QED  BY <1>1, <1>4, <2>1, <3>1, <3>3, Lml2Onward
  <2>4. CASE ~f.skipping /\ template[at] \notin Lml2!Ifs
    <3>1. PICK s : s = Append(loops, [at |-> at, index |-> 0])  OBVIOUS
    <3>2. Lml2!RunFor(s)  BY <1>2, <1>8, <2>4, <3>1 DEF Lml2!Opening
    <3>3. at \in 1..Len(template) /\ at \in Nat /\ at > 0  BY <1>1, <2>1
    <3>4. 0 <= Lml2!Rounds(template[at])  BY DEF Lml2!Rounds
    <3>5. Nest2(s, template, at + 1)  BY <1>1, <3>1, <3>3, <3>4, Nest2Push
    <3>6. Len(s) > 0
      <4>1. loops \in Seq(Loop2) /\ [at |-> at, index |-> 0] \in Loop2  BY <1>1, <3>3 DEF Nest2, Loop2
      <4>2. QED  BY <3>1, <4>1
    <3>7. f.toSkip = 0  BY <1>3, <2>4
    <3>8. QED  BY <1>2, <2>1, <3>2, <3>3, <3>5, <3>6, <3>7, Lml2Rounded
  <2>5. QED  BY <2>2, <2>3, <2>4
<1>9. CASE Lml2!Closing
  <2>1. at \in DOMAIN template /\ UNCHANGED <<template, written>>  BY <1>9 DEF Lml2!Closing, Lml2!Running
  <2>2. CASE f.toSkip > 0
    <3>1. flags' = [f EXCEPT !.toSkip = @ - 1] /\ at' = at + 1 /\ loops' = loops  BY <1>2, <1>9, <2>2 DEF Lml2!Closing
    <3>2. flags' = [skipping |-> f.skipping, toSkip |-> f.toSkip - 1, over |-> f.over]  BY <1>4, <3>1
    <3>3. f.toSkip - 1 \in Nat /\ f.skipping /\ f.toSkip - 1 < at + 1  BY <1>1, <1>3, <1>4, <2>1, <2>2
    <3>4. QED  BY <1>1, <1>4, <2>1, <3>1, <3>2, <3>3, Lml2Onward
  <2>3. CASE f.toSkip = 0 /\ (template[at] # "endfor" \/ f.skipping)
    <3>1. Lml2!Skip(template[at] = "else" /\ ~f.skipping) /\ at' = at + 1 /\ loops' = loops  BY <1>2, <1>9, <2>3 DEF Lml2!Closing
    <3>2. PICK b \in BOOLEAN : flags' = [f EXCEPT !.skipping = b]  BY <1>2, <3>1 DEF Lml2!Skip
    <3>3. flags' = [skipping |-> b, toSkip |-> f.toSkip, over |-> f.over] /\ f.toSkip = 0  BY <1>3, <1>4, <2>3, <3>2
    <3>4. QED  BY <1>1, <1>4, <2>1, <3>1, <3>3, Lml2Onward
  <2>4. CASE f.toSkip = 0 /\ ~(template[at] # "endfor" \/ f.skipping)
    <3>1. IF loops = << >> THEN flags' = [f EXCEPT !.over = "thrown"] /\ UNCHANGED <<at, loops>> ELSE Lml2!RunFor(loops)
      BY <1>2, <1>9, <2>4 DEF Lml2!Closing
    <3>2. CASE loops = << >>
      <4>1. flags' = [skipping |-> f.skipping, toSkip |-> f.toSkip, over |-> "thrown"] /\ UNCHANGED <<at, loops>>
        BY <1>4, <3>1, <3>2
      <4>2. QED  BY <1>1, <1>3, <1>4, <2>1, <2>4, <4>1 DEF Lml2Inv
    <3>3. CASE loops # << >>
      <4>1. loops \in Seq(Loop2)  BY <1>1 DEF Nest2
      <4>2. Len(loops) > 0 /\ at > 0 /\ at \in Nat /\ at + 1 \in Nat /\ at <= at + 1  BY <1>1, <2>1, <3>3, <4>1
      <4>3. Nest2(loops, template, at + 1)  BY <1>1, <4>2, Nest2Stays
      <4>4. QED  BY <1>2, <2>1, <2>4, <3>1, <3>3, <4>2, <4>3, Lml2Rounded
    <3>4. QED  BY <3>2, <3>3
  <2>5. QED  BY <1>4, <2>2, <2>3, <2>4
<1>10. CASE Lml2!Finish
  <2>1. flags' = [f EXCEPT !.over = "done"] /\ UNCHANGED <<template, at, loops, written>>  BY <1>2, <1>10 DEF Lml2!Finish
  <2>2. flags' = [skipping |-> f.skipping, toSkip |-> f.toSkip, over |-> "done"]  BY <1>4, <2>1
  <2>3. QED  BY <1>1, <1>3, <1>4, <2>1, <2>2 DEF Lml2Inv
<1>11. QED  BY <1>5, <1>6, <1>7, <1>8, <1>9, <1>10 DEF Lml2!Next, Lml2!Step

-----------------------------------------------------------------------------
(* The engine of LML (lml/lml.js) *)

Open1 == [at : Nat, index : Nat, end : Nat, requiredSkip : Nat]

\* e was opened by a block of p, and its end is not before it; which of several it counts, and what it skips
Lml1Opened(e, p) ==
    /\ e \in Open1 /\ e.at \in 1..Len(p) /\ p[e.at] \in Lml1!Openings
    /\ e.end = 0 \/ e.end \in (e.at + 1)..Len(p)

Around1(e, p) == Lml1Opened(e, p) /\ e.index <= Lml1!Rounds(p[e.at]) /\ e.requiredSkip = 0

\* the one on top may be a loop which is over, and then it is skipped
Lml1OnTop(e, p, i, f) ==
    /\ Lml1Opened(e, p) /\ e.at <= i /\ (e.at = i => f.looping)
    /\ e.index <= Lml1!Rounds(p[e.at]) \/ (p[e.at] \in Lml1!Fors /\ f.skipping /\ e.index = Lml1!Rounds(p[e.at]) + 1)
    /\ e.requiredSkip # 0 => f.skipping /\ e.requiredSkip < i

\* those below were opened one after the other, before block i
Nest1(s, p, i) ==
    /\ s \in Seq(Open1)
    /\ \A k \in 1..Len(s) : /\ Around1(s[k], p) /\ k <= s[k].at /\ s[k].at < i
                            /\ \A j \in 1..(k - 1) : s[j].at < s[k].at

Stacked(s, p, i, f) ==
    s = << >> \/ \E r, e : s = Append(r, e) /\ Nest1(r, p, e.at) /\ Len(r) < e.at /\ Lml1OnTop(e, p, i, f)

Lml1Inv ==
    /\ lines \in Seq(Lml1!Blocks) /\ Len(lines) <= MaxLines
    /\ cLine \in 0..(Len(lines) + 1)
    /\ marks \in [skipping : BOOLEAN, looping : BOOLEAN, over : BOOLEAN]
    /\ Stacked(stack, lines, cLine, marks)
    /\ copies \in [1..MaxLines -> 0..Lml1!Enough]

LEMMA Lml1Inits == ASSUME Lml1!Init PROVE Lml1Inv
BY CountsAssumption DEF Lml1!Init, Lml1Inv, Stacked, Lml1!Enough, CountsAssumption

LEMMA Lml1Stacking == ASSUME NEW r \in Seq(Open1), NEW e \in Open1
  PROVE  /\ Append(r, e) \in Seq(Open1) /\ Append(r, e) # << >> /\ Len(Append(r, e)) = Len(r) + 1 /\ Len(r) \in Nat
         /\ Append(r, e)[Len(r) + 1] = e /\ \A k \in 1..Len(r) : Append(r, e)[k] = r[k]
         /\ SubSeq(Append(r, e), 1, Len(r)) = r
         /\ \A x \in Open1 : [Append(r, e) EXCEPT ![Len(r) + 1] = x] = Append(r, x)
<1>1. PICK s : s = Append(r, e)  OBVIOUS
<1>2. s \in Seq(Open1) /\ Len(s) = Len(r) + 1 /\ Len(r) \in Nat /\ s[Len(r) + 1] = e /\ \A k \in 1..Len(r) : s[k] = r[k]
  BY <1>1
<1>3. s # << >>  BY <1>2
<1>4. PICK t : t = SubSeq(s, 1, Len(r))  OBVIOUS
<1>5. t \in Seq(Open1) /\ Len(t) = Len(r) /\ \A k \in 1..Len(r) : t[k] = s[k]  BY <1>2, <1>4
<1>6. t = r  BY <1>2, <1>5, SeqEqual
<1>7. ASSUME NEW x \in Open1 PROVE [s EXCEPT ![Len(r) + 1] = x] = Append(r, x)
  <2>1. PICK u, v : u = [s EXCEPT ![Len(r) + 1] = x] /\ v = Append(r, x)  OBVIOUS
  <2>2. u \in Seq(Open1) /\ Len(u) = Len(r) + 1 /\ u[Len(r) + 1] = x /\ \A k \in 1..Len(r) : u[k] = s[k]  BY <1>2, <2>1
  <2>3. v \in Seq(Open1) /\ Len(v) = Len(r) + 1 /\ v[Len(r) + 1] = x /\ \A k \in 1..Len(r) : v[k] = r[k]  BY <1>2, <2>1
  <2>4. \A k \in 1..Len(u) : u[k] = v[k]  BY <1>2, <2>2, <2>3
  <2>5. QED  BY <2>1, <2>2, <2>3, <2>4, SeqEqual
<1>8. QED  BY <1>1, <1>2, <1>3, <1>4, <1>6, <1>7

\* the stack in two parts
LEMMA Lml1InParts == ASSUME NEW p, NEW i, NEW f, Stacked(stack, p, i, f), stack # << >>
  PROVE  \E r, e : /\ stack = Append(r, e) /\ Nest1(r, p, e.at) /\ Len(r) < e.at /\ Lml1OnTop(e, p, i, f)
                   /\ r \in Seq(Open1) /\ e \in Open1 /\ Len(stack) = Len(r) + 1 /\ Len(r) \in Nat
                   /\ Lml1!Top = e /\ Lml1!Popped = r /\ \A x \in Open1 : Lml1!WithTop(x) = Append(r, x)
<1>1. PICK r, e : stack = Append(r, e) /\ Nest1(r, p, e.at) /\ Len(r) < e.at /\ Lml1OnTop(e, p, i, f)  BY DEF Stacked
<1>2. r \in Seq(Open1) /\ e \in Open1  BY <1>1 DEF Nest1, Lml1OnTop, Lml1Opened
<1>3. Len(stack) = Len(r) + 1 /\ Len(r) \in Nat /\ Len(stack) - 1 = Len(r)  BY <1>1, <1>2, Lml1Stacking
<1>4. stack[Len(stack)] = e /\ SubSeq(stack, 1, Len(stack) - 1) = r
      /\ \A x \in Open1 : [stack EXCEPT ![Len(stack)] = x] = Append(r, x)
  BY <1>1, <1>2, <1>3, Lml1Stacking
<1>5. QED  BY <1>1, <1>2, <1>3, <1>4 DEF Lml1!Top, Lml1!Popped, Lml1!WithTop

LEMMA Lml1Entries == ASSUME NEW e \in Open1
  PROVE  /\ e.at \in Nat /\ e.index \in Nat /\ e.end \in Nat /\ e.requiredSkip \in Nat
         /\ e = [at |-> e.at, index |-> e.index, end |-> e.end, requiredSkip |-> e.requiredSkip]
BY DEF Open1

\* what is below the top, once it is gone
LEMMA Lml1Uncovered == ASSUME NEW p, NEW i \in Nat, NEW j \in Nat, NEW r, NEW f, Nest1(r, p, i), i <= j PROVE Stacked(r, p, j, f)
<1>1. r \in Seq(Open1) /\ Len(r) \in Nat  BY DEF Nest1
<1>2. CASE Len(r) = 0  BY <1>1, <1>2 DEF Stacked
<1>3. CASE Len(r) # 0
  <2>1. PICK n, e, q : n = Len(r) - 1 /\ e = r[Len(r)] /\ q = SubSeq(r, 1, n)  OBVIOUS
  <2>2. n \in Nat /\ Len(r) = n + 1 /\ n + 1 \in 1..Len(r)  BY <1>1, <1>3, <2>1
  <2>3. q \in Seq(Open1) /\ Len(q) = n /\ \A k \in 1..n : q[k] = r[k]  BY <1>1, <2>1, <2>2
  <2>4. e \in Open1  BY <1>1, <2>1, <2>2
  <2>5. r = Append(q, e)
    <3>1. PICK s : s = Append(q, e)  OBVIOUS
    <3>2. s \in Seq(Open1) /\ Len(s) = n + 1 /\ s[n + 1] = e /\ \A k \in 1..n : s[k] = q[k]  BY <2>3, <2>4, <3>1
    <3>3. \A k \in 1..Len(r) : s[k] = r[k]  BY <2>1, <2>2, <2>3, <3>2
    <3>4. QED  BY <1>1, <2>2, <3>1, <3>2, <3>3, SeqEqual
  <2>6. Around1(e, p) /\ n + 1 <= e.at /\ e.at < i /\ \A k \in 1..n : r[k].at < e.at  BY <2>1, <2>2 DEF Nest1
  <2>7. e.at \in Nat /\ e.index \in Nat /\ e.requiredSkip \in Nat  BY <2>4, Lml1Entries
  <2>8. Nest1(q, p, e.at)
    <3>1. ASSUME NEW k \in 1..n PROVE /\ Around1(q[k], p) /\ k <= q[k].at /\ q[k].at < e.at
                                      /\ \A m \in 1..(k - 1) : q[m].at < q[k].at
      <4>1. k \in 1..Len(r) /\ q[k] = r[k] /\ \A m \in 1..(k - 1) : q[m] = r[m]  BY <2>2, <2>3, <3>1
      <4>2. QED  BY <2>6, <4>1 DEF Nest1
    <3>2. QED  BY <2>3, <3>1 DEF Nest1
  <2>9. e.at < j /\ Len(q) < e.at  BY <2>2, <2>3, <2>6, <2>7
  <2>10. Lml1OnTop(e, p, j, f)  BY <2>6, <2>7, <2>9 DEF Lml1OnTop, Around1
  <2>11. QED  BY <2>5, <2>8, <2>9, <2>10 DEF Stacked
<1>4. QED  BY <1>2, <1>3

\* nothing changes but the block which is next
LEMMA Lml1Further == ASSUME NEW s, NEW p, NEW i \in Nat, NEW f, NEW g, Stacked(s, p, i, f), f.skipping => g.skipping
  PROVE Stacked(s, p, i + 1, g)
<1>1. CASE s = << >>  BY <1>1 DEF Stacked
<1>2. CASE s # << >>
  <2>1. PICK r, e : s = Append(r, e) /\ Nest1(r, p, e.at) /\ Len(r) < e.at /\ Lml1OnTop(e, p, i, f)  BY <1>2 DEF Stacked
  <2>2. e \in Open1  BY <2>1 DEF Lml1OnTop, Lml1Opened
  <2>3. e.at \in Nat /\ e.requiredSkip \in Nat  BY <2>2, Lml1Entries
  <2>4. e.at <= i /\ e.at <= i + 1 /\ e.at # i + 1  BY <2>1, <2>3 DEF Lml1OnTop
  <2>5. e.requiredSkip # 0 => g.skipping /\ e.requiredSkip < i + 1  BY <2>1, <2>3 DEF Lml1OnTop
  <2>6. Lml1OnTop(e, p, i + 1, g)  BY <2>1, <2>4, <2>5 DEF Lml1OnTop
  <2>7. QED  BY <2>1, <2>6 DEF Stacked
<1>3. QED  BY <1>1, <1>2

LEMMA Lml1Goods == ASSUME Lml1Inv PROVE Lml1!TypeOK
<1>1. /\ lines \in Seq(Lml1!Blocks) /\ Len(lines) <= MaxLines /\ cLine \in 0..(Len(lines) + 1)
      /\ Len(lines) \in Nat /\ MaxLines \in Nat /\ Stacked(stack, lines, cLine, marks)
  BY CountsAssumption DEF Lml1Inv, CountsAssumption
<1>2. CASE stack = << >>  BY <1>1, <1>2 DEF Lml1Inv, Lml1!TypeOK
<1>3. CASE stack # << >>
  <2>1. PICK r, e : /\ stack = Append(r, e) /\ Nest1(r, lines, e.at) /\ Len(r) < e.at /\ Lml1OnTop(e, lines, cLine, marks)
                    /\ r \in Seq(Open1) /\ e \in Open1 /\ Len(stack) = Len(r) + 1 /\ Len(r) \in Nat
    BY <1>1, <1>3, Lml1InParts
  <2>2. ASSUME NEW x, Lml1Opened(x, lines), x.index <= Lml1!Rounds(lines[x.at]) + 1, x.requiredSkip <= Len(lines)
        PROVE x \in Lml1!Entry
    <3>1. x \in Open1 /\ x.at \in 1..Len(lines) /\ (x.end = 0 \/ x.end \in (x.at + 1)..Len(lines))  BY <2>2 DEF Lml1Opened
    <3>2. x.index \in Nat /\ x.end \in Nat /\ x.requiredSkip \in Nat /\ x.at \in Nat
          /\ x = [at |-> x.at, index |-> x.index, end |-> x.end, requiredSkip |-> x.requiredSkip]
      BY <3>1, Lml1Entries
    <3>3. Lml1!Rounds(lines[x.at]) \in {0, 2}  BY DEF Lml1!Rounds
    <3>4. x.index \in 0..3  BY <2>2, <3>2, <3>3
    <3>5. x.at \in 1..MaxLines /\ x.end \in 0..MaxLines /\ x.requiredSkip \in 0..MaxLines  BY <1>1, <2>2, <3>1, <3>2
    <3>6. QED  BY <3>2, <3>4, <3>5 DEF Lml1!Entry
  <2>3. e \in Lml1!Entry
    <3>1. Lml1!Rounds(lines[e.at]) \in Nat  BY DEF Lml1!Rounds
    <3>2. e.index \in Nat /\ e.requiredSkip \in Nat /\ e.at \in Nat  BY <2>1, Lml1Entries
    <3>3. e.index <= Lml1!Rounds(lines[e.at]) + 1 /\ e.requiredSkip <= Len(lines)
      BY <1>1, <2>1, <3>1, <3>2 DEF Lml1OnTop
    <3>4. QED  BY <2>1, <2>2, <3>3 DEF Lml1OnTop
  <2>4. \A k \in 1..Len(r) : r[k] \in Lml1!Entry
    <3> TAKE k \in 1..Len(r)
    <3>1. Around1(r[k], lines)  BY <2>1 DEF Nest1
    <3>2. r[k] \in Open1  BY <3>1 DEF Around1, Lml1Opened
    <3>3. Lml1!Rounds(lines[r[k].at]) \in Nat /\ r[k].index \in Nat  BY <3>2, Lml1Entries DEF Lml1!Rounds
    <3>4. r[k].index <= Lml1!Rounds(lines[r[k].at]) + 1 /\ r[k].requiredSkip <= Len(lines)  BY <1>1, <3>1, <3>3 DEF Around1
    <3>5. QED  BY <2>2, <3>1, <3>4 DEF Around1
  <2>5. r \in Seq(Lml1!Entry)  BY <2>1, <2>4, SeqsAre
  <2>6. stack \in Seq(Lml1!Entry)  BY <2>1, <2>3, <2>5
  <2>7. e.at \in 1..Len(lines)  BY <2>1 DEF Lml1OnTop, Lml1Opened
  <2>8. Len(stack) <= MaxLines  BY <1>1, <2>1, <2>7
  <2>9. QED  BY <1>1, <2>6, <2>8 DEF Lml1Inv, Lml1!TypeOK
<1>4. QED  BY <1>2, <1>3

\* a stack whose top is neither skipped nor looping lies below what is opened next
LEMMA Lml1Covered == ASSUME NEW s, NEW p, NEW i \in Nat, NEW f, Stacked(s, p, i, f), ~f.looping, ~f.skipping, i > 0
  PROVE Nest1(s, p, i) /\ Len(s) < i /\ s \in Seq(Open1)
<1>1. CASE s = << >>  BY <1>1 DEF Nest1
<1>2. CASE s # << >>
  <2>1. PICK r, e : s = Append(r, e) /\ Nest1(r, p, e.at) /\ Len(r) < e.at /\ Lml1OnTop(e, p, i, f)  BY <1>2 DEF Stacked
  <2>2. r \in Seq(Open1) /\ e \in Open1  BY <2>1 DEF Nest1, Lml1OnTop, Lml1Opened
  <2>3. PICK n : n = Len(r)  OBVIOUS
  <2>4. s \in Seq(Open1) /\ Len(s) = n + 1 /\ n \in Nat /\ s[n + 1] = e /\ \A k \in 1..n : s[k] = r[k]
    BY <2>1, <2>2, <2>3, Lml1Stacking
  <2>5. e.at \in Nat /\ e.at < i /\ e.at # i /\ Around1(e, p)
    <3>1. e.at \in Nat /\ e.requiredSkip \in Nat  BY <2>2, Lml1Entries
    <3>2. QED  BY <2>1, <3>1 DEF Lml1OnTop, Around1
  <2>6. n + 1 <= e.at /\ n + 1 < i  BY <2>1, <2>3, <2>4, <2>5
  <2>7. ASSUME NEW k \in 1..(n + 1) PROVE /\ Around1(s[k], p) /\ k <= s[k].at /\ s[k].at < i
                                          /\ \A m \in 1..(k - 1) : s[m].at < s[k].at
    <3>1. CASE k = n + 1
      <4>1. s[k] = e  BY <2>4, <3>1
      <4>2. \A m \in 1..(k - 1) : s[m] = r[m] /\ r[m].at < e.at  BY <2>1, <2>3, <2>4, <3>1 DEF Nest1
      <4>3. QED  BY <2>5, <2>6, <3>1, <4>1, <4>2
    <3>2. CASE k # n + 1
      <4>1. k \in 1..n  BY <2>4, <2>7, <3>2
      <4>2. s[k] = r[k] /\ \A m \in 1..(k - 1) : s[m] = r[m]  BY <2>4, <4>1
      <4>3. /\ Around1(r[k], p) /\ k <= r[k].at /\ r[k].at < e.at
            /\ \A m \in 1..(k - 1) : r[m].at < r[k].at
        BY <2>1, <2>3, <4>1 DEF Nest1
      <4>4. r[k].at \in Nat
        <5>1. r[k] \in Open1  BY <4>3 DEF Around1, Lml1Opened
        <5>2. QED  BY <5>1, Lml1Entries
      <4>5. r[k].at < i  BY <2>5, <4>3, <4>4
      <4>6. QED  BY <4>2, <4>3, <4>5
    <3>3. QED  BY <3>1, <3>2
  <2>8. QED  BY <2>4, <2>6, <2>7 DEF Nest1
<1>3. QED  BY <1>1, <1>2

LEMMA Lml1Moved == ASSUME Lml1Inv, lines' = lines, cLine' \in 0..(Len(lines) + 1),
                      marks' \in [skipping : BOOLEAN, looping : BOOLEAN, over : BOOLEAN],
                      Stacked(stack', lines, cLine', marks'), copies' \in [1..MaxLines -> 0..Lml1!Enough]
  PROVE Lml1Inv'
BY DEF Lml1Inv

\* x is e in its next round: e was open, j comes after it, and it is skipped if there is no further round
Lml1Again(x, e, p, j, f) ==
    /\ x \in Open1 /\ x.at = e.at /\ x.end = e.end /\ x.requiredSkip = 0 /\ e.at < j
    /\ x.index <= Lml1!Rounds(p[e.at]) \/ (p[e.at] \in Lml1!Fors /\ f.skipping /\ x.index = Lml1!Rounds(p[e.at]) + 1)

LEMMA Lml1Entered == ASSUME NEW p, NEW r, NEW e, Around1(e, p), Nest1(r, p, e.at), Len(r) < e.at, NEW x, NEW j \in Nat, NEW f,
                        Lml1Again(x, e, p, j, f)
  PROVE Stacked(Append(r, x), p, j, f)
<1>1. e \in Open1 /\ Lml1Opened(e, p)  BY DEF Around1, Lml1Opened
<1>2. e.at \in Nat  BY <1>1, Lml1Entries
<1>3. x.at = e.at /\ x.end = e.end /\ x.requiredSkip = 0 /\ x \in Open1 /\ x.at <= j /\ x.at # j  BY <1>2 DEF Lml1Again
<1>4. Lml1Opened(x, p)  BY <1>1, <1>3 DEF Lml1Opened
<1>5. x.index <= Lml1!Rounds(p[x.at]) \/ (p[x.at] \in Lml1!Fors /\ f.skipping /\ x.index = Lml1!Rounds(p[x.at]) + 1)  BY <1>3 DEF Lml1Again
<1>6. Lml1OnTop(x, p, j, f)  BY <1>3, <1>4, <1>5 DEF Lml1OnTop
<1>7. QED  BY <1>3, <1>6 DEF Stacked

LEMMA Lml1Nexts == ASSUME Lml1Inv, Lml1!Next PROVE Lml1Inv'
<1>1. /\ lines \in Seq(Lml1!Blocks) /\ Len(lines) <= MaxLines /\ Len(lines) \in Nat /\ MaxLines \in Nat
      /\ cLine \in 0..(Len(lines) + 1) /\ cLine \in Nat /\ Stacked(stack, lines, cLine, marks)
      /\ copies \in [1..MaxLines -> 0..Lml1!Enough] /\ DOMAIN lines = 1..Len(lines)
  BY CountsAssumption DEF Lml1Inv, CountsAssumption
<1>2. PICK f : f = marks  OBVIOUS
<1>3. f = [skipping |-> f.skipping, looping |-> f.looping, over |-> f.over] /\ f.skipping \in BOOLEAN /\ f.looping \in BOOLEAN
      /\ f.over \in BOOLEAN
  BY <1>2 DEF Lml1Inv
<1>4. f \in [skipping : BOOLEAN, looping : BOOLEAN, over : BOOLEAN]  BY <1>3
<1>5. CASE Lml1!Write
  <2>1. PICK b \in Lml1!Blocks : lines' = Append(lines, b)  BY <1>5 DEF Lml1!Write
  <2>2. cLine = 0 /\ Len(lines) < MaxLines /\ UNCHANGED <<cLine, marks, stack, copies>>  BY <1>5 DEF Lml1!Write
  <2>3. lines' \in Seq(Lml1!Blocks) /\ Len(lines') = Len(lines) + 1  BY <1>1, <2>1
  <2>4. stack = << >>
    <3> SUFFICES ASSUME stack # << >> PROVE FALSE  OBVIOUS
    <3>1. PICK e : Lml1OnTop(e, lines, cLine, marks)  BY <1>1 DEF Stacked
    <3>2. e.at \in 1..Len(lines) /\ e.at <= 0  BY <2>2, <3>1 DEF Lml1OnTop, Lml1Opened
    <3>3. QED  BY <1>1, <3>2
  <2>5. Stacked(stack, lines', cLine, marks)  BY <2>4 DEF Stacked
  <2>6. QED  BY <1>1, <1>2, <1>4, <2>2, <2>3, <2>5 DEF Lml1Inv
<1>6. CASE Lml1!Begin
  <2>1. cLine = 0 /\ cLine' = 1 /\ UNCHANGED <<lines, marks, stack, copies>>  BY <1>6 DEF Lml1!Begin
  <2>2. Stacked(stack, lines, 0 + 1, marks)  BY <1>1, <2>1, Lml1Further
  <2>3. QED  BY <1>1, <1>2, <1>4, <2>1, <2>2, Lml1Moved
<1>7. CASE Lml1!Text
  <2>1. cLine \in DOMAIN lines /\ cLine' = cLine + 1 /\ UNCHANGED <<lines, marks, stack>>  BY <1>7 DEF Lml1!Text, Lml1!Running
  <2>2. copies' \in [1..MaxLines -> 0..Lml1!Enough]
    <3>1. CASE f.skipping  BY <1>1, <1>2, <1>7, <3>1 DEF Lml1!Text
    <3>2. CASE ~f.skipping
      <4>1. PICK w : w = IF copies[cLine] = Lml1!Enough THEN copies[cLine] ELSE copies[cLine] + 1  OBVIOUS
      <4>2. cLine \in 1..MaxLines  BY <1>1, <2>1
      <4>3. copies[cLine] \in 0..Lml1!Enough  BY <1>1, <4>2
      <4>4. w \in 0..Lml1!Enough  BY <4>1, <4>3 DEF Lml1!Enough
      <4>5. copies' = [copies EXCEPT ![cLine] = w]  BY <1>2, <1>7, <3>2, <4>1 DEF Lml1!Text
      <4>6. QED  BY <1>1, <4>4, <4>5
    <3>3. QED  BY <3>1, <3>2
  <2>3. Stacked(stack, lines, cLine + 1, marks)  BY <1>1, Lml1Further
  <2>4. cLine + 1 \in 0..(Len(lines) + 1)  BY <1>1, <2>1
  <2>5. QED  BY <1>2, <1>4, <2>1, <2>2, <2>3, <2>4, Lml1Moved
<1>8. CASE Lml1!Opening
  <2>1. cLine \in DOMAIN lines /\ lines[cLine] \in Lml1!Openings /\ lines' = lines /\ copies' = copies
    BY <1>8 DEF Lml1!Opening, Lml1!Running
  <2>2. cLine \in 1..Len(lines) /\ cLine + 1 \in 0..(Len(lines) + 1) /\ cLine > 0  BY <1>1, <2>1
  <2>3. CASE stack = << >> /\ (f.skipping \/ f.looping)
    <3>1. marks' = [f EXCEPT !.looping = @ /\ f.skipping] /\ cLine' = cLine + 1 /\ stack' = stack  BY <1>2, <1>8, <2>3 DEF Lml1!Opening
    <3>2. marks' = [skipping |-> f.skipping, looping |-> f.looping /\ f.skipping, over |-> f.over]  BY <1>3, <3>1
    <3>3. marks' \in [skipping : BOOLEAN, looping : BOOLEAN, over : BOOLEAN]  BY <1>3, <3>2
    <3>4. Stacked(stack', lines, cLine', marks')  BY <2>3, <3>1 DEF Stacked
    <3>5. QED  BY <1>1, <2>1, <2>2, <3>1, <3>3, <3>4, Lml1Moved
  <2>4. CASE stack # << >> /\ f.skipping
    <3>1. PICK r, e : /\ stack = Append(r, e) /\ Nest1(r, lines, e.at) /\ Len(r) < e.at /\ Lml1OnTop(e, lines, cLine, marks)
                      /\ r \in Seq(Open1) /\ e \in Open1 /\ Len(stack) = Len(r) + 1 /\ Len(r) \in Nat
                      /\ Lml1!Top = e /\ Lml1!Popped = r /\ \A x \in Open1 : Lml1!WithTop(x) = Append(r, x)
      BY <1>1, <2>4, Lml1InParts
    <3>2. stack' = Lml1!WithTop([Lml1!Top EXCEPT !.requiredSkip = @ + 1]) /\ cLine' = cLine + 1 /\ marks' = marks  BY <1>2, <1>8, <2>4 DEF Lml1!Opening
    <3>3. PICK x : x = [e EXCEPT !.requiredSkip = @ + 1]  OBVIOUS
    <3>4. e.at \in Nat /\ e.index \in Nat /\ e.end \in Nat /\ e.requiredSkip \in Nat
          /\ e = [at |-> e.at, index |-> e.index, end |-> e.end, requiredSkip |-> e.requiredSkip]
      BY <3>1, Lml1Entries
    <3>5. x = [at |-> e.at, index |-> e.index, end |-> e.end, requiredSkip |-> e.requiredSkip + 1]  BY <3>3, <3>4
    <3>6. x \in Open1 /\ x.at = e.at /\ x.index = e.index /\ x.end = e.end /\ x.requiredSkip = e.requiredSkip + 1
      BY <3>4, <3>5 DEF Open1
    <3>7. stack' = Append(r, x)  BY <3>1, <3>2, <3>3, <3>6
    <3>8. Lml1OnTop(x, lines, cLine + 1, marks)
      <4>1. Lml1Opened(e, lines) /\ e.at <= cLine /\ (e.index <= Lml1!Rounds(lines[e.at]) \/
                (lines[e.at] \in Lml1!Fors /\ marks.skipping /\ e.index = Lml1!Rounds(lines[e.at]) + 1))
            /\ (e.requiredSkip # 0 => e.requiredSkip < cLine)
        BY <3>1 DEF Lml1OnTop
      <4>2. Lml1Opened(x, lines)  BY <3>6, <4>1 DEF Lml1Opened
      <4>3. x.at <= cLine + 1 /\ x.at # cLine + 1 /\ x.requiredSkip < cLine + 1  BY <1>1, <2>2, <3>4, <3>6, <4>1
      <4>4. QED  BY <1>2, <2>4, <3>6, <4>1, <4>2, <4>3 DEF Lml1OnTop
    <3>9. Stacked(stack', lines, cLine', marks')  BY <3>1, <3>2, <3>6, <3>7, <3>8 DEF Stacked
    <3>10. QED  BY <1>1, <1>2, <1>4, <2>1, <2>2, <3>2, <3>9, Lml1Moved
  <2>5. CASE ~(stack = << >> /\ (f.skipping \/ f.looping)) /\ ~(stack # << >> /\ f.skipping)
    <3>1. PICK entry, rest :
             /\ entry = IF f.looping THEN Lml1!Top ELSE [at |-> cLine, index |-> 0, end |-> 0, requiredSkip |-> 0]
             /\ rest = IF f.looping THEN Lml1!Popped ELSE stack
      OBVIOUS
    <3>2. PICK over \in BOOLEAN : over <=> (lines[entry.at] \in Lml1!Fors /\ entry.index >= Lml1!Rounds(lines[entry.at]))  OBVIOUS
    <3>3. /\ marks' = [f EXCEPT !.looping = FALSE, !.skipping = over \/ lines[entry.at] = "if false"]
          /\ stack' = Append(rest, Lml1!Round(entry))
          /\ cLine' = IF over /\ entry.index > 0 /\ entry.end > 0 THEN entry.end ELSE cLine + 1
      BY <1>2, <1>8, <2>5, <3>1, <3>2 DEF Lml1!Opening
    <3>4. over \in BOOLEAN /\ ~f.skipping  BY <1>3, <2>5, <3>2
    <3>5. marks' = [skipping |-> over \/ lines[entry.at] = "if false", looping |-> FALSE, over |-> f.over]
      BY <1>3, <3>3
    <3>6. marks' \in [skipping : BOOLEAN, looping : BOOLEAN, over : BOOLEAN]  BY <1>3, <3>4, <3>5
    <3>7. Around1(entry, lines) /\ Nest1(rest, lines, entry.at) /\ Len(rest) < entry.at /\ entry.at <= cLine
      <4>1. CASE f.looping
        <5>1. stack # << >>  BY <2>5, <4>1
        <5>2. PICK r, e : /\ Nest1(r, lines, e.at) /\ Len(r) < e.at /\ Lml1OnTop(e, lines, cLine, marks)
                          /\ e \in Open1 /\ Lml1!Top = e /\ Lml1!Popped = r
          BY <1>1, <5>1, Lml1InParts
        <5>3. Around1(e, lines) /\ e.at <= cLine
          <6>1. e.requiredSkip \in Nat  BY <5>2, Lml1Entries
          <6>2. QED  BY <1>2, <3>4, <5>2, <6>1 DEF Lml1OnTop, Around1
        <5>4. QED  BY <3>1, <4>1, <5>2, <5>3
      <4>2. CASE ~f.looping
        <5>1. Nest1(stack, lines, cLine) /\ Len(stack) < cLine  BY <1>1, <1>2, <2>2, <3>4, <4>2, Lml1Covered
        <5>2. entry = [at |-> cLine, index |-> 0, end |-> 0, requiredSkip |-> 0] /\ rest = stack  BY <3>1, <4>2
        <5>3. entry \in Open1 /\ entry.at = cLine /\ entry.index = 0 /\ entry.end = 0 /\ entry.requiredSkip = 0
          BY <1>1, <5>2 DEF Open1
        <5>4. 0 <= Lml1!Rounds(lines[cLine])  BY DEF Lml1!Rounds
        <5>5. Around1(entry, lines)  BY <2>1, <2>2, <5>3, <5>4 DEF Around1, Lml1Opened
        <5>6. QED  BY <1>1, <5>1, <5>2, <5>3, <5>5
      <4>3. QED  BY <4>1, <4>2
    <3>8. PICK x, j, f2, b, n : /\ x = Lml1!Round(entry) /\ j = cLine' /\ f2 = marks' /\ b = lines[entry.at]
                                /\ n = Lml1!Rounds(lines[entry.at])
      OBVIOUS
    <3>9. entry \in Open1 /\ entry.at \in 1..Len(lines) /\ b \in Lml1!Openings /\ entry.index <= n /\ entry.requiredSkip = 0
          /\ (entry.end = 0 \/ entry.end \in (entry.at + 1)..Len(lines))
      BY <3>7, <3>8 DEF Around1, Lml1Opened
    <3>10. entry.at \in Nat /\ entry.index \in Nat /\ entry.end \in Nat
           /\ entry = [at |-> entry.at, index |-> entry.index, end |-> entry.end, requiredSkip |-> entry.requiredSkip]
      BY <3>9, Lml1Entries
    <3>11. n \in Nat  BY <3>8 DEF Lml1!Rounds
    <3>12. Stacked(Append(rest, x), lines, j, f2) /\ j \in 0..(Len(lines) + 1)
      <4>1. j \in Nat /\ entry.at < j /\ j <= Len(lines) + 1
        <5>1. j = cLine + 1 \/ (j = entry.end /\ entry.end > 0)  BY <3>3, <3>8
        <5>2. CASE j = cLine + 1  BY <1>1, <2>2, <3>7, <3>10, <5>2
        <5>3. CASE j = entry.end /\ entry.end > 0  BY <1>1, <3>9, <3>10, <5>3
        <5>4. QED  BY <5>1, <5>2, <5>3
      <4>2. CASE b \in Lml1!Fors
        <5>1. x = [entry EXCEPT !.index = @ + 1]  BY <3>8, <4>2 DEF Lml1!Round
        <5>2. x = [at |-> entry.at, index |-> entry.index + 1, end |-> entry.end, requiredSkip |-> entry.requiredSkip]
          BY <3>10, <5>1
        <5>3. x \in Open1 /\ x.at = entry.at /\ x.end = entry.end /\ x.requiredSkip = 0 /\ x.index = entry.index + 1
          BY <3>9, <3>10, <5>2 DEF Open1
        <5>4. x.index <= n \/ (f2.skipping /\ x.index = n + 1)
          <6>1. CASE entry.index = n
            <7>a. entry.index >= Lml1!Rounds(lines[entry.at]) /\ lines[entry.at] \in Lml1!Fors  BY <3>8, <3>10, <3>11, <4>2, <6>1
            <7>1. over  BY <3>2, <7>a
            <7>2. f2.skipping  BY <3>5, <3>8, <7>1
            <7>3. QED  BY <5>3, <6>1, <7>2
          <6>2. CASE entry.index # n  BY <3>9, <3>10, <3>11, <5>3, <6>2
          <6>3. QED  BY <6>1, <6>2
        <5>5. Lml1Again(x, entry, lines, j, f2)  BY <3>8, <4>1, <4>2, <5>3, <5>4 DEF Lml1Again
        <5>6. Stacked(Append(rest, x), lines, j, f2)  BY <3>7, <4>1, <5>5, Lml1Entered
        <5>7. QED  BY <1>1, <4>1, <5>6
      <4>3. CASE b \notin Lml1!Fors
        <5>1. x = entry  BY <3>8, <4>3 DEF Lml1!Round
        <5>2. Lml1Again(x, entry, lines, j, f2)  BY <3>8, <3>9, <4>1, <5>1 DEF Lml1Again
        <5>3. Stacked(Append(rest, x), lines, j, f2)  BY <3>7, <4>1, <5>2, Lml1Entered
        <5>4. QED  BY <1>1, <4>1, <5>3
      <4>4. QED  BY <4>2, <4>3
    <3>13. QED  BY <1>1, <2>1, <3>3, <3>6, <3>8, <3>12, Lml1Moved
  <2>6. QED  BY <2>3, <2>4, <2>5
<1>9. CASE Lml1!Closing
  <2>1. cLine \in DOMAIN lines /\ lines[cLine] \in Lml1!Closings /\ lines' = lines /\ copies' = copies
    BY <1>9 DEF Lml1!Closing, Lml1!Running
  <2>2. cLine \in 1..Len(lines) /\ cLine + 1 \in 0..(Len(lines) + 1) /\ cLine > 0  BY <1>1, <2>1
  <2>3. CASE stack = << >>
    <3>1. marks' = marks /\ stack' = stack /\ cLine' = cLine + 1  BY <1>9, <2>3 DEF Lml1!Closing
    <3>2. Stacked(stack', lines, cLine', marks')  BY <2>3, <3>1 DEF Stacked
    <3>3. QED  BY <1>1, <1>2, <1>4, <2>1, <2>2, <3>1, <3>2, Lml1Moved
  <2>4. CASE stack # << >>
    <3>1. PICK r, e : /\ stack = Append(r, e) /\ Nest1(r, lines, e.at) /\ Len(r) < e.at /\ Lml1OnTop(e, lines, cLine, marks)
                      /\ r \in Seq(Open1) /\ e \in Open1 /\ Len(stack) = Len(r) + 1 /\ Len(r) \in Nat
                      /\ Lml1!Top = e /\ Lml1!Popped = r /\ \A x \in Open1 : Lml1!WithTop(x) = Append(r, x)
      BY <1>1, <2>4, Lml1InParts
    <3>2. e.at \in Nat /\ e.index \in Nat /\ e.end \in Nat /\ e.requiredSkip \in Nat
          /\ e = [at |-> e.at, index |-> e.index, end |-> e.end, requiredSkip |-> e.requiredSkip]
      BY <3>1, Lml1Entries
    <3>3. /\ Lml1Opened(e, lines) /\ e.at <= cLine /\ (e.index <= Lml1!Rounds(lines[e.at]) \/
                (lines[e.at] \in Lml1!Fors /\ marks.skipping /\ e.index = Lml1!Rounds(lines[e.at]) + 1))
          /\ (e.requiredSkip # 0 => marks.skipping /\ e.requiredSkip < cLine)
      BY <3>1 DEF Lml1OnTop
    <3>4. ASSUME NEW g PROVE Stacked(r, lines, cLine + 1, g)
      <4>1. e.at <= cLine + 1 /\ cLine + 1 \in Nat  BY <1>1, <3>2, <3>3
      <4>2. QED  BY <3>1, <3>2, <4>1, Lml1Uncovered
    <3>5. CASE e.requiredSkip > 0
      <4>1. stack' = Lml1!WithTop([Lml1!Top EXCEPT !.requiredSkip = @ - 1]) /\ cLine' = cLine + 1 /\ marks' = marks
        BY <1>9, <2>4, <3>1, <3>5 DEF Lml1!Closing, Lml1!CountDown
      <4>2. PICK x : x = [e EXCEPT !.requiredSkip = @ - 1]  OBVIOUS
      <4>3. x = [at |-> e.at, index |-> e.index, end |-> e.end, requiredSkip |-> e.requiredSkip - 1]  BY <3>2, <4>2
      <4>4. x \in Open1 /\ x.at = e.at /\ x.index = e.index /\ x.end = e.end /\ x.requiredSkip = e.requiredSkip - 1
        BY <3>2, <3>5, <4>3 DEF Open1
      <4>5. stack' = Append(r, x)  BY <3>1, <4>1, <4>2, <4>4
      <4>6. Lml1OnTop(x, lines, cLine + 1, marks)
        <5>1. Lml1Opened(x, lines)  BY <3>3, <4>4 DEF Lml1Opened
        <5>2. x.at <= cLine + 1 /\ x.at # cLine + 1 /\ x.requiredSkip < cLine + 1 /\ marks.skipping
          BY <1>1, <2>2, <3>2, <3>3, <3>5, <4>4
        <5>3. QED  BY <3>3, <4>4, <5>1, <5>2 DEF Lml1OnTop
      <4>7. Stacked(stack', lines, cLine', marks')  BY <3>1, <4>1, <4>4, <4>5, <4>6 DEF Stacked
      <4>8. QED  BY <1>1, <1>2, <1>4, <2>1, <2>2, <4>1, <4>7, Lml1Moved
    <3>6. CASE e.requiredSkip = 0 /\ Lml1!Mismatch
      <4>1. stack' = r /\ cLine' = cLine + 1 /\ marks' = marks  BY <1>9, <2>4, <3>1, <3>6 DEF Lml1!Closing
      <4>2. QED  BY <1>1, <1>2, <1>4, <2>1, <2>2, <3>4, <4>1, Lml1Moved
    <3>7. CASE e.requiredSkip = 0 /\ ~Lml1!Mismatch /\ lines[cLine] = "else"
      <4>1. marks' = [f EXCEPT !.skipping = ~@] /\ cLine' = cLine + 1 /\ stack' = stack  BY <1>2, <1>9, <2>4, <3>1, <3>7 DEF Lml1!Closing
      <4>2. marks' = [skipping |-> ~f.skipping, looping |-> f.looping, over |-> f.over]  BY <1>3, <4>1
      <4>3. marks' \in [skipping : BOOLEAN, looping : BOOLEAN, over : BOOLEAN]  BY <1>3, <4>2
      <4>4. PICK g : g = marks'  OBVIOUS
      <4>5. Lml1OnTop(e, lines, cLine + 1, g)
        <5>1. lines[e.at] \notin Lml1!Fors  BY <3>1, <3>7 DEF Lml1!Mismatch
        <5>2. e.at <= cLine + 1 /\ e.at # cLine + 1  BY <1>1, <3>2, <3>3
        <5>3. QED  BY <3>3, <3>7, <5>1, <5>2 DEF Lml1OnTop
      <4>6. Stacked(stack', lines, cLine', marks')  BY <3>1, <4>1, <4>4, <4>5 DEF Stacked
      <4>7. QED  BY <1>1, <2>1, <2>2, <4>1, <4>3, <4>6, Lml1Moved
    <3>8. CASE e.requiredSkip = 0 /\ ~Lml1!Mismatch /\ lines[cLine] # "else"
      <4>1. Lml1!End  BY <1>9, <2>4, <3>1, <3>8 DEF Lml1!Closing
      <4>2. CASE lines[e.at] \in Lml1!Fors /\ ~f.skipping
        <5>1. cLine' = e.at /\ stack' = Lml1!WithTop([Lml1!Top EXCEPT !.end = cLine]) /\ marks' = [f EXCEPT !.looping = TRUE]
          BY <1>2, <3>1, <4>1, <4>2 DEF Lml1!End
        <5>2. marks' = [skipping |-> FALSE, looping |-> TRUE, over |-> f.over]  BY <1>3, <4>2, <5>1
        <5>3. marks' \in [skipping : BOOLEAN, looping : BOOLEAN, over : BOOLEAN]  BY <1>3, <5>2
        <5>4. PICK x : x = [e EXCEPT !.end = cLine]  OBVIOUS
        <5>5. x = [at |-> e.at, index |-> e.index, end |-> cLine, requiredSkip |-> e.requiredSkip]  BY <3>2, <5>4
        <5>6. x \in Open1 /\ x.at = e.at /\ x.index = e.index /\ x.end = cLine /\ x.requiredSkip = e.requiredSkip
          BY <1>1, <3>2, <5>5 DEF Open1
        <5>7. stack' = Append(r, x)  BY <3>1, <5>1, <5>4, <5>6
        <5>8. e.at # cLine
          <6>1. lines[e.at] \in Lml1!Openings  BY <3>3 DEF Lml1Opened
          <6>2. \A b \in Lml1!Openings : b \notin Lml1!Closings  BY DEF Lml1!Openings, Lml1!Closings, Lml1!Ifs, Lml1!Fors
          <6>3. QED  BY <2>1, <6>1, <6>2
        <5>9. cLine \in (e.at + 1)..Len(lines)  BY <1>1, <2>2, <3>2, <3>3, <5>8
        <5>10. PICK g : g = marks'  OBVIOUS
        <5>11. Lml1OnTop(x, lines, e.at, g)
          <6>1. Lml1Opened(x, lines)  BY <3>3, <5>6, <5>9 DEF Lml1Opened
          <6>2. e.index <= Lml1!Rounds(lines[e.at])  BY <1>2, <3>3, <4>2
          <6>3. g.looping  BY <5>2, <5>10
          <6>4. QED  BY <3>2, <3>8, <5>6, <6>1, <6>2, <6>3 DEF Lml1OnTop
        <5>12. Stacked(stack', lines, cLine', marks')  BY <3>1, <5>1, <5>6, <5>7, <5>10, <5>11 DEF Stacked
        <5>13. cLine' \in 0..(Len(lines) + 1)  BY <1>1, <3>2, <3>3, <5>1
        <5>14. QED  BY <1>1, <2>1, <5>3, <5>12, <5>13, Lml1Moved
      <4>3. CASE ~(lines[e.at] \in Lml1!Fors /\ ~f.skipping)
        <5>1. /\ cLine' = cLine + 1 /\ stack' = r
              /\ \E b \in BOOLEAN : marks' = [f EXCEPT !.skipping = FALSE, !.looping = b]
          <6>1. cLine' = cLine + 1 /\ stack' = r  BY <1>2, <3>1, <4>1, <4>3 DEF Lml1!End
          <6>2. PICK b : b = IF lines[e.at] \in Lml1!Fors
                             THEN Len(stack) > 1 /\ lines[stack[Len(stack) - 1].at] \in Lml1!Fors ELSE f.looping
            OBVIOUS
          <6>3. b \in BOOLEAN  BY <1>3, <6>2
          <6>4. marks' = [f EXCEPT !.skipping = FALSE, !.looping = b]  BY <1>2, <3>1, <4>1, <4>3, <6>2 DEF Lml1!End
          <6>5. QED  BY <6>1, <6>3, <6>4
        <5>2. PICK b \in BOOLEAN : marks' = [f EXCEPT !.skipping = FALSE, !.looping = b]  BY <5>1
        <5>3. marks' = [skipping |-> FALSE, looping |-> b, over |-> f.over]  BY <1>3, <5>2
        <5>4. marks' \in [skipping : BOOLEAN, looping : BOOLEAN, over : BOOLEAN]  BY <1>3, <5>3
        <5>5. QED  BY <1>1, <2>1, <2>2, <3>4, <5>1, <5>4, Lml1Moved
      <4>4. QED  BY <4>2, <4>3
    <3>9. QED  BY <3>2, <3>5, <3>6, <3>7, <3>8
  <2>5. QED  BY <2>3, <2>4
<1>10. CASE Lml1!Finish
  <2>1. marks' = [f EXCEPT !.over = TRUE] /\ UNCHANGED <<lines, cLine, stack, copies>>  BY <1>2, <1>10 DEF Lml1!Finish
  <2>2. marks' = [skipping |-> f.skipping, looping |-> f.looping, over |-> TRUE]  BY <1>3, <2>1
  <2>3. marks' \in [skipping : BOOLEAN, looping : BOOLEAN, over : BOOLEAN]  BY <1>3, <2>2
  <2>4. PICK g : g = marks'  OBVIOUS
  <2>5. g.skipping = marks.skipping /\ g.looping = marks.looping  BY <1>2, <2>2, <2>4
  <2>6. Stacked(stack, lines, cLine, g)
    <3>1. \A e : Lml1OnTop(e, lines, cLine, marks) => Lml1OnTop(e, lines, cLine, g)  BY <2>5 DEF Lml1OnTop
    <3>2. QED  BY <1>1, <3>1 DEF Stacked
  <2>7. QED  BY <1>1, <2>1, <2>3, <2>4, <2>6, Lml1Moved
<1>11. QED  BY <1>5, <1>6, <1>7, <1>8, <1>9, <1>10 DEF Lml1!Next, Lml1!Step

-----------------------------------------------------------------------------
(* All components together *)

LEMMA EnginesMove == ASSUME [Next]_vars
  PROVE (Lml2!Next \/ UNCHANGED lml2) /\ (Lml1!Next \/ UNCHANGED lml)
BY DEF Next, vars, engines

LEMMA Lml2Always == Spec => []Lml2Inv
<1>1. Init => Lml2Inv  BY Lml2Inits DEF Init
<1>2. Lml2Inv /\ [Next]_vars => Lml2Inv'
  <2> SUFFICES ASSUME Lml2Inv, [Next]_vars PROVE Lml2Inv'  OBVIOUS
  <2>1. ASSUME UNCHANGED lml2 PROVE Lml2Inv'  BY <2>1 DEF Lml2Inv, lml2
  <2>2. QED  BY <2>1, EnginesMove, Lml2Nexts
<1>3. QED  BY <1>1, <1>2, PTL DEF Spec

LEMMA Lml1Always == Spec => []Lml1Inv
<1>1. Init => Lml1Inv  BY Lml1Inits DEF Init
<1>2. Lml1Inv /\ [Next]_vars => Lml1Inv'
  <2> SUFFICES ASSUME Lml1Inv, [Next]_vars PROVE Lml1Inv'  OBVIOUS
  <2>1. ASSUME UNCHANGED lml PROVE Lml1Inv'  BY <2>1 DEF Lml1Inv, lml
  <2>2. QED  BY <2>1, EnginesMove, Lml1Nexts
<1>3. QED  BY <1>1, <1>2, PTL DEF Spec

\* what is counted in each component stays within its bounds
AllBounds ==
    /\ JanBounds /\ VisBounds /\ BadgeBounds /\ HookBounds /\ SchedBounds
    /\ ListBounds /\ FieldBounds /\ PickBounds /\ ChainBounds /\ CakeBounds

ServicesInv == JanInv /\ VisInv /\ BadgeInv /\ HookInv /\ SchedInv
WidgetsInv == ListInv /\ FieldInv /\ PickInv /\ ChainInv /\ CakeInv

LEMMA InvsAlways == Spec => [](ServicesInv /\ WidgetsInv /\ Lml2Inv /\ Lml1Inv)
<1>1. JanInv /\ VisInv /\ BadgeInv /\ HookInv /\ SchedInv => ServicesInv  BY DEF ServicesInv
<1>2. ListInv /\ FieldInv /\ PickInv /\ ChainInv /\ CakeInv => WidgetsInv  BY DEF WidgetsInv
<1>3. QED  BY <1>1, <1>2, JanAlways, VisAlways, BadgesAlways, HooksAlways, ScheduleAlways, ListAlways, FieldAlways,
              PickAlways, ChainAlways, CakeAlways, Lml2Always, Lml1Always, PTL

LEMMA BoundsInit == ASSUME Init PROVE AllBounds
<1>1. CAIJ!Init /\ Hook!Init /\ Sched!Init  BY DEF Init
<1>2. List!Init /\ Field!Init /\ Picker!Init  BY DEF Init
<1>3. Chain!Init /\ Cake!Init /\ Badge!Init /\ Visit!Init  BY DEF Init
<1>4. JanBounds /\ HookBounds /\ SchedBounds  BY <1>1, JanBoundsInit, HookBoundsInit, SchedBoundsInit
<1>5. ListBounds /\ FieldBounds /\ PickBounds
  BY <1>2, BatchAssumption, ListBoundsInit, FieldBoundsInit, PickBoundsInit
<1>6. ChainBounds /\ CakeBounds /\ BadgeBounds /\ VisBounds
  BY <1>3, ChainBoundsInit, CakeBoundsInit, BadgeBoundsInit, VisBoundsInit
<1>7. QED  BY <1>4, <1>5, <1>6 DEF AllBounds

LEMMA BoundsStep == ASSUME AllBounds, ServicesInv, WidgetsInv, [Next]_vars PROVE AllBounds'
<1>1. JanBounds' /\ VisBounds'
  <2>1. JanInv /\ VisInv /\ JanBounds /\ VisBounds  BY DEF AllBounds, ServicesInv
  <2>2. (CAIJ!Next \/ UNCHANGED janitor) /\ (Visit!Next \/ UNCHANGED visitors)  BY ServersMove
  <2>3. QED  BY <2>1, <2>2, JanBoundsKept, VisBoundsKept
<1>2. HookBounds' /\ SchedBounds' /\ BadgeBounds'
  <2>1. HookInv /\ SchedInv /\ BadgeInv /\ HookBounds /\ SchedBounds /\ BadgeBounds  BY DEF AllBounds, ServicesInv
  <2>2. (Hook!Next \/ UNCHANGED hooks) /\ (Sched!Next \/ UNCHANGED schedule) /\ (Badge!Next \/ UNCHANGED badges)
    BY ServicesMove
  <2>3. QED  BY <2>1, <2>2, HookBoundsKept, SchedBoundsKept, BadgeBoundsKept
<1>3. ListBounds' /\ FieldBounds' /\ PickBounds'
  <2>1. ListInv /\ FieldInv /\ PickInv /\ ListBounds /\ FieldBounds /\ PickBounds  BY DEF AllBounds, WidgetsInv
  <2>2. (List!Next \/ UNCHANGED biglist) /\ (Field!Next \/ UNCHANGED autosave) /\ (Picker!Next \/ UNCHANGED topicpicker)
    BY DashMoves
  <2>3. QED  BY <2>1, <2>2, BatchAssumption, ListBoundsKept, FieldBoundsKept, PickBoundsKept
<1>4. ChainBounds' /\ CakeBounds'
  <2>1. ChainInv /\ CakeInv /\ ChainBounds /\ CakeBounds  BY DEF AllBounds, WidgetsInv
  <2>2. (Chain!Next \/ UNCHANGED chains) /\ (Cake!Next \/ UNCHANGED cakepops)  BY DashMoves
  <2>3. QED  BY <2>1, <2>2, ChainBoundsKept, CakeBoundsKept
<1>5. QED  BY <1>1, <1>2, <1>3, <1>4 DEF AllBounds

LEMMA AllTyped == ASSUME part \in Parts, AllBounds, ServicesInv, WidgetsInv, Lml2Inv, Lml1Inv PROVE TypeOK
<1>1. CAIJ!TypeOK /\ Visit!TypeOK
  <2>1. JanInv /\ VisInv /\ JanBounds /\ VisBounds  BY DEF AllBounds, ServicesInv
  <2>2. QED  BY <2>1, JanTypes, VisGood
<1>2. Hook!TypeOK /\ Sched!TypeOK /\ Badge!TypeOK
  <2>1. HookInv /\ SchedInv /\ BadgeInv /\ HookBounds /\ SchedBounds /\ BadgeBounds  BY DEF AllBounds, ServicesInv
  <2>2. QED  BY <2>1, HookTypesGood, SchedTypesGood, BadgeGood
<1>3. List!TypeOK /\ Field!TypeOK /\ Picker!TypeOK
  <2>1. ListInv /\ FieldInv /\ PickInv /\ ListBounds /\ FieldBounds /\ PickBounds  BY DEF AllBounds, WidgetsInv
  <2>2. QED  BY <2>1, ListTypesGood, FieldTypesGood, PickTypesGood
<1>4. Chain!TypeOK /\ Cake!TypeOK
  <2>1. ChainInv /\ CakeInv /\ ChainBounds /\ CakeBounds  BY DEF AllBounds, WidgetsInv
  <2>2. QED  BY <2>1, ChainTypesGood, CakeTypesGood
<1>5. Lml2!TypeOK /\ Lml1!TypeOK  BY Lml2Goods, Lml1Goods
<1>6. QED  BY <1>1, <1>2, <1>3, <1>4, <1>5 DEF TypeOK

\* Theorem: every component beside the requests keeps its types and its bounds: no stack of a template
\* engine is deeper than the blocks before it nor has a loop with more rounds than it was given, a list,
\* a field, a picker, a chain and a cakepop have no more requests on the way than were sent, and no hook,
\* job, badge, queue or session is of anything but what the code puts there (lml/lml.js, lml/compiler.js,
\* lib/hooks.js, lib/scheduler.js, lib/badges.js, caij/ai.js, dataserver/handlers.js, apps/lilium).
THEOREM TypesOfTheMachinery == Spec => []TypeOK
<1>1. Init => part \in Parts  BY DEF Init
<1>2. part \in Parts /\ [Next]_vars => (part \in Parts)'  BY DEF Next, vars
<1>3. Init => AllBounds  BY BoundsInit
<1>4. AllBounds /\ (ServicesInv /\ WidgetsInv /\ Lml2Inv /\ Lml1Inv) /\ [Next]_vars => AllBounds'  BY BoundsStep
<1>5. part \in Parts /\ AllBounds /\ (ServicesInv /\ WidgetsInv /\ Lml2Inv /\ Lml1Inv) => TypeOK  BY AllTyped
<1>6. QED  BY <1>1, <1>2, <1>3, <1>4, <1>5, InvsAlways, PTL DEF Spec
=============================================================================
