--------------------------- MODULE PaymentsProofs ---------------------------
(***************************************************************************)
(* Proofs about Payments, for any articles, contractors and websites: what *)
(* holds with any number of dispatches and retries at the same time, and   *)
(* any mishaps; and, further down, what is promised while dispatches are   *)
(* made one after the other and failed invoices are not retried: invoice   *)
(* numbers are unique and, as long as no article is published or written   *)
(* back over its payment status and no worker dies, the books are kept as  *)
(* Ledger says.                                                            *)
(***************************************************************************)
EXTENDS Payments, SequenceTheorems, TLAPS

\* What appending to a sequence gives.
LEMMA Appended ==
    ASSUME NEW S, NEW s \in Seq(S), NEW e \in S
    PROVE  /\ Append(s, e) \in Seq(S)
           /\ DOMAIN Append(s, e) = DOMAIN s \cup {Len(s) + 1}
           /\ Len(s) + 1 \notin DOMAIN s
           /\ \A i \in DOMAIN s : Append(s, e)[i] = s[i]
           /\ Append(s, e)[Len(s) + 1] = e
  OBVIOUS

\* Replacing one element of a sequence.
LEMMA Replaced ==
    ASSUME NEW S, NEW s \in Seq(S), NEW i \in DOMAIN s, NEW e \in S
    PROVE  [s EXCEPT ![i] = e] \in Seq(S) /\ DOMAIN [s EXCEPT ![i] = e] = DOMAIN s
  OBVIOUS

\* The rest of a payload of several contractors is a payload.
LEMMA TailType ==
    ASSUME NEW q \in Seq(Contractors), Len(q) > 1
    PROVE  Tail(q) \in Seq(Contractors) \ {<<>>}
<1>1. q # <<>>
  OBVIOUS
<1>2. Tail(q) \in Seq(Contractors) /\ Len(Tail(q)) = Len(q) - 1
  BY <1>1, HeadTailProperties
<1>3. Len(Tail(q)) # 0
  BY <1>2
<1>4. ASSUME NEW t, Len(t) # 0 PROVE t # <<>>
  BY <1>4
<1> QED
  BY <1>2, <1>3, <1>4, Zenon

LEMMA NoRunType == NoRun \in Run /\ NoRun.at = "idle"
  BY DEF NoRun, Run

\* What the types of the variables say of dispatches alone.
RunsOK(runs) ==
    /\ runs \in [Dispatchers -> Run]
    /\ \A e \in Dispatchers : runs[e].at \notin {"idle", "hung"} => runs[e].queue # <<>>

\* A dispatch which becomes a proper one leaves all dispatches proper.
LEMMA RunReplaced ==
    ASSUME RunsOK(run), NEW d \in Dispatchers, NEW new \in Run,
           new.at \notin {"idle", "hung"} => new.queue # <<>>
    PROVE  RunsOK([run EXCEPT ![d] = new])
  BY DEF RunsOK

\* Serving contractors of a payload is a proper dispatch.
LEMMA ServeType ==
    ASSUME TypeOK, NEW d \in Dispatchers, NEW queue \in Seq(Contractors) \ {<<>>},
           Serve(d, queue)
    PROVE  RunsOK(run')
<1> DEFINE new == [NoRun EXCEPT !.at = "read", !.queue = queue, !.todo = Sites]
<1>1. new \in Run /\ new.queue # <<>>
  BY DEF Run, NoRun
<1> QED
  BY <1>1, RunReplaced DEF Serve, TypeOK, RunsOK

\* Serving the next contractor starts with reading his articles.
LEMMA ServeAt ==
    ASSUME run \in [Dispatchers -> Run], NEW d \in Dispatchers, NEW queue, Serve(d, queue)
    PROVE  /\ run'[d].at = "read"
           /\ \A e \in Dispatchers \ {d} : run'[e] = run[e]
<1> DEFINE new == [NoRun EXCEPT !.at = "read", !.queue = queue, !.todo = Sites]
<1>1. new.at = "read"
  BY DEF NoRun
<1> QED
  BY <1>1 DEF Serve

LEMMA NextNumberType == ASSUME TypeOK PROVE NextNumber \in Nat
<1>1. CASE invoices = <<>>
  BY <1>1 DEF NextNumber
<1>2. CASE invoices # <<>>
  <2>1. invoices \in Seq(Invoice)
    BY DEF TypeOK
  <2>2. Len(invoices) \in DOMAIN invoices
    BY <1>2, <2>1
  <2>3. invoices[Len(invoices)] \in Invoice
    BY <2>1, <2>2
  <2> QED
    BY <1>2, <2>3 DEF NextNumber, Invoice
<1> QED
  BY <1>1, <1>2

-----------------------------------------------------------------------------
(* Types *)

LEMMA InitType == Init => TypeOK
<1> SUFFICES ASSUME Init PROVE TypeOK
  OBVIOUS
<1>1. Unpublished \in PostRec /\ NoRetry \in Retry
  BY DEF Unpublished, PostRec, NoRetry, Retry
<1>2. NoRetry.at = "idle"
  BY DEF NoRetry
<1>3. invoices \in Seq(Invoice)
  BY DEF Init
<1>4. left \in 0..MaxRequests
  BY PaymentsAssumption DEF Init
<1> QED
  BY <1>1, <1>2, <1>3, <1>4, NoRunType DEF Init, TypeOK

LEMMA ArticleStepType ==
    ASSUME TypeOK, NEW p \in Posts,
           Publish(p) \/ Unpublish(p) \/ SaveRead(p) \/ SaveWrite(p)
    PROVE  TypeOK'
<1>1. CASE Publish(p)
  BY <1>1 DEF Publish, TypeOK, PostRec
<1>2. CASE Unpublish(p)
  BY <1>2 DEF Unpublish, TypeOK, PostRec
<1>3. CASE SaveRead(p)
  BY <1>3 DEF SaveRead, TypeOK
<1>4. CASE SaveWrite(p)
  BY <1>4 DEF SaveWrite, TypeOK
<1> QED
  BY <1>1, <1>2, <1>3, <1>4

LEMMA ChargeType ==
    ASSUME TypeOK, NEW products, NEW ok \in BOOLEAN, StripeCharge(products, ok)
    PROVE  charged' \in [Posts -> Nat]
<1>1. charged \in [Posts -> Nat]
  BY DEF TypeOK
<1>2. Charged(products) => charged' \in [Posts -> Nat]
  BY <1>1 DEF Charged
<1>3. Charged(products) \/ UNCHANGED charged
  BY DEF StripeCharge
<1> QED
  BY <1>1, <1>2, <1>3

LEMMA DispatchStepType ==
    ASSUME TypeOK, NEW d \in Dispatchers, DispatchStep(d)
    PROVE  TypeOK'
<1>1. run[d] \in Run /\ RunsOK(run)
  BY DEF TypeOK, RunsOK
<1>2. CASE DispatchRead(d)
  <2>1. PICK s \in run[d].todo :
           run' = [run EXCEPT
                     ![d].products = @ \cup Pending(Head(run[d].queue), s),
                     ![d].todo = @ \ {s},
                     ![d].at = IF run[d].todo = {s} THEN "number" ELSE "read"]
    BY <1>2 DEF DispatchRead
  <2> DEFINE new == [run[d] EXCEPT
                       !.products = @ \cup Pending(Head(run[d].queue), s),
                       !.todo = @ \ {s},
                       !.at = IF run[d].todo = {s} THEN "number" ELSE "read"]
  <2>2. new \in Run /\ new.queue = run[d].queue
    BY <1>1 DEF Run, Pending
  <2>3. run' = [run EXCEPT ![d] = new]
    BY <1>1, <2>1 DEF RunsOK
  <2>4. run[d].queue # <<>>
    BY <1>1, <1>2 DEF RunsOK, DispatchRead
  <2>5. RunsOK(run')
    BY <1>1, <2>2, <2>3, <2>4, RunReplaced
  <2> QED
    BY <1>2, <2>5 DEF DispatchRead, TypeOK, RunsOK
<1>3. CASE DispatchNumber(d)
  <2> DEFINE new == [run[d] EXCEPT !.at = "card", !.number = NextNumber]
  <2>1. new \in Run /\ new.queue = run[d].queue
    BY <1>1, NextNumberType DEF Run
  <2>2. run[d].queue # <<>> /\ run' = [run EXCEPT ![d] = new]
    BY <1>1, <1>3 DEF RunsOK, DispatchNumber
  <2>3. RunsOK(run')
    BY <1>1, <2>1, <2>2, RunReplaced
  <2> QED
    BY <1>3, <2>3 DEF DispatchNumber, TypeOK, RunsOK
<1>4. CASE DispatchCard(d)
  <2> DEFINE new == [run[d] EXCEPT !.at = "charge"]
             hung == [NoRun EXCEPT !.at = "hung"]
  <2>1. new \in Run /\ new.queue = run[d].queue
    BY <1>1 DEF Run
  <2>2. run[d].queue # <<>>
    BY <1>1, <1>4 DEF RunsOK, DispatchCard
  <2>3. run' = [run EXCEPT ![d] = new] \/ run' = [run EXCEPT ![d] = hung]
    BY <1>1, <1>4 DEF RunsOK, DispatchCard
  <2>4. hung \in Run /\ hung.at = "hung"
    BY NoRunType DEF Run
  <2>5. RunsOK(run')
    BY <1>1, <2>1, <2>2, <2>3, <2>4, RunReplaced
  <2> QED
    BY <1>4, <2>5 DEF DispatchCard, TypeOK, RunsOK
<1>5. CASE DispatchCharge(d)
  <2>1. PICK ok \in BOOLEAN :
           /\ StripeCharge(run[d].products, ok)
           /\ run' = [run EXCEPT ![d].at = "insert", ![d].ok = ok]
    BY <1>5 DEF DispatchCharge
  <2>2. charged' \in [Posts -> Nat]
    BY <2>1, ChargeType
  <2> DEFINE new == [run[d] EXCEPT !.at = "insert", !.ok = ok]
  <2>3. new \in Run /\ new.queue = run[d].queue
    BY <1>1 DEF Run
  <2>4. run[d].queue # <<>> /\ run' = [run EXCEPT ![d] = new]
    BY <1>1, <1>5, <2>1 DEF RunsOK, DispatchCharge
  <2>5. RunsOK(run')
    BY <1>1, <2>3, <2>4, RunReplaced
  <2> QED
    BY <1>5, <2>2, <2>5 DEF DispatchCharge, TypeOK, RunsOK
<1>6. CASE DispatchInsert(d)
  <2> DEFINE new == [number |-> run[d].number, products |-> run[d].products,
                     valid |-> run[d].ok, resolved |-> FALSE]
             marking == [run[d] EXCEPT !.at = "mark", !.todo = Sites]
  <2>1. new \in Invoice
    BY <1>1 DEF Run, Invoice
  <2>2. invoices' = Append(invoices, new)
    BY <1>6 DEF DispatchInsert
  <2>3. invoices \in Seq(Invoice)
    BY DEF TypeOK
  <2>4. invoices' \in Seq(Invoice) /\ DOMAIN invoices \subseteq DOMAIN invoices'
    BY <2>1, <2>2, <2>3, Appended
  <2>5. marking \in Run /\ marking.queue = run[d].queue
    BY <1>1 DEF Run
  <2>6. run[d].queue # <<>> /\ run' = [run EXCEPT ![d] = marking]
    BY <1>1, <1>6 DEF RunsOK, DispatchInsert
  <2>7. RunsOK(run')
    BY <1>1, <2>5, <2>6, RunReplaced
  <2> QED
    BY <1>6, <2>4, <2>7 DEF DispatchInsert, TypeOK, RunsOK
<1>7. CASE DispatchMark(d)
  <2>1. PICK s \in run[d].todo :
           /\ MarkPaid({p \in run[d].products : SiteOf[p] = s})
           /\ IF run[d].todo # {s}       THEN run' = [run EXCEPT ![d].todo = @ \ {s}]
              ELSE IF Len(run[d].queue) > 1 THEN Serve(d, Tail(run[d].queue))
              ELSE                            run' = [run EXCEPT ![d] = NoRun]
    BY <1>7 DEF DispatchMark
  <2>2. post' \in [Posts -> PostRec]
    <3>1. post \in [Posts -> PostRec]
      BY DEF TypeOK
    <3> QED
      BY <2>1, <3>1 DEF MarkPaid, PostRec
  <2>3. CASE run' = [run EXCEPT ![d] = NoRun]
    <3>1. RunsOK(run')
      BY <1>1, <2>3, NoRunType, RunReplaced
    <3> QED
      BY <1>7, <2>2, <3>1 DEF DispatchMark, TypeOK, RunsOK
  <2>4. CASE run' = [run EXCEPT ![d].todo = @ \ {s}]
    <3> DEFINE new == [run[d] EXCEPT !.todo = @ \ {s}]
    <3>1. new \in Run /\ new.queue = run[d].queue
      BY <1>1 DEF Run
    <3>2. run[d].queue # <<>> /\ run' = [run EXCEPT ![d] = new]
      BY <1>1, <1>7, <2>4 DEF RunsOK, DispatchMark
    <3>3. RunsOK(run')
      BY <1>1, <3>1, <3>2, RunReplaced
    <3> QED
      BY <1>7, <2>2, <3>3 DEF DispatchMark, TypeOK, RunsOK
  <2>5. CASE Len(run[d].queue) > 1 /\ Serve(d, Tail(run[d].queue))
    <3>1. run[d].queue \in Seq(Contractors)
      BY <1>1 DEF Run
    <3>2. Tail(run[d].queue) \in Seq(Contractors) \ {<<>>}
      BY <3>1, <2>5, TailType
    <3>3. RunsOK(run')
      BY <3>2, <2>5, ServeType
    <3> QED
      BY <1>7, <2>2, <3>3 DEF DispatchMark, TypeOK, RunsOK
  <2> QED
    BY <2>1, <2>3, <2>4, <2>5
<1> QED
  BY <1>2, <1>3, <1>4, <1>5, <1>6, <1>7 DEF DispatchStep

LEMMA RetryStepType ==
    ASSUME TypeOK, NEW r \in Retriers, RetryStep(r)
    PROVE  TypeOK'
<1>1. CASE RetryCharge(r)
  <2>1. PICK ok \in BOOLEAN :
           /\ StripeCharge(invoices[retry[r].original].products, ok)
           /\ retry' = [retry EXCEPT ![r].at = "insert", ![r].ok = ok]
    BY <1>1 DEF RetryCharge
  <2>2. charged' \in [Posts -> Nat]
    BY <2>1, ChargeType
  <2> QED
    BY <1>1, <2>1, <2>2 DEF RetryCharge, TypeOK, Retry
<1>2. CASE RetryInsert(r)
  <2> DEFINE old == invoices[retry[r].original]
             new == [old EXCEPT !.valid = retry[r].ok, !.resolved = FALSE]
  <2>1. invoices \in Seq(Invoice) /\ retry[r].original \in DOMAIN invoices
    BY <1>2 DEF RetryInsert, TypeOK
  <2>2. old \in Invoice
    BY <2>1
  <2>3. new \in Invoice
    BY <2>2 DEF TypeOK, Retry, Invoice
  <2>4. invoices' \in Seq(Invoice) /\ DOMAIN invoices \subseteq DOMAIN invoices'
    BY <1>2, <2>1, <2>3, Appended DEF RetryInsert
  <2> QED
    BY <1>2, <2>4 DEF RetryInsert, TypeOK, Retry
<1>3. CASE RetryResolve(r)
  <2> DEFINE o == retry[r].original
             new == [invoices[o] EXCEPT !.resolved = retry[r].ok]
  <2>1. invoices \in Seq(Invoice) /\ o \in DOMAIN invoices
    BY <1>3 DEF RetryResolve, TypeOK
  <2>2. invoices[o] \in Invoice
    BY <2>1
  <2>3. new \in Invoice
    BY <2>2 DEF TypeOK, Retry, Invoice
  <2>4. invoices' = [invoices EXCEPT ![o] = new]
    BY <1>3, <2>1, <2>2 DEF RetryResolve
  <2>5. invoices' \in Seq(Invoice) /\ DOMAIN invoices' = DOMAIN invoices
    BY <2>1, <2>3, <2>4, Replaced
  <2> QED
    BY <1>3, <2>5 DEF RetryResolve, TypeOK, Retry, NoRetry
<1> QED
  BY <1>1, <1>2, <1>3 DEF RetryStep

LEMMA NextType == TypeOK /\ [Next]_vars => TypeOK'
<1> SUFFICES ASSUME TypeOK, [Next]_vars PROVE TypeOK'
  OBVIOUS
<1>1. ASSUME NEW p \in Posts, Publish(p) \/ Unpublish(p) \/ SaveRead(p) \/ SaveWrite(p)
      PROVE  TypeOK'
  BY <1>1, ArticleStepType
<1>2. ASSUME NEW d \in Dispatchers, Dispatch(d) PROVE TypeOK'
  <2>1. PICK payload \in Payloads : Serve(d, payload)
    BY <1>2 DEF Dispatch
  <2>2. payload \in Seq(Contractors) \ {<<>>}
    BY PaymentsAssumption
  <2>3. left' \in 0..MaxRequests
    BY <1>2, PaymentsAssumption DEF Dispatch, TypeOK
  <2>4. RunsOK(run')
    BY <2>1, <2>2, ServeType
  <2> QED
    BY <1>2, <2>3, <2>4 DEF Dispatch, TypeOK, RunsOK
<1>3. ASSUME NEW d \in Dispatchers, DispatchStep(d) PROVE TypeOK'
  BY <1>3, DispatchStepType
<1>4. ASSUME NEW d \in Dispatchers, DispatcherDies(d) PROVE TypeOK'
  BY <1>4 DEF DispatcherDies, TypeOK, Run, NoRun
<1>5. ASSUME NEW r \in Retriers, RetryFind(r) PROVE TypeOK'
  <2>1. left' \in 0..MaxRequests
    BY <1>5, PaymentsAssumption DEF RetryFind, TypeOK
  <2>2. PICK i \in DOMAIN invoices :
           retry' = [retry EXCEPT ![r] = [at |-> "charge", original |-> i, ok |-> FALSE]]
    BY <1>5 DEF RetryFind
  <2>3. i \in Nat
    BY DEF TypeOK
  <2>4. /\ retry' \in [Retriers -> Retry]
        /\ \A q \in Retriers : retry'[q].at # "idle" => retry'[q].original \in DOMAIN invoices
    BY <2>2, <2>3 DEF TypeOK, Retry
  <2> QED
    BY <1>5, <2>1, <2>4 DEF RetryFind, TypeOK
<1>6. ASSUME NEW r \in Retriers, RetryStep(r) PROVE TypeOK'
  BY <1>6, RetryStepType
<1>7. ASSUME NEW r \in Retriers, RetrierDies(r) PROVE TypeOK'
  BY <1>7 DEF RetrierDies, TypeOK, Retry, NoRetry
<1>8. CASE UNCHANGED vars
  BY <1>8 DEF vars, TypeOK
<1> QED
  BY <1>1, <1>2, <1>3, <1>4, <1>5, <1>6, <1>7, <1>8 DEF Next

\* Every variable keeps its type.
THEOREM TypeCorrect == Spec => []TypeOK
<1>1. Init => TypeOK
  BY InitType
<1>2. TypeOK /\ [Next]_vars => TypeOK'
  BY NextType
<1> QED
  BY <1>1, <1>2, PTL DEF Spec

-----------------------------------------------------------------------------
(* No contractor is forgotten *)

\* A step which charges no less, and closes only invoices it has charged, settles
\* what was settled.
LEMMA SettledKept ==
    ASSUME NEW p \in Posts, Settled(p),
           charged[p] > 0 => charged'[p] > 0,
           \A i \in DOMAIN invoices :
               /\ i \in DOMAIN invoices'
               /\ p \in invoices[i].products => p \in invoices'[i].products
               /\ ~invoices[i].valid /\ ~invoices[i].resolved
                    /\ p \in invoices[i].products =>
                      (~invoices'[i].valid /\ ~invoices'[i].resolved) \/ charged'[p] > 0
    PROVE  Settled(p)'
<1>1. CASE charged[p] > 0
  BY <1>1 DEF Settled
<1>2. CASE Retriable(p)
  BY <1>2 DEF Settled, Retriable
<1> QED
  BY <1>1, <1>2 DEF Settled

\* Steps which neither charge nor touch invoices leave this to the other parts.
LEMMA BooksUnchanged ==
    ASSUME UNCHANGED <<charged, invoices>>
    PROVE  /\ \A p \in Posts : Settled(p)' <=> Settled(p)
           /\ ClosedIsCharged' <=> ClosedIsCharged
  BY DEF Settled, Retriable, ClosedIsCharged

LEMMA ChargeGrows ==
    ASSUME TypeOK, NEW products, NEW ok \in BOOLEAN, StripeCharge(products, ok)
    PROVE  /\ \A p \in Posts : charged[p] > 0 => charged'[p] > 0
           /\ ok => \A p \in products \cap Posts : charged'[p] > 0
<1>1. charged \in [Posts -> Nat]
  BY DEF TypeOK
<1>2. CASE Charged(products)
  BY <1>1, <1>2 DEF Charged
<1>3. CASE ~ok /\ UNCHANGED charged
  BY <1>3
<1>4. Charged(products) \/ (~ok /\ UNCHANGED charged)
  BY DEF StripeCharge
<1> QED
  BY <1>2, <1>3, <1>4

LEMMA InvoiceProducts ==
    ASSUME TypeOK, NEW i \in DOMAIN invoices
    PROVE  invoices[i] \in Invoice /\ invoices[i].products \subseteq Posts
<1>1. invoices[i] \in Invoice
  BY DEF TypeOK
<1> QED
  BY <1>1 DEF Invoice

\* A charge disturbs no part which speaks of what was charged before.
LEMMA ChargeKeeps ==
    ASSUME SettledInv, NEW products, NEW ok \in BOOLEAN, StripeCharge(products, ok),
           UNCHANGED <<post, saving, invoices>>
    PROVE  /\ \A p \in Posts : Settled(p) => Settled(p)'
           /\ PaidIsSettled' /\ SavesSettled' /\ ClosedIsCharged'
<1>1. \A p \in Posts : charged[p] > 0 => charged'[p] > 0
  BY ChargeGrows DEF SettledInv
<1>2. \A p \in Posts : Settled(p) => Settled(p)'
  BY <1>1 DEF Settled, Retriable
<1>4. \A i \in DOMAIN invoices : invoices[i].products \subseteq Posts
  BY InvoiceProducts DEF SettledInv
<1>5. PaidIsSettled' /\ SavesSettled'
  BY <1>2 DEF SettledInv, PaidIsSettled, SavesSettled
<1>6. ClosedIsCharged'
  BY <1>1, <1>4 DEF SettledInv, ClosedIsCharged
<1> QED
  BY <1>2, <1>5, <1>6

\* An invoice appended keeps what the others say.
LEMMA InsertKeeps ==
    ASSUME SettledInv, NEW new \in Invoice, invoices' = Append(invoices, new),
           new.valid \/ new.resolved => \A p \in new.products : charged[p] > 0,
           UNCHANGED <<post, saving, charged>>
    PROVE  /\ \A p \in Posts : Settled(p) => Settled(p)'
           /\ \A p \in new.products : Settled(p)'
           /\ PaidIsSettled' /\ SavesSettled' /\ ClosedIsCharged'
           /\ \A i \in DOMAIN invoices : invoices'[i] = invoices[i]
<1>1. invoices \in Seq(Invoice)
  BY DEF SettledInv, TypeOK
<1>2. /\ DOMAIN invoices' = DOMAIN invoices \cup {Len(invoices) + 1}
      /\ \A i \in DOMAIN invoices : invoices'[i] = invoices[i]
      /\ invoices'[Len(invoices) + 1] = new
  BY <1>1, Appended
<1>3. \A p \in Posts : Settled(p) => Settled(p)'
  BY <1>2 DEF Settled, Retriable
<1>4. \A p \in new.products : Settled(p)'
  <2>1. CASE new.valid \/ new.resolved
    BY <2>1 DEF Settled
  <2>2. CASE ~new.valid /\ ~new.resolved
    BY <2>2, <1>2 DEF Settled, Retriable
  <2> QED
    BY <2>1, <2>2
<1>5. PaidIsSettled' /\ SavesSettled'
  BY <1>3 DEF SettledInv, PaidIsSettled, SavesSettled
<1>6. ClosedIsCharged'
  BY <1>2 DEF SettledInv, ClosedIsCharged
<1> QED
  BY <1>2, <1>3, <1>4, <1>5, <1>6

LEMMA InitSettled == Init => SettledInv
<1> SUFFICES ASSUME Init PROVE SettledInv
  OBVIOUS
<1>1. PaidIsSettled /\ SavesSettled
  BY DEF Init, PaidIsSettled, SavesSettled, Unpublished
<1>2. DispatchesSettle /\ RetriesSettle
  BY DEF Init, DispatchesSettle, RetriesSettle, NoRun, NoRetry
<1>3. ClosedIsCharged
  <2>1. DOMAIN invoices = {}
    BY DEF Init
  <2> QED
    BY <2>1 DEF ClosedIsCharged
<1> QED
  BY <1>1, <1>2, <1>3, InitType DEF SettledInv

LEMMA ArticleStepSettled ==
    ASSUME SettledInv, NEW p \in Posts,
           Publish(p) \/ Unpublish(p) \/ SaveRead(p) \/ SaveWrite(p)
    PROVE  PaidIsSettled' /\ SavesSettled' /\ DispatchesSettle' /\ RetriesSettle' /\ ClosedIsCharged'
<1>1. UNCHANGED <<charged, invoices, run, retry>>
  BY DEF Publish, Unpublish, SaveRead, SaveWrite
<1>2. /\ \A q \in Posts : Settled(q)' <=> Settled(q)
      /\ ClosedIsCharged'
  BY <1>1, BooksUnchanged DEF SettledInv
<1>3. run \in [Dispatchers -> Run]
  BY DEF SettledInv, TypeOK
<1>4. DispatchesSettle'
  BY <1>1, <1>2, <1>3 DEF SettledInv, DispatchesSettle, Run
<1>5. RetriesSettle'
  BY <1>1 DEF SettledInv, RetriesSettle
<1>6. post \in [Posts -> PostRec] /\ saving \in [Posts -> SUBSET PostRec]
  BY DEF SettledInv, TypeOK
<1>7. CASE Publish(p)
  <2>1. PaidIsSettled'
    BY <1>2, <1>6, <1>7 DEF SettledInv, PaidIsSettled, Publish
  <2>2. SavesSettled'
    BY <1>2, <1>7 DEF SettledInv, SavesSettled, Publish
  <2> QED
    BY <1>2, <1>4, <1>5, <2>1, <2>2
<1>8. CASE Unpublish(p)
  <2>1. PaidIsSettled'
    BY <1>2, <1>6, <1>8 DEF SettledInv, PaidIsSettled, Unpublish, PostRec
  <2>2. SavesSettled'
    BY <1>2, <1>8 DEF SettledInv, SavesSettled, Unpublish
  <2> QED
    BY <1>2, <1>4, <1>5, <2>1, <2>2
<1>9. CASE SaveRead(p)
  <2>1. PaidIsSettled'
    BY <1>2, <1>9 DEF SettledInv, PaidIsSettled, SaveRead
  <2>2. SavesSettled'
    BY <1>2, <1>6, <1>9 DEF SettledInv, PaidIsSettled, SavesSettled, SaveRead
  <2> QED
    BY <1>2, <1>4, <1>5, <2>1, <2>2
<1>10. CASE SaveWrite(p)
  <2>1. PaidIsSettled'
    BY <1>2, <1>6, <1>10 DEF SettledInv, PaidIsSettled, SavesSettled, SaveWrite
  <2>2. SavesSettled'
    BY <1>2, <1>6, <1>10 DEF SettledInv, SavesSettled, SaveWrite
  <2> QED
    BY <1>2, <1>4, <1>5, <2>1, <2>2
<1> QED
  BY <1>7, <1>8, <1>9, <1>10

\* Steps of a dispatch which go nowhere near "insert" and "mark".
LEMMA DispatchElsewhere ==
    ASSUME SettledInv, NEW d \in Dispatchers, NEW new,
           new.at \notin {"insert", "mark"},
           run' = [run EXCEPT ![d] = new],
           UNCHANGED <<post, saving, invoices, charged, retry>>
    PROVE  PaidIsSettled' /\ SavesSettled' /\ DispatchesSettle' /\ RetriesSettle' /\ ClosedIsCharged'
<1>1. /\ \A q \in Posts : Settled(q)' <=> Settled(q)
      /\ ClosedIsCharged'
  BY BooksUnchanged DEF SettledInv
<1>2. PaidIsSettled' /\ SavesSettled'
  BY <1>1 DEF SettledInv, PaidIsSettled, SavesSettled
<1>3. RetriesSettle'
  BY DEF SettledInv, RetriesSettle
<1>4. run \in [Dispatchers -> Run]
  BY DEF SettledInv, TypeOK
<1>5. DispatchesSettle'
  BY <1>1, <1>4 DEF SettledInv, DispatchesSettle, Run
<1> QED
  BY <1>1, <1>2, <1>3, <1>5

LEMMA DispatchStepSettled ==
    ASSUME SettledInv, NEW d \in Dispatchers, DispatchStep(d)
    PROVE  PaidIsSettled' /\ SavesSettled' /\ DispatchesSettle' /\ RetriesSettle' /\ ClosedIsCharged'
<1>1. run \in [Dispatchers -> Run] /\ run[d] \in Run
  BY DEF SettledInv, TypeOK
<1>2. CASE DispatchRead(d)
  <2>1. PICK s \in run[d].todo :
           run' = [run EXCEPT
                     ![d].products = @ \cup Pending(Head(run[d].queue), s),
                     ![d].todo = @ \ {s},
                     ![d].at = IF run[d].todo = {s} THEN "number" ELSE "read"]
    BY <1>2 DEF DispatchRead
  <2> DEFINE new == [run[d] EXCEPT
                       !.products = @ \cup Pending(Head(run[d].queue), s),
                       !.todo = @ \ {s},
                       !.at = IF run[d].todo = {s} THEN "number" ELSE "read"]
  <2>2. new.at \notin {"insert", "mark"} /\ run' = [run EXCEPT ![d] = new]
    BY <1>1, <2>1 DEF Run
  <2> QED
    BY <1>2, <2>2, DispatchElsewhere DEF DispatchRead
<1>3. CASE DispatchNumber(d)
  <2> DEFINE new == [run[d] EXCEPT !.at = "card", !.number = NextNumber]
  <2>1. new.at \notin {"insert", "mark"} /\ run' = [run EXCEPT ![d] = new]
    BY <1>1, <1>3 DEF DispatchNumber, Run
  <2> QED
    BY <1>3, <2>1, DispatchElsewhere DEF DispatchNumber
<1>4. CASE DispatchCard(d)
  <2> DEFINE new == [run[d] EXCEPT !.at = "charge"]
             hung == [NoRun EXCEPT !.at = "hung"]
  <2>1. new.at = "charge" /\ hung.at = "hung"
    BY <1>1 DEF Run, NoRun
  <2>2. run' = [run EXCEPT ![d] = new] \/ run' = [run EXCEPT ![d] = hung]
    BY <1>1, <1>4 DEF DispatchCard
  <2> QED
    BY <1>4, <2>1, <2>2, DispatchElsewhere DEF DispatchCard
<1>5. CASE DispatchCharge(d)
  <2>1. PICK ok \in BOOLEAN :
           /\ StripeCharge(run[d].products, ok)
           /\ run' = [run EXCEPT ![d].at = "insert", ![d].ok = ok]
    BY <1>5 DEF DispatchCharge
  <2>2. /\ \A p \in Posts : Settled(p) => Settled(p)'
        /\ PaidIsSettled' /\ SavesSettled' /\ ClosedIsCharged'
    BY <1>5, <2>1, ChargeKeeps DEF DispatchCharge
  <2>3. /\ \A p \in Posts : charged[p] > 0 => charged'[p] > 0
        /\ ok => \A p \in run[d].products \cap Posts : charged'[p] > 0
    BY <2>1, ChargeGrows DEF SettledInv
  <2>4. \A e \in Dispatchers : run[e].products \subseteq Posts
    BY <1>1 DEF Run
  <2>5. /\ run'[d].at = "insert" /\ run'[d].products = run[d].products /\ run'[d].ok = ok
        /\ \A e \in Dispatchers \ {d} : run'[e] = run[e]
    BY <1>1, <2>1 DEF Run
  <2>6. DispatchesSettle'
    <3> SUFFICES ASSUME NEW e \in Dispatchers
                 PROVE  /\ run'[e].at = "insert" /\ run'[e].ok =>
                              \A p \in run'[e].products : charged'[p] > 0
                        /\ run'[e].at = "mark" => \A p \in run'[e].products : Settled(p)'
      BY DEF DispatchesSettle
    <3>1. CASE e = d
      BY <2>3, <2>4, <2>5, <3>1
    <3>2. CASE e # d
      BY <2>2, <2>3, <2>4, <2>5, <3>2 DEF SettledInv, DispatchesSettle
    <3> QED
      BY <3>1, <3>2
  <2>7. RetriesSettle'
    <3>1. UNCHANGED <<retry, invoices>>
      BY <1>5 DEF DispatchCharge
    <3>2. \A r \in Retriers : retry[r].at # "idle" =>
              invoices[retry[r].original].products \subseteq Posts
      BY InvoiceProducts DEF SettledInv, TypeOK
    <3> QED
      BY <2>3, <3>1, <3>2 DEF SettledInv, RetriesSettle
  <2> QED
    BY <2>2, <2>6, <2>7
<1>6. CASE DispatchInsert(d)
  <2> DEFINE new == [number |-> run[d].number, products |-> run[d].products,
                     valid |-> run[d].ok, resolved |-> FALSE]
  <2>1. new \in Invoice /\ new.products = run[d].products
    BY <1>1 DEF Run, Invoice
  <2>2. new.valid \/ new.resolved => \A p \in new.products : charged[p] > 0
    BY <1>6 DEF DispatchInsert, SettledInv, DispatchesSettle
  <2>3. /\ \A p \in Posts : Settled(p) => Settled(p)'
        /\ \A p \in run[d].products : Settled(p)'
        /\ PaidIsSettled' /\ SavesSettled' /\ ClosedIsCharged'
        /\ \A i \in DOMAIN invoices : invoices'[i] = invoices[i]
    BY <1>6, <2>1, <2>2, InsertKeeps DEF DispatchInsert
  <2>4. /\ run'[d].at = "mark" /\ run'[d].products = run[d].products
        /\ \A e \in Dispatchers \ {d} : run'[e] = run[e]
        /\ charged' = charged
    BY <1>1, <1>6 DEF DispatchInsert, Run
  <2>5. \A e \in Dispatchers : run[e].products \subseteq Posts
    BY <1>1 DEF Run
  <2>6. DispatchesSettle'
    <3> SUFFICES ASSUME NEW e \in Dispatchers
                 PROVE  /\ run'[e].at = "insert" /\ run'[e].ok =>
                              \A p \in run'[e].products : charged'[p] > 0
                        /\ run'[e].at = "mark" => \A p \in run'[e].products : Settled(p)'
      BY DEF DispatchesSettle
    <3>1. CASE e = d
      BY <2>3, <2>4, <3>1
    <3>2. CASE e # d
      BY <2>3, <2>4, <2>5, <3>2 DEF SettledInv, DispatchesSettle
    <3> QED
      BY <3>1, <3>2
  <2>7. RetriesSettle'
    <3>1. retry' = retry
      BY <1>6 DEF DispatchInsert
    <3>2. \A r \in Retriers : retry[r].at # "idle" => retry[r].original \in DOMAIN invoices
      BY DEF SettledInv, TypeOK
    <3> QED
      BY <2>3, <2>4, <3>1, <3>2 DEF SettledInv, RetriesSettle
  <2> QED
    BY <2>3, <2>6, <2>7
<1>7. CASE DispatchMark(d)
  <2>1. PICK s \in run[d].todo :
           /\ MarkPaid({p \in run[d].products : SiteOf[p] = s})
           /\ IF run[d].todo # {s}       THEN run' = [run EXCEPT ![d].todo = @ \ {s}]
              ELSE IF Len(run[d].queue) > 1 THEN Serve(d, Tail(run[d].queue))
              ELSE                            run' = [run EXCEPT ![d] = NoRun]
    BY <1>7 DEF DispatchMark
  <2>2. UNCHANGED <<saving, invoices, charged, retry>> /\ run[d].at = "mark"
    BY <1>7 DEF DispatchMark
  <2>3. /\ \A q \in Posts : Settled(q)' <=> Settled(q)
        /\ ClosedIsCharged'
    BY <2>2, BooksUnchanged DEF SettledInv
  <2>4. \A p \in run[d].products : Settled(p)
    BY <2>2 DEF SettledInv, DispatchesSettle
  <2>5. PaidIsSettled'
    <3>1. post \in [Posts -> PostRec]
      BY DEF SettledInv, TypeOK
    <3>2. \A p \in Posts : p \in run[d].products \/ post'[p] = post[p]
      BY <2>1, <3>1 DEF MarkPaid
    <3> QED
      BY <2>3, <2>4, <3>2 DEF SettledInv, PaidIsSettled
  <2>6. SavesSettled' /\ RetriesSettle'
    BY <2>2, <2>3 DEF SettledInv, SavesSettled, RetriesSettle
  <2>7. /\ \A e \in Dispatchers \ {d} : run'[e] = run[e]
        /\ run'[d].at # "insert"
        /\ run'[d].at = "mark" => run'[d].products = run[d].products
    <3>1. CASE run' = [run EXCEPT ![d].todo = @ \ {s}]
      BY <1>1, <2>2, <3>1 DEF Run
    <3>2. CASE Serve(d, Tail(run[d].queue))
      BY <1>1, <3>2, ServeAt
    <3>3. CASE run' = [run EXCEPT ![d] = NoRun]
      BY <1>1, <3>3, NoRunType
    <3> QED
      BY <2>1, <3>1, <3>2, <3>3
  <2>8. DispatchesSettle'
    <3>1. \A e \in Dispatchers : run[e].products \subseteq Posts
      BY <1>1 DEF Run
    <3> QED
      BY <2>2, <2>3, <2>4, <2>7, <3>1 DEF SettledInv, DispatchesSettle
  <2> QED
    BY <2>3, <2>5, <2>6, <2>8
<1> QED
  BY <1>2, <1>3, <1>4, <1>5, <1>6, <1>7 DEF DispatchStep

LEMMA RetryStepSettled ==
    ASSUME SettledInv, NEW r \in Retriers, RetryStep(r)
    PROVE  PaidIsSettled' /\ SavesSettled' /\ DispatchesSettle' /\ RetriesSettle' /\ ClosedIsCharged'
<1> DEFINE o == retry[r].original
<1>1. /\ run \in [Dispatchers -> Run] /\ retry \in [Retriers -> Retry]
      /\ \A e \in Dispatchers : run[e].products \subseteq Posts
  BY DEF SettledInv, TypeOK, Run
<1>2. \A q \in Retriers : retry[q].at # "idle" =>
          /\ retry[q].original \in DOMAIN invoices
          /\ invoices[retry[q].original] \in Invoice
          /\ invoices[retry[q].original].products \subseteq Posts
  BY InvoiceProducts DEF SettledInv, TypeOK
<1>3. CASE RetryCharge(r)
  <2>1. PICK ok \in BOOLEAN :
           /\ StripeCharge(invoices[o].products, ok)
           /\ retry' = [retry EXCEPT ![r].at = "insert", ![r].ok = ok]
    BY <1>3 DEF RetryCharge
  <2>2. UNCHANGED <<post, saving, invoices, run>> /\ retry[r].at = "charge"
    BY <1>3 DEF RetryCharge
  <2>3. /\ \A p \in Posts : Settled(p) => Settled(p)'
        /\ PaidIsSettled' /\ SavesSettled' /\ ClosedIsCharged'
    BY <2>1, <2>2, ChargeKeeps
  <2>4. /\ \A p \in Posts : charged[p] > 0 => charged'[p] > 0
        /\ ok => \A p \in invoices[o].products \cap Posts : charged'[p] > 0
    BY <2>1, ChargeGrows DEF SettledInv
  <2>5. DispatchesSettle'
    BY <1>1, <2>2, <2>3, <2>4 DEF SettledInv, DispatchesSettle
  <2>6. /\ retry'[r].original = o /\ retry'[r].ok = ok
        /\ \A q \in Retriers \ {r} : retry'[q] = retry[q]
    BY <1>1, <2>1 DEF Retry
  <2>7. RetriesSettle'
    <3> SUFFICES ASSUME NEW q \in Retriers, retry'[q].at \in {"insert", "resolve"}, retry'[q].ok
                 PROVE  \A p \in invoices'[retry'[q].original].products : charged'[p] > 0
      BY DEF RetriesSettle
    <3>1. CASE q = r
      BY <1>2, <2>2, <2>4, <2>6, <3>1
    <3>2. CASE q # r
      BY <1>2, <2>2, <2>4, <2>6, <3>2 DEF SettledInv, RetriesSettle
    <3> QED
      BY <3>1, <3>2
  <2> QED
    BY <2>3, <2>5, <2>7
<1>4. CASE RetryInsert(r)
  <2> DEFINE new == [invoices[o] EXCEPT !.valid = retry[r].ok, !.resolved = FALSE]
  <2>1. /\ invoices' = Append(invoices, new) /\ retry[r].at = "insert"
        /\ UNCHANGED <<post, saving, charged, run>>
        /\ retry' = [retry EXCEPT ![r].at = "resolve"]
    BY <1>4 DEF RetryInsert
  <2>2. invoices[o] \in Invoice /\ retry[r].ok \in BOOLEAN
    BY <1>1, <1>2, <2>1 DEF Retry
  <2>3. new \in Invoice /\ new.products = invoices[o].products
    BY <2>2 DEF Invoice
  <2>4. new.valid = retry[r].ok /\ new.resolved = FALSE
    BY <2>2 DEF Invoice
  <2>5. new.valid \/ new.resolved => \A p \in new.products : charged[p] > 0
    BY <2>1, <2>3, <2>4 DEF SettledInv, RetriesSettle
  <2>6. /\ \A p \in Posts : Settled(p) => Settled(p)'
        /\ PaidIsSettled' /\ SavesSettled' /\ ClosedIsCharged'
        /\ \A i \in DOMAIN invoices : invoices'[i] = invoices[i]
    BY <2>1, <2>3, <2>5, InsertKeeps
  <2>7. DispatchesSettle'
    BY <1>1, <2>1, <2>6 DEF SettledInv, DispatchesSettle
  <2>8. \A q \in Retriers : /\ retry'[q].original = retry[q].original
                            /\ retry'[q].ok = retry[q].ok
                            /\ retry'[q].at \in {"insert", "resolve"} =>
                                   retry[q].at \in {"insert", "resolve"}
    BY <1>1, <2>1 DEF Retry
  <2>9. RetriesSettle'
    BY <1>2, <2>1, <2>6, <2>8 DEF SettledInv, RetriesSettle
  <2> QED
    BY <2>6, <2>7, <2>9
<1>5. CASE RetryResolve(r)
  <2>1. /\ invoices' = [invoices EXCEPT ![o].resolved = retry[r].ok]
        /\ retry[r].at = "resolve" /\ retry' = [retry EXCEPT ![r] = NoRetry]
        /\ UNCHANGED <<post, saving, charged, run>>
    BY <1>5 DEF RetryResolve
  <2>2. o \in DOMAIN invoices /\ invoices[o] \in Invoice
    BY <1>2, <2>1
  <2>3. /\ DOMAIN invoices' = DOMAIN invoices
        /\ \A i \in DOMAIN invoices : i # o => invoices'[i] = invoices[i]
        /\ invoices'[o] = [invoices[o] EXCEPT !.resolved = retry[r].ok]
    BY <2>1, <2>2 DEF SettledInv, TypeOK
  <2>4. /\ invoices'[o].products = invoices[o].products
        /\ invoices'[o].valid = invoices[o].valid
        /\ invoices'[o].resolved = retry[r].ok
    BY <2>2, <2>3 DEF Invoice
  <2>5. retry[r].ok => \A p \in invoices[o].products : charged[p] > 0
    BY <2>1 DEF SettledInv, RetriesSettle
  <2>6. \A p \in Posts : Settled(p) => Settled(p)'
    <3> SUFFICES ASSUME NEW p \in Posts, Settled(p) PROVE Settled(p)'
      OBVIOUS
    <3>1. ASSUME NEW i \in DOMAIN invoices
          PROVE  /\ i \in DOMAIN invoices'
                 /\ p \in invoices[i].products => p \in invoices'[i].products
                 /\ ~invoices[i].valid /\ ~invoices[i].resolved
                      /\ p \in invoices[i].products =>
                        (~invoices'[i].valid /\ ~invoices'[i].resolved) \/ charged'[p] > 0
      <4>1. CASE i = o
        BY <2>1, <2>3, <2>4, <2>5, <4>1
      <4>2. CASE i # o
        BY <2>3, <4>2
      <4> QED
        BY <4>1, <4>2
    <3> QED
      BY <2>1, <3>1, SettledKept
  <2>7. PaidIsSettled' /\ SavesSettled'
    BY <2>1, <2>6 DEF SettledInv, PaidIsSettled, SavesSettled
  <2>8. DispatchesSettle'
    BY <1>1, <2>1, <2>6 DEF SettledInv, DispatchesSettle
  <2>9. ClosedIsCharged'
    <3> SUFFICES ASSUME NEW i \in DOMAIN invoices, invoices'[i].valid \/ invoices'[i].resolved
                 PROVE  \A p \in invoices'[i].products : charged[p] > 0
      BY <2>1, <2>3 DEF ClosedIsCharged
    <3>1. CASE i = o
      BY <2>4, <2>5, <3>1 DEF SettledInv, ClosedIsCharged
    <3>2. CASE i # o
      BY <2>3, <3>2 DEF SettledInv, ClosedIsCharged
    <3> QED
      BY <3>1, <3>2
  <2>10. RetriesSettle'
    <3>1. /\ retry'[r].at = "idle"
          /\ \A q \in Retriers \ {r} : retry'[q] = retry[q]
      BY <1>1, <2>1 DEF NoRetry
    <3> SUFFICES ASSUME NEW q \in Retriers, retry'[q].at \in {"insert", "resolve"}, retry'[q].ok
                 PROVE  \A p \in invoices'[retry'[q].original].products : charged'[p] > 0
      BY DEF RetriesSettle
    <3>2. q # r /\ retry'[q] = retry[q]
      BY <3>1
    <3>3. invoices'[retry[q].original].products = invoices[retry[q].original].products
      BY <1>2, <2>3, <2>4, <3>2
    <3> QED
      BY <2>1, <3>2, <3>3 DEF SettledInv, RetriesSettle
  <2> QED
    BY <2>7, <2>8, <2>9, <2>10
<1> QED
  BY <1>3, <1>4, <1>5 DEF RetryStep

LEMMA NextSettled == SettledInv /\ [Next]_vars => SettledInv'
<1> SUFFICES ASSUME SettledInv, [Next]_vars
             PROVE  /\ PaidIsSettled' /\ SavesSettled' /\ DispatchesSettle'
                    /\ RetriesSettle' /\ ClosedIsCharged'
  BY NextType DEF SettledInv
<1>1. ASSUME NEW p \in Posts, Publish(p) \/ Unpublish(p) \/ SaveRead(p) \/ SaveWrite(p)
      PROVE  PaidIsSettled' /\ SavesSettled' /\ DispatchesSettle' /\ RetriesSettle' /\ ClosedIsCharged'
  BY <1>1, ArticleStepSettled
<1>2. ASSUME NEW d \in Dispatchers, Dispatch(d)
      PROVE  PaidIsSettled' /\ SavesSettled' /\ DispatchesSettle' /\ RetriesSettle' /\ ClosedIsCharged'
  <2>1. PICK payload \in Payloads : Serve(d, payload)
    BY <1>2 DEF Dispatch
  <2> DEFINE new == [NoRun EXCEPT !.at = "read", !.queue = payload, !.todo = Sites]
  <2>2. new.at = "read" /\ run' = [run EXCEPT ![d] = new]
    BY <2>1 DEF Serve, NoRun
  <2> QED
    BY <1>2, <2>2, DispatchElsewhere DEF Dispatch
<1>3. ASSUME NEW d \in Dispatchers, DispatchStep(d)
      PROVE  PaidIsSettled' /\ SavesSettled' /\ DispatchesSettle' /\ RetriesSettle' /\ ClosedIsCharged'
  BY <1>3, DispatchStepSettled
<1>4. ASSUME NEW d \in Dispatchers, DispatcherDies(d)
      PROVE  PaidIsSettled' /\ SavesSettled' /\ DispatchesSettle' /\ RetriesSettle' /\ ClosedIsCharged'
  BY <1>4, NoRunType, DispatchElsewhere DEF DispatcherDies
<1>5. ASSUME NEW r \in Retriers, RetryStep(r)
      PROVE  PaidIsSettled' /\ SavesSettled' /\ DispatchesSettle' /\ RetriesSettle' /\ ClosedIsCharged'
  BY <1>5, RetryStepSettled
<1>6. ASSUME UNCHANGED <<post, saving, invoices, charged, run>>,
             NEW r \in Retriers, NEW new, new.at \notin {"insert", "resolve"},
             retry' = [retry EXCEPT ![r] = new]
      PROVE  PaidIsSettled' /\ SavesSettled' /\ DispatchesSettle' /\ RetriesSettle' /\ ClosedIsCharged'
  <2>1. /\ \A q \in Posts : Settled(q)' <=> Settled(q)
        /\ ClosedIsCharged'
    BY <1>6, BooksUnchanged DEF SettledInv
  <2>2. PaidIsSettled' /\ SavesSettled'
    BY <1>6, <2>1 DEF SettledInv, PaidIsSettled, SavesSettled
  <2>3. \A e \in Dispatchers : run[e].products \subseteq Posts
    BY DEF SettledInv, TypeOK, Run
  <2>4. DispatchesSettle'
    BY <1>6, <2>1, <2>3 DEF SettledInv, DispatchesSettle
  <2>5. RetriesSettle'
    BY <1>6 DEF SettledInv, TypeOK, RetriesSettle
  <2> QED
    BY <2>1, <2>2, <2>4, <2>5
<1>7. ASSUME NEW r \in Retriers, RetryFind(r)
      PROVE  PaidIsSettled' /\ SavesSettled' /\ DispatchesSettle' /\ RetriesSettle' /\ ClosedIsCharged'
  <2>1. PICK i \in DOMAIN invoices :
           retry' = [retry EXCEPT ![r] = [at |-> "charge", original |-> i, ok |-> FALSE]]
    BY <1>7 DEF RetryFind
  <2> QED
    BY <1>6, <1>7, <2>1 DEF RetryFind
<1>8. ASSUME NEW r \in Retriers, RetrierDies(r)
      PROVE  PaidIsSettled' /\ SavesSettled' /\ DispatchesSettle' /\ RetriesSettle' /\ ClosedIsCharged'
  BY <1>6, <1>8 DEF RetrierDies, NoRetry
<1>9. CASE UNCHANGED vars
  BY <1>9 DEF vars, SettledInv, PaidIsSettled, SavesSettled, DispatchesSettle, RetriesSettle,
              ClosedIsCharged, Settled, Retriable
<1> QED
  BY <1>1, <1>2, <1>3, <1>4, <1>5, <1>7, <1>8, <1>9 DEF Next

\* No contractor is forgotten, whatever saves and publications overlap, whichever
\* answers of Stripe are lost and whenever workers die.
THEOREM PaidArticlesAreSettled == Spec => []PaidIsSettled
<1>1. Init => SettledInv
  BY InitSettled
<1>2. SettledInv /\ [Next]_vars => SettledInv'
  BY NextSettled
<1>3. SettledInv => PaidIsSettled
  BY DEF SettledInv
<1> QED
  BY <1>1, <1>2, <1>3, PTL DEF Spec

-----------------------------------------------------------------------------
(* One dispatch after the other *)

\* dispatches are made one after the other, and no failed invoice is retried
OneAtATime == Retriers = {} /\ \A d, e \in Dispatchers : d = e

\* What each step of a dispatch does to it.
LEMMA RunAfter ==
    ASSUME TypeOK, NEW d \in Dispatchers
    PROVE  /\ DispatchRead(d) =>
                \E s \in run[d].todo :
                   /\ run[d].at = "read"
                   /\ run'[d].products = run[d].products \cup Pending(Head(run[d].queue), s)
                   /\ run'[d].queue = run[d].queue /\ run'[d].at \in {"read", "number"}
           /\ DispatchNumber(d) =>
                /\ run'[d].products = run[d].products /\ run'[d].queue = run[d].queue
                /\ run'[d].at = "card" /\ run'[d].number = NextNumber
           /\ DispatchCard(d) =>
                /\ run[d].at = "card" /\ run'[d].at \in {"charge", "hung"}
                /\ run'[d].at = "charge" => /\ run'[d].products = run[d].products
                                            /\ run'[d].queue = run[d].queue
                                            /\ run'[d].number = run[d].number
           /\ DispatchCharge(d) =>
                \E ok \in BOOLEAN :
                   /\ StripeCharge(run[d].products, ok)
                   /\ run[d].at = "charge" /\ run'[d].at = "insert" /\ run'[d].ok = ok
                   /\ run'[d].products = run[d].products /\ run'[d].number = run[d].number
           /\ DispatchInsert(d) =>
                /\ run'[d].at = "mark" /\ run'[d].todo = Sites
                /\ run'[d].products = run[d].products
           /\ DispatchMark(d) =>
                \E s \in run[d].todo :
                   /\ MarkPaid({p \in run[d].products : SiteOf[p] = s})
                   /\ \/ /\ run'[d].at = "mark" /\ run'[d].todo = run[d].todo \ {s}
                         /\ run'[d].products = run[d].products
                      \/ /\ run'[d].at \in {"read", "idle"} /\ run'[d].products = {}
                         /\ run[d].todo = {s}
           /\ Dispatch(d) => run'[d].at = "read" /\ run'[d].products = {}
           /\ DispatcherDies(d) => run'[d].at = "idle" /\ run'[d].products = {}
<1>1. run \in [Dispatchers -> Run] /\ run[d] \in Run
  BY DEF TypeOK
<1>2. ASSUME NEW queue, Serve(d, queue)
      PROVE  run'[d].at = "read" /\ run'[d].products = {}
  BY <1>1, <1>2 DEF Serve, NoRun
<1>3. DispatchRead(d) =>
        \E s \in run[d].todo :
           /\ run[d].at = "read"
           /\ run'[d].products = run[d].products \cup Pending(Head(run[d].queue), s)
           /\ run'[d].queue = run[d].queue /\ run'[d].at \in {"read", "number"}
  BY <1>1 DEF DispatchRead, Run
<1>4. DispatchNumber(d) =>
        /\ run'[d].products = run[d].products /\ run'[d].queue = run[d].queue
        /\ run'[d].at = "card" /\ run'[d].number = NextNumber
  BY <1>1 DEF DispatchNumber, Run
<1>5. DispatchCard(d) =>
        /\ run[d].at = "card" /\ run'[d].at \in {"charge", "hung"}
        /\ run'[d].at = "charge" => /\ run'[d].products = run[d].products
                                    /\ run'[d].queue = run[d].queue
                                    /\ run'[d].number = run[d].number
  <2>1. [NoRun EXCEPT !.at = "hung"].at = "hung"
    BY DEF NoRun
  <2>2. CASE DispatchCard(d) /\ run' = [run EXCEPT ![d].at = "charge"]
    BY <1>1, <2>2 DEF DispatchCard, Run
  <2>3. CASE DispatchCard(d) /\ run' = [run EXCEPT ![d] = [NoRun EXCEPT !.at = "hung"]]
    <3>1. run'[d].at = "hung"
      BY <1>1, <2>1, <2>3
    <3>2. QED
      BY <2>3, <3>1 DEF DispatchCard
  <2>4. QED
    BY <2>2, <2>3 DEF DispatchCard
<1>6. DispatchCharge(d) =>
        \E ok \in BOOLEAN :
           /\ StripeCharge(run[d].products, ok)
           /\ run[d].at = "charge" /\ run'[d].at = "insert" /\ run'[d].ok = ok
           /\ run'[d].products = run[d].products /\ run'[d].number = run[d].number
  BY <1>1 DEF DispatchCharge, Run
<1>7. DispatchInsert(d) =>
        /\ run'[d].at = "mark" /\ run'[d].todo = Sites
        /\ run'[d].products = run[d].products
  BY <1>1 DEF DispatchInsert, Run
<1>8. DispatchMark(d) =>
        \E s \in run[d].todo :
           /\ MarkPaid({p \in run[d].products : SiteOf[p] = s})
           /\ \/ /\ run'[d].at = "mark" /\ run'[d].todo = run[d].todo \ {s}
                 /\ run'[d].products = run[d].products
              \/ /\ run'[d].at \in {"read", "idle"} /\ run'[d].products = {}
                 /\ run[d].todo = {s}
  <2> SUFFICES ASSUME DispatchMark(d)
               PROVE  \E s \in run[d].todo :
                         /\ MarkPaid({p \in run[d].products : SiteOf[p] = s})
                         /\ \/ /\ run'[d].at = "mark" /\ run'[d].todo = run[d].todo \ {s}
                               /\ run'[d].products = run[d].products
                            \/ /\ run'[d].at \in {"read", "idle"} /\ run'[d].products = {}
                               /\ run[d].todo = {s}
    OBVIOUS
  <2>1. PICK s \in run[d].todo :
           /\ MarkPaid({p \in run[d].products : SiteOf[p] = s})
           /\ IF run[d].todo # {s}       THEN run' = [run EXCEPT ![d].todo = @ \ {s}]
              ELSE IF Len(run[d].queue) > 1 THEN Serve(d, Tail(run[d].queue))
              ELSE                            run' = [run EXCEPT ![d] = NoRun]
    BY DEF DispatchMark
  <2>2. CASE run[d].todo # {s}
    BY <1>1, <2>1, <2>2 DEF DispatchMark, Run
  <2>3. CASE run[d].todo = {s}
    BY <1>1, <1>2, <2>1, <2>3 DEF NoRun
  <2>4. QED
    BY <2>2, <2>3
<1>9. Dispatch(d) => run'[d].at = "read" /\ run'[d].products = {}
  BY <1>2 DEF Dispatch
<1>10. DispatcherDies(d) => run'[d].at = "idle" /\ run'[d].products = {}
  BY <1>1 DEF DispatcherDies, NoRun
<1>11. QED
  BY <1>3, <1>4, <1>5, <1>6, <1>7, <1>8, <1>9, <1>10

-----------------------------------------------------------------------------
(* Numbers *)

\* a dispatch which took a number, and has no invoice yet
NumbersTakenFollow ==
    \A d \in Dispatchers : run[d].at \in {"card", "charge", "insert"} =>
        Follows(run[d].number, Len(invoices) + 1)

GaplessInv == TypeOK /\ NumbersWithoutGaps /\ NumbersTakenFollow

\* The latest number and its successor follow; so does every number an invoice has.
LEMMA NextNumberFollows ==
    ASSUME TypeOK
    PROVE  Follows(NextNumber, Len(invoices) + 1)
<1>1. CASE invoices = <<>>
  BY <1>1 DEF NextNumber, Follows
<1>2. CASE invoices # <<>>
  <2>1. invoices \in Seq(Invoice)
    BY DEF TypeOK
  <2>2. Len(invoices) \in DOMAIN invoices /\ Len(invoices) < Len(invoices) + 1
    BY <1>2, <2>1
  <2>3. invoices[Len(invoices)].number \in Nat
    BY <2>2, InvoiceProducts DEF Invoice
  <2>4. invoices[Len(invoices)].number = NextNumber - 1
    BY <1>2, <2>3 DEF NextNumber
  <2> QED
    BY <2>2, <2>4 DEF Follows
<1> QED
  BY <1>1, <1>2

\* A step which inserts no invoice, and changes no number.
LEMMA SameNumbers ==
    ASSUME GaplessInv, TypeOK', DOMAIN invoices' = DOMAIN invoices,
           \A j \in DOMAIN invoices : invoices'[j].number = invoices[j].number
    PROVE  /\ NumbersWithoutGaps'
           /\ \A number : Follows(number, Len(invoices) + 1) => Follows(number, Len(invoices) + 1)'
<1>1. DOMAIN invoices = 1 .. Len(invoices) /\ DOMAIN invoices' = 1 .. Len(invoices') /\ Len(invoices) \in Nat /\ Len(invoices') \in Nat
  BY DEF GaplessInv, TypeOK
<1>2. Len(invoices') = Len(invoices)
  BY <1>1
<1>3. ASSUME NEW i \in DOMAIN invoices PROVE Follows(invoices[i].number, i)'
  <2>1. Follows(invoices[i].number, i)
    BY <1>3 DEF GaplessInv, NumbersWithoutGaps
  <2> QED
    BY <1>1, <2>1 DEF Follows
<1>4. ASSUME NEW number, Follows(number, Len(invoices) + 1)
      PROVE  Follows(number, Len(invoices) + 1)'
  BY <1>1, <1>2, <1>4 DEF Follows
<1> QED
  BY <1>3, <1>4 DEF NumbersWithoutGaps

\* A step which inserts one invoice whose number follows.
LEMMA OneMoreNumber ==
    ASSUME GaplessInv, TypeOK', NEW new \in Invoice, invoices' = Append(invoices, new),
           Follows(new.number, Len(invoices) + 1)
    PROVE  /\ NumbersWithoutGaps'
           /\ \A number : Follows(number, Len(invoices) + 1) => Follows(number, Len(invoices) + 1)'
<1>1. invoices \in Seq(Invoice) /\ DOMAIN invoices = 1 .. Len(invoices) /\ Len(invoices) \in Nat
  BY DEF GaplessInv, TypeOK
<1>2. /\ DOMAIN invoices' = DOMAIN invoices \cup {Len(invoices) + 1}
      /\ \A i \in DOMAIN invoices : invoices'[i] = invoices[i]
      /\ invoices'[Len(invoices) + 1] = new
  BY <1>1, Appended
<1>3. Len(invoices') = Len(invoices) + 1
  BY <1>1
<1>4. ASSUME NEW i \in DOMAIN invoices PROVE Follows(invoices[i].number, i)'
  <2>1. Follows(invoices[i].number, i)
    BY <1>4 DEF GaplessInv, NumbersWithoutGaps
  <2> QED
    BY <1>2, <2>1 DEF Follows
<1>5. ASSUME NEW i, i = Len(invoices) + 1 PROVE Follows(new.number, i)'
  BY <1>1, <1>2, <1>5 DEF Follows
<1>6. ASSUME NEW number, Follows(number, Len(invoices) + 1)
      PROVE  Follows(number, Len(invoices) + 1)'
  BY <1>1, <1>2, <1>3, <1>6 DEF Follows
<1>7. \A i : i \in DOMAIN invoices => Follows(invoices[i].number, i)'
  BY <1>2, <1>4 DEF Follows
<1>8. \A i : i = Len(invoices) + 1 => Follows(invoices[i].number, i)'
  BY <1>2, <1>5 DEF Follows
<1>9. NumbersWithoutGaps'
  BY <1>2, <1>7, <1>8 DEF NumbersWithoutGaps, Follows
<1> QED
  BY <1>6, <1>9

\* A step of the articles or of one dispatch which leaves the invoices alone.
LEMMA TakenKept ==
    ASSUME GaplessInv, TypeOK', invoices' = invoices, NEW d \in Dispatchers,
           \A e \in Dispatchers \ {d} : run'[e] = run[e],
           run'[d].at \in {"card", "charge", "insert"} => Follows(run'[d].number, Len(invoices) + 1)
    PROVE  GaplessInv'
<1>1. NumbersWithoutGaps'
  BY SameNumbers
<1>2. ASSUME NEW e \in Dispatchers, run'[e].at \in {"card", "charge", "insert"}
      PROVE  Follows(run'[e].number, Len(invoices) + 1)
  BY <1>2 DEF GaplessInv, NumbersTakenFollow
<1>3. NumbersTakenFollow'
  BY <1>2 DEF NumbersTakenFollow, Follows
<1> QED
  BY <1>1, <1>3 DEF GaplessInv

\* The retries leave the dispatches alone: those which took a number still may use it.
LEMMA TakenStill ==
    ASSUME GaplessInv, run' = run,
           \A number : Follows(number, Len(invoices) + 1) => Follows(number, Len(invoices) + 1)'
    PROVE  NumbersTakenFollow'
<1>1. ASSUME NEW d \in Dispatchers, run[d].at \in {"card", "charge", "insert"}
      PROVE  Follows(run[d].number, Len(invoices) + 1)
  BY <1>1 DEF GaplessInv, NumbersTakenFollow
<1> QED
  BY <1>1 DEF NumbersTakenFollow, Follows

LEMMA GaplessStep == GaplessInv /\ [Next]_vars => GaplessInv'
<1> SUFFICES ASSUME GaplessInv, [Next]_vars
             PROVE  GaplessInv'
  OBVIOUS
<1>0. /\ TypeOK /\ TypeOK' /\ NumbersWithoutGaps
      /\ invoices \in Seq(Invoice) /\ DOMAIN invoices = 1 .. Len(invoices) /\ Len(invoices) \in Nat
      /\ run \in [Dispatchers -> Run] /\ retry \in [Retriers -> Retry]
  BY NextType DEF GaplessInv, TypeOK
<1>1. ASSUME invoices' = invoices, run' = run
      PROVE  GaplessInv'
  BY <1>0, <1>1, SameNumbers DEF GaplessInv, NumbersTakenFollow, Follows
<1>2. ASSUME NEW p \in Posts, Publish(p) \/ Unpublish(p) \/ SaveRead(p) \/ SaveWrite(p)
      PROVE  GaplessInv'
  BY <1>1, <1>2 DEF Publish, Unpublish, SaveRead, SaveWrite
<1>3. ASSUME NEW d \in Dispatchers,
             \/ Dispatch(d) \/ DispatcherDies(d) \/ DispatchRead(d) \/ DispatchNumber(d)
             \/ DispatchCard(d) \/ DispatchCharge(d) \/ DispatchMark(d)
      PROVE  GaplessInv'
  <2>1. invoices' = invoices
    BY <1>3 DEF Dispatch, DispatcherDies, DispatchRead, DispatchNumber, DispatchCard, DispatchCharge, DispatchMark
  <2>2. \A e \in Dispatchers \ {d} : run'[e] = run[e]
    BY <1>0, <1>3 DEF Dispatch, DispatcherDies, DispatchRead, DispatchNumber, DispatchCard, DispatchCharge, DispatchMark, Serve
  <2>3. run'[d].at \in {"card", "charge", "insert"} => Follows(run'[d].number, Len(invoices) + 1)
    <3>1. run[d].at \in {"card", "charge", "insert"} => Follows(run[d].number, Len(invoices) + 1)
      BY DEF GaplessInv, NumbersTakenFollow
    <3>2. CASE Dispatch(d) \/ DispatcherDies(d) \/ DispatchRead(d) \/ DispatchMark(d)
      BY <1>0, <3>2, RunAfter
    <3>3. CASE DispatchNumber(d)
      BY <1>0, <3>3, RunAfter, NextNumberFollows
    <3>4. CASE DispatchCard(d) \/ DispatchCharge(d)
      BY <1>0, <3>1, <3>4, RunAfter
    <3> QED
      BY <1>3, <3>2, <3>3, <3>4
  <2> QED
    BY <1>0, <2>1, <2>2, <2>3, TakenKept
<1>4. ASSUME NEW d \in Dispatchers, DispatchInsert(d)
      PROVE  GaplessInv'
  <2> DEFINE new == [number |-> run[d].number, products |-> run[d].products,
                     valid |-> run[d].ok, resolved |-> FALSE]
  <2>1. run[d].at = "insert" /\ invoices' = Append(invoices, new)
    BY <1>4 DEF DispatchInsert
  <2>2. new \in Invoice /\ new.number = run[d].number
    BY <1>0 DEF Run, Invoice
  <2>3. Follows(new.number, Len(invoices) + 1)
    BY <2>1, <2>2 DEF GaplessInv, NumbersTakenFollow
  <2> HIDE DEF new
  <2>4. /\ NumbersWithoutGaps'
        /\ \A number : Follows(number, Len(invoices) + 1) => Follows(number, Len(invoices) + 1)'
    BY <1>0, <2>1, <2>2, <2>3, OneMoreNumber
  <2>5. run'[d].at = "mark" /\ \A e \in Dispatchers \ {d} : run'[e] = run[e]
    BY <1>0, <1>4, RunAfter DEF DispatchInsert
  <2>6. ASSUME NEW e \in Dispatchers, run'[e].at \in {"card", "charge", "insert"}
        PROVE  e # d /\ run'[e] = run[e] /\ Follows(run[e].number, Len(invoices) + 1)
    BY <2>5, <2>6 DEF GaplessInv, NumbersTakenFollow
  <2>7. NumbersTakenFollow'
    BY <2>4, <2>6 DEF NumbersTakenFollow, Follows
  <2> QED
    BY <1>0, <2>4, <2>7 DEF GaplessInv
<1>5. ASSUME NEW r \in Retriers, RetryFind(r) \/ RetryCharge(r) \/ RetrierDies(r)
      PROVE  GaplessInv'
  BY <1>1, <1>5 DEF RetryFind, RetryCharge, RetrierDies
<1>6. ASSUME NEW r \in Retriers, RetryInsert(r)
      PROVE  GaplessInv'
  <2> DEFINE i == retry[r].original
             new == [invoices[i] EXCEPT !.valid = retry[r].ok, !.resolved = FALSE]
  <2>1. i \in DOMAIN invoices /\ invoices' = Append(invoices, new) /\ run' = run
    BY <1>0, <1>6 DEF RetryInsert, TypeOK
  <2>2. invoices[i] \in Invoice /\ retry[r].ok \in BOOLEAN
    BY <1>0, <2>1, InvoiceProducts DEF Retry
  <2>3. new \in Invoice /\ new.number = invoices[i].number
    BY <2>2 DEF Invoice
  <2>4. Follows(invoices[i].number, i)
    BY <2>1 DEF GaplessInv, NumbersWithoutGaps
  <2>5. i < Len(invoices) + 1 /\ i \in Nat
    BY <1>0, <2>1
  <2> HIDE DEF new, i
  <2>6. Follows(new.number, Len(invoices) + 1)
    BY <1>0, <2>3, <2>4, <2>5 DEF Follows
  <2>7. /\ NumbersWithoutGaps'
        /\ \A number : Follows(number, Len(invoices) + 1) => Follows(number, Len(invoices) + 1)'
    BY <1>0, <2>1, <2>3, <2>6, OneMoreNumber
  <2> QED
    BY <1>0, <2>1, <2>7, TakenStill DEF GaplessInv
<1>7. ASSUME NEW r \in Retriers, RetryResolve(r)
      PROVE  GaplessInv'
  <2>1. DOMAIN invoices' = DOMAIN invoices /\ run' = run
    BY <1>7 DEF RetryResolve
  <2>2. ASSUME NEW j \in DOMAIN invoices PROVE invoices'[j].number = invoices[j].number
    <3>1. invoices[j] \in Invoice
      BY <1>0, <2>2, InvoiceProducts
    <3> QED
      BY <1>0, <1>7, <2>2, <3>1 DEF RetryResolve, Invoice
  <2> QED
    BY <1>0, <2>1, <2>2, SameNumbers, TakenStill DEF GaplessInv
<1>8. CASE UNCHANGED vars
  BY <1>1, <1>8 DEF vars
<1> QED
  BY <1>2, <1>3, <1>4, <1>5, <1>6, <1>7, <1>8 DEF Next, DispatchStep, RetryStep

\* The books skip no number, however dispatches and retries overlap, whatever is saved and published
\* meanwhile and whichever worker dies with a number it took (lib/money.js:67).
THEOREM NumbersHaveNoGaps == Spec => []NumbersWithoutGaps
<1>1. Init => GaplessInv
  <2>1. ASSUME Init PROVE NumbersWithoutGaps /\ NumbersTakenFollow
    BY <2>1 DEF Init, NumbersWithoutGaps, NumbersTakenFollow, NoRun
  <2> QED
    BY <2>1, InitType DEF GaplessInv
<1>2. GaplessInv => NumbersWithoutGaps
  BY DEF GaplessInv
<1> QED
  BY <1>1, <1>2, GaplessStep, PTL DEF Spec

-----------------------------------------------------------------------------
(* Books *)

\* nothing sets a payment status but the first publication and the dispatch, and no worker dies
Undisturbed == Mishaps \cap {"republish", "save", "crash"} = {}

Untouched(p) == charged[p] = 0 /\ ~Retriable(p)

NoneUntouched == \A p \in Posts : post[p].payment = "none" => Untouched(p)

\* what is pending was never dealt with, unless a dispatch has just done so
PendingUntouched ==
    \A p \in Posts : post[p].payment = "pending" =>
        \/ Untouched(p)
        \/ \E d \in Dispatchers : /\ run[d].at \in {"insert", "mark"} /\ p \in run[d].products
                                  /\ run[d].at = "mark" => SiteOf[p] \in run[d].todo

\* what a dispatch is about to charge for is due to the contractor it serves
ProductsDue ==
    \A d \in Dispatchers : \A p \in run[d].products :
        /\ run[d].at \in {"read", "number", "card", "charge"} =>
              Untouched(p) /\ AuthorOf[p] = Head(run[d].queue)
        /\ run[d].at \in {"read", "number", "card", "charge", "insert"} =>
              post[p].payment = "pending"

BooksInv ==
    /\ SettledInv /\ NoneUntouched /\ PendingUntouched /\ ProductsDue
    /\ \A p \in Posts : saving[p] = {}

LEMMA BooksInit == Init => BooksInv
<1> SUFFICES ASSUME Init PROVE BooksInv
  OBVIOUS
<1>1. SettledInv
  BY InitSettled
<1>2. \A p \in Posts : Untouched(p)
  <2>1. DOMAIN invoices = {} /\ \A p \in Posts : charged[p] = 0
    BY DEF Init
  <2>2. QED
    BY <2>1 DEF Untouched, Retriable
<1>3. ProductsDue
  BY DEF Init, ProductsDue, NoRun
<1>4. QED
  BY <1>1, <1>2, <1>3 DEF Init, BooksInv, NoneUntouched, PendingUntouched

\* A step of the one dispatch which neither charges nor writes keeps what is known of it.
LEMMA QuietStep ==
    ASSUME OneAtATime, BooksInv, SettledInv', NEW d \in Dispatchers,
           UNCHANGED <<post, saving, invoices, charged>>,
           run[d].at \notin {"insert", "mark"},
           run'[d].at \notin {"insert", "mark"},
           \A p \in run'[d].products : run'[d].at \in {"read", "number", "card", "charge"} =>
               Untouched(p) /\ AuthorOf[p] = Head(run'[d].queue) /\ post[p].payment = "pending"
    PROVE  BooksInv'
<1>1. \A p \in Posts : Untouched(p)' <=> Untouched(p)
  BY DEF Untouched, Retriable
<1>2. NoneUntouched'
  BY <1>1 DEF BooksInv, NoneUntouched
<1>3. PendingUntouched'
  <2>1. \A p \in Posts : post[p].payment = "pending" => Untouched(p)
    BY DEF OneAtATime, BooksInv, PendingUntouched
  <2>2. QED
    BY <1>1, <2>1 DEF PendingUntouched
<1>4. run' \in [Dispatchers -> Run] /\ run'[d].products \subseteq Posts
  BY DEF SettledInv, TypeOK, Run
<1>5. ProductsDue'
  BY <1>1, <1>4 DEF ProductsDue, OneAtATime
<1>6. QED
  BY <1>2, <1>3, <1>5 DEF BooksInv

LEMMA ArticleStepBooks ==
    ASSUME OneAtATime, Undisturbed, BooksInv, SettledInv', NEW p \in Posts,
           Publish(p) \/ Unpublish(p) \/ SaveRead(p) \/ SaveWrite(p)
    PROVE  BooksInv'
<1>0. post \in [Posts -> PostRec] /\ run \in [Dispatchers -> Run]
  BY DEF BooksInv, SettledInv, TypeOK
<1>1. ~SaveRead(p) /\ ~SaveWrite(p)
  BY DEF Undisturbed, SaveRead, SaveWrite, BooksInv
<1>2. UNCHANGED <<saving, invoices, charged, run>>
  BY <1>1 DEF Publish, Unpublish
<1>3. \A q \in Posts : Untouched(q)' <=> Untouched(q)
  BY <1>2 DEF Untouched, Retriable
<1>4. /\ \A q \in Posts \ {p} : post'[q] = post[q]
      /\ \/ post[p].payment = "none" /\ post'[p].payment = "pending"
         \/ post'[p].payment = post[p].payment
  <2>1. CASE Publish(p)
    BY <1>0, <2>1 DEF Publish, Undisturbed
  <2>2. CASE Unpublish(p)
    BY <1>0, <2>2 DEF Unpublish, PostRec
  <2>3. QED
    BY <1>1, <2>1, <2>2
<1>5. NoneUntouched'
  BY <1>3, <1>4 DEF BooksInv, NoneUntouched
<1>6. PendingUntouched'
  <2>1. ASSUME NEW q \in Posts, post'[q].payment = "pending", ~Untouched(q)
        PROVE  post[q].payment = "pending"
    BY <1>4, <2>1 DEF BooksInv, NoneUntouched
  <2>2. QED
    BY <1>2, <1>3, <2>1 DEF BooksInv, PendingUntouched
<1>7. ProductsDue'
  <2>1. \A d \in Dispatchers : run[d].products \subseteq Posts
    BY <1>0 DEF Run
  <2>2. QED
    BY <1>2, <1>3, <1>4, <2>1 DEF BooksInv, ProductsDue
<1>8. QED
  BY <1>2, <1>5, <1>6, <1>7 DEF BooksInv

LEMMA ChargeBooks ==
    ASSUME OneAtATime, BooksInv, SettledInv', NEW d \in Dispatchers, DispatchCharge(d)
    PROVE  BooksInv'
<1>0. TypeOK /\ run[d].products \subseteq Posts
  BY DEF BooksInv, SettledInv, TypeOK, Run
<1>1. UNCHANGED <<post, saving, invoices>>
  BY DEF DispatchCharge
<1>2. PICK ok \in BOOLEAN :
         /\ StripeCharge(run[d].products, ok)
         /\ run[d].at = "charge" /\ run'[d].at = "insert" /\ run'[d].ok = ok
         /\ run'[d].products = run[d].products /\ run'[d].number = run[d].number
  BY <1>0, RunAfter
<1>3. \A p \in Posts \ run[d].products : charged'[p] = charged[p]
  BY <1>2 DEF StripeCharge, Charged
<1>4. \A p \in Posts \ run[d].products : Untouched(p)' <=> Untouched(p)
  BY <1>1, <1>3 DEF Untouched, Retriable
<1>5. \A p \in run[d].products : post[p].payment = "pending"
  BY <1>2 DEF BooksInv, ProductsDue
<1>6. NoneUntouched'
  BY <1>1, <1>4, <1>5 DEF BooksInv, NoneUntouched
<1>7. PendingUntouched'
  <2>1. \A p \in Posts : post[p].payment = "pending" => Untouched(p)
    BY <1>2 DEF OneAtATime, BooksInv, PendingUntouched
  <2>2. QED
    BY <1>1, <1>2, <1>4, <2>1 DEF PendingUntouched
<1>8. ProductsDue'
  BY <1>1, <1>2, <1>5 DEF ProductsDue, OneAtATime
<1>9. QED
  BY <1>1, <1>6, <1>7, <1>8 DEF BooksInv

\* What an invoice appended makes retriable.
LEMMA RetriableAfter ==
    ASSUME TypeOK, NEW new \in Invoice, invoices' = Append(invoices, new), NEW p
    PROVE  Retriable(p)' <=> Retriable(p) \/ (~new.valid /\ ~new.resolved /\ p \in new.products)
<1>1. invoices \in Seq(Invoice)
  BY DEF TypeOK
<1>2. /\ DOMAIN invoices' = DOMAIN invoices \cup {Len(invoices) + 1}
      /\ \A i \in DOMAIN invoices : invoices'[i] = invoices[i]
      /\ invoices'[Len(invoices) + 1] = new
  BY <1>1, Appended
<1>3. QED
  BY <1>2 DEF Retriable

\* What the invoice of a dispatch makes retriable.
LEMMA RetriableInserted ==
    ASSUME TypeOK, NEW d \in Dispatchers, DispatchInsert(d), NEW p
    PROVE  Retriable(p)' <=> Retriable(p) \/ (~run[d].ok /\ p \in run[d].products)
<1> DEFINE new == [number |-> run[d].number, products |-> run[d].products,
                   valid |-> run[d].ok, resolved |-> FALSE]
<1>1. invoices' = Append(invoices, new)
  BY DEF DispatchInsert
<1>2. new \in Invoice
  BY DEF TypeOK, Run, Invoice
<1>3. new.valid = run[d].ok /\ new.resolved = FALSE /\ new.products = run[d].products
  OBVIOUS
<1> HIDE DEF new
<1>4. QED
  BY <1>1, <1>2, <1>3, RetriableAfter

LEMMA InsertBooks ==
    ASSUME OneAtATime, BooksInv, SettledInv', NEW d \in Dispatchers, DispatchInsert(d)
    PROVE  BooksInv'
<1>0. TypeOK /\ SiteOf \in [Posts -> Sites]
  BY PaymentsAssumption DEF BooksInv, SettledInv
<1>1. UNCHANGED <<post, saving, charged>> /\ run[d].at = "insert"
  BY DEF DispatchInsert
<1>2. run'[d].at = "mark" /\ run'[d].todo = Sites /\ run'[d].products = run[d].products
  BY <1>0, RunAfter
<1>3. \A p \in Posts \ run[d].products : Untouched(p)' <=> Untouched(p)
  BY <1>0, <1>1, RetriableInserted DEF Untouched
<1>4. \A p \in run[d].products : post[p].payment = "pending"
  BY <1>1 DEF BooksInv, ProductsDue
<1>5. NoneUntouched'
  BY <1>1, <1>3, <1>4 DEF BooksInv, NoneUntouched
<1>6. PendingUntouched'
  <2>1. \A p \in Posts : post[p].payment = "pending" => Untouched(p) \/ p \in run[d].products
    BY DEF OneAtATime, BooksInv, PendingUntouched
  <2>2. QED
    BY <1>0, <1>1, <1>2, <1>3, <2>1 DEF PendingUntouched
<1>7. ProductsDue'
  BY <1>2 DEF ProductsDue, OneAtATime
<1>8. QED
  BY <1>1, <1>5, <1>6, <1>7 DEF BooksInv

LEMMA MarkBooks ==
    ASSUME OneAtATime, BooksInv, SettledInv', NEW d \in Dispatchers, DispatchMark(d)
    PROVE  BooksInv'
<1>0. TypeOK /\ run[d].products \subseteq Posts
  BY DEF BooksInv, SettledInv, TypeOK, Run
<1>1. UNCHANGED <<saving, invoices, charged>> /\ run[d].at = "mark"
  BY DEF DispatchMark
<1>2. PICK s \in run[d].todo :
         /\ MarkPaid({p \in run[d].products : SiteOf[p] = s})
         /\ \/ /\ run'[d].at = "mark" /\ run'[d].todo = run[d].todo \ {s}
               /\ run'[d].products = run[d].products
            \/ /\ run'[d].at \in {"read", "idle"} /\ run'[d].products = {}
               /\ run[d].todo = {s}
  BY <1>0, RunAfter
<1>3. /\ post \in [Posts -> PostRec]
      /\ \A p \in Posts : IF p \in run[d].products /\ SiteOf[p] = s
                          THEN post'[p].payment = "paid"
                          ELSE post'[p] = post[p]
  BY <1>0, <1>2 DEF MarkPaid, TypeOK, PostRec
<1>4. \A p \in Posts : Untouched(p)' <=> Untouched(p)
  BY <1>1 DEF Untouched, Retriable
<1>5. NoneUntouched'
  BY <1>3, <1>4 DEF BooksInv, NoneUntouched
<1>6. PendingUntouched'
  <2>1. ASSUME NEW p \in Posts, post'[p].payment = "pending", ~Untouched(p)
        PROVE  p \in run[d].products /\ SiteOf[p] \in run[d].todo \ {s}
    <3>1. post'[p] = post[p] /\ ~(p \in run[d].products /\ SiteOf[p] = s)
      BY <1>3, <2>1
    <3>2. p \in run[d].products /\ SiteOf[p] \in run[d].todo
      BY <1>1, <2>1, <3>1 DEF OneAtATime, BooksInv, PendingUntouched
    <3>3. QED
      BY <3>1, <3>2
  <2>2. QED
    BY <1>2, <1>4, <2>1 DEF PendingUntouched
<1>7. ProductsDue'
  BY <1>2 DEF ProductsDue, OneAtATime
<1>8. QED
  BY <1>1, <1>5, <1>6, <1>7 DEF BooksInv

LEMMA BooksKept ==
    ASSUME OneAtATime, Undisturbed, BooksInv, [Next]_vars
    PROVE  BooksInv'
<1>0. SettledInv' /\ TypeOK
  BY NextSettled DEF BooksInv, SettledInv
<1>1. ASSUME NEW p \in Posts, Publish(p) \/ Unpublish(p) \/ SaveRead(p) \/ SaveWrite(p)
      PROVE  BooksInv'
  BY <1>0, <1>1, ArticleStepBooks
<1>2. ASSUME NEW d \in Dispatchers, Dispatch(d)
      PROVE  BooksInv'
  BY <1>0, <1>2, RunAfter, QuietStep DEF Dispatch
<1>3. ASSUME NEW d \in Dispatchers, DispatchRead(d)
      PROVE  BooksInv'
  <2>1. PICK s \in run[d].todo :
           /\ run[d].at = "read"
           /\ run'[d].products = run[d].products \cup Pending(Head(run[d].queue), s)
           /\ run'[d].queue = run[d].queue /\ run'[d].at \in {"read", "number"}
    BY <1>0, <1>3, RunAfter
  <2>2. \A p \in Pending(Head(run[d].queue), s) :
           Untouched(p) /\ AuthorOf[p] = Head(run[d].queue) /\ post[p].payment = "pending"
    BY <2>1 DEF Pending, OneAtATime, BooksInv, PendingUntouched
  <2>3. \A p \in run[d].products :
           Untouched(p) /\ AuthorOf[p] = Head(run[d].queue) /\ post[p].payment = "pending"
    BY <2>1 DEF BooksInv, ProductsDue
  <2>4. UNCHANGED <<post, saving, invoices, charged>>
    BY <1>3 DEF DispatchRead
  <2>5. QED
    BY <1>0, <2>1, <2>2, <2>3, <2>4, QuietStep
<1>4. ASSUME NEW d \in Dispatchers, DispatchNumber(d) \/ DispatchCard(d)
      PROVE  BooksInv'
  <2>1. /\ run[d].at \in {"number", "card"} /\ run'[d].at \in {"card", "charge", "hung"}
        /\ run'[d].at \in {"card", "charge"} =>
              run'[d].products = run[d].products /\ run'[d].queue = run[d].queue
    <3>1. CASE DispatchNumber(d)
      BY <1>0, <3>1, RunAfter DEF DispatchNumber
    <3>2. CASE DispatchCard(d)
      BY <1>0, <3>2, RunAfter
    <3>3. QED
      BY <1>4, <3>1, <3>2
  <2>2. \A p \in run[d].products :
           Untouched(p) /\ AuthorOf[p] = Head(run[d].queue) /\ post[p].payment = "pending"
    BY <2>1 DEF BooksInv, ProductsDue
  <2>3. UNCHANGED <<post, saving, invoices, charged>>
    BY <1>4 DEF DispatchNumber, DispatchCard
  <2>4. QED
    BY <1>0, <2>1, <2>2, <2>3, QuietStep
<1>5. ASSUME NEW d \in Dispatchers, DispatchCharge(d) \/ DispatchInsert(d) \/ DispatchMark(d)
      PROVE  BooksInv'
  BY <1>0, <1>5, ChargeBooks, InsertBooks, MarkBooks
<1>6. ~\E d \in Dispatchers : DispatcherDies(d)
  BY DEF Undisturbed, DispatcherDies
<1>7. CASE UNCHANGED vars
  <2>1. UNCHANGED <<post, saving, invoices, charged, run>>
    BY <1>7 DEF vars
  <2>2. \A p \in Posts : Untouched(p)' <=> Untouched(p)
    BY <2>1 DEF Untouched, Retriable
  <2>3. \A d \in Dispatchers : run[d].products \subseteq Posts
    BY <1>0 DEF TypeOK, Run
  <2>4. NoneUntouched' /\ PendingUntouched' /\ ProductsDue'
    BY <2>1, <2>2, <2>3 DEF BooksInv, NoneUntouched, PendingUntouched, ProductsDue
  <2>5. QED
    BY <1>0, <2>1, <2>4 DEF BooksInv
<1>8. QED
  BY <1>1, <1>2, <1>3, <1>4, <1>5, <1>6, <1>7 DEF Next, DispatchStep, OneAtATime

-----------------------------------------------------------------------------
(* Every step keeps the books *)

Due == {p \in Posts : /\ post[p].payment = "pending" /\ charged[p] = 0
                      /\ ~Retriable(p) /\ p \notin InFlightFailed}

Failed == {p \in Posts : charged[p] = 0 /\ (Retriable(p) \/ p \in InFlightFailed)}

\* articles of a dispatch which Stripe refused, as long as its invoice is not inserted
Refused(d) == IF run[d].at = "insert" /\ ~run[d].ok THEN run[d].products ELSE {}

LEMMA InFlightIsRefused ==
    ASSUME OneAtATime, NEW d \in Dispatchers
    PROVE  /\ InFlightFailed = Posts \cap Refused(d)
           /\ InFlightFailed' = Posts \cap Refused(d)'
  BY DEF InFlightFailed, Refused, OneAtATime

\* A step which refuses and charges nothing, and gives no article another payment status, is no step of the books.
LEMMA SameBooks ==
    ASSUME UNCHANGED <<charged, invoices, InFlightFailed>>,
           \A p \in Posts : Settled(p) \/ (post'[p].payment = "pending" <=> post[p].payment = "pending")
    PROVE  UNCHANGED <<Due, Failed, charged>>
<1>1. \A p \in Posts : Retriable(p)' <=> Retriable(p)
  BY DEF Retriable
<1>2. \A p \in Posts : charged[p] = 0 /\ ~Retriable(p) =>
         (post'[p].payment = "pending" <=> post[p].payment = "pending")
  <2>1. \A p \in Posts : charged[p] = 0 => ~(charged[p] > 0)
    OBVIOUS
  <2>2. QED
    BY <2>1 DEF Settled
<1>3. Due' = Due
  BY <1>1, <1>2 DEF Due
<1>4. Failed' = Failed
  BY <1>1 DEF Failed
<1>5. QED
  BY <1>3, <1>4

LEMMA LedgerInit == Init => Books!Init
<1> SUFFICES ASSUME Init PROVE Books!Init
  OBVIOUS
<1>1. DOMAIN invoices = {} /\ charged = [p \in Posts |-> 0]
  BY DEF Init
<1>2. \A p \in Posts : post[p].payment = "none" /\ ~Retriable(p)
  BY <1>1 DEF Init, Unpublished, Retriable
<1>3. InFlightFailed = {}
  BY DEF Init, NoRun, InFlightFailed
<1>4. Due = {} /\ Failed = {}
  BY <1>2, <1>3 DEF Due, Failed
<1>5. QED
  BY <1>1, <1>4 DEF Books!Init, Due, Failed

LEMMA PublishLedger ==
    ASSUME OneAtATime, Undisturbed, BooksInv, NEW p \in Posts, Publish(p)
    PROVE  Books!Publish(p)
<1>0. post \in [Posts -> PostRec] /\ UNCHANGED <<charged, invoices, run>> /\ post[p].payment = "none"
  BY DEF BooksInv, SettledInv, TypeOK, Publish, Undisturbed
<1>1. Untouched(p)
  BY <1>0 DEF BooksInv, NoneUntouched
<1>2. p \notin InFlightFailed
  BY <1>0 DEF InFlightFailed, BooksInv, ProductsDue
<1>3. /\ \A q \in Posts : Retriable(q)' <=> Retriable(q)
      /\ InFlightFailed' = InFlightFailed
  BY <1>0 DEF Retriable, InFlightFailed
<1>4. /\ post'[p].payment = "pending"
      /\ \A q \in Posts \ {p} : post'[q] = post[q]
  BY <1>0 DEF Publish
<1>5. p \notin Due \cup Failed /\ charged[p] = 0
  BY <1>0, <1>1, <1>2 DEF Due, Failed, Untouched
<1>6. Due' = Due \cup {p}
  BY <1>0, <1>1, <1>2, <1>3, <1>4 DEF Due, Untouched
<1>7. Failed' = Failed
  BY <1>0, <1>3 DEF Failed
<1>8. QED
  BY <1>0, <1>5, <1>6, <1>7 DEF Books!Publish, Due, Failed

LEMMA ChargeLedger ==
    ASSUME OneAtATime, BooksInv, NEW d \in Dispatchers, DispatchCharge(d)
    PROVE  Books!Next
<1> DEFINE products == run[d].products
<1> DEFINE c == Head(run[d].queue)
<1>0. TypeOK /\ products \subseteq Posts /\ charged \in [Posts -> Nat]
  BY DEF BooksInv, SettledInv, TypeOK, Run
<1>1. UNCHANGED <<post, invoices>>
  BY DEF DispatchCharge
<1>2. PICK ok \in BOOLEAN :
         /\ StripeCharge(products, ok)
         /\ run[d].at = "charge" /\ run'[d].at = "insert" /\ run'[d].ok = ok
         /\ run'[d].products = products /\ run'[d].number = run[d].number
  BY <1>0, RunAfter
<1>3. c \in Contractors
  <2>1. run[d].queue \in Seq(Contractors) /\ run[d].queue # <<>>
    BY <1>0, <1>2 DEF TypeOK, Run
  <2>2. QED
    BY <2>1
<1>4. \A p \in products : /\ post[p].payment = "pending" /\ charged[p] = 0 /\ ~Retriable(p)
                          /\ AuthorOf[p] = c
  BY <1>2 DEF BooksInv, ProductsDue, Untouched
<1>5. InFlightFailed = {} /\ InFlightFailed' = IF ok THEN {} ELSE products
  BY <1>0, <1>2, InFlightIsRefused DEF Refused
<1>6. \A p \in Posts : Retriable(p)' <=> Retriable(p)
  BY <1>1 DEF Retriable
<1> HIDE DEF products, c
<1>7. products \in SUBSET Books!Due(c)
  <2>1. products \subseteq Due /\ \A p \in products : AuthorOf[p] = c
    BY <1>0, <1>4, <1>5 DEF Due
  <2>2. Books!Due(c) = {p \in Due : AuthorOf[p] = c}
    BY DEF Books!Due, Due
  <2>3. QED
    BY <2>1, <2>2
<1>8. PICK ps : ps = products
  OBVIOUS
<1>9. PICK author : author = c
  OBVIOUS
<1>10. author \in Contractors /\ ps \in SUBSET Books!Due(author)
  BY <1>3, <1>7, <1>8, <1>9 DEF Books!Due
<1>11. CASE Charged(products)
  <2>1. /\ charged' = [p \in Posts |-> IF p \in products THEN charged[p] + 1 ELSE charged[p]]
        /\ \A p \in products : charged'[p] # 0
        /\ \A p \in Posts \ products : charged'[p] = charged[p]
    BY <1>0, <1>11 DEF Charged
  <2>2. Due' = Due \ products
    BY <1>1, <1>5, <1>6, <2>1 DEF Due
  <2>3. Failed' = Failed
    BY <1>4, <1>5, <1>6, <2>1 DEF Failed
  <2>4. Books!Pay(ps)
    BY <1>8, <2>1, <2>2, <2>3 DEF Books!Pay, Due, Failed
  <2>5. QED
    BY <1>10, <2>4 DEF Books!Next
<1>12. CASE ~ok /\ UNCHANGED charged
  <2>1. Due' = Due \ products
    BY <1>1, <1>5, <1>6, <1>12 DEF Due
  <2>2. Failed' = Failed \cup products
    BY <1>0, <1>4, <1>5, <1>6, <1>12 DEF Failed
  <2>3. Books!Fail(ps)
    BY <1>12, <1>8, <2>1, <2>2 DEF Books!Fail, Due, Failed
  <2>4. QED
    BY <1>10, <2>3 DEF Books!Next
<1>13. QED
  BY <1>2, <1>11, <1>12 DEF StripeCharge

LEMMA InsertLedger ==
    ASSUME OneAtATime, BooksInv, NEW d \in Dispatchers, DispatchInsert(d)
    PROVE  UNCHANGED <<Due, Failed, charged>>
<1>0. TypeOK /\ run[d].products \subseteq Posts
  BY DEF BooksInv, SettledInv, TypeOK, Run
<1>1. UNCHANGED <<post, charged>> /\ run[d].at = "insert"
  BY DEF DispatchInsert
<1>2. run'[d].at = "mark"
  BY <1>0, RunAfter
<1>3. /\ InFlightFailed = IF run[d].ok THEN {} ELSE run[d].products
      /\ InFlightFailed' = {}
  BY <1>0, <1>1, <1>2, InFlightIsRefused DEF Refused
<1>4. \A p : Retriable(p)' <=> Retriable(p) \/ (~run[d].ok /\ p \in run[d].products)
  BY <1>0, RetriableInserted
<1>5. \A p \in Posts : (Retriable(p) \/ p \in InFlightFailed)' <=> (Retriable(p) \/ p \in InFlightFailed)
  BY <1>3, <1>4
<1>6. Due' = Due /\ Failed' = Failed
  BY <1>1, <1>5 DEF Due, Failed
<1>7. QED
  BY <1>1, <1>6

LEMMA MarkLedger ==
    ASSUME OneAtATime, BooksInv, NEW d \in Dispatchers, DispatchMark(d)
    PROVE  UNCHANGED <<Due, Failed, charged>>
<1>0. TypeOK /\ run[d].products \subseteq Posts
  BY DEF BooksInv, SettledInv, TypeOK, Run
<1>1. UNCHANGED <<invoices, charged>> /\ run[d].at = "mark"
  BY DEF DispatchMark
<1>2. \A p \in run[d].products : Settled(p)
  BY <1>1 DEF BooksInv, SettledInv, DispatchesSettle
<1>3. PICK s \in run[d].todo : MarkPaid({p \in run[d].products : SiteOf[p] = s})
  BY <1>0, RunAfter
<1>4. \A p \in Posts \ run[d].products : post'[p] = post[p]
  BY <1>3 DEF MarkPaid
<1>5. run'[d].at # "insert"
  BY <1>0, RunAfter
<1>6. UNCHANGED InFlightFailed
  BY <1>1, <1>5, InFlightIsRefused DEF Refused
<1>7. QED
  BY <1>1, <1>2, <1>4, <1>6, SameBooks

LEMMA LedgerStep ==
    ASSUME OneAtATime, Undisturbed, BooksInv, [Next]_vars
    PROVE  Books!Next \/ UNCHANGED <<Due, Failed, charged>>
<1>0. TypeOK
  BY DEF BooksInv, SettledInv
<1>1. ASSUME NEW p \in Posts, Publish(p)
      PROVE  Books!Next
  BY <1>1, PublishLedger DEF Books!Next
<1>2. ASSUME NEW p \in Posts, Unpublish(p)
      PROVE  UNCHANGED <<Due, Failed, charged>>
  <2>1. \A q \in Posts : post'[q].payment = post[q].payment
    BY <1>0, <1>2 DEF Unpublish, TypeOK, PostRec
  <2>2. UNCHANGED <<charged, invoices, InFlightFailed>>
    BY <1>2 DEF Unpublish, InFlightFailed
  <2>3. QED
    BY <2>1, <2>2, SameBooks
<1>3. \A p \in Posts : ~SaveRead(p) /\ ~SaveWrite(p)
  BY DEF Undisturbed, SaveRead, SaveWrite, BooksInv
<1>4. ASSUME NEW d \in Dispatchers,
             Dispatch(d) \/ DispatchRead(d) \/ DispatchNumber(d) \/ DispatchCard(d)
      PROVE  UNCHANGED <<Due, Failed, charged>>
  <2>1. UNCHANGED <<post, charged, invoices>> /\ run[d].at # "insert"
    BY <1>4 DEF Dispatch, DispatchRead, DispatchNumber, DispatchCard
  <2>2. run'[d].at # "insert"
    BY <1>0, <1>4, RunAfter
  <2>3. UNCHANGED InFlightFailed
    BY <2>1, <2>2, InFlightIsRefused DEF Refused
  <2>4. QED
    BY <2>1, <2>3, SameBooks
<1>5. ASSUME NEW d \in Dispatchers, DispatchCharge(d)
      PROVE  Books!Next
  BY <1>5, ChargeLedger
<1>6. ASSUME NEW d \in Dispatchers, DispatchInsert(d) \/ DispatchMark(d)
      PROVE  UNCHANGED <<Due, Failed, charged>>
  BY <1>6, InsertLedger, MarkLedger
<1>7. ~\E d \in Dispatchers : DispatcherDies(d)
  BY DEF Undisturbed, DispatcherDies
<1>8. CASE UNCHANGED vars
  <2>1. UNCHANGED <<post, charged, invoices, InFlightFailed>>
    BY <1>8 DEF vars, InFlightFailed
  <2>2. QED
    BY <2>1, SameBooks
<1>9. QED
  BY <1>1, <1>2, <1>3, <1>4, <1>5, <1>6, <1>7, <1>8 DEF Next, DispatchStep, OneAtATime

\* Dispatches made one after the other implement the ledger: each article is charged for at most once, when
\* it is due, whatever Stripe refuses, whichever answers are lost and whoever has no card
\* (dispatchOne, lib/money.js:58).
THEOREM BooksAreKept == ASSUME OneAtATime, Undisturbed PROVE Spec => KeepsBooks
<1>1. BooksInv /\ [Next]_vars => BooksInv'
  BY BooksKept
<1>2. BooksInv /\ [Next]_vars => [Books!Next]_(Books!vars)
  BY LedgerStep DEF Books!vars, Due, Failed
<1>3. QED
  BY <1>1, <1>2, BooksInit, LedgerInit, PTL DEF Spec, KeepsBooks, Books!Spec
=============================================================================
