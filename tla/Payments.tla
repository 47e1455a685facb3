------------------------------ MODULE Payments ------------------------------
(***************************************************************************)
(* Paying contractors: lib/money.js, as controllers/contractorspayments.js *)
(* drives it, over the paymentstatus which lib/content.js keeps.           *)
(*                                                                         *)
(* A dispatch serves the contractors of its payload one after the other:   *)
(* it reads their pending articles site by site, takes the next invoice    *)
(* number, finds a card, has Stripe charge it, inserts the invoice and     *)
(* marks the articles site by site.  A retry charges a failed invoice      *)
(* again.  Dispatches, retries, publications and saves run in different    *)
(* workers, so their round trips interleave.                               *)
(***************************************************************************)
EXTENDS Naturals, Sequences

CONSTANTS
    Posts,        \* articles of contractors, on all websites
    Contractors,
    AuthorOf,     \* contractor who wrote each article
    Sites,        \* websites of the network
    SiteOf,       \* website of each article
    Dispatchers,  \* dispatches running at the same time
    Retriers,     \* retries running at the same time
    Payloads,     \* sequences of contractors a manager asks to pay
    MaxRequests,  \* bound on the dispatches and retries managers ask for
    Mishaps       \* what else may happen

AllMishaps == {"republish",   \* an article is published again
               "save",        \* a save in flight writes back a whole article
               "unpublish",
               "no card",     \* no default card for the currency
               "lost answer", \* Stripe charges, and its answer is lost
               "crash"}       \* a worker process dies

ASSUME PaymentsAssumption ==
    /\ AuthorOf \in [Posts -> Contractors]
    /\ SiteOf \in [Posts -> Sites]
    /\ Sites # {}
    /\ Payloads \subseteq Seq(Contractors) \ {<<>>}
    /\ MaxRequests \in Nat
    /\ Mishaps \subseteq AllMishaps

VARIABLES
    post,      \* publication and payment status of each article
    saving,    \* article as a save in flight read it
    invoices,  \* the contractorinvoices collection, in order of insertion
    charged,   \* how often Stripe has charged a card for each article
    run,       \* dispatches in progress
    retry,     \* retries in progress
    left       \* requests managers may still make

vars == <<post, saving, invoices, charged, run, retry, left>>

-----------------------------------------------------------------------------
(* Types *)

PostRec == [published : BOOLEAN, payment : {"none", "pending", "paid"}]

Unpublished == [published |-> FALSE, payment |-> "none"]

Invoice == [number : Nat, products : SUBSET Posts, valid : BOOLEAN, resolved : BOOLEAN]

Run == [at       : {"idle", "read", "number", "card", "charge", "insert", "mark", "hung"},
        queue    : Seq(Contractors),  \* whom to pay, the one being served first
        todo     : SUBSET Sites,      \* websites not yet read, or not yet marked
        products : SUBSET Posts,
        number   : Nat,
        ok       : BOOLEAN]           \* Stripe answered without an error

NoRun == [at |-> "idle", queue |-> <<>>, todo |-> {}, products |-> {}, number |-> 0,
          ok |-> FALSE]

Retry == [at : {"idle", "charge", "insert", "resolve"}, original : Nat, ok : BOOLEAN]

NoRetry == [at |-> "idle", original |-> 0, ok |-> FALSE]

TypeOK ==
    /\ post \in [Posts -> PostRec]
    /\ saving \in [Posts -> SUBSET PostRec]
    /\ invoices \in Seq(Invoice)
    /\ charged \in [Posts -> Nat]
    /\ run \in [Dispatchers -> Run]
    /\ retry \in [Retriers -> Retry]
    /\ left \in 0..MaxRequests
    /\ \A d \in Dispatchers : run[d].at \notin {"idle", "hung"} => run[d].queue # <<>>
    /\ \A r \in Retriers : retry[r].at # "idle" => retry[r].original \in DOMAIN invoices

Init ==
    /\ post = [p \in Posts |-> Unpublished]
    /\ saving = [p \in Posts |-> {}]
    /\ invoices = <<>>
    /\ charged = [p \in Posts |-> 0]
    /\ run = [d \in Dispatchers |-> NoRun]
    /\ retry = [r \in Retriers |-> NoRetry]
    /\ left = MaxRequests

-----------------------------------------------------------------------------
(* Articles: lib/content.js *)

\* publish() of a contractor's article, whatever its payment status was
Publish(p) ==
    /\ "republish" \in Mishaps \/ post[p].payment = "none"
    /\ post' = [post EXCEPT ![p] = [published |-> TRUE, payment |-> "pending"]]
    /\ UNCHANGED <<saving, invoices, charged, run, retry, left>>

Unpublish(p) ==
    /\ "unpublish" \in Mishaps
    /\ post[p].published
    /\ post' = [post EXCEPT ![p].published = FALSE]
    /\ UNCHANGED <<saving, invoices, charged, run, retry, left>>

\* update() reads the article, and later writes it back, payment status included
SaveRead(p) ==
    /\ "save" \in Mishaps
    /\ saving[p] = {}
    /\ saving' = [saving EXCEPT ![p] = {post[p]}]
    /\ UNCHANGED <<post, invoices, charged, run, retry, left>>

SaveWrite(p) ==
    /\ \E read \in saving[p] : post' = [post EXCEPT ![p] = read]
    /\ saving' = [saving EXCEPT ![p] = {}]
    /\ UNCHANGED <<invoices, charged, run, retry, left>>

-----------------------------------------------------------------------------
(* Stripe *)

Charged(products) ==
    charged' = [p \in Posts |-> IF p \in products THEN charged[p] + 1 ELSE charged[p]]

\* charges.create() has no idempotency key; ok is what its callback is told
StripeCharge(products, ok) ==
    \/ ok /\ Charged(products)
    \/ ~ok /\ UNCHANGED charged
    \/ ~ok /\ "lost answer" \in Mishaps /\ Charged(products)

-----------------------------------------------------------------------------
(* POST generate: dispatchPending(), and dispatchOne() of each contractor *)

\* the first contractor of the queue is served
Serve(d, queue) ==
    run' = [run EXCEPT ![d] = [NoRun EXCEPT !.at = "read", !.queue = queue, !.todo = Sites]]

\* the client is answered before anything else happens; isBeingPaid is set by an
\* _id the payload does not have, and so is never set
Dispatch(d) ==
    /\ run[d].at \in {"idle", "hung"}
    /\ left > 0
    /\ left' = left - 1
    /\ \E payload \in Payloads : Serve(d, payload)
    /\ UNCHANGED <<post, saving, invoices, charged, retry>>

\* A mutant of Pending: the payment status is not looked at.
PendingAny(c, s) ==
    {p \in Posts : SiteOf[p] = s /\ AuthorOf[p] = c /\ post[p].published}

\* what networkJoin finds on website s
Pending(c, s) ==
    {p \in Posts : /\ SiteOf[p] = s /\ AuthorOf[p] = c
                   /\ post[p].published /\ post[p].payment = "pending"}

DispatchRead(d) ==
    /\ run[d].at = "read"
    /\ \E s \in run[d].todo :
          run' = [run EXCEPT
                    ![d].products = @ \cup Pending(Head(run[d].queue), s),
                    ![d].todo = @ \ {s},
                    ![d].at = IF run[d].todo = {s} THEN "number" ELSE "read"]
    /\ UNCHANGED <<post, saving, invoices, charged, retry, left>>

\* A mutant of NextNumber: the oldest invoice is looked up, not the latest.
NextNumberOldest ==
    IF invoices = <<>> THEN 100000 ELSE invoices[1].number + 1

\* A mutant of NextNumber: the invoices are counted, copies made by retries too.
NextNumberCount == 100000 + Len(invoices)

NextNumber ==
    IF invoices = <<>> THEN 100000 ELSE invoices[Len(invoices)].number + 1

DispatchNumber(d) ==
    /\ run[d].at = "number"
    /\ run' = [run EXCEPT ![d].at = "card", ![d].number = NextNumber]
    /\ UNCHANGED <<post, saving, invoices, charged, retry, left>>

\* without a card the callback throws: who is left in the payload is not paid
DispatchCard(d) ==
    /\ run[d].at = "card"
    /\ \/ run' = [run EXCEPT ![d].at = "charge"]
       \/ "no card" \in Mishaps /\ run' = [run EXCEPT ![d] = [NoRun EXCEPT !.at = "hung"]]
    /\ UNCHANGED <<post, saving, invoices, charged, retry, left>>

DispatchCharge(d) ==
    /\ run[d].at = "charge"
    /\ \E ok \in BOOLEAN :
          /\ StripeCharge(run[d].products, ok)
          /\ run' = [run EXCEPT ![d].at = "insert", ![d].ok = ok]
    /\ UNCHANGED <<post, saving, invoices, retry, left>>

\* A mutant of DispatchInsert: only an invoice which was paid is kept.
DispatchInsertValid(d) ==
    /\ run[d].at = "insert"
    /\ invoices' = IF run[d].ok
                   THEN Append(invoices, [number   |-> run[d].number,
                                          products |-> run[d].products,
                                          valid    |-> TRUE,
                                          resolved |-> FALSE])
                   ELSE invoices
    /\ run' = [run EXCEPT ![d].at = "mark", ![d].todo = Sites]
    /\ UNCHANGED <<post, saving, charged, retry, left>>

DispatchInsert(d) ==
    /\ run[d].at = "insert"
    /\ invoices' = Append(invoices, [number   |-> run[d].number,
                                     products |-> run[d].products,
                                     valid    |-> run[d].ok,
                                     resolved |-> FALSE])
    /\ run' = [run EXCEPT ![d].at = "mark", ![d].todo = Sites]
    /\ UNCHANGED <<post, saving, charged, retry, left>>

MarkPaid(products) ==
    post' = [p \in Posts |-> IF p \in products THEN [post[p] EXCEPT !.payment = "paid"]
                                               ELSE post[p]]

\* Mutants of DispatchMark: the callback of the whole payload is called at once; the
\* end of the payload is missed.
DispatchMarkPast(d) ==
    /\ run[d].at = "mark"
    /\ \E s \in run[d].todo :
          /\ MarkPaid({p \in run[d].products : SiteOf[p] = s})
          /\ IF run[d].todo # {s} THEN run' = [run EXCEPT ![d].todo = @ \ {s}]
                                  ELSE Serve(d, Tail(run[d].queue))
    /\ UNCHANGED <<saving, invoices, charged, retry, left>>

DispatchMarkOne(d) ==
    /\ run[d].at = "mark"
    /\ \E s \in run[d].todo :
          /\ MarkPaid({p \in run[d].products : SiteOf[p] = s})
          /\ IF run[d].todo # {s} THEN run' = [run EXCEPT ![d].todo = @ \ {s}]
                                  ELSE run' = [run EXCEPT ![d] = NoRun]
    /\ UNCHANGED <<saving, invoices, charged, retry, left>>

\* handleSite(): articles become paid whether the charge went through or not; the
\* last website calls back for the next contractor
DispatchMark(d) ==
    /\ run[d].at = "mark"
    /\ \E s \in run[d].todo :
          /\ MarkPaid({p \in run[d].products : SiteOf[p] = s})
          /\ IF run[d].todo # {s}       THEN run' = [run EXCEPT ![d].todo = @ \ {s}]
             ELSE IF Len(run[d].queue) > 1 THEN Serve(d, Tail(run[d].queue))
             ELSE                            run' = [run EXCEPT ![d] = NoRun]
    /\ UNCHANGED <<saving, invoices, charged, retry, left>>

-----------------------------------------------------------------------------
(* POST retry: retryFailedTransaction() *)

\* the invoice is looked up by number; with none to retry the client is told, and
\* nothing changes
RetryFind(r) ==
    /\ retry[r].at = "idle"
    /\ left > 0
    /\ left' = left - 1
    /\ \E i \in DOMAIN invoices :
          /\ ~invoices[i].valid /\ ~invoices[i].resolved
          /\ retry' = [retry EXCEPT ![r] = [at |-> "charge", original |-> i, ok |-> FALSE]]
    /\ UNCHANGED <<post, saving, invoices, charged, run>>

RetryCharge(r) ==
    /\ retry[r].at = "charge"
    /\ \E ok \in BOOLEAN :
          /\ StripeCharge(invoices[retry[r].original].products, ok)
          /\ retry' = [retry EXCEPT ![r].at = "insert", ![r].ok = ok]
    /\ UNCHANGED <<post, saving, invoices, run, left>>

\* the copy keeps the number, and the resolved it was read with
RetryInsert(r) ==
    /\ retry[r].at = "insert"
    /\ invoices' = Append(invoices, [invoices[retry[r].original] EXCEPT
                                        !.valid = retry[r].ok, !.resolved = FALSE])
    /\ retry' = [retry EXCEPT ![r].at = "resolve"]
    /\ UNCHANGED <<post, saving, charged, run, left>>

RetryResolve(r) ==
    /\ retry[r].at = "resolve"
    /\ invoices' = [invoices EXCEPT ![retry[r].original].resolved = retry[r].ok]
    /\ retry' = [retry EXCEPT ![r] = NoRetry]
    /\ UNCHANGED <<post, saving, charged, run, left>>

-----------------------------------------------------------------------------
(* A worker dies with the dispatch or the retry it runs *)

DispatcherDies(d) ==
    /\ "crash" \in Mishaps
    /\ run[d].at \notin {"idle", "hung"}
    /\ run' = [run EXCEPT ![d] = NoRun]
    /\ UNCHANGED <<post, saving, invoices, charged, retry, left>>

RetrierDies(r) ==
    /\ "crash" \in Mishaps
    /\ retry[r].at # "idle"
    /\ retry' = [retry EXCEPT ![r] = NoRetry]
    /\ UNCHANGED <<post, saving, invoices, charged, run, left>>

-----------------------------------------------------------------------------

DispatchStep(d) ==
    \/ DispatchRead(d) \/ DispatchNumber(d) \/ DispatchCard(d) \/ DispatchCharge(d)
    \/ DispatchInsert(d) \/ DispatchMark(d)

RetryStep(r) == RetryCharge(r) \/ RetryInsert(r) \/ RetryResolve(r)

Next ==
    \/ \E p \in Posts : Publish(p) \/ Unpublish(p) \/ SaveRead(p) \/ SaveWrite(p)
    \/ \E d \in Dispatchers : Dispatch(d) \/ DispatchStep(d) \/ DispatcherDies(d)
    \/ \E r \in Retriers : RetryFind(r) \/ RetryStep(r) \/ RetrierDies(r)

Spec == Init /\ [][Next]_vars

\* Node runs the callback of a finished round trip; MongoDB and Stripe answer
FairSpec ==
    /\ Spec
    /\ \A d \in Dispatchers : WF_vars(DispatchStep(d))
    /\ \A r \in Retriers : WF_vars(RetryStep(r))

-----------------------------------------------------------------------------
(* Properties *)

\* a failed invoice for the article is there to be retried
Retriable(p) ==
    \E i \in DOMAIN invoices :
        ~invoices[i].valid /\ ~invoices[i].resolved /\ p \in invoices[i].products

Settled(p) == charged[p] > 0 \/ Retriable(p)

\* No contractor is forgotten: an article marked as paid, and so left out of the
\* dispatches to come, has been charged for, or a failed invoice names it and can be
\* retried (dispatchOne marks articles of failed charges, lib/money.js:110).
PaidIsSettled == \A p \in Posts : post[p].payment = "paid" => Settled(p)

\* what is in flight settles what it marks
SavesSettled == \A p \in Posts : \A read \in saving[p] : read.payment = "paid" => Settled(p)

DispatchesSettle ==
    \A d \in Dispatchers :
        /\ run[d].at = "insert" /\ run[d].ok => \A p \in run[d].products : charged[p] > 0
        /\ run[d].at = "mark" => \A p \in run[d].products : Settled(p)

RetriesSettle ==
    \A r \in Retriers :
        retry[r].at \in {"insert", "resolve"} /\ retry[r].ok =>
            \A p \in invoices[retry[r].original].products : charged[p] > 0

ClosedIsCharged ==
    \A i \in DOMAIN invoices : invoices[i].valid \/ invoices[i].resolved =>
        \A p \in invoices[i].products : charged[p] > 0

\* the inductive invariant PaidIsSettled follows from
SettledInv ==
    /\ TypeOK /\ PaidIsSettled
    /\ SavesSettled /\ DispatchesSettle /\ RetriesSettle /\ ClosedIsCharged

\* A number is charged with success once: retries of what has been paid are refused,
\* "Invoice was either not found or was already resolved." (lib/money.js:173).
NumbersPaidOnce ==
    \A i, j \in DOMAIN invoices :
        invoices[i].valid /\ invoices[j].valid /\ invoices[i].number = invoices[j].number
            => i = j

Follows(number, i) ==
    number = 100000 \/ \E j \in DOMAIN invoices : j < i /\ invoices[j].number = number - 1

\* The books skip no number: an invoice has the first one or that which follows the
\* number of an earlier invoice, although a number is taken long before its invoice is
\* inserted, dispatches which overlap take the same, retries insert copies, and
\* workers die with the number they took (lib/money.js:67).
NumbersWithoutGaps == \A i \in DOMAIN invoices : Follows(invoices[i].number, i)

\* Each dispatch has a number of its own.
NumbersUnique ==
    \A i, j \in DOMAIN invoices : invoices[i].number = invoices[j].number => i = j

\* A dispatch charges for articles which are pending: "Request pending articles"
\* (lib/money.js:61).
ChargesPendingOnly ==
    [][\A d \in Dispatchers :
         (run[d].at = "charge" /\ run'[d].at = "insert") =>
             \A p \in run[d].products : post[p].payment = "pending"]_vars

\* Whoever is in the payload is served: his pending articles are dealt with, or the
\* dispatch hangs for want of a card.
EveryoneServed ==
    \A d \in Dispatchers, p \in Posts :
        (/\ \E i \in DOMAIN run[d].queue : run[d].queue[i] = AuthorOf[p]
         /\ run[d].at = "read" /\ run[d].todo = Sites
         /\ post[p] = [published |-> TRUE, payment |-> "pending"])
            ~> (post[p].payment = "paid" \/ run[d].at = "hung")

\* articles of a charge Stripe refused, whose invoice is not inserted yet
InFlightFailed == {p \in Posts : \E d \in Dispatchers :
                      run[d].at = "insert" /\ ~run[d].ok /\ p \in run[d].products}

Books == INSTANCE Ledger WITH
    due <- {p \in Posts : /\ post[p].payment = "pending" /\ charged[p] = 0
                          /\ ~Retriable(p) /\ p \notin InFlightFailed},
    failed <- {p \in Posts : charged[p] = 0 /\ (Retriable(p) \/ p \in InFlightFailed)}

\* One dispatch at a time keeps the books: each article is charged for at most once,
\* when it is due (dispatchOne, lib/money.js:58).
KeepsBooks == Books!Spec
=============================================================================
