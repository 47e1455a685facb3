# Lilium CMS in TLA+

Lilium is a content management system in Node.js. One gardener process forks a
shared memory server, a data server, a janitor (CAIJ) and a family of workers;
the workers serve all requests over MongoDB. Code is in callback style: a
handler is a chain of database round trips, and between two of them anything a
different handler does, in this worker or another, may happen. `lib/db.js` adds no
transaction and no unique index, so whatever must hold across two documents,
or across a read and a write, is up to the handlers. The dashboard is a Preact
application in the browser, whose requests overlap, overtake one another and fail.

This directory models the parts of Lilium where that matters most, checks them
with TLC on small instances, and proves nearly all safety invariants the runs
check, of publishing, payments, the process tree, workers, the back office, the
servers beside it and the dashboard, with TLAPS for every value of the constants.

- [What the system is made of](#inventory)
- [The modules](#modules) and how they correspond to the code
- [What the runs check](#runs), the bounds, the fairness assumed
- [Where the code and its promises differ](#findings)
- [What is proved](#proofs)
- [What is not modelled](#not-modelled)
- [Plan](#plan)

## Inventory

`PROJECT.json` lists every component with its sources, the modules which model it,
and what of it is left out. The four which decide about money, articles and
processes come first.

**Article publishing** (`lib/content.js`, `controllers/content.js`).
*State*: the content collection, the history of each article
(`contenthistory`), its latest autosave. *Operations*: new, save, auto, slug,
publish, submit, refuse, refresh, unpublish, destroy, one admin route each.
*Interacts with*: the payment status of a contractor's article is set by
`publish`; a publication generates the page. *Hard*: requests overlap, and
`update` writes back the whole document it read; the name is checked in one
round trip and written in a later one; the history entry is written after the
status, and a worker may die in between; an exception inside a callback leaves
the worker alive (`core.js` catches it) and the request without an answer.
*Correct when*: a published article can be addressed, decisions are in
the history, links once given out keep working, a request
alone is atomic and answered.

**Contractor payments** (`lib/money.js`, `controllers/contractorspayments.js`,
`lib/contractorspayments.js`). *State*: `paymentstatus` of articles on every
website, `contractorinvoices`, and what Stripe has charged. *Operations*:
dispatch (of a list of contractors, one after the other) and retry of a failed
invoice. *Interacts with*: publishing, credit cards, Stripe. *Hard*: reading
pending articles, charging, inserting the invoice and marking the articles are
separate round trips; articles are marked although the charge failed; charges
have no idempotency key and answers may be lost; a retry copies an invoice
under the same number; a missing card throws in the middle of a list.
*Correct when*: no contractor is forgotten, nobody is paid twice, everyone in
the list is served, numbers identify invoices and leave none out.

**Credit cards** (`lib/creditcards.js`, `controllers/creditcards.js`). *State*:
the `creditcards` collection. *Operations*: create, update, delete. *Interacts
with*: a dispatch takes the first default card of a currency. *Hard*: the other
defaults are reset in one round trip and the new one is stored in another.
*Correct when*: a currency has at most one default card.

**Gardener** (`gardener.js`, with `network/localcast.js`, `network/info.js`,
`network/spawn.js`). *State*: the pids it knows, exit events and messages not
handled yet. *Operations*: start, handle an exit, broadcast (a fatal message takes
everything down), update and restart, interrupt. *Interacts with*: every process;
`isElderChild` gives the worker of instance 0 the jobs only one process may do.
*Hard*: processes die at any time, the gardener handles deaths later and one
at a time, the exit handler is bound late, workers use the cache before it
listens. *Correct when*: an instance number has one process at a time and comes
back, nothing survives the gardener's exit, the cache does not stay lost.

What serves those who ask:

| Component | State | Operations | What is hard | Correct when |
|---|---|---|---|---|
| Shared memory (`network/sharedmemory.js`, `lib/sharedcache.js`) | key-values in the cache process | set, unset, get, one connection each | calls arrive in pieces, some throw in the server, it may die | calls are linearizable, and called back unless they or the server failed |
| Sessions (`lib/session.js`) | a session in the cache, the database, the cookie | log in, find, log out, preload | two copies, and writes to the cache nobody waits for | who holds a cookie is found; after a log-out no copy comes back |
| Login and padlock (`backend/login.js`, `lib/padlock.js`) | failed attempts, in the cache | attempt, count, lock, expire | a get and a set | failures are counted, none made up |
| Password recovery, entities, staffing (`lib/passwordrecovery.js`, `lib/entities.js`, `lib/staffing.js`) | passwords, links, codes, names, accounts | change, recover, log in by a link, invite, revoke, restore, terminate | compare, remove and write in round trips of their own | a secret is used once; who has left has no account |
| Password manager (`lib/pwmanager.js`) | categories, passwords | create, update, remove | a category is removed before its passwords | none is left in no category |
| Notifications (`lib/notifications.js`) | sockets of tabs, pages they are on | connect, visit, leave | several workers, one list | a bound socket is on the list; a page is recorded once |
| HTTP pipeline (`pipeline/*.js`) | requests of a worker, the queue before its boot | route, find a session, read the body, dispatch, live variables | a handler which answers twice or never; a queue whose loop breaks | handled once; all live variables in one answer |
| Plugins and core boot (`lib/plugins.js`, `core.js`) | what is registered, in each worker; what is active, in the database | register, unregister, boot | one which never calls back; overlapping requests | registered once, and what is active is |
| Media uploads (`pipeline/mediaupload.js`, `lib/imageResizer.js`, `lib/media.js`) | files, rows | upload, resize, delete | names made by several workers; the row comes last | a row has its files, a file has its row |

What runs beside the requests, and in the browser:

| Component | State | Operations | What is hard | Correct when |
|---|---|---|---|---|
| CAIJ (`caij/*.js`) | queue of tasks, loops, timers, the task in progress | push, take, answer, catch an error, message | a task which throws, throws late, or never calls back | one loop; a queued task runs |
| Data server (`dataserver/*.js`) | sessions in its memory, tokens, visitors, favourites in the database | introduce, log out, erase, favour, preload | writes nobody waits for, and a restart | who has a token stays in; who was erased is gone |
| Hooks (`lib/hooks.js`) | bound callbacks by priority | bind, fire, fireAsync | priorities taken; an asynchronous chain | in the order of priorities, each once |
| Scheduler (`lib/scheduler.js`) | jobs | schedule, run, remove | weekdays and times which have passed; months of different lengths; timers too wide | on time, no moment missed |
| Templates (`lml/lml.js`, `lml/compiler.js`, `pipeline/filelogic.js`) | stacks of conditions and loops | run a block | skipping counts what is opened; loops jump back | written as nested |
| Badges (`lib/badges.js`) | decorations | event | count, look up, write | the level which was earned |
| Editor of the dashboard (`pages/publishing/edit.js`, `widgets/texteditor.js`) | what is on the screen, edits kept aside | type, leave the text, save, publish, open another | an answer forgets edits it did not save | what was typed is saved, and in its own article |
| Widgets (`widgets/biglist.js`, `widgets/form.js`) | a list, a field, a picker of topics | scroll, filter, change, click | answers which overtake one another or never come | shown as stored |
| Editions (`lib/editions.js`) | editions and the articles in them | merge, replace, move | articles rewritten one by one from a cursor | none is left under an edition which is gone |
| Content chains (`lib/contentchains.js`), cakepops (`controllers/cakepop.js`), ponglinks (`lib/ponglinks.js`), styled pages (`lib/styledpages.js`) | a collection each, with a copy in the cache, on the disk or in the browser | edit, publish, read, respond | copies which are written in another order | copies agree once it is quiet |

Not modelled as components: the database wrapper (its calls are the atomic steps of
everybody else), analytics and metrics.

`PROJECT.json` lists under `hazards` what is hard to test, at the line where it
bites, with the properties which watch it. Also seen, and kept here:
`saveSession` updates the database and not the cache (`lib/session.js:182`);
a website which opted out of Google Analytics never calls the janitor back
(`lib/analytics.js:584`; `Janitor` has it, as `OptedOut`); `queueMaxSize` is never looked at
(`caij/ai.js:13`); `storeHot` reads the shared memory module of its own process
(`caij/executor.js:167`); the url of a slug edit is built of the name before it
(`lib/content.js:570`); an autosave inserted after `publish` removed them outlives
the publication (`lib/content.js:701`); the generated page is deleted only under
`fulltopic`, which is never set (`lib/content.js:943`); `countOcc` counts one too
many (`lib/content.js:317`); a worth changed between the total and the payment
(`lib/contractorspayments.js:61`); a card's default set without number and cvc
(`lib/creditcards.js:88`); a broadcast to a worker which is dying
(`gardener.js:252`); two links made in one millisecond (`lib/ponglinks.js:11`), and
`done` called twice (`lib/ponglinks.js:79`); an asynchronous hook which calls back twice or
never (`lib/hooks.js:117`, which `Hooks` checks).

## Modules

| Module | What it models |
|---|---|
| `Articles` | An article, and the pure functions from one version of it to the next |
| `Publishing` | The publishing handlers, one action a round trip, in several slots |
| `ContentStore` | What publishing promises an editor who works alone |
| `Payments` | Dispatches and retries, with the articles they pay for |
| `Ledger` | What paying contractors amounts to |
| `CreditCards` | Cards and the defaults of their currencies |
| `Gardener` | The process tree |
| `Sessions`, `Padlock`, `Sockets`, `Requests`, `Livevars`, `Accounts`, `SharedMemory`, `Plugins`, `Vault`, `Uploads` | Workers, and the memory they share; composed by `MCWorkers` |
| `Janitor`, `Visitors`, `Hooks`, `Schedule`, `Badges`, `Templates`, `LmlCompiler`, `LmlInterpreter`, `BigList`, `Autosave`, `TopicPicker`, `Chains`, `Cakepops` | What runs beside requests, and the dashboard; composed by `MCMachinery` |
| `Editor`, `Editions`, `Pages`, `Ponglinks`, with `CreditCards` | What the staff does; composed by `MCOffice` |
| `MCPublishing`, `MCPayments` | The first of these, on small sets |
| `PublishingProofs`, `PaymentsProofs`, `GardenerProofs`, `OfficeProofs` | Theorems about these modules, and their proofs |
| `WorkersProofs` | The theorems about `MCWorkers` |
| `MachineryProofs`, `DashboardProofs` | The theorems about `MCMachinery`: its services, and the pages and widgets of the dashboard; the second also has the template engines and the types of all twelve |

`map` in `PROJECT.json` names the lines each definition is translated from. A
definition whose comment says that it is a mutant is what a plausible bug would make of the
one it is named after; no specification uses it.

### Articles and Publishing

`posts`, `history` and `autosave` are the three collections. An article keeps the
fields handlers decide on (`status`, `name`, `url`, `aliases`, `edition`, whether
it has a `date`), and `text` stands for title, subtitle, content and media.
What a validation tells apart is whether a text is one of `Incomplete`. A url is
a record of the two segments it is made of; the code's `undefined` segment is
`None`. `aliases` also collects undefined names and, in `refreshURL`, whole urls;
no look-up of a slug finds those, so they are left out.

A *slot* is a request in flight. `pc` says which round trip comes next, `req`
what was asked, `snap` what the handler has read. `Begin` is the arrival of a
request up to its first round trip, `Goto` and `Read` a callback which issues
another, `Answer` one which answers the client, and `Throw` one which throws:
the worker survives, the request does not. `WorkerDies` takes the slot at any
point; `lost` remembers history entries the handler still owed.

| Action(s) | Code |
|---|---|
| `Create` | `create` |
| `SaveRead`, `SaveHistory`, `SaveWrite` | `update`, which reads the article, pushes the diff to the history and sets the whole merged document |
| `SlugExists`, `SlugRead`, `SlugWrite`, `SlugHistory` | `editSlug` and `pushHistoryEntryFromDiff`; equal names make `diff` return undefined, and the callback throws |
| `PublishRead` ... `PublishGenerate` | `publish`: `validate`, the `$set`, removal of autosaves, history, `generate` |
| `StatusWrite`, `StatusHistory` | `sendForReview`, `refuseSubmission`, `unpublish`, `destroy` |
| `RefreshRead` ... `RefreshGenerate` | the route `refresh`: `refreshURL`, then `generate` |
| `AutosaveRead`, `AutosaveInsert` | `autosave` |

Users are those who pass the author-or-editor checks; one who does not is
answered at once and changes nothing.

`ContentStore` has one variable, the collection, and one atomic step an
operation, with the guards the handlers evaluate on what they read. The detailed
specification maps to it by the identity on `posts`: each handler writes the
article once, and that write is the abstract step; all other steps stutter.
`pub_serial` checks this with one slot, and `PublishingProofs` proves it. With two slots it is
false: `pub_destroyed` shows one thing which is lost.

### Payments, Ledger, CreditCards

`post` is the status and payment status of each article, `saving` an article
which `update` of `lib/content.js` has read and will write back whole,
`invoices` the collection in order of insertion, `charged` how often Stripe has
charged for an article. A dispatch in `run[d]` is a chain

    read (a website at a time) - number - card - charge - insert - mark (a website at a time)

repeated for each contractor of its list, as `dispatchOne` is by
`dispatchPending`; `hung` is what is left when there is no card and the
callback throws. A retry in `retry[r]` is charge - insert - resolve. `StripeCharge`
is Stripe as the code sees it: a charge with its answer, a refusal, or, as a
mishap, a charge whose answer is lost and which the code takes for a refusal.
`Mishaps` selects what else may happen, so that a run can say which of them it
is about. `isBeingPaid` is not in the model: `dispatchPending` sets it by `x._id`,
which its payload does not have, and so it is never set.

`Ledger` says that published articles become due once, and that a payment, or a
failed payment, settles some due articles of one contractor. The mapping takes
for *due* what is pending, not charged, and on no failed invoice, and for
*failed* what is not charged and on an open failed invoice (or about to be, the
invoice being inserted after Stripe's refusal). The charge is the abstract
payment.

`CreditCards` has the requests of managers, one action a round trip. `form.reset` is
the currency whose defaults will be reset, which in `updateCreditCard` is the one the stored card has, where the form may give it another. `Managers` is who is served at the
same time. `past` remembers requests in whose currency another default was stored after their
reset (`crossed`), and currencies in which such a request, or one which reset another currency,
stored a default (`spoilt`), until they are reset again.

### Gardener

`procs` is every process ever forked (index = pid). A process is `booting`
(shared memory only: whether the others are ready makes no difference to
the gardener), `up`, `doomed` by a SIGKILL, or `dead`. A death puts the pid into
`exits`, a message goes into `inbox`, and the gardener handles them one at a
time, in any order. `garden`, `caij`, `shared`, `data` are the gardener's own
variables of these names. `OpenRedis` is the callback which forks CAIJ and the
workers and binds the exit handler: deaths before it are `LoseExit`. `CaijExit`,
`WorkerExit` and `StrangerExit` are the three branches of the handler.
`CacheFails` is `getUDS` of a worker: a connection the shared memory server does
not accept is a fatal message. The model takes CAIJ as configured and the
websites as set up. The PM2 manager of the same file hands all of this to PM2 and is
left out.

### Components which run beside one another

The modules of the three composites share conventions. `Slots` are requests in
flight, `pc` and `req` (or a record each in `flight` or `requests`) say how far each is and
what it has read; `wire` is what was sent without waiting; a crash, a cut or a
restart of a process empties what was only in its memory. Each module keeps a
record `past` or `log`: its counters bound what is asked for (`MaxEdits`, `MaxCalls`, ...),
and its flags remember what happened which a property excuses: that requests on one
thing overlapped, that an answer was lost, that a process died between two steps.
Properties read the rest as: unless this happened, all is well. The excuses are
what the code does not defend against, as TLC found it: none was added but for a violation, and each is kept
as narrow as the violations allow (an overlap on the same password, a merge with an
edition which was moved meanwhile). So these properties do not say that the hazard they
are listed under never bites: they say that it bites in no other way than the one excused, and
[what is excused](#excuses) is listed below.

| Module | State and actions |
|---|---|
| `Sessions` | `stored` is the collection, the cache, and what users hold; `wire` what is on its way to the cache, in any order. `Login`, `InjectCache` and `InjectFind` (a request finds its session), `Logout` with `AfterInject`, `RemoveCache`, `RemoveDb`; `Crash` and `Load` are the elder worker's preload |
| `Padlock` | The count in the cache; an attempt checks the lock, is refused, gets the count, sets it, locks; `Expire` |
| `Sockets` | A connection's life in `pc`, visits in `hit`; `Add`, `HitGet`, `Record`, `HitSet`, `Close`, `LeaveGet`, and the removals nobody waits for |
| `Requests` | A request's way in `pc`; what it is like (method, path, session, body) is chosen when the code first looks; the upload of an image is under `/admin`, and handled without a session; `HandleQueue` is the loop of `inbound.js` over what waited for the boot |
| `Livevars` | `index` counts callbacks; each variable calls back once, twice, later, not at all, or is not registered |
| `Accounts` | One account's password, magic link and recovery code, and names of new ones; `log` counts what each secret was good for |
| `SharedMemory` | Calls in the order they were made, each with its state and those which had ended before it; requests, and answers (`heard`), may be garbled where a piece ends, each side decoding piece by piece; `Linearizable` looks for an order of them which explains the answers |
| `Plugins` | `registered` of each worker over one `active` collection; boots, requests, which look for a plugin before they register it and may look twice at once, and plugins which never call back, or cannot be unregistered |
| `Vault` | A category and its passwords, under creations, updates and removals of two round trips |
| `Uploads` | Names from a clock and a counter of each worker; bytes, sizes, row; a deletion file by file, then the row |
| `Janitor` | `loop` counts timers and tasks in progress by how they end: they answer, throw, answer and throw late, or forget their callback |
| `Visitors` | `sessions` in memory, `rows`, `keys` and `favs` in the database; `loading` what `preload` has joined and not put into memory yet; `Introduce` is Facebook's way in and Google's, which may be refused once a token was stored (`Refuse`) |
| `Hooks` | `asked` and `given` priorities; `index` of `fireAsync`, and how often each hook called back |
| `Schedule` | A calendar of a few ticks a day, days a week, and months of two lengths; `Later` is `getTimeUntilRun`, `Width` what `setTimeout` can take |
| `Badges` | `checks` are events between count, look-up and write |
| `Templates`, `LmlCompiler`, `LmlInterpreter` | A template is dealt block by block, and then run; `written` counts how often each block was written, which the reference definition in `Templates` computes from the nesting |
| `BigList`, `Autosave`, `TopicPicker` | A widget's own state, requests in the order they were sent, answered in any |
| `Chains`, `Cakepops` | The document, the page of the dashboard, and what other users do meanwhile; a page of a chain has several objects, for the one an answer changes may not be the one shown |
| `Editor` | `edits` kept aside, the text editor with its old value, articles which were asked for, with what the server read of them (`loads`: `Open`, `Fetched`, `Loaded`), requests which carry edits and may be refused or lost |
| `Editions` | Editions by level, each article's editions; a merge is a cursor over the articles, one write each |
| `Pages` | Files of paths with the version in them, and whether they are whole; visits and saves step by step |
| `Ponglinks` | Versions with hashes in the database, the cache, and the pages of users, who send all of them |

A composite conjoins its components over disjoint variables. They share no state in
the code either, but for collections each of them owns, so a product of their interleavings would
show nothing: `part`, chosen in the initial state, says which of them moves, the others
stay in one initial state. Its properties are conjunctions of properties of the
components, which are stated, each with its comment, where the component is.

## Runs

| Run | Checks | Instance | States |
|---|---|---|---|
| `pub_concurrent` | `TypeOK`, `PublishedAddressable`, `StatusExplained` | 2 overlapping requests, 1 paginated article, 2 texts; save, slug, publish, destroy; workers die | 1.3 M |
| `pub_serial` | `HangsOnlyOnPages`, `LinksKept`, `AtomicStore`, `RequestsAnswered` | 1 request at a time, all nine operations, workers do not die | 261 k |
| `pub_destroyed` | `DestroyedIsFinal` is violated | a save and a destruction | |
| `pay_settled` | `TypeOK`, `PaidIsSettled`, `NumbersWithoutGaps` | 1 dispatch, 2 retries, every mishap, 4 requests | 665 k |
| `pay_books` | `NumbersUnique`, `KeepsBooks`, `EveryoneServed` | 1 dispatch at a time, 2 contractors, 2 websites, 3 articles; no card, lost answers | 31 k |
| `pay_twice` | `ChargesPendingOnly` is violated | 2 dispatches | |
| `pay_retry` | `NumbersPaidOnce` is violated | retries one after the other | |
| `gard_tree` | `TypeOK`, `InstancesUnique`, `NoOrphans`, `InstancesReturn`, `CacheReturns` | 2 workers, 2 mishaps, 1 restart, slow cache | 144 k |
| `gard_restart` | `RestartGoesOn` is violated | 2 workers, 1 restart, nothing goes wrong | |
| `workers` | `TypeOK`, `SessionsKept`, `TabsKept`, `RequestsHandled`, `SecretsKept`, `AccountsKept`, `MemoryLinearizable`, `WorkersAgree`, `Served` | 2 sessions and 1 crash; 4 attempts at a threshold of 2; 2 tabs and 3 visits; 2 requests; 3 live variables; 3 jobs on an account; 3 calls of the cache; 2 workers and 3 plugins; 4 edits of passwords; 2 uploads | 825 k |
| `machinery` | `TypeOK`, `ServersKept`, `RunWhenDue`, `WrittenAsNested`, `DashboardKept`, `Ends` | 3 tasks and 1 stray exception; 1 visitor with 2 requests, 2 tokens and 1 restart; 4 hooks, 2 of them asynchronous; 9 days of weeks of 3 and months of 4 and 3; 3 badge events; all templates of 6 (LML2) and 7 (LML) blocks; 5 requests of a list; 3 changes and 2 cuts; 5 clicks; 3 edits of a chain and 1 by others; 2 cakepops | 844 k |
| `office` | `OfficeTypeOK`, `OneDefault`, `EditsKept`, `EditionsKept`, `PagesKept`, `VersionsKept`, `Ends` | 2 articles, 2 texts, 2 saves and 1 opening in the editor; 3 editions of 2 levels and 2 merges; 2 slugs and 2 visits; 2 users and 2 edits of a link; 2 cards, 2 currencies, 2 managers | 989 k |

`PROJECT.json` names, for each property of a passing run, a mutant of the code
which breaks it; for the composite properties there is one in most of the
components, so that their conjuncts are seen to be violated one by one.

**What the properties mean.**
*PublishedAddressable*: no overlap of saves, slug edits, publications and
destructions leaves a published article without name, url or date. This is less
than obvious, for a save may write the status `published` back over an article
which has become something else meanwhile; it holds because a save carries the
other fields along. *StatusExplained*: a status has its history entry, or a
handler which will write it, or died before it could. *LinksKept*: whichever
way the slug changes, what led to the article still does. *HangsOnlyOnPages*: one
request at a time, callbacks throw for articles of several pages only, because
a slug which is taken, the article's own included, is refused before it can
reach the throwing `diff`; with one page, nothing hangs. *PaidIsSettled*: whatever
is marked as paid was charged for, or a failed invoice which can be retried
names it: nobody is forgotten, whatever overlaps and whoever dies. *NumbersWithoutGaps*: numbers
collide where dispatches overlap and retries copy, and a worker may die with one; still none is left out, for
the next is taken from the last invoice inserted. *KeepsBooks*: with one
dispatch at a time, an article is paid, or fails, once for each time it became due, also when
Stripe's answer is lost. *EveryoneServed*:
a dispatch reaches everyone in its list, unless it hangs for want of a
card. *OneDefault*: managers at a time, and cards which are moved to another currency, may give a
currency two defaults; it has two in these two ways only, and one again after its next reset.
*InstancesUnique*: there is one elder child at most. *NoOrphans*: whatever the
gardener forked, and forked again after deaths and restarts, is killed when it
exits. *InstancesReturn* and *CacheReturns*: the family comes back, or everything
goes down; it never runs on without a worker or a cache.

The composite properties, with the ones they are made of:

- *SessionsKept*: `SessionsFound`, who holds a cookie is found, whatever crashes;
  `LoggedOutGone`, no copy comes back after a log-out, although a request which
  found the session in the database may put it into the cache later (that request
  is the excuse); `CacheComplete`.
- *TabsKept*: `TabsListed`, `RecordedOnce`. *RequestsHandled*: `HandledOnce`,
  `SessionAsked` (what runs without a session is an API, the upload of an image, or a GET or POST
  outside of the admin interface), `AnswerComplete`. *Served* is what must happen: `TabsLeave`,
  `QueueServed`, `AnswerSent`, `CalledBack`, `BootEnds`.
- *SecretsKept*: `FailuresCounted` and `NoFailureMadeUp` of the padlock, `ChangedOnce`,
  `RecoveredOnce`, `LoggedInOnce` (a secret is good once, unless two requests with it raced), and
  `NoOrphan`, `LastGiven` of the password manager. *AccountsKept*: `GoneRevoked`, `InvitedOnce`.
- *MemoryLinearizable*: `Linearizable` over all calls, those in pieces and garbled, on the way there
  or back, and those cut by the death of the server included.
- *WorkersAgree*: `RowHasFiles`, `SizesDeleted`, `NoStrayFile` of uploads, `RegisteredIsActive`,
  `RegisteredOnce` of plugins: one is registered over itself only if it was asked for while the same worker
  looked for it.
- *ServersKept*: `LoopsCounted`, the janitor has one loop, one more for each exception of no
  task; `JobsKnown`; `StaysIn` and `ErasedGone` of the data server's visitors.
- *RunWhenDue*: `LaterRunsFirst`, `ChainInOrder`, `RunsOnTime`, `NoneMissed` (against the set of
  all moments which fit, so not the algorithm once more), `NoneUnearned`, `LevelIsEarned`.
- *WrittenAsNested*: both engines write each block as often as its nesting says, for
  every small template, but for an `else` in a branch which is nested in a skipped one, and, in LML,
  a block opened after a loop in the same branch: these come out wrong.
- *DashboardKept*: `ListOfFilter`, `OneFilter`, `ShownAsStored`, `LastIsStored`, `StagedIsPicked`,
  `SlidesArePath`, `LockedIsEnd`, `ShownIsStored`, `LiveIsComplete`, `AddedIsThere`, `GoneIsRead`, `OneAtATime`.
- *EditsKept*: what was typed is stored or still kept, `OwnArticle`, `LiveAsShown`, unless requests overlap:
  a page asks for its article again whenever it is given props, and shows what was read before a save although it
  was saved meanwhile. *EditionsKept*:
  `NoneLeftBehind`, `LevelsKept`. *PagesKept*: `ServedWhole`, `FileIsPage`. *VersionsKept*:
  `HashesUnique`, `HashesKept`, `Redirected`.
- *Ends* is what must happen in each composite: queues drain, chains of hooks are done, templates
  end, spinners go; text reaches the database, merges end.

**Bounds.** Overlaps of two handlers exhaust the pairs of round trips; a third
handler adds nothing to the invariants of publishing and payments, whose proofs are for any
number. Three articles are needed where two contractors and two websites meet. `MaxRequests`
bounds what managers ask for (4: a dispatch, its failed invoice, and retries of
the invoice and of its copy), `MaxMishaps` and `MaxRestarts` the gardener's bad luck (2:
a process and its successor die, or a death meets a restart or an interrupt).
In the composites two requests on one thing overlap and a third follows; padlocks need more
attempts than the threshold to count past it, templates three levels of nesting,
and the calendar a turn of its longest cycle. One article is opened from the page of another, or again
(`MaxOpened`); with two the editor alone has the same properties.
All are guards of the modules, named in the `.cfg` files. Symmetry is declared for
slots, articles and retries only where no liveness property is checked.

<a id="excuses"></a>**What is excused.** These cases break what a reader might expect, the code does not
prevent them, and the property named lets them pass, so no run and no theorem watches them:

- `SessionsKept`: what the cache has of sessions which were logged out of, once a crash has made requests look into
  the database: one which found a session there may put it into the cache later. `TabsKept`: the time on a page, when
  the tab goes on or closes while the cache is still asked about the page before.
- `RequestsHandled`: the body after a file of a type which is not supported, which is handled although it was answered;
  the variable which called back twice and stands for another. `Served`: a queue broken by a request which was answered
  while it waited, variables which throw or never call back, plugins which never do.
- `SecretsKept`: failures of attempts which overlap, where two count as one; a code or a link used by two requests at a
  time, a link after the death of a worker; the name, not the secret, of a password given while a new secret was on its
  way; a password created after its category was removed. `AccountsKept`: a worker dead between the two updates of a
  termination, an account restored; two invitations under one name at a time, or with blanks around it.
- `WorkersAgree`: plugins on which requests crossed, or which another worker was asked about, and two requests at a time
  to register one; images of one name made by two workers, uploads aborted or dead half way.
- `ServersKept`: the loop which an exception of no task adds; a visitor whose requests crossed, as one who is erased
  while he logs in.
- `RunWhenDue`: badges of overlapping checks; weekly jobs on their day, monthly ones whose moment is further than a timer
  takes. `WrittenAsNested`: the two nestings said above.
- `DashboardKept`: answers which overtake one another, are lost or refused, and clicks and changes while one is in flight.
- `OneDefault`: the two ways said above. `EditsKept`: typing or saving while a save is in flight, an article read before
  a save which it does not have, one which takes the place of another while there are edits.
- `EditionsKept`, `PagesKept`, `VersionsKept`: what is left behind by overlapping merges, the file after a save which
  overlapped another request, redirects after overlapping edits.
- `Ends`: tasks which forget to call back; texts for which no save is left of `MaxSaves`.

**Deadlock.** The payment runs stop when no request is left, the gardener
when it has exited, and the components of the composites when their bounds are
used up: `CHECK_DEADLOCK FALSE` is said for these only.

**Fairness.** Weak fairness of a handler's next step says that MongoDB (and
Stripe) answer and that Node runs the callback; arrivals, deaths, cuts, and mishaps
are never fair. In `Gardener` it says that redis opens, the gardener handles
the events it has, a killed process dies, the shared memory server gets to listen,
and that a cache which is gone is noticed, since workers read and write it with
every session and while they boot. Of the workers, fair are the steps of a
socket the server answers, the loop over the queue, a request's own steps, the
timeouts of live variables, the server's answers, and the boot; of the machinery, the
janitor's timer and the end of its task, a hook which calls back, the timeouts of
the engines, and answers to a list; of the office, that the text editor is left, that
requests are served and pages load, and the cursor of a merge. Users' clicks are not fair,
except `Blur`: text typed and never left is not sent, and `TextSaved` is about text which is left.

## Findings

Where the code contradicts what it, or its interface, says, with a run:

- `pub_destroyed`: a save in flight revives a destroyed article, `update` writing
  the status it read (`lib/content.js:659`).
- `pay_twice`: `isBeingPaid` is never set, so a second dispatch reads the same
  pending articles before the first has marked them (`lib/money.js:110`).
- `pay_retry`: a retry which fails leaves the invoice and its copy both open;
  after one is paid the other can still be paid (`lib/money.js:196`).
- `gard_restart`: in `updateAndRestart` the shared memory and data servers are killed, and
  their exits are fatal to the gardener (`gardener.js:208`).

Seen while modelling, and modelled as the code has it:

- Two slug edits to one name both succeed (`lib/content.js:563`): the name is looked
  up two round trips before it is written.
- An update resets the defaults of the currency a card is leaving, so a moved card can be
  a second default (`lib/creditcards.js:76`).
- An uncaught exception of anything but the janitor's task starts another loop (`caij/ai.js:179`).
- A favourite's `_id` is the article's, so an article is the favourite of one visitor, and anyone's
  removal removes it (`dataserver/handlers.js:212`, `:228`); a token logged out of stays in the
  database, and works again after a restart (`:136`, `:416`).
- The topic picker tells its form of a directory, and a reset does not tell it (`widgets/form.js:583`, `:698`).
- A plugin deactivated is deactivated in the worker which was asked only (`lib/plugins.js:118`); one which
  cannot be unregistered never calls back.
- `rem` and `setRole` of the shared cache never read the answer, so their callbacks are never called;
  `get` of a list is stringified twice.

Not modelled, and seen on the way: a batch of articles is never answered
(`lib/content.js:451`); a chain is generated by a callback which throws when it has no
image; the original of an upload is never deleted; a livevar of the password manager is
registered as 'admiin'; comments and preferences of the data server use variables which
do not exist, and its caches of slugs and pages are never refreshed (`dataserver/handlers.js:44`, `:157`).

## Proofs

Proved for every value of the constants which satisfies the assumptions the
modules name, so for any number of requests in flight, articles, contractors,
websites, cards, workers, tokens, tabs, uploads, visitors, topics. The assumptions
say no more than what the sets and bounds are: the requests, attempts
and images of which the runs count some are finite sets, bounds are natural
numbers, a threshold is positive, a set something is taken from is not empty, an
article of the editor is no text, an identifier is not `None`, a plugin which is silent
or stubborn is one found on the disk and none of those which are gone; the levels of a badge rise;
a week has more than one day and is, but for a tick, no longer than the longest delay of a timer (a
week, and 24.8 days, in the code), and a run has a week; a list has at least the items of a batch but one,
and lists and pickers ask at least once.
What a theorem needs beyond that is under *Given*:

| Theorem | Says | Given |
|---|---|---|
| `PublishingProofs!TypeCorrect` | `Spec => []TypeOK` | |
| `PublishingProofs!PublishedAreAddressable` | `Spec => []PublishedAddressable` | |
| `PublishingProofs!StatusesAreExplained` | `Spec => []StatusExplained` | |
| `PublishingProofs!HangsOnPages` | `Spec => []HangsOnlyOnPages` | one slot |
| `PublishingProofs!LinksAreKept` | `Spec => LinksKept` | one slot |
| `PublishingProofs!StoreImplemented` | `Spec => AtomicStore` | one slot |
| `PaymentsProofs!TypeCorrect` | `Spec => []TypeOK` | |
| `PaymentsProofs!PaidArticlesAreSettled` | `Spec => []PaidIsSettled` | |
| `PaymentsProofs!NumbersHaveNoGaps` | `Spec => []NumbersWithoutGaps` | |
| `PaymentsProofs!BooksAreKept` | `Spec => KeepsBooks` | one dispatcher, no retries; no republication, save or crash |
| `OfficeProofs!CardsTyped` | cards and requests keep their types | |
| `OfficeProofs!OneDefaultACurrency` | `Spec => []OneDefault` | |
| `GardenerProofs!TreeTyped` | `Spec => []TypeOK` | |
| `GardenerProofs!OneProcessANumber` | `Spec => []InstancesUnique` | |
| `GardenerProofs!NothingLeft` | `Spec => []NoOrphans` | |
| `WorkersProofs!TypesAreKept` | `Spec => []TypeOK`, of all eleven components | |
| `WorkersProofs!SessionsAreKept` | `Spec => []SessionsKept` | |
| `WorkersProofs!TabsAreKept` | `Spec => []TabsKept` | |
| `WorkersProofs!RequestsAreHandled` | `Spec => []RequestsHandled` | |
| `WorkersProofs!SecretsAreKept` | `Spec => []SecretsKept` | |
| `WorkersProofs!AccountsAreKept` | `Spec => []AccountsKept` | |
| `WorkersProofs!MemoryIsLinearizable` | `Spec => []MemoryLinearizable` | |
| `WorkersProofs!WorkersAlwaysAgree` | `Spec => []WorkersAgree` | |
| `OfficeProofs!PagesAreKept` | `OfficeSpec => []PagesKept` | |
| `OfficeProofs!EditionsAreKept` | `OfficeSpec => []EditionsKept` | |
| `OfficeProofs!EditsAreKept` | `OfficeSpec => []EditsKept` | |
| `OfficeProofs!VersionsAreKept` | `OfficeSpec => []VersionsKept` | |
| `OfficeProofs!TypesOfTheOffice` | `OfficeSpec => []OfficeTypeOK`, of all five components | |
| `MachineryProofs!ServersAreKept` | `Spec => []ServersKept` | |
| `DashboardProofs!DashboardIsKept` | `Spec => []DashboardKept` | |
| `MachineryProofs!ServicesRunWhenDue` | `Spec => []RunWhenDue` | |
| `DashboardProofs!TypesOfTheMachinery` | `Spec => []TypeOK`, of all twelve components | |

*PublishedAddressable* is not inductive: `SaveWrite` stores what the handler
read, about which it says nothing. `AddressableInv` adds `SnapshotsAddressable`: a save in
flight which has read a published article has read an addressable one, and a
publication in flight has a name to store. *StatusExplained* needs the same of the status a
save will write back: `ExplainedInv` adds `SnapshotsExplained`. The key
lemmas say that what explains a status is never taken away: a history only
grows, an entry owed is written or lost with its worker.

*StoreImplemented* rests on one fact: with one slot, what its handler has read is the
article as it stands, whenever it is about to write. From this the write of
each handler is the step of `ContentStore` on the article stored, all other steps leave
`posts` alone, and a name or alias which leads to an article is kept by each of
these steps. Workers may die meanwhile.

*PaidIsSettled* needs four more facts, together `SettledInv`: a save in flight
writes back nothing unsettled (`SavesSettled`); a dispatch which was answered
well has charged, and by the time it marks articles its invoice settles them
(`DispatchesSettle`); a retry which was answered well has charged
(`RetriesSettle`); and an invoice which is valid or resolved is of articles
which were charged for (`ClosedIsCharged`). The last is why closing an invoice
forgets nobody. The lemmas `InsertKeeps` and `ChargeKeeps` say that appending an invoice
and charging never unsettle an article.

*NumbersWithoutGaps* needs to know of the numbers in flight: `GaplessInv` adds that the number a dispatch
carries is the first or follows that of an invoice there is (`NumbersTakenFollow`). Invoices are only appended, so
what it follows stays, and a retry copies the number of an invoice which follows already. *KeepsBooks* is a
refinement: `BooksInv` says that an article which is not payable was never
charged for nor invoiced, that one which is pending was charged for, or is on an invoice, only if
the dispatch in progress has it among its products, and that products
not charged for yet are due in the ledger. Each step then maps to *Due*, to a payment (the charge), to a
failed payment (the refusal, or the answer lost), or to a stutter; for the insertion and the marking this is
the invariant's work.

*OneDefault* needs `Underway`: a request about to store a default, whose currency it has reset, finds no other
default there unless the currency is spoilt or the request was crossed. The strengthening of the
gardener's invariants says that an exit is of a dead process, that what the garden has are workers
with a number each, that a worker which is not dead is in the garden, and that whatever
runs is known: in the garden, CAIJ, one of the servers, or killed. Unique numbers
follow from the garden, and at the exit all which is known is killed.

*The composites.* `MCWorkers`, `MCOffice` and `MCMachinery` move one component in a
behaviour, the others stay. Each component has an inductive invariant, a lemma for
each of its actions, and a lemma that a step of another component leaves it; the
theorems put these together. Many of the properties have an excuse (*unless requests
overlap*, *unless a worker died*), which the invariants must carry: they say what
holds while requests are alone, and that one which is in flight then is the only one.
TLC checked each of them on the instances of the runs before it was proved.

`WorkersInv` consists of, with what each rests on:

- `SessInv`: who is up is known to the cache or the database (`SessBooks`, `SessUp`), and
  a token in flight is one which was given out.
- `LockInv`: the counter of failures is the failures since it was reset, up to what the
  attempt in flight has read and not yet written (`LockAlone`), as long as attempts do not overlap.
- `AccInv`: a code, a link and an invitation serve once, because what was done and
  what is still owed are together never more than was asked for (`AccCounted`, an induction over
  counters and cardinalities); who is gone has no account once the request that
  removes it has passed (`AccGone`).
- `VltInv`: an edit which is half done names the other half, unless edits crossed.
- `TabsInv`: a visit is recorded by the tab whose page it is, and `memory` knows the
  page until it is (`TabsAlone`).
- `HttpInv`: a handler has run at most once and what waits for the boot has not (`HttpQueued`).
- `LiveInv`: the index is the number of variables which have called back, with those which did so twice
  counted twice (`LiveCounts`), so that it reaches their number with all of them or with one counted twice.
- `PluInv`: what a worker has registered is what is active but for the plugins its jobs are at
  and those it has still to find at boot.
- `UplInv`: for each round trip of an upload or deletion, which files and rows there are of
  its name (`RowFine`, `FilesFine`), when no other upload has the name.
- `MemInv` and `MemOrdered`: there is an order of calls, of all which were served and of some which died, which
  explains every answer and leaves the memory as it is (`Explains`, `Leaves`), and a call which was made
  after others were called back is not before them. A call which is served is put last. A crash is put last
  too, and empties the memory; of the calls which come back without having been served, those which change the
  memory are put before it, where nobody reads it any more, and those which read after it. `Replay` of an order
  is the only function which explains it, by the smallest number at which another would differ.

For `MCOffice`, `PageWhole` and `PageFresh` say that half a file is there only while it is
written, and that whoever writes it while saves are alone has the page as it is;
`EdMoved` that what a move has not filed anew is in the groups it knows, `EdMerged` that the edition
which takes over is of the level, `EdAlone` that what is still filed under an edition which is
gone will be rewritten; `TextOwn` that no request carries text of another article,
`TextKept` that what is typed is in the edits or in the one request which carries them and that an article which was
read is still what is stored, both as long as nothing overlaps, and
`TextLive` that the screen shows what is stored once that is answered. Versions of a link are numbered
in the order of their list, so `LinkNumbers` says which prefix of each list, on a page, in a request and in the
database, has hashes already, that no two of these are the same, and that they are low enough for the others to find
room; `LinkTop` that the highest hash handed out is that of a version, so that new ones are new; `LinkAlone` that a
request which is alone sends to the cache what is stored. What numbers a list is a recursive function, about
which a smallest counterexample says what an induction would. `PageBounds` counts the saves which have still to
update: the version of a page is never beyond the saves which have.

For `MCMachinery`, `JanInv` counts loops: cooldowns and tasks in progress are one more than the
exceptions which belong to no task. `VisMade` says that a token was made for whom it is of;
`VisCalm` that a visitor whose requests never crossed has one request at a time (`VisAlone`), and that
his only session is that of his row, which is kept while he has one (`VisKept`). `ListAnswered`
says of each request of a list in flight what the list will be once it is answered;
`FieldAlone` that what is being saved is the value there is, `FieldLast` that the last of what waits is the
last change; `PickOrdered` and `PickPath` which answer of the topic picker belongs to which click, and that what
is open is a path down the tree; `ChainShown` what a page of a chain will show after its request, `ChainComplete` that
one which is live, or has been read to be, has all it takes; `CakeCalm` that, as long as no answer is clicked twice, the one request in flight is of the
first pop, and that none of the others has been read.
`HookGiven` says that every priority from the one a hook asked for to the one it was given is taken, and
`HookChained` that of a chain which calls back once only the last hook started has still to.
`SchedInv` says of a job's timer that it is for a moment of the job (`SchedTimer`), or for at once when there
is no time to wait, and that no moment before it was missed (`SchedNone`). It rests on what `Later` computes for
each kind of job (`DailyLater` to `MonthlyLater`): a moment which fits and is to come, with none in between;
these rest on lemmas about the calendar, which are induction over numbers by way of the smallest
counterexample (`Smallest`), and uniqueness of quotients and remainders (`OneWay`).
The types of the machinery have bounds on counters and on sequences, which `AllBounds` explains by what was counted
before: requests in flight by those sent (`ListBounds`, `PickBounds`, `FieldBounds`), started hooks by the calls and
stops of their chain (`HookBounds`), a timer by the last day and the widest interval of a job (`SchedBounds`). For the engines it takes an
invariant of the stack. `Nest2` says that the loops LML2 has open begin one after the other, each at a block
before the current one, with no more rounds than it was given, and that skipping counts fewer openings than were passed.
`Stacked` says the same of LML but for the top, which alone may be over, count what is skipped, or be at the block that
opened it, and then only while `looping` is set. So no stack is deeper than the template is long, for templates
of any length; how often a block is written they do not say.
`BadgeAlone` says that as long as checks of badges never overlap, what the one in flight has found is still there
when it writes.

The modules which `MCMachinery` instantiates take little of the community
modules: a proof step carries every definition of every instance.

Only model-checked:

- All liveness (`RequestsAnswered`, `EveryoneServed`, `InstancesReturn`, `Served`, `Ends`), which is out of the prover's reach.
- `WrittenAsNested`: how often a block is written is compared with its depth and the blocks around it, which
  takes induction over how a template is nested.

The theorem about `KeepsBooks` covers articles which are unpublished, cards which are
missing and answers which are lost.
## Not modelled

Left out of the components which are modelled, because nothing the properties tell apart
depends on it: amounts and currencies of payments, e-mails and reports, encryption,
what is rendered into generated files, preview keys, action statistics of users, the Stripe
OAuth callback, the change of an article's worth, the first set-up of the server, rights and
roles, which URL is whose.
MongoDB's operations on one document are atomic steps, reads see the latest
write, and round trips answer without error: a failing database is fatal to the
worker, and the deaths of workers stand for it. Ordinary broadcasts
between processes change no state of the gardener.

The map covers about a ninth of the repository's lines. Most of the rest keeps no
state two actors could disagree on: pages of the dashboard which draw a list or a form
from one request and send one back (most of `apps/lilium/pages`), importers and
exporters, the statics of the old back end (`backend/static`, partly third-party), reports and
queries of analytics and metrics, mail templates, formatters, the translation of LML3
templates to JavaScript, the configuration of a server. A model of these would restate
them line by line.

## Plan

Done: 1. `Articles`, `Publishing`, `ContentStore` and their proofs; 2. `Payments`,
`Ledger`, `CreditCards` and their proofs; 3. `Gardener` and its proofs; 4. `Janitor` and
what runs beside it; 5. the shared memory and what relies on it; 6. the pipeline; 7. hooks, the
scheduler and the template engines; 8. the back office and the dashboard.

What could be added:

9. Composition: `Publishing` with `Payments`, where both read and write the payment
   status; `Gardener` with `Janitor`, whose queue dies with its process; `Sessions` over
   `SharedMemory` instead of over a cache which answers at once.
10. Comments and threads of the data server, once they answer.
11. Theorems: that the template engines write each block as often as its nesting says (`WrittenAsNested`),
   by a nesting which is a function of the place, not of the prefix.
12. A request for an article which is lost, after which the page of the editor only shows that it loads.
