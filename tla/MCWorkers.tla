----------------------------- MODULE MCWorkers -----------------------------
(***************************************************************************)
(* Components of the web workers, and the memory they share, for TLC.      *)
(* They share no state here: part says which of them moves in a behaviour, *)
(* and the others stay where they are.                                     *)
(***************************************************************************)
EXTENDS Naturals, FiniteSets

CONSTANTS
    Tokens, MaxCrashes, Attempts, Threshold, Conns, MaxHits, Slots, Vars, Names, MaxJobs,
    Values, Garbled, MaxCalls,
    Workers, Found, Silent, Stubborn, Gone,
    Passwords, MaxRequests,
    Images, WorkerOf, Sizes, MaxClock

\* each of the things which are counted is finite, bounds are numbers, and a token and a name are there
ASSUME TokensAssumption == Tokens # {}
ASSUME CrashesAssumption == MaxCrashes \in Nat
ASSUME AttemptsAssumption == IsFiniteSet(Attempts)
ASSUME ThresholdAssumption == Threshold \in Nat \ {0}
ASSUME HitsAssumption == MaxHits \in Nat
ASSUME SlotsAssumption == IsFiniteSet(Slots)
ASSUME VarsAssumption == IsFiniteSet(Vars)
ASSUME NamesAssumption == Names # {}
ASSUME JobsAssumption == MaxJobs \in Nat
ASSUME ValuesAssumption == Values # {}
ASSUME CallsAssumption == MaxCalls \in Nat
ASSUME RequestsAssumption == MaxRequests \in Nat
ASSUME ImagesAssumption == IsFiniteSet(Images)
ASSUME ClockAssumption == MaxClock \in Nat
ASSUME PluginsAssumption == Silent \subseteq Found /\ Stubborn \subseteq Found /\ Found \intersect Gone = {}

\* each image is uploaded to a worker of its own
MCWorkerOf == CHOOSE f \in [Images -> Workers] : \A u, v \in Images : f[u] = f[v] => u = v

VARIABLES
    part,
    stored, sent, stage, token, boot,
    fails, step, num, record,
    memory, pc, hit, wire, log,
    at, req, heads, queue, ready,
    kind, left, index, response, assoc,
    account, code, names, acPc, acReq, acLog,
    cache, calls,
    active, registered, todo, jobs, served, plugPast,
    category, passwords, edits, vaultPast,
    clock, counter, up, files, sized, rows, deletion, upPast

Sess == INSTANCE Sessions WITH wire <- sent, pc <- stage
Lock == INSTANCE Padlock WITH memory <- fails, pc <- step
Tabs == INSTANCE Sockets
Http == INSTANCE Requests WITH pc <- at, boot <- ready
Live == INSTANCE Livevars
Acc == INSTANCE Accounts WITH pc <- acPc, req <- acReq, log <- acLog
Mem == INSTANCE SharedMemory WITH memory <- cache
Plug == INSTANCE Plugins WITH past <- plugPast
Vlt == INSTANCE Vault WITH requests <- edits, past <- vaultPast
Upl == INSTANCE Uploads WITH past <- upPast

Parts == {"sessions", "padlock", "sockets", "requests", "livevars", "accounts",
          "memory", "plugins", "vault", "uploads"}

sessions == <<stored, sent, stage, token, boot>>
padlock == <<fails, step, num, record>>
sockets == <<memory, pc, hit, wire, log>>
requests == <<at, req, heads, queue, ready>>
livevars == <<kind, left, index, response, assoc>>
accounts == <<account, code, names, acPc, acReq, acLog>>
sharedmemory == <<cache, calls>>
plugins == <<active, registered, todo, jobs, served, plugPast>>
vault == <<category, passwords, edits, vaultPast>>
uploads == <<clock, counter, up, files, sized, rows, deletion, upPast>>
access == <<sessions, padlock, accounts>>
clients == <<sockets, requests, livevars>>
stores == <<sharedmemory, plugins, vault, uploads>>

vars == <<part, access, clients, stores>>

TypeOK ==
    /\ part \in Parts
    /\ Sess!TypeOK /\ Lock!TypeOK /\ Tabs!TypeOK /\ Http!TypeOK /\ Live!TypeOK /\ Acc!TypeOK
    /\ Mem!TypeOK /\ Plug!TypeOK /\ Vlt!TypeOK /\ Upl!TypeOK

\* a component which does not move has one initial state
Init ==
    /\ part \in Parts
    /\ Sess!Init /\ Lock!Init /\ Tabs!Init /\ Http!Init /\ Live!Init /\ Acc!Init
    /\ Mem!Init /\ Plug!Init /\ Vlt!Init /\ Upl!Init
    /\ part # "livevars" => kind = [v \in Vars |-> "never"]
    /\ part # "plugins" => active = Gone

Next ==
    \/ part = "sessions" /\ Sess!Next /\ UNCHANGED <<part, padlock, accounts, clients, stores>>
    \/ part = "padlock" /\ Lock!Next /\ UNCHANGED <<part, sessions, accounts, clients, stores>>
    \/ part = "accounts" /\ Acc!Next /\ UNCHANGED <<part, sessions, padlock, clients, stores>>
    \/ part = "sockets" /\ Tabs!Next /\ UNCHANGED <<part, access, requests, livevars, stores>>
    \/ part = "requests" /\ Http!Next /\ UNCHANGED <<part, access, sockets, livevars, stores>>
    \/ part = "livevars" /\ Live!Next /\ UNCHANGED <<part, access, sockets, requests, stores>>
    \/ part = "memory" /\ Mem!Next /\ UNCHANGED <<part, access, clients, plugins, vault, uploads>>
    \/ part = "plugins" /\ Plug!Next /\ UNCHANGED <<part, access, clients, sharedmemory, vault, uploads>>
    \/ part = "vault" /\ Vlt!Next /\ UNCHANGED <<part, access, clients, sharedmemory, plugins, uploads>>
    \/ part = "uploads" /\ Upl!Next /\ UNCHANGED <<part, access, clients, sharedmemory, plugins, vault>>

Spec ==
    /\ Init /\ [][Next]_vars
    /\ WF_sockets(part = "sockets" /\ \E c \in Conns : Tabs!Serve(c))
    /\ WF_requests(part = "requests" /\ Http!HandleQueue)
    /\ WF_requests(part = "requests" /\ \E r \in Slots : Http!Step(r))
    /\ WF_livevars(part = "livevars" /\ Live!Next)
    /\ WF_sharedmemory(part = "memory" /\ Mem!Answer)
    /\ WF_plugins(part = "plugins" /\ \E w \in Workers : Plug!Boot(w))

-----------------------------------------------------------------------------
(* The properties of the components, stated where they are *)

\* lib/session.js: who holds a cookie is found, whatever crashes; a session logged out of is gone, or
\* on its way out; and when nothing is on its way the cache has what users hold
SessionsKept == Sess!SessionsFound /\ Sess!LoggedOutGone /\ Sess!CacheComplete

\* lib/notifications.js: a bound socket is on the user's list, and the time on a page is recorded once
TabsKept == Tabs!TabsListed /\ Tabs!RecordedOnce

\* pipeline: a request is handled once at most, and not after it was answered; handlers of the admin
\* interface need a session, but for the one of uploads, and so do live variables, which are answered
\* once, with all of them
RequestsHandled == Http!HandledOnce /\ Http!SessionAsked /\ Live!AnswerComplete

\* lib/padlock.js, lib/entities.js, lib/passwordrecovery.js, backend/login.js, lib/pwmanager.js: failures
\* are counted, and none made up; a password is changed, a code recovers it, and a link logs in, once; and
\* what is kept for others is in a category, and is what was last given
SecretsKept ==
    /\ Lock!NoFailureMadeUp /\ Lock!FailuresCounted
    /\ Acc!ChangedOnce /\ Acc!RecoveredOnce /\ Acc!LoggedInOnce
    /\ Vlt!NoOrphan /\ Vlt!LastGiven

\* lib/staffing.js, lib/entities.js: who has left has no account, and no two are invited under one name
AccountsKept == Acc!GoneRevoked /\ Acc!InvitedOnce

\* network/sharedmemory.js, lib/sharedcache.js: calls of all workers are linearizable, over crashes of the
\* server, but for characters which were cut on the way
MemoryLinearizable == Mem!Linearizable

\* pipeline/mediaupload.js, lib/media.js, lib/plugins.js: what workers keep on the disk and in their own
\* memory is what the collections say, unless two of them work on the same name or plugin
WorkersAgree ==
    /\ Upl!RowHasFiles /\ Upl!SizesDeleted /\ Upl!NoStrayFile
    /\ Plug!RegisteredIsActive /\ Plug!RegisteredOnce

\* lib/notifications.js, pipeline, network/sharedmemory.js, lib/plugins.js: a socket which leaves comes
\* off the list, what waits for the boot is handled, live variables and calls of the cache are answered,
\* and a worker boots to its end
Served ==
    /\ Tabs!TabsLeave /\ Http!QueueServed /\ Live!AnswerSent
    /\ Mem!CalledBack
    /\ part = "plugins" => Plug!BootEnds
=============================================================================
