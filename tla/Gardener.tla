------------------------------ MODULE Gardener ------------------------------
(***************************************************************************)
(* The process tree: gardener.js forks the shared memory server, the data  *)
(* server, CAIJ and the workers, forks CAIJ and workers again when they    *)
(* die, and takes everything down on a fatal error (GardenerCluster, the   *)
(* process manager index.prod.js selects).                                 *)
(*                                                                         *)
(* CAIJ is configured, as the first set-up does                            *)
(* (includes/initialserver.js); the websites have been set up; test mode   *)
(* is left out.                                                            *)
(***************************************************************************)
EXTENDS Naturals, Sequences

CONSTANTS
    FamilySize,   \* number of workers
    MaxMishaps,   \* bound on deaths, fatal errors and interrupts
    MaxRestarts,  \* bound on the restarts developers ask for
    SlowStart     \* whether a process may need the cache before it listens

ASSUME GardenerAssumption ==
    /\ FamilySize \in Nat \ {0}
    /\ MaxMishaps \in Nat
    /\ MaxRestarts \in Nat
    /\ SlowStart \in BOOLEAN

VARIABLES
    master,     \* the gardener itself
    procs,      \* every process it has forked; the index stands for the pid
    garden,     \* pids of the workers it knows
    caij,       \* pid of CAIJ, 0 before the first fork
    shared,     \* pid of the shared memory server
    data,       \* pid of the data server
    exits,      \* pids whose exit event the gardener has not handled
    inbox,      \* messages of workers and CAIJ it has not handled
    mishaps,    \* mishaps still to come
    restarts    \* restarts still to be asked for

vars == <<master, procs, garden, caij, shared, data, exits, inbox, mishaps, restarts>>

-----------------------------------------------------------------------------
(* Types *)

InstanceNums == 0 .. FamilySize - 1

NoNum == FamilySize  \* instancenum of a process which is not a worker

\* a doomed process has been sent a SIGKILL
Process == [role  : {"worker", "caij", "shared", "data"},
            num   : 0 .. FamilySize,
            state : {"booting", "up", "doomed", "dead"}]

Pids == DOMAIN procs

TypeOK ==
    /\ master \in {"starting", "running", "exited"}
    /\ procs \in Seq(Process)
    /\ garden \subseteq Pids
    /\ caij \in Pids \cup {0}
    /\ shared \in Pids /\ data \in Pids
    /\ exits \subseteq Pids
    /\ inbox \subseteq {"fatal", "updateAndRestart"}
    /\ mishaps \in 0 .. MaxMishaps
    /\ restarts \in 0 .. MaxRestarts

\* when the others are ready makes no difference to the gardener
Fork(role, num) ==
    [role |-> role, num |-> num, state |-> IF role = "shared" THEN "booting" ELSE "up"]

Running(p) == procs[p].state \in {"booting", "up"}

\* start(), up to the opening of redis
Init ==
    /\ master = "starting"
    /\ procs = <<Fork("shared", NoNum), Fork("data", NoNum)>>
    /\ garden = {}
    /\ caij = 0 /\ shared = 1 /\ data = 2
    /\ exits = {} /\ inbox = {}
    /\ mishaps = MaxMishaps
    /\ restarts = MaxRestarts

-----------------------------------------------------------------------------
(* Helpers *)

\* the processes after a SIGKILL to those of pids which still run
Killed(pids) ==
    [p \in Pids |-> IF p \in pids /\ Running(p)
                    THEN [procs[p] EXCEPT !.state = "doomed"] ELSE procs[p]]

\* onExit(): everything the gardener has a variable for is killed; what it had still to
\* handle is gone
OnExit ==
    /\ master' = "exited"
    /\ exits' = {} /\ inbox' = {}
    /\ procs' = Killed(garden \cup {caij, shared, data})
    /\ UNCHANGED <<garden, caij, shared, data>>

-----------------------------------------------------------------------------
(* The gardener *)

\* the callback of redisserver.open()
OpenRedis ==
    /\ master = "starting"
    /\ master' = "running"
    /\ procs' = procs \o <<Fork("caij", NoNum)>>
                      \o [i \in 1 .. FamilySize |-> Fork("worker", i - 1)]
    /\ caij' = Len(procs) + 1
    /\ garden' = Len(procs) + 2 .. Len(procs) + 1 + FamilySize
    /\ UNCHANGED <<shared, data, exits, inbox, mishaps, restarts>>

\* cluster.on('exit') is called in OpenRedis: exits before it are not heard of
LoseExit(p) ==
    /\ master = "starting"
    /\ p \in exits
    /\ exits' = exits \ {p}
    /\ UNCHANGED <<master, procs, garden, caij, shared, data, inbox, mishaps, restarts>>

CaijExit(p) ==
    /\ master = "running"
    /\ p \in exits /\ p = caij
    /\ exits' = exits \ {p}
    /\ procs' = Append(procs, Fork("caij", NoNum))
    /\ caij' = Len(procs) + 1
    /\ UNCHANGED <<master, garden, shared, data, inbox, mishaps, restarts>>

\* Mutants of WorkerExit: workers are numbered as they are forked (bootCount); the
\* number of the dead worker is not passed on; the new worker is not added to the
\* garden; no worker is forked.
WorkerExitCounted(p) ==
    /\ master = "running"
    /\ p \in exits /\ p \in garden
    /\ exits' = exits \ {p}
    /\ procs' = Append(procs, Fork("worker", Len(procs) - 3))
    /\ garden' = (garden \ {p}) \cup {Len(procs) + 1}
    /\ UNCHANGED <<master, caij, shared, data, inbox, mishaps, restarts>>

WorkerExitElder(p) ==
    /\ master = "running"
    /\ p \in exits /\ p \in garden
    /\ exits' = exits \ {p}
    /\ procs' = Append(procs, Fork("worker", 0))
    /\ garden' = (garden \ {p}) \cup {Len(procs) + 1}
    /\ UNCHANGED <<master, caij, shared, data, inbox, mishaps, restarts>>

WorkerExitUnplanted(p) ==
    /\ master = "running"
    /\ p \in exits /\ p \in garden
    /\ exits' = exits \ {p}
    /\ procs' = Append(procs, Fork("worker", procs[p].num))
    /\ garden' = garden \ {p}
    /\ UNCHANGED <<master, caij, shared, data, inbox, mishaps, restarts>>

WorkerExitOnly(p) ==
    /\ master = "running"
    /\ p \in exits /\ p \in garden
    /\ exits' = exits \ {p}
    /\ garden' = garden \ {p}
    /\ UNCHANGED <<master, procs, caij, shared, data, inbox, mishaps, restarts>>

\* the new worker inherits instancenum and log name
WorkerExit(p) ==
    /\ master = "running"
    /\ p \in exits /\ p \in garden
    /\ exits' = exits \ {p}
    /\ procs' = Append(procs, Fork("worker", procs[p].num))
    /\ garden' = (garden \ {p}) \cup {Len(procs) + 1}
    /\ UNCHANGED <<master, caij, shared, data, inbox, mishaps, restarts>>

\* "A worker died before instance it could be added to garden. This is a fatal error":
\* the servers of the cache and of the data are in no garden
StrangerExit(p) ==
    /\ master = "running"
    /\ p \in exits /\ p # caij /\ p \notin garden
    /\ OnExit
    /\ UNCHANGED <<mishaps, restarts>>

\* updateAndRestart(), by a message of the developers' tools
UpdateAndRestart ==
    /\ master = "running"
    /\ "updateAndRestart" \in inbox
    /\ inbox' = inbox \ {"updateAndRestart"}
    /\ procs' = Killed(garden \cup {caij, shared, data})
                    \o <<Fork("shared", NoNum), Fork("data", NoNum)>>
    /\ shared' = Len(procs) + 1
    /\ data' = Len(procs) + 2
    /\ UNCHANGED <<master, garden, caij, exits, mishaps, restarts>>

\* A mutant of HandleFatal: a fatal message is broadcast like any other.
HandleFatalCast ==
    /\ master = "running"
    /\ "fatal" \in inbox
    /\ inbox' = inbox \ {"fatal"}
    /\ UNCHANGED <<master, procs, garden, caij, shared, data, exits, mishaps, restarts>>

\* broadcast() of a fatal message
HandleFatal ==
    /\ master = "running"
    /\ "fatal" \in inbox
    /\ OnExit
    /\ UNCHANGED <<mishaps, restarts>>

\* SIGINT, which is bound before anything is forked
Interrupt ==
    /\ master # "exited" /\ mishaps > 0
    /\ mishaps' = mishaps - 1
    /\ OnExit
    /\ UNCHANGED restarts

-----------------------------------------------------------------------------
(* The processes *)

\* the shared memory server listens
Boot(p) ==
    /\ procs[p].state = "booting"
    /\ procs' = [procs EXCEPT ![p].state = "up"]
    /\ UNCHANGED <<master, garden, caij, shared, data, exits, inbox, mishaps, restarts>>

Die(p) ==
    /\ procs' = [procs EXCEPT ![p].state = "dead"]
    /\ exits' = IF master = "exited" THEN exits ELSE exits \cup {p}
    /\ UNCHANGED <<master, garden, caij, shared, data, inbox, restarts>>

DieOfKill(p) == procs[p].state = "doomed" /\ Die(p) /\ UNCHANGED mishaps

DieOfItself(p) ==
    /\ Running(p)
    /\ mishaps > 0 /\ mishaps' = mishaps - 1
    /\ Die(p)

\* a process the gardener listens to: the messages of the two servers it forks first
\* reach nobody
Heard(p) == procs[p].role \in {"worker", "caij"} /\ Running(p) /\ master = "running"

Tell(m) ==
    /\ inbox' = inbox \cup {m}
    /\ UNCHANGED <<master, procs, garden, caij, shared, data, exits>>

\* getUDS(): a connection the shared memory server does not accept is fatal
Cacheless == \/ procs[shared].state \in {"doomed", "dead"}
             \/ SlowStart /\ procs[shared].state = "booting"

CacheFails(p) ==
    /\ Heard(p)
    /\ Cacheless
    /\ Tell("fatal")
    /\ UNCHANGED <<mishaps, restarts>>

\* the database cannot be reached, a theme is missing
OtherFatal(p) ==
    /\ Heard(p)
    /\ mishaps > 0 /\ mishaps' = mishaps - 1
    /\ Tell("fatal")
    /\ UNCHANGED restarts

\* restartLilium()
AskRestart(p) ==
    /\ Heard(p) /\ procs[p].role = "worker"
    /\ restarts > 0 /\ restarts' = restarts - 1
    /\ Tell("updateAndRestart")
    /\ UNCHANGED mishaps

-----------------------------------------------------------------------------

HandleExit(p) == CaijExit(p) \/ WorkerExit(p) \/ StrangerExit(p)

Next ==
    \/ OpenRedis \/ UpdateAndRestart \/ HandleFatal \/ Interrupt
    \/ \E p \in Pids :
          \/ LoseExit(p) \/ HandleExit(p)
          \/ Boot(p) \/ DieOfKill(p) \/ DieOfItself(p)
          \/ CacheFails(p) \/ OtherFatal(p) \/ AskRestart(p)

Spec == Init /\ [][Next]_vars

\* redis opens, the gardener handles its events, a killed process dies, the cache
\* listens, and, as booting a worker reads and writes the cache, a cache which is gone
\* is noticed
FairSpec ==
    /\ Spec
    /\ WF_vars(OpenRedis) /\ WF_vars(UpdateAndRestart) /\ WF_vars(HandleFatal)
    /\ WF_vars(\E p \in Pids : HandleExit(p))
    /\ WF_vars(\E p \in Pids : DieOfKill(p))
    /\ WF_vars(\E p \in Pids : Boot(p))
    /\ WF_vars(\E p \in Pids : CacheFails(p))

-----------------------------------------------------------------------------
(* Properties *)

\* Two processes never run under one instance number: there is one elder child
\* (isElderChild, network/localcast.js), which does what only one process may do.
InstancesUnique ==
    \A p, q \in Pids :
        (/\ procs[p].role = "worker" /\ procs[p].state # "dead"
         /\ procs[q].role = "worker" /\ procs[q].state # "dead"
         /\ procs[p].num = procs[q].num) => p = q

\* When the gardener has exited, every process it forked, and forked again, is dead or
\* killed (onExit, gardener.js:49).
NoOrphans == master = "exited" => \A p \in Pids : ~Running(p)

\* Every instance runs again and again, or the gardener takes all of them down.
InstancesReturn ==
    \A i \in InstanceNums :
        []<>(\/ master = "exited"
             \/ \E p \in Pids : procs[p].num = i /\ Running(p))

\* A cache which is lost does not stay lost under a gardener which runs: its sessions
\* and counters cannot be had back, so everything goes down (getUDS,
\* lib/sharedcache.js:16).
CacheReturns == []<>(master = "exited" \/ procs[shared].state = "up")

\* Asked to restart, "Restarting instances..." (updateAndRestart, gardener.js:204), with
\* nothing else going wrong, the gardener does not exit.
RestartGoesOn == master = "exited" => mishaps < MaxMishaps
=============================================================================
