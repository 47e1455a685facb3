------------------------------ MODULE Padlock ------------------------------
(***************************************************************************)
(* Failed logins of one user, counted in the shared cache by a get and a   *)
(* set (lib/padlock.js), by attempts which overlap (backend/login.js).     *)
(***************************************************************************)
EXTENDS Naturals, FiniteSets

CONSTANTS
    Attempts,   \* attempts to log in, each made once
    Threshold   \* allowedLoginAttempts

VARIABLES
    memory,   \* in the cache: the count of failures, and whether the user is locked
    pc,       \* next round trip of each attempt
    num,      \* the count each attempt is about to set
    record    \* attempts which failed, locks put, and whether attempts overlapped

vars == <<memory, pc, num, record>>

PCs == {"new", "find", "count.get", "count.set", "block.set", "block.reset", "in", "refused", "failed"}

TypeOK ==
    /\ memory \in [failed : 0..Cardinality(Attempts), locked : BOOLEAN]
    /\ pc \in [Attempts -> PCs]
    /\ num \in [Attempts -> 0..Cardinality(Attempts)]
    /\ record \in [failures : 0..Cardinality(Attempts), locks : 0..Cardinality(Attempts),
                   overlapped : BOOLEAN]

Init ==
    /\ memory = [failed |-> 0, locked |-> FALSE]
    /\ pc = [a \in Attempts |-> "new"]
    /\ num = [a \in Attempts |-> 0]
    /\ record = [failures |-> 0, locks |-> 0, overlapped |-> FALSE]

Busy == {a \in Attempts : pc[a] \notin {"new", "in", "refused", "failed"}}

Goto(a, next) == pc' = [pc EXCEPT ![a] = next]

-----------------------------------------------------------------------------
\* isUserLocked()
Check(a) ==
    /\ pc[a] = "new"
    /\ Goto(a, IF memory.locked THEN "refused" ELSE "find")
    /\ record' = [record EXCEPT !.overlapped = @ \/ Busy # {}]
    /\ UNCHANGED <<memory, num>>

\* the credentials are right, or they are not
Find(a) ==
    /\ pc[a] = "find"
    /\ \/ Goto(a, "in") /\ UNCHANGED record
       \/ Goto(a, "count.get") /\ record' = [record EXCEPT !.failures = @ + 1]
    /\ UNCHANGED <<memory, num>>

\* loginFailed(): the lock is for the failure which reaches the threshold
CountGet(a) ==
    /\ pc[a] = "count.get"
    /\ num' = [num EXCEPT ![a] = memory.failed + 1]
    /\ Goto(a, IF memory.failed + 1 >= Threshold THEN "block.set" ELSE "count.set")
    /\ UNCHANGED <<memory, record>>

\* A mutant of CountSet: the count is incremented here too.
CountSetTwice(a) ==
    /\ pc[a] = "count.set"
    /\ memory' = [memory EXCEPT !.failed = num[a] + 1]
    /\ Goto(a, "failed")
    /\ UNCHANGED <<num, record>>

CountSet(a) ==
    /\ pc[a] = "count.set"
    /\ memory' = [memory EXCEPT !.failed = num[a]]
    /\ Goto(a, "failed")
    /\ UNCHANGED <<num, record>>

BlockSet(a) ==
    /\ pc[a] = "block.set"
    /\ memory' = [memory EXCEPT !.locked = TRUE]
    /\ record' = [record EXCEPT !.locks = @ + 1]
    /\ Goto(a, "block.reset")
    /\ UNCHANGED num

\* refreshFailedLoginCount()
BlockReset(a) ==
    /\ pc[a] = "block.reset"
    /\ memory' = [memory EXCEPT !.failed = 0]
    /\ Goto(a, "failed")
    /\ UNCHANGED <<num, record>>

\* five minutes later
Expire ==
    /\ memory.locked
    /\ memory' = [memory EXCEPT !.locked = FALSE]
    /\ UNCHANGED <<pc, num, record>>

Next ==
    \/ \E a \in Attempts :
          \/ Check(a) \/ Find(a) \/ CountGet(a) \/ CountSet(a) \/ BlockSet(a) \/ BlockReset(a)
    \/ Expire

Spec == Init /\ [][Next]_vars

-----------------------------------------------------------------------------
(* Properties *)

\* However attempts overlap, a user is locked only if there were at least as many failures
\* as are allowed: the count may lose failures, and makes none up (padlock.js:15).
NoFailureMadeUp ==
    /\ memory.failed <= record.failures
    /\ record.locks > 0 => record.failures >= Threshold

\* As long as no two attempts overlap, none is lost either: each lock stands for as many
\* failures as are allowed, and the count for those since the last lock (padlock.js:14-27).
FailuresCounted ==
    ~record.overlapped /\ Busy = {} =>
        record.failures = record.locks * Threshold + memory.failed
=============================================================================
