--------------------------- MODULE WorkersProofs ---------------------------
(*****************************************************************************)
(* What holds of MCWorkers for every value of the constants.  Each of its    *)
(* components keeps what is asked of it by an inductive invariant, which its *)
(* initial states satisfy and its steps preserve; a step of one leaves the   *)
(* invariants of the others alone.                                           *)
(*****************************************************************************)
EXTENDS MCWorkers, Sequences, SequenceTheorems, FiniteSetTheorems, TLAPS

-----------------------------------------------------------------------------
(* Sessions *)

Pending(s) == stage[s] \in {"inject.cache", "inject.find", "remove.db"}

\* the two stores, and what is on its way to them
SessBooks ==
    /\ stored.held \subseteq stored.cache \union boot.read
    /\ stored.held \intersect stored.out = {}
    /\ stored.out \intersect stored.db = {}
    /\ \A t \in Tokens : <<"insert", t>> \in sent => t \notin stored.out
    /\ \A t \in Tokens : <<"remove", t>> \in sent => t \in stored.out

\* as long as nothing went down
SessUp ==
    boot.crashes = 0 =>
        /\ boot.read = {}
        /\ \A t \in Tokens : <<"add", t>> \notin sent
        /\ \A t \in stored.out \intersect stored.cache : <<"remove", t>> \in sent
        /\ \A s \in Slots : stage[s] = "inject.find" => token[s].t \in stored.out

SessLogins ==
    \A s \in Slots : stage[s] = "create.cache" =>
        /\ token[s].t \notin stored.held \union stored.out
        /\ token[s].t \in stored.db \/ <<"insert", token[s].t>> \in sent
        /\ \A q \in Slots \ {s} : stage[q] # "idle" => token[q].t # token[s].t

SessVisits ==
    \A s \in Slots : Pending(s) =>
        /\ token[s].t \in stored.held \union stored.out
        /\ token[s].purpose = "logout" => <<"insert", token[s].t>> \notin sent
        /\ stage[s] = "remove.db" => token[s].purpose = "logout"

SessInv == Sess!TypeOK /\ Sess!SessionsFound /\ SessBooks /\ SessUp /\ SessLogins /\ SessVisits

\* the invariant says what is asked of sessions
LEMMA SessProps == ASSUME SessInv PROVE SessionsKept
BY DEF SessInv, SessBooks, SessUp, SessionsKept, Sess!TypeOK, Sess!SessionsFound, Sess!LoggedOutGone, Sess!CacheComplete

\* nothing is stored, and nobody logs in
LEMMA SessInit == ASSUME Sess!Init PROVE SessInv
<1>1. (CHOOSE t \in Tokens : TRUE) \in Tokens
  BY TokensAssumption
<1>2. Sess!TypeOK
  <2>. USE <1>1, CrashesAssumption DEF Sess!Init, Sess!TypeOK, Sess!PCs, Sess!Purposes
  <2>1. stored \in [db : SUBSET Tokens, cache : SUBSET Tokens,
                   held : SUBSET Tokens, out : SUBSET Tokens, lost : SUBSET Tokens]
    OBVIOUS
  <2>2. sent \subseteq {"insert", "add", "remove"} \X Tokens
    OBVIOUS
  <2>3. stage \in [Slots -> Sess!PCs]
    OBVIOUS
  <2>4. token \in [Slots -> [t : Tokens, purpose : Sess!Purposes]]
    OBVIOUS
  <2>5. boot \in [read : SUBSET Tokens, crashes : 0..MaxCrashes]
    OBVIOUS
  <2>. QED BY <2>1, <2>2, <2>3, <2>4, <2>5
<1>. QED
  BY <1>2 DEF Sess!Init, SessInv, Sess!SessionsFound, SessBooks, SessUp, SessLogins, SessVisits, Pending

\* logins, visits, logouts, what is on its way to the stores, and crashes keep the invariant
LEMMA SessStep == ASSUME SessInv, Sess!Next PROVE SessInv'
<1>. USE CrashesAssumption DEF SessInv
<1>1. ASSUME NEW s \in Slots, Sess!Login(s) PROVE SessInv'
  <2>. USE <1>1 DEF Sess!Login, Sess!Goto, Sess!Fresh
  <2>1. Sess!TypeOK'
    BY DEF Sess!TypeOK, Sess!PCs, Sess!Purposes
  <2>a. PICK t \in Sess!Fresh : sent' = sent \union {<<"insert", t>>}
    OBVIOUS
  <2>b. t \in Tokens /\ t \notin stored.out
    BY <2>a
  <2>2. Sess!SessionsFound'
    BY <2>1 DEF Sess!TypeOK, SessBooks, SessLogins, SessVisits, Pending, Sess!SessionsFound
  <2>3. SessBooks'
    <3>1. \A u \in Tokens : <<"insert", u>> \in sent' => u = t \/ <<"insert", u>> \in sent
      BY <2>a
    <3>2. \A u \in Tokens : <<"remove", u>> \in sent' => <<"remove", u>> \in sent
      BY <2>a
    <3>. QED BY <2>b, <3>1, <3>2 DEF SessBooks
  <2>4. SessUp'
    <3>1. \A u \in Tokens : <<"add", u>> \in sent' => <<"add", u>> \in sent
      BY <2>a
    <3>2. \A u \in Tokens : <<"remove", u>> \in sent => <<"remove", u>> \in sent'
      BY <2>a
    <3>3. \A q \in Slots : stage'[q] = "inject.find" => stage[q] = "inject.find" /\ token'[q] = token[q]
      BY DEF Sess!TypeOK
    <3>. QED BY <3>1, <3>2, <3>3, <2>1 DEF SessUp, Sess!TypeOK
  <2>5. SessLogins'
    BY <2>1 DEF Sess!TypeOK, SessBooks, SessVisits, Pending, SessLogins
  <2>6. SessVisits'
    BY <2>1 DEF Sess!TypeOK, SessBooks, SessLogins, SessVisits, Pending
  <2>. QED BY <2>1, <2>2, <2>3, <2>4, <2>5, <2>6
<1>2. ASSUME NEW s \in Slots, Sess!CreateCache(s) PROVE SessInv'
  <2>. USE <1>2 DEF Sess!CreateCache, Sess!Goto
  <2>1. Sess!TypeOK'
    BY DEF Sess!TypeOK, Sess!PCs, Sess!Purposes
  <2>2. Sess!SessionsFound'
    BY <2>1 DEF Sess!TypeOK, SessBooks, SessLogins, SessVisits, Pending, Sess!SessionsFound
  <2>a. /\ stored'.cache = stored.cache \union {token[s].t} /\ stored'.held = stored.held \union {token[s].t}
        /\ stored'.db = stored.db /\ stored'.out = stored.out /\ sent' = sent /\ boot' = boot /\ token' = token
        /\ token[s].t \in Tokens /\ token[s].t \notin stored.out
    BY DEF Sess!TypeOK, SessLogins
  <2>3. SessBooks'
    BY <2>a DEF SessBooks
  <2>4. SessUp'
    <3>1. \A q \in Slots : stage'[q] = "inject.find" => stage[q] = "inject.find"
      BY DEF Sess!TypeOK
    <3>. QED BY <2>a, <3>1 DEF SessUp
  <2>5. SessLogins'
    BY <2>1 DEF Sess!TypeOK, SessBooks, SessVisits, Pending, SessLogins
  <2>6. SessVisits'
    BY <2>1 DEF Sess!TypeOK, SessBooks, SessLogins, SessVisits, Pending
  <2>. QED BY <2>1, <2>2, <2>3, <2>4, <2>5, <2>6
<1>3. ASSUME NEW s \in Slots, Sess!Arrive(s) PROVE SessInv'
  <2>. USE <1>3 DEF Sess!Arrive, Sess!Goto
  <2>1. Sess!TypeOK'
    BY DEF Sess!TypeOK, Sess!PCs, Sess!Purposes
  <2>2. Sess!SessionsFound'
    BY <2>1 DEF Sess!TypeOK, SessBooks, SessLogins, SessVisits, Pending, Sess!SessionsFound
  <2>3. SessBooks'
    BY <2>1 DEF Sess!TypeOK, SessLogins, SessVisits, Pending, SessUp, SessBooks
  <2>4. SessUp'
    BY <2>1 DEF Sess!TypeOK, SessBooks, SessVisits, SessLogins, Pending, SessUp
  <2>5. SessLogins'
    BY <2>1 DEF Sess!TypeOK, SessBooks, SessVisits, Pending, SessLogins
  <2>6. SessVisits'
    BY <2>1 DEF Sess!TypeOK, SessBooks, SessLogins, SessVisits, Pending
  <2>. QED BY <2>1, <2>2, <2>3, <2>4, <2>5, <2>6
<1>4. ASSUME NEW s \in Slots, Sess!InjectCache(s) PROVE SessInv'
  <2>. USE <1>4 DEF Sess!InjectCache, Sess!Goto, Sess!AfterInject
  <2>1. Sess!TypeOK'
    BY DEF Sess!TypeOK, Sess!PCs, Sess!Purposes
  <2>2. Sess!SessionsFound'
    BY <2>1 DEF Sess!TypeOK, SessBooks, SessLogins, SessVisits, Pending, Sess!SessionsFound
  <2>3. SessBooks'
    BY <2>1 DEF Sess!TypeOK, SessLogins, SessVisits, Pending, SessUp, SessBooks
  <2>4. SessUp'
    BY <2>1 DEF Sess!TypeOK, SessBooks, SessVisits, SessLogins, Pending, SessUp
  <2>5. SessLogins'
    BY <2>1 DEF Sess!TypeOK, SessBooks, SessVisits, Pending, SessLogins
  <2>6. SessVisits'
    BY <2>1 DEF Sess!TypeOK, SessBooks, SessLogins, SessVisits, Pending
  <2>. QED BY <2>1, <2>2, <2>3, <2>4, <2>5, <2>6
<1>5. ASSUME NEW s \in Slots, Sess!InjectFind(s) PROVE SessInv'
  <2>. USE <1>5 DEF Sess!InjectFind, Sess!Goto, Sess!AfterInject
  <2>1. Sess!TypeOK'
    BY DEF Sess!TypeOK, Sess!PCs, Sess!Purposes
  <2>2. Sess!SessionsFound'
    BY <2>1 DEF Sess!TypeOK, SessBooks, SessLogins, SessVisits, Pending, Sess!SessionsFound
  <2>3. SessBooks'
    BY <2>1 DEF Sess!TypeOK, SessLogins, SessVisits, Pending, SessUp, SessBooks
  <2>4. SessUp'
    BY <2>1 DEF Sess!TypeOK, SessBooks, SessVisits, SessLogins, Pending, SessUp
  <2>5. SessLogins'
    BY <2>1 DEF Sess!TypeOK, SessBooks, SessVisits, Pending, SessLogins
  <2>6. SessVisits'
    BY <2>1 DEF Sess!TypeOK, SessBooks, SessLogins, SessVisits, Pending
  <2>. QED BY <2>1, <2>2, <2>3, <2>4, <2>5, <2>6
<1>6. ASSUME NEW s \in Slots, Sess!RemoveDb(s) PROVE SessInv'
  <2>. USE <1>6 DEF Sess!RemoveDb, Sess!Goto
  <2>1. Sess!TypeOK'
    <3>1. token[s].t \in Tokens
      BY DEF Sess!TypeOK
    <3>2. stored' \in [db : SUBSET Tokens, cache : SUBSET Tokens,
                     held : SUBSET Tokens, out : SUBSET Tokens, lost : SUBSET Tokens]
      BY <3>1 DEF Sess!TypeOK
    <3>3. sent' \subseteq {"insert", "add", "remove"} \X Tokens
      BY <3>1 DEF Sess!TypeOK
    <3>4. stage' \in [Slots -> Sess!PCs]
      BY DEF Sess!TypeOK, Sess!PCs
    <3>. QED BY <3>2, <3>3, <3>4 DEF Sess!TypeOK
  <2>2. Sess!SessionsFound'
    BY <2>1 DEF Sess!TypeOK, SessBooks, SessLogins, SessVisits, Pending, Sess!SessionsFound
  <2>3. SessBooks'
    BY <2>1 DEF Sess!TypeOK, SessLogins, SessVisits, Pending, SessUp, SessBooks
  <2>4. SessUp'
    BY <2>1 DEF Sess!TypeOK, SessBooks, SessVisits, SessLogins, Pending, SessUp
  <2>5. SessLogins'
    BY <2>1 DEF Sess!TypeOK, SessBooks, SessVisits, Pending, SessLogins
  <2>6. SessVisits'
    BY <2>1 DEF Sess!TypeOK, SessBooks, SessLogins, SessVisits, Pending
  <2>. QED BY <2>1, <2>2, <2>3, <2>4, <2>5, <2>6
<1>7. ASSUME Sess!Deliver PROVE SessInv'
  <2>. USE <1>7
  <2>0. PICK m \in sent :
          /\ sent' = sent \ {m} /\ UNCHANGED <<stage, token, boot>>
          /\ stored' = CASE m[1] = "insert" -> [stored EXCEPT !.db = @ \union {m[2]}]
                         [] m[1] = "add" -> [stored EXCEPT !.cache = @ \union {m[2]}]
                         [] m[1] = "remove" -> [stored EXCEPT !.cache = @ \ {m[2]}]
    BY DEF Sess!Deliver
  <2>1. PICK p \in {"insert", "add", "remove"}, t \in Tokens : m = <<p, t>>
    BY <2>0 DEF Sess!TypeOK
  <2>2. /\ stored' \in [db : SUBSET Tokens, cache : SUBSET Tokens,
                       held : SUBSET Tokens, out : SUBSET Tokens, lost : SUBSET Tokens]
        /\ stored'.held = stored.held /\ stored'.out = stored.out
        /\ p = "insert" => stored'.db = stored.db \union {t} /\ stored'.cache = stored.cache
        /\ p = "add" => stored'.db = stored.db /\ stored'.cache = stored.cache \union {t}
        /\ p = "remove" => stored'.db = stored.db /\ stored'.cache = stored.cache \ {t}
    <3>1. m[1] = p /\ m[2] = t
      BY <2>1
    <3>2. CASE p = "insert"
      BY <2>0, <3>1, <3>2 DEF Sess!TypeOK
    <3>3. CASE p = "add"
      BY <2>0, <3>1, <3>3 DEF Sess!TypeOK
    <3>4. CASE p = "remove"
      BY <2>0, <3>1, <3>4 DEF Sess!TypeOK
    <3>. QED BY <3>2, <3>3, <3>4
  <2>3. /\ <<p, t>> \in sent
        /\ \A q \in {"insert", "add", "remove"}, u \in Tokens :
              <<q, u>> \in sent' <=> <<q, u>> \in sent /\ ~(q = p /\ u = t)
    BY <2>0, <2>1
  <2>4. stage' = stage /\ token' = token /\ boot' = boot
    BY <2>0
  <2>5. Sess!TypeOK'
    BY <2>0, <2>2, <2>4 DEF Sess!TypeOK
  <2>6. Sess!SessionsFound'
    BY <2>2, <2>3 DEF Sess!SessionsFound, SessBooks, Sess!TypeOK
  <2>7. SessBooks'
    BY <2>2, <2>3, <2>4 DEF SessBooks
  <2>8. SessUp'
    BY <2>2, <2>3, <2>4 DEF SessUp
  <2>9. SessLogins'
    BY <2>2, <2>3, <2>4 DEF SessLogins, Sess!TypeOK
  <2>10. SessVisits'
    BY <2>2, <2>3, <2>4 DEF SessVisits, Pending, Sess!TypeOK
  <2>. QED BY <2>5, <2>6, <2>7, <2>8, <2>9, <2>10
<1>8. ASSUME Sess!Load PROVE SessInv'
  <2>. USE <1>8 DEF Sess!Load, Sess!Goto
  <2>1. Sess!TypeOK'
    BY DEF Sess!TypeOK, Sess!PCs, Sess!Purposes
  <2>2. Sess!SessionsFound'
    <3>1. /\ stored'.held = stored.held /\ stored'.db = stored.db /\ stored.cache \subseteq stored'.cache
          /\ sent' = sent
      BY DEF Sess!TypeOK
    <3>. QED BY <3>1 DEF Sess!SessionsFound
  <2>3. SessBooks'
    BY <2>1 DEF Sess!TypeOK, SessLogins, SessVisits, Pending, SessUp, SessBooks
  <2>4. SessUp'
    BY <2>1 DEF Sess!TypeOK, SessBooks, SessVisits, SessLogins, Pending, SessUp
  <2>5. SessLogins'
    BY <2>1 DEF Sess!TypeOK, SessBooks, SessVisits, Pending, SessLogins
  <2>6. SessVisits'
    BY <2>1 DEF Sess!TypeOK, SessBooks, SessLogins, SessVisits, Pending
  <2>. QED BY <2>1, <2>2, <2>3, <2>4, <2>5, <2>6
<1>9. ASSUME Sess!Crash PROVE SessInv'
  <2>. USE <1>9 DEF Sess!Crash, Sess!Goto, Sess!CrashWith
  <2>1. Sess!TypeOK'
    <3>1. {t \in Tokens : <<"insert", t>> \in sent} \subseteq Tokens
      OBVIOUS
    <3>2. stored' \in [db : SUBSET Tokens, cache : SUBSET Tokens,
                     held : SUBSET Tokens, out : SUBSET Tokens, lost : SUBSET Tokens]
      BY <3>1 DEF Sess!TypeOK
    <3>3. boot' \in [read : SUBSET Tokens, crashes : 0..MaxCrashes]
      BY DEF Sess!TypeOK
    <3>. QED BY <3>2, <3>3 DEF Sess!TypeOK, Sess!PCs
  <2>2. Sess!SessionsFound'
    BY <2>1 DEF Sess!TypeOK, SessBooks, SessLogins, SessVisits, Pending, Sess!SessionsFound
  <2>3. SessBooks'
    <3>1. /\ stored'.held = stored.held \ {t \in Tokens : <<"insert", t>> \in sent}
          /\ stored'.db = stored.db /\ stored'.out = stored.out /\ sent' = {} /\ boot'.read = stored.db
      BY DEF Sess!TypeOK
    <3>2. stored'.held \subseteq stored'.db /\ stored'.held \subseteq stored.held
      BY <3>1 DEF Sess!TypeOK, Sess!SessionsFound
    <3>. QED BY <3>1, <3>2 DEF SessBooks
  <2>4. SessUp'
    <3>1. boot'.crashes # 0
      BY DEF Sess!TypeOK
    <3>. QED BY <3>1 DEF SessUp
  <2>5. SessLogins'
    BY <2>1 DEF Sess!TypeOK, SessBooks, SessVisits, Pending, SessLogins
  <2>6. SessVisits'
    BY <2>1 DEF Sess!TypeOK, SessBooks, SessLogins, SessVisits, Pending
  <2>. QED BY <2>1, <2>2, <2>3, <2>4, <2>5, <2>6
<1>. QED BY <1>1, <1>2, <1>3, <1>4, <1>5, <1>6, <1>7, <1>8, <1>9 DEF Sess!Next

-----------------------------------------------------------------------------
(* Padlock *)

Failing == {a \in Attempts : step[a] \in {"count.get", "count.set", "block.set", "block.reset", "failed"}}
Getting == {a \in Attempts : step[a] = "count.get"}
Locking == {a \in Attempts : step[a] \in {"block.reset", "failed"}}

LockTypes ==
    /\ fails \in [failed : Nat, locked : BOOLEAN]
    /\ step \in [Attempts -> Lock!PCs]
    /\ num \in [Attempts -> Nat]
    /\ record \in [failures : Nat, locks : Nat, overlapped : BOOLEAN]

LockCounts ==
    /\ record.failures = Cardinality(Failing)
    /\ record.locks <= Cardinality(Locking)
    /\ fails.failed + Cardinality(Getting) <= record.failures
    /\ \A a \in Attempts : /\ num[a] <= record.failures
                           /\ step[a] = "count.set" => num[a] + Cardinality(Getting) <= record.failures
                           /\ step[a] = "block.set" => num[a] >= Threshold
    /\ record.locks > 0 => record.failures >= Threshold

LockAlone ==
    ~record.overlapped =>
        LET kept == record.locks * Threshold IN
        /\ \A a, b \in Lock!Busy : a = b
        /\ Lock!Busy = {} => record.failures = kept + fails.failed /\ fails.failed < Threshold
        /\ \A a \in Attempts :
              /\ step[a] = "find" => record.failures = kept + fails.failed /\ fails.failed < Threshold
              /\ step[a] = "count.get" => record.failures = kept + fails.failed + 1 /\ fails.failed < Threshold
              /\ step[a] = "count.set" => record.failures = kept + num[a] /\ num[a] < Threshold
              /\ step[a] = "block.set" => record.failures = kept + Threshold
              /\ step[a] = "block.reset" => record.failures = kept

LockInv == LockTypes /\ LockCounts /\ LockAlone

\* there are finitely many attempts, and so of each kind
LEMMA LockFinite ==
    /\ IsFiniteSet(Failing) /\ Cardinality(Failing) \in Nat
    /\ IsFiniteSet(Getting) /\ Cardinality(Getting) \in Nat
    /\ IsFiniteSet(Locking) /\ Cardinality(Locking) \in Nat
    /\ Cardinality(Failing) <= Cardinality(Attempts) /\ Cardinality(Locking) <= Cardinality(Attempts)
<1>1. Failing \in SUBSET Attempts /\ Getting \in SUBSET Attempts /\ Locking \in SUBSET Attempts
  BY DEF Failing, Getting, Locking
<1>. QED BY <1>1, FS_Subset, FS_CardinalityType, AttemptsAssumption

\* the invariant says what is asked of the padlock; its counters are bounded by the attempts
LEMMA LockProps == ASSUME LockInv PROVE Lock!TypeOK /\ Lock!NoFailureMadeUp /\ Lock!FailuresCounted
<1>1. Cardinality(Attempts) \in Nat
  BY FS_CardinalityType, AttemptsAssumption
<1>0. Lock!Cardinality(Attempts) = Cardinality(Attempts)
  BY DEF Lock!Cardinality, Cardinality
<1>. USE <1>0, LockFinite, ThresholdAssumption DEF LockInv, LockTypes, LockCounts
<1>2. /\ record.failures \in 0..Cardinality(Attempts) /\ record.locks \in 0..Cardinality(Attempts)
      /\ fails.failed \in 0..Cardinality(Attempts)
  BY <1>1
<1>3. num \in [Attempts -> 0..Cardinality(Attempts)]
  BY <1>1, <1>2
<1>4. Lock!TypeOK
  <2>1. fails \in [failed : 0..Cardinality(Attempts), locked : BOOLEAN]
    BY <1>2
  <2>2. record \in [failures : 0..Cardinality(Attempts), locks : 0..Cardinality(Attempts), overlapped : BOOLEAN]
    BY <1>2
  <2>3. step \in [Attempts -> Lock!PCs]
    OBVIOUS
  <2>. QED BY <1>3, <2>1, <2>2, <2>3 DEF Lock!TypeOK
<1>. QED BY <1>4 DEF LockAlone, Lock!NoFailureMadeUp, Lock!FailuresCounted

\* nobody has failed
LEMMA LockInit == ASSUME Lock!Init PROVE LockInv
<1>1. Failing = {} /\ Getting = {} /\ Locking = {} /\ Lock!Busy = {}
  BY DEF Lock!Init, Failing, Getting, Locking, Lock!Busy
<1>2. Cardinality({}) = 0
  BY FS_EmptySet
<1>3. LockTypes
  BY DEF Lock!Init, LockTypes, Lock!PCs
<1>4. LockCounts
  BY <1>1, <1>2 DEF Lock!Init, LockCounts
<1>5. LockAlone
  BY <1>1, ThresholdAssumption DEF Lock!Init, LockAlone
<1>. QED BY <1>3, <1>4, <1>5 DEF LockInv

\* what is counted goes up by a whole threshold when one more is locked
LEMMA OneMore == \A n \in Nat : (n + 1) * Threshold = n * Threshold + Threshold /\ n * Threshold \in Nat
BY ThresholdAssumption

\* each round trip of an attempt keeps the invariant
LEMMA LockStep == ASSUME LockInv, Lock!Next PROVE LockInv'
<1>. USE DEF LockInv
<1>1. ASSUME NEW a \in Attempts, Lock!Check(a) PROVE LockInv'
  <2>. USE <1>1, ThresholdAssumption, LockFinite DEF Lock!Check, Lock!Goto
  <2>1. LockTypes'
    BY DEF LockTypes, Lock!PCs
  <2>2. Failing' = Failing /\ Getting' = Getting /\ Locking' = Locking
    BY DEF LockTypes, Failing, Getting, Locking
  <2>4. LockCounts'
    BY <2>1, <2>2 DEF LockTypes, LockCounts
  <2>5. LockAlone'
    BY <2>1, OneMore DEF LockTypes, LockAlone, Lock!Busy
  <2>. QED BY <2>1, <2>4, <2>5
<1>2. ASSUME NEW a \in Attempts, Lock!Find(a) PROVE LockInv'
  <2>. USE <1>2, ThresholdAssumption, LockFinite DEF Lock!Find, Lock!Goto
  <2>1. LockTypes'
    BY DEF LockTypes, Lock!PCs
  <2>2. CASE step'[a] = "in"
    <3>1. Failing' = Failing /\ Getting' = Getting /\ Locking' = Locking /\ record' = record
      BY <2>2 DEF LockTypes, Failing, Getting, Locking
    <3>2. LockCounts'
      BY <3>1, <2>2 DEF LockTypes, LockCounts
    <3>3. LockAlone'
      BY <3>1, <2>2 DEF LockTypes, LockAlone, Lock!Busy
    <3>. QED BY <2>1, <3>2, <3>3
  <2>3. CASE step'[a] = "count.get"
    <3>1. /\ Failing' = Failing \union {a} /\ Getting' = Getting \union {a} /\ Locking' = Locking
          /\ a \notin Failing /\ a \notin Getting /\ record' = [record EXCEPT !.failures = @ + 1]
      BY <2>3 DEF LockTypes, Failing, Getting, Locking
    <3>2. Cardinality(Failing') = Cardinality(Failing) + 1 /\ Cardinality(Getting') = Cardinality(Getting) + 1
      BY <3>1, FS_AddElement
    <3>3. LockCounts'
      BY <3>1, <3>2, <2>3 DEF LockTypes, LockCounts
    <3>4. LockAlone'
      BY <3>1, <2>3 DEF LockTypes, LockAlone, Lock!Busy
    <3>. QED BY <2>1, <3>3, <3>4
  <2>. QED BY <2>2, <2>3 DEF LockTypes
<1>3. ASSUME NEW a \in Attempts, Lock!CountGet(a) PROVE LockInv'
  <2>. USE <1>3, ThresholdAssumption, LockFinite DEF Lock!CountGet, Lock!Goto
  <2>1. LockTypes'
    BY DEF LockTypes, Lock!PCs
  <2>2. Failing' = Failing /\ Getting' = Getting \ {a} /\ a \in Getting /\ Locking' = Locking
    BY DEF LockTypes, Failing, Getting, Locking
  <2>3. Cardinality(Getting') = Cardinality(Getting) - 1
    BY <2>2, FS_RemoveElement
  <2>4. LockCounts'
    <3>1. /\ fails' = fails /\ record' = record /\ num'[a] = fails.failed + 1
          /\ num'[a] + Cardinality(Getting') <= record.failures
          /\ step'[a] = "block.set" => num'[a] >= Threshold
      BY <2>3 DEF LockTypes, LockCounts
    <3>2. \A q \in Attempts \ {a} : step'[q] = step[q] /\ num'[q] = num[q]
      BY DEF LockTypes
    <3>3. step'[a] # "count.set" => step'[a] = "block.set"
      BY DEF LockTypes
    <3>0. Cardinality(Getting) >= 1
      BY <2>2, FS_EmptySet
    <3>4. /\ record.failures \in Nat /\ fails.failed \in Nat /\ \A q \in Attempts : num[q] \in Nat
      BY DEF LockTypes
    <3>5. \A q \in Attempts :
            /\ num'[q] <= record'.failures
            /\ step'[q] = "count.set" => num'[q] + Cardinality(Getting') <= record'.failures
            /\ step'[q] = "block.set" => num'[q] >= Threshold
      <4>1. ASSUME NEW q \in Attempts, q # a
            PROVE  /\ num'[q] <= record'.failures
                   /\ step'[q] = "count.set" => num'[q] + Cardinality(Getting') <= record'.failures
                   /\ step'[q] = "block.set" => num'[q] >= Threshold
        <5>. QED BY <4>1, <2>3, <3>1, <3>2, <3>4 DEF LockCounts
      <4>2. /\ num'[a] <= record'.failures
            /\ num'[a] + Cardinality(Getting') <= record'.failures
            /\ step'[a] = "block.set" => num'[a] >= Threshold
        <5>. QED BY <2>3, <3>0, <3>1, <3>4 DEF LockCounts
      <4>. QED BY <4>1, <4>2
    <3>6. /\ record'.failures = Cardinality(Failing') /\ record'.locks <= Cardinality(Locking')
          /\ fails'.failed + Cardinality(Getting') <= record'.failures
          /\ record'.locks > 0 => record'.failures >= Threshold
      <4>1. fails'.failed + Cardinality(Getting') <= record'.failures
        BY <2>3, <3>1, <3>4 DEF LockCounts
      <4>2. record'.failures = Cardinality(Failing') /\ record'.locks <= Cardinality(Locking')
        BY <2>2, <3>1 DEF LockCounts
      <4>3. record'.locks > 0 => record'.failures >= Threshold
        BY <3>1 DEF LockCounts
      <4>. QED BY <4>1, <4>2, <4>3
    <3>. QED BY <3>5, <3>6 DEF LockCounts
  <2>5. LockAlone'
    BY <2>1, OneMore DEF LockTypes, LockAlone, Lock!Busy
  <2>. QED BY <2>1, <2>4, <2>5
<1>4. ASSUME NEW a \in Attempts, Lock!CountSet(a) PROVE LockInv'
  <2>. USE <1>4, ThresholdAssumption, LockFinite DEF Lock!CountSet, Lock!Goto
  <2>1. LockTypes'
    BY DEF LockTypes, Lock!PCs
  <2>2. Failing' = Failing /\ Getting' = Getting /\ Locking' = Locking \union {a} /\ a \notin Locking
    BY DEF LockTypes, Failing, Getting, Locking
  <2>3. Cardinality(Locking') = Cardinality(Locking) + 1
    BY <2>2, FS_AddElement
  <2>4. LockCounts'
    <3>1. /\ fails'.failed = num[a] /\ record' = record /\ num' = num
          /\ num[a] + Cardinality(Getting) <= record.failures
      BY DEF LockTypes, LockCounts
    <3>2. \A q \in Attempts : step'[q] \in {"count.set", "block.set"} => step'[q] = step[q]
      BY DEF LockTypes
    <3>. QED BY <2>2, <2>3, <3>1, <3>2 DEF LockTypes, LockCounts
  <2>5. LockAlone'
    BY <2>1, OneMore DEF LockTypes, LockAlone, Lock!Busy
  <2>. QED BY <2>1, <2>4, <2>5
<1>5. ASSUME NEW a \in Attempts, Lock!BlockSet(a) PROVE LockInv'
  <2>. USE <1>5, ThresholdAssumption, LockFinite DEF Lock!BlockSet, Lock!Goto
  <2>1. LockTypes'
    <3>1. fails' \in [failed : Nat, locked : BOOLEAN]
      BY DEF LockTypes
    <3>2. record' \in [failures : Nat, locks : Nat, overlapped : BOOLEAN]
      BY DEF LockTypes
    <3>3. step' \in [Attempts -> Lock!PCs]
      BY DEF LockTypes, Lock!PCs
    <3>. QED BY <3>1, <3>2, <3>3 DEF LockTypes
  <2>2. Failing' = Failing /\ Getting' = Getting /\ Locking' = Locking \union {a} /\ a \notin Locking
    BY DEF LockTypes, Failing, Getting, Locking
  <2>3. Cardinality(Locking') = Cardinality(Locking) + 1
    BY <2>2, FS_AddElement
  <2>4. LockCounts'
    BY <2>1, <2>2, <2>3 DEF LockTypes, LockCounts
  <2>5. LockAlone'
    BY <2>1, OneMore DEF LockTypes, LockAlone, Lock!Busy
  <2>. QED BY <2>1, <2>4, <2>5
<1>6. ASSUME NEW a \in Attempts, Lock!BlockReset(a) PROVE LockInv'
  <2>. USE <1>6, ThresholdAssumption, LockFinite DEF Lock!BlockReset, Lock!Goto
  <2>1. LockTypes'
    <3>1. fails' \in [failed : Nat, locked : BOOLEAN]
      BY DEF LockTypes
    <3>2. step' \in [Attempts -> Lock!PCs]
      BY DEF LockTypes, Lock!PCs
    <3>. QED BY <3>1, <3>2 DEF LockTypes
  <2>2. Failing' = Failing /\ Getting' = Getting /\ Locking' = Locking
    BY DEF LockTypes, Failing, Getting, Locking
  <2>4. LockCounts'
    BY <2>1, <2>2 DEF LockTypes, LockCounts
  <2>5. LockAlone'
    BY <2>1, OneMore DEF LockTypes, LockAlone, Lock!Busy
  <2>. QED BY <2>1, <2>4, <2>5
<1>7. ASSUME Lock!Expire PROVE LockInv'
  <2>. USE <1>7 DEF Lock!Expire
  <2>1. LockTypes' /\ fails'.failed = fails.failed
    BY DEF LockTypes
  <2>2. Failing' = Failing /\ Getting' = Getting /\ Locking' = Locking /\ Lock!Busy' = Lock!Busy
    BY DEF Failing, Getting, Locking, Lock!Busy
  <2>3. LockCounts'
    BY <2>1, <2>2 DEF LockCounts
  <2>4. LockAlone'
    BY <2>1, <2>2 DEF LockAlone
  <2>. QED BY <2>1, <2>3, <2>4
<1>. QED BY <1>1, <1>2, <1>3, <1>4, <1>5, <1>6, <1>7 DEF Lock!Next

-----------------------------------------------------------------------------
(* Accounts *)

Asking == [kind : Acc!Kinds, new : Acc!Secrets, knows : Acc!Secrets, left : SUBSET {"login", "relink"},
           name : Names, padded : BOOLEAN]
Counts == [Acc!Secrets -> Nat]

AccTypes ==
    /\ account \in [password : Acc!Secrets, link : Acc!Secrets, must : BOOLEAN, revoked : BOOLEAN, gone : BOOLEAN]
    /\ code \in Acc!Secrets \union {Acc!None}
    /\ names \in [Names -> Nat]
    /\ acPc \in [Slots -> Acc!PCs]
    /\ acReq \in [Slots -> Asking]
    /\ acLog \in [jobs : Acc!Secrets, changes : Counts, recoveries : Counts, logins : Counts,
                  raced : SUBSET Acc!Kinds, padded : BOOLEAN, restored : BOOLEAN, crashed : BOOLEAN]

Active(r) == acReq[r].kind # "idle"
Asks(r, kinds) == acReq[r].kind \in kinds
\* requests which will replace the link
Relinks(r) == \/ Asks(r, {"mail", "restore"})
              \/ Asks(r, {"magic"}) /\ (acPc[r] = "find" \/ "relink" \in acReq[r].left)

AccSlots ==
    /\ \A r \in Slots :
          /\ Active(r) <=> acPc[r] # "idle"
          /\ acReq[r].knows <= acLog.jobs
          /\ Active(r) => acReq[r].new \in 1..acLog.jobs
          /\ acPc[r] = "relink" => Asks(r, {"mail", "restore"})
          /\ Asks(r, {"magic"}) => acPc[r] \in {"find", "out"}
    /\ \A r, q \in Slots : Active(r) /\ Active(q) /\ acReq[r].new = acReq[q].new => r = q
    /\ \A r, q \in Slots : Active(r) /\ acReq[r].kind = acReq[q].kind /\ acReq[r].kind \notin acLog.raced => r = q

AccBounds ==
    /\ account.password <= acLog.jobs /\ account.link <= acLog.jobs /\ code <= acLog.jobs
    /\ \A s \in Acc!Secrets : s > acLog.jobs =>
          acLog.changes[s] = 0 /\ acLog.recoveries[s] = 0 /\ acLog.logins[s] = 0

AccChanged ==
    /\ \A s \in Acc!Secrets : /\ acLog.changes[s] <= 1
                              /\ acLog.changes[s] > 0 => s # account.password
    /\ \A r \in Slots : Asks(r, {"change", "use"}) =>
          acReq[r].new # account.password /\ acLog.changes[acReq[r].new] = 0

AccRecovered ==
    "use" \notin acLog.raced =>
        /\ \A s \in Acc!Secrets : /\ acLog.recoveries[s] <= 1
                                  /\ acLog.recoveries[s] > 0 => s # code
        /\ \A r \in Slots : Asks(r, {"ask"}) =>
              acReq[r].new # code /\ acLog.recoveries[acReq[r].new] = 0
        /\ \A r \in Slots : Asks(r, {"use"}) /\ acPc[r] \in {"out", "write"} =>
              /\ acLog.recoveries[acReq[r].knows] = 0
              /\ \A q \in Slots : Asks(q, {"ask"}) => acReq[q].new # acReq[r].knows
              /\ acPc[r] = "write" => acReq[r].knows # code

AccLogged ==
    "magic" \notin acLog.raced /\ ~acLog.crashed =>
        /\ \A s \in Acc!Secrets :
              /\ acLog.logins[s] <= 1
              /\ acLog.logins[s] > 0 /\ s = account.link =>
                    \E r \in Slots : Asks(r, {"magic"}) /\ acPc[r] = "out" /\ acReq[r].knows = s
        /\ \A r \in Slots : Relinks(r) => acReq[r].new # account.link /\ acLog.logins[acReq[r].new] = 0
        /\ \A r \in Slots : Asks(r, {"magic"}) /\ acPc[r] = "out" =>
              /\ "login" \in acReq[r].left => acLog.logins[acReq[r].knows] = 0
              /\ "relink" \in acReq[r].left \/ acReq[r].knows # account.link
              /\ \A q \in Slots : Relinks(q) => acReq[q].new # acReq[r].knows

AccGone ==
    /\ \A r \in Slots : Asks(r, {"restore"}) => acLog.restored
    /\ account.gone /\ ~acLog.crashed /\ ~acLog.restored =>
          account.revoked \/ \E r \in Slots : Asks(r, {"terminate"}) /\ acPc[r] = "out"

AccInvited ==
    "invite" \notin acLog.raced /\ ~acLog.padded =>
        /\ \A n \in Names : names[n] <= 1
        /\ \A r \in Slots : /\ ~acReq[r].padded
                            /\ Asks(r, {"invite"}) /\ acPc[r] = "write" => names[acReq[r].name] = 0

AccInv == AccTypes /\ AccSlots /\ AccBounds /\ AccChanged /\ AccRecovered /\ AccLogged /\ AccGone /\ AccInvited

\* a slot without a request
LEMMA AccNothing ==
    /\ Acc!NoRequest \in Asking
    /\ Acc!NoRequest.kind = "idle" /\ Acc!NoRequest.left = {} /\ Acc!NoRequest.padded = FALSE
    /\ Acc!NoRequest.knows = 0 /\ Acc!NoRequest.new = 0
<1>1. (CHOOSE n \in Names : TRUE) \in Names
  BY NamesAssumption
<1>. QED BY <1>1, JobsAssumption DEF Acc!NoRequest, Asking, Acc!Kinds, Acc!Secrets

\* a request which ends leaves what the others rest on, whatever it was
LEMMA AccFreed ==
    ASSUME AccInv, NEW r \in Slots,
           acPc'[r] = "idle", acReq'[r] = Acc!NoRequest,
           \A q \in Slots \ {r} : acPc'[q] = acPc[q] /\ acReq'[q] = acReq[q],
           acLog'.jobs = acLog.jobs, acLog'.raced = acLog.raced
    PROVE  AccSlots'
<1>1. acReq'[r].kind = "idle" /\ acReq'[r].knows = 0
  BY AccNothing
<1>2. acLog.jobs \in Nat
  BY JobsAssumption DEF AccInv, AccTypes, Acc!Secrets
<1>. DEFINE Fine(q) == /\ Active(q) <=> acPc[q] # "idle"
                       /\ acReq[q].knows <= acLog.jobs
                       /\ Active(q) => acReq[q].new \in 1..acLog.jobs
                       /\ acPc[q] = "relink" => Asks(q, {"mail", "restore"})
                       /\ Asks(q, {"magic"}) => acPc[q] \in {"find", "out"}
<1>3. ASSUME NEW q \in Slots PROVE Fine(q)'
  <2>1. CASE q = r
    BY <2>1, <1>1, <1>2 DEF Active, Asks
  <2>2. CASE q # r
    <3>1. acPc'[q] = acPc[q] /\ acReq'[q] = acReq[q]
      BY <2>2
    <3>2. Fine(q)
      BY DEF AccInv, AccSlots
    <3>. QED BY <3>1, <3>2 DEF Active, Asks
  <2>. QED BY <2>1, <2>2
<1>4. ASSUME NEW p \in Slots, NEW q \in Slots, acReq'[p].kind # "idle", acReq'[q].kind # "idle",
             acReq'[p].new = acReq'[q].new
      PROVE  p = q
  <2>1. p # r /\ q # r
    BY <1>4, <1>1
  <2>2. acReq'[p] = acReq[p] /\ acReq'[q] = acReq[q]
    BY <2>1
  <2>. QED BY <2>2, <1>4 DEF AccInv, AccSlots, Active
<1>5. ASSUME NEW p \in Slots, NEW q \in Slots, acReq'[p].kind # "idle",
             acReq'[p].kind = acReq'[q].kind, acReq'[p].kind \notin acLog.raced
      PROVE  p = q
  <2>1. p # r /\ q # r
    BY <1>5, <1>1
  <2>2. acReq'[p] = acReq[p] /\ acReq'[q] = acReq[q]
    BY <2>1
  <2>. QED BY <2>2, <1>5 DEF AccInv, AccSlots, Active
<1>. QED BY <1>3, <1>4, <1>5 DEF AccSlots, Active

\* a request which goes on remains what it was
LEMMA AccWentOn ==
    ASSUME AccInv, NEW r \in Slots, NEW next \in Acc!PCs \ {"idle"},
           acPc[r] # "idle", acPc'[r] = next,
           acReq'[r].kind = acReq[r].kind, acReq'[r].new = acReq[r].new, acReq'[r].knows = acReq[r].knows,
           next = "relink" => Asks(r, {"mail", "restore"}),
           Asks(r, {"magic"}) => next = "out",
           \A q \in Slots \ {r} : acPc'[q] = acPc[q] /\ acReq'[q] = acReq[q],
           acLog'.jobs = acLog.jobs, acLog'.raced = acLog.raced
    PROVE  AccSlots'
<1>. DEFINE Fine(q) == /\ Active(q) <=> acPc[q] # "idle"
                       /\ acReq[q].knows <= acLog.jobs
                       /\ Active(q) => acReq[q].new \in 1..acLog.jobs
                       /\ acPc[q] = "relink" => Asks(q, {"mail", "restore"})
                       /\ Asks(q, {"magic"}) => acPc[q] \in {"find", "out"}
<1>1. \A q \in Slots : acReq'[q].kind = acReq[q].kind /\ acReq'[q].new = acReq[q].new /\ acReq'[q].knows = acReq[q].knows
  OBVIOUS
<1>2. ASSUME NEW q \in Slots PROVE Fine(q)'
  <2>1. Fine(q)
    BY DEF AccInv, AccSlots
  <2>2. acReq'[q].kind = acReq[q].kind /\ acReq'[q].new = acReq[q].new /\ acReq'[q].knows = acReq[q].knows
    BY <1>1
  <2>3. CASE q = r
    BY <2>1, <2>2, <2>3 DEF Active, Asks
  <2>4. CASE q # r
    BY <2>1, <2>2, <2>4 DEF Active, Asks
  <2>. QED BY <2>3, <2>4
<1>3. ASSUME NEW p \in Slots, NEW q \in Slots, acReq'[p].kind # "idle", acReq'[q].kind # "idle",
             acReq'[p].new = acReq'[q].new
      PROVE  p = q
  <2>. QED BY <1>1, <1>3 DEF AccInv, AccSlots, Active
<1>4. ASSUME NEW p \in Slots, NEW q \in Slots, acReq'[p].kind # "idle",
             acReq'[p].kind = acReq'[q].kind, acReq'[p].kind \notin acLog.raced
      PROVE  p = q
  <2>. QED BY <1>1, <1>4 DEF AccInv, AccSlots, Active
<1>. QED BY <1>2, <1>3, <1>4 DEF AccSlots, Active

\* a use of a secret is counted
LEMMA AccBumped ==
    ASSUME NEW f \in Counts, NEW k \in Acc!Secrets
    PROVE  /\ [f EXCEPT ![k] = f[k] + 1] \in Counts
           /\ [f EXCEPT ![k] = f[k] + 1][k] = f[k] + 1
           /\ \A s \in Acc!Secrets \ {k} : [f EXCEPT ![k] = f[k] + 1][s] = f[s]
BY DEF Counts

\* passwords are changed once at most, where no request changes the password
LEMMA AccChangedSame ==
    ASSUME AccInv, account'.password = account.password, acLog'.changes = acLog.changes,
           \A q \in Slots : Asks(q, {"change", "use"})' =>
               Asks(q, {"change", "use"}) /\ acReq'[q].new = acReq[q].new
    PROVE  AccChanged'
<1>1. ASSUME NEW q \in Slots, Asks(q, {"change", "use"})'
      PROVE  acReq'[q].new # account'.password /\ acLog'.changes[acReq'[q].new] = 0
  <2>1. Asks(q, {"change", "use"}) /\ acReq'[q].new = acReq[q].new
    BY <1>1
  <2>. QED BY <2>1 DEF AccInv, AccChanged
<1>. QED BY <1>1 DEF AccInv, AccChanged

\* the same of recoveries, where the code stays
LEMMA AccRecoveredSame ==
    ASSUME AccInv, code' = code, acLog'.recoveries = acLog.recoveries, acLog'.raced = acLog.raced,
           \A q \in Slots : Asks(q, {"ask", "use"})' => acReq'[q] = acReq[q] /\ acPc'[q] = acPc[q]
    PROVE  AccRecovered'
<1>. SUFFICES ASSUME "use" \notin acLog.raced
              PROVE  AccRecovered'
  BY DEF AccRecovered
<1>1. ASSUME NEW q \in Slots, Asks(q, {"ask"})'
      PROVE  Asks(q, {"ask"}) /\ acReq'[q].new = acReq[q].new
  BY <1>1 DEF Asks
<1>2. ASSUME NEW q \in Slots, Asks(q, {"use"})'
      PROVE  Asks(q, {"use"}) /\ acReq'[q].knows = acReq[q].knows /\ acPc'[q] = acPc[q]
  BY <1>2 DEF Asks
<1>3. ASSUME NEW q \in Slots, Asks(q, {"ask"})'
      PROVE  acReq'[q].new # code /\ acLog.recoveries[acReq'[q].new] = 0
  BY <1>1, <1>3 DEF AccInv, AccRecovered
<1>4. ASSUME NEW q \in Slots, Asks(q, {"use"})', acPc'[q] \in {"out", "write"}
      PROVE  /\ acLog.recoveries[acReq'[q].knows] = 0
             /\ acPc'[q] = "write" => acReq'[q].knows # code
             /\ \A p \in Slots : Asks(p, {"ask"})' => acReq'[p].new # acReq'[q].knows
  BY <1>1, <1>2, <1>4 DEF AccInv, AccRecovered
<1>. QED BY <1>3, <1>4 DEF AccInv, AccRecovered

\* the same of logins, where the link stays
LEMMA AccLoggedSame ==
    ASSUME AccInv, account'.link = account.link, acLog'.logins = acLog.logins, acLog'.raced = acLog.raced,
           acLog'.crashed = acLog.crashed,
           \A q \in Slots : Asks(q, {"magic"}) /\ acPc[q] = "out" => acReq'[q] = acReq[q] /\ acPc'[q] = acPc[q],
           \A q \in Slots : Asks(q, {"magic"})' => acReq'[q] = acReq[q] /\ acPc'[q] = acPc[q],
           \A q \in Slots : Asks(q, {"mail", "restore"})' =>
               Asks(q, {"mail", "restore"}) /\ acReq'[q].new = acReq[q].new
    PROVE  AccLogged'
<1>. SUFFICES ASSUME "magic" \notin acLog.raced, ~acLog.crashed
              PROVE  AccLogged'
  BY DEF AccLogged
<1>1. ASSUME NEW s \in Acc!Secrets, acLog.logins[s] > 0, s = account.link
      PROVE  \E q \in Slots : Asks(q, {"magic"})' /\ acPc'[q] = "out" /\ acReq'[q].knows = s
  <2>1. PICK q \in Slots : Asks(q, {"magic"}) /\ acPc[q] = "out" /\ acReq[q].knows = s
    BY <1>1 DEF AccInv, AccLogged
  <2>2. acReq'[q] = acReq[q] /\ acPc'[q] = acPc[q]
    BY <2>1
  <2>. QED BY <2>1, <2>2 DEF Asks
<1>2. ASSUME NEW q \in Slots, Relinks(q)' PROVE Relinks(q) /\ acReq'[q].new = acReq[q].new
  <2>1. CASE Asks(q, {"mail", "restore"})'
    BY <2>1 DEF Relinks
  <2>2. CASE Asks(q, {"magic"})'
    <3>1. acReq'[q] = acReq[q] /\ acPc'[q] = acPc[q]
      BY <2>2
    <3>. QED BY <3>1, <2>2, <1>2 DEF Relinks, Asks
  <2>. QED BY <1>2, <2>1, <2>2 DEF Relinks
<1>3. ASSUME NEW q \in Slots, Asks(q, {"magic"})', acPc'[q] = "out"
      PROVE  /\ "login" \in acReq'[q].left => acLog.logins[acReq'[q].knows] = 0
             /\ "relink" \in acReq'[q].left \/ acReq'[q].knows # account.link
             /\ \A p \in Slots : Relinks(p)' => acReq'[p].new # acReq'[q].knows
  <2>1. acReq'[q] = acReq[q] /\ acPc'[q] = acPc[q]
    BY <1>3
  <2>2. Asks(q, {"magic"}) /\ acPc[q] = "out"
    BY <1>3, <2>1 DEF Asks
  <2>. QED BY <1>2, <2>1, <2>2 DEF AccInv, AccLogged
<1>4. \A q \in Slots : Relinks(q)' => acReq'[q].new # account.link /\ acLog.logins[acReq'[q].new] = 0
  BY <1>2 DEF AccInv, AccLogged
<1>5. \A s \in Acc!Secrets : acLog.logins[s] <= 1
  BY DEF AccInv, AccLogged
<1>. QED BY <1>1, <1>3, <1>4, <1>5 DEF AccLogged

\* no secret is newer than the requests
LEMMA AccBoundsSame ==
    ASSUME AccInv, account'.password = account.password, account'.link = account.link, code' = code,
           acLog'.jobs = acLog.jobs, acLog'.changes = acLog.changes, acLog'.recoveries = acLog.recoveries,
           acLog'.logins = acLog.logins
    PROVE  AccBounds'
BY DEF AccInv, AccBounds

\* a request which ends
LEMMA AccGaveUp ==
    ASSUME AccInv, NEW r \in Slots, acPc[r] # "idle",
           ~(Asks(r, {"magic", "terminate"}) /\ acPc[r] = "out"),
           Acc!Done(r), UNCHANGED <<account, code, names, acLog>>
    PROVE  AccInv'
<1>1. acPc'[r] = "idle" /\ acReq'[r] = Acc!NoRequest /\ acReq'[r].kind = "idle" /\ acReq'[r].padded = FALSE
  BY AccNothing DEF AccInv, AccTypes, Acc!Done
<1>2. \A q \in Slots \ {r} : acPc'[q] = acPc[q] /\ acReq'[q] = acReq[q]
  BY DEF AccInv, AccTypes, Acc!Done
<1>3. AccTypes'
  BY AccNothing DEF AccInv, AccTypes, Acc!Done, Acc!PCs
<1>4. AccSlots'
  BY <1>1, <1>2, AccFreed
<1>5. \A q \in Slots : acReq'[q].kind = "idle" \/ (acReq'[q] = acReq[q] /\ acPc'[q] = acPc[q])
  BY <1>1, <1>2
<1>6. AccBounds'
  BY AccBoundsSame
<1>7. AccChanged' /\ AccRecovered'
  BY <1>5, AccChangedSame, AccRecoveredSame DEF Asks
<1>8. AccLogged'
  BY <1>2, <1>5, AccLoggedSame DEF Asks
<1>9. AccGone'
  BY <1>2, <1>5 DEF AccInv, AccGone, Asks
<1>10. AccInvited'
  BY <1>1, <1>2, <1>5 DEF AccInv, AccInvited, Asks
<1>. QED BY <1>3, <1>4, <1>6, <1>7, <1>8, <1>9, <1>10 DEF AccInv

\* a new password is written
LEMMA AccPasswordWritten ==
    ASSUME AccInv, NEW r \in Slots, Asks(r, {"change", "use"}), account'.password = acReq[r].new,
           acReq'[r].kind = "idle", \A q \in Slots \ {r} : acReq'[q] = acReq[q], acLog'.changes = acLog.changes
    PROVE  AccChanged'
<1>1. acLog.changes[acReq[r].new] = 0
  BY DEF AccInv, AccChanged
<1>2. ASSUME NEW s \in Acc!Secrets PROVE acLog.changes[s] <= 1 /\ (acLog.changes[s] > 0 => s # acReq[r].new)
  BY <1>1 DEF AccInv, AccChanged
<1>3. ASSUME NEW q \in Slots, Asks(q, {"change", "use"})'
      PROVE  acReq'[q].new # acReq[r].new /\ acLog.changes[acReq'[q].new] = 0
  <2>1. q # r /\ acReq'[q] = acReq[q]
    BY <1>3 DEF Asks
  <2>2. acReq[q].new # acReq[r].new
    BY <1>3, <2>1 DEF AccInv, AccSlots, Active, Asks
  <2>. QED BY <1>3, <2>1, <2>2 DEF AccInv, AccChanged, Asks
<1>. QED BY <1>2, <1>3 DEF AccChanged

\* Ask: the secret of the request is a new one
LEMMA AccAskStep ==
    ASSUME AccInv, NEW r \in Slots, NEW what \in Acc!Kinds \ {"idle"}, Acc!Ask(r, what)
    PROVE  AccInv'
<1>. DEFINE n == acLog.jobs + 1
<1>1. PICK k \in 0..acLog.jobs, name \in Names, p \in BOOLEAN :
        /\ acReq' = [acReq EXCEPT ![r] = [kind |-> what, new |-> n, knows |-> k, left |-> {}, name |-> name,
                                          padded |-> p]]
        /\ acLog' = [acLog EXCEPT !.jobs = @ + 1, !.padded = @ \/ p, !.restored = @ \/ what = "restore",
                        !.raced = IF \E q \in Slots : acReq[q].kind = what THEN @ \union {what} ELSE @]
  <2>1. acLog.jobs \in Nat
    BY JobsAssumption DEF AccInv, AccTypes, Acc!Secrets
  <2>2. Acc!NoRequest.name \in Names
    BY AccNothing DEF Asking
  <2>3. PICK k \in IF what \in {"change", "use", "magic"} THEN 0..acLog.jobs ELSE {0},
             name \in IF what = "invite" THEN Names ELSE {Acc!NoRequest.name},
             p \in IF what = "invite" THEN BOOLEAN ELSE {FALSE} :
          /\ acReq' = [acReq EXCEPT ![r] = [kind |-> what, new |-> n, knows |-> k, left |-> {}, name |-> name,
                                            padded |-> p]]
          /\ acLog' = [acLog EXCEPT !.jobs = @ + 1, !.padded = @ \/ p, !.restored = @ \/ what = "restore",
                          !.raced = IF \E q \in Slots : acReq[q].kind = what THEN @ \union {what} ELSE @]
    BY DEF Acc!Ask
  <2>4. k \in 0..acLog.jobs /\ name \in Names /\ p \in BOOLEAN
    <3>1. k \in 0..acLog.jobs
      <4>1. 0 \in 0..acLog.jobs
        BY <2>1
      <4>2. CASE what \in {"change", "use", "magic"}
        BY <2>3, <4>2
      <4>3. CASE what \notin {"change", "use", "magic"}
        BY <2>3, <4>1, <4>3
      <4>. QED BY <4>2, <4>3
    <3>2. name \in Names
      BY <2>2, <2>3
    <3>3. p \in BOOLEAN
      BY <2>3
    <3>. QED BY <3>1, <3>2, <3>3
  <2>. QED BY <2>3, <2>4
<1>2. /\ account' = account /\ code' = code /\ names' = names
      /\ acPc[r] = "idle" /\ acLog.jobs < MaxJobs
      /\ acPc'[r] = IF what \in {"restore", "terminate"} THEN "write" ELSE "find"
      /\ acPc' = [acPc EXCEPT ![r] = IF what \in {"restore", "terminate"} THEN "write" ELSE "find"]
  BY DEF AccInv, AccTypes, Acc!Ask
<1>3. /\ acReq'[r].kind = what /\ acReq'[r].new = n /\ acReq'[r].knows = k /\ acReq'[r].left = {}
      /\ acReq'[r].padded = p
      /\ \A q \in Slots \ {r} : acPc'[q] = acPc[q] /\ acReq'[q] = acReq[q]
  BY <1>1, <1>2 DEF AccInv, AccTypes
<1>4. /\ acLog'.jobs = n /\ acLog'.changes = acLog.changes /\ acLog'.recoveries = acLog.recoveries
      /\ acLog'.logins = acLog.logins /\ acLog'.padded = (acLog.padded \/ p)
      /\ acLog'.restored = (acLog.restored \/ what = "restore") /\ acLog'.crashed = acLog.crashed
      /\ acLog'.raced = IF \E q \in Slots : acReq[q].kind = what THEN acLog.raced \union {what} ELSE acLog.raced
  BY <1>1 DEF AccInv, AccTypes
<1>5. acLog.jobs \in Nat /\ n \in Acc!Secrets /\ k \in Acc!Secrets /\ k <= acLog.jobs
  BY <1>2, JobsAssumption DEF AccInv, AccTypes, Acc!Secrets
<1>6. acReq[r].kind = "idle"
  BY <1>2 DEF AccInv, AccSlots, Active
<1>7. \A q \in Slots : /\ acReq[q].new \in Nat /\ acReq[q].knows \in Nat /\ acReq[q].knows # n
                       /\ acReq[q].kind # "idle" => acReq[q].new # n
  BY <1>5, JobsAssumption DEF AccInv, AccTypes, AccSlots, Asking, Active, Acc!Secrets
<1>8. /\ account.password # n /\ account.link # n /\ code # n
      /\ acLog.changes[n] = 0 /\ acLog.recoveries[n] = 0 /\ acLog.logins[n] = 0
  BY <1>5 DEF AccInv, AccBounds
<1>9. AccTypes'
  <2>1. acReq' \in [Slots -> Asking]
    BY <1>1, <1>5 DEF AccInv, AccTypes, Asking
  <2>2. acLog' \in [jobs : Acc!Secrets, changes : Counts, recoveries : Counts, logins : Counts,
                    raced : SUBSET Acc!Kinds, padded : BOOLEAN, restored : BOOLEAN, crashed : BOOLEAN]
    <3>1. acLog' = [acLog EXCEPT !.jobs = n, !.padded = (acLog.padded \/ p),
                       !.restored = (acLog.restored \/ what = "restore"),
                       !.raced = IF \E q \in Slots : acReq[q].kind = what THEN acLog.raced \union {what} ELSE acLog.raced]
      BY <1>1 DEF AccInv, AccTypes
    <3>. QED BY <3>1, <1>5 DEF AccInv, AccTypes
  <2>3. acPc' \in [Slots -> Acc!PCs]
    BY <1>2 DEF AccInv, AccTypes, Acc!PCs
  <2>. QED BY <1>2, <2>1, <2>2, <2>3 DEF AccInv, AccTypes
<1>10. AccSlots'
  <2>1. ASSUME NEW q \in Slots
        PROVE  /\ acReq'[q].kind # "idle" <=> acPc'[q] # "idle"
               /\ acReq'[q].knows <= n
               /\ acReq'[q].kind # "idle" => acReq'[q].new \in 1..n
               /\ acPc'[q] = "relink" => acReq'[q].kind \in {"mail", "restore"}
               /\ acReq'[q].kind = "magic" => acPc'[q] \in {"find", "out"}
    <3>1. CASE q = r
      BY <3>1, <1>2, <1>3, <1>5
    <3>2. CASE q # r
      <4>1. acPc'[q] = acPc[q] /\ acReq'[q] = acReq[q]
        BY <3>2, <1>3
      <4>2. acReq[q].knows <= acLog.jobs /\ (acReq[q].kind # "idle" => acReq[q].new \in 1..acLog.jobs)
        BY DEF AccInv, AccSlots, Active
      <4>3. acReq[q].knows <= n /\ (acReq[q].kind # "idle" => acReq[q].new \in 1..n)
        BY <4>2, <1>5, <1>7
      <4>. QED BY <4>1, <4>3 DEF AccInv, AccSlots, Active, Asks
    <3>. QED BY <3>1, <3>2
  <2>2. ASSUME NEW q \in Slots, NEW s \in Slots, acReq'[q].kind # "idle", acReq'[s].kind # "idle",
               acReq'[q].new = acReq'[s].new
        PROVE  q = s
    <3>1. CASE q # r /\ s # r
      BY <2>2, <3>1, <1>3 DEF AccInv, AccSlots, Active
    <3>2. CASE q = r \/ s = r
      BY <2>2, <3>2, <1>3, <1>7
    <3>. QED BY <3>1, <3>2
  <2>3. ASSUME NEW q \in Slots, NEW s \in Slots, acReq'[q].kind # "idle", acReq'[q].kind = acReq'[s].kind,
               acReq'[q].kind \notin acLog'.raced
        PROVE  q = s
    <3>1. CASE q # r /\ s # r
      BY <2>3, <3>1, <1>3, <1>4 DEF AccInv, AccSlots, Active
    <3>2. CASE q = r \/ s = r
      BY <2>3, <3>2, <1>3, <1>4
    <3>. QED BY <3>1, <3>2
  <2>. QED BY <1>4, <2>1, <2>2, <2>3 DEF AccSlots, Active, Asks
<1>11. AccBounds'
  <2>1. /\ account.password <= n /\ account.link <= n /\ code <= n
    BY <1>5, JobsAssumption DEF AccInv, AccTypes, AccBounds, Acc!Secrets, Acc!None
  <2>2. \A s \in Acc!Secrets : s > n => s > acLog.jobs
    BY <1>5, JobsAssumption DEF Acc!Secrets
  <2>. QED BY <1>2, <1>4, <2>1, <2>2 DEF AccInv, AccBounds
<1>12. AccChanged'
  <2>1. ASSUME NEW q \in Slots, acReq'[q].kind \in {"change", "use"}
        PROVE  acReq'[q].new # account.password /\ acLog.changes[acReq'[q].new] = 0
    BY <2>1, <1>3, <1>8 DEF AccInv, AccChanged, Asks
  <2>. QED BY <1>2, <1>4, <2>1 DEF AccInv, AccChanged, Asks
<1>13. AccRecovered'
  <2>. SUFFICES ASSUME "use" \notin acLog'.raced
                PROVE  AccRecovered'
    BY DEF AccRecovered
  <2>0. "use" \notin acLog.raced
    BY <1>4
  <2>1. ASSUME NEW q \in Slots, acReq'[q].kind = "ask"
        PROVE  acReq'[q].new # code /\ acLog.recoveries[acReq'[q].new] = 0
    BY <2>0, <2>1, <1>3, <1>8 DEF AccInv, AccRecovered, Asks
  <2>2. ASSUME NEW q \in Slots, acReq'[q].kind = "use", acPc'[q] \in {"out", "write"}
        PROVE  /\ acLog.recoveries[acReq'[q].knows] = 0
               /\ acPc'[q] = "write" => acReq'[q].knows # code
               /\ \A s \in Slots : acReq'[s].kind = "ask" => acReq'[s].new # acReq'[q].knows
    <3>1. q # r
      BY <2>2, <1>2, <1>3
    <3>2. acPc'[q] = acPc[q] /\ acReq'[q] = acReq[q]
      BY <3>1, <1>3
    <3>3. \A s \in Slots : acReq'[s].kind = "ask" => acReq'[s].new # acReq[q].knows
      BY <2>0, <2>2, <3>2, <1>3, <1>7 DEF AccInv, AccRecovered, Asks
    <3>. QED BY <2>0, <2>2, <3>2, <3>3 DEF AccInv, AccRecovered, Asks
  <2>. QED BY <2>0, <1>2, <1>4, <2>1, <2>2 DEF AccInv, AccRecovered, Asks
<1>14. AccLogged'
  <2>. SUFFICES ASSUME "magic" \notin acLog'.raced, ~acLog'.crashed
                PROVE  AccLogged'
    BY DEF AccLogged
  <2>0. "magic" \notin acLog.raced /\ ~acLog.crashed
    BY <1>4
  <2>1. ASSUME NEW s \in Acc!Secrets, acLog.logins[s] > 0, s = account.link
        PROVE  \E q \in Slots : acReq'[q].kind = "magic" /\ acPc'[q] = "out" /\ acReq'[q].knows = s
    <3>1. PICK q \in Slots : acReq[q].kind = "magic" /\ acPc[q] = "out" /\ acReq[q].knows = s
      BY <2>0, <2>1 DEF AccInv, AccLogged, Asks
    <3>2. q # r
      BY <3>1, <1>6
    <3>. QED BY <3>1, <3>2, <1>3
  <2>2. ASSUME NEW q \in Slots, Relinks(q)' PROVE acReq'[q].new = n \/ (Relinks(q) /\ acReq'[q] = acReq[q])
    BY <2>2, <1>3 DEF Relinks, Asks
  <2>3. \A q \in Slots : Relinks(q)' => acReq'[q].new # account.link /\ acLog.logins[acReq'[q].new] = 0
    BY <2>0, <2>2, <1>8 DEF AccInv, AccLogged
  <2>4. ASSUME NEW q \in Slots, acReq'[q].kind = "magic", acPc'[q] = "out"
        PROVE  /\ "login" \in acReq'[q].left => acLog.logins[acReq'[q].knows] = 0
               /\ "relink" \in acReq'[q].left \/ acReq'[q].knows # account.link
               /\ \A s \in Slots : Relinks(s)' => acReq'[s].new # acReq'[q].knows
    <3>1. q # r
      BY <2>4, <1>2, <1>3
    <3>2. acPc'[q] = acPc[q] /\ acReq'[q] = acReq[q]
      BY <3>1, <1>3
    <3>3. \A s \in Slots : Relinks(s)' => acReq'[s].new # acReq[q].knows
      BY <2>0, <2>2, <2>4, <3>2, <1>7 DEF AccInv, AccLogged, Asks
    <3>. QED BY <2>0, <2>4, <3>2, <3>3 DEF AccInv, AccLogged, Asks
  <2>5. \A s \in Acc!Secrets : acLog.logins[s] <= 1
    BY <2>0 DEF AccInv, AccLogged
  <2>. QED BY <1>2, <1>4, <2>1, <2>3, <2>4, <2>5 DEF AccLogged, Asks
<1>15. AccGone'
  <2>1. ASSUME NEW q \in Slots, acReq'[q].kind = "restore" PROVE acLog'.restored
    BY <2>1, <1>3, <1>4 DEF AccInv, AccGone, Asks
  <2>2. ASSUME account.gone, ~acLog'.crashed, ~acLog'.restored, ~account.revoked
        PROVE  \E q \in Slots : acReq'[q].kind = "terminate" /\ acPc'[q] = "out"
    <3>1. PICK q \in Slots : acReq[q].kind = "terminate" /\ acPc[q] = "out"
      BY <2>2, <1>4 DEF AccInv, AccGone, Asks
    <3>2. q # r
      BY <3>1, <1>6
    <3>. QED BY <3>1, <3>2, <1>3
  <2>. QED BY <1>2, <2>1, <2>2 DEF AccGone, Asks
<1>16. AccInvited'
  <2>. SUFFICES ASSUME "invite" \notin acLog'.raced, ~acLog'.padded
                PROVE  AccInvited'
    BY DEF AccInvited
  <2>1. "invite" \notin acLog.raced /\ ~acLog.padded /\ ~p
    BY <1>4
  <2>2. ASSUME NEW q \in Slots
        PROVE  ~acReq'[q].padded /\ (acReq'[q].kind = "invite" /\ acPc'[q] = "write" => names[acReq'[q].name] = 0)
    <3>1. CASE q = r
      BY <3>1, <2>1, <1>2, <1>3
    <3>2. CASE q # r
      BY <3>2, <2>1, <1>3 DEF AccInv, AccInvited, Asks
    <3>. QED BY <3>1, <3>2
  <2>. QED BY <2>1, <2>2, <1>2 DEF AccInv, AccInvited, Asks
<1>. QED BY <1>9, <1>10, <1>11, <1>12, <1>13, <1>14, <1>15, <1>16 DEF AccInv

\* MagicOut: one of the login and the new link comes first
LEMMA AccMagicOutStep ==
    ASSUME AccInv, NEW r \in Slots, Acc!MagicOut(r)
    PROVE  AccInv'
<1>1. /\ acReq[r].kind = "magic" /\ acPc[r] = "out" /\ acReq[r].left \subseteq {"login", "relink"}
      /\ acReq[r] \in Asking
  BY DEF AccInv, AccTypes, Asking, Acc!MagicOut, Acc!At
<1>. DEFINE Ends == acReq'[r] = Acc!NoRequest /\ acPc'[r] = "idle"
            Stays == /\ acReq'[r].kind = "magic" /\ acReq'[r].new = acReq[r].new /\ acReq'[r].knows = acReq[r].knows
                     /\ acReq'[r].padded = acReq[r].padded /\ acPc'[r] = "out"
<1>2. PICK what \in acReq[r].left :
        /\ IF what = "login"
           THEN acLog' = [acLog EXCEPT !.logins[acReq[r].knows] = @ + 1] /\ UNCHANGED account
           ELSE account' = [account EXCEPT !.link = acReq[r].new] /\ UNCHANGED acLog
        /\ IF acReq[r].left = {what} THEN Acc!Done(r)
           ELSE acReq' = [acReq EXCEPT ![r].left = @ \ {what}] /\ UNCHANGED acPc
  BY DEF Acc!MagicOut
<1>3. code' = code /\ names' = names
  BY DEF Acc!MagicOut
<1>4. \A q \in Slots \ {r} : acPc'[q] = acPc[q] /\ acReq'[q] = acReq[q]
  BY <1>2 DEF AccInv, AccTypes, Acc!Done
<1>5. /\ acReq[r].left = {what} => Ends
      /\ acReq[r].left # {what} => Stays /\ acReq'[r].left = acReq[r].left \ {what}
  BY <1>1, <1>2 DEF AccInv, AccTypes, Asking, Acc!Done
<1>6. acReq'[r].padded => acReq[r].padded
  BY <1>5, AccNothing
<1>7. acPc' \in [Slots -> Acc!PCs] /\ acReq' \in [Slots -> Asking]
  <2>1. CASE acReq[r].left = {what}
    BY <2>1, <1>2, AccNothing DEF AccInv, AccTypes, Acc!Done, Acc!PCs
  <2>2. CASE acReq[r].left # {what}
    BY <2>2, <1>2 DEF AccInv, AccTypes, Asking
  <2>. QED BY <2>1, <2>2
<1>8. acReq'[r].kind \in {"magic", "idle"} /\ (acReq'[r].kind = "idle" <=> Ends) /\ (~Ends => Stays)
  BY <1>5, AccNothing
<1>9. acLog'.jobs = acLog.jobs /\ acLog'.raced = acLog.raced /\ acLog'.padded = acLog.padded
      /\ acLog'.restored = acLog.restored /\ acLog'.crashed = acLog.crashed
      /\ acLog'.changes = acLog.changes /\ acLog'.recoveries = acLog.recoveries
  BY <1>2 DEF AccInv, AccTypes
<1>10. /\ account'.password = account.password /\ account'.revoked = account.revoked /\ account'.gone = account.gone
  BY <1>2 DEF AccInv, AccTypes
<1>11. AccSlots'
  <2>1. CASE Ends
    BY <2>1, <1>4, <1>9, AccFreed
  <2>2. CASE Stays
    BY <2>2, <1>1, <1>4, <1>9, AccWentOn DEF Asks, Acc!PCs
  <2>. QED BY <1>8, <2>1, <2>2
<1>12. AccChanged' /\ AccRecovered'
  BY <1>3, <1>4, <1>8, <1>9, <1>10, AccChangedSame, AccRecoveredSame DEF Asks
<1>13. AccGone'
  BY <1>1, <1>4, <1>8, <1>9, <1>10 DEF AccInv, AccGone, Asks
<1>14. AccInvited'
  <2>1. \A q \in Slots : acReq'[q].kind = "invite" => acReq'[q] = acReq[q] /\ acPc'[q] = acPc[q]
    BY <1>4, <1>8
  <2>2. \A q \in Slots : acReq'[q].padded => acReq[q].padded
    BY <1>4, <1>6
  <2>. QED BY <1>3, <1>9, <2>1, <2>2 DEF AccInv, AccInvited, Asks
<1>15. \A q \in Slots : Relinks(q)' => Relinks(q) /\ acReq'[q].new = acReq[q].new
  <2>1. ASSUME Relinks(r)' PROVE Relinks(r) /\ acReq'[r].new = acReq[r].new
    <3>1. Stays /\ "relink" \in acReq'[r].left
      BY <2>1, <1>8, AccNothing DEF Relinks, Asks
    <3>2. "relink" \in acReq[r].left
      BY <3>1, <1>5, AccNothing
    <3>. QED BY <3>1, <3>2, <1>1 DEF Relinks, Asks
  <2>. QED BY <2>1, <1>4 DEF Relinks, Asks
<1>16. CASE what = "login"
  <2>1. account' = account /\ acLog' = [acLog EXCEPT !.logins = [acLog.logins EXCEPT ![acReq[r].knows] = acLog.logins[acReq[r].knows] + 1]]
    BY <1>2, <1>16 DEF AccInv, AccTypes
  <2>2. /\ acLog'.logins \in Counts
        /\ acLog'.logins[acReq[r].knows] = acLog.logins[acReq[r].knows] + 1
        /\ \A s \in Acc!Secrets \ {acReq[r].knows} : acLog'.logins[s] = acLog.logins[s]
    <3>1. acLog'.logins = [acLog.logins EXCEPT ![acReq[r].knows] = acLog.logins[acReq[r].knows] + 1]
      BY <2>1 DEF AccInv, AccTypes
    <3>2. acLog.logins \in Counts /\ acReq[r].knows \in Acc!Secrets
      BY <1>1 DEF AccInv, AccTypes, Asking
    <3>. QED BY <3>1, <3>2, AccBumped
  <2>3. AccTypes'
    <3>1. acLog' \in [jobs : Acc!Secrets, changes : Counts, recoveries : Counts, logins : Counts,
                      raced : SUBSET Acc!Kinds, padded : BOOLEAN, restored : BOOLEAN, crashed : BOOLEAN]
      <4>1. [acLog.logins EXCEPT ![acReq[r].knows] = acLog.logins[acReq[r].knows] + 1] \in Counts
        BY <1>1, AccBumped DEF AccInv, AccTypes, Asking
      <4>. QED BY <2>1, <4>1 DEF AccInv, AccTypes
    <3>. QED BY <1>3, <1>7, <2>1, <3>1 DEF AccInv, AccTypes
  <2>4. AccBounds'
    <3>1. \A s \in Acc!Secrets : s > acLog.jobs => s # acReq[r].knows
      BY JobsAssumption DEF AccInv, AccTypes, AccSlots, Asking, Acc!Secrets
    <3>. QED BY <1>3, <1>9, <2>1, <2>2, <3>1 DEF AccInv, AccBounds
  <2>5. AccLogged'
    <3>. SUFFICES ASSUME "magic" \notin acLog.raced, ~acLog.crashed
                  PROVE  AccLogged'
      BY <1>9 DEF AccLogged
    <3>1. \A q \in Slots : Asks(q, {"magic"}) => q = r
      BY <1>1 DEF AccInv, AccSlots, Active, Asks
    <3>2. acLog.logins[acReq[r].knows] = 0
      BY <1>1, <1>16 DEF AccInv, AccLogged, Asks
    <3>3. acReq[r].knows \in Acc!Secrets
      BY <1>1 DEF Asking
    <3>4. \A s \in Acc!Secrets : acLog'.logins[s] <= 1
      BY <2>2, <3>2 DEF AccInv, AccLogged
    <3>5. \A q \in Slots : Relinks(q) => acReq[q].new # acReq[r].knows
      BY <1>1 DEF AccInv, AccLogged, Asks
    <3>6. \A q \in Slots : acReq[q].new \in Acc!Secrets
      BY DEF AccInv, AccTypes, Asking
    <3>7. \A q \in Slots : Relinks(q)' => acReq'[q].new # account.link /\ acLog'.logins[acReq'[q].new] = 0
      BY <1>15, <2>2, <3>5, <3>6 DEF AccInv, AccLogged
    <3>8. \A s \in Acc!Secrets : acLog'.logins[s] > 0 /\ s = account.link =>
             \E q \in Slots : acReq'[q].kind = "magic" /\ acPc'[q] = "out" /\ acReq'[q].knows = s
      <4>. SUFFICES ASSUME NEW s \in Acc!Secrets, acLog'.logins[s] > 0, s = account.link
                    PROVE  \E q \in Slots : acReq'[q].kind = "magic" /\ acPc'[q] = "out" /\ acReq'[q].knows = s
        OBVIOUS
      <4>1. s = acReq[r].knows
        <5>1. CASE acLog.logins[s] > 0
          BY <5>1, <3>1 DEF AccInv, AccLogged
        <5>2. CASE s # acReq[r].knows
          BY <5>1, <5>2, <2>2
        <5>. QED BY <5>2
      <4>2. "relink" \in acReq[r].left
        BY <4>1, <1>1 DEF AccInv, AccLogged, Asks
      <4>3. acReq[r].left # {what}
        BY <4>2, <1>16
      <4>. QED BY <4>1, <4>3, <1>5
    <3>9. ASSUME NEW q \in Slots, acReq'[q].kind = "magic", acPc'[q] = "out"
          PROVE  /\ "login" \in acReq'[q].left => acLog'.logins[acReq'[q].knows] = 0
                 /\ "relink" \in acReq'[q].left \/ acReq'[q].knows # account.link
                 /\ \A p \in Slots : Relinks(p)' => acReq'[p].new # acReq'[q].knows
      <4>1. q = r
        BY <1>4, <3>1, <3>9 DEF Asks
      <4>2. Stays /\ acReq'[r].left = acReq[r].left \ {"login"}
        BY <1>5, <1>16, <3>9, <4>1
      <4>3. "relink" \in acReq[r].left \/ acReq[r].knows # account.link
        BY <1>1 DEF AccInv, AccLogged, Asks
      <4>. QED BY <1>15, <3>5, <4>1, <4>2, <4>3
    <3>. QED BY <1>9, <2>1, <3>4, <3>7, <3>8, <3>9 DEF AccLogged, Asks
  <2>. QED BY <1>11, <1>12, <1>13, <1>14, <2>3, <2>4, <2>5 DEF AccInv
<1>17. CASE what # "login"
  <2>0. what = "relink"
    BY <1>1, <1>17
  <2>1. /\ account' = [account EXCEPT !.link = acReq[r].new] /\ acLog' = acLog /\ account'.link = acReq[r].new
    BY <1>2, <1>17 DEF AccInv, AccTypes
  <2>2. AccTypes'
    <3>1. account' \in [password : Acc!Secrets, link : Acc!Secrets, must : BOOLEAN, revoked : BOOLEAN, gone : BOOLEAN]
      BY <1>1, <2>1 DEF AccInv, AccTypes, Asking
    <3>. QED BY <1>3, <1>7, <2>1, <3>1 DEF AccInv, AccTypes
  <2>3. acReq[r].new <= acLog.jobs /\ acReq[r].new \in Acc!Secrets
    BY <1>1 DEF AccInv, AccTypes, AccSlots, Active, Asking
  <2>4. AccBounds'
    BY <1>3, <1>10, <2>1, <2>3 DEF AccInv, AccBounds
  <2>5. AccLogged'
    <3>. SUFFICES ASSUME "magic" \notin acLog.raced, ~acLog.crashed
                  PROVE  AccLogged'
      BY <2>1 DEF AccLogged
    <3>1. \A q \in Slots : Asks(q, {"magic"}) => q = r
      BY <1>1 DEF AccInv, AccSlots, Active, Asks
    <3>2. Relinks(r)
      BY <1>1, <2>0 DEF Relinks, Asks
    <3>3. acLog.logins[acReq[r].new] = 0 /\ acReq[r].new # acReq[r].knows
      BY <1>1, <3>2 DEF AccInv, AccLogged, Asks
    <3>4. ~Relinks(r)'
      <4>1. "relink" \notin acReq'[r].left
        BY <1>5, <2>0, AccNothing
      <4>. QED BY <1>8, <4>1 DEF Relinks, Asks
    <3>5. ASSUME NEW q \in Slots, Relinks(q)'
          PROVE  acReq'[q].new # acReq[r].new /\ acLog.logins[acReq'[q].new] = 0
      <4>1. q # r /\ Relinks(q) /\ acReq'[q].new = acReq[q].new
        BY <1>15, <3>4, <3>5
      <4>2. acReq[q].new # acReq[r].new
        BY <1>1, <4>1 DEF AccInv, AccSlots, Active, Relinks, Asks
      <4>. QED BY <4>1, <4>2 DEF AccInv, AccLogged
    <3>6. ASSUME NEW q \in Slots, acReq'[q].kind = "magic", acPc'[q] = "out"
          PROVE  /\ "login" \in acReq'[q].left => acLog.logins[acReq'[q].knows] = 0
                 /\ acReq'[q].knows # acReq[r].new
                 /\ \A p \in Slots : Relinks(p)' => acReq'[p].new # acReq'[q].knows
      <4>1. q = r
        BY <1>4, <3>1, <3>6 DEF Asks
      <4>2. Stays /\ acReq'[r].left = acReq[r].left \ {"relink"}
        BY <1>5, <2>0, <3>6, <4>1, AccNothing
      <4>3. "login" \in acReq[r].left => acLog.logins[acReq[r].knows] = 0
        BY <1>1 DEF AccInv, AccLogged, Asks
      <4>4. \A p \in Slots : Relinks(p) => acReq[p].new # acReq[r].knows
        BY <1>1 DEF AccInv, AccLogged, Asks
      <4>. QED BY <1>15, <3>3, <4>1, <4>2, <4>3, <4>4
    <3>7. \A s \in Acc!Secrets : acLog.logins[s] <= 1 /\ (acLog.logins[s] > 0 => s # acReq[r].new)
      BY <3>3 DEF AccInv, AccLogged
    <3>. QED BY <2>1, <3>5, <3>6, <3>7 DEF AccLogged, Asks
  <2>. QED BY <1>11, <1>12, <1>13, <1>14, <2>2, <2>4, <2>5 DEF AccInv
<1>. QED BY <1>16, <1>17

\* updatePassword
LEMMA AccPasswordSteps ==
    ASSUME AccInv, NEW r \in Slots,
           Acc!ChangeFind(r) \/ Acc!ChangeWrite(r)
    PROVE  AccInv'
<1>1. ASSUME Acc!ChangeFind(r), Acc!MayChange(r) PROVE AccInv'
  <2>1. /\ acReq[r].kind = "change" /\ acPc[r] = "find"
        /\ acReq' = acReq /\ acPc'[r] = "write"
        /\ \A q \in Slots \ {r} : acPc'[q] = acPc[q] /\ acReq'[q] = acReq[q]
        /\ account' = account
        /\ code' = code /\ names' = names
        /\ acLog' = acLog
    BY <1>1, AccNothing DEF AccInv, AccTypes, Asking, Asks, Acc!At, Acc!Goto, Acc!Done, Acc!ChangeFind, Acc!MayChange
  <2>2. AccTypes'
    BY <1>1, <2>1, AccNothing, JobsAssumption DEF AccInv, AccTypes, Asking, Counts, Acc!PCs, Acc!Kinds, Acc!At, Acc!Goto, Acc!Done, Acc!ChangeFind, Acc!MayChange
  <2>3. AccSlots'
    BY <2>1, AccWentOn DEF AccInv, AccTypes, Asking, Acc!PCs, Asks, Acc!Kinds
  <2>4. AccBounds'
    BY <2>1, AccBoundsSame
  <2>5. AccChanged'
    BY <2>1, AccChangedSame DEF Asks
  <2>6. AccRecovered'
    BY <2>1, AccRecoveredSame DEF Asks
  <2>7. AccLogged'
    BY <2>1, AccLoggedSame DEF Asks
  <2>8. AccGone'
    BY <2>1 DEF AccInv, AccGone, Asks
  <2>9. AccInvited'
    BY <2>1 DEF AccInv, AccTypes, AccInvited, AccSlots, Asks, Active
  <2>. QED BY <2>2, <2>3, <2>4, <2>5, <2>6, <2>7, <2>8, <2>9 DEF AccInv
<1>2. ASSUME Acc!ChangeFind(r), ~Acc!MayChange(r) PROVE AccInv'
  BY <1>2, AccGaveUp DEF Acc!ChangeFind, Acc!At, Asks
<1>3. ASSUME Acc!ChangeWrite(r), Acc!MayChange(r), account.must PROVE AccInv'
  <2>1. /\ acReq[r].kind = "change" /\ acPc[r] = "write"
        /\ acPc'[r] = "idle" /\ acReq'[r] = Acc!NoRequest /\ acReq'[r].kind = "idle" /\ acReq'[r].padded = FALSE
        /\ \A q \in Slots \ {r} : acPc'[q] = acPc[q] /\ acReq'[q] = acReq[q]
        /\ account'.password = acReq[r].new
        /\ account'.must = FALSE
        /\ account'.link = account.link /\ account'.revoked = account.revoked /\ account'.gone = account.gone
        /\ code' = code /\ names' = names
        /\ acLog' = acLog
    BY <1>3, AccNothing DEF AccInv, AccTypes, Asking, Asks, Acc!At, Acc!Goto, Acc!Done, Acc!ChangeWrite, Acc!Change
  <2>2. AccTypes'
    BY <1>3, <2>1, AccNothing, JobsAssumption DEF AccInv, AccTypes, Asking, Counts, Acc!PCs, Acc!Kinds, Acc!At, Acc!Goto, Acc!Done, Acc!ChangeWrite, Acc!Change
  <2>3. AccSlots'
    BY <2>1, AccFreed
  <2>4. AccBounds'
    BY <2>1, AccNothing, JobsAssumption DEF AccInv, AccTypes, Asking, Counts, AccSlots, AccBounds, Active, Asks, Acc!None, AccBounds
  <2>5. AccChanged'
    BY <2>1, AccPasswordWritten DEF Asks
  <2>6. AccRecovered'
    BY <2>1, AccRecoveredSame DEF Asks
  <2>7. AccLogged'
    BY <2>1, AccLoggedSame DEF Asks
  <2>8. AccGone'
    BY <2>1 DEF AccInv, AccGone, Asks
  <2>9. AccInvited'
    BY <2>1 DEF AccInv, AccTypes, AccInvited, AccSlots, Asks, Active
  <2>. QED BY <2>2, <2>3, <2>4, <2>5, <2>6, <2>7, <2>8, <2>9 DEF AccInv
<1>4. ASSUME Acc!ChangeWrite(r), Acc!MayChange(r), ~account.must PROVE AccInv'
  <2>1. /\ acReq[r].kind = "change" /\ acPc[r] = "write"
        /\ account.password = acReq[r].knows
        /\ acPc'[r] = "idle" /\ acReq'[r] = Acc!NoRequest /\ acReq'[r].kind = "idle" /\ acReq'[r].padded = FALSE
        /\ \A q \in Slots \ {r} : acPc'[q] = acPc[q] /\ acReq'[q] = acReq[q]
        /\ account'.password = acReq[r].new
        /\ account'.must = FALSE
        /\ account'.link = account.link /\ account'.revoked = account.revoked /\ account'.gone = account.gone
        /\ code' = code /\ names' = names
        /\ acLog'.changes = [acLog.changes EXCEPT ![acReq[r].knows] = acLog.changes[acReq[r].knows] + 1]
        /\ acLog'.jobs = acLog.jobs /\ acLog'.recoveries = acLog.recoveries /\ acLog'.logins = acLog.logins
        /\ acLog'.raced = acLog.raced /\ acLog'.padded = acLog.padded /\ acLog'.restored = acLog.restored
        /\ acLog'.crashed = acLog.crashed
    BY <1>4, AccNothing DEF AccInv, AccTypes, Asking, Asks, Acc!At, Acc!Goto, Acc!Done, Acc!ChangeWrite, Acc!Change, Acc!MayChange
  <2>2. AccTypes'
    <3>1. acLog' \in [jobs : Acc!Secrets, changes : Counts, recoveries : Counts, logins : Counts,
                      raced : SUBSET Acc!Kinds, padded : BOOLEAN, restored : BOOLEAN, crashed : BOOLEAN]
      <4>1. acLog' = [acLog EXCEPT !.changes = [acLog.changes EXCEPT ![acReq[r].knows] = acLog.changes[acReq[r].knows] + 1]]
        BY <1>4, <2>1 DEF Acc!ChangeWrite, Acc!Change
      <4>2. [acLog.changes EXCEPT ![acReq[r].knows] = acLog.changes[acReq[r].knows] + 1] \in Counts
        BY AccBumped DEF AccInv, AccTypes, Asking
      <4>. QED BY <4>1, <4>2 DEF AccInv, AccTypes
    <3>2. acPc' \in [Slots -> Acc!PCs] /\ acReq' \in [Slots -> Asking]
      BY <1>4, AccNothing DEF AccInv, AccTypes, Acc!PCs, Acc!Done, Acc!ChangeWrite, Acc!Change
    <3>3. account' \in [password : Acc!Secrets, link : Acc!Secrets, must : BOOLEAN, revoked : BOOLEAN, gone : BOOLEAN]
      BY <1>4 DEF AccInv, AccTypes, Asking, Acc!ChangeWrite, Acc!Change
    <3>. QED BY <2>1, <3>1, <3>2, <3>3 DEF AccInv, AccTypes
  <2>3. AccSlots'
    BY <2>1, AccFreed
  <2>4. AccBounds'
    BY <2>1, AccBumped, JobsAssumption DEF AccInv, AccTypes, AccSlots, AccBounds, Asking, Active, Acc!Secrets
  <2>5. AccChanged'
    BY <2>1, AccNothing, JobsAssumption DEF AccInv, AccTypes, Asking, Counts, AccSlots, AccBounds, Active, Asks, Acc!None, AccChanged
  <2>6. AccRecovered'
    BY <2>1, AccRecoveredSame DEF Asks
  <2>7. AccLogged'
    BY <2>1, AccLoggedSame DEF Asks
  <2>8. AccGone'
    BY <2>1 DEF AccInv, AccGone, Asks
  <2>9. AccInvited'
    BY <2>1 DEF AccInv, AccTypes, AccInvited, AccSlots, Asks, Active
  <2>. QED BY <2>2, <2>3, <2>4, <2>5, <2>6, <2>7, <2>8, <2>9 DEF AccInv
<1>5. ASSUME Acc!ChangeWrite(r), ~Acc!MayChange(r) PROVE AccInv'
  BY <1>5, AccGaveUp DEF Acc!ChangeWrite, Acc!At, Asks
<1>. QED BY <1>1, <1>2, <1>3, <1>4, <1>5 DEF Acc!ChangeFind, Acc!ChangeWrite, Acc!MayChange

\* lib/passwordrecovery.js
LEMMA AccRecoverySteps ==
    ASSUME AccInv, NEW r \in Slots,
           Acc!AskFind(r) \/ Acc!AskWrite(r) \/ Acc!UseFind(r) \/ Acc!UseUnset(r) \/ Acc!UseWrite(r)
    PROVE  AccInv'
<1>1. ASSUME Acc!AskFind(r), Acc!Goto(r, "write") PROVE AccInv'
  <2>1. /\ acReq[r].kind = "ask" /\ acPc[r] = "find"
        /\ acReq' = acReq /\ acPc'[r] = "write"
        /\ \A q \in Slots \ {r} : acPc'[q] = acPc[q] /\ acReq'[q] = acReq[q]
        /\ account' = account
        /\ code' = code /\ names' = names
        /\ acLog' = acLog
    BY <1>1, AccNothing DEF AccInv, AccTypes, Asking, Asks, Acc!At, Acc!Goto, Acc!Done, Acc!AskFind
  <2>2. AccTypes'
    BY <1>1, <2>1, AccNothing, JobsAssumption DEF AccInv, AccTypes, Asking, Counts, Acc!PCs, Acc!Kinds, Acc!At, Acc!Goto, Acc!Done, Acc!AskFind
  <2>3. AccSlots'
    BY <2>1, AccWentOn DEF AccInv, AccTypes, Asking, Acc!PCs, Asks, Acc!Kinds
  <2>4. AccBounds'
    BY <2>1, AccBoundsSame
  <2>5. AccChanged'
    BY <2>1, AccChangedSame DEF Asks
  <2>6. AccRecovered'
    BY <2>1, AccNothing, JobsAssumption DEF AccInv, AccTypes, Asking, Counts, AccSlots, AccBounds, Active, Asks, Acc!None, AccRecovered
  <2>7. AccLogged'
    BY <2>1, AccLoggedSame DEF Asks
  <2>8. AccGone'
    BY <2>1 DEF AccInv, AccGone, Asks
  <2>9. AccInvited'
    BY <2>1 DEF AccInv, AccTypes, AccInvited, AccSlots, Asks, Active
  <2>. QED BY <2>2, <2>3, <2>4, <2>5, <2>6, <2>7, <2>8, <2>9 DEF AccInv
<1>2. ASSUME Acc!AskFind(r), Acc!Done(r) PROVE AccInv'
  BY <1>2, AccGaveUp DEF Acc!AskFind, Acc!At, Asks
<1>3. ASSUME Acc!AskWrite(r) PROVE AccInv'
  <2>1. /\ acReq[r].kind = "ask" /\ acPc[r] = "write"
        /\ acPc'[r] = "idle" /\ acReq'[r] = Acc!NoRequest /\ acReq'[r].kind = "idle" /\ acReq'[r].padded = FALSE
        /\ \A q \in Slots \ {r} : acPc'[q] = acPc[q] /\ acReq'[q] = acReq[q]
        /\ account' = account
        /\ code' = acReq[r].new /\ names' = names
        /\ acLog' = acLog
    BY <1>3, AccNothing DEF AccInv, AccTypes, Asking, Asks, Acc!At, Acc!Goto, Acc!Done, Acc!AskWrite
  <2>2. AccTypes'
    BY <1>3, <2>1, AccNothing, JobsAssumption DEF AccInv, AccTypes, Asking, Counts, Acc!PCs, Acc!Kinds, Acc!At, Acc!Goto, Acc!Done, Acc!AskWrite
  <2>3. AccSlots'
    BY <2>1, AccFreed
  <2>4. AccBounds'
    BY <2>1, AccNothing, JobsAssumption DEF AccInv, AccTypes, Asking, Counts, AccSlots, AccBounds, Active, Asks, Acc!None, AccBounds
  <2>5. AccChanged'
    BY <2>1, AccChangedSame DEF Asks
  <2>6. AccRecovered'
    BY <2>1, AccNothing, JobsAssumption DEF AccInv, AccTypes, Asking, Counts, AccSlots, AccBounds, Active, Asks, Acc!None, AccRecovered
  <2>7. AccLogged'
    BY <2>1, AccLoggedSame DEF Asks
  <2>8. AccGone'
    BY <2>1 DEF AccInv, AccGone, Asks
  <2>9. AccInvited'
    BY <2>1 DEF AccInv, AccTypes, AccInvited, AccSlots, Asks, Active
  <2>. QED BY <2>2, <2>3, <2>4, <2>5, <2>6, <2>7, <2>8, <2>9 DEF AccInv
<1>4. ASSUME Acc!UseFind(r), code = acReq[r].knows PROVE AccInv'
  <2>1. /\ acReq[r].kind = "use" /\ acPc[r] = "find"
        /\ acReq' = acReq /\ acPc'[r] = "out"
        /\ \A q \in Slots \ {r} : acPc'[q] = acPc[q] /\ acReq'[q] = acReq[q]
        /\ account' = account
        /\ code' = code /\ names' = names
        /\ acLog' = acLog
    BY <1>4, AccNothing DEF AccInv, AccTypes, Asking, Asks, Acc!At, Acc!Goto, Acc!Done, Acc!UseFind
  <2>2. AccTypes'
    BY <1>4, <2>1, AccNothing, JobsAssumption DEF AccInv, AccTypes, Asking, Counts, Acc!PCs, Acc!Kinds, Acc!At, Acc!Goto, Acc!Done, Acc!UseFind
  <2>3. AccSlots'
    BY <2>1, AccWentOn DEF AccInv, AccTypes, Asking, Acc!PCs, Asks, Acc!Kinds
  <2>4. AccBounds'
    BY <2>1, AccBoundsSame
  <2>5. AccChanged'
    BY <2>1, AccChangedSame DEF Asks
  <2>6. AccRecovered'
    <3>. SUFFICES ASSUME "use" \notin acLog.raced
                  PROVE  AccRecovered'
      BY <2>1 DEF AccRecovered
    <3>1. acLog.recoveries[code] = 0 /\ \A q \in Slots : Asks(q, {"ask"}) => acReq[q].new # code
      <4>1. code \in Acc!Secrets
        BY <1>4 DEF AccInv, AccTypes, Asking
      <4>. QED BY <4>1 DEF AccInv, AccTypes, AccRecovered, Counts
    <3>2. ASSUME NEW q \in Slots, Asks(q, {"use"}), acPc'[q] \in {"out", "write"}
          PROVE  /\ acLog.recoveries[acReq[q].knows] = 0
                 /\ \A p \in Slots : Asks(p, {"ask"}) => acReq[p].new # acReq[q].knows
                 /\ acPc'[q] = "write" => acReq[q].knows # code
      <4>1. CASE q = r
        BY <4>1, <1>4, <2>1, <3>1
      <4>2. CASE q # r
        BY <4>2, <2>1, <3>2 DEF AccInv, AccRecovered
      <4>. QED BY <4>1, <4>2
    <3>. QED BY <2>1, <3>2 DEF AccInv, AccRecovered, Asks
  <2>7. AccLogged'
    BY <2>1, AccLoggedSame DEF Asks
  <2>8. AccGone'
    BY <2>1 DEF AccInv, AccGone, Asks
  <2>9. AccInvited'
    BY <2>1 DEF AccInv, AccTypes, AccInvited, AccSlots, Asks, Active
  <2>. QED BY <2>2, <2>3, <2>4, <2>5, <2>6, <2>7, <2>8, <2>9 DEF AccInv
<1>5. ASSUME Acc!UseFind(r), code # acReq[r].knows PROVE AccInv'
  BY <1>5, AccGaveUp DEF Acc!UseFind, Acc!At, Asks
<1>6. ASSUME Acc!UseUnset(r) PROVE AccInv'
  <2>1. /\ acReq[r].kind = "use" /\ acPc[r] = "out"
        /\ acReq' = acReq /\ acPc'[r] = "write"
        /\ \A q \in Slots \ {r} : acPc'[q] = acPc[q] /\ acReq'[q] = acReq[q]
        /\ account' = account
        /\ code' = Acc!None /\ names' = names
        /\ acLog' = acLog
    BY <1>6, AccNothing DEF AccInv, AccTypes, Asking, Asks, Acc!At, Acc!Goto, Acc!Done, Acc!UseUnset
  <2>2. AccTypes'
    BY <1>6, <2>1, AccNothing, JobsAssumption DEF AccInv, AccTypes, Asking, Counts, Acc!PCs, Acc!Kinds, Acc!At, Acc!Goto, Acc!Done, Acc!UseUnset
  <2>3. AccSlots'
    BY <2>1, AccWentOn DEF AccInv, AccTypes, Asking, Acc!PCs, Asks, Acc!Kinds
  <2>4. AccBounds'
    BY <2>1, JobsAssumption DEF AccInv, AccTypes, AccBounds, Acc!None, Acc!Secrets
  <2>5. AccChanged'
    BY <2>1, AccChangedSame DEF Asks
  <2>6. AccRecovered'
    <3>. SUFFICES ASSUME "use" \notin acLog.raced
                  PROVE  AccRecovered'
      BY <2>1 DEF AccRecovered
    <3>1. \A s \in Acc!Secrets : s # Acc!None
      BY JobsAssumption DEF Acc!Secrets, Acc!None
    <3>2. ASSUME NEW q \in Slots, Asks(q, {"use"}), acPc'[q] \in {"out", "write"}
          PROVE  /\ acLog.recoveries[acReq[q].knows] = 0
                 /\ \A p \in Slots : Asks(p, {"ask"}) => acReq[p].new # acReq[q].knows
      <4>1. acPc[q] \in {"out", "write"}
        BY <2>1, <3>2
      <4>. QED BY <4>1, <3>2 DEF AccInv, AccRecovered
    <3>3. \A q \in Slots : acReq[q].new \in Acc!Secrets /\ acReq[q].knows \in Acc!Secrets
      BY DEF AccInv, AccTypes, Asking
    <3>. QED BY <2>1, <3>1, <3>2, <3>3 DEF AccInv, AccRecovered, Asks
  <2>7. AccLogged'
    BY <2>1, AccLoggedSame DEF Asks
  <2>8. AccGone'
    BY <2>1 DEF AccInv, AccGone, Asks
  <2>9. AccInvited'
    BY <2>1 DEF AccInv, AccTypes, AccInvited, AccSlots, Asks, Active
  <2>. QED BY <2>2, <2>3, <2>4, <2>5, <2>6, <2>7, <2>8, <2>9 DEF AccInv
<1>7. ASSUME Acc!UseWrite(r) PROVE AccInv'
  <2>1. /\ acReq[r].kind = "use" /\ acPc[r] = "write"
        /\ acPc'[r] = "idle" /\ acReq'[r] = Acc!NoRequest /\ acReq'[r].kind = "idle" /\ acReq'[r].padded = FALSE
        /\ \A q \in Slots \ {r} : acPc'[q] = acPc[q] /\ acReq'[q] = acReq[q]
        /\ account'.password = acReq[r].new
        /\ account'.link = account.link /\ account'.must = account.must /\ account'.revoked = account.revoked
        /\ account'.gone = account.gone
        /\ code' = code /\ names' = names
        /\ acLog'.recoveries = [acLog.recoveries EXCEPT ![acReq[r].knows] = acLog.recoveries[acReq[r].knows] + 1]
        /\ acLog'.jobs = acLog.jobs /\ acLog'.changes = acLog.changes /\ acLog'.logins = acLog.logins
        /\ acLog'.raced = acLog.raced /\ acLog'.padded = acLog.padded /\ acLog'.restored = acLog.restored
        /\ acLog'.crashed = acLog.crashed
    BY <1>7, AccNothing DEF AccInv, AccTypes, Asking, Asks, Acc!At, Acc!Goto, Acc!Done, Acc!UseWrite
  <2>2. AccTypes'
    <3>1. acLog' \in [jobs : Acc!Secrets, changes : Counts, recoveries : Counts, logins : Counts,
                      raced : SUBSET Acc!Kinds, padded : BOOLEAN, restored : BOOLEAN, crashed : BOOLEAN]
      <4>1. acLog' = [acLog EXCEPT !.recoveries = [acLog.recoveries EXCEPT ![acReq[r].knows] = acLog.recoveries[acReq[r].knows] + 1]]
        BY <1>7, <2>1 DEF Acc!UseWrite
      <4>2. [acLog.recoveries EXCEPT ![acReq[r].knows] = acLog.recoveries[acReq[r].knows] + 1] \in Counts
        BY AccBumped DEF AccInv, AccTypes, Asking
      <4>. QED BY <4>1, <4>2 DEF AccInv, AccTypes
    <3>2. acPc' \in [Slots -> Acc!PCs] /\ acReq' \in [Slots -> Asking]
      BY <1>7, AccNothing DEF AccInv, AccTypes, Acc!PCs, Acc!Done, Acc!UseWrite
    <3>3. account' \in [password : Acc!Secrets, link : Acc!Secrets, must : BOOLEAN, revoked : BOOLEAN, gone : BOOLEAN]
      BY <1>7 DEF AccInv, AccTypes, Asking, Acc!UseWrite
    <3>. QED BY <2>1, <3>1, <3>2, <3>3 DEF AccInv, AccTypes
  <2>3. AccSlots'
    BY <2>1, AccFreed
  <2>4. AccBounds'
    BY <2>1, AccBumped, JobsAssumption DEF AccInv, AccTypes, AccSlots, AccBounds, Asking, Active, Acc!Secrets
  <2>5. AccChanged'
    BY <2>1, AccPasswordWritten DEF Asks
  <2>6. AccRecovered'
    BY <2>1, AccNothing, JobsAssumption DEF AccInv, AccTypes, Asking, Counts, AccSlots, AccBounds, Active, Asks, Acc!None, AccRecovered
  <2>7. AccLogged'
    BY <2>1, AccLoggedSame DEF Asks
  <2>8. AccGone'
    BY <2>1 DEF AccInv, AccGone, Asks
  <2>9. AccInvited'
    BY <2>1 DEF AccInv, AccTypes, AccInvited, AccSlots, Asks, Active
  <2>. QED BY <2>2, <2>3, <2>4, <2>5, <2>6, <2>7, <2>8, <2>9 DEF AccInv
<1>. QED BY <1>1, <1>2, <1>3, <1>4, <1>5, <1>6, <1>7 DEF Acc!AskFind, Acc!UseFind

\* magic links but MagicOut
LEMMA AccLinkSteps ==
    ASSUME AccInv, NEW r \in Slots,
           Acc!MagicFind(r) \/ Acc!MailFind(r) \/ Acc!MailWrite(r)
    PROVE  AccInv'
<1>1. ASSUME Acc!MagicFind(r), account.link = acReq[r].knows, ~account.revoked PROVE AccInv'
  <2>1. /\ acReq[r].kind = "magic" /\ acPc[r] = "find"
        /\ account.link = acReq[r].knows
        /\ acPc'[r] = "out" /\ acReq'[r] = [acReq[r] EXCEPT !.left = {"login", "relink"}]
        /\ acReq'[r].kind = "magic" /\ acReq'[r].new = acReq[r].new /\ acReq'[r].knows = acReq[r].knows
        /\ acReq'[r].left = {"login", "relink"} /\ acReq'[r].padded = acReq[r].padded
        /\ \A q \in Slots \ {r} : acPc'[q] = acPc[q] /\ acReq'[q] = acReq[q]
        /\ account' = account
        /\ code' = code /\ names' = names
        /\ acLog' = acLog
    BY <1>1, AccNothing DEF AccInv, AccTypes, Asking, Asks, Acc!At, Acc!Goto, Acc!Done, Acc!MagicFind
  <2>2. AccTypes'
    BY <1>1, <2>1, AccNothing, JobsAssumption DEF AccInv, AccTypes, Asking, Counts, Acc!PCs, Acc!Kinds, Acc!At, Acc!Goto, Acc!Done, Acc!MagicFind
  <2>3. AccSlots'
    BY <2>1, AccWentOn DEF AccInv, AccTypes, Asking, Acc!PCs, Asks, Acc!Kinds
  <2>4. AccBounds'
    BY <2>1, AccBoundsSame
  <2>5. AccChanged'
    BY <2>1, AccChangedSame DEF Asks
  <2>6. AccRecovered'
    BY <2>1, AccRecoveredSame DEF Asks
  <2>7. AccLogged'
    <3>. SUFFICES ASSUME "magic" \notin acLog.raced, ~acLog.crashed
                  PROVE  AccLogged'
      BY <2>1 DEF AccLogged
    <3>1. account.link \in Acc!Secrets
      BY DEF AccInv, AccTypes
    <3>2. \A q \in Slots : Asks(q, {"magic"}) => q = r
      BY <2>1 DEF AccInv, AccSlots, Active, Asks
    <3>3. acLog.logins[account.link] = 0
      <4>1. ~\E q \in Slots : Asks(q, {"magic"}) /\ acPc[q] = "out"
        BY <2>1, <3>2
      <4>. QED BY <3>1, <4>1 DEF AccInv, AccTypes, AccLogged, Counts
    <3>4. \A q \in Slots : Asks(q, {"magic"})' => q = r
      BY <2>1, <3>2 DEF Asks
    <3>5. \A q \in Slots : Relinks(q)' => Relinks(q) /\ acReq'[q].new = acReq[q].new
      <4>1. Relinks(r) /\ acReq'[r].new = acReq[r].new
        BY <2>1 DEF Relinks, Asks
      <4>. QED BY <2>1, <4>1 DEF Relinks, Asks
    <3>6. \A q \in Slots : Relinks(q) => acReq[q].new # account.link /\ acLog.logins[acReq[q].new] = 0
      BY DEF AccInv, AccLogged
    <3>7. \A s \in Acc!Secrets : acLog.logins[s] <= 1 /\ (acLog.logins[s] > 0 => s # account.link)
      BY <3>3 DEF AccInv, AccLogged
    <3>8. ASSUME NEW q \in Slots, Asks(q, {"magic"})', acPc'[q] = "out"
          PROVE  /\ "login" \in acReq'[q].left => acLog.logins[acReq'[q].knows] = 0
                 /\ "relink" \in acReq'[q].left \/ acReq'[q].knows # account.link
                 /\ \A p \in Slots : Relinks(p)' => acReq'[p].new # acReq'[q].knows
      <4>1. q = r
        BY <3>4, <3>8
      <4>. QED BY <2>1, <4>1, <3>3, <3>5, <3>6
    <3>9. \A q \in Slots : Relinks(q)' => acReq'[q].new # account'.link /\ acLog'.logins[acReq'[q].new] = 0
      BY <2>1, <3>5, <3>6
    <3>. QED BY <2>1, <3>7, <3>8, <3>9 DEF AccLogged
  <2>8. AccGone'
    BY <2>1 DEF AccInv, AccGone, Asks
  <2>9. AccInvited'
    <3>1. \A q \in Slots : Asks(q, {"invite"})' => acReq'[q] = acReq[q] /\ acPc'[q] = acPc[q]
      BY <2>1 DEF Asks
    <3>2. \A q \in Slots : acReq'[q].padded = acReq[q].padded
      BY <2>1
    <3>. QED BY <2>1, <3>1, <3>2 DEF AccInv, AccInvited, Asks
  <2>. QED BY <2>2, <2>3, <2>4, <2>5, <2>6, <2>7, <2>8, <2>9 DEF AccInv
<1>2. ASSUME Acc!MagicFind(r), ~(account.link = acReq[r].knows /\ ~account.revoked) PROVE AccInv'
  BY <1>2, AccGaveUp DEF Acc!MagicFind, Acc!At, Asks
<1>3. ASSUME Acc!MailFind(r) PROVE AccInv'
  <2>1. /\ acReq[r].kind \in {"mail", "restore"} /\ acPc[r] = "find"
        /\ acReq' = acReq /\ acPc'[r] = "relink"
        /\ \A q \in Slots \ {r} : acPc'[q] = acPc[q] /\ acReq'[q] = acReq[q]
        /\ account' = account
        /\ code' = code /\ names' = names
        /\ acLog' = acLog
    BY <1>3, AccNothing DEF AccInv, AccTypes, Asking, Asks, Acc!At, Acc!Goto, Acc!Done, Acc!MailFind
  <2>2. AccTypes'
    BY <1>3, <2>1, AccNothing, JobsAssumption DEF AccInv, AccTypes, Asking, Counts, Acc!PCs, Acc!Kinds, Acc!At, Acc!Goto, Acc!Done, Acc!MailFind
  <2>3. AccSlots'
    BY <2>1, AccWentOn DEF AccInv, AccTypes, Asking, Acc!PCs, Asks, Acc!Kinds
  <2>4. AccBounds'
    BY <2>1, AccBoundsSame
  <2>5. AccChanged'
    BY <2>1, AccChangedSame DEF Asks
  <2>6. AccRecovered'
    BY <2>1, AccRecoveredSame DEF Asks
  <2>7. AccLogged'
    BY <2>1, AccLoggedSame DEF Asks
  <2>8. AccGone'
    BY <2>1 DEF AccInv, AccGone, Asks
  <2>9. AccInvited'
    BY <2>1 DEF AccInv, AccTypes, AccInvited, AccSlots, Asks, Active
  <2>. QED BY <2>2, <2>3, <2>4, <2>5, <2>6, <2>7, <2>8, <2>9 DEF AccInv
<1>4. ASSUME Acc!MailWrite(r) PROVE AccInv'
  <2>1. /\ acPc[r] = "relink" /\ acReq[r].kind \in {"mail", "restore"}
        /\ acPc'[r] = "idle" /\ acReq'[r] = Acc!NoRequest /\ acReq'[r].kind = "idle" /\ acReq'[r].padded = FALSE
        /\ \A q \in Slots \ {r} : acPc'[q] = acPc[q] /\ acReq'[q] = acReq[q]
        /\ account'.link = acReq[r].new
        /\ account'.password = account.password /\ account'.must = account.must /\ account'.revoked = account.revoked
        /\ account'.gone = account.gone
        /\ code' = code /\ names' = names
        /\ acLog' = acLog
    BY <1>4, AccNothing DEF AccInv, AccTypes, AccSlots, Asking, Asks, Acc!At, Acc!Goto, Acc!Done, Acc!MailWrite
  <2>2. AccTypes'
    BY <1>4, <2>1, AccNothing, JobsAssumption DEF AccInv, AccTypes, Asking, Counts, Acc!PCs, Acc!Kinds, Acc!At, Acc!Goto, Acc!Done, Acc!MailWrite
  <2>3. AccSlots'
    BY <2>1, AccFreed
  <2>4. AccBounds'
    BY <2>1, AccNothing, JobsAssumption DEF AccInv, AccTypes, Asking, Counts, AccSlots, AccBounds, Active, Asks, Acc!None, AccBounds
  <2>5. AccChanged'
    BY <2>1, AccChangedSame DEF Asks
  <2>6. AccRecovered'
    BY <2>1, AccRecoveredSame DEF Asks
  <2>7. AccLogged'
    BY <2>1, AccNothing, JobsAssumption DEF AccInv, AccTypes, Asking, Counts, AccSlots, AccBounds, Active, Asks, Acc!None, AccLogged, Relinks
  <2>8. AccGone'
    BY <2>1 DEF AccInv, AccGone, Asks
  <2>9. AccInvited'
    BY <2>1 DEF AccInv, AccTypes, AccInvited, AccSlots, Asks, Active
  <2>. QED BY <2>2, <2>3, <2>4, <2>5, <2>6, <2>7, <2>8, <2>9 DEF AccInv
<1>. QED BY <1>1, <1>2, <1>3, <1>4

\* staffing, invitations, and the death of a worker
LEMMA AccComingSteps ==
    ASSUME AccInv, NEW r \in Slots,
           Acc!Restore(r) \/ Acc!Terminate(r) \/ Acc!TerminateRevoke(r) \/ Acc!InviteFind(r)
           \/ Acc!InviteWrite(r) \/ Acc!Crash(r)
    PROVE  AccInv'
<1>1. ASSUME Acc!Restore(r) PROVE AccInv'
  <2>1. /\ acReq[r].kind = "restore" /\ acPc[r] = "write"
        /\ acReq' = acReq /\ acPc'[r] = "find"
        /\ \A q \in Slots \ {r} : acPc'[q] = acPc[q] /\ acReq'[q] = acReq[q]
        /\ account'.revoked = FALSE
        /\ account'.password = account.password /\ account'.link = account.link /\ account'.must = account.must
        /\ account'.gone = account.gone
        /\ code' = code /\ names' = names
        /\ acLog' = acLog
    BY <1>1, AccNothing DEF AccInv, AccTypes, Asking, Asks, Acc!At, Acc!Goto, Acc!Done, Acc!Restore
  <2>2. AccTypes'
    BY <1>1, <2>1, AccNothing, JobsAssumption DEF AccInv, AccTypes, Asking, Counts, Acc!PCs, Acc!Kinds, Acc!At, Acc!Goto, Acc!Done, Acc!Restore
  <2>3. AccSlots'
    BY <2>1, AccWentOn DEF AccInv, AccTypes, Asking, Acc!PCs, Asks, Acc!Kinds
  <2>4. AccBounds'
    BY <2>1, AccBoundsSame
  <2>5. AccChanged'
    BY <2>1, AccChangedSame DEF Asks
  <2>6. AccRecovered'
    BY <2>1, AccRecoveredSame DEF Asks
  <2>7. AccLogged'
    BY <2>1, AccLoggedSame DEF Asks
  <2>8. AccGone'
    BY <2>1 DEF AccInv, AccGone, Asks
  <2>9. AccInvited'
    BY <2>1 DEF AccInv, AccTypes, AccInvited, AccSlots, Asks, Active
  <2>. QED BY <2>2, <2>3, <2>4, <2>5, <2>6, <2>7, <2>8, <2>9 DEF AccInv
<1>2. ASSUME Acc!Terminate(r) PROVE AccInv'
  <2>1. /\ acReq[r].kind = "terminate" /\ acPc[r] = "write"
        /\ acReq' = acReq /\ acPc'[r] = "out"
        /\ \A q \in Slots \ {r} : acPc'[q] = acPc[q] /\ acReq'[q] = acReq[q]
        /\ account'.gone = TRUE
        /\ account'.password = account.password /\ account'.link = account.link /\ account'.must = account.must
        /\ account'.revoked = account.revoked
        /\ code' = code /\ names' = names
        /\ acLog' = acLog
    BY <1>2, AccNothing DEF AccInv, AccTypes, Asking, Asks, Acc!At, Acc!Goto, Acc!Done, Acc!Terminate
  <2>2. AccTypes'
    BY <1>2, <2>1, AccNothing, JobsAssumption DEF AccInv, AccTypes, Asking, Counts, Acc!PCs, Acc!Kinds, Acc!At, Acc!Goto, Acc!Done, Acc!Terminate
  <2>3. AccSlots'
    BY <2>1, AccWentOn DEF AccInv, AccTypes, Asking, Acc!PCs, Asks, Acc!Kinds
  <2>4. AccBounds'
    BY <2>1, AccBoundsSame
  <2>5. AccChanged'
    BY <2>1, AccChangedSame DEF Asks
  <2>6. AccRecovered'
    BY <2>1, AccRecoveredSame DEF Asks
  <2>7. AccLogged'
    BY <2>1, AccLoggedSame DEF Asks
  <2>8. AccGone'
    BY <2>1 DEF AccInv, AccGone, Asks
  <2>9. AccInvited'
    BY <2>1 DEF AccInv, AccTypes, AccInvited, AccSlots, Asks, Active
  <2>. QED BY <2>2, <2>3, <2>4, <2>5, <2>6, <2>7, <2>8, <2>9 DEF AccInv
<1>3. ASSUME Acc!TerminateRevoke(r) PROVE AccInv'
  <2>1. /\ acReq[r].kind = "terminate" /\ acPc[r] = "out"
        /\ acPc'[r] = "idle" /\ acReq'[r] = Acc!NoRequest /\ acReq'[r].kind = "idle" /\ acReq'[r].padded = FALSE
        /\ \A q \in Slots \ {r} : acPc'[q] = acPc[q] /\ acReq'[q] = acReq[q]
        /\ account'.revoked = TRUE
        /\ account'.password = account.password /\ account'.link = account.link /\ account'.must = account.must
        /\ account'.gone = account.gone
        /\ code' = code /\ names' = names
        /\ acLog' = acLog
    BY <1>3, AccNothing DEF AccInv, AccTypes, Asking, Asks, Acc!At, Acc!Goto, Acc!Done, Acc!TerminateRevoke
  <2>2. AccTypes'
    BY <1>3, <2>1, AccNothing, JobsAssumption DEF AccInv, AccTypes, Asking, Counts, Acc!PCs, Acc!Kinds, Acc!At, Acc!Goto, Acc!Done, Acc!TerminateRevoke
  <2>3. AccSlots'
    BY <2>1, AccFreed
  <2>4. AccBounds'
    BY <2>1, AccBoundsSame
  <2>5. AccChanged'
    BY <2>1, AccChangedSame DEF Asks
  <2>6. AccRecovered'
    BY <2>1, AccRecoveredSame DEF Asks
  <2>7. AccLogged'
    BY <2>1, AccLoggedSame DEF Asks
  <2>8. AccGone'
    BY <2>1 DEF AccInv, AccGone, Asks
  <2>9. AccInvited'
    BY <2>1 DEF AccInv, AccTypes, AccInvited, AccSlots, Asks, Active
  <2>. QED BY <2>2, <2>3, <2>4, <2>5, <2>6, <2>7, <2>8, <2>9 DEF AccInv
<1>4. ASSUME Acc!InviteFind(r), Acc!Goto(r, "write") PROVE AccInv'
  <2>1. /\ acReq[r].kind = "invite" /\ acPc[r] = "find"
        /\ names[acReq[r].name] = 0 \/ acReq[r].padded
        /\ acReq' = acReq /\ acPc'[r] = "write"
        /\ \A q \in Slots \ {r} : acPc'[q] = acPc[q] /\ acReq'[q] = acReq[q]
        /\ account' = account
        /\ code' = code /\ names' = names
        /\ acLog' = acLog
    BY <1>4, AccNothing DEF AccInv, AccTypes, Asking, Asks, Acc!At, Acc!Goto, Acc!Done, Acc!InviteFind, Acc!NoRequest
  <2>2. AccTypes'
    BY <1>4, <2>1, AccNothing, JobsAssumption DEF AccInv, AccTypes, Asking, Counts, Acc!PCs, Acc!Kinds, Acc!At, Acc!Goto, Acc!Done, Acc!InviteFind, Acc!NoRequest
  <2>3. AccSlots'
    BY <2>1, AccWentOn DEF AccInv, AccTypes, Asking, Acc!PCs, Asks, Acc!Kinds
  <2>4. AccBounds'
    BY <2>1, AccBoundsSame
  <2>5. AccChanged'
    BY <2>1, AccChangedSame DEF Asks
  <2>6. AccRecovered'
    BY <2>1, AccRecoveredSame DEF Asks
  <2>7. AccLogged'
    BY <2>1, AccLoggedSame DEF Asks
  <2>8. AccGone'
    BY <2>1 DEF AccInv, AccGone, Asks
  <2>9. AccInvited'
    BY <2>1 DEF AccInv, AccTypes, AccInvited, AccSlots, Asks, Active
  <2>. QED BY <2>2, <2>3, <2>4, <2>5, <2>6, <2>7, <2>8, <2>9 DEF AccInv
<1>5. ASSUME Acc!InviteFind(r), Acc!Done(r) PROVE AccInv'
  BY <1>5, AccGaveUp DEF Acc!InviteFind, Acc!At, Asks
<1>6. ASSUME Acc!InviteWrite(r) PROVE AccInv'
  <2>1. /\ acReq[r].kind = "invite" /\ acPc[r] = "write"
        /\ acPc'[r] = "idle" /\ acReq'[r] = Acc!NoRequest /\ acReq'[r].kind = "idle" /\ acReq'[r].padded = FALSE
        /\ \A q \in Slots \ {r} : acPc'[q] = acPc[q] /\ acReq'[q] = acReq[q]
        /\ account' = account
        /\ code' = code /\ names' = [names EXCEPT ![acReq[r].name] = names[acReq[r].name] + 1]
        /\ acLog' = acLog
    BY <1>6, AccNothing DEF AccInv, AccTypes, Asking, Asks, Acc!At, Acc!Goto, Acc!Done, Acc!InviteWrite
  <2>2. AccTypes'
    BY <1>6, <2>1, AccNothing, JobsAssumption DEF AccInv, AccTypes, Asking, Counts, Acc!PCs, Acc!Kinds, Acc!At, Acc!Goto, Acc!Done, Acc!InviteWrite
  <2>3. AccSlots'
    BY <2>1, AccFreed
  <2>4. AccBounds'
    BY <2>1, AccBoundsSame
  <2>5. AccChanged'
    BY <2>1, AccChangedSame DEF Asks
  <2>6. AccRecovered'
    BY <2>1, AccRecoveredSame DEF Asks
  <2>7. AccLogged'
    BY <2>1, AccLoggedSame DEF Asks
  <2>8. AccGone'
    BY <2>1 DEF AccInv, AccGone, Asks
  <2>9. AccInvited'
    BY <2>1 DEF AccInv, AccTypes, AccInvited, AccSlots, Asks, Active
  <2>. QED BY <2>2, <2>3, <2>4, <2>5, <2>6, <2>7, <2>8, <2>9 DEF AccInv
<1>7. ASSUME Acc!Crash(r) PROVE AccInv'
  <2>1. /\ acPc[r] # "idle"
        /\ acPc'[r] = "idle" /\ acReq'[r] = Acc!NoRequest /\ acReq'[r].kind = "idle" /\ acReq'[r].padded = FALSE
        /\ \A q \in Slots \ {r} : acPc'[q] = acPc[q] /\ acReq'[q] = acReq[q]
        /\ account' = account
        /\ code' = code /\ names' = names
        /\ acLog'.crashed = TRUE
        /\ acLog'.jobs = acLog.jobs /\ acLog'.changes = acLog.changes /\ acLog'.recoveries = acLog.recoveries
        /\ acLog'.logins = acLog.logins /\ acLog'.raced = acLog.raced /\ acLog'.padded = acLog.padded
        /\ acLog'.restored = acLog.restored
    BY <1>7, AccNothing DEF AccInv, AccTypes, Asking, Asks, Acc!At, Acc!Goto, Acc!Done, Acc!Crash
  <2>2. AccTypes'
    BY <1>7, <2>1, AccNothing, JobsAssumption DEF AccInv, AccTypes, Asking, Counts, Acc!PCs, Acc!Kinds, Acc!At, Acc!Goto, Acc!Done, Acc!Crash
  <2>3. AccSlots'
    BY <2>1, AccFreed
  <2>4. AccBounds'
    BY <2>1, AccBoundsSame
  <2>5. AccChanged'
    BY <2>1, AccChangedSame DEF Asks
  <2>6. AccRecovered'
    BY <2>1, AccRecoveredSame DEF Asks
  <2>7. AccLogged'
    BY <2>1 DEF AccLogged
  <2>8. AccGone'
    BY <2>1 DEF AccInv, AccGone, Asks
  <2>9. AccInvited'
    BY <2>1 DEF AccInv, AccTypes, AccInvited, AccSlots, Asks, Active
  <2>. QED BY <2>2, <2>3, <2>4, <2>5, <2>6, <2>7, <2>8, <2>9 DEF AccInv
<1>. QED BY <1>1, <1>2, <1>3, <1>4, <1>5, <1>6, <1>7 DEF Acc!InviteFind

\* what an administrator does
LEMMA AccSlotless ==
    ASSUME AccInv, Acc!Must \/ Acc!Revoke
    PROVE  AccInv'
<1>1. /\ code' = code /\ names' = names /\ acPc' = acPc /\ acReq' = acReq /\ acLog' = acLog
      /\ account' = [account EXCEPT !.must = TRUE] \/ account' = [account EXCEPT !.revoked = TRUE]
  BY DEF Acc!Must, Acc!Revoke
<1>2. /\ account'.password = account.password /\ account'.link = account.link /\ account'.gone = account.gone
      /\ account.revoked => account'.revoked
  BY <1>1 DEF AccInv, AccTypes
<1>3. AccTypes'
  <2>1. account' \in [password : Acc!Secrets, link : Acc!Secrets, must : BOOLEAN, revoked : BOOLEAN, gone : BOOLEAN]
    BY <1>1 DEF AccInv, AccTypes
  <2>. QED BY <1>1, <2>1 DEF AccInv, AccTypes
<1>4. AccSlots' /\ AccBounds'
  BY <1>1, <1>2 DEF AccInv, AccSlots, AccBounds, Active, Asks
<1>5. AccChanged' /\ AccRecovered' /\ AccLogged'
  BY <1>1, <1>2, AccChangedSame, AccRecoveredSame, AccLoggedSame DEF Asks
<1>6. AccGone' /\ AccInvited'
  BY <1>1, <1>2 DEF AccInv, AccGone, AccInvited, Asks
<1>. QED BY <1>3, <1>4, <1>5, <1>6 DEF AccInv

\* an account as it was invited
LEMMA AccInit == ASSUME Acc!Init PROVE AccInv
<1>1. AccTypes
  <2>1. acReq \in [Slots -> Asking] /\ acPc \in [Slots -> Acc!PCs] /\ names \in [Names -> Nat]
    BY AccNothing DEF Acc!Init, Acc!PCs
  <2>2. account \in [password : Acc!Secrets, link : Acc!Secrets, must : BOOLEAN, revoked : BOOLEAN, gone : BOOLEAN]
    BY JobsAssumption DEF Acc!Init, Acc!Secrets
  <2>3. acLog \in [jobs : Acc!Secrets, changes : Counts, recoveries : Counts, logins : Counts,
                   raced : SUBSET Acc!Kinds, padded : BOOLEAN, restored : BOOLEAN, crashed : BOOLEAN]
    <3>1. [s \in Acc!Secrets |-> 0] \in Counts /\ 0 \in Acc!Secrets
      BY JobsAssumption DEF Counts, Acc!Secrets
    <3>. QED BY <3>1 DEF Acc!Init
  <2>. QED BY <2>1, <2>2, <2>3 DEF AccTypes, Acc!Init
<1>2. /\ \A r \in Slots : acReq[r].kind = "idle" /\ acReq[r].knows = 0 /\ acReq[r].padded = FALSE /\ acPc[r] = "idle"
      /\ acLog.jobs = 0 /\ code = Acc!None
      /\ \A s \in Acc!Secrets : acLog.changes[s] = 0 /\ acLog.recoveries[s] = 0 /\ acLog.logins[s] = 0
      /\ account.password = 0 /\ account.link = 0 /\ account.gone = FALSE
      /\ \A n \in Names : names[n] = 0
  BY AccNothing DEF Acc!Init
<1>3. AccSlots /\ AccBounds
  BY <1>2 DEF AccSlots, AccBounds, Active, Asks, Acc!None
<1>4. AccChanged /\ AccRecovered /\ AccLogged
  BY <1>2 DEF AccChanged, AccRecovered, AccLogged, Relinks, Asks
<1>5. AccGone /\ AccInvited
  BY <1>2 DEF AccGone, AccInvited, Asks
<1>. QED BY <1>1, <1>3, <1>4, <1>5 DEF AccInv

\* every step of requests on accounts keeps the invariant
LEMMA AccStep == ASSUME AccInv, Acc!Next PROVE AccInv'
<1>1. CASE Acc!Must \/ Acc!Revoke
  BY <1>1, AccSlotless
<1>2. ASSUME NEW r \in Slots, NEW what \in Acc!Kinds \ {"idle"}, Acc!Ask(r, what) PROVE AccInv'
  BY <1>2, AccAskStep
<1>3. ASSUME NEW r \in Slots, Acc!ChangeFind(r) \/ Acc!ChangeWrite(r) PROVE AccInv'
  BY <1>3, AccPasswordSteps
<1>4. ASSUME NEW r \in Slots, Acc!AskFind(r) \/ Acc!AskWrite(r) \/ Acc!UseFind(r) \/ Acc!UseUnset(r) \/ Acc!UseWrite(r)
      PROVE  AccInv'
  BY <1>4, AccRecoverySteps
<1>5. ASSUME NEW r \in Slots, Acc!MagicFind(r) \/ Acc!MailFind(r) \/ Acc!MailWrite(r) PROVE AccInv'
  BY <1>5, AccLinkSteps
<1>6. ASSUME NEW r \in Slots, Acc!MagicOut(r) PROVE AccInv'
  BY <1>6, AccMagicOutStep
<1>7. ASSUME NEW r \in Slots,
             Acc!Restore(r) \/ Acc!Terminate(r) \/ Acc!TerminateRevoke(r) \/ Acc!InviteFind(r) \/ Acc!InviteWrite(r)
             \/ Acc!Crash(r)
      PROVE  AccInv'
  BY <1>7, AccComingSteps
<1>. QED BY <1>1, <1>2, <1>3, <1>4, <1>5, <1>6, <1>7 DEF Acc!Next

\* the invariant says what is asked of accounts
LEMMA AccProps ==
    ASSUME AccInv
    PROVE  Acc!ChangedOnce /\ Acc!RecoveredOnce /\ Acc!LoggedInOnce /\ Acc!GoneRevoked /\ Acc!InvitedOnce
<1>1. Acc!ChangedOnce
  BY DEF AccInv, AccChanged, Acc!ChangedOnce
<1>2. Acc!RecoveredOnce
  BY DEF AccInv, AccRecovered, Acc!RecoveredOnce
<1>3. Acc!LoggedInOnce
  BY DEF AccInv, AccLogged, Acc!LoggedInOnce
<1>4. Acc!GoneRevoked
  BY DEF AccInv, AccGone, Acc!GoneRevoked, Asks
<1>5. Acc!InvitedOnce
  BY DEF AccInv, AccInvited, Acc!InvitedOnce
<1>. QED BY <1>1, <1>2, <1>3, <1>4, <1>5

\* requests which may still use their secret, or invite, and their numbers
Owes(r, what) == acReq[r].kind = what /\ (what = "magic" /\ acPc[r] = "out" => "login" \in acReq[r].left)
Owed(what) == {acReq[r].new : r \in {q \in Slots : Owes(q, what)}}

\* what was done and what is owed is no more than was asked for
Within(f, what) == \A x \in DOMAIN f : f[x] + Cardinality(Owed(what)) <= acLog.jobs

AccCounted ==
    /\ Within(acLog.changes, "change") /\ Within(acLog.recoveries, "use")
    /\ Within(acLog.logins, "magic") /\ Within(names, "invite")

\* no request owes what it did not
Settles(what) == \A q \in Slots : Owes(q, what)' => Owes(q, what) /\ acReq'[q].new = acReq[q].new

\* what is owed are numbers of requests
LEMMA AccOwed ==
    ASSUME AccInv, NEW what \in Acc!Kinds \ {"idle"}
    PROVE  /\ Owed(what) \in SUBSET (1..acLog.jobs) /\ IsFiniteSet(Owed(what))
           /\ Cardinality(Owed(what)) \in Nat /\ acLog.jobs \in Nat
<1>1. Owed(what) \in SUBSET (1..acLog.jobs)
  BY DEF Owed, Owes, AccInv, AccSlots, Active
<1>2. acLog.jobs \in Nat
  BY JobsAssumption DEF AccInv, AccTypes, Acc!Secrets
<1>3. IsFiniteSet(1..acLog.jobs)
  BY <1>2, FS_Interval
<1>. QED BY <1>1, <1>2, <1>3, FS_Subset, FS_CardinalityType

\* what is not owed any more leaves room for one use
LEMMA AccSettled ==
    ASSUME AccInv, NEW what \in Acc!Kinds \ {"idle"}, Settles(what)
    PROVE  /\ Cardinality(Owed(what)') \in Nat /\ Cardinality(Owed(what)') <= Cardinality(Owed(what))
           /\ \A r \in Slots : Owes(r, what) /\ ~Owes(r, what)' =>
                 Cardinality(Owed(what)') + 1 <= Cardinality(Owed(what))
<1>1. Owed(what)' \in SUBSET Owed(what)
  BY DEF Owed, Settles
<1>2. Cardinality(Owed(what)') \in Nat /\ Cardinality(Owed(what)') <= Cardinality(Owed(what))
  BY <1>1, AccOwed, FS_Subset, FS_CardinalityType
<1>3. ASSUME NEW r \in Slots, Owes(r, what), ~Owes(r, what)'
      PROVE  Cardinality(Owed(what)') + 1 <= Cardinality(Owed(what))
  <2>1. acReq[r].new \in Owed(what)
    BY <1>3 DEF Owed
  <2>2. acReq[r].new \notin Owed(what)'
    <3>1. ASSUME NEW q \in Slots, Owes(q, what)', acReq'[q].new = acReq[r].new PROVE FALSE
      <4>1. Owes(q, what) /\ acReq[q].new = acReq[r].new
        BY <3>1 DEF Settles
      <4>2. q = r
        BY <1>3, <4>1 DEF Owes, AccInv, AccSlots, Active
      <4>. QED BY <1>3, <3>1, <4>2
    <3>. QED BY <3>1 DEF Owed
  <2>3. Owed(what)' \in SUBSET (Owed(what) \ {acReq[r].new})
    BY <1>1, <2>2
  <2>4. /\ IsFiniteSet(Owed(what) \ {acReq[r].new})
        /\ Cardinality(Owed(what) \ {acReq[r].new}) = Cardinality(Owed(what)) - 1
    BY <2>1, AccOwed, FS_RemoveElement
  <2>5. Cardinality(Owed(what)') <= Cardinality(Owed(what) \ {acReq[r].new})
    BY <2>3, <2>4, FS_Subset
  <2>. QED BY <1>2, <2>4, <2>5, AccOwed
<1>. QED BY <1>2, <1>3

\* a step after which nothing more was done
LEMMA AccWithin ==
    ASSUME AccInv, NEW what \in Acc!Kinds \ {"idle"}, Settles(what), acLog'.jobs = acLog.jobs,
           NEW f, \A x \in DOMAIN f : f[x] \in Nat, Within(f, what)
    PROVE  \A x \in DOMAIN f : f[x] + Cardinality(Owed(what)') <= acLog'.jobs
BY AccSettled, AccOwed DEF Within

\* the same, with one use more, of who owed it
LEMMA AccUsed ==
    ASSUME AccInv, NEW what \in Acc!Kinds \ {"idle"}, Settles(what), acLog'.jobs = acLog.jobs,
           NEW r \in Slots, Owes(r, what), ~Owes(r, what)',
           NEW f, \A x \in DOMAIN f : f[x] \in Nat, Within(f, what), NEW k \in DOMAIN f
    PROVE  \A x \in DOMAIN f : [f EXCEPT ![k] = f[k] + 1][x] + Cardinality(Owed(what)') <= acLog'.jobs
<1>1. ASSUME NEW x \in DOMAIN f
      PROVE  [f EXCEPT ![k] = f[k] + 1][x] + Cardinality(Owed(what)') <= acLog'.jobs
  <2>1. [f EXCEPT ![k] = f[k] + 1][x] = f[x] \/ [f EXCEPT ![k] = f[k] + 1][x] = f[x] + 1
    OBVIOUS
  <2>2. f[x] \in Nat /\ f[x] + Cardinality(Owed(what)) <= acLog.jobs
    BY DEF Within
  <2>. QED BY <2>1, <2>2, AccSettled, AccOwed
<1>. QED BY <1>1

\* how a request goes on, or ends, without owing more
Lessens(r) ==
    /\ \A q \in Slots \ {r} : acPc'[q] = acPc[q] /\ acReq'[q] = acReq[q]
    /\ \/ acReq'[r] = Acc!NoRequest
       \/ acReq'[r] = acReq[r] /\ acReq[r].kind # "magic"
       \/ /\ acReq'[r].kind = acReq[r].kind /\ acReq'[r].new = acReq[r].new
          /\ acPc[r] = "out" => acReq'[r].left \subseteq acReq[r].left /\ acPc'[r] = "out"

\* then no request owes what it did not
LEMMA AccLessens ==
    ASSUME AccInv, NEW r \in Slots, Lessens(r)
    PROVE  \A what \in Acc!Kinds \ {"idle"} : Settles(what)
<1>1. ASSUME NEW what \in Acc!Kinds \ {"idle"}, NEW q \in Slots, Owes(q, what)'
      PROVE  Owes(q, what) /\ acReq'[q].new = acReq[q].new
  <2>1. CASE q # r
    BY <1>1, <2>1 DEF Lessens, Owes
  <2>2. CASE q = r
    BY <1>1, <2>2, AccNothing DEF Lessens, Owes
  <2>. QED BY <2>1, <2>2
<1>. QED BY <1>1 DEF Settles

\* counts are functions to numbers
LEMMA AccNumbers ==
    ASSUME AccInv
    PROVE  /\ DOMAIN acLog.changes = Acc!Secrets /\ DOMAIN acLog.recoveries = Acc!Secrets
           /\ DOMAIN acLog.logins = Acc!Secrets /\ DOMAIN names = Names
           /\ \A s \in Acc!Secrets : acLog.changes[s] \in Nat /\ acLog.recoveries[s] \in Nat /\ acLog.logins[s] \in Nat
           /\ \A n \in Names : names[n] \in Nat
<1>1. acLog.changes \in Counts /\ acLog.recoveries \in Counts /\ acLog.logins \in Counts /\ names \in [Names -> Nat]
  BY DEF AccInv, AccTypes
<1>. QED BY <1>1 DEF Counts

\* a step which counts nothing
LEMMA AccQuiet ==
    ASSUME AccInv, AccCounted, \A what \in Acc!Kinds \ {"idle"} : Settles(what), acLog'.jobs = acLog.jobs,
           acLog'.changes = acLog.changes, acLog'.recoveries = acLog.recoveries, acLog'.logins = acLog.logins,
           names' = names
    PROVE  AccCounted'
<1>1. \A x \in DOMAIN acLog.changes : acLog.changes[x] + Cardinality(Owed("change")') <= acLog'.jobs
  BY AccNumbers, AccWithin DEF AccCounted, Acc!Kinds
<1>2. \A x \in DOMAIN acLog.recoveries : acLog.recoveries[x] + Cardinality(Owed("use")') <= acLog'.jobs
  BY AccNumbers, AccWithin DEF AccCounted, Acc!Kinds
<1>3. \A x \in DOMAIN acLog.logins : acLog.logins[x] + Cardinality(Owed("magic")') <= acLog'.jobs
  BY AccNumbers, AccWithin DEF AccCounted, Acc!Kinds
<1>4. \A x \in DOMAIN names : names[x] + Cardinality(Owed("invite")') <= acLog'.jobs
  BY AccNumbers, AccWithin DEF AccCounted, Acc!Kinds
<1>. QED BY <1>1, <1>2, <1>3, <1>4 DEF AccCounted, Within

\* steps which count nothing
LEMMA AccQuietSteps ==
    ASSUME AccInv, AccCounted, NEW r \in Slots,
           \/ Acc!ChangeFind(r) \/ Acc!AskFind(r) \/ Acc!AskWrite(r) \/ Acc!UseFind(r) \/ Acc!UseUnset(r)
           \/ Acc!MagicFind(r) \/ Acc!MailFind(r) \/ Acc!MailWrite(r)
           \/ Acc!Restore(r) \/ Acc!Terminate(r) \/ Acc!TerminateRevoke(r) \/ Acc!InviteFind(r) \/ Acc!Crash(r)
    PROVE  AccCounted'
<1>. USE DEF Acc!At, Acc!Goto, Acc!Done
<1>1. DOMAIN acPc = Slots /\ DOMAIN acReq = Slots /\ acReq \in [Slots -> Asking] /\ acReq[r] \in Asking
  BY DEF AccInv, AccTypes
<1>2. /\ acLog'.jobs = acLog.jobs /\ acLog'.changes = acLog.changes /\ acLog'.recoveries = acLog.recoveries
      /\ acLog'.logins = acLog.logins /\ names' = names
  <2>1. CASE Acc!Crash(r)
    BY <2>1 DEF Acc!Crash, AccInv, AccTypes
  <2>2. CASE ~Acc!Crash(r)
    BY <2>2 DEF Acc!ChangeFind, Acc!AskFind, Acc!AskWrite, Acc!UseFind, Acc!UseUnset, Acc!MagicFind, Acc!MailFind,
                Acc!MailWrite, Acc!Restore, Acc!Terminate, Acc!TerminateRevoke, Acc!InviteFind
  <2>. QED BY <2>1, <2>2
<1>3. Lessens(r)
  <2>1. CASE Acc!MagicFind(r)
    <3>1. CASE Acc!Done(r)
      BY <1>1, <3>1 DEF Lessens
    <3>2. CASE acPc' = [acPc EXCEPT ![r] = "out"] /\ acReq' = [acReq EXCEPT ![r].left = {"login", "relink"}]
      BY <1>1, <2>1, <3>2 DEF Acc!MagicFind, Lessens, Asking
    <3>. QED BY <2>1, <3>1, <3>2 DEF Acc!MagicFind
  <2>2. CASE Acc!ChangeFind(r) \/ Acc!AskFind(r) \/ Acc!AskWrite(r) \/ Acc!UseFind(r) \/ Acc!UseUnset(r)
    BY <1>1, <2>2 DEF Acc!ChangeFind, Acc!AskFind, Acc!AskWrite, Acc!UseFind, Acc!UseUnset, Lessens
  <2>3. CASE Acc!MailFind(r) \/ Acc!MailWrite(r) \/ Acc!Crash(r)
    BY <1>1, <2>3 DEF Acc!MailFind, Acc!MailWrite, Acc!Crash, Lessens
  <2>4. CASE Acc!Restore(r) \/ Acc!Terminate(r) \/ Acc!TerminateRevoke(r) \/ Acc!InviteFind(r)
    BY <1>1, <2>4 DEF Acc!Restore, Acc!Terminate, Acc!TerminateRevoke, Acc!InviteFind, Lessens
  <2>. QED BY <2>1, <2>2, <2>3, <2>4
<1>. QED BY <1>2, <1>3, AccLessens, AccQuiet

\* one more was done of one kind: what was, and by whom
LEMMA AccCountedOne ==
    ASSUME AccInv, AccCounted, NEW r \in Slots, Lessens(r), acLog'.jobs = acLog.jobs,
           \/ /\ Owes(r, "change") /\ ~Owes(r, "change")' /\ names' = names
              /\ acLog'.changes = [acLog.changes EXCEPT ![acReq[r].knows] = acLog.changes[acReq[r].knows] + 1]
              /\ acLog'.recoveries = acLog.recoveries /\ acLog'.logins = acLog.logins
           \/ /\ Owes(r, "use") /\ ~Owes(r, "use")' /\ names' = names
              /\ acLog'.recoveries = [acLog.recoveries EXCEPT ![acReq[r].knows] = acLog.recoveries[acReq[r].knows] + 1]
              /\ acLog'.changes = acLog.changes /\ acLog'.logins = acLog.logins
           \/ /\ Owes(r, "magic") /\ ~Owes(r, "magic")' /\ names' = names
              /\ acLog'.logins = [acLog.logins EXCEPT ![acReq[r].knows] = acLog.logins[acReq[r].knows] + 1]
              /\ acLog'.changes = acLog.changes /\ acLog'.recoveries = acLog.recoveries
           \/ /\ Owes(r, "invite") /\ ~Owes(r, "invite")'
              /\ names' = [names EXCEPT ![acReq[r].name] = names[acReq[r].name] + 1]
              /\ acLog'.changes = acLog.changes /\ acLog'.recoveries = acLog.recoveries /\ acLog'.logins = acLog.logins
    PROVE  AccCounted'
<1>1. \A what \in Acc!Kinds \ {"idle"} : Settles(what)
  BY AccLessens
<1>2. acReq[r].knows \in Acc!Secrets /\ acReq[r].name \in Names
  BY DEF AccInv, AccTypes, Asking
<1>3. \A x \in DOMAIN acLog'.changes : acLog'.changes[x] + Cardinality(Owed("change")') <= acLog'.jobs
  <2>1. CASE acLog'.changes = acLog.changes
    BY <1>1, <2>1, AccNumbers, AccWithin DEF AccCounted, Acc!Kinds
  <2>2. CASE /\ Owes(r, "change") /\ ~Owes(r, "change")'
             /\ acLog'.changes = [acLog.changes EXCEPT ![acReq[r].knows] = acLog.changes[acReq[r].knows] + 1]
    BY <1>1, <1>2, <2>2, AccNumbers, AccUsed DEF AccCounted, Acc!Kinds
  <2>. QED BY <2>1, <2>2
<1>4. \A x \in DOMAIN acLog'.recoveries : acLog'.recoveries[x] + Cardinality(Owed("use")') <= acLog'.jobs
  <2>1. CASE acLog'.recoveries = acLog.recoveries
    BY <1>1, <2>1, AccNumbers, AccWithin DEF AccCounted, Acc!Kinds
  <2>2. CASE /\ Owes(r, "use") /\ ~Owes(r, "use")'
             /\ acLog'.recoveries = [acLog.recoveries EXCEPT ![acReq[r].knows] = acLog.recoveries[acReq[r].knows] + 1]
    BY <1>1, <1>2, <2>2, AccNumbers, AccUsed DEF AccCounted, Acc!Kinds
  <2>. QED BY <2>1, <2>2
<1>5. \A x \in DOMAIN acLog'.logins : acLog'.logins[x] + Cardinality(Owed("magic")') <= acLog'.jobs
  <2>1. CASE acLog'.logins = acLog.logins
    BY <1>1, <2>1, AccNumbers, AccWithin DEF AccCounted, Acc!Kinds
  <2>2. CASE /\ Owes(r, "magic") /\ ~Owes(r, "magic")'
             /\ acLog'.logins = [acLog.logins EXCEPT ![acReq[r].knows] = acLog.logins[acReq[r].knows] + 1]
    BY <1>1, <1>2, <2>2, AccNumbers, AccUsed DEF AccCounted, Acc!Kinds
  <2>. QED BY <2>1, <2>2
<1>6. \A x \in DOMAIN names' : names'[x] + Cardinality(Owed("invite")') <= acLog'.jobs
  <2>1. CASE names' = names
    BY <1>1, <2>1, AccNumbers, AccWithin DEF AccCounted, Acc!Kinds
  <2>2. CASE /\ Owes(r, "invite") /\ ~Owes(r, "invite")'
             /\ names' = [names EXCEPT ![acReq[r].name] = names[acReq[r].name] + 1]
    BY <1>1, <1>2, <2>2, AccNumbers, AccUsed DEF AccCounted, Acc!Kinds
  <2>. QED BY <2>1, <2>2
<1>. QED BY <1>3, <1>4, <1>5, <1>6 DEF AccCounted, Within

\* steps which count
LEMMA AccCountSteps ==
    ASSUME AccInv, AccCounted, NEW r \in Slots,
           Acc!ChangeWrite(r) \/ Acc!UseWrite(r) \/ Acc!InviteWrite(r) \/ Acc!MagicOut(r)
    PROVE  AccCounted'
<1>. USE DEF Acc!At
<1>1. /\ DOMAIN acPc = Slots /\ DOMAIN acReq = Slots /\ acReq[r] \in Asking
      /\ acLog \in [jobs : Acc!Secrets, changes : Counts, recoveries : Counts, logins : Counts,
                    raced : SUBSET Acc!Kinds, padded : BOOLEAN, restored : BOOLEAN, crashed : BOOLEAN]
  BY DEF AccInv, AccTypes
<1>2. ASSUME Acc!Done(r)
      PROVE  Lessens(r) /\ \A what \in Acc!Kinds \ {"idle"} : ~Owes(r, what)'
  <2>1. acReq'[r] = Acc!NoRequest /\ Lessens(r)
    BY <1>1, <1>2 DEF Acc!Done, Lessens
  <2>. QED BY <2>1, AccNothing DEF Owes
<1>3. CASE Acc!ChangeWrite(r)
  <2>1. Acc!Done(r) /\ names' = names /\ Owes(r, "change")
    BY <1>3 DEF Acc!ChangeWrite, Owes
  <2>2. CASE acLog' = acLog
    BY <1>2, <2>1, <2>2, AccLessens, AccQuiet
  <2>3. CASE acLog' = [acLog EXCEPT !.changes[acReq[r].knows] = @ + 1]
    <3>1. /\ acLog'.changes = [acLog.changes EXCEPT ![acReq[r].knows] = acLog.changes[acReq[r].knows] + 1]
          /\ acLog'.jobs = acLog.jobs /\ acLog'.recoveries = acLog.recoveries /\ acLog'.logins = acLog.logins
      BY <1>1, <2>3
    <3>. QED BY <1>2, <2>1, <3>1, AccCountedOne DEF Acc!Kinds
  <2>. QED BY <1>3, <2>2, <2>3 DEF Acc!ChangeWrite, Acc!Change
<1>4. CASE Acc!UseWrite(r)
  <2>1. Acc!Done(r) /\ names' = names /\ Owes(r, "use") /\ acLog' = [acLog EXCEPT !.recoveries[acReq[r].knows] = @ + 1]
    BY <1>4 DEF Acc!UseWrite, Owes
  <2>2. /\ acLog'.recoveries = [acLog.recoveries EXCEPT ![acReq[r].knows] = acLog.recoveries[acReq[r].knows] + 1]
        /\ acLog'.jobs = acLog.jobs /\ acLog'.changes = acLog.changes /\ acLog'.logins = acLog.logins
    BY <1>1, <2>1
  <2>. QED BY <1>2, <2>1, <2>2, AccCountedOne DEF Acc!Kinds
<1>5. CASE Acc!InviteWrite(r)
  <2>1. /\ Acc!Done(r) /\ acLog' = acLog /\ Owes(r, "invite")
        /\ names' = [names EXCEPT ![acReq[r].name] = names[acReq[r].name] + 1]
    BY <1>5 DEF Acc!InviteWrite, Owes
  <2>. QED BY <1>2, <2>1, AccCountedOne DEF Acc!Kinds
<1>6. CASE Acc!MagicOut(r)
  <2>1. PICK what \in acReq[r].left :
          /\ IF what = "login"
             THEN acLog' = [acLog EXCEPT !.logins[acReq[r].knows] = @ + 1]
             ELSE acLog' = acLog
          /\ IF acReq[r].left = {what} THEN Acc!Done(r)
             ELSE acReq' = [acReq EXCEPT ![r].left = @ \ {what}] /\ acPc' = acPc
    BY <1>6 DEF Acc!MagicOut
  <2>2. acReq[r].kind = "magic" /\ acPc[r] = "out" /\ names' = names
    BY <1>6 DEF Acc!MagicOut
  <2>3. Lessens(r) /\ (what = "login" => ~Owes(r, "magic")')
    <3>1. CASE Acc!Done(r)
      BY <1>2, <3>1 DEF Acc!Kinds
    <3>2. CASE acReq' = [acReq EXCEPT ![r].left = @ \ {what}] /\ acPc' = acPc
      <4>1. /\ acReq'[r].left = acReq[r].left \ {what} /\ acReq'[r].kind = acReq[r].kind /\ acReq'[r].new = acReq[r].new
            /\ \A q \in Slots \ {r} : acReq'[q] = acReq[q]
        BY <1>1, <3>2 DEF Asking
      <4>. QED BY <2>2, <3>2, <4>1 DEF Lessens, Owes
    <3>. QED BY <2>1, <3>1, <3>2
  <2>4. CASE what = "login"
    <3>1. /\ acLog'.logins = [acLog.logins EXCEPT ![acReq[r].knows] = acLog.logins[acReq[r].knows] + 1]
          /\ acLog'.jobs = acLog.jobs /\ acLog'.changes = acLog.changes /\ acLog'.recoveries = acLog.recoveries
      BY <1>1, <2>1, <2>4
    <3>2. Owes(r, "magic")
      BY <2>1, <2>2, <2>4 DEF Owes
    <3>. QED BY <2>2, <2>3, <2>4, <3>1, <3>2, AccCountedOne
  <2>5. CASE what # "login"
    BY <2>1, <2>2, <2>3, <2>5, AccLessens, AccQuiet
  <2>. QED BY <2>4, <2>5
<1>. QED BY <1>3, <1>4, <1>5, <1>6

\* a request more: one more may be owed
LEMMA AccAskCounted ==
    ASSUME AccInv, AccCounted, NEW r \in Slots, NEW kinds \in Acc!Kinds \ {"idle"}, Acc!Ask(r, kinds)
    PROVE  AccCounted'
<1>1. /\ acLog'.jobs = acLog.jobs + 1 /\ acLog'.changes = acLog.changes /\ acLog'.recoveries = acLog.recoveries
      /\ acLog'.logins = acLog.logins /\ names' = names
  BY DEF Acc!Ask, AccInv, AccTypes
<1>2. acReq'[r].new = acLog.jobs + 1 /\ \A q \in Slots \ {r} : acReq'[q] = acReq[q] /\ acPc'[q] = acPc[q]
  <2>1. DOMAIN acPc = Slots /\ DOMAIN acReq = Slots
    BY DEF AccInv, AccTypes
  <2>. QED BY <2>1 DEF Acc!Ask
<1>3. ASSUME NEW what \in Acc!Kinds \ {"idle"}
      PROVE  Cardinality(Owed(what)') \in Nat /\ Cardinality(Owed(what)') <= Cardinality(Owed(what)) + 1
  <2>1. \A q \in Slots : Owes(q, what)' => (Owes(q, what) /\ acReq'[q].new = acReq[q].new) \/ acReq'[q].new = acLog.jobs + 1
    BY <1>2 DEF Owes
  <2>2. Owed(what)' \in SUBSET (Owed(what) \union {acLog.jobs + 1})
    BY <2>1 DEF Owed
  <2>3. acLog.jobs + 1 \notin Owed(what)
    BY AccOwed
  <2>4. /\ IsFiniteSet(Owed(what) \union {acLog.jobs + 1})
        /\ Cardinality(Owed(what) \union {acLog.jobs + 1}) = Cardinality(Owed(what)) + 1
    BY <2>3, AccOwed, FS_AddElement
  <2>. QED BY <2>2, <2>4, FS_Subset, FS_CardinalityType
<1>4. ASSUME NEW what \in Acc!Kinds \ {"idle"}, NEW f, \A x \in DOMAIN f : f[x] \in Nat, Within(f, what)
      PROVE  \A x \in DOMAIN f : f[x] + Cardinality(Owed(what)') <= acLog'.jobs
  BY <1>1, <1>3, <1>4, AccOwed DEF Within
<1>. QED BY <1>1, <1>4, AccNumbers DEF AccCounted, Within, Acc!Kinds

\* no administrator counts
LEMMA AccSlotlessCounted == ASSUME AccCounted, Acc!Must \/ Acc!Revoke PROVE AccCounted'
BY DEF AccCounted, Within, Owed, Owes, Acc!Must, Acc!Revoke

\* nothing was asked for
LEMMA AccCountedInit == ASSUME Acc!Init PROVE AccCounted
<1>1. \A what \in Acc!Kinds \ {"idle"} : Owed(what) = {}
  <2>1. \A r \in Slots : acReq[r].kind = "idle"
    BY AccNothing DEF Acc!Init
  <2>. QED BY <2>1 DEF Owed, Owes
<1>2. Cardinality({}) = 0
  BY FS_EmptySet
<1>. QED BY <1>1, <1>2 DEF Acc!Init, AccCounted, Within, Acc!Kinds

\* the bounds of the counts are kept as well
LEMMA AccCountedStep == ASSUME AccInv, AccCounted, Acc!Next PROVE AccCounted'
<1>1. CASE Acc!Must \/ Acc!Revoke
  BY <1>1, AccSlotlessCounted
<1>2. ASSUME NEW r \in Slots, NEW kinds \in Acc!Kinds \ {"idle"}, Acc!Ask(r, kinds) PROVE AccCounted'
  BY <1>2, AccAskCounted
<1>3. ASSUME NEW r \in Slots,
             \/ Acc!ChangeFind(r) \/ Acc!AskFind(r) \/ Acc!AskWrite(r) \/ Acc!UseFind(r) \/ Acc!UseUnset(r)
             \/ Acc!MagicFind(r) \/ Acc!MailFind(r) \/ Acc!MailWrite(r)
             \/ Acc!Restore(r) \/ Acc!Terminate(r) \/ Acc!TerminateRevoke(r) \/ Acc!InviteFind(r) \/ Acc!Crash(r)
      PROVE  AccCounted'
  BY <1>3, AccQuietSteps
<1>4. ASSUME NEW r \in Slots, Acc!ChangeWrite(r) \/ Acc!UseWrite(r) \/ Acc!InviteWrite(r) \/ Acc!MagicOut(r)
      PROVE  AccCounted'
  BY <1>4, AccCountSteps
<1>. QED BY <1>1, <1>2, <1>3, <1>4 DEF Acc!Next

\* so every count is a number of requests
LEMMA AccTyped == ASSUME AccInv, AccCounted PROVE Acc!TypeOK
<1>1. \A what \in Acc!Kinds \ {"idle"} : Cardinality(Owed(what)) \in Nat
  BY AccOwed
<1>2. acLog.jobs \in 0..MaxJobs
  BY DEF AccInv, AccTypes, Acc!Secrets
<1>3. ASSUME NEW what \in Acc!Kinds \ {"idle"}, NEW n \in Nat, n + Cardinality(Owed(what)) <= acLog.jobs
      PROVE  n \in 0..MaxJobs
  BY <1>1, <1>2, <1>3, JobsAssumption
<1>4. /\ \A s \in Acc!Secrets : /\ acLog.changes[s] \in 0..MaxJobs /\ acLog.recoveries[s] \in 0..MaxJobs
                                /\ acLog.logins[s] \in 0..MaxJobs
      /\ \A n \in Names : names[n] \in 0..MaxJobs
  BY <1>3, AccNumbers DEF AccCounted, Within, Acc!Kinds
<1>5. /\ acLog.changes \in [Acc!Secrets -> Acc!Secrets] /\ acLog.recoveries \in [Acc!Secrets -> Acc!Secrets]
      /\ acLog.logins \in [Acc!Secrets -> Acc!Secrets] /\ names \in [Names -> 0..MaxJobs]
  BY <1>4 DEF AccInv, AccTypes, Counts, Acc!Secrets
<1>6. acLog \in [jobs : Acc!Secrets, changes : [Acc!Secrets -> Acc!Secrets], recoveries : [Acc!Secrets -> Acc!Secrets],
                 logins : [Acc!Secrets -> Acc!Secrets], raced : SUBSET Acc!Kinds,
                 padded : BOOLEAN, restored : BOOLEAN, crashed : BOOLEAN]
  BY <1>5 DEF AccInv, AccTypes
<1>. QED BY <1>5, <1>6 DEF AccInv, AccTypes, Asking, Acc!TypeOK

-----------------------------------------------------------------------------
(* Vault *)

Edits == [op : Vlt!Ops, of : Passwords, step : Vlt!Steps, name : Vlt!Numbers]
Givers == {"secret", "both", "rename"}
IsOpen(r) == edits[r].step \in {"begun", "half"}

VltTypes ==
    /\ category \in BOOLEAN
    /\ passwords \in [Passwords -> [there : BOOLEAN, name : Vlt!Numbers, secret : Vlt!Numbers]]
    /\ edits \in Seq(Edits) /\ Len(edits) <= MaxRequests
    /\ vaultPast \in [name : [Passwords -> Vlt!Numbers], secret : [Passwords -> Vlt!Numbers],
                      late : SUBSET Passwords, crossed : SUBSET Passwords, died : SUBSET Passwords]

\* a password is created once, and others are asked for when it was
VltKnown ==
    /\ \A r, q \in DOMAIN edits : edits[r].op = "create" /\ edits[q].op = "create" /\ edits[r].of = edits[q].of => r = q
    /\ \A r \in DOMAIN edits : edits[r].op \in Givers =>
          \E q \in DOMAIN edits : edits[q].op = "create" /\ edits[q].of = edits[r].of /\ edits[q].step = "answered"

VltCrossed ==
    \A r, q \in DOMAIN edits :
        /\ r # q /\ edits[r].of = edits[q].of
        /\ edits[r].op \in Givers /\ edits[q].op \in Givers /\ IsOpen(r) /\ IsOpen(q)
        => edits[r].of \in vaultPast.crossed

\* the name which is about to be written
VltRead ==
    \A r \in DOMAIN edits : edits[r].step = "half" =>
        /\ edits[r].op = "both" => edits[r].name = r
        /\ edits[r].op = "secret" =>
              edits[r].name = vaultPast.name[edits[r].of] \/ edits[r].of \in vaultPast.crossed

VltInv == VltTypes /\ VltKnown /\ VltCrossed /\ VltRead /\ Vlt!NoOrphan /\ Vlt!LastGiven

\* a request goes on
LEMMA VltMoved ==
    ASSUME VltTypes, NEW r \in DOMAIN edits, NEW e \in Edits,
           edits' = [edits EXCEPT ![r] = e]
    PROVE  /\ edits' \in Seq(Edits) /\ Len(edits') = Len(edits) /\ DOMAIN edits' = DOMAIN edits
           /\ edits'[r] = e
           /\ \A q \in DOMAIN edits : q # r => edits'[q] = edits[q]
<1>1. edits \in Seq(Edits) /\ DOMAIN edits = 1..Len(edits)
  BY LenProperties DEF VltTypes
<1>2. /\ edits' \in Seq(Edits) /\ Len(edits') = Len(edits)
      /\ \A q \in DOMAIN edits : edits'[q] = IF q = r THEN e ELSE edits[q]
  BY <1>1, ExceptSeq
<1>3. DOMAIN edits' = 1..Len(edits')
  BY <1>2, LenProperties
<1>. QED BY <1>1, <1>2, <1>3

\* requests are numbered in their order
LEMMA VltNumbers ==
    ASSUME VltTypes
    PROVE  /\ Len(edits) \in Nat /\ DOMAIN edits = 1..Len(edits)
           /\ \A r \in DOMAIN edits : edits[r] \in Edits /\ r \in Vlt!Numbers /\ r \in Nat
<1>1. edits \in Seq(Edits) /\ Len(edits) \in Nat /\ DOMAIN edits = 1..Len(edits) /\ edits \in [1..Len(edits) -> Edits]
  BY LenProperties DEF VltTypes
<1>2. ASSUME NEW r \in DOMAIN edits PROVE edits[r] \in Edits /\ r \in Vlt!Numbers /\ r \in Nat
  BY <1>1, RequestsAssumption DEF VltTypes, Vlt!Numbers
<1>. QED BY <1>1, <1>2

\* what one step of a request does to it
LEMMA VltStepped ==
    ASSUME VltTypes, NEW r \in DOMAIN edits, NEW next \in Vlt!Steps, Vlt!Step(r, next)
    PROVE  /\ edits' \in Seq(Edits) /\ Len(edits') = Len(edits) /\ DOMAIN edits' = DOMAIN edits
           /\ edits'[r].step = next /\ edits'[r].op = edits[r].op /\ edits'[r].of = edits[r].of
           /\ edits'[r].name = edits[r].name
           /\ \A q \in DOMAIN edits : q # r => edits'[q] = edits[q]
<1>1. edits[r] \in Edits
  BY VltNumbers
<1>. DEFINE e == [edits[r] EXCEPT !.step = next]
<1>2. e \in Edits /\ e.step = next /\ e.op = edits[r].op /\ e.of = edits[r].of /\ e.name = edits[r].name
  BY <1>1 DEF Edits
<1>3. edits' = [edits EXCEPT ![r] = e]
  BY DEF Vlt!Step
<1>. HIDE DEF e
<1>. QED BY <1>2, <1>3, VltMoved

\* what is known of the order of requests remains, where none is added
LEMMA VltRequestsSame ==
    ASSUME VltInv, DOMAIN edits' = DOMAIN edits, vaultPast.crossed \subseteq vaultPast'.crossed,
           \A q \in DOMAIN edits : /\ edits'[q].op = edits[q].op /\ edits'[q].of = edits[q].of
                                   /\ edits[q].step = "answered" => edits'[q].step = "answered"
                                   /\ IsOpen(q)' => IsOpen(q)
    PROVE  VltKnown' /\ VltCrossed'
<1>1. VltKnown'
  <2>1. ASSUME NEW r \in DOMAIN edits, edits[r].op \in Givers
        PROVE  \E q \in DOMAIN edits : edits'[q].op = "create" /\ edits'[q].of = edits[r].of /\ edits'[q].step = "answered"
    <3>1. PICK q \in DOMAIN edits : edits[q].op = "create" /\ edits[q].of = edits[r].of /\ edits[q].step = "answered"
      BY <2>1 DEF VltInv, VltKnown
    <3>. QED BY <3>1
  <2>. QED BY <2>1 DEF VltInv, VltKnown
<1>2. VltCrossed'
  BY DEF VltInv, VltCrossed
<1>. QED BY <1>1, <1>2

Dropping == \E r \in DOMAIN edits : edits[r].op = "drop" /\ edits[r].step = "half"

\* who may leave a password without a category
LEMMA VltOrphans ==
    Vlt!NoOrphan <=> \/ category \/ Dropping
                     \/ \A p \in Passwords : passwords[p].there => p \in vaultPast.late \union vaultPast.died
BY DEF Vlt!NoOrphan, Vlt!Open, Dropping

\* a request arrives
LEMMA VltBegin == ASSUME VltInv, Vlt!Begin PROVE VltInv'
<1>1. PICK op \in Vlt!Ops, p \in Passwords :
        /\ CASE op = "create" -> Vlt!Of(p, {"create"}) = {}
             [] op = "drop" -> p = CHOOSE q \in Passwords : TRUE
             [] OTHER -> Vlt!Known(p)
        /\ edits' = Append(edits, [op |-> op, of |-> p, step |-> "begun", name |-> 0])
        /\ vaultPast' = [vaultPast EXCEPT !.crossed =
                            IF Vlt!Open({"secret", "both", "rename"}) \intersect Vlt!Of(p, Vlt!Ops) = {} THEN @ ELSE @ \union {p}]
  BY DEF Vlt!Begin
<1>. DEFINE e == [op |-> op, of |-> p, step |-> "begun", name |-> 0]
            n == Len(edits) + 1
<1>2. category' = category /\ passwords' = passwords /\ Len(edits) < MaxRequests
  BY DEF Vlt!Begin
<1>3. e \in Edits /\ e.op = op /\ e.of = p /\ e.step = "begun"
  BY RequestsAssumption DEF Edits, Vlt!Steps, Vlt!Numbers
<1>4. edits' = Append(edits, e)
  BY <1>1
<1>. HIDE DEF e
<1>5. /\ edits' \in Seq(Edits) /\ Len(edits') = n /\ edits'[n] = e
      /\ \A q \in 1..Len(edits) : edits'[q] = edits[q]
  BY <1>3, <1>4, AppendProperties DEF VltInv, VltTypes
<1>6. Len(edits) \in Nat /\ DOMAIN edits = 1..Len(edits) /\ DOMAIN edits' = 1..n
  BY <1>5, VltNumbers, LenProperties DEF VltInv
<1>7. \A q \in DOMAIN edits' : (q \in DOMAIN edits /\ edits'[q] = edits[q]) \/ (q = n /\ edits'[q] = e)
  BY <1>5, <1>6
<1>7a. \A q \in DOMAIN edits : q \in DOMAIN edits' /\ edits'[q] = edits[q] /\ q # n
  BY <1>5, <1>6
<1>8. /\ vaultPast'.name = vaultPast.name /\ vaultPast'.secret = vaultPast.secret
      /\ vaultPast'.late = vaultPast.late /\ vaultPast'.died = vaultPast.died
      /\ vaultPast.crossed \subseteq vaultPast'.crossed
      /\ (\E q \in DOMAIN edits : edits[q].of = p /\ edits[q].op \in Givers /\ IsOpen(q)) => p \in vaultPast'.crossed
  <2>1. ASSUME NEW q \in DOMAIN edits, edits[q].of = p, edits[q].op \in Givers, IsOpen(q)
        PROVE  q \in Vlt!Open({"secret", "both", "rename"}) \intersect Vlt!Of(p, Vlt!Ops)
    BY <2>1 DEF Vlt!Open, Vlt!Of, Vlt!Ops, Givers, IsOpen
  <2>. QED BY <1>1, <2>1 DEF VltInv, VltTypes
<1>9. VltTypes'
  <2>1. vaultPast' \in [name : [Passwords -> Vlt!Numbers], secret : [Passwords -> Vlt!Numbers],
                        late : SUBSET Passwords, crossed : SUBSET Passwords, died : SUBSET Passwords]
    BY <1>1 DEF VltInv, VltTypes
  <2>. QED BY <1>2, <1>5, <1>6, <2>1, RequestsAssumption DEF VltInv, VltTypes
<1>10. VltKnown'
  <2>1. ASSUME NEW r \in DOMAIN edits', NEW q \in DOMAIN edits', edits'[r].op = "create", edits'[q].op = "create",
               edits'[r].of = edits'[q].of
        PROVE  r = q
    <3>1. op = "create" => \A m \in DOMAIN edits : ~(edits[m].of = p /\ edits[m].op = "create")
      BY <1>1 DEF Vlt!Of
    <3>. QED BY <2>1, <3>1, <1>3, <1>7 DEF VltInv, VltKnown
  <2>2. ASSUME NEW r \in DOMAIN edits', edits'[r].op \in Givers
        PROVE  \E q \in DOMAIN edits' : edits'[q].op = "create" /\ edits'[q].of = edits'[r].of /\ edits'[q].step = "answered"
    <3>1. op \in Givers => Vlt!Known(p)
      BY <1>1 DEF Givers
    <3>2. op \in Givers => \E q \in DOMAIN edits : edits[q].op = "create" /\ edits[q].of = p /\ edits[q].step = "answered"
      BY <3>1 DEF Vlt!Known, Vlt!Of
    <3>. QED BY <2>2, <3>2, <1>3, <1>7, <1>7a DEF VltInv, VltKnown
  <2>. QED BY <2>1, <2>2 DEF VltKnown
<1>11. VltCrossed'
  <2>1. ASSUME NEW r \in DOMAIN edits', NEW q \in DOMAIN edits', r # q, edits'[r].of = edits'[q].of,
               edits'[r].op \in Givers, edits'[q].op \in Givers, IsOpen(r)', IsOpen(q)'
        PROVE  edits'[r].of \in vaultPast'.crossed
    <3>1. CASE r \in DOMAIN edits /\ q \in DOMAIN edits
      BY <2>1, <3>1, <1>7a, <1>8 DEF VltInv, VltCrossed, IsOpen
    <3>2. CASE r = n /\ q \in DOMAIN edits
      BY <2>1, <3>2, <1>3, <1>5, <1>7a, <1>8 DEF IsOpen
    <3>3. CASE q = n /\ r \in DOMAIN edits
      BY <2>1, <3>3, <1>3, <1>5, <1>7a, <1>8 DEF IsOpen
    <3>. QED BY <2>1, <3>1, <3>2, <3>3, <1>7
  <2>. QED BY <2>1 DEF VltCrossed
<1>12. VltRead'
  BY <1>3, <1>7, <1>8 DEF VltInv, VltRead
<1>13. Vlt!NoOrphan'
  <2>1. Dropping => Dropping'
    BY <1>7a DEF Dropping
  <2>2. Vlt!NoOrphan
    BY DEF VltInv
  <2>3. category' \/ Dropping' \/ \A s \in Passwords : passwords'[s].there => s \in vaultPast'.late \union vaultPast'.died
    BY <1>2, <1>8, <2>1, <2>2, VltOrphans
  <2>. QED BY <2>3 DEF Vlt!NoOrphan, Vlt!Open, Dropping
<1>14. Vlt!LastGiven'
  BY <1>2, <1>8 DEF VltInv, Vlt!LastGiven
<1>. QED BY <1>9, <1>10, <1>11, <1>12, <1>13, <1>14 DEF VltInv

\* a request which renames only
LEMMA VltRenameStep == ASSUME VltInv, NEW r \in DOMAIN edits, Vlt!Rename(r) PROVE VltInv'
<1>. DEFINE p == edits[r].of
<1>1. /\ edits[r].op = "rename" /\ edits[r].step = "begun" /\ category' = category
      /\ passwords' = IF passwords[p].there THEN [passwords EXCEPT ![p].name = r] ELSE passwords
      /\ vaultPast' = [vaultPast EXCEPT !.name[p] = r]
      /\ Vlt!Step(r, "answered")
  BY DEF Vlt!Rename
<1>2. p \in Passwords /\ r \in Vlt!Numbers
  BY VltNumbers DEF VltInv, Edits
<1>3. /\ edits' \in Seq(Edits) /\ Len(edits') = Len(edits) /\ DOMAIN edits' = DOMAIN edits
      /\ edits'[r].step = "answered" /\ edits'[r].op = edits[r].op /\ edits'[r].of = edits[r].of
      /\ \A q \in DOMAIN edits : q # r => edits'[q] = edits[q]
  BY <1>1, VltStepped DEF VltInv, Vlt!Steps
<1>4. /\ vaultPast'.name[p] = r /\ \A s \in Passwords : s # p => vaultPast'.name[s] = vaultPast.name[s]
      /\ vaultPast'.secret = vaultPast.secret /\ vaultPast'.late = vaultPast.late
      /\ vaultPast'.crossed = vaultPast.crossed /\ vaultPast'.died = vaultPast.died
  BY <1>1, <1>2 DEF VltInv, VltTypes
<1>5. /\ \A s \in Passwords : passwords'[s].there = passwords[s].there /\ passwords'[s].secret = passwords[s].secret
      /\ \A s \in Passwords : s # p => passwords'[s].name = passwords[s].name
      /\ passwords[p].there => passwords'[p].name = r
  BY <1>1, <1>2 DEF VltInv, VltTypes
<1>6. VltTypes'
  <2>1. vaultPast' \in [name : [Passwords -> Vlt!Numbers], secret : [Passwords -> Vlt!Numbers],
                        late : SUBSET Passwords, crossed : SUBSET Passwords, died : SUBSET Passwords]
    BY <1>1, <1>2 DEF VltInv, VltTypes
  <2>2. passwords' \in [Passwords -> [there : BOOLEAN, name : Vlt!Numbers, secret : Vlt!Numbers]]
    BY <1>1, <1>2 DEF VltInv, VltTypes
  <2>. QED BY <1>1, <1>3, <2>1, <2>2 DEF VltInv, VltTypes
<1>7. VltKnown' /\ VltCrossed'
  BY <1>1, <1>3, <1>4, VltRequestsSame DEF IsOpen
<1>8. VltRead'
  <2>1. ASSUME NEW q \in DOMAIN edits, edits'[q].step = "half", edits'[q].op = "secret"
        PROVE  edits'[q].name = vaultPast'.name[edits'[q].of] \/ edits'[q].of \in vaultPast'.crossed
    <3>1. q # r /\ edits'[q] = edits[q] /\ edits[q].of \in Passwords
      BY <2>1, <1>3, VltNumbers DEF VltInv, Edits
    <3>2. CASE edits[q].of = p
      BY <2>1, <3>1, <3>2, <1>1, <1>4 DEF VltInv, VltCrossed, Givers, IsOpen
    <3>3. CASE edits[q].of # p
      BY <2>1, <3>1, <3>3, <1>4 DEF VltInv, VltRead
    <3>. QED BY <3>2, <3>3
  <2>2. ASSUME NEW q \in DOMAIN edits, edits'[q].step = "half", edits'[q].op = "both"
        PROVE  edits'[q].name = q
    BY <2>2, <1>3 DEF VltInv, VltRead
  <2>. QED BY <2>1, <2>2, <1>3 DEF VltRead
<1>9. Vlt!NoOrphan'
  <2>1. Dropping => Dropping'
    BY <1>1, <1>3 DEF Dropping
  <2>2. Vlt!NoOrphan
    BY DEF VltInv
  <2>3. category' \/ Dropping' \/ \A s \in Passwords : passwords'[s].there => s \in vaultPast'.late \union vaultPast'.died
    BY <1>1, <1>4, <1>5, <2>1, <2>2, VltOrphans
  <2>. QED BY <2>3 DEF Vlt!NoOrphan, Vlt!Open, Dropping
<1>10. Vlt!LastGiven'
  BY <1>4, <1>5 DEF VltInv, Vlt!LastGiven
<1>. QED BY <1>6, <1>7, <1>8, <1>9, <1>10 DEF VltInv

\* the password is inserted
LEMMA VltCreateStep == ASSUME VltInv, NEW r \in DOMAIN edits, Vlt!Create(r) PROVE VltInv'
<1>. DEFINE p == edits[r].of
<1>1. /\ edits[r].op = "create" /\ edits[r].step = "begun" /\ category' = category
      /\ passwords' = [passwords EXCEPT ![p] = [there |-> TRUE, name |-> r, secret |-> r]]
      /\ vaultPast' = [vaultPast EXCEPT !.name[p] = r, !.secret[p] = r,
                                        !.late = IF category THEN @ ELSE @ \union {p}]
      /\ Vlt!Step(r, "answered")
  BY DEF Vlt!Create
<1>2. p \in Passwords /\ r \in Vlt!Numbers
  BY VltNumbers DEF VltInv, Edits
<1>3. /\ edits' \in Seq(Edits) /\ Len(edits') = Len(edits) /\ DOMAIN edits' = DOMAIN edits
      /\ edits'[r].step = "answered" /\ edits'[r].op = edits[r].op /\ edits'[r].of = edits[r].of
      /\ \A q \in DOMAIN edits : q # r => edits'[q] = edits[q]
  BY <1>1, VltStepped DEF VltInv, Vlt!Steps
<1>4. /\ vaultPast'.name[p] = r /\ \A s \in Passwords : s # p => vaultPast'.name[s] = vaultPast.name[s]
      /\ vaultPast'.secret[p] = r /\ \A s \in Passwords : s # p => vaultPast'.secret[s] = vaultPast.secret[s]
      /\ vaultPast.late \subseteq vaultPast'.late /\ (category \/ p \in vaultPast'.late)
      /\ vaultPast'.crossed = vaultPast.crossed /\ vaultPast'.died = vaultPast.died
  BY <1>1, <1>2 DEF VltInv, VltTypes
<1>5. /\ passwords'[p].name = r /\ passwords'[p].secret = r
      /\ \A s \in Passwords : s # p => passwords'[s] = passwords[s]
  BY <1>1, <1>2 DEF VltInv, VltTypes
<1>6. VltTypes'
  <2>1. vaultPast' \in [name : [Passwords -> Vlt!Numbers], secret : [Passwords -> Vlt!Numbers],
                        late : SUBSET Passwords, crossed : SUBSET Passwords, died : SUBSET Passwords]
    BY <1>1, <1>2 DEF VltInv, VltTypes
  <2>2. passwords' \in [Passwords -> [there : BOOLEAN, name : Vlt!Numbers, secret : Vlt!Numbers]]
    BY <1>1, <1>2 DEF VltInv, VltTypes
  <2>. QED BY <1>1, <1>3, <2>1, <2>2 DEF VltInv, VltTypes
<1>7. VltKnown' /\ VltCrossed'
  BY <1>1, <1>3, <1>4, VltRequestsSame DEF IsOpen
<1>8. VltRead'
  \* nothing else is under way, as the password is known from now on
  <2>1. ASSUME NEW q \in DOMAIN edits, edits'[q].step = "half", edits'[q].op = "secret"
        PROVE  edits'[q].name = vaultPast'.name[edits'[q].of] \/ edits'[q].of \in vaultPast'.crossed
    <3>1. q # r /\ edits'[q] = edits[q] /\ edits[q].of \in Passwords
      BY <2>1, <1>3, VltNumbers DEF VltInv, Edits
    <3>2. edits[q].of # p
      <4>1. PICK c \in DOMAIN edits : edits[c].op = "create" /\ edits[c].of = edits[q].of /\ edits[c].step = "answered"
        BY <2>1, <3>1 DEF VltInv, VltKnown, Givers
      <4>2. c # r
        BY <4>1, <1>1
      <4>. QED BY <4>1, <4>2, <1>1 DEF VltInv, VltKnown
    <3>. QED BY <2>1, <3>1, <3>2, <1>4 DEF VltInv, VltRead
  <2>2. ASSUME NEW q \in DOMAIN edits, edits'[q].step = "half", edits'[q].op = "both"
        PROVE  edits'[q].name = q
    BY <2>2, <1>3 DEF VltInv, VltRead
  <2>. QED BY <2>1, <2>2, <1>3 DEF VltRead
<1>9. Vlt!NoOrphan'
  <2>1. Dropping => Dropping'
    BY <1>1, <1>3 DEF Dropping
  <2>2. Vlt!NoOrphan
    BY DEF VltInv
  <2>3. category' \/ Dropping' \/ \A s \in Passwords : passwords'[s].there => s \in vaultPast'.late \union vaultPast'.died
    BY <1>1, <1>4, <1>5, <2>1, <2>2, VltOrphans
  <2>. QED BY <2>3 DEF Vlt!NoOrphan, Vlt!Open, Dropping
<1>10. Vlt!LastGiven'
  BY <1>2, <1>4, <1>5 DEF VltInv, Vlt!LastGiven
<1>. QED BY <1>6, <1>7, <1>8, <1>9, <1>10 DEF VltInv

\* a request which gives a secret reads the name
LEMMA VltReadStep == ASSUME VltInv, NEW r \in DOMAIN edits, Vlt!Read(r) PROVE VltInv'
<1>. DEFINE p == edits[r].of
            e == [edits[r] EXCEPT !.step = IF passwords[p].there THEN "half" ELSE "silent",
                                  !.name = IF edits[r].op = "both" THEN r ELSE passwords[p].name]
<1>1. /\ edits[r].op \in {"secret", "both"} /\ edits[r].step = "begun"
      /\ edits' = [edits EXCEPT ![r].step = IF passwords[p].there THEN "half" ELSE "silent",
                                ![r].name = IF edits[r].op = "both" THEN r ELSE passwords[p].name]
      /\ category' = category /\ passwords' = passwords /\ vaultPast' = vaultPast
  BY DEF Vlt!Read
<1>2. p \in Passwords /\ r \in Vlt!Numbers /\ edits[r] \in Edits
  BY VltNumbers DEF VltInv, Edits
<1>3. /\ e \in Edits /\ e.op = edits[r].op /\ e.of = p
      /\ e.step = IF passwords[p].there THEN "half" ELSE "silent"
      /\ e.name = IF edits[r].op = "both" THEN r ELSE passwords[p].name
  BY <1>2 DEF VltInv, VltTypes, Edits, Vlt!Steps
<1>4. edits' = [edits EXCEPT ![r] = e]
  BY <1>1, <1>2, VltNumbers DEF VltInv, Edits
<1>. HIDE DEF e
<1>5. /\ edits' \in Seq(Edits) /\ Len(edits') = Len(edits) /\ DOMAIN edits' = DOMAIN edits
      /\ edits'[r] = e
      /\ \A q \in DOMAIN edits : q # r => edits'[q] = edits[q]
  BY <1>3, <1>4, VltMoved DEF VltInv
<1>6. VltTypes'
  BY <1>1, <1>5 DEF VltInv, VltTypes
<1>7. VltKnown' /\ VltCrossed'
  BY <1>1, <1>3, <1>5, VltRequestsSame DEF IsOpen
<1>8. VltRead'
  <2>1. e.step = "half" /\ e.op = "secret" => e.name = vaultPast.name[p] \/ p \in vaultPast.crossed
    BY <1>2, <1>3 DEF VltInv, Vlt!LastGiven
  <2>2. e.step = "half" /\ e.op = "both" => e.name = r
    BY <1>3
  <2>. QED BY <1>1, <1>3, <1>5, <2>1, <2>2 DEF VltInv, VltRead
<1>9. Vlt!NoOrphan'
  <2>1. Dropping => Dropping'
    BY <1>1, <1>5 DEF Dropping
  <2>2. Vlt!NoOrphan
    BY DEF VltInv
  <2>3. category' \/ Dropping' \/ \A s \in Passwords : passwords'[s].there => s \in vaultPast'.late \union vaultPast'.died
    BY <1>1, <2>1, <2>2, VltOrphans
  <2>. QED BY <2>3 DEF Vlt!NoOrphan, Vlt!Open, Dropping
<1>10. Vlt!LastGiven'
  BY <1>1 DEF VltInv, Vlt!LastGiven
<1>. QED BY <1>6, <1>7, <1>8, <1>9, <1>10 DEF VltInv

\* and writes the password
LEMMA VltWriteStep == ASSUME VltInv, NEW r \in DOMAIN edits, Vlt!Write(r) PROVE VltInv'
<1>. DEFINE p == edits[r].of
<1>1. /\ edits[r].op \in {"secret", "both"} /\ edits[r].step = "half" /\ category' = category
      /\ passwords' = IF passwords[p].there
                      THEN [passwords EXCEPT ![p].name = edits[r].name, ![p].secret = r] ELSE passwords
      /\ vaultPast' = [vaultPast EXCEPT !.secret[p] = r, !.name[p] = IF edits[r].op = "both" THEN r ELSE @]
      /\ Vlt!Step(r, "answered")
  BY DEF Vlt!Write
<1>2. p \in Passwords /\ r \in Vlt!Numbers /\ edits[r].name \in Vlt!Numbers
  BY VltNumbers DEF VltInv, Edits
<1>3. /\ edits' \in Seq(Edits) /\ Len(edits') = Len(edits) /\ DOMAIN edits' = DOMAIN edits
      /\ edits'[r].step = "answered" /\ edits'[r].op = edits[r].op /\ edits'[r].of = edits[r].of
      /\ \A q \in DOMAIN edits : q # r => edits'[q] = edits[q]
  BY <1>1, VltStepped DEF VltInv, Vlt!Steps
<1>4. /\ vaultPast'.name[p] = (IF edits[r].op = "both" THEN r ELSE vaultPast.name[p])
      /\ \A s \in Passwords : s # p => vaultPast'.name[s] = vaultPast.name[s]
      /\ vaultPast'.secret[p] = r /\ \A s \in Passwords : s # p => vaultPast'.secret[s] = vaultPast.secret[s]
      /\ vaultPast'.late = vaultPast.late
      /\ vaultPast'.crossed = vaultPast.crossed /\ vaultPast'.died = vaultPast.died
  BY <1>1, <1>2 DEF VltInv, VltTypes
<1>5. /\ \A s \in Passwords : passwords'[s].there = passwords[s].there
      /\ \A s \in Passwords : s # p => passwords'[s] = passwords[s]
      /\ passwords[p].there => passwords'[p].name = edits[r].name /\ passwords'[p].secret = r
  BY <1>1, <1>2 DEF VltInv, VltTypes
<1>6. VltTypes'
  <2>1. vaultPast' \in [name : [Passwords -> Vlt!Numbers], secret : [Passwords -> Vlt!Numbers],
                        late : SUBSET Passwords, crossed : SUBSET Passwords, died : SUBSET Passwords]
    BY <1>1, <1>2 DEF VltInv, VltTypes
  <2>2. passwords' \in [Passwords -> [there : BOOLEAN, name : Vlt!Numbers, secret : Vlt!Numbers]]
    BY <1>1, <1>2 DEF VltInv, VltTypes
  <2>. QED BY <1>1, <1>3, <2>1, <2>2 DEF VltInv, VltTypes
<1>7. VltKnown' /\ VltCrossed'
  BY <1>1, <1>3, <1>4, VltRequestsSame DEF IsOpen
<1>8. VltRead'
  <2>1. ASSUME NEW q \in DOMAIN edits, edits'[q].step = "half", edits'[q].op = "secret"
        PROVE  edits'[q].name = vaultPast'.name[edits'[q].of] \/ edits'[q].of \in vaultPast'.crossed
    <3>1. q # r /\ edits'[q] = edits[q] /\ edits[q].of \in Passwords
      BY <2>1, <1>3, VltNumbers DEF VltInv, Edits
    <3>2. CASE edits[q].of = p
      BY <2>1, <3>1, <3>2, <1>1, <1>4 DEF VltInv, VltCrossed, Givers, IsOpen
    <3>3. CASE edits[q].of # p
      BY <2>1, <3>1, <3>3, <1>4 DEF VltInv, VltRead
    <3>. QED BY <3>2, <3>3
  <2>2. ASSUME NEW q \in DOMAIN edits, edits'[q].step = "half", edits'[q].op = "both"
        PROVE  edits'[q].name = q
    BY <2>2, <1>3 DEF VltInv, VltRead
  <2>. QED BY <2>1, <2>2, <1>3 DEF VltRead
<1>9. Vlt!NoOrphan'
  <2>1. Dropping => Dropping'
    BY <1>1, <1>3 DEF Dropping
  <2>2. Vlt!NoOrphan
    BY DEF VltInv
  <2>3. category' \/ Dropping' \/ \A s \in Passwords : passwords'[s].there => s \in vaultPast'.late \union vaultPast'.died
    BY <1>1, <1>4, <1>5, <2>1, <2>2, VltOrphans
  <2>. QED BY <2>3 DEF Vlt!NoOrphan, Vlt!Open, Dropping
<1>10. Vlt!LastGiven'
  <2>1. passwords[p].there => edits[r].name = vaultPast'.name[p] \/ p \in vaultPast'.crossed
    BY <1>1, <1>4 DEF VltInv, VltRead
  <2>. QED BY <1>2, <1>4, <1>5, <2>1 DEF VltInv, Vlt!LastGiven
<1>. QED BY <1>6, <1>7, <1>8, <1>9, <1>10 DEF VltInv

\* what is removed, alone or with its category
LEMMA VltRemovalSteps ==
    ASSUME VltInv, NEW r \in DOMAIN edits, Vlt!Forget(r) \/ Vlt!Drop(r) \/ Vlt!DropPasswords(r)
    PROVE  VltInv'
<1>0. PICK next \in {"answered", "half"} : Vlt!Step(r, next) /\ (next = "half" <=> Vlt!Drop(r))
  BY DEF Vlt!Forget, Vlt!Drop, Vlt!DropPasswords
<1>1. /\ edits[r].op \in {"remove", "drop"} /\ edits[r].step \in {"begun", "half"} /\ vaultPast' = vaultPast
      /\ category' \in BOOLEAN
  <2>1. edits[r].op \in {"remove", "drop"} /\ edits[r].step \in {"begun", "half"} /\ vaultPast' = vaultPast
    BY DEF Vlt!Forget, Vlt!Drop, Vlt!DropPasswords
  <2>2. category' = category \/ category' = FALSE
    BY DEF Vlt!Forget, Vlt!Drop, Vlt!DropPasswords
  <2>3. category' \in BOOLEAN
    BY <2>2 DEF VltInv, VltTypes
  <2>. QED BY <2>1, <2>3
<1>2. edits[r].of \in Passwords
  BY VltNumbers DEF VltInv, Edits
<1>3. /\ edits' \in Seq(Edits) /\ Len(edits') = Len(edits) /\ DOMAIN edits' = DOMAIN edits
      /\ edits'[r].step = next /\ edits'[r].op = edits[r].op /\ edits'[r].of = edits[r].of
      /\ edits'[r].name = edits[r].name
      /\ \A q \in DOMAIN edits : q # r => edits'[q] = edits[q]
  BY <1>0, VltStepped DEF VltInv, Vlt!Steps
<1>4. passwords' \in [Passwords -> [there : BOOLEAN, name : Vlt!Numbers, secret : Vlt!Numbers]]
  <2>1. CASE Vlt!Forget(r)
    <3>1. passwords' = [passwords EXCEPT ![edits[r].of] = [passwords[edits[r].of] EXCEPT !.there = FALSE]]
      BY <2>1 DEF Vlt!Forget
    <3>. QED BY <1>2, <3>1 DEF VltInv, VltTypes
  <2>2. CASE Vlt!Drop(r)
    BY <2>2 DEF Vlt!Drop, VltInv, VltTypes
  <2>3. CASE Vlt!DropPasswords(r)
    BY <2>3 DEF Vlt!DropPasswords, VltInv, VltTypes
  <2>. QED BY <2>1, <2>2, <2>3
<1>5. \A s \in Passwords : /\ passwords'[s].name = passwords[s].name /\ passwords'[s].secret = passwords[s].secret
                           /\ passwords'[s].there => passwords[s].there
  <2>1. CASE Vlt!Forget(r)
    BY <1>2, <2>1 DEF Vlt!Forget, VltInv, VltTypes
  <2>2. CASE Vlt!Drop(r)
    BY <2>2 DEF Vlt!Drop
  <2>3. CASE Vlt!DropPasswords(r)
    BY <2>3 DEF Vlt!DropPasswords, VltInv, VltTypes
  <2>. QED BY <2>1, <2>2, <2>3
<1>6. VltTypes'
  BY <1>1, <1>3, <1>4 DEF VltInv, VltTypes
<1>7. VltKnown' /\ VltCrossed'
  BY <1>1, <1>3, VltRequestsSame DEF IsOpen
<1>8. VltRead'
  BY <1>1, <1>3 DEF VltInv, VltRead
<1>9. Vlt!NoOrphan'
  <2>1. CASE Vlt!Forget(r)
    <3>1. Dropping => Dropping'
      BY <2>1, <1>3 DEF Dropping, Vlt!Forget
    <3>2. category' = category
      BY <2>1 DEF Vlt!Forget
    <3>3. category \/ Dropping \/ \A s \in Passwords : passwords[s].there => s \in vaultPast.late \union vaultPast.died
      BY VltOrphans DEF VltInv
    <3>. QED BY <1>1, <1>5, <3>1, <3>2, <3>3 DEF Vlt!NoOrphan, Vlt!Open, Dropping
  <2>2. CASE Vlt!Drop(r)
    <3>1. Dropping'
      BY <2>2, <1>0, <1>3 DEF Dropping, Vlt!Drop
    <3>. QED BY <3>1 DEF Vlt!NoOrphan, Vlt!Open, Dropping
  <2>3. CASE Vlt!DropPasswords(r)
    <3>1. \A s \in Passwords : passwords'[s].there = FALSE
      BY <2>3 DEF Vlt!DropPasswords, VltInv, VltTypes
    <3>. QED BY <3>1 DEF Vlt!NoOrphan
  <2>. QED BY <2>1, <2>2, <2>3
<1>10. Vlt!LastGiven'
  BY <1>1, <1>5 DEF VltInv, Vlt!LastGiven
<1>. QED BY <1>6, <1>7, <1>8, <1>9, <1>10 DEF VltInv

\* the worker dies, and all its requests
LEMMA VltCrashStep == ASSUME VltInv, Vlt!Crash PROVE VltInv'
<1>1. /\ edits' = [r \in DOMAIN edits |-> IF r \in Vlt!Open(Vlt!Ops) THEN [edits[r] EXCEPT !.step = "dead"] ELSE edits[r]]
      /\ vaultPast' = [vaultPast EXCEPT !.died = IF \E r \in Vlt!Open({"drop"}) : edits[r].step = "half"
                                          THEN @ \union {p \in Passwords : passwords[p].there} ELSE @]
      /\ category' = category /\ passwords' = passwords
  BY DEF Vlt!Crash
<1>2. \A r \in DOMAIN edits : edits[r] \in Edits /\ [edits[r] EXCEPT !.step = "dead"] \in Edits
  BY VltNumbers DEF VltInv, Edits, Vlt!Steps
<1>3. edits' \in [1..Len(edits) -> Edits] /\ Len(edits) \in Nat
  BY <1>1, <1>2, VltNumbers DEF VltInv
<1>4. edits' \in Seq(Edits)
  BY <1>3, SeqDef
<1>5. Len(edits') = Len(edits) /\ DOMAIN edits' = DOMAIN edits
  BY <1>3, <1>4, LenProperties, VltNumbers DEF VltInv
<1>6. \A q \in DOMAIN edits : /\ edits'[q].op = edits[q].op /\ edits'[q].of = edits[q].of /\ edits'[q].name = edits[q].name
                              /\ edits'[q].step = IF IsOpen(q) THEN "dead" ELSE edits[q].step
  BY <1>1, <1>2 DEF Vlt!Open, IsOpen, Edits
<1>7. /\ vaultPast'.name = vaultPast.name /\ vaultPast'.secret = vaultPast.secret
      /\ vaultPast'.late = vaultPast.late /\ vaultPast'.crossed = vaultPast.crossed
      /\ vaultPast.died \subseteq vaultPast'.died
      /\ Dropping => \A p \in Passwords : passwords[p].there => p \in vaultPast'.died
  BY <1>1 DEF VltInv, VltTypes, Dropping, Vlt!Open
<1>8. VltTypes'
  <2>1. vaultPast' \in [name : [Passwords -> Vlt!Numbers], secret : [Passwords -> Vlt!Numbers],
                        late : SUBSET Passwords, crossed : SUBSET Passwords, died : SUBSET Passwords]
    BY <1>1 DEF VltInv, VltTypes
  <2>. QED BY <1>1, <1>4, <1>5, <2>1 DEF VltInv, VltTypes
<1>9. VltKnown' /\ VltCrossed'
  BY <1>5, <1>6, <1>7, VltRequestsSame DEF IsOpen
<1>10. VltRead'
  BY <1>5, <1>6, <1>7 DEF VltInv, VltRead, IsOpen
<1>11. Vlt!NoOrphan'
  <2>1. category \/ Dropping \/ \A s \in Passwords : passwords[s].there => s \in vaultPast.late \union vaultPast.died
    BY VltOrphans DEF VltInv
  <2>. QED BY <1>1, <1>7, <2>1 DEF Vlt!NoOrphan
<1>12. Vlt!LastGiven'
  BY <1>1, <1>7 DEF VltInv, Vlt!LastGiven
<1>. QED BY <1>8, <1>9, <1>10, <1>11, <1>12 DEF VltInv

\* the category is there, and no password
LEMMA VltInit == ASSUME Vlt!Init PROVE VltInv
<1>1. /\ category = TRUE /\ edits = << >>
      /\ passwords = [p \in Passwords |-> [there |-> FALSE, name |-> 0, secret |-> 0]]
      /\ vaultPast = [name |-> [p \in Passwords |-> 0], secret |-> [p \in Passwords |-> 0], late |-> {}, crossed |-> {},
                      died |-> {}]
  BY DEF Vlt!Init
<1>2. edits \in Seq(Edits) /\ Len(edits) = 0 /\ DOMAIN edits = {}
  BY <1>1, EmptySeq
<1>3. VltTypes
  BY <1>1, <1>2, RequestsAssumption DEF VltTypes, Vlt!Numbers
<1>. QED BY <1>1, <1>2, <1>3 DEF VltInv, VltKnown, VltCrossed, VltRead, Vlt!NoOrphan, Vlt!LastGiven

\* every step of the vault keeps the invariant
LEMMA VltStep == ASSUME VltInv, Vlt!Next PROVE VltInv'
BY VltBegin, VltCrashStep, VltCreateStep, VltReadStep, VltWriteStep, VltRenameStep, VltRemovalSteps DEF Vlt!Next

\* the invariant says what is asked of the vault
LEMMA VltProps == ASSUME VltInv PROVE Vlt!TypeOK /\ Vlt!NoOrphan /\ Vlt!LastGiven
<1>1. Vlt!ToSet(edits) \subseteq Edits
  BY VltNumbers DEF VltInv, Vlt!ToSet
<1>. QED BY <1>1 DEF VltInv, VltTypes, Vlt!TypeOK, Edits

-----------------------------------------------------------------------------
(* Shared memory *)

Contents == [is : {"nothing", "value", "list"}, items : Seq(Mem!Stored)]
MemStates == {"sent", "partly", "ended", "unread", "back", "silent", "dead"}
CacheCalls == [action : Mem!Actions \union {"crash"}, value : Mem!Stored, state : MemStates,
               answer : Contents, heard : Contents, after : SUBSET Nat]

\* who was called back heard what was answered, but for what was cut
MemHeard(e) == e.state = "back" /\ e.action = "get" => e.heard \in Mem!Decoded(e.answer)

MemInv ==
    /\ cache \in Contents
    /\ calls \in Seq(CacheCalls) /\ Len(calls) <= MaxCalls
    /\ \A i \in DOMAIN calls : calls[i].after \subseteq 1..(i - 1) /\ MemHeard(calls[i])

\* numbers have a smallest one
LEMMA Smallest ==
    ASSUME NEW I \in SUBSET Nat, I # {}
    PROVE  \E x \in I : \A y \in I : x <= y
<1>1. PICK x \in I : \A y \in I : <<y, x>> \notin OpToRel(<, Nat)
  BY WFMin, NatLessThanWellFounded, Zenon
<1>2. \A y \in I : ~ (y < x)
  BY <1>1, Zenon DEF OpToRel
<1>. QED BY <1>2

\* the first of those which are the same is removed
LEMMA FirstRemoved ==
    ASSUME NEW S, NEW s \in Seq(S), NEW e
    PROVE  Mem!RemoveFirst(s, e) \in Seq(S)
<1>. DEFINE I == {i \in 1..Len(s) : s[i] = e}
            m == Mem!Min(I)
<1>1. Len(s) \in Nat /\ \A i \in 1..Len(s) : s[i] \in S
  BY LenProperties
<1>2. CASE I = {}
  BY <1>2 DEF Mem!RemoveFirst
<1>3. CASE I # {}
  <2>1. I \in SUBSET Nat
    OBVIOUS
  <2>2. \E x \in I : \A y \in I : x <= y
    BY <1>3, <2>1, Smallest
  <2>3. m \in I
    BY <2>2 DEF Mem!Min
  <2>. HIDE DEF m
  <2>4. m \in 1..Len(s)
    BY <2>3
  <2>5. SubSeq(s, 1, m - 1) \in Seq(S) /\ SubSeq(s, m + 1, Len(s)) \in Seq(S)
    BY <1>1, <2>4, SubSeqProperties
  <2>6. SubSeq(s, 1, m - 1) \o SubSeq(s, m + 1, Len(s)) \in Seq(S)
    BY <2>5, ConcatProperties
  <2>7. Mem!RemoveFirst(s, e) = SubSeq(s, 1, m - 1) \o SubSeq(s, m + 1, Len(s))
    BY <1>3 DEF Mem!RemoveFirst, Mem!RemoveAt, Mem!SelectInSeq, m
  <2>. QED BY <2>6, <2>7
<1>. QED BY <1>2, <1>3

\* the empty memory, and one value
LEMMA MemValues ==
    /\ Mem!Nothing \in Contents /\ (CHOOSE v \in Values : TRUE) \in Mem!Stored
    /\ \A v \in Mem!Stored : Mem!One(v) \in Contents
    /\ \A s \in Seq(Mem!Stored) : Mem!List(s) \in Contents
BY ValuesAssumption DEF Mem!Nothing, Mem!One, Mem!List, Contents, Mem!Stored

\* what a call makes of the memory
LEMMA MemApplied ==
    ASSUME NEW m \in Contents, NEW call \in CacheCalls
    PROVE  Mem!Applied(m, call) \in Contents
<1>1. call.value \in Mem!Stored /\ m.items \in Seq(Mem!Stored) /\ call.action \in Mem!Actions \union {"crash"}
  BY DEF CacheCalls, Contents
<1>2. Append(m.items, call.value) \in Seq(Mem!Stored) /\ Mem!RemoveFirst(m.items, call.value) \in Seq(Mem!Stored)
  BY <1>1, FirstRemoved, AppendProperties
<1>. DEFINE grown == Mem!List(Append(m.items, call.value))
            shrunk == Mem!List(Mem!RemoveFirst(m.items, call.value))
<1>3. grown \in Contents /\ shrunk \in Contents /\ Mem!One(call.value) \in Contents /\ Mem!Nothing \in Contents
  BY <1>1, <1>2, MemValues
<1>4. Mem!Applied(m, call) \in {m, grown, shrunk, Mem!One(call.value), Mem!Nothing}
  BY DEF Mem!Applied
<1>. QED BY <1>3, <1>4

\* what a client makes of an answer is something the memory may have
LEMMA MemDecoded ==
    ASSUME NEW c \in Contents, NEW h \in Mem!Decoded(c)
    PROVE  h \in Contents
<1>1. c.items \in Seq(Mem!Stored) /\ c = [is |-> c.is, items |-> c.items]
  BY DEF Contents
<1>2. PICK cut \in SUBSET DOMAIN c.items :
        h = [c EXCEPT !.items = [k \in DOMAIN c.items |-> IF k \in cut THEN Garbled ELSE c.items[k]]]
  BY DEF Mem!Decoded
<1>. DEFINE s == [k \in DOMAIN c.items |-> IF k \in cut THEN Garbled ELSE c.items[k]]
<1>3. DOMAIN c.items = 1..Len(c.items) /\ Len(c.items) \in Nat /\ \A k \in DOMAIN c.items : c.items[k] \in Mem!Stored
  BY <1>1, LenProperties
<1>4. s \in [1..Len(c.items) -> Mem!Stored]
  BY <1>3 DEF Mem!Stored
<1>5. s \in Seq(Mem!Stored)
  <2>. HIDE DEF s
  <2>. QED BY <1>3, <1>4, SeqDef
<1>6. h = [c EXCEPT !.items = s]
  BY <1>2
<1>. HIDE DEF s
<1>. QED BY <1>5, <1>6 DEF Contents

\* calls, by their place
LEMMA MemCalls ==
    ASSUME MemInv
    PROVE  /\ Len(calls) \in Nat /\ DOMAIN calls = 1..Len(calls)
           /\ \A i \in DOMAIN calls : calls[i] \in CacheCalls
           /\ Mem!Back \subseteq 1..Len(calls)
<1>1. Len(calls) \in Nat /\ DOMAIN calls = 1..Len(calls) /\ \A i \in DOMAIN calls : calls[i] \in CacheCalls
  BY LenProperties DEF MemInv
<1>. QED BY <1>1 DEF Mem!Back

\* one more call
LEMMA MemAdded ==
    ASSUME MemInv, NEW new \in CacheCalls, new.after = Mem!Back, MemHeard(new), Len(calls) < MaxCalls,
           NEW s \in Seq(CacheCalls), Len(s) = Len(calls), \A i \in DOMAIN calls : s[i].after = calls[i].after /\ MemHeard(s[i]),
           calls' = Append(s, new), cache' \in Contents
    PROVE  MemInv'
<1>1. /\ calls' \in Seq(CacheCalls) /\ Len(calls') = Len(calls) + 1
      /\ \A i \in 1..Len(calls) : calls'[i] = s[i]
      /\ calls'[Len(calls) + 1] = new
  BY AppendProperties
<1>2. DOMAIN calls' = 1..(Len(calls) + 1) /\ Len(calls) \in Nat
  BY <1>1, LenProperties, MemCalls
<1>3. ASSUME NEW i \in DOMAIN calls' PROVE calls'[i].after \subseteq 1..(i - 1) /\ MemHeard(calls'[i])
  <2>1. CASE i \in 1..Len(calls)
    BY <1>1, <2>1, MemCalls DEF MemInv
  <2>2. CASE i = Len(calls) + 1
    BY <1>1, <1>2, <2>2, MemCalls
  <2>. QED BY <1>2, <2>1, <2>2
<1>. QED BY <1>1, <1>2, <1>3, CallsAssumption DEF MemInv

\* a call goes on
LEMMA MemWentOn ==
    ASSUME MemInv, NEW i \in DOMAIN calls, NEW e \in CacheCalls, e.after = calls[i].after, MemHeard(e),
           calls' = [calls EXCEPT ![i] = e], cache' \in Contents
    PROVE  MemInv'
<1>1. /\ calls' \in Seq(CacheCalls) /\ Len(calls') = Len(calls)
      /\ \A j \in DOMAIN calls : calls'[j] = IF j = i THEN e ELSE calls[j]
  BY MemCalls, ExceptSeq DEF MemInv
<1>2. DOMAIN calls' = DOMAIN calls
  BY <1>1, LenProperties, MemCalls
<1>. QED BY <1>1, <1>2 DEF MemInv

\* nothing is in the memory, and nobody has called
LEMMA MemInit == ASSUME Mem!Init PROVE MemInv
<1>1. calls \in Seq(CacheCalls) /\ Len(calls) = 0 /\ DOMAIN calls = {}
  BY DEF Mem!Init
<1>. QED BY <1>1, MemValues, CallsAssumption DEF Mem!Init, MemInv

\* calls, pieces of them, answers and crashes keep the types
LEMMA MemStep == ASSUME MemInv, Mem!Next PROVE MemInv'
<1>0. cache \in Contents /\ Mem!Back \in SUBSET Nat /\ Mem!Nothing \in Contents
  BY MemCalls, MemValues DEF MemInv
<1>1. CASE Mem!Call
  <2>1. PICK action \in Mem!Actions, v \in Values : Mem!NewCall(action, v, "sent")
    BY <1>1 DEF Mem!Call
  <2>. DEFINE new == [action |-> action, value |-> v, state |-> "sent", answer |-> Mem!Nothing,
                  heard |-> Mem!Nothing, after |-> Mem!Back]
  <2>2. new \in CacheCalls /\ new.after = Mem!Back /\ MemHeard(new)
    BY <1>0 DEF CacheCalls, MemStates, Mem!Stored, MemHeard
  <2>3. calls' = Append(calls, new) /\ Len(calls) < MaxCalls /\ cache' = cache
    BY <1>1, <2>1 DEF Mem!Call, Mem!NewCall
  <2>. QED BY <1>0, <2>2, <2>3, MemAdded DEF MemInv
<1>2. CASE Mem!Crash
  <2>. DEFINE open == {i \in DOMAIN calls : calls[i].state \in {"sent", "partly", "silent"}}
              new == [action |-> "crash", value |-> CHOOSE v \in Values : TRUE, state |-> "back",
                      answer |-> Mem!Nothing,
                  heard |-> Mem!Nothing, after |-> Mem!Back]
  <2>1. PICK ended \in SUBSET open :
          calls' = Append([i \in DOMAIN calls |->
                              [calls[i] EXCEPT !.state = IF i \in ended THEN "ended"
                                                         ELSE IF i \in open THEN "dead" ELSE @]], new)
    BY <1>2 DEF Mem!Crash
  <2>. DEFINE s == [i \in DOMAIN calls |->
                       [calls[i] EXCEPT !.state = IF i \in ended THEN "ended"
                                                  ELSE IF i \in open THEN "dead" ELSE calls[i].state]]
  <2>2. \A i \in DOMAIN calls : s[i] \in CacheCalls /\ s[i].after = calls[i].after /\ MemHeard(s[i])
    <3>1. ASSUME NEW i \in DOMAIN calls PROVE s[i] \in CacheCalls /\ s[i].after = calls[i].after /\ MemHeard(s[i])
      <4>1. calls[i] \in CacheCalls /\ MemHeard(calls[i])
        BY MemCalls DEF MemInv
      <4>2. s[i] = [calls[i] EXCEPT !.state = IF i \in ended THEN "ended"
                                              ELSE IF i \in open THEN "dead" ELSE calls[i].state]
        OBVIOUS
      <4>. HIDE DEF s
      <4>3. /\ s[i] \in CacheCalls /\ s[i].after = calls[i].after /\ s[i].action = calls[i].action
            /\ s[i].heard = calls[i].heard /\ s[i].answer = calls[i].answer
            /\ s[i].state = "back" => calls[i].state = "back"
        BY <4>1, <4>2 DEF CacheCalls, MemStates
      <4>. QED BY <4>1, <4>3 DEF MemHeard
    <3>. QED BY <3>1
  <2>3. s \in Seq(CacheCalls) /\ Len(s) = Len(calls)
    <3>1. s \in [1..Len(calls) -> CacheCalls]
      BY <2>2, MemCalls
    <3>. QED BY <3>1, MemCalls, SeqDef, LenProperties
  <2>4. new \in CacheCalls /\ new.after = Mem!Back /\ MemHeard(new)
    BY <1>0, MemValues DEF CacheCalls, MemStates, MemHeard
  <2>5. calls' = Append(s, new) /\ Len(calls) < MaxCalls /\ cache' \in Contents
    BY <1>0, <1>2, <2>1 DEF Mem!Crash
  <2>. HIDE DEF s, new
  <2>. QED BY <2>2, <2>3, <2>4, <2>5, MemAdded
<1>3. ASSUME NEW i \in DOMAIN calls, Mem!Piece(i) PROVE MemInv'
  <2>1. PICK v \in {calls[i].value, Garbled} : calls' = [calls EXCEPT ![i].state = "partly", ![i].value = v]
    BY <1>3 DEF Mem!Piece
  <2>. DEFINE e == [calls[i] EXCEPT !.state = "partly", !.value = v]
  <2>2. e \in CacheCalls /\ e.after = calls[i].after /\ MemHeard(e)
    BY MemCalls DEF CacheCalls, MemStates, Mem!Stored, MemHeard
  <2>3. calls' = [calls EXCEPT ![i] = e] /\ cache' = cache
    BY <1>3, <2>1, MemCalls DEF Mem!Piece
  <2>. HIDE DEF e
  <2>. QED BY <1>0, <2>2, <2>3, MemWentOn
<1>4. ASSUME NEW i \in DOMAIN calls, Mem!Serve(i) PROVE MemInv'
  <2>. DEFINE answer == IF calls[i].action = "get" THEN cache ELSE Mem!Nothing
              e == [calls[i] EXCEPT !.state = Mem!AfterServe(calls[i]), !.answer = answer]
  <2>1. answer \in Contents /\ Mem!AfterServe(calls[i]) \in MemStates \ {"back"}
    BY <1>0 DEF Mem!AfterServe, MemStates
  <2>2. calls' = [calls EXCEPT ![i] = e] /\ cache' = Mem!Applied(cache, calls[i])
    BY <1>4 DEF Mem!Serve
  <2>. HIDE DEF answer
  <2>3. e \in CacheCalls /\ e.after = calls[i].after /\ MemHeard(e)
    BY <2>1, MemCalls DEF CacheCalls, MemHeard
  <2>4. cache' \in Contents
    BY <1>0, <2>2, MemCalls, MemApplied
  <2>. HIDE DEF e
  <2>. QED BY <2>2, <2>3, <2>4, MemWentOn
<1>5. ASSUME NEW i \in DOMAIN calls, Mem!CallBack(i) PROVE MemInv'
  <2>0. PICK h \in Mem!Decoded(calls[i].answer) : calls' = [calls EXCEPT ![i].state = "back", ![i].heard = h]
    BY <1>5 DEF Mem!CallBack
  <2>. DEFINE e == [calls[i] EXCEPT !.state = "back", !.heard = h]
  <2>1. e \in CacheCalls /\ e.after = calls[i].after /\ MemHeard(e)
    <3>1. calls[i] \in CacheCalls /\ calls[i].answer \in Contents
      BY MemCalls DEF CacheCalls
    <3>2. h \in Contents
      BY <3>1, MemDecoded
    <3>. QED BY <3>1, <3>2 DEF CacheCalls, MemStates, MemHeard
  <2>2. calls' = [calls EXCEPT ![i] = e] /\ cache' = cache
    BY <1>5, <2>0, MemCalls DEF Mem!CallBack
  <2>. HIDE DEF e
  <2>. QED BY <1>0, <2>1, <2>2, MemWentOn
<1>. QED BY <1>1, <1>2, <1>3, <1>4, <1>5 DEF Mem!Next

\* the memory has values, and calls were made one after the other
LEMMA MemProps == ASSUME MemInv PROVE Mem!TypeOK
<1>1. Mem!ToSet(cache.items) \subseteq Mem!Stored /\ cache.is \in {"nothing", "value", "list"}
  <2>1. cache.items \in Seq(Mem!Stored) /\ cache.is \in {"nothing", "value", "list"}
    BY DEF MemInv, Contents
  <2>2. \A i \in DOMAIN cache.items : cache.items[i] \in Mem!Stored
    BY <2>1, LenProperties
  <2>. QED BY <2>1, <2>2 DEF Mem!ToSet
<1>2. \A i \in DOMAIN calls : /\ calls[i].action \in Mem!Actions \union {"crash"} /\ calls[i].value \in Mem!Stored
                              /\ calls[i].state \in MemStates
  BY MemCalls DEF CacheCalls
<1>. QED BY <1>1, <1>2 DEF MemInv, MemStates, Mem!TypeOK

\* S was made in this order, one call after the other, and m is what the memory was in between
Explains(cs, order, m, S) ==
    /\ S \subseteq DOMAIN cs /\ IsFiniteSet(S) /\ Cardinality(S) = Len(order)
    /\ order \in Seq(S)
    /\ \A n, k \in 1..Len(order) : n # k => order[n] # order[k]
    /\ m \in [0..Len(order) -> Contents] /\ m[0] = Mem!Nothing
    /\ \A n \in 1..Len(order) : m[n] = Mem!Applied(m[n - 1], cs[order[n]])
    /\ \A n \in 1..Len(order) : cs[order[n]].action = "get" => cs[order[n]].answer = m[n - 1]
    /\ \A n, k \in 1..Len(order) : n < k => order[k] \notin cs[order[n]].after

\* the memory after all calls of an order
Left(order, m) == m[Len(order)]

\* some order of S explains it, and leaves this in the memory
Leaves(cs, S, c) == \E order, m : Explains(cs, order, m, S) /\ Left(order, m) = c

CallSeq(cs) == cs \in Seq(CacheCalls)

\* nobody came after these calls; they read nothing; they read this
Late(cs, T) == T \subseteq DOMAIN cs /\ \A i \in DOMAIN cs : cs[i].after \intersect T = {}
Changing(cs, T) == \A t \in T : cs[t].action # "get"
Reading(cs, T, c) == \A t \in T : cs[t].action = "get" /\ cs[t].answer = c

MemUnserved == {i \in DOMAIN calls : calls[i].state \in {"sent", "partly"}}
MemServed == {i \in DOMAIN calls : calls[i].state \in {"ended", "unread", "back", "silent"}}

\* an order explains all calls which were served, and the memory is what they left
MemOrdered ==
    /\ \A i \in DOMAIN calls : calls[i].after \subseteq Mem!Back
    /\ \A i \in MemUnserved : calls[i].answer = Mem!Nothing
    /\ \E S :
          /\ Leaves(calls, S, cache)
          /\ MemServed \subseteq S /\ MemUnserved \intersect S = {}

\* an order explains calls whatever else becomes of them, and whatever the other calls are
LEMMA StillExplained ==
    ASSUME NEW cs, NEW order, NEW m, NEW S, Explains(cs, order, m, S),
           NEW other, S \subseteq DOMAIN other,
           \A i \in S : /\ other[i].action = cs[i].action /\ other[i].value = cs[i].value
                        /\ other[i].answer = cs[i].answer /\ other[i].after = cs[i].after
    PROVE  Explains(other, order, m, S)
<1>1. Len(order) \in Nat /\ \A n \in 1..Len(order) : order[n] \in S
  <2>1. order \in Seq(S)
    BY DEF Explains
  <2>. QED BY <2>1, LenProperties, ElementOfSeq
<1>2. ASSUME NEW i \in S, NEW c PROVE Mem!Applied(c, other[i]) = Mem!Applied(c, cs[i])
  BY DEF Mem!Applied
<1>. QED BY <1>1, <1>2 DEF Explains

\* a call which nobody came after is made last
LEMMA CallAdded ==
    ASSUME NEW cs, CallSeq(cs), NEW S, NEW c, Leaves(cs, S, c),
           NEW j, j \notin S, Late(cs, {j}), Changing(cs, {j}) \/ Reading(cs, {j}, c)
    PROVE  Leaves(cs, S \union {j}, Mem!Applied(c, cs[j]))
<1>. PICK order, m : Explains(cs, order, m, S) /\ Left(order, m) = c
  BY DEF Leaves
<1>. cs \in Seq(CacheCalls) /\ j \in DOMAIN cs
  BY DEF CallSeq, Late
<1>. DEFINE L == Len(order)
            last == Mem!Applied(Left(order, m), cs[j])
            o == Append(order, j)
            n == [k \in 0..(L + 1) |-> IF k = L + 1 THEN last ELSE m[k]]
<1>0. /\ \A i \in S : j \notin cs[i].after
      /\ cs[j].action = "get" => cs[j].answer = Left(order, m)
  <2>1. S \subseteq DOMAIN cs
    BY DEF Explains
  <2>. QED BY <2>1 DEF Late, Changing, Reading
<1>1. L \in Nat /\ order \in Seq(S) /\ \A k \in 1..L : order[k] \in S
  <2>1. order \in Seq(S)
    BY DEF Explains
  <2>. QED BY <2>1, LenProperties, ElementOfSeq
<1>2. order \in Seq(S \union {j})
  BY <1>1, SeqDef
<1>3. o \in Seq(S \union {j}) /\ Len(o) = L + 1 /\ o[L + 1] = j /\ \A k \in 1..L : o[k] = order[k]
  BY <1>1, <1>2, AppendProperties
<1>4. 0..L \subseteq 0..(L + 1) /\ L + 1 \in 0..(L + 1) /\ L \in 0..L /\ L # L + 1 /\ 0 \in 0..L /\ 0 # L + 1
  BY <1>1
<1>5. n[L + 1] = last /\ \A k \in 0..L : n[k] = m[k]
  BY <1>1
<1>6. last \in Contents /\ n \in [0..(L + 1) -> Contents]
  <2>1. Left(order, m) \in Contents /\ m \in [0..L -> Contents]
    BY <1>4 DEF Explains, Left
  <2>2. cs[j] \in CacheCalls
    BY ElementOfSeq, LenProperties
  <2>3. last \in Contents
    BY <2>1, <2>2, MemApplied
  <2>. QED BY <1>1, <2>1, <2>3
<1>7. IsFiniteSet(S \union {j}) /\ Cardinality(S \union {j}) = L + 1 /\ S \union {j} \subseteq DOMAIN cs
  BY FS_AddElement DEF Explains
<1>8. \A k \in 1..(L + 1) : k = L + 1 \/ k \in 1..L
  BY <1>1
<1>9. \A k, l \in 1..(L + 1) : k # l => o[k] # o[l]
  BY <1>1, <1>3, <1>8 DEF Explains
<1>10. ASSUME NEW k \in 1..(L + 1)
       PROVE  /\ n[k] = Mem!Applied(n[k - 1], cs[o[k]])
              /\ cs[o[k]].action = "get" => cs[o[k]].answer = n[k - 1]
  <2>1. CASE k = L + 1
    <3>1. k - 1 = L /\ n[k - 1] = Left(order, m) /\ o[k] = j /\ n[k] = last
      BY <1>1, <1>3, <1>4, <1>5, <2>1 DEF Left
    <3>. QED BY <1>0, <3>1
  <2>2. CASE k \in 1..L
    <3>1. k - 1 \in 0..L /\ k \in 0..L
      BY <1>1, <2>2
    <3>2. n[k - 1] = m[k - 1] /\ n[k] = m[k] /\ o[k] = order[k]
      BY <1>3, <1>5, <2>2, <3>1
    <3>. QED BY <2>2, <3>2 DEF Explains
  <2>. QED BY <1>8, <2>1, <2>2
<1>11. ASSUME NEW k \in 1..(L + 1), NEW l \in 1..(L + 1), k < l PROVE o[l] \notin cs[o[k]].after
  <2>1. k \in 1..L
    BY <1>1, <1>11
  <2>2. CASE l = L + 1
    BY <1>0, <1>1, <1>3, <2>1, <2>2
  <2>3. CASE l \in 1..L
    BY <1>3, <1>11, <2>1, <2>3 DEF Explains
  <2>. QED BY <1>8, <2>2, <2>3
<1>12. n[0] = Mem!Nothing
  BY <1>4, <1>5 DEF Explains
<1>13. Explains(cs, o, n, S \union {j})
  <2>. HIDE DEF o, n, last
  <2>. QED
    BY <1>3, <1>6, <1>7, <1>9, <1>10, <1>11, <1>12 DEF Explains
<1>14. Left(o, n) = last
  BY <1>3, <1>5 DEF Left
<1>. QED BY <1>13, <1>14 DEF Leaves

\* calls which nobody came after are made last: none of them reads, or all read what the memory is
LEMMA CallsAdded ==
    ASSUME NEW cs, CallSeq(cs), NEW S, NEW c, Leaves(cs, S, c),
           NEW T, T \intersect S = {}, Late(cs, T), Changing(cs, T) \/ Reading(cs, T, c)
    PROVE  \E d : Leaves(cs, S \union T, d) /\ (Reading(cs, T, c) => d = c)
<1>. cs \in Seq(CacheCalls) /\ T \subseteq DOMAIN cs
  BY DEF CallSeq, Late
<1>. DEFINE gets == Reading(cs, T, c)
            Part(k) == T \intersect (1..k)
            Done(k) == \E d : Leaves(cs, S \union Part(k), d) /\ (gets => d = c)
            bad == {k \in Nat : ~Done(k)}
<1>1. Len(cs) \in Nat /\ DOMAIN cs = 1..Len(cs)
  BY LenProperties
<1>2. Done(0)
  <2>1. S \union Part(0) = S
    OBVIOUS
  <2>. QED BY <2>1
<1>3. ASSUME NEW k \in Nat \ {0}, Done(k - 1) PROVE Done(k)
  <2>1. PICK d : Leaves(cs, S \union Part(k - 1), d) /\ (gets => d = c)
    BY <1>3
  <2>2. CASE k \notin T
    <3>1. Part(k) = Part(k - 1)
      BY <2>2
    <3>. QED BY <1>3, <3>1
  <2>3. CASE k \in T
    <3>1. (S \union Part(k - 1)) \union {k} = S \union Part(k) /\ k \notin S \union Part(k - 1)
      BY <2>3
    <3>2. Late(cs, {k})
      BY <2>3 DEF Late
    <3>3. Changing(cs, {k}) \/ Reading(cs, {k}, d)
      BY <2>1, <2>3 DEF Changing, Reading
    <3>. DEFINE before == S \union Part(k - 1)
    <3>4. Leaves(cs, before \union {k}, Mem!Applied(d, cs[k]))
      <4>1. Leaves(cs, before, d) /\ k \notin before
        BY <2>1, <3>1
      <4>. HIDE DEF before
      <4>. QED BY <3>2, <3>3, <4>1, CallAdded
    <3>5. gets => Mem!Applied(d, cs[k]) = c
      <4>1. gets => cs[k].action = "get"
        BY <2>3 DEF Reading
      <4>. QED BY <2>1, <4>1 DEF Mem!Applied
    <3>. QED BY <3>1, <3>4, <3>5
  <2>. QED BY <2>2, <2>3
<1>4. bad = {}
  <2>1. SUFFICES ASSUME bad # {} PROVE FALSE
    OBVIOUS
  <2>2. PICK k \in bad : \A l \in bad : k <= l
    <3>. HIDE DEF Done
    <3>. QED BY <2>1, Smallest
  <2>. HIDE DEF Done
  <2>3. k # 0 /\ k \in Nat /\ ~Done(k)
    BY <1>2, <2>2
  <2>4. k - 1 \in Nat /\ ~(k <= k - 1)
    BY <2>3
  <2>5. Done(k - 1)
    BY <2>2, <2>4
  <2>. QED BY <1>3, <2>3, <2>5
<1>5. Done(Len(cs))
  BY <1>1, <1>4
<1>6. Part(Len(cs)) = T
  BY <1>1
<1>. QED BY <1>5, <1>6

\* an order still explains what was served, when no call which was not becomes one that was
LEMMA MemOrderedOn ==
    ASSUME MemInv, MemOrdered, cache' = cache, DOMAIN calls \subseteq DOMAIN calls',
           \A i \in MemServed \union (DOMAIN calls \ MemUnserved) :
              /\ calls'[i].action = calls[i].action /\ calls'[i].value = calls[i].value
              /\ calls'[i].answer = calls[i].answer,
           \A i \in DOMAIN calls : calls'[i].after = calls[i].after,
           \A i \in DOMAIN calls' : calls'[i].after \subseteq Mem!Back,
           \A i \in MemUnserved' : calls'[i].answer = Mem!Nothing,
           Mem!Back \subseteq Mem!Back', MemServed' = MemServed, DOMAIN calls \intersect MemUnserved' = MemUnserved
    PROVE  MemOrdered'
<1>1. PICK S : /\ Leaves(calls, S, cache)
               /\ MemServed \subseteq S /\ MemUnserved \intersect S = {}
  BY DEF MemOrdered
<1>2. S \subseteq DOMAIN calls
  BY <1>1 DEF Leaves, Explains
<1>3. Leaves(calls', S, cache')
  BY <1>1, <1>2, StillExplained DEF Leaves
<1>4. MemUnserved' \intersect S = {}
  BY <1>1, <1>2
<1>5. \A i \in DOMAIN calls' : calls'[i].after \subseteq Mem!Back'
  OBVIOUS
<1>. QED BY <1>1, <1>3, <1>4, <1>5 DEF MemOrdered

\* nobody called: no call is explained by no call
LEMMA MemOrderedInit == ASSUME Mem!Init PROVE MemOrdered
<1>. DEFINE order == << >>
            m == [n \in {0} |-> Mem!Nothing]
<1>1. calls = << >> /\ cache = Mem!Nothing /\ DOMAIN calls = {} /\ Len(order) = 0 /\ 0..0 = {0} /\ 1..0 = {}
  BY DEF Mem!Init
<1>2. IsFiniteSet({}) /\ Cardinality({}) = 0
  BY FS_EmptySet
<1>3. m \in [{0} -> Contents] /\ m[0] = Mem!Nothing /\ order \in Seq({})
  BY MemValues
<1>4. Explains(calls, order, m, {}) /\ Left(order, m) = cache
  <2>. HIDE DEF m
  <2>. QED BY <1>1, <1>2, <1>3 DEF Explains, Left
<1>5. MemServed = {} /\ MemUnserved = {}
  BY <1>1 DEF MemServed, MemUnserved
<1>. QED BY <1>1, <1>4, <1>5 DEF MemOrdered, Leaves

\* a call is made
LEMMA MemOrderedCall == ASSUME MemInv, MemOrdered, Mem!Call PROVE MemOrdered'
<1>1. PICK action \in Mem!Actions, v \in Values : Mem!NewCall(action, v, "sent")
  BY DEF Mem!Call
<1>. DEFINE new == [action |-> action, value |-> v, state |-> "sent", answer |-> Mem!Nothing,
                  heard |-> Mem!Nothing, after |-> Mem!Back]
<1>2. calls' = Append(calls, new) /\ cache' = cache
  BY <1>1 DEF Mem!Call, Mem!NewCall
<1>3. /\ \A i \in DOMAIN calls : calls'[i] = calls[i]
      /\ calls'[Len(calls) + 1] = new /\ DOMAIN calls' = DOMAIN calls \union {Len(calls) + 1}
      /\ Len(calls) + 1 \notin DOMAIN calls
  <2>1. calls \in Seq(CacheCalls \union {new})
    BY MemCalls, SeqDef DEF MemInv
  <2>2. /\ calls' \in Seq(CacheCalls \union {new}) /\ Len(calls') = Len(calls) + 1
        /\ \A i \in 1..Len(calls) : calls'[i] = calls[i]
        /\ calls'[Len(calls) + 1] = new
    BY <1>2, <2>1, AppendProperties
  <2>3. DOMAIN calls' = 1..(Len(calls) + 1)
    BY <2>2, LenProperties
  <2>. QED BY <2>2, <2>3, MemCalls
<1>4. Mem!Back' = Mem!Back /\ MemServed' = MemServed /\ MemUnserved' = MemUnserved \union {Len(calls) + 1}
  BY <1>3 DEF Mem!Back, MemServed, MemUnserved
<1>5. \A i \in MemUnserved' : calls'[i].answer = Mem!Nothing
  <2>1. \A i \in MemUnserved : i \in DOMAIN calls /\ calls[i].answer = Mem!Nothing
    BY DEF MemOrdered, MemUnserved
  <2>. QED BY <1>3, <1>4, <2>1
<1>6. \A i \in DOMAIN calls' : calls'[i].after \subseteq Mem!Back
  BY <1>3 DEF MemOrdered
<1>7. MemServed \subseteq DOMAIN calls /\ MemUnserved \subseteq DOMAIN calls
  BY DEF MemServed, MemUnserved
<1>. HIDE DEF new
<1>. QED BY <1>2, <1>3, <1>4, <1>5, <1>6, <1>7, MemOrderedOn

\* a call goes on: its state, its value or its answer change
LEMMA MemEntry ==
    ASSUME MemInv, NEW i \in DOMAIN calls, NEW e, calls' = [calls EXCEPT ![i] = e]
    PROVE  /\ DOMAIN calls' = DOMAIN calls /\ calls'[i] = e
           /\ \A j \in DOMAIN calls : j # i => calls'[j] = calls[j]
BY DEF MemInv

\* a piece comes
LEMMA MemOrderedPiece ==
    ASSUME MemInv, MemOrdered, NEW i \in DOMAIN calls, Mem!Piece(i)
    PROVE  MemOrdered'
<1>1. PICK v \in {calls[i].value, Garbled} :
         calls' = [calls EXCEPT ![i] = [calls[i] EXCEPT !.state = "partly", !.value = v]]
  BY DEF Mem!Piece
<1>2. calls[i].state = "sent" /\ cache' = cache /\ calls[i] \in CacheCalls
  BY MemCalls DEF Mem!Piece
<1>3. /\ calls'[i].state = "partly" /\ calls'[i].answer = calls[i].answer /\ calls'[i].after = calls[i].after
      /\ DOMAIN calls' = DOMAIN calls /\ \A j \in DOMAIN calls : j # i => calls'[j] = calls[j]
  <2>. DEFINE e == [calls[i] EXCEPT !.state = "partly", !.value = v]
  <2>1. e.state = "partly" /\ e.answer = calls[i].answer /\ e.after = calls[i].after
    BY <1>2 DEF CacheCalls
  <2>2. calls' = [calls EXCEPT ![i] = e]
    BY <1>1
  <2>. HIDE DEF e
  <2>. QED BY <2>1, <2>2, MemEntry
<1>4. Mem!Back' = Mem!Back /\ MemServed' = MemServed /\ MemUnserved' = MemUnserved /\ i \in MemUnserved
  BY <1>2, <1>3 DEF Mem!Back, MemServed, MemUnserved
<1>5. \A j \in MemUnserved' : calls'[j].answer = Mem!Nothing
  <2>1. \A j \in MemUnserved : j \in DOMAIN calls /\ calls[j].answer = Mem!Nothing
    BY DEF MemOrdered, MemUnserved
  <2>. QED BY <1>3, <1>4, <2>1
<1>6. i \notin MemServed /\ MemServed \subseteq DOMAIN calls /\ MemUnserved \subseteq DOMAIN calls
  BY <1>2 DEF MemServed, MemUnserved
<1>7. \A j \in DOMAIN calls : calls'[j].after = calls[j].after /\ calls'[j].after \subseteq Mem!Back
  BY <1>3 DEF MemOrdered
<1>. QED BY <1>2, <1>3, <1>4, <1>5, <1>6, <1>7, MemOrderedOn

\* a client is called back
LEMMA MemOrderedBack ==
    ASSUME MemInv, MemOrdered, NEW i \in DOMAIN calls, Mem!CallBack(i)
    PROVE  MemOrdered'
<1>1. PICK h : calls' = [calls EXCEPT ![i] = [calls[i] EXCEPT !.state = "back", !.heard = h]]
  BY DEF Mem!CallBack
<1>2. calls[i].state = "ended" /\ cache' = cache /\ calls[i] \in CacheCalls
  BY MemCalls DEF Mem!CallBack
<1>3. /\ calls'[i].state = "back" /\ calls'[i].answer = calls[i].answer /\ calls'[i].after = calls[i].after
      /\ calls'[i].action = calls[i].action /\ calls'[i].value = calls[i].value
      /\ DOMAIN calls' = DOMAIN calls /\ \A j \in DOMAIN calls : j # i => calls'[j] = calls[j]
  <2>. DEFINE e == [calls[i] EXCEPT !.state = "back", !.heard = h]
  <2>1. /\ e.state = "back" /\ e.answer = calls[i].answer /\ e.after = calls[i].after
        /\ e.action = calls[i].action /\ e.value = calls[i].value
    BY <1>2 DEF CacheCalls
  <2>2. calls' = [calls EXCEPT ![i] = e]
    BY <1>1
  <2>. HIDE DEF e
  <2>. QED BY <2>1, <2>2, MemEntry
<1>4. Mem!Back \subseteq Mem!Back' /\ MemServed' = MemServed /\ MemUnserved' = MemUnserved
  BY <1>2, <1>3 DEF Mem!Back, MemServed, MemUnserved
<1>5. \A j \in MemUnserved' : calls'[j].answer = Mem!Nothing
  <2>1. \A j \in MemUnserved : j \in DOMAIN calls /\ calls[j].answer = Mem!Nothing
    BY DEF MemOrdered, MemUnserved
  <2>. QED BY <1>3, <1>4, <2>1
<1>6. MemServed \subseteq DOMAIN calls /\ MemUnserved \subseteq DOMAIN calls
  BY DEF MemServed, MemUnserved
<1>7. \A j \in DOMAIN calls : calls'[j].after = calls[j].after /\ calls'[j].after \subseteq Mem!Back
  BY <1>3 DEF MemOrdered
<1>. QED BY <1>2, <1>3, <1>4, <1>5, <1>6, <1>7, MemOrderedOn

\* a call is served, and comes after all which were
LEMMA MemOrderedServe ==
    ASSUME MemInv, MemInv', MemOrdered, NEW i \in DOMAIN calls, Mem!Serve(i)
    PROVE  MemOrdered'
<1>. DEFINE answer == IF calls[i].action = "get" THEN cache ELSE Mem!Nothing
<1>1. /\ calls' = [calls EXCEPT ![i] = [calls[i] EXCEPT !.state = Mem!AfterServe(calls[i]), !.answer = answer]]
      /\ cache' = Mem!Applied(cache, calls[i])
      /\ calls[i].state \in {"sent", "partly"} /\ calls[i] \in CacheCalls
  BY MemCalls DEF Mem!Serve
<1>2. /\ calls'[i].state = Mem!AfterServe(calls[i]) /\ calls'[i].answer = answer
      /\ calls'[i].after = calls[i].after
      /\ calls'[i].action = calls[i].action /\ calls'[i].value = calls[i].value
      /\ DOMAIN calls' = DOMAIN calls /\ \A j \in DOMAIN calls : j # i => calls'[j] = calls[j]
  <2>. DEFINE e == [calls[i] EXCEPT !.state = Mem!AfterServe(calls[i]), !.answer = answer]
  <2>1. /\ e.state = Mem!AfterServe(calls[i]) /\ e.answer = answer /\ e.after = calls[i].after
        /\ e.action = calls[i].action /\ e.value = calls[i].value
    <3>. HIDE DEF answer
    <3>. QED BY <1>1 DEF CacheCalls
  <2>2. calls' = [calls EXCEPT ![i] = e]
    BY <1>1
  <2>. HIDE DEF e, answer
  <2>. QED BY <2>1, <2>2, MemEntry
<1>3. calls'[i].state \in {"silent", "unread", "ended"}
  BY <1>2 DEF Mem!AfterServe
<1>4. /\ Mem!Back' = Mem!Back /\ MemServed' = MemServed \union {i} /\ MemUnserved' = MemUnserved \ {i}
      /\ i \in MemUnserved /\ i \notin MemServed /\ i \notin Mem!Back
  BY <1>1, <1>2, <1>3 DEF Mem!Back, MemServed, MemUnserved
<1>5. PICK S : /\ Leaves(calls, S, cache)
               /\ MemServed \subseteq S /\ MemUnserved \intersect S = {}
  BY DEF MemOrdered
<1>6. S \subseteq DOMAIN calls /\ i \notin S
  BY <1>4, <1>5 DEF Leaves, Explains
<1>7. Leaves(calls', S, cache)
  BY <1>2, <1>5, <1>6, StillExplained DEF Leaves
<1>8. \A j \in DOMAIN calls' : calls'[j].after \subseteq Mem!Back
  BY <1>2 DEF MemOrdered
<1>9. Leaves(calls', S \union {i}, Mem!Applied(cache, calls'[i]))
  <2>1. CallSeq(calls')
    BY DEF MemInv, CallSeq
  <2>2. Late(calls', {i})
    BY <1>2, <1>4, <1>8 DEF Late
  <2>3. Changing(calls', {i}) \/ Reading(calls', {i}, cache)
    BY <1>2 DEF Changing, Reading
  <2>. QED BY <1>6, <1>7, <2>1, <2>2, <2>3, CallAdded
<1>10. Mem!Applied(cache, calls'[i]) = cache'
  BY <1>1, <1>2 DEF Mem!Applied
<1>11. \A j \in MemUnserved' : calls'[j].answer = Mem!Nothing
  <2>1. \A j \in MemUnserved : j \in DOMAIN calls /\ calls[j].answer = Mem!Nothing
    BY DEF MemOrdered, MemUnserved
  <2>. QED BY <1>2, <1>4, <2>1
<1>12. MemServed' \subseteq S \union {i} /\ MemUnserved' \intersect (S \union {i}) = {}
  BY <1>4, <1>5
<1>13. \A j \in DOMAIN calls' : calls'[j].after \subseteq Mem!Back'
  BY <1>4, <1>8
<1>. QED BY <1>9, <1>10, <1>11, <1>12, <1>13 DEF MemOrdered

\* the server dies: of the calls which end, those which change anything were served before, and reads after
LEMMA MemOrderedCrash ==
    ASSUME MemInv, MemInv', MemOrdered, Mem!Crash
    PROVE  MemOrdered'
<1>. DEFINE open == {i \in DOMAIN calls : calls[i].state \in {"sent", "partly", "silent"}}
            new == [action |-> "crash", value |-> CHOOSE v \in Values : TRUE, state |-> "back",
                    answer |-> Mem!Nothing,
                  heard |-> Mem!Nothing, after |-> Mem!Back]
            L == Len(calls)
<1>1. PICK ended \in SUBSET open :
         calls' = Append([i \in DOMAIN calls |->
                             [calls[i] EXCEPT !.state = IF i \in ended THEN "ended"
                                                        ELSE IF i \in open THEN "dead" ELSE @]], new)
  BY DEF Mem!Crash
<1>. DEFINE kept == [i \in DOMAIN calls |->
                        [calls[i] EXCEPT !.state = IF i \in ended THEN "ended"
                                                   ELSE IF i \in open THEN "dead" ELSE @]]
<1>2. /\ \A i \in DOMAIN calls : calls'[i] = kept[i]
      /\ calls'[L + 1] = new /\ DOMAIN calls' = DOMAIN calls \union {L + 1} /\ L + 1 \notin DOMAIN calls
      /\ calls' \in Seq(CacheCalls)
  <2>1. kept \in Seq({kept[i] : i \in DOMAIN calls} \union {new})
    BY MemCalls, SeqDef
  <2>2. Len(kept) = L /\ L \in Nat
    BY <2>1, MemCalls, LenProperties
  <2>. HIDE DEF kept, new
  <2>3. calls' = Append(kept, new)
    BY <1>1 DEF kept
  <2>4. /\ Len(calls') = L + 1 /\ calls'[L + 1] = new /\ \A i \in 1..L : calls'[i] = kept[i]
        /\ calls' \in Seq({kept[i] : i \in DOMAIN calls} \union {new})
    BY <2>1, <2>2, <2>3, AppendProperties
  <2>5. DOMAIN calls' = 1..(L + 1)
    BY <2>4, LenProperties
  <2>6. calls' \in Seq(CacheCalls)
    BY DEF MemInv
  <2>. QED BY <2>2, <2>4, <2>5, <2>6, MemCalls
<1>3. ASSUME NEW i \in DOMAIN calls
      PROVE  /\ calls'[i].action = calls[i].action /\ calls'[i].value = calls[i].value
             /\ calls'[i].answer = calls[i].answer /\ calls'[i].after = calls[i].after
             /\ calls'[i].state = IF i \in ended THEN "ended" ELSE IF i \in open THEN "dead" ELSE calls[i].state
  <2>1. kept[i] = [calls[i] EXCEPT !.state = IF i \in ended THEN "ended" ELSE IF i \in open THEN "dead" ELSE @]
    OBVIOUS
  <2>2. calls[i] \in CacheCalls
    BY MemCalls
  <2>. HIDE DEF kept, open
  <2>. QED BY <1>2, <2>1, <2>2 DEF CacheCalls
<1>4. calls'[L + 1].action = "crash" /\ calls'[L + 1].state = "back" /\ calls'[L + 1].after = Mem!Back
  BY <1>2
<1>. HIDE DEF kept, new
<1>5. PICK S : /\ Leaves(calls, S, cache)
               /\ MemServed \subseteq S /\ MemUnserved \intersect S = {}
  BY DEF MemOrdered
<1>6. S \subseteq DOMAIN calls
  BY <1>5 DEF Leaves, Explains
<1>. DEFINE changes == {i \in ended \intersect MemUnserved : calls[i].action # "get"}
            reads == {i \in ended \intersect MemUnserved : calls[i].action = "get"}
            earlier == S \union changes
            all == (earlier \union {L + 1}) \union reads
<1>7. /\ changes \subseteq DOMAIN calls /\ reads \subseteq DOMAIN calls /\ L + 1 \in DOMAIN calls'
      /\ changes \intersect S = {} /\ reads \intersect (earlier \union {L + 1}) = {} /\ L + 1 \notin earlier
  BY <1>2, <1>5, <1>6 DEF MemUnserved
<1>8. \A i \in DOMAIN calls' : calls'[i].after \subseteq Mem!Back
  BY <1>2, <1>3, <1>4 DEF MemOrdered
<1>9. Mem!Back \intersect MemUnserved = {} /\ L + 1 \notin Mem!Back
  BY <1>2 DEF Mem!Back, MemUnserved
<1>10. PICK cs : cs = calls' /\ CallSeq(cs)
  BY <1>2 DEF CallSeq
<1>11. /\ Late(cs, changes) /\ Late(cs, reads) /\ Late(cs, {L + 1})
       /\ Changing(cs, changes) /\ Reading(cs, reads, Mem!Nothing)
       /\ Changing(cs, {L + 1}) /\ cs[L + 1].action = "crash"
  <2>1. \A i \in reads : calls[i].answer = Mem!Nothing
    BY DEF MemOrdered
  <2>2. DOMAIN calls \subseteq DOMAIN calls'
    BY <1>2
  <2>3. Late(cs, changes) /\ Late(cs, reads) /\ Late(cs, {L + 1})
    BY <1>7, <1>8, <1>9, <1>10, <2>2 DEF Late
  <2>. QED BY <1>3, <1>4, <1>7, <1>10, <2>1, <2>2, <2>3 DEF Changing, Reading
<1>12. Leaves(cs, S, cache)
  <2>1. Leaves(calls', S, cache)
    BY <1>2, <1>3, <1>5, <1>6, StillExplained DEF Leaves
  <2>. QED BY <1>10, <2>1
<1>. HIDE DEF L, changes, reads
<1>13. PICK d : Leaves(cs, earlier, d)
  BY <1>7, <1>10, <1>11, <1>12, CallsAdded
<1>14. Leaves(cs, earlier \union {L + 1}, Mem!Nothing)
  <2>1. Leaves(cs, earlier \union {L + 1}, Mem!Applied(d, cs[L + 1]))
    <3>. HIDE DEF earlier
    <3>. QED BY <1>7, <1>10, <1>11, <1>13, CallAdded
  <2>2. Mem!Applied(d, cs[L + 1]) = Mem!Nothing
    BY <1>11 DEF Mem!Applied
  <2>. QED BY <2>1, <2>2
<1>15. Leaves(cs, all, Mem!Nothing)
  <2>. DEFINE before == earlier \union {L + 1}
  <2>1. Leaves(cs, before, Mem!Nothing) /\ reads \intersect before = {}
    BY <1>7, <1>14
  <2>. HIDE DEF before
  <2>2. PICK c : c = Mem!Nothing
    OBVIOUS
  <2>3. Leaves(cs, before, c) /\ Reading(cs, reads, c)
    BY <1>11, <2>1, <2>2
  <2>4. \E n : Leaves(cs, before \union reads, n) /\ (Reading(cs, reads, c) => n = c)
    BY <1>10, <1>11, <2>1, <2>3, CallsAdded
  <2>. QED BY <2>2, <2>3, <2>4 DEF before
<1>16. /\ MemUnserved' = {}
       /\ MemServed' \subseteq all
       /\ Mem!Back \subseteq Mem!Back'
  <2>1. \A i \in DOMAIN calls : i \in MemServed' => i \in S \union changes \union reads
    BY <1>2, <1>3, <1>5 DEF MemServed, MemUnserved, changes, reads
  <2>2. MemUnserved' = {}
    BY <1>2, <1>3, <1>4 DEF MemUnserved
  <2>3. Mem!Back \subseteq Mem!Back'
    BY <1>2, <1>3 DEF Mem!Back
  <2>. QED BY <1>2, <2>1, <2>2, <2>3 DEF MemServed
<1>17. cache' = Mem!Nothing
  BY DEF Mem!Crash
<1>18. \A i \in DOMAIN calls' : calls'[i].after \subseteq Mem!Back'
  BY <1>8, <1>16
<1>. HIDE DEF all
<1>. QED BY <1>10, <1>15, <1>16, <1>17, <1>18 DEF MemOrdered

\* a step of the memory keeps its calls in order
LEMMA MemOrderedStep == ASSUME MemInv, MemOrdered, Mem!Next PROVE MemOrdered'
<1>1. MemInv'
  BY MemStep
<1>. QED BY <1>1, MemOrderedCall, MemOrderedCrash, MemOrderedPiece, MemOrderedServe, MemOrderedBack DEF Mem!Next

\* replaying an order of calls gives the memory which explains them
LEMMA Replayed ==
    ASSUME NEW order, NEW m, NEW S, Explains(calls, order, m, S)
    PROVE  Mem!Replay(order) = m
<1>. DEFINE L == Len(order)
            Step(f) == [n \in 0..L |-> IF n = 0 THEN Mem!Nothing ELSE Mem!Applied(f[n - 1], calls[order[n]])]
            f == CHOOSE g : g = Step(g)
<1>1. L \in Nat
  <2>1. order \in Seq(S)
    BY DEF Explains
  <2>. QED BY <2>1, LenProperties
<1>2. m = Step(m)
  <2>1. m \in [0..L -> Contents] /\ m[0] = Mem!Nothing
        /\ \A n \in 1..L : m[n] = Mem!Applied(m[n - 1], calls[order[n]])
    BY DEF Explains
  <2>2. \A n \in 0..L : n = 0 \/ n \in 1..L
    BY <1>1
  <2>. QED BY <2>1, <2>2
<1>3. f = Step(f)
  BY <1>2
<1>4. \A n \in 0..L : f[n] = m[n]
  <2>. DEFINE bad == {n \in 0..L : f[n] # m[n]}
  <2>. HIDE DEF f
  <2>1. SUFFICES ASSUME bad # {} PROVE FALSE
    OBVIOUS
  <2>2. PICK n \in bad : \A k \in bad : n <= k
    <3>1. bad \in SUBSET Nat
      BY <1>1
    <3>. HIDE DEF bad
    <3>. QED BY <2>1, <3>1, Smallest
  <2>3. n = 0 \/ (n - 1 \in 0..L /\ n - 1 \notin bad)
    BY <1>1, <2>2
  <2>4. f[n] = Step(f)[n] /\ m[n] = Step(m)[n]
    BY <1>2, <1>3
  <2>. QED BY <2>2, <2>3, <2>4
<1>5. f = m
  <2>. HIDE DEF f
  <2>. QED BY <1>2, <1>3, <1>4
<1>. QED BY <1>5 DEF Mem!Replay

\* the order which explains all calls is one which linearizes them
LEMMA MemLinear == ASSUME MemInv, MemOrdered PROVE Mem!Linearizable
<1>1. PICK order, m, S : Explains(calls, order, m, S) /\ MemServed \subseteq S
  BY DEF MemOrdered, Leaves
<1>2. Len(order) \in Nat /\ DOMAIN order = 1..Len(order) /\ order \in [1..Len(order) -> S]
  <2>1. order \in Seq(S)
    BY <1>1 DEF Explains
  <2>. QED BY <2>1, LenProperties
<1>3. Mem!Back \subseteq S /\ S \subseteq DOMAIN calls
  BY <1>1 DEF Mem!Back, MemServed, Explains
<1>4. Mem!Back \union (S \ Mem!Back) = S /\ S \ Mem!Back \in SUBSET (DOMAIN calls \ Mem!Back)
  BY <1>3
<1>5. order \in Mem!SetToSeqs(S)
  <2>1. Cardinality(S) = Len(order) /\ \A n, k \in 1..Len(order) : n # k => order[n] # order[k]
    BY <1>1 DEF Explains
  <2>2. order \in [1..Cardinality(S) -> S]
    BY <1>2, <2>1
  <2>3. \A n, k \in 1..Cardinality(S) : n # k => order[n] # order[k]
    BY <2>1
  <2>4. Mem!Cardinality(S) = Cardinality(S)
    BY DEF Mem!Cardinality, Cardinality
  <2>. QED BY <2>2, <2>3, <2>4 DEF Mem!SetToSeqs
<1>6. Mem!Replay(order) = m
  BY <1>1, Replayed
<1>7. \A n, k \in DOMAIN order : n < k => order[k] \notin calls[order[n]].after
  BY <1>1, <1>2 DEF Explains
<1>8. \A n \in DOMAIN order : order[n] \in Mem!Back /\ calls[order[n]].action = "get" =>
                                   calls[order[n]].heard \in Mem!Decoded(m[n - 1])
  <2>1. ASSUME NEW n \in DOMAIN order, order[n] \in Mem!Back, calls[order[n]].action = "get"
        PROVE  calls[order[n]].heard \in Mem!Decoded(m[n - 1])
    <3>1. calls[order[n]].answer = m[n - 1]
      BY <1>1, <1>2, <2>1 DEF Explains
    <3>2. MemHeard(calls[order[n]]) /\ calls[order[n]].state = "back"
      BY <2>1 DEF MemInv, Mem!Back
    <3>. QED BY <2>1, <3>1, <3>2 DEF MemHeard
  <2>. QED BY <2>1
<1>. QED BY <1>4, <1>5, <1>6, <1>7, <1>8 DEF Mem!Linearizable

-----------------------------------------------------------------------------
(* Sockets *)

Visits == [conn : Conns, step : {"get", "set", "done"}]

TabsTypes ==
    /\ memory \in [list : SUBSET Conns, page : [Conns -> 0..MaxHits]]
    /\ pc \in [Conns -> Tabs!PCs]
    /\ hit \in Seq(Visits) /\ Len(hit) <= MaxHits
    /\ wire \subseteq Conns
    /\ log \in [hits : [1..MaxHits -> Nat], open : SUBSET Conns, overlapped : BOOLEAN]

\* a page which is known was visited by its tab, and what was not stored yet is not recorded
TabsPages ==
    /\ \A c \in Conns : memory.page[c] # 0 =>
          /\ memory.page[c] \in DOMAIN hit
          /\ hit[memory.page[c]].conn = c /\ hit[memory.page[c]].step = "done"
    /\ \A p \in 1..MaxHits : p \notin DOMAIN hit \/ hit[p].step # "done" => log.hits[p] = 0
    /\ \A p \in DOMAIN hit : pc[hit[p].conn] \in {"bound", "leave", "leave.get", "gone"}

TabsAlone ==
    ~log.overlapped =>
        /\ \A p \in 1..MaxHits : log.hits[p] <= 1
        /\ \A p, q \in DOMAIN hit :
              hit[p].conn = hit[q].conn /\ hit[p].step # "done" /\ hit[q].step # "done" => p = q
        /\ \A p \in DOMAIN hit : hit[p].step # "done" => pc[hit[p].conn] # "gone"
        /\ \A c \in Conns : memory.page[c] # 0 =>
              \/ log.hits[memory.page[c]] = 0
              \/ pc[c] = "gone"
              \/ \E q \in DOMAIN hit : hit[q].conn = c /\ hit[q].step = "set"

TabsInv == TabsTypes /\ Tabs!TabsListed /\ TabsPages /\ TabsAlone

\* the invariant says what is asked of sockets
LEMMA TabsProps == ASSUME TabsInv PROVE Tabs!TypeOK /\ TabsKept
BY DEF TabsInv, TabsTypes, Visits, TabsAlone, Tabs!TypeOK, Tabs!Pages, TabsKept, Tabs!RecordedOnce

\* no tab is open
LEMMA TabsInit == ASSUME Tabs!Init PROVE TabsInv
<1>1. TabsTypes
  BY HitsAssumption DEF Tabs!Init, TabsTypes, Tabs!PCs, Tabs!NoPage
<1>2. DOMAIN hit = {}
  BY DEF Tabs!Init
<1>. QED BY <1>1, <1>2 DEF Tabs!Init, TabsInv, Tabs!TabsListed, TabsPages, TabsAlone, Tabs!NoPage

\* hits are numbered in their order
LEMMA HitTypes ==
    ASSUME TabsTypes
    PROVE  /\ Len(hit) \in Nat /\ DOMAIN hit = 1..Len(hit)
           /\ \A p \in DOMAIN hit : /\ hit[p] \in Visits /\ p \in 1..MaxHits
                                    /\ hit[p].conn \in Conns /\ hit[p].step \in {"get", "set", "done"}
<1>1. Len(hit) \in Nat /\ DOMAIN hit = 1..Len(hit) /\ hit \in [1..Len(hit) -> Visits]
  BY LenProperties DEF TabsTypes
<1>2. \A p \in DOMAIN hit : hit[p] \in Visits
  BY <1>1
<1>3. 1..Len(hit) \subseteq 1..MaxHits
  BY <1>1, HitsAssumption DEF TabsTypes
<1>. QED BY <1>1, <1>2, <1>3 DEF Visits

\* a visit goes on
LEMMA HitChanged ==
    ASSUME TabsTypes, NEW p \in DOMAIN hit, NEW next \in {"get", "set", "done"},
           hit' = [hit EXCEPT ![p].step = next]
    PROVE  /\ hit' \in Seq(Visits) /\ Len(hit') = Len(hit) /\ DOMAIN hit' = DOMAIN hit /\ hit'[p].step = next
           /\ \A q \in DOMAIN hit : hit'[q].conn = hit[q].conn /\ (q # p => hit'[q] = hit[q])
<1>1. hit[p] \in Visits /\ Len(hit) \in Nat /\ DOMAIN hit = 1..Len(hit)
  BY HitTypes
<1>2. [hit[p] EXCEPT !.step = next] \in Visits
  BY <1>1 DEF Visits
<1>3. hit' = [hit EXCEPT ![p] = [hit[p] EXCEPT !.step = next]]
  OBVIOUS
<1>4. /\ hit' \in Seq(Visits) /\ Len(hit') = Len(hit)
      /\ \A q \in 1..Len(hit) : hit'[q] = IF q = p THEN [hit[p] EXCEPT !.step = next] ELSE hit[q]
  BY <1>1, <1>2, <1>3, ExceptSeq DEF TabsTypes
<1>5. DOMAIN hit' = 1..Len(hit')
  BY <1>4, LenProperties
<1>6. [hit[p] EXCEPT !.step = next].conn = hit[p].conn /\ [hit[p] EXCEPT !.step = next].step = next
  BY <1>1 DEF Visits
<1>. QED BY <1>1, <1>4, <1>5, <1>6

\* one hit is recorded once more
LEMMA Bumped ==
    ASSUME NEW n \in Nat, NEW f \in [1..n -> Nat], NEW m \in 1..n
    PROVE  LET g == [f EXCEPT ![m] = f[m] + 1] IN
           g \in [1..n -> Nat] /\ g[m] = f[m] + 1 /\ \A k \in 1..n : k # m => g[k] = f[k]
OBVIOUS

\* what is recorded when a page is left
LEMMA Recorded ==
    ASSUME TabsTypes, NEW c \in Conns, NEW hits, hits = Tabs!Record(memory.page[c])
    PROVE  /\ hits \in [1..MaxHits -> Nat]
           /\ memory.page[c] \in 0..MaxHits
           /\ memory.page[c] # 0 => hits[memory.page[c]] = log.hits[memory.page[c]] + 1
           /\ \A p \in 1..MaxHits : p # memory.page[c] => hits[p] = log.hits[p]
<1>1. memory.page[c] \in 0..MaxHits /\ log.hits \in [1..MaxHits -> Nat]
  BY DEF TabsTypes
<1>2. CASE memory.page[c] = 0
  BY <1>1, <1>2 DEF Tabs!Record, Tabs!NoPage
<1>3. CASE memory.page[c] # 0
  <2>1. memory.page[c] \in 1..MaxHits
    BY <1>1, <1>3, HitsAssumption
  <2>2. hits = [log.hits EXCEPT ![memory.page[c]] = log.hits[memory.page[c]] + 1]
    BY <1>3 DEF Tabs!Record, Tabs!NoPage
  <2>. QED BY <1>1, <2>1, <2>2, Bumped, HitsAssumption
<1>. QED BY <1>2, <1>3

\* what a connection does before its handlers are bound, or after they were, visits and records nothing
LEMMA TabsMove ==
    ASSUME TabsInv, NEW c \in Conns, NEW next \in Tabs!PCs, pc' = [pc EXCEPT ![c] = next],
           memory'.page = memory.page, hit' = hit, log'.hits = log.hits, log'.overlapped = log.overlapped,
           next = "gone" => pc[c] = "session",
           pc[c] \in {"bound", "leave"} => next \in {"leave", "leave.get"},
           pc[c] \notin {"leave.get", "gone"}
    PROVE  TabsPages' /\ TabsAlone'
<1>1. \A p \in DOMAIN hit : hit[p].conn \in Conns
  BY HitTypes DEF TabsInv
<1>2. TabsPages'
  BY <1>1 DEF TabsInv, TabsTypes, TabsPages
<1>3. TabsAlone'
  <2>1. \A p \in DOMAIN hit : hit[p].conn = c => pc[c] # "session"
    BY <1>1 DEF TabsInv, TabsPages
  <2>. QED BY <1>1, <2>1 DEF TabsInv, TabsTypes, TabsAlone
<1>. QED BY <1>2, <1>3

\* each event of a socket, and each answer of the cache, keeps the invariant
LEMMA TabsStep == ASSUME TabsInv, Tabs!Next PROVE TabsInv'
<1>. USE DEF TabsInv
<1>0. \A p \in DOMAIN hit : p \in 1..MaxHits /\ hit[p].conn \in Conns /\ hit[p].step \in {"get", "set", "done"}
  BY HitTypes
<1>1. ASSUME NEW c \in Conns, Tabs!Connect(c) \/ Tabs!GetSession(c) PROVE TabsInv'
  <2>1. PICK next \in {"session", "add", "gone"} :
          /\ pc' = [pc EXCEPT ![c] = next] /\ pc[c] \in {"new", "session"} /\ (next = "gone" => pc[c] = "session")
          /\ UNCHANGED <<memory, hit, wire, log>>
    BY <1>1 DEF Tabs!Connect, Tabs!GetSession, Tabs!Goto
  <2>2. TabsPages' /\ TabsAlone'
    BY <2>1, TabsMove DEF Tabs!PCs
  <2>. QED BY <2>1, <2>2 DEF TabsTypes, Tabs!PCs, Tabs!TabsListed
<1>2. ASSUME NEW c \in Conns, Tabs!Add(c) PROVE TabsInv'
  <2>1. /\ pc' = [pc EXCEPT ![c] = "bound"] /\ pc[c] = "add" /\ UNCHANGED <<hit, wire, log>>
        /\ memory' = [memory EXCEPT !.list = memory.list \union {c}]
    BY <1>2 DEF Tabs!Add, Tabs!Goto
  <2>2. memory'.page = memory.page /\ memory'.list = memory.list \union {c}
    BY <2>1 DEF TabsTypes
  <2>3. TabsPages' /\ TabsAlone'
    BY <2>1, <2>2, TabsMove DEF Tabs!PCs
  <2>4. TabsTypes'
    BY <2>1 DEF TabsTypes, Tabs!PCs
  <2>5. Tabs!TabsListed'
    BY <2>1, <2>2 DEF TabsTypes, Tabs!TabsListed
  <2>. QED BY <2>3, <2>4, <2>5
<1>3. ASSUME NEW c \in Conns, Tabs!Hit(c) PROVE TabsInv'
  <2>1. /\ hit' = Append(hit, [conn |-> c, step |-> "get"]) /\ Len(hit) < MaxHits /\ pc[c] = "bound"
        /\ log' = [log EXCEPT !.overlapped = log.overlapped \/ Tabs!Visiting(c)]
        /\ UNCHANGED <<memory, pc, wire>>
    BY <1>3 DEF Tabs!Hit
  <2>2. /\ DOMAIN hit' = DOMAIN hit \union {Len(hit) + 1} /\ Len(hit) + 1 \notin DOMAIN hit
        /\ \A p \in DOMAIN hit : hit'[p] = hit[p]
        /\ hit'[Len(hit) + 1] = [conn |-> c, step |-> "get"]
    BY <2>1 DEF TabsTypes
  <2>3. log'.hits = log.hits /\ log'.overlapped = (log.overlapped \/ Tabs!Visiting(c))
    BY <2>1 DEF TabsTypes
  <2>4. TabsTypes'
    <3>1. [conn |-> c, step |-> "get"] \in Visits
      BY DEF Visits
    <3>2. hit' \in Seq(Visits) /\ Len(hit') = Len(hit) + 1
      BY <2>1, <3>1 DEF TabsTypes
    <3>3. Len(hit') <= MaxHits
      BY <2>1, <3>2, HitTypes, HitsAssumption
    <3>4. log' \in [hits : [1..MaxHits -> Nat], open : SUBSET Conns, overlapped : BOOLEAN]
      BY <2>1 DEF TabsTypes, Tabs!Visiting
    <3>. QED BY <2>1, <3>2, <3>3, <3>4 DEF TabsTypes
  <2>5. TabsPages'
    BY <1>0, <2>1, <2>2, <2>3 DEF TabsTypes, TabsPages
  <2>6. TabsAlone'
    <3>1. SUFFICES ASSUME ~log.overlapped, ~Tabs!Visiting(c) PROVE TabsAlone'
      BY <2>3 DEF TabsAlone
    <3>2. \A p \in DOMAIN hit : hit[p].conn = c => hit[p].step = "done"
      BY <3>1 DEF Tabs!Visiting
    <3>3. \A p, q \in DOMAIN hit' :
             hit'[p].conn = hit'[q].conn /\ hit'[p].step # "done" /\ hit'[q].step # "done" => p = q
      BY <2>2, <3>1, <3>2 DEF TabsAlone
    <3>4. \A p \in DOMAIN hit' : hit'[p].step # "done" => pc[hit'[p].conn] # "gone"
      BY <2>1, <2>2, <3>1 DEF TabsAlone
    <3>5. \A d \in Conns : memory.page[d] # 0 =>
              \/ log.hits[memory.page[d]] = 0
              \/ pc[d] = "gone"
              \/ \E q \in DOMAIN hit' : hit'[q].conn = d /\ hit'[q].step = "set"
      BY <2>2, <3>1 DEF TabsAlone
    <3>. QED BY <2>1, <2>3, <3>1, <3>3, <3>4, <3>5 DEF TabsAlone
  <2>. QED BY <2>1, <2>4, <2>5, <2>6 DEF Tabs!TabsListed
<1>4. ASSUME NEW c \in Conns, Tabs!Close(c) PROVE TabsInv'
  <2>1. /\ log' = [log EXCEPT !.open = log.open \ {c}] /\ UNCHANGED <<memory, hit, wire>>
        /\ pc' = IF pc[c] = "bound" THEN [pc EXCEPT ![c] = "leave"] ELSE pc
    BY <1>4 DEF Tabs!Close
  <2>2. log'.hits = log.hits /\ log'.overlapped = log.overlapped
    BY <2>1 DEF TabsTypes
  <2>3. TabsTypes'
    BY <2>1 DEF TabsTypes, Tabs!PCs
  <2>4. Tabs!TabsListed'
    BY <2>1 DEF TabsTypes, Tabs!TabsListed
  <2>5. TabsPages' /\ TabsAlone'
    <3>1. CASE pc[c] = "bound"
      BY <2>1, <2>2, <3>1, TabsMove DEF Tabs!PCs
    <3>2. CASE pc[c] # "bound"
      BY <2>1, <2>2, <3>2 DEF TabsPages, TabsAlone
    <3>. QED BY <3>1, <3>2
  <2>. QED BY <2>3, <2>4, <2>5
<1>5. ASSUME NEW c \in Conns, Tabs!Leave(c) PROVE TabsInv'
  <2>1. /\ pc' = [pc EXCEPT ![c] = "leave.get"] /\ pc[c] = "leave" /\ UNCHANGED <<hit, wire, log>>
        /\ memory' = [memory EXCEPT !.list = memory.list \ {c}]
    BY <1>5 DEF Tabs!Leave, Tabs!Goto
  <2>2. memory'.page = memory.page /\ memory'.list = memory.list \ {c}
    BY <2>1 DEF TabsTypes
  <2>3. TabsPages' /\ TabsAlone'
    BY <2>1, <2>2, TabsMove DEF Tabs!PCs
  <2>4. TabsTypes'
    BY <2>1 DEF TabsTypes, Tabs!PCs
  <2>5. Tabs!TabsListed'
    BY <2>1, <2>2 DEF TabsTypes, Tabs!TabsListed
  <2>. QED BY <2>3, <2>4, <2>5
<1>6. ASSUME NEW c \in Conns, Tabs!LeaveGet(c) PROVE TabsInv'
  <2>1. /\ pc' = [pc EXCEPT ![c] = "gone"] /\ pc[c] = "leave.get" /\ UNCHANGED <<memory, hit>>
        /\ wire' = wire \union {c}
        /\ log' = [log EXCEPT !.hits = Tabs!Record(memory.page[c]),
                              !.overlapped = log.overlapped \/ Tabs!Visiting(c)]
    BY <1>6 DEF Tabs!LeaveGet, Tabs!Goto
  <2>2. /\ log'.hits = Tabs!Record(memory.page[c])
        /\ log'.overlapped = (log.overlapped \/ Tabs!Visiting(c)) /\ log'.open = log.open
    BY <2>1 DEF TabsTypes
  <2>3. /\ log'.hits \in [1..MaxHits -> Nat] /\ memory.page[c] \in 0..MaxHits
        /\ memory.page[c] # 0 => log'.hits[memory.page[c]] = log.hits[memory.page[c]] + 1
        /\ \A p \in 1..MaxHits : p # memory.page[c] => log'.hits[p] = log.hits[p]
    BY <2>2, Recorded
  <2>4. TabsTypes'
    <3>1. log' \in [hits : [1..MaxHits -> Nat], open : SUBSET Conns, overlapped : BOOLEAN]
      BY <2>1, <2>2, <2>3 DEF TabsTypes, Tabs!Visiting
    <3>. QED BY <2>1, <3>1 DEF TabsTypes, Tabs!PCs
  <2>5. TabsPages'
    <3>1. \A p \in 1..MaxHits : p \notin DOMAIN hit \/ hit[p].step # "done" => p # memory.page[c]
      BY HitTypes, HitsAssumption DEF TabsPages
    <3>2. \A p \in DOMAIN hit : pc'[hit[p].conn] \in {"bound", "leave", "leave.get", "gone"}
      BY <1>0, <2>1 DEF TabsTypes, TabsPages
    <3>. QED BY <2>1, <2>3, <3>1, <3>2 DEF TabsPages
  <2>6. TabsAlone'
    <3>1. SUFFICES ASSUME ~log.overlapped, ~Tabs!Visiting(c) PROVE TabsAlone'
      BY <2>2 DEF TabsAlone
    <3>2. \A p \in DOMAIN hit : hit[p].conn = c => hit[p].step = "done"
      BY <3>1 DEF Tabs!Visiting
    <3>3. memory.page[c] # 0 => log.hits[memory.page[c]] = 0
      BY <2>1, <3>1, <3>2 DEF TabsAlone
    <3>4. \A p \in 1..MaxHits : log'.hits[p] <= 1
      BY <2>3, <3>1, <3>3 DEF TabsAlone
    <3>5. \A p \in DOMAIN hit : hit[p].step # "done" => pc'[hit[p].conn] # "gone"
      BY <1>0, <2>1, <3>1, <3>2 DEF TabsAlone, TabsTypes
    <3>6. ASSUME NEW d \in Conns, memory.page[d] # 0
          PROVE  \/ log'.hits[memory.page[d]] = 0
                 \/ pc'[d] = "gone"
                 \/ \E q \in DOMAIN hit : hit[q].conn = d /\ hit[q].step = "set"
      <4>1. CASE d = c
        BY <2>1, <4>1 DEF TabsTypes
      <4>2. CASE d # c
        <5>1. memory.page[d] # memory.page[c]
          BY <3>6, <4>2 DEF TabsPages
        <5>2. log'.hits[memory.page[d]] = log.hits[memory.page[d]] /\ pc'[d] = pc[d]
          BY <1>0, <2>1, <2>3, <3>6, <4>2, <5>1 DEF TabsTypes, TabsPages
        <5>. QED BY <3>1, <3>6, <5>2 DEF TabsAlone
      <4>. QED BY <4>1, <4>2
    <3>. QED BY <2>1, <3>1, <3>4, <3>5, <3>6 DEF TabsAlone
  <2>7. Tabs!TabsListed'
    BY <2>1 DEF TabsTypes, Tabs!TabsListed
  <2>. QED BY <2>4, <2>5, <2>6, <2>7
<1>7. ASSUME NEW p \in DOMAIN hit, Tabs!HitGet(p) PROVE TabsInv'
  <2>. DEFINE c == hit[p].conn
  <2>1. /\ hit[p].step = "get" /\ UNCHANGED <<memory, pc, wire>> /\ hit' = [hit EXCEPT ![p].step = "set"]
        /\ log' = [log EXCEPT !.hits = Tabs!Record(memory.page[c])]
    BY <1>7 DEF Tabs!HitGet
  <2>2. c \in Conns /\ log'.hits = Tabs!Record(memory.page[c])
        /\ log'.overlapped = log.overlapped /\ log'.open = log.open
    BY <1>0, <2>1 DEF TabsTypes
  <2>3. /\ log'.hits \in [1..MaxHits -> Nat] /\ memory.page[c] \in 0..MaxHits
        /\ memory.page[c] # 0 => log'.hits[memory.page[c]] = log.hits[memory.page[c]] + 1
        /\ \A q \in 1..MaxHits : q # memory.page[c] => log'.hits[q] = log.hits[q]
    BY <2>2, Recorded
  <2>4. /\ hit' \in Seq(Visits) /\ Len(hit') = Len(hit) /\ DOMAIN hit' = DOMAIN hit /\ hit'[p].step = "set"
        /\ \A q \in DOMAIN hit : hit'[q].conn = hit[q].conn /\ (q # p => hit'[q] = hit[q])
    BY <2>1, HitChanged
  <2>5. TabsTypes'
    <3>1. log' \in [hits : [1..MaxHits -> Nat], open : SUBSET Conns, overlapped : BOOLEAN]
      BY <2>1, <2>2, <2>3 DEF TabsTypes
    <3>. QED BY <2>1, <2>4, <3>1 DEF TabsTypes
  <2>6. TabsPages'
    <3>1. \A q \in 1..MaxHits : q \notin DOMAIN hit \/ hit[q].step # "done" => q # memory.page[c]
      BY <2>2, HitTypes, HitsAssumption DEF TabsPages
    <3>2. \A q \in DOMAIN hit : hit'[q].step = "done" <=> hit[q].step = "done"
      BY <2>1, <2>4
    <3>3. \A q \in 1..MaxHits : q \notin DOMAIN hit' \/ hit'[q].step # "done" => log'.hits[q] = 0
      BY <2>3, <2>4, <3>1, <3>2 DEF TabsPages
    <3>4. \A d \in Conns : memory.page[d] # 0 =>
             /\ memory.page[d] \in DOMAIN hit'
             /\ hit'[memory.page[d]].conn = d /\ hit'[memory.page[d]].step = "done"
      BY <2>4, <3>2 DEF TabsPages
    <3>5. \A q \in DOMAIN hit' : pc[hit'[q].conn] \in {"bound", "leave", "leave.get", "gone"}
      BY <2>4 DEF TabsPages
    <3>. QED BY <2>1, <3>3, <3>4, <3>5 DEF TabsPages
  <2>7. TabsAlone'
    <3>1. SUFFICES ASSUME ~log.overlapped PROVE TabsAlone'
      BY <2>2 DEF TabsAlone
    <3>2. memory.page[c] # 0 => log.hits[memory.page[c]] = 0
      <4>1. \A q \in DOMAIN hit : hit[q].conn = c => hit[q].step # "set"
        BY <2>1, <3>1 DEF TabsAlone
      <4>2. pc[c] # "gone"
        BY <2>1, <3>1 DEF TabsAlone
      <4>. QED BY <2>2, <3>1, <4>1, <4>2 DEF TabsAlone
    <3>3. \A q \in 1..MaxHits : log'.hits[q] <= 1
      BY <2>3, <3>1, <3>2 DEF TabsAlone
    <3>4. \A q \in DOMAIN hit : hit'[q].step # "done" => hit[q].step # "done"
      BY <2>1, <2>4
    <3>5. ASSUME NEW d \in Conns, memory.page[d] # 0
          PROVE  \/ log'.hits[memory.page[d]] = 0
                 \/ pc[d] = "gone"
                 \/ \E q \in DOMAIN hit : hit'[q].conn = d /\ hit'[q].step = "set"
      <4>1. CASE d = c
        BY <2>4, <4>1
      <4>2. CASE d # c
        <5>1. memory.page[d] # memory.page[c] /\ memory.page[d] \in 1..MaxHits
          BY <1>0, <2>2, <3>5, <4>2 DEF TabsPages
        <5>2. log'.hits[memory.page[d]] = log.hits[memory.page[d]]
          BY <2>3, <5>1
        <5>. QED BY <2>1, <2>4, <3>1, <3>5, <5>2 DEF TabsAlone
      <4>. QED BY <4>1, <4>2
    <3>. QED BY <2>1, <2>4, <3>1, <3>3, <3>4, <3>5 DEF TabsAlone
  <2>. QED BY <2>1, <2>5, <2>6, <2>7 DEF Tabs!TabsListed
<1>8. ASSUME NEW p \in DOMAIN hit, Tabs!HitSet(p) PROVE TabsInv'
  <2>. DEFINE c == hit[p].conn
  <2>1. /\ hit[p].step = "set" /\ UNCHANGED <<pc, wire, log>> /\ hit' = [hit EXCEPT ![p].step = "done"]
        /\ memory' = [memory EXCEPT !.page[c] = p]
    BY <1>8 DEF Tabs!HitSet
  <2>2. c \in Conns /\ p \in 1..MaxHits
    BY <1>0
  <2>3. memory'.list = memory.list /\ memory'.page = [memory.page EXCEPT ![c] = p]
    BY <2>1, <2>2 DEF TabsTypes
  <2>4. /\ hit' \in Seq(Visits) /\ Len(hit') = Len(hit) /\ DOMAIN hit' = DOMAIN hit /\ hit'[p].step = "done"
        /\ \A q \in DOMAIN hit : hit'[q].conn = hit[q].conn /\ (q # p => hit'[q] = hit[q])
    BY <2>1, HitChanged
  <2>5. TabsTypes'
    <3>1. [memory.page EXCEPT ![c] = p] \in [Conns -> 0..MaxHits]
      BY <2>2, HitsAssumption DEF TabsTypes
    <3>2. memory' \in [list : SUBSET Conns, page : [Conns -> 0..MaxHits]]
      BY <2>1, <2>3, <3>1 DEF TabsTypes
    <3>. QED BY <2>1, <2>4, <3>2 DEF TabsTypes
  <2>6. memory.page \in [Conns -> 0..MaxHits]
    BY DEF TabsTypes
  <2>7. TabsPages'
    BY <1>0, <2>1, <2>2, <2>3, <2>4, <2>6 DEF TabsPages
  <2>8. TabsAlone'
    <3>1. SUFFICES ASSUME ~log.overlapped PROVE TabsAlone'
      BY <2>1 DEF TabsAlone
    <3>2. \A q \in DOMAIN hit : hit'[q].step # "done" => hit[q].step # "done" /\ q # p
      BY <2>4
    <3>3. ASSUME NEW d \in Conns, memory'.page[d] # 0
          PROVE  \/ log.hits[memory'.page[d]] = 0
                 \/ pc[d] = "gone"
                 \/ \E q \in DOMAIN hit : hit'[q].conn = d /\ hit'[q].step = "set"
      <4>1. CASE d = c
        BY <2>1, <2>2, <2>3, <2>6, <4>1 DEF TabsPages
      <4>2. CASE d # c
        BY <2>3, <2>4, <2>6, <3>1, <3>3, <4>2 DEF TabsAlone
      <4>. QED BY <4>1, <4>2
    <3>. QED BY <2>1, <2>4, <3>1, <3>2, <3>3 DEF TabsAlone
  <2>. QED BY <2>1, <2>3, <2>5, <2>7, <2>8 DEF Tabs!TabsListed
<1>9. ASSUME Tabs!Unset PROVE TabsInv'
  <2>1. PICK c \in wire : /\ memory' = [memory EXCEPT !.page[c] = 0] /\ wire' = wire \ {c}
                          /\ UNCHANGED <<pc, hit, log>>
    BY <1>9 DEF Tabs!Unset, Tabs!NoPage
  <2>2. c \in Conns /\ memory'.list = memory.list /\ memory'.page = [memory.page EXCEPT ![c] = 0]
    BY <2>1 DEF TabsTypes
  <2>3. memory.page \in [Conns -> 0..MaxHits]
    BY DEF TabsTypes
  <2>4. \A d \in Conns : memory'.page[d] # 0 => memory'.page[d] = memory.page[d]
    BY <2>2, <2>3
  <2>5. TabsTypes'
    <3>1. [memory.page EXCEPT ![c] = 0] \in [Conns -> 0..MaxHits]
      BY <2>2, HitsAssumption DEF TabsTypes
    <3>2. memory' \in [list : SUBSET Conns, page : [Conns -> 0..MaxHits]]
      BY <2>1, <2>2, <3>1 DEF TabsTypes
    <3>. QED BY <2>1, <3>2 DEF TabsTypes
  <2>. QED BY <2>1, <2>2, <2>4, <2>5 DEF Tabs!TabsListed, TabsPages, TabsAlone
<1>. QED BY <1>1, <1>2, <1>3, <1>4, <1>5, <1>6, <1>7, <1>8, <1>9 DEF Tabs!Next

-----------------------------------------------------------------------------
(* Requests *)

Requesting == [method : Http!Methods, place : Http!Places, loggedin : BOOLEAN, dash : BOOLEAN,
               refused : BOOLEAN, runs : 0..2]

HttpTypes ==
    /\ at \in [Slots -> Http!PCs]
    /\ req \in [Slots -> Requesting]
    /\ heads \subseteq Slots
    /\ queue \in Seq(Slots)
    /\ ready \in {"loading", "ready", "broken"}

\* those who wait are those which are queued, each once
HttpQueued ==
    /\ \A i \in DOMAIN queue : at[queue[i]] = "queued"
    /\ \A i, j \in DOMAIN queue : queue[i] = queue[j] => i = j

HttpHandled ==
    \A r \in Slots :
        /\ req[r].runs <= 1
        /\ req[r].runs = 0 \/ at[r] \in {"done", "hung"}
        /\ at[r] \in {"session", "body", "dispatch", "run"} /\ r \in heads => req[r].refused

Working == {"session", "body", "dispatch", "run"}

\* a handler may run
MayRun(e) ==
    \/ e.loggedin
    \/ e.place = "api"
    \/ e.place = "upload" /\ e.method = "POST"
    \/ e.place \notin {"admin", "upload", "livevars"} /\ e.method \in {"GET", "POST"}

HttpMay ==
    \A r \in Slots :
        /\ req[r].dash => req[r].loggedin
        /\ at[r] \in Working /\ req[r].place = "upload" => req[r].method = "POST"
        /\ at[r] = "run" \/ req[r].runs > 0 => MayRun(req[r])

HttpInv == HttpTypes /\ HttpQueued /\ HttpHandled /\ HttpMay

\* no request has arrived
LEMMA HttpInit == ASSUME Http!Init PROVE HttpInv
<1>1. /\ at \in [Slots -> Http!PCs] /\ heads \subseteq Slots /\ ready \in {"loading", "ready", "broken"}
      /\ queue \in Seq(Slots) /\ DOMAIN queue = {}
  BY DEF Http!Init, Http!PCs
<1>2. req \in [Slots -> Requesting]
  BY DEF Http!Init, Requesting, Http!Methods, Http!Places
<1>. QED BY <1>1, <1>2 DEF Http!Init, HttpInv, HttpTypes, HttpQueued, HttpHandled, HttpMay

\* the invariant says what is asked of requests; the queue is as long as there are slots at most
LEMMA HttpProps == ASSUME HttpInv PROVE Http!TypeOK /\ Http!HandledOnce /\ Http!SessionAsked
<1>. USE DEF HttpInv, HttpTypes
<1>1. Http!HandledOnce /\ Http!SessionAsked
  BY DEF HttpHandled, HttpMay, MayRun, Http!HandledOnce, Http!SessionAsked, Requesting
<1>2. Len(queue) \in Nat /\ queue \in [1..Len(queue) -> Slots] /\ DOMAIN queue = 1..Len(queue)
  BY LenProperties
<1>3. queue \in Injection(1..Len(queue), Slots)
  BY <1>2 DEF HttpQueued, Injection, IsInjective
<1>4. Cardinality(1..Len(queue)) = Len(queue)
  <2>1. Cardinality(1..Len(queue)) = IF 1 > Len(queue) THEN 0 ELSE Len(queue) - 1 + 1
    BY <1>2, FS_Interval
  <2>. QED BY <1>2, <2>1
<1>5. Len(queue) <= Cardinality(Slots)
  BY <1>3, <1>4, FS_Injection, SlotsAssumption
<1>6. Http!Cardinality(Slots) = Cardinality(Slots)
  BY DEF Http!Cardinality, Cardinality
<1>7. Http!TypeOK
  BY <1>5, <1>6 DEF Http!TypeOK, Requesting
<1>. QED BY <1>1, <1>7

\* what is queued, by its place
LEMMA HttpQueue ==
    ASSUME HttpTypes
    PROVE  /\ Len(queue) \in Nat /\ DOMAIN queue = 1..Len(queue)
           /\ \A i \in DOMAIN queue : queue[i] \in Slots
BY LenProperties DEF HttpTypes

\* one request, which is not waiting, goes on
LEMMA HttpMoves ==
    ASSUME HttpInv, NEW r \in Slots, at[r] # "queued", queue' = queue, ready' = ready,
           at' \in [Slots -> Http!PCs], req' \in [Slots -> Requesting],
           \A q \in Slots \ {r} : at'[q] = at[q] /\ req'[q] = req[q],
           heads' \in {heads, heads \union {r}},
           req'[r].runs <= 1, req'[r].runs = 0 \/ at'[r] \in {"done", "hung"},
           at'[r] \in {"session", "body", "dispatch", "run"} /\ r \in heads' => req'[r].refused,
           req'[r].dash => req'[r].loggedin,
           at'[r] \in Working /\ req'[r].place = "upload" => req'[r].method = "POST",
           at'[r] = "run" \/ req'[r].runs > 0 => MayRun(req'[r])
    PROVE  HttpInv'
<1>. USE DEF HttpInv
<1>1. HttpTypes'
  BY DEF HttpTypes
<1>2. HttpQueued'
  BY HttpQueue DEF HttpTypes, HttpQueued
<1>3. \A q \in Slots \ {r} : q \in heads' => q \in heads
  OBVIOUS
<1>4. HttpHandled'
  BY <1>3 DEF HttpHandled
<1>5. HttpMay'
  BY <1>3 DEF HttpMay
<1>. QED BY <1>1, <1>2, <1>4, <1>5

\* ... and nothing becomes known of it
LEMMA HttpGoes ==
    ASSUME HttpInv, NEW r \in Slots, NEW next \in Http!PCs,
           at[r] # "queued", at' = [at EXCEPT ![r] = next], req' = req,
           heads' \in {heads, heads \union {r}}, queue' = queue, ready' = ready,
           req[r].runs = 0 \/ next \in {"done", "hung"},
           next \in {"session", "body", "dispatch", "run"} /\ r \in heads' => req[r].refused,
           next \in Working => at[r] \in Working, next = "run" => MayRun(req[r])
    PROVE  HttpInv'
<1>1. /\ at' \in [Slots -> Http!PCs] /\ req' \in [Slots -> Requesting] /\ at'[r] = next
      /\ \A q \in Slots \ {r} : at'[q] = at[q] /\ req'[q] = req[q]
  BY DEF HttpInv, HttpTypes
<1>2. /\ req[r].runs <= 1 /\ (req[r].dash => req[r].loggedin)
      /\ next \in Working /\ req[r].place = "upload" => req[r].method = "POST"
  BY DEF HttpInv, HttpHandled, HttpMay
<1>3. req[r].runs > 0 => MayRun(req[r])
  BY DEF HttpInv, HttpMay
<1>. QED BY <1>1, <1>2, <1>3, HttpMoves

\* each step of the pipeline keeps the invariant
LEMMA HttpStep == ASSUME HttpInv, Http!Next PROVE HttpInv'
<1>. USE DEF Http!PCs
<1>0. \A r \in Slots : /\ req[r] \in Requesting /\ at[r] \in Http!PCs
                       /\ at[r] \notin {"done", "hung"} => req[r].runs = 0
                       /\ req[r].dash => req[r].loggedin
  BY DEF HttpInv, HttpTypes, HttpHandled, HttpMay
<1>1. ASSUME Http!HandleQueue PROVE HttpInv'
  <2>1. PICK n \in Nat : at' = Http!Handled(n)
    BY <1>1, HttpQueue DEF Http!HandleQueue, HttpInv
  <2>2. queue' = << >> /\ req' = req /\ heads' = heads /\ ready' \in {"ready", "broken"}
    BY <1>1 DEF Http!HandleQueue
  <2>3. \A r \in Slots : at'[r] = at[r] \/ (at[r] = "queued" /\ at'[r] \in {"route", "hung"})
    BY <2>1 DEF Http!Handled
  <2>4. at' \in [Slots -> Http!PCs]
    BY <2>1, <2>3, <1>0 DEF Http!Handled
  <2>5. HttpTypes' /\ HttpQueued'
    BY <2>2, <2>4 DEF HttpInv, HttpTypes, HttpQueued
  <2>6. HttpHandled'
    BY <2>2, <2>3 DEF HttpInv, HttpHandled
  <2>7. HttpMay'
    BY <2>2, <2>3 DEF HttpInv, HttpMay, Working
  <2>. QED BY <2>5, <2>6, <2>7 DEF HttpInv
<1>2. ASSUME NEW r \in Slots, Http!Arrive(r) PROVE HttpInv'
  <2>1. PICK m \in Http!Methods : req' = [req EXCEPT ![r].method = m]
    BY <1>2 DEF Http!Arrive
  <2>2. at[r] = "new" /\ at' = [at EXCEPT ![r] = "front"] /\ UNCHANGED <<heads, queue, ready>>
    BY <1>2 DEF Http!Arrive, Http!Goto
  <2>3. at' \in [Slots -> Http!PCs] /\ at'[r] = "front" /\ \A q \in Slots \ {r} : at'[q] = at[q]
    BY <2>2 DEF HttpInv, HttpTypes
  <2>4. /\ req' \in [Slots -> Requesting] /\ \A q \in Slots \ {r} : req'[q] = req[q]
        /\ req'[r].runs = 0 /\ (req'[r].dash => req'[r].loggedin)
    BY <1>0, <2>1, <2>2 DEF HttpInv, HttpTypes, Requesting
  <2>. QED BY <2>2, <2>3, <2>4, HttpMoves DEF Working
<1>3. ASSUME NEW r \in Slots, Http!Front(r) PROVE HttpInv'
  <2>1. at[r] = "front" /\ req' = req /\ ready' = ready /\ heads' \in {heads, heads \union {r}}
    BY <1>3 DEF Http!Front, Http!Answer
  <2>2. CASE at' = [at EXCEPT ![r] = "done"] /\ queue' = queue
    BY <1>0, <2>1, <2>2, HttpGoes DEF Working
  <2>3. CASE at' = [at EXCEPT ![r] = "route"] /\ queue' = queue
    BY <1>0, <2>1, <2>3, HttpGoes DEF Working
  <2>4. CASE at' = [at EXCEPT ![r] = "queued"] /\ queue' = Append(queue, r)
    <3>1. /\ DOMAIN queue' = DOMAIN queue \union {Len(queue) + 1} /\ Len(queue) + 1 \notin DOMAIN queue
          /\ queue'[Len(queue) + 1] = r /\ \A i \in DOMAIN queue : queue'[i] = queue[i]
          /\ queue' \in Seq(Slots)
      BY <2>4, HttpQueue DEF HttpInv, HttpTypes
    <3>2. HttpTypes'
      BY <2>1, <2>4, <3>1 DEF HttpInv, HttpTypes
    <3>3. \A i \in DOMAIN queue : queue[i] # r /\ queue[i] \in Slots /\ at[queue[i]] = "queued"
      BY <2>1, HttpQueue DEF HttpInv, HttpQueued
    <3>4. \A q \in Slots : at'[q] = IF q = r THEN "queued" ELSE at[q]
      BY <2>4 DEF HttpInv, HttpTypes
    <3>5. HttpQueued'
      BY <3>1, <3>3, <3>4 DEF HttpInv, HttpQueued
    <3>6. HttpHandled' /\ HttpMay'
      BY <1>0, <2>1, <3>4 DEF HttpInv, HttpHandled, HttpMay, Working
    <3>. QED BY <3>2, <3>5, <3>6 DEF HttpInv
  <2>. QED BY <1>3, <2>2, <2>3, <2>4 DEF Http!Front, Http!Answer, Http!Goto
<1>4. ASSUME NEW r \in Slots, Http!Route(r) PROVE HttpInv'
  <2>1. at[r] = "route" /\ queue' = queue /\ ready' = ready
    BY <1>4 DEF Http!Route
  <2>2. CASE Http!Answer(r) /\ req' = req
    BY <1>0, <2>1, <2>2, HttpGoes DEF Http!Answer, Http!Goto, Working
  <2>3. ASSUME r \notin heads, heads' = heads, NEW place \in Http!Places, NEW next \in {"dispatch", "session"},
               place = "upload" => req[r].method = "POST",
               req' = [req EXCEPT ![r].place = place], at' = [at EXCEPT ![r] = next]
        PROVE  HttpInv'
    <3>1. at' \in [Slots -> Http!PCs] /\ at'[r] = next /\ \A q \in Slots \ {r} : at'[q] = at[q]
      BY <2>3 DEF HttpInv, HttpTypes
    <3>2. /\ req' \in [Slots -> Requesting] /\ \A q \in Slots \ {r} : req'[q] = req[q]
          /\ req'[r].runs = 0 /\ (req'[r].dash => req'[r].loggedin)
          /\ req'[r].place = "upload" => req'[r].method = "POST"
      BY <1>0, <2>1, <2>3 DEF HttpInv, HttpTypes, Requesting
    <3>. QED BY <2>1, <2>3, <3>1, <3>2, HttpMoves
  <2>4. CASE ~(Http!Answer(r) /\ req' = req)
    <3>1. PICK place \in Http!Places, next \in {"dispatch", "session"} :
             /\ req' = [req EXCEPT ![r].place = place] /\ at' = [at EXCEPT ![r] = next]
             /\ place = "upload" => req[r].method = "POST"
      BY <1>4, <2>4 DEF Http!Route, Http!Goto
    <3>2. r \notin heads /\ heads' = heads
      BY <1>4, <2>4 DEF Http!Route
    <3>. QED BY <2>3, <3>1, <3>2
  <2>. QED BY <2>2, <2>4
<1>5. ASSUME NEW r \in Slots, Http!Session(r) PROVE HttpInv'
  <2>1. PICK in \in BOOLEAN, dash \in BOOLEAN :
          /\ dash => in
          /\ req' = [req EXCEPT ![r].loggedin = in, ![r].dash = dash]
    BY <1>5 DEF Http!Session
  <2>2. at[r] = "session" /\ queue' = queue /\ ready' = ready
    BY <1>5 DEF Http!Session
  <2>3. PICK next \in {"body", "dispatch", "done"} :
          /\ at' = [at EXCEPT ![r] = next]
          /\ heads' = IF next = "done" THEN heads \union {r} ELSE heads
    BY <1>5 DEF Http!Session, Http!Answer, Http!Goto
  <2>4. r \in heads => req[r].refused
    BY <2>2 DEF HttpInv, HttpHandled
  <2>5. at' \in [Slots -> Http!PCs] /\ at'[r] = next /\ \A q \in Slots \ {r} : at'[q] = at[q]
    BY <2>3 DEF HttpInv, HttpTypes
  <2>6. /\ req' \in [Slots -> Requesting] /\ \A q \in Slots \ {r} : req'[q] = req[q]
        /\ req'[r].runs = 0 /\ (req'[r].dash => req'[r].loggedin) /\ req'[r].refused = req[r].refused
        /\ req'[r].place = req[r].place /\ req'[r].method = req[r].method
    BY <1>0, <2>1, <2>2 DEF HttpInv, HttpTypes, Requesting
  <2>7. req'[r].place = "upload" => req'[r].method = "POST"
    BY <2>2, <2>6 DEF HttpInv, HttpMay, Working
  <2>. QED BY <2>2, <2>3, <2>4, <2>5, <2>6, <2>7, HttpMoves
<1>6. ASSUME NEW r \in Slots, Http!Body(r) PROVE HttpInv'
  <2>1. at[r] = "body" /\ queue' = queue /\ ready' = ready /\ (r \in heads => req[r].refused)
    BY <1>6 DEF Http!Body, HttpInv, HttpHandled
  <2>2. CASE req' = req
    <3>1. PICK next \in {"dispatch", "done", "hung"} :
             /\ at' = [at EXCEPT ![r] = next] /\ heads' \in {heads, heads \union {r}}
             /\ next = "dispatch" /\ r \in heads' => req[r].refused
      <4>1. CASE heads' = heads \union {r} /\ req' = [req EXCEPT ![r].refused = TRUE] /\ Http!Goto(r, "dispatch")
        <5>1. req'[r].refused
          BY <1>0, <4>1 DEF HttpInv, HttpTypes, Requesting
        <5>. QED BY <2>2, <4>1, <5>1 DEF Http!Goto
      <4>2. CASE ~(heads' = heads \union {r} /\ req' = [req EXCEPT ![r].refused = TRUE] /\ Http!Goto(r, "dispatch"))
        BY <1>6, <2>1, <4>2 DEF Http!Body, Http!Answer, Http!Goto
      <4>. QED BY <4>1, <4>2
    <3>. QED BY <1>0, <2>1, <2>2, <3>1, HttpGoes DEF Working
  <2>3. CASE heads' = heads \union {r} /\ req' = [req EXCEPT ![r].refused = TRUE] /\ Http!Goto(r, "dispatch")
    <3>1. at' \in [Slots -> Http!PCs] /\ at'[r] = "dispatch" /\ \A q \in Slots \ {r} : at'[q] = at[q]
      BY <2>3 DEF HttpInv, HttpTypes, Http!Goto
    <3>2. /\ req' \in [Slots -> Requesting] /\ \A q \in Slots \ {r} : req'[q] = req[q]
          /\ req'[r].runs = 0 /\ (req'[r].dash => req'[r].loggedin) /\ req'[r].refused
          /\ req'[r].place = req[r].place /\ req'[r].method = req[r].method
      BY <1>0, <2>1, <2>3 DEF HttpInv, HttpTypes, Requesting
    <3>4. req'[r].place = "upload" => req'[r].method = "POST"
      BY <2>1, <3>2 DEF HttpInv, HttpMay, Working
    <3>3. heads' \in {heads, heads \union {r}}
      BY <2>3
    <3>. QED BY <2>1, <3>1, <3>2, <3>3, <3>4, HttpMoves
  <2>. QED BY <1>6, <2>2, <2>3 DEF Http!Body
<1>7. ASSUME NEW r \in Slots, Http!Dispatch(r) PROVE HttpInv'
  <2>1. at[r] = "dispatch" /\ queue' = queue /\ ready' = ready /\ req' = req /\ (r \in heads => req[r].refused)
    BY <1>7 DEF Http!Dispatch, HttpInv, HttpHandled
  <2>2. CASE Http!Answer(r)
    BY <1>0, <2>1, <2>2, HttpGoes DEF Http!Answer, Http!Goto, Working
  <2>3. CASE Http!Handed(r) /\ Http!Goto(r, "run") /\ heads' = heads
    <3>1. req[r].place = "upload" => req[r].method = "POST"
      BY <2>1 DEF HttpInv, HttpMay, Working
    <3>2. MayRun(req[r])
      BY <1>0, <2>3, <3>1 DEF Http!Handed, Http!MayAdmin, MayRun, Requesting, Http!Methods, Http!Places
    <3>. QED BY <1>0, <2>1, <2>3, <3>2, HttpGoes DEF Http!Goto, Working
  <2>. QED BY <1>7, <2>2, <2>3 DEF Http!Dispatch
<1>8. ASSUME NEW r \in Slots, Http!Run(r) PROVE HttpInv'
  <2>1. at[r] = "run" /\ queue' = queue /\ ready' = ready /\ req' = [req EXCEPT ![r].runs = req[r].runs + 1]
    BY <1>8 DEF Http!Run
  <2>2. PICK next \in {"done", "hung"} : at' = [at EXCEPT ![r] = next] /\ heads' \in {heads, heads \union {r}}
    BY <1>8 DEF Http!Run, Http!Answer, Http!Goto
  <2>3. req[r].runs = 0 /\ MayRun(req[r])
    BY <1>0, <2>1 DEF HttpInv, HttpMay
  <2>4. at' \in [Slots -> Http!PCs] /\ at'[r] = next /\ \A q \in Slots \ {r} : at'[q] = at[q]
    BY <2>2 DEF HttpInv, HttpTypes
  <2>5. /\ req' \in [Slots -> Requesting] /\ \A q \in Slots \ {r} : req'[q] = req[q]
        /\ req'[r].runs = 1 /\ (req'[r].dash => req'[r].loggedin)
    BY <1>0, <2>1, <2>3 DEF HttpInv, HttpTypes, Requesting
  <2>6. MayRun(req'[r])
    <3>1. /\ req'[r].loggedin = req[r].loggedin /\ req'[r].place = req[r].place
          /\ req'[r].method = req[r].method
      BY <1>0, <2>1 DEF HttpInv, HttpTypes, Requesting
    <3>. QED BY <2>3, <3>1 DEF MayRun
  <2>. QED BY <2>1, <2>2, <2>4, <2>5, <2>6, HttpMoves DEF Working
<1>9. ASSUME NEW r \in Slots, Http!Timeout(r) PROVE HttpInv'
  BY <1>0, <1>9, HttpGoes DEF Http!Timeout, Http!Goto, Working
<1>. QED BY <1>1, <1>2, <1>3, <1>4, <1>5, <1>6, <1>7, <1>8, <1>9 DEF Http!Next

-----------------------------------------------------------------------------
(* Live variables *)

\* variables which called back twice
Doubled == {v \in Vars : kind[v] = "twice" /\ left[v] = 0}

LiveTypes ==
    /\ kind \in [Vars -> Live!Kinds]
    /\ left \in [Vars -> 0..3]
    /\ response \in [code : {200, 403}, sent : SUBSET {"full", "partial", "again"}]
    /\ assoc \subseteq Vars

\* a variable has a value when it called back, and each is counted as often as it did
LiveCounts ==
    /\ \A v \in Vars :
          /\ v \in assoc <=> \/ kind[v] \in {"unregistered", "once"} /\ left[v] = 0
                             \/ kind[v] = "twice" /\ left[v] \in {0, 1}
          /\ kind[v] = "unregistered" => left[v] \in {0, 3}
          /\ kind[v] = "once" => left[v] \in {0, 1, 3}
          /\ kind[v] \in {"never", "throws"} => left[v] \in {0, 3}
    /\ index = Cardinality(assoc) + Cardinality(Doubled)

LiveSent ==
    /\ "again" \notin response.sent
    /\ response.sent # {} => index >= Cardinality(Vars)
    /\ "partial" \in response.sent => \E v \in Vars : kind[v] = "twice"

LiveInv == LiveTypes /\ LiveCounts /\ LiveSent

\* the instance counts as we do
LEMMA LiveCard == Live!Cardinality(Vars) = Cardinality(Vars)
BY DEF Live!Cardinality, Cardinality

\* variables are finitely many
LEMMA LiveFinite ==
    ASSUME LiveTypes
    PROVE  /\ IsFiniteSet(assoc) /\ IsFiniteSet(Doubled)
           /\ Cardinality(assoc) \in Nat /\ Cardinality(Doubled) \in Nat /\ Cardinality(Vars) \in Nat
           /\ Cardinality(assoc) <= Cardinality(Vars) /\ Cardinality(Doubled) <= Cardinality(Vars)
<1>1. assoc \in SUBSET Vars /\ Doubled \in SUBSET Vars
  BY DEF LiveTypes, Doubled
<1>. QED BY <1>1, VarsAssumption, FS_Subset, FS_CardinalityType

\* the invariant says what is asked of live variables
LEMMA LiveProps == ASSUME LiveInv PROVE Live!TypeOK /\ Live!AnswerComplete
<1>1. index \in 0..(2 * Live!Cardinality(Vars))
  BY LiveFinite, LiveCard DEF LiveInv, LiveCounts
<1>. QED BY <1>1 DEF LiveInv, LiveTypes, LiveSent, Live!TypeOK, Live!AnswerComplete, Live!NotYet

\* no variable has called back
LEMMA LiveInit == ASSUME Live!Init PROVE LiveInv
<1>1. assoc = {} /\ Doubled = {}
  BY DEF Live!Init, Doubled, Live!NotYet
<1>2. Cardinality({}) = 0
  BY FS_EmptySet
<1>3. LiveTypes
  BY DEF Live!Init, LiveTypes, Live!NotYet
<1>4. LiveCounts
  BY <1>1, <1>2 DEF Live!Init, LiveCounts, Live!NotYet, Live!Kinds
<1>5. LiveSent
  BY DEF Live!Init, LiveSent
<1>. QED BY <1>3, <1>4, <1>5 DEF LiveInv

\* what checkForCompletion() sends, when the variables counted are those which called back
LEMMA LiveCounting ==
    ASSUME LiveInv, LiveTypes', NEW c, NEW values, Live!Count(c, values), kind' = kind,
           Cardinality(assoc') + Cardinality(Doubled') = index + 1
    PROVE  LiveSent'
<1>1. /\ index' = index + 1 /\ assoc' = values
      /\ response'.sent = IF index + 1 = Cardinality(Vars)
                          THEN response.sent \union
                                 (IF response.sent # {} THEN {"again"}
                                  ELSE IF values = Vars THEN {"full"} ELSE {"partial"})
                          ELSE response.sent
  BY LiveCard DEF Live!Count
<1>2. index \in Nat /\ Cardinality(Vars) \in Nat
  BY LiveFinite DEF LiveInv, LiveCounts
<1>3. CASE index + 1 # Cardinality(Vars)
  BY <1>1, <1>2, <1>3 DEF LiveInv, LiveSent
<1>4. CASE index + 1 = Cardinality(Vars)
  <2>1. response.sent = {}
    BY <1>2, <1>4 DEF LiveInv, LiveSent
  <2>2. CASE values = Vars
    BY <1>1, <1>2, <1>4, <2>1, <2>2 DEF LiveSent
  <2>3. CASE values # Vars
    <3>1. Cardinality(assoc') # Cardinality(Vars)
      BY <1>1, <2>3, VarsAssumption, FS_Subset DEF LiveTypes
    <3>2. Doubled' # {}
      <4>1. SUFFICES ASSUME Doubled' = {} PROVE FALSE
        OBVIOUS
      <4>2. Cardinality(Doubled') = 0
        BY <4>1, FS_EmptySet
      <4>3. Cardinality(assoc') \in Nat
        BY FS_Subset, FS_CardinalityType, VarsAssumption DEF LiveTypes
      <4>. QED BY <1>4, <3>1, <4>2, <4>3
    <3>3. \E v \in Vars : kind'[v] = "twice"
      BY <3>2 DEF Doubled
    <3>. QED BY <1>1, <1>2, <1>4, <2>1, <2>3, <3>3 DEF LiveSent
  <2>. QED BY <2>2, <2>3
<1>. QED BY <1>3, <1>4

\* a call, and each callback, keeps the invariant
LEMMA LiveStep == ASSUME LiveInv, Live!Next PROVE LiveInv'
<1>. USE DEF LiveInv
<1>1. ASSUME NEW v \in Vars, Live!LookUp(v), kind[v] = "unregistered" PROVE LiveInv'
  <2>1. /\ left' = [left EXCEPT ![v] = 0] /\ left[v] = 3 /\ assoc' = assoc \union {v} /\ kind' = kind
        /\ index' = index + 1 /\ Live!Count(403, assoc \union {v})
    BY <1>1 DEF Live!LookUp, Live!Count, Live!NotYet
  <2>2. LiveTypes'
    BY <2>1, LiveCard DEF LiveTypes, Live!Count
  <2>3. v \notin assoc /\ Doubled' = Doubled
    BY <1>1, <2>1 DEF LiveTypes, LiveCounts, Doubled
  <2>4. Cardinality(assoc') = Cardinality(assoc) + 1
    BY <2>1, <2>3, LiveFinite, FS_AddElement
  <2>5. LiveCounts'
    BY <1>1, <2>1, <2>3, <2>4, LiveFinite DEF LiveTypes, LiveCounts
  <2>6. LiveSent'
    BY <2>1, <2>2, <2>3, <2>4, LiveCounting, LiveFinite DEF LiveCounts
  <2>. QED BY <2>2, <2>5, <2>6
<1>2. ASSUME NEW v \in Vars, Live!LookUp(v), kind[v] # "unregistered" PROVE LiveInv'
  <2>1. /\ left[v] = 3 /\ kind' = kind /\ index' = index /\ response' = response /\ assoc' = assoc
        /\ left' = [left EXCEPT ![v] = IF kind[v] \in {"never", "throws"} THEN 0
                                       ELSE IF kind[v] = "once" THEN 1 ELSE 2]
    BY <1>2 DEF Live!LookUp, Live!NotYet
  <2>2. LiveTypes'
    BY <2>1 DEF LiveTypes
  <2>3. Doubled' = Doubled
    BY <1>2, <2>1 DEF LiveTypes, Doubled
  <2>4. LiveCounts'
    BY <1>2, <2>1, <2>3 DEF LiveTypes, LiveCounts, Live!Kinds
  <2>5. LiveSent'
    BY <2>1 DEF LiveSent
  <2>. QED BY <2>2, <2>4, <2>5
<1>3. ASSUME NEW v \in Vars, Live!CallBack(v) PROVE LiveInv'
  <2>1. /\ left[v] \in {1, 2} /\ left' = [left EXCEPT ![v] = left[v] - 1] /\ kind' = kind
        /\ assoc' = assoc \union {v} /\ index' = index + 1 /\ Live!Count(response.code, assoc \union {v})
    BY <1>3 DEF Live!CallBack, Live!Count
  <2>2. LiveTypes'
    <3>1. left' \in [Vars -> 0..3]
      BY <2>1 DEF LiveTypes
    <3>2. response' \in [code : {200, 403}, sent : SUBSET {"full", "partial", "again"}]
      BY <2>1, LiveCard DEF LiveTypes, Live!Count
    <3>. QED BY <2>1, <3>1, <3>2 DEF LiveTypes
  <2>3. kind[v] \in {"once", "twice"} /\ (kind[v] = "once" => left[v] = 1)
    BY <2>1 DEF LiveTypes, LiveCounts, Live!Kinds
  <2>4. Cardinality(assoc') + Cardinality(Doubled') = index + 1
    <3>1. CASE kind[v] = "twice" /\ left[v] = 1
      <4>1. v \in assoc /\ v \notin Doubled /\ Doubled' = Doubled \union {v}
        BY <2>1, <3>1 DEF LiveTypes, LiveCounts, Doubled
      <4>2. assoc' = assoc
        BY <2>1, <4>1
      <4>3. Cardinality(Doubled') = Cardinality(Doubled) + 1
        BY <4>1, LiveFinite, FS_AddElement
      <4>. QED BY <4>2, <4>3, LiveFinite DEF LiveCounts
    <3>2. CASE ~(kind[v] = "twice" /\ left[v] = 1)
      <4>1. v \notin assoc /\ Doubled' = Doubled
        BY <2>1, <2>3, <3>2 DEF LiveTypes, LiveCounts, Doubled
      <4>2. Cardinality(assoc') = Cardinality(assoc) + 1
        BY <2>1, <4>1, LiveFinite, FS_AddElement
      <4>. QED BY <4>1, <4>2, LiveFinite DEF LiveCounts
    <3>. QED BY <3>1, <3>2
  <2>5. LiveCounts'
    BY <2>1, <2>3, <2>4 DEF LiveTypes, LiveCounts
  <2>6. LiveSent'
    BY <2>1, <2>2, <2>4, LiveCounting
  <2>. QED BY <2>2, <2>5, <2>6
<1>. QED BY <1>1, <1>2, <1>3 DEF Live!Next, Live!Step

-----------------------------------------------------------------------------
(* Plugins *)

PlugJobs == [plugin : Plug!Plugins, step : Plug!Steps, request : 0..MaxJobs]

PluTypes ==
    /\ active \subseteq Plug!Plugins
    /\ registered \in [Workers -> SUBSET Found]
    /\ todo \in [Workers -> SUBSET Plug!Plugins]
    /\ jobs \in [Workers -> SUBSET PlugJobs]
    /\ served \in [Workers -> BOOLEAN]
    /\ plugPast \in [jobs : 0..MaxJobs, twice : SUBSET Plug!Plugins, again : SUBSET Plug!Plugins, crossed : SUBSET Plug!Plugins,
                     elsewhere : [Workers -> SUBSET Plug!Plugins]]

PluTodo ==
    \A w \in Workers : /\ served[w] => todo[w] = {}
                       /\ \A j \in jobs[w] : j.plugin \notin todo[w]

PluCrossed ==
    \A w, v \in Workers : \A j \in jobs[w], k \in jobs[v] :
        j.plugin = k.plugin => (w = v /\ j = k) \/ j.plugin \in plugPast.crossed

\* a worker looks for what it has not registered, and once, unless it was asked again
PluSearch ==
    \A w \in Workers : \A i, j \in jobs[w] :
        /\ j.step = "search" => j.plugin \notin registered[w] \/ j.plugin \in plugPast.again
        /\ i.step = "search" /\ j.step = "search" /\ i.plugin = j.plugin => i = j \/ j.plugin \in plugPast.again

Excused(w) == Stubborn \union plugPast.crossed \union plugPast.elsewhere[w]

PluAgree ==
    \A w \in Workers : \A p \in Plug!Plugins \ Excused(w) :
        /\ \A j \in jobs[w] : j.plugin = p =>
              /\ j.step \in {"update", "done"} => p \in registered[w]
              /\ j.step = "done" => p \in active
              /\ j.step = "unregister" => p \notin active
        /\ (\A j \in jobs[w] : j.plugin # p) =>
              IF p \in todo[w] THEN p \in active ELSE p \in registered[w] <=> p \in active \ Gone

PluInv == PluTypes /\ PluTodo /\ PluCrossed /\ PluSearch /\ PluAgree /\ Plug!RegisteredOnce

\* what a worker which is asked for p waits for
OnIt(p) == \E w \in Workers : \E j \in jobs[w] : j.plugin = p

\* what overlaps a job which begins
LEMMA PluCrossing == ASSUME NEW p PROVE Plug!Crossing(p) = IF OnIt(p) THEN {p} ELSE {}
BY DEF Plug!Crossing, OnIt

\* a job begins, on a plugin which is not in the list of the boot any more
LEMMA PluBegun ==
    ASSUME PluInv, NEW w \in Workers, NEW p \in Plug!Plugins, NEW next \in {"search", "off"}, NEW asked \in 0..MaxJobs,
           jobs' = [jobs EXCEPT ![w] = @ \union {Plug!Job(p, next, asked)}],
           next = "search" => p \notin registered[w],
           next = "search" => \A j \in jobs[w] : j.plugin = p /\ j.step = "search" => p \in plugPast'.again,
           plugPast.again \subseteq plugPast'.again,
           p \notin todo'[w], todo'[w] \subseteq todo[w], \A v \in Workers \ {w} : todo'[v] = todo[v],
           plugPast'.crossed = plugPast.crossed \union Plug!Crossing(p),
           plugPast'.elsewhere = plugPast.elsewhere, active' = active, registered' = registered,
           served' = served, \A q \in Plug!Plugins : q # p => (q \in todo'[w] <=> q \in todo[w])
    PROVE  PluTodo' /\ PluCrossed' /\ PluSearch' /\ PluAgree'
<1>. DEFINE k == Plug!Job(p, next, asked)
<1>1. k.plugin = p /\ k.step = next
  BY DEF Plug!Job
<1>. HIDE DEF k
<1>2. jobs'[w] = jobs[w] \union {k} /\ \A v \in Workers : v # w => jobs'[v] = jobs[v]
  BY DEF k, PluInv, PluTypes
<1>3. plugPast.crossed \subseteq plugPast'.crossed /\ (OnIt(p) => p \in plugPast'.crossed)
  BY PluCrossing
<1>4. \A v \in Workers : jobs[v] \subseteq jobs'[v] /\ \A j \in jobs'[v] : j \in jobs[v] \/ (v = w /\ j = k)
  BY <1>2
<1>5. PluTodo'
  <2>1. ASSUME NEW v \in Workers PROVE (served[v] => todo'[v] = {}) /\ \A j \in jobs'[v] : j.plugin \notin todo'[v]
    <3>1. CASE v = w
      BY <3>1, <1>1, <1>2 DEF PluInv, PluTodo
    <3>2. CASE v # w
      BY <3>2, <1>2 DEF PluInv, PluTodo
    <3>. QED BY <3>1, <3>2
  <2>. QED BY <2>1 DEF PluTodo
<1>6. PluCrossed'
  <2>1. ASSUME NEW v \in Workers, NEW u \in Workers, NEW i \in jobs'[v], NEW j \in jobs'[u], i.plugin = j.plugin
        PROVE  (v = u /\ i = j) \/ i.plugin \in plugPast'.crossed
    <3>1. CASE i \in jobs[v] /\ j \in jobs[u]
      BY <2>1, <3>1, <1>3 DEF PluInv, PluCrossed
    <3>2. CASE i \in jobs[v] /\ u = w /\ j = k
      BY <2>1, <3>2, <1>1, <1>3 DEF OnIt
    <3>3. CASE j \in jobs[u] /\ v = w /\ i = k
      BY <2>1, <3>3, <1>1, <1>3 DEF OnIt
    <3>. QED BY <3>1, <3>2, <3>3, <1>4
  <2>. QED BY <2>1 DEF PluCrossed
<1>7. PluSearch'
  <2>1. ASSUME NEW v \in Workers, NEW i \in jobs'[v], NEW j \in jobs'[v], j.step = "search"
        PROVE  /\ j.plugin \notin registered[v] \/ j.plugin \in plugPast'.again
               /\ i.step = "search" /\ i.plugin = j.plugin => i = j \/ j.plugin \in plugPast'.again
    <3>1. CASE i \in jobs[v] /\ j \in jobs[v]
      BY <2>1, <3>1 DEF PluInv, PluSearch
    <3>2. CASE v = w /\ j = k
      BY <2>1, <3>2, <1>1, <1>4
    <3>3. CASE v = w /\ i = k /\ j \in jobs[v]
      BY <2>1, <3>3, <1>1 DEF PluInv, PluSearch
    <3>. QED BY <3>1, <3>2, <3>3, <1>4
  <2>. QED BY <2>1 DEF PluSearch
<1>8. PluAgree'
  <2>1. ASSUME NEW v \in Workers, NEW q \in Plug!Plugins \ Excused(v)'
        PROVE  /\ \A j \in jobs'[v] : j.plugin = q =>
                     /\ j.step \in {"update", "done"} => q \in registered[v]
                     /\ j.step = "done" => q \in active
                     /\ j.step = "unregister" => q \notin active
               /\ (\A j \in jobs'[v] : j.plugin # q) =>
                     IF q \in todo'[v] THEN q \in active ELSE q \in registered[v] <=> q \in active \ Gone
    <3>1. q \in Plug!Plugins \ Excused(v)
      BY <2>1, <1>3 DEF Excused
    <3>2. \A j \in jobs'[v] : j.plugin = q =>
                     /\ j.step \in {"update", "done"} => q \in registered[v]
                     /\ j.step = "done" => q \in active
                     /\ j.step = "unregister" => q \notin active
      BY <3>1, <1>1, <1>4 DEF PluInv, PluAgree
    <3>3. ASSUME \A j \in jobs'[v] : j.plugin # q
          PROVE  IF q \in todo'[v] THEN q \in active ELSE q \in registered[v] <=> q \in active \ Gone
      <4>1. \A j \in jobs[v] : j.plugin # q
        BY <3>3, <1>4
      <4>2. q \in todo'[v] <=> q \in todo[v]
        <5>1. v = w => q # p
          BY <3>3, <1>1, <1>2
        <5>. QED BY <5>1
      <4>. QED BY <3>1, <4>1, <4>2 DEF PluInv, PluAgree
    <3>. QED BY <3>2, <3>3
  <2>. QED BY <2>1 DEF PluAgree
<1>. QED BY <1>5, <1>6, <1>7, <1>8

\* the boot registers the next plugin of the collection
LEMMA PluBootNext == ASSUME PluInv, NEW w \in Workers, Plug!BootNext(w) PROVE PluInv'
<1>1. PICK p \in todo[w] :
        /\ todo' = [todo EXCEPT ![w] = @ \ {p}]
        /\ jobs' = IF p \in registered[w] THEN jobs
                   ELSE [jobs EXCEPT ![w] = @ \union {Plug!Job(p, "search", 0)}]
        /\ plugPast' = [plugPast EXCEPT !.crossed = @ \union Plug!Crossing(p)]
  BY DEF Plug!BootNext
<1>2. active' = active /\ registered' = registered /\ served' = served
  BY DEF Plug!BootNext
<1>3. p \in Plug!Plugins
  BY DEF PluInv, PluTypes
<1>4. /\ plugPast'.crossed = plugPast.crossed \union Plug!Crossing(p)
      /\ plugPast'.elsewhere = plugPast.elsewhere /\ plugPast'.twice = plugPast.twice
      /\ plugPast'.again = plugPast.again
      /\ todo'[w] = todo[w] \ {p} /\ \A v \in Workers \ {w} : todo'[v] = todo[v]
  BY <1>1 DEF PluInv, PluTypes
<1>5. PluTypes'
  <2>1. plugPast' \in [jobs : 0..MaxJobs, twice : SUBSET Plug!Plugins, again : SUBSET Plug!Plugins, crossed : SUBSET Plug!Plugins,
                      elsewhere : [Workers -> SUBSET Plug!Plugins]]
    BY <1>1, <1>3, PluCrossing DEF PluInv, PluTypes
  <2>2. todo' \in [Workers -> SUBSET Plug!Plugins]
    BY <1>1 DEF PluInv, PluTypes
  <2>3. jobs' \in [Workers -> SUBSET PlugJobs]
    <3>1. Plug!Job(p, "search", 0) \in PlugJobs
      BY <1>3, JobsAssumption DEF Plug!Job, PlugJobs, Plug!Steps
    <3>. QED BY <1>1, <3>1 DEF PluInv, PluTypes
  <2>. QED BY <1>2, <2>1, <2>2, <2>3 DEF PluInv, PluTypes
<1>6. Plug!RegisteredOnce'
  BY <1>4 DEF PluInv, Plug!RegisteredOnce
<1>7. CASE p \in registered[w]
  <2>1. jobs' = jobs /\ plugPast.crossed \subseteq plugPast'.crossed
    BY <1>1, <1>4, <1>7
  <2>2. PluTodo' /\ PluCrossed' /\ PluSearch'
    BY <1>2, <1>4, <2>1 DEF PluInv, PluTodo, PluCrossed, PluSearch
  <2>3. PluAgree'
    <3>1. ASSUME NEW v \in Workers, NEW q \in Plug!Plugins \ Excused(v)', \A j \in jobs[v] : j.plugin # q
          PROVE  IF q \in todo'[v] THEN q \in active ELSE q \in registered[v] <=> q \in active \ Gone
      <4>1. q \in Plug!Plugins \ Excused(v)
        BY <3>1, <1>4 DEF Excused
      <4>2. IF q \in todo[v] THEN q \in active ELSE q \in registered[v] <=> q \in active \ Gone
        BY <3>1, <4>1 DEF PluInv, PluAgree
      <4>3. CASE v = w /\ q = p
        <5>1. p \notin Gone
          BY <1>7, PluginsAssumption DEF PluInv, PluTypes
        <5>. QED BY <4>2, <4>3, <5>1, <1>4, <1>7
      <4>4. CASE ~(v = w /\ q = p)
        BY <4>2, <4>4, <1>4
      <4>. QED BY <4>3, <4>4
    <3>2. \A v \in Workers : Excused(v) \subseteq Excused(v)'
      BY <1>4 DEF Excused
    <3>. QED BY <1>2, <2>1, <3>1, <3>2 DEF PluInv, PluAgree
  <2>. QED BY <1>5, <1>6, <2>2, <2>3 DEF PluInv
<1>8. CASE p \notin registered[w]
  <2>1. \A j \in jobs[w] : j.plugin # p
    BY DEF PluInv, PluTodo
  <2>2. 0 \in 0..MaxJobs
    BY JobsAssumption
  <2>3. PluTodo' /\ PluCrossed' /\ PluSearch' /\ PluAgree'
    BY <1>1, <1>2, <1>3, <1>4, <1>8, <2>1, <2>2, PluBegun
  <2>. QED BY <1>5, <1>6, <2>3 DEF PluInv
<1>. QED BY <1>7, <1>8

\* a worker is asked to register, or to unregister
LEMMA PluAsked == ASSUME PluInv, NEW w \in Workers, Plug!Register(w) \/ Plug!Unregister(w) PROVE PluInv'
<1>1. PICK p \in Found, next \in {"search", "off"} :
        /\ next = "search" => p \notin registered[w]
        /\ jobs' = [jobs EXCEPT ![w] = @ \union {Plug!Job(p, next, plugPast.jobs + 1)}]
        /\ plugPast' = [plugPast EXCEPT !.jobs = plugPast.jobs + 1,
                                        !.again = plugPast.again \union
                                                  (IF next = "search" THEN Plug!Seeking(w, p) ELSE {}),
                                        !.crossed = plugPast.crossed \union Plug!Crossing(p)]
  <2>1. registered[w] \subseteq Found
    BY DEF PluInv, PluTypes
  <2>2. CASE Plug!Register(w)
    BY <2>2 DEF Plug!Register
  <2>3. CASE Plug!Unregister(w)
    <3>1. PICK p \in registered[w] :
            /\ jobs' = [jobs EXCEPT ![w] = @ \union {Plug!Job(p, "off", plugPast.jobs + 1)}]
            /\ plugPast' = [plugPast EXCEPT !.jobs = plugPast.jobs + 1,
                                            !.crossed = plugPast.crossed \union Plug!Crossing(p)]
      BY <2>3 DEF Plug!Unregister
    <3>2. plugPast' = [plugPast EXCEPT !.jobs = plugPast.jobs + 1, !.again = plugPast.again \union {},
                                       !.crossed = plugPast.crossed \union Plug!Crossing(p)]
      BY <3>1 DEF PluInv, PluTypes
    <3>. QED BY <2>1, <3>1, <3>2
  <2>. QED BY <2>2, <2>3
<1>2. active' = active /\ registered' = registered /\ served' = served /\ todo' = todo /\ served[w] /\ plugPast.jobs < MaxJobs
  BY DEF Plug!Register, Plug!Unregister
<1>3. p \in Plug!Plugins /\ p \notin todo[w]
  BY <1>2 DEF Plug!Plugins, PluInv, PluTodo
<1>4. /\ plugPast'.crossed = plugPast.crossed \union Plug!Crossing(p)
      /\ plugPast'.elsewhere = plugPast.elsewhere /\ plugPast'.twice = plugPast.twice
      /\ plugPast'.again = plugPast.again \union (IF next = "search" THEN Plug!Seeking(w, p) ELSE {})
  BY <1>1 DEF PluInv, PluTypes
<1>4a. next = "search" => \A j \in jobs[w] : j.plugin = p /\ j.step = "search" => p \in plugPast'.again
  BY <1>4 DEF Plug!Seeking
<1>4b. plugPast.jobs + 1 \in 0..MaxJobs
  BY <1>2, JobsAssumption DEF PluInv, PluTypes
<1>5. PluTypes'
  <2>1. plugPast' \in [jobs : 0..MaxJobs, twice : SUBSET Plug!Plugins, again : SUBSET Plug!Plugins, crossed : SUBSET Plug!Plugins,
                      elsewhere : [Workers -> SUBSET Plug!Plugins]]
    <3>1. plugPast.again \union (IF next = "search" THEN Plug!Seeking(w, p) ELSE {}) \in SUBSET Plug!Plugins
      BY <1>3 DEF PluInv, PluTypes, Plug!Seeking
    <3>2. plugPast.crossed \union Plug!Crossing(p) \in SUBSET Plug!Plugins
      BY <1>3, PluCrossing DEF PluInv, PluTypes
    <3>. QED BY <1>1, <1>4b, <3>1, <3>2 DEF PluInv, PluTypes
  <2>2. jobs' \in [Workers -> SUBSET PlugJobs]
    <3>1. Plug!Job(p, next, plugPast.jobs + 1) \in PlugJobs
      BY <1>3, <1>4b DEF Plug!Job, PlugJobs, Plug!Steps
    <3>. QED BY <1>1, <3>1 DEF PluInv, PluTypes
  <2>. QED BY <1>2, <2>1, <2>2 DEF PluInv, PluTypes
<1>6. Plug!RegisteredOnce'
  BY <1>4 DEF PluInv, Plug!RegisteredOnce
<1>7. PluTodo' /\ PluCrossed' /\ PluSearch' /\ PluAgree'
  BY <1>1, <1>2, <1>3, <1>4, <1>4a, <1>4b, PluBegun
<1>. QED BY <1>5, <1>6, <1>7 DEF PluInv

\* a job goes on, or ends
LEMMA PluMoves ==
    ASSUME PluInv, NEW w \in Workers, NEW j \in jobs[w], NEW next \in Plug!Steps \ {"search"},
           NEW K \in SUBSET {Plug!Job(j.plugin, next, j.request)},
           jobs' = [jobs EXCEPT ![w] = (@ \ {j}) \union K],
           todo' = todo, served' = served, plugPast'.crossed = plugPast.crossed, plugPast'.again = plugPast.again,
           j.step = "search" \/ registered'[w] \subseteq registered[w],
           \A v \in Workers : plugPast.elsewhere[v] \subseteq plugPast'.elsewhere[v],
           \A q \in Plug!Plugins \ {j.plugin} : q \in active' <=> q \in active,
           \/ j.plugin \in active' <=> j.plugin \in active
           \/ \A v \in Workers \ {w} : j.plugin \in plugPast'.elsewhere[v],
           \A v \in Workers, q \in Plug!Plugins : (v = w /\ q = j.plugin) \/ (q \in registered'[v] <=> q \in registered[v]),
           j.plugin \notin Excused(w)' =>
               IF K = {} THEN j.plugin \in registered'[w] <=> j.plugin \in active' \ Gone
               ELSE /\ next \in {"update", "done"} => j.plugin \in registered'[w]
                    /\ next = "done" => j.plugin \in active'
                    /\ next = "unregister" => j.plugin \notin active'
    PROVE  PluTodo' /\ PluCrossed' /\ PluSearch' /\ PluAgree' /\ jobs' \in [Workers -> SUBSET PlugJobs]
<1>. DEFINE k == Plug!Job(j.plugin, next, j.request)
            p == j.plugin
<1>1. k.plugin = p /\ k.step = next
  BY DEF Plug!Job
<1>1a. j \in PlugJobs /\ k \in PlugJobs /\ p \in Plug!Plugins
  BY DEF PluInv, PluTypes, PlugJobs, Plug!Job
<1>1b. K = {} \/ K = {k}
  OBVIOUS
<1>. HIDE DEF k
<1>2. jobs'[w] = (jobs[w] \ {j}) \union K /\ \A v \in Workers : v # w => jobs'[v] = jobs[v]
  BY DEF PluInv, PluTypes
<1>3. \A v \in Workers : \A i \in jobs'[v] : (i \in jobs[v] /\ (v # w \/ i # j)) \/ (v = w /\ i = k /\ K = {k})
  BY <1>1b, <1>2
<1>4. jobs' \in [Workers -> SUBSET PlugJobs]
  BY <1>1a, <1>1b DEF PluInv, PluTypes
<1>5. PluTodo'
  <2>1. ASSUME NEW v \in Workers, NEW i \in jobs'[v] PROVE i.plugin \notin todo[v]
    BY <2>1, <1>1, <1>3 DEF PluInv, PluTodo
  <2>. QED BY <2>1 DEF PluInv, PluTodo
<1>6. PluCrossed'
  <2>1. ASSUME NEW v \in Workers, NEW u \in Workers, NEW h \in jobs'[v], NEW i \in jobs'[u], h.plugin = i.plugin
        PROVE  (v = u /\ h = i) \/ h.plugin \in plugPast.crossed
    <3>1. CASE h \in jobs[v] /\ i \in jobs[u]
      BY <2>1, <3>1 DEF PluInv, PluCrossed
    <3>2. CASE h \in jobs[v] /\ (v # w \/ h # j) /\ u = w /\ i = k
      BY <2>1, <3>2, <1>1 DEF PluInv, PluCrossed
    <3>3. CASE i \in jobs[u] /\ (u # w \/ i # j) /\ v = w /\ h = k
      BY <2>1, <3>3, <1>1 DEF PluInv, PluCrossed
    <3>4. CASE u = w /\ i = k /\ v = w /\ h = k
      BY <3>4
    <3>. QED BY <3>1, <3>2, <3>3, <3>4, <1>3
  <2>. QED BY <2>1 DEF PluCrossed
<1>7. \A v \in Workers : \A i \in jobs'[v] :
         i.plugin = p => (v = w /\ i = k /\ K = {k}) \/ p \in plugPast.crossed
  BY <1>3 DEF PluInv, PluCrossed
<1>8. PluSearch'
  <2>1. \A v \in Workers : \A i \in jobs'[v] : i.step = "search" => i \in jobs[v] /\ (v # w \/ i # j)
    BY <1>1, <1>3
  <2>2. ASSUME NEW v \in Workers, NEW i \in jobs'[v], i.step = "search"
        PROVE  i.plugin \notin registered'[v] \/ i.plugin \in plugPast.again
    <3>1. i \in jobs[v] /\ i.plugin \in Plug!Plugins /\ (v # w \/ i # j)
      BY <2>1, <2>2, <1>4 DEF PlugJobs
    <3>2. i.plugin \notin registered[v] \/ i.plugin \in plugPast.again
      BY <2>2, <3>1 DEF PluInv, PluSearch
    <3>3. CASE v = w /\ i.plugin = p /\ j.step = "search"
      BY <2>2, <3>1, <3>3 DEF PluInv, PluSearch
    <3>4. CASE v = w /\ i.plugin = p /\ j.step # "search"
      BY <3>2, <3>4
    <3>5. CASE ~(v = w /\ i.plugin = p)
      BY <3>1, <3>2, <3>5
    <3>. QED BY <3>3, <3>4, <3>5
  <2>3. ASSUME NEW v \in Workers, NEW h \in jobs'[v], NEW i \in jobs'[v],
               h.step = "search", i.step = "search", h.plugin = i.plugin
        PROVE  h = i \/ i.plugin \in plugPast.again
    BY <2>1, <2>3 DEF PluInv, PluSearch
  <2>. QED BY <2>2, <2>3 DEF PluSearch
<1>9. ASSUME NEW v \in Workers, NEW q \in Plug!Plugins \ Excused(v)'
      PROVE  /\ \A i \in jobs'[v] : i.plugin = q =>
                   /\ i.step \in {"update", "done"} => q \in registered'[v]
                   /\ i.step = "done" => q \in active'
                   /\ i.step = "unregister" => q \notin active'
             /\ (\A i \in jobs'[v] : i.plugin # q) =>
                   IF q \in todo[v] THEN q \in active' ELSE q \in registered'[v] <=> q \in active' \ Gone
  <2>1. q \in Plug!Plugins \ Excused(v) /\ q \notin plugPast.crossed
    BY <1>9 DEF Excused
  <2>2. CASE q # p
    <3>1. (q \in active' <=> q \in active) /\ (q \in registered'[v] <=> q \in registered[v])
      BY <2>2
    <3>2. \A i : i.plugin = q => (i \in jobs'[v] <=> i \in jobs[v])
      BY <2>2, <1>1, <1>1b, <1>2
    <3>3. (\A i \in jobs'[v] : i.plugin # q) => \A i \in jobs[v] : i.plugin # q
      BY <3>2
    <3>. QED BY <2>1, <3>1, <3>2, <3>3 DEF PluInv, PluAgree
  <2>3. CASE q = p /\ v = w
    <3>1. p \notin todo[w] /\ p \notin Excused(w)'
      BY <2>3, <1>9 DEF PluInv, PluTodo
    <3>2. \A i \in jobs'[w] : i.plugin = p => i = k /\ K = {k}
      BY <1>7, <2>1, <2>3
    <3>3. CASE K = {}
      BY <3>1, <3>2, <3>3, <2>3
    <3>4. CASE K = {k}
      <4>1. k \in jobs'[w]
        BY <1>2, <3>4
      <4>2. K # {}
        BY <3>4
      <4>. QED BY <3>1, <3>2, <4>1, <4>2, <2>3, <1>1
    <3>. QED BY <1>1b, <3>3, <3>4
  <2>4. CASE q = p /\ v # w
    <3>1. \A i \in jobs'[v] : i.plugin # p
      BY <1>7, <2>1, <2>4
    <3>2. \A i \in jobs[v] : i.plugin # p
      BY <3>1, <1>2, <2>4
    <3>3. p \in active' <=> p \in active
      BY <1>9, <2>4 DEF Excused
    <3>4. p \in registered'[v] <=> p \in registered[v]
      BY <1>1a, <2>4
    <3>. QED BY <2>1, <2>4, <3>1, <3>2, <3>3, <3>4 DEF PluInv, PluAgree
  <2>. QED BY <2>2, <2>3, <2>4
<1>10. PluAgree'
  BY <1>9 DEF PluAgree
<1>. QED BY <1>4, <1>5, <1>6, <1>8, <1>10

\* the plugin of a job
LEMMA PluJob ==
    ASSUME PluInv, NEW w \in Workers, NEW j \in jobs[w]
    PROVE  /\ j \in PlugJobs /\ j.plugin \in Plug!Plugins
           /\ j.plugin \notin Gone <=> j.plugin \in Found
           /\ registered[w] \subseteq Found
           /\ j.plugin \in Plug!Plugins \ Excused(w) =>
                  /\ j.step \in {"update", "done"} => j.plugin \in registered[w]
                  /\ j.step = "done" => j.plugin \in active
                  /\ j.step = "unregister" => j.plugin \notin active
<1>1. j \in PlugJobs /\ registered[w] \subseteq Found
  BY DEF PluInv, PluTypes
<1>2. j.plugin \in Plug!Plugins
  BY <1>1 DEF PlugJobs
<1>3. j.plugin \notin Gone <=> j.plugin \in Found
  BY <1>2, PluginsAssumption DEF Plug!Plugins
<1>. QED BY <1>1, <1>2, <1>3 DEF PluInv, PluAgree

\* a job looks for the plugin on the disk
LEMMA PluSearchStep == ASSUME PluInv, NEW w \in Workers, NEW j \in jobs[w], Plug!Search(w, j) PROVE PluInv'
<1>. DEFINE p == j.plugin
<1>0. p \in Plug!Plugins /\ (p \notin Gone <=> p \in Found) /\ registered[w] \subseteq Found
  BY PluJob
<1>1. j.step = "search" /\ active' = active /\ todo' = todo /\ served' = served
  BY DEF Plug!Search
<1>2. CASE p \in Found
  <2>1. /\ registered' = [registered EXCEPT ![w] = @ \union {p}]
        /\ plugPast' = [plugPast EXCEPT !.twice = IF p \in registered[w] THEN @ \union {p} ELSE @]
        /\ jobs' = [jobs EXCEPT ![w] = (@ \ {j}) \union {Plug!Job(p, "update", j.request)}]
    BY <1>2 DEF Plug!Search, Plug!Moved
  <2>2. /\ plugPast'.crossed = plugPast.crossed /\ plugPast'.elsewhere = plugPast.elsewhere
        /\ plugPast'.again = plugPast.again
        /\ plugPast'.twice \subseteq plugPast.twice \union (IF p \in registered[w] THEN {p} ELSE {})
    BY <2>1 DEF PluInv, PluTypes
  <2>3. registered'[w] = registered[w] \union {p} /\ \A v \in Workers \ {w} : registered'[v] = registered[v]
    BY <2>1 DEF PluInv, PluTypes
  <2>4. PluTodo' /\ PluCrossed' /\ PluSearch' /\ PluAgree' /\ jobs' \in [Workers -> SUBSET PlugJobs]
    <3>1. \A v \in Workers, q \in Plug!Plugins : (v = w /\ q = p) \/ (q \in registered'[v] <=> q \in registered[v])
      BY <2>3
    <3>. QED BY <1>1, <2>1, <2>2, <2>3, <3>1, PluMoves DEF Plug!Steps
  <2>5. Plug!RegisteredOnce'
    BY <1>1, <2>2 DEF PluInv, PluSearch, Plug!RegisteredOnce
  <2>6. plugPast' \in [jobs : 0..MaxJobs, twice : SUBSET Plug!Plugins, again : SUBSET Plug!Plugins, crossed : SUBSET Plug!Plugins,
                      elsewhere : [Workers -> SUBSET Plug!Plugins]]
    BY <1>0, <2>1 DEF PluInv, PluTypes
  <2>7. registered' \in [Workers -> SUBSET Found]
    BY <1>2, <2>1 DEF PluInv, PluTypes
  <2>. QED BY <1>1, <2>4, <2>5, <2>6, <2>7 DEF PluInv, PluTypes
<1>3. CASE p \notin Found
  <2>1. registered' = registered /\ plugPast' = plugPast /\ jobs' = [jobs EXCEPT ![w] = (@ \ {j}) \union {}]
    BY <1>3 DEF Plug!Search, Plug!Over
  <2>2. PluTodo' /\ PluCrossed' /\ PluSearch' /\ PluAgree' /\ jobs' \in [Workers -> SUBSET PlugJobs]
    <3>1. {} \in SUBSET {Plug!Job(j.plugin, "update", j.request)} /\ "update" \in Plug!Steps \ {"search"}
      BY DEF Plug!Steps
    <3>2. p \in registered'[w] <=> p \in active' \ Gone
      BY <1>0, <1>3, <2>1
    <3>. QED BY <1>1, <2>1, <3>1, <3>2, PluMoves
  <2>. QED BY <1>1, <2>1, <2>2 DEF PluInv, PluTypes, Plug!RegisteredOnce
<1>. QED BY <1>2, <1>3

\* the collection is updated
LEMMA PluUpdateStep == ASSUME PluInv, NEW w \in Workers, NEW j \in jobs[w], Plug!Update(w, j) PROVE PluInv'
<1>. DEFINE p == j.plugin
<1>1. /\ j.step = "update" /\ active' = active \union {p}
      /\ plugPast' = IF p \in active THEN plugPast ELSE [plugPast EXCEPT !.elsewhere = Plug!Elsewhere(w, p)]
      /\ jobs' = [jobs EXCEPT ![w] = (@ \ {j}) \union {Plug!Job(p, "done", j.request)}]
      /\ registered' = registered /\ todo' = todo /\ served' = served
  BY DEF Plug!Update, Plug!Moved
<1>2. p \in Plug!Plugins
  BY PluJob
<1>3. Plug!Elsewhere(w, p) \in [Workers -> SUBSET Plug!Plugins]
  BY <1>2 DEF Plug!Elsewhere, PluInv, PluTypes
<1>4. plugPast' \in [jobs : 0..MaxJobs, twice : SUBSET Plug!Plugins, again : SUBSET Plug!Plugins, crossed : SUBSET Plug!Plugins,
                      elsewhere : [Workers -> SUBSET Plug!Plugins]]
  BY <1>1, <1>3 DEF PluInv, PluTypes
<1>5. /\ plugPast'.crossed = plugPast.crossed /\ plugPast'.twice = plugPast.twice
      /\ plugPast'.again = plugPast.again
      /\ \A v \in Workers : plugPast.elsewhere[v] \subseteq plugPast'.elsewhere[v]
      /\ p \in active \/ \A v \in Workers \ {w} : p \in plugPast'.elsewhere[v]
  BY <1>1 DEF PluInv, PluTypes, Plug!Elsewhere
<1>6. p \notin Excused(w)' => p \in registered'[w]
  BY <1>1, <1>2, <1>5, PluJob DEF Excused
<1>7. PluTodo' /\ PluCrossed' /\ PluSearch' /\ PluAgree' /\ jobs' \in [Workers -> SUBSET PlugJobs]
  BY <1>1, <1>5, <1>6, PluMoves DEF Plug!Steps
<1>. QED BY <1>1, <1>2, <1>4, <1>5, <1>7 DEF PluInv, PluTypes, Plug!RegisteredOnce

\* a job which has registered ends
LEMMA PluRegisteredStep ==
    ASSUME PluInv, NEW w \in Workers, NEW j \in jobs[w], Plug!Registered(w, j)
    PROVE  PluInv'
<1>1. /\ j.step = "done" /\ jobs' = [jobs EXCEPT ![w] = (@ \ {j}) \union {}]
      /\ active' = active /\ registered' = registered /\ todo' = todo /\ served' = served /\ plugPast' = plugPast
  BY DEF Plug!Registered, Plug!Over
<1>2. j.plugin \notin Excused(w)' => (j.plugin \in registered'[w] <=> j.plugin \in active' \ Gone)
  BY <1>1, PluJob DEF Excused
<1>3. PluTodo' /\ PluCrossed' /\ PluSearch' /\ PluAgree' /\ jobs' \in [Workers -> SUBSET PlugJobs]
  <2>1. {} \in SUBSET {Plug!Job(j.plugin, "update", j.request)} /\ "update" \in Plug!Steps \ {"search"}
    BY DEF Plug!Steps
  <2>. QED BY <1>1, <1>2, <2>1, PluMoves
<1>. QED BY <1>1, <1>3 DEF PluInv, PluTypes, Plug!RegisteredOnce

\* the collection is updated by who unregisters
LEMMA PluOffStep == ASSUME PluInv, NEW w \in Workers, NEW j \in jobs[w], Plug!Off(w, j) PROVE PluInv'
<1>. DEFINE p == j.plugin
<1>1. /\ j.step = "off" /\ active' = active \ {p}
      /\ plugPast' = [plugPast EXCEPT !.elsewhere = Plug!Elsewhere(w, p)]
      /\ jobs' = [jobs EXCEPT ![w] = (@ \ {j}) \union {Plug!Job(p, "unregister", j.request)}]
      /\ registered' = registered /\ todo' = todo /\ served' = served
  BY DEF Plug!Off, Plug!Moved
<1>2. p \in Plug!Plugins
  BY PluJob
<1>3. Plug!Elsewhere(w, p) \in [Workers -> SUBSET Plug!Plugins]
  BY <1>2 DEF Plug!Elsewhere, PluInv, PluTypes
<1>4. plugPast' \in [jobs : 0..MaxJobs, twice : SUBSET Plug!Plugins, again : SUBSET Plug!Plugins, crossed : SUBSET Plug!Plugins,
                      elsewhere : [Workers -> SUBSET Plug!Plugins]]
  BY <1>1, <1>3 DEF PluInv, PluTypes
<1>5. /\ plugPast'.crossed = plugPast.crossed /\ plugPast'.twice = plugPast.twice
      /\ plugPast'.again = plugPast.again
      /\ \A v \in Workers : plugPast.elsewhere[v] \subseteq plugPast'.elsewhere[v]
      /\ \A v \in Workers \ {w} : p \in plugPast'.elsewhere[v]
  BY <1>1 DEF PluInv, PluTypes, Plug!Elsewhere
<1>6. PluTodo' /\ PluCrossed' /\ PluSearch' /\ PluAgree' /\ jobs' \in [Workers -> SUBSET PlugJobs]
  BY <1>1, <1>5, PluMoves DEF Plug!Steps
<1>7. active' \subseteq Plug!Plugins
  BY <1>1 DEF PluInv, PluTypes
<1>. QED BY <1>1, <1>4, <1>5, <1>6, <1>7 DEF PluInv, PluTypes, Plug!RegisteredOnce

\* and the plugin goes
LEMMA PluUnregisteredStep ==
    ASSUME PluInv, NEW w \in Workers, NEW j \in jobs[w], Plug!Unregistered(w, j)
    PROVE  PluInv'
<1>. DEFINE p == j.plugin
<1>1. /\ j.step = "unregister" /\ jobs' = [jobs EXCEPT ![w] = (@ \ {j}) \union {}]
      /\ registered' = [registered EXCEPT ![w] = IF p \in Stubborn THEN @ ELSE @ \ {p}]
      /\ active' = active /\ todo' = todo /\ served' = served /\ plugPast' = plugPast
  BY DEF Plug!Unregistered, Plug!Over
<1>2. /\ registered' \in [Workers -> SUBSET Found]
      /\ registered'[w] = (IF p \in Stubborn THEN registered[w] ELSE registered[w] \ {p})
      /\ \A v \in Workers \ {w} : registered'[v] = registered[v]
  BY <1>1 DEF PluInv, PluTypes
<1>3. \A v \in Workers, q \in Plug!Plugins : (v = w /\ q = p) \/ (q \in registered'[v] <=> q \in registered[v])
  BY <1>2
<1>4. p \notin Excused(w)' => (p \in registered'[w] <=> p \in active' \ Gone)
  <2>1. ASSUME p \notin Excused(w)' PROVE p \notin registered'[w] /\ p \notin active'
    BY <2>1, <1>1, <1>2, PluJob DEF Excused
  <2>. QED BY <2>1
<1>5. PluTodo' /\ PluCrossed' /\ PluSearch' /\ PluAgree' /\ jobs' \in [Workers -> SUBSET PlugJobs]
  <2>1. {} \in SUBSET {Plug!Job(j.plugin, "update", j.request)} /\ "update" \in Plug!Steps \ {"search"}
    BY DEF Plug!Steps
  <2>2. registered'[w] \subseteq registered[w]
    BY <1>2
  <2>3. /\ jobs' = [jobs EXCEPT ![w] = (@ \ {j}) \union {}]
        /\ active' = active /\ todo' = todo /\ served' = served /\ plugPast' = plugPast
    BY <1>1
  <2>. QED BY <1>3, <1>4, <2>1, <2>2, <2>3, PluMoves
<1>. QED BY <1>1, <1>2, <1>5 DEF PluInv, PluTypes, Plug!RegisteredOnce

\* a worker dies and boots once more
LEMMA PluCrashStep == ASSUME PluInv, NEW w \in Workers, Plug!Crash(w) PROVE PluInv'
<1>1. /\ registered' = [registered EXCEPT ![w] = {}] /\ todo' = [todo EXCEPT ![w] = active]
      /\ jobs' = [jobs EXCEPT ![w] = {}] /\ served' = [served EXCEPT ![w] = FALSE]
      /\ plugPast' = [plugPast EXCEPT !.jobs = @ + 1, !.crossed = @ \union {j.plugin : j \in jobs[w]}, !.elsewhere[w] = {}]
      /\ active' = active /\ plugPast.jobs < MaxJobs
  BY DEF Plug!Crash
<1>2. /\ registered'[w] = {} /\ todo'[w] = active /\ jobs'[w] = {} /\ served'[w] = FALSE
      /\ \A v \in Workers \ {w} : /\ registered'[v] = registered[v] /\ todo'[v] = todo[v] /\ jobs'[v] = jobs[v]
                                  /\ served'[v] = served[v] /\ plugPast'.elsewhere[v] = plugPast.elsewhere[v]
      /\ plugPast.crossed \subseteq plugPast'.crossed /\ plugPast'.twice = plugPast.twice
      /\ plugPast'.again = plugPast.again
  BY <1>1 DEF PluInv, PluTypes
<1>3. PluTypes'
  <2>1. {j.plugin : j \in jobs[w]} \subseteq Plug!Plugins
    BY PluJob
  <2>2. plugPast.jobs + 1 \in 0..MaxJobs
    BY <1>1, JobsAssumption DEF PluInv, PluTypes
  <2>3. [plugPast.elsewhere EXCEPT ![w] = {}] \in [Workers -> SUBSET Plug!Plugins]
    BY DEF PluInv, PluTypes
  <2>4. plugPast' \in [jobs : 0..MaxJobs, twice : SUBSET Plug!Plugins, again : SUBSET Plug!Plugins, crossed : SUBSET Plug!Plugins,
                      elsewhere : [Workers -> SUBSET Plug!Plugins]]
    <3>1. plugPast' = [plugPast EXCEPT !.jobs = plugPast.jobs + 1, !.crossed = plugPast.crossed \union {j.plugin : j \in jobs[w]},
                                       !.elsewhere = [plugPast.elsewhere EXCEPT ![w] = {}]]
      BY <1>1 DEF PluInv, PluTypes
    <3>. QED BY <2>1, <2>2, <2>3, <3>1 DEF PluInv, PluTypes
  <2>5. registered' \in [Workers -> SUBSET Found] /\ todo' \in [Workers -> SUBSET Plug!Plugins]
    BY <1>1 DEF PluInv, PluTypes
  <2>6. jobs' \in [Workers -> SUBSET PlugJobs] /\ served' \in [Workers -> BOOLEAN]
    BY <1>1 DEF PluInv, PluTypes
  <2>. QED BY <1>1, <2>4, <2>5, <2>6 DEF PluInv, PluTypes
<1>4. PluTodo'
  <2>1. ASSUME NEW v \in Workers PROVE (served'[v] => todo'[v] = {}) /\ \A j \in jobs'[v] : j.plugin \notin todo'[v]
    <3>1. CASE v = w
      BY <3>1, <1>2
    <3>2. CASE v # w
      BY <3>2, <1>2 DEF PluInv, PluTodo
    <3>. QED BY <3>1, <3>2
  <2>. QED BY <2>1 DEF PluTodo
<1>5. \A v \in Workers : jobs'[v] \subseteq jobs[v] /\ (jobs'[v] # {} => registered'[v] = registered[v])
  BY <1>2
<1>6. PluCrossed' /\ PluSearch'
  BY <1>2, <1>5 DEF PluInv, PluCrossed, PluSearch
<1>7. PluAgree'
  <2>1. ASSUME NEW v \in Workers, NEW q \in Plug!Plugins \ Excused(v)'
        PROVE  /\ \A j \in jobs'[v] : j.plugin = q =>
                     /\ j.step \in {"update", "done"} => q \in registered'[v]
                     /\ j.step = "done" => q \in active
                     /\ j.step = "unregister" => q \notin active
               /\ (\A j \in jobs'[v] : j.plugin # q) =>
                     IF q \in todo'[v] THEN q \in active ELSE q \in registered'[v] <=> q \in active \ Gone
    <3>1. CASE v = w
      BY <3>1, <1>2
    <3>2. CASE v # w
      <4>1. q \in Plug!Plugins \ Excused(v)
        BY <2>1, <3>2, <1>2 DEF Excused
      <4>. QED BY <3>2, <4>1, <1>2 DEF PluInv, PluAgree
    <3>. QED BY <3>1, <3>2
  <2>. QED BY <1>1, <2>1 DEF PluAgree
<1>. QED BY <1>2, <1>3, <1>4, <1>6, <1>7 DEF PluInv, Plug!RegisteredOnce

\* the boot ends
LEMMA PluServeStep == ASSUME PluInv, NEW w \in Workers, Plug!Serve(w) PROVE PluInv'
<1>1. /\ todo[w] = {} /\ served' = [served EXCEPT ![w] = TRUE]
      /\ active' = active /\ registered' = registered /\ todo' = todo /\ jobs' = jobs /\ plugPast' = plugPast
  BY DEF Plug!Serve
<1>2. served' \in [Workers -> BOOLEAN] /\ \A v \in Workers : served'[v] => v = w \/ served[v]
  BY <1>1 DEF PluInv, PluTypes
<1>3. PluTypes' /\ PluTodo'
  BY <1>1, <1>2 DEF PluInv, PluTypes, PluTodo
<1>4. PluCrossed' /\ PluSearch' /\ PluAgree'
  BY <1>1 DEF PluInv, PluCrossed, PluSearch, PluAgree, Excused
<1>. QED BY <1>1, <1>3, <1>4 DEF PluInv, Plug!RegisteredOnce

\* all workers boot
LEMMA PluInit == ASSUME Plug!Init PROVE PluInv
<1>1. PluTypes
  BY JobsAssumption DEF Plug!Init, PluTypes
<1>2. \A w \in Workers : jobs[w] = {} /\ registered[w] = {} /\ todo[w] = active /\ served[w] = FALSE
  BY DEF Plug!Init
<1>3. plugPast.twice = {}
  BY DEF Plug!Init
<1>. QED BY <1>1, <1>2, <1>3 DEF PluInv, PluTodo, PluCrossed, PluSearch, PluAgree, Plug!RegisteredOnce

\* every step of plugins keeps the invariant
LEMMA PluStep == ASSUME PluInv, Plug!Next PROVE PluInv'
<1>1. PICK w \in Workers : \/ Plug!Boot(w) \/ Plug!Register(w) \/ Plug!Unregister(w) \/ Plug!Crash(w)
                           \/ \E j \in jobs[w] : Plug!Off(w, j) \/ Plug!Unregistered(w, j)
  BY DEF Plug!Next
<1>2. CASE Plug!Boot(w)
  BY <1>2, PluBootNext, PluServeStep, PluSearchStep, PluUpdateStep, PluRegisteredStep DEF Plug!Boot
<1>3. CASE Plug!Register(w) \/ Plug!Unregister(w) \/ Plug!Crash(w)
  BY <1>3, PluAsked, PluCrashStep
<1>4. CASE \E j \in jobs[w] : Plug!Off(w, j) \/ Plug!Unregistered(w, j)
  BY <1>4, PluOffStep, PluUnregisteredStep
<1>. QED BY <1>1, <1>2, <1>3, <1>4

\* the invariant says what is asked of plugins
LEMMA PluProps == ASSUME PluInv PROVE Plug!TypeOK /\ Plug!RegisteredIsActive /\ Plug!RegisteredOnce
<1>1. Plug!TypeOK
  BY DEF PluInv, PluTypes, Plug!TypeOK, PlugJobs
<1>2. ASSUME NEW w \in Workers, Plug!Settled(w), NEW p \in Plug!SymDiff(registered[w], active \ Gone), p \notin Excused(w)
      PROVE  FALSE
  <2>1. p \in Plug!Plugins /\ ~(p \in registered[w] <=> p \in active \ Gone)
    BY <1>2 DEF Plug!SymDiff, PluInv, PluTypes, Plug!Plugins
  <2>2. p \notin Gone
    BY <2>1, PluginsAssumption DEF PluInv, PluTypes
  <2>3. todo[w] = {} /\ \A j \in jobs[w] : j.step = "done"
    BY <1>2 DEF Plug!Settled
  <2>. QED BY <1>2, <2>1, <2>2, <2>3 DEF PluInv, PluAgree
<1>3. Plug!RegisteredIsActive
  BY <1>2 DEF Plug!RegisteredIsActive, Excused
<1>. QED BY <1>1, <1>3 DEF PluInv

-----------------------------------------------------------------------------
(* Uploads *)

Named == {u \in Images : up[u].step # "none"}
Written(u) == up[u].step \in {"closed", "resizing", "measured", "answered", "refused"}
Inserted(u) == up[u].step \in {"answered", "refused"}

UplTypes ==
    /\ clock \in 0..MaxClock
    /\ counter \in [Upl!Handlers -> Nat]
    /\ up \in [Images -> [step : Upl!Steps, name : Upl!FileNames, read : SUBSET Images, left : SUBSET Sizes, ok : BOOLEAN]]
    /\ files \in [Upl!FileNames -> SUBSET Images]
    /\ sized \in [Upl!FileNames \X Sizes -> SUBSET Images]
    /\ rows \subseteq Images
    /\ deletion \in [Images -> [left : SUBSET Sizes, row : BOOLEAN]]
    /\ upPast \in [shared : SUBSET Upl!FileNames, unwritten : SUBSET (Images \X Sizes), deleted : SUBSET Images]

\* a worker has made one name at most for each upload which has one
UplCounted == \A w \in Upl!Handlers : counter[w] <= Cardinality(Named)

UplNames == \A u, v \in Named : up[u].name = up[v].name => u = v \/ up[u].name \in upPast.shared

\* how far an upload is, and whether it is in the collection
RowFine(u) ==
    /\ u \in rows \union upPast.deleted <=> Inserted(u)
    /\ deletion[u].row \/ deletion[u].left # {} => u \in upPast.deleted
    /\ up[u].step \in {"none", "named", "open", "closed"} => up[u].left = Sizes
    /\ up[u].step \in {"measured", "answered", "refused"} => up[u].left = {}

\* what an upload without a namesake has in its file, what was read of it, and what is in its sizes
FilesFine(u) ==
    /\ files[up[u].name] \subseteq {u}
    /\ Written(u) => files[up[u].name] = {u}
    /\ up[u].step = "resizing" => up[u].read = {u}
    /\ u \notin upPast.deleted /\ up[u].step \in {"resizing", "measured", "answered", "refused"} =>
          \A s \in Sizes \ up[u].left : <<u, s>> \in upPast.unwritten \/ sized[<<up[u].name, s>>] = {u}
    /\ u \in upPast.deleted /\ up[u].ok =>
          \A s \in Sizes \ deletion[u].left : sized[<<up[u].name, s>>] = {}

UplRows == \A u \in Images : RowFine(u)
UplFiles == \A u \in Named : Upl!Alone(u) => FilesFine(u)

UplInv == UplTypes /\ UplCounted /\ UplNames /\ UplRows /\ UplFiles /\ Upl!NoStrayFile

Upload == [step : Upl!Steps, name : Upl!FileNames, read : SUBSET Images, left : SUBSET Sizes, ok : BOOLEAN]

\* the instance counts as we do
LEMMA UplCard == ASSUME NEW S PROVE Upl!Cardinality(S) = Cardinality(S)
BY DEF Upl!Cardinality, Cardinality

\* an upload accounts for a file of its name
OwnsFile(u) == u \in rows \union upPast.deleted \/ Upl!Going(u) \/ up[u].step \in {"aborted", "dead"}

\* a step of one upload disturbs no other, but one of the same name
LEMMA UplOfOne ==
    ASSUME UplInv, UplTypes', NEW u \in Named, up'[u].step # "none", up'[u].name = up[u].name,
           \A v \in Images : v # u => up'[v] = up[v],
           counter' = counter, upPast'.shared = upPast.shared, upPast.unwritten \subseteq upPast'.unwritten,
           \A n \in Upl!FileNames \ {up[u].name} :
               files'[n] = files[n] /\ \A s \in Sizes : sized'[<<n, s>>] = sized[<<n, s>>],
           \A v \in Images : v # u => /\ v \in rows' <=> v \in rows
                                      /\ v \in upPast'.deleted <=> v \in upPast.deleted
                                      /\ deletion'[v] = deletion[v],
           OwnsFile(u)', RowFine(u)', Upl!Alone(u) => FilesFine(u)'
    PROVE  UplInv'
<1>1. Named' = Named
  BY DEF Named
<1>2. \A v \in Images : up'[v].name = up[v].name
  BY DEF Named
<1>3. \A v \in Images : up[v].name \in Upl!FileNames
  BY DEF UplInv, UplTypes
<1>4. UplCounted'
  BY <1>1 DEF UplInv, UplCounted
<1>5. UplNames'
  BY <1>1, <1>2 DEF UplInv, UplNames, Named
<1>6. UplRows'
  <2>1. ASSUME NEW v \in Images, v # u PROVE RowFine(v)'
    BY <2>1 DEF UplInv, UplRows, RowFine, Inserted
  <2>. QED BY <2>1 DEF UplRows
<1>7. UplFiles'
  <2>1. ASSUME NEW v \in Named, v # u, Upl!Alone(v)' PROVE FilesFine(v)'
    <3>1. v \in Images /\ Upl!Alone(v)
      BY <2>1, <1>2 DEF Named, Upl!Alone
    <3>2. up[v].name \in Upl!FileNames \ {up[u].name}
      BY <2>1, <3>1, <1>3 DEF UplInv, UplNames, Upl!Alone
    <3>3. FilesFine(v)
      BY <2>1, <3>1 DEF UplInv, UplFiles
    <3>4. /\ up'[v] = up[v] /\ files'[up[v].name] = files[up[v].name]
          /\ \A s \in Sizes : sized'[<<up[v].name, s>>] = sized[<<up[v].name, s>>]
          /\ deletion'[v] = deletion[v] /\ (v \in upPast'.deleted <=> v \in upPast.deleted)
      BY <2>1, <3>1, <3>2
    <3>. QED BY <3>3, <3>4 DEF FilesFine, Written
  <2>2. Upl!Alone(u)' => Upl!Alone(u)
    BY DEF Upl!Alone
  <2>. QED BY <1>1, <2>1, <2>2 DEF UplFiles
<1>8. Upl!NoStrayFile'
  <2>1. ASSUME NEW n \in Upl!FileNames, files'[n] # {}
        PROVE  \E v \in Images : up'[v].name = n /\ up'[v].step # "none" /\ OwnsFile(v)'
    <3>1. CASE n = up[u].name
      BY <3>1 DEF Named
    <3>2. CASE n # up[u].name
      <4>1. PICK v \in Images : up[v].name = n /\ up[v].step # "none" /\ OwnsFile(v)
        BY <2>1, <3>2 DEF UplInv, Upl!NoStrayFile, OwnsFile
      <4>2. v # u /\ up'[v] = up[v]
        BY <3>2, <4>1
      <4>. QED BY <4>1, <4>2 DEF OwnsFile, Upl!Going
    <3>. QED BY <3>1, <3>2
  <2>. QED BY <2>1 DEF Upl!NoStrayFile, OwnsFile
<1>. QED BY <1>4, <1>5, <1>6, <1>7, <1>8 DEF UplInv

\* time passes
LEMMA UplTick == ASSUME UplInv, Upl!Tick PROVE UplInv'
<1>1. /\ clock < MaxClock /\ clock' = clock + 1
      /\ counter' = counter /\ up' = up /\ files' = files /\ sized' = sized /\ rows' = rows
      /\ deletion' = deletion /\ upPast' = upPast
  BY DEF Upl!Tick
<1>2. clock' \in 0..MaxClock
  BY <1>1, ClockAssumption DEF UplInv, UplTypes
<1>3. UplTypes' /\ UplCounted' /\ UplNames'
  BY <1>1, <1>2 DEF UplInv, UplTypes, UplCounted, UplNames, Named
<1>4. UplRows' /\ UplFiles' /\ Upl!NoStrayFile'
  BY <1>1 DEF UplInv, UplRows, UplFiles, RowFine, FilesFine, Inserted, Written, Named, Upl!Alone, Upl!NoStrayFile, Upl!Going
<1>. QED BY <1>3, <1>4 DEF UplInv

\* a name is made: its number is below what the worker has named, and a name which is there is shared
LEMMA UplName == ASSUME UplInv, NEW u \in Images, Upl!Name(u) PROVE UplInv'
<1>. DEFINE w == WorkerOf[u]
            n == <<clock, counter[w]>>
            e == [up[u] EXCEPT !.step = "named", !.name = n]
<1>1. /\ up[u].step = "none" /\ counter' = [counter EXCEPT ![w] = @ + 1]
      /\ up' = [up EXCEPT ![u].step = "named", ![u].name = n]
      /\ upPast' = IF \E v \in Images : up[v].step # "none" /\ up[v].name = n
                   THEN [upPast EXCEPT !.shared = @ \union {n}] ELSE upPast
      /\ clock' = clock /\ files' = files /\ sized' = sized /\ rows' = rows /\ deletion' = deletion
  BY DEF Upl!Name
<1>2. w \in Upl!Handlers /\ counter[w] \in Nat
  BY DEF Upl!Handlers, UplInv, UplTypes
<1>3. /\ IsFiniteSet(Named) /\ Cardinality(Named) \in Nat /\ Cardinality(Images) \in Nat
      /\ Cardinality(Named) + 1 <= Cardinality(Images)
      /\ Cardinality(Named \union {u}) = Cardinality(Named) + 1
  <2>1. Named \subseteq Images /\ u \notin Named
    BY <1>1 DEF Named
  <2>2. IsFiniteSet(Named) /\ Cardinality(Named) \in Nat /\ Cardinality(Images) \in Nat
    BY <2>1, ImagesAssumption, FS_Subset, FS_CardinalityType
  <2>3. Cardinality(Named \union {u}) = Cardinality(Named) + 1
    BY <2>1, <2>2, FS_AddElement
  <2>4. Named \union {u} \in SUBSET Images
    BY <2>1
  <2>5. Cardinality(Named \union {u}) <= Cardinality(Images)
    BY <2>4, ImagesAssumption, FS_Subset
  <2>. QED BY <2>2, <2>3, <2>5
<1>4. n \in Upl!FileNames
  <2>1. counter[w] <= Cardinality(Named)
    BY <1>2 DEF UplInv, UplCounted
  <2>2. counter[w] \in 0..Upl!Cardinality(Images)
    BY <1>2, <1>3, <2>1, UplCard
  <2>. QED BY <2>2 DEF Upl!FileNames, UplInv, UplTypes
<1>5. e \in Upload /\ e.step = "named" /\ e.name = n /\ e.left = up[u].left
  <2>1. up[u] \in Upload /\ "named" \in Upl!Steps
    BY DEF UplInv, UplTypes, Upload, Upl!Steps
  <2>. QED BY <1>4, <2>1 DEF Upload
<1>6. up' = [up EXCEPT ![u] = e]
  BY <1>1 DEF UplInv, UplTypes
<1>. HIDE DEF e
<1>7. up'[u] = e /\ \A v \in Images : v # u => up'[v] = up[v]
  BY <1>6 DEF UplInv, UplTypes
<1>8. Named' = Named \union {u} /\ u \notin Named
  BY <1>1, <1>5, <1>7 DEF Named
<1>9. /\ upPast.shared \subseteq upPast'.shared /\ upPast'.deleted = upPast.deleted /\ upPast'.unwritten = upPast.unwritten
      /\ \A v \in Named : up[v].name = n => n \in upPast'.shared
  BY <1>1 DEF UplInv, UplTypes, Named
<1>10. UplTypes'
  <2>1. upPast' \in [shared : SUBSET Upl!FileNames, unwritten : SUBSET (Images \X Sizes), deleted : SUBSET Images]
    BY <1>1, <1>4 DEF UplInv, UplTypes
  <2>2. up' \in [Images -> Upload]
    BY <1>5, <1>6 DEF UplInv, UplTypes, Upload
  <2>3. counter' \in [Upl!Handlers -> Nat]
    BY <1>1, <1>2 DEF UplInv, UplTypes
  <2>. QED BY <1>1, <2>1, <2>2, <2>3 DEF UplInv, UplTypes, Upload
<1>11. UplCounted'
  <2>1. ASSUME NEW v \in Upl!Handlers PROVE counter'[v] <= Cardinality(Named')
    <3>1. counter[v] <= Cardinality(Named) /\ counter[v] \in Nat
      BY DEF UplInv, UplTypes, UplCounted
    <3>2. counter'[v] = counter[v] \/ counter'[v] = counter[v] + 1
      BY <1>1 DEF UplInv, UplTypes
    <3>. QED BY <1>3, <1>8, <3>1, <3>2
  <2>. QED BY <2>1 DEF UplCounted
<1>12. UplNames'
  <2>1. ASSUME NEW v \in Named', NEW x \in Named', up'[v].name = up'[x].name, v # x
        PROVE  up'[v].name \in upPast'.shared
    <3>0. v \in Images /\ x \in Images
      BY <2>1 DEF Named
    <3>1. CASE v # u /\ x # u
      BY <2>1, <3>0, <3>1, <1>7, <1>8, <1>9 DEF UplInv, UplNames
    <3>2. CASE v = u
      BY <2>1, <3>0, <3>2, <1>5, <1>7, <1>8, <1>9
    <3>3. CASE x = u
      BY <2>1, <3>0, <3>3, <1>5, <1>7, <1>8, <1>9
    <3>. QED BY <3>1, <3>2, <3>3
  <2>. QED BY <2>1 DEF UplNames
<1>13. UplRows'
  <2>1. ASSUME NEW v \in Images PROVE RowFine(v)'
    <3>1. CASE v = u
      BY <3>1, <1>1, <1>5, <1>7, <1>9 DEF UplInv, UplRows, RowFine, Inserted
    <3>2. CASE v # u
      BY <3>2, <1>1, <1>7, <1>9 DEF UplInv, UplRows, RowFine, Inserted
    <3>. QED BY <3>1, <3>2
  <2>. QED BY <2>1 DEF UplRows
<1>14. UplFiles'
  <2>1. ASSUME NEW v \in Named', Upl!Alone(v)' PROVE FilesFine(v)'
    <3>1. CASE v = u
      <4>1. files[n] = {}
        <5>1. ~\E x \in Named : up[x].name = n
          BY <2>1, <3>1, <1>5, <1>7, <1>9 DEF Upl!Alone
        <5>. QED BY <5>1, <1>4 DEF UplInv, Upl!NoStrayFile, Named
      <4>2. u \notin upPast.deleted
        BY <1>1 DEF UplInv, UplRows, RowFine, Inserted
      <4>. QED BY <3>1, <4>1, <4>2, <1>1, <1>5, <1>7, <1>9 DEF FilesFine, Written
    <3>2. CASE v # u
      <4>1. v \in Named /\ v \in Images /\ Upl!Alone(v) /\ up'[v] = up[v]
        BY <2>1, <3>2, <1>7, <1>8, <1>9 DEF Upl!Alone, Named
      <4>. QED BY <4>1, <1>1, <1>9 DEF UplInv, UplFiles, FilesFine, Written
    <3>. QED BY <3>1, <3>2
  <2>. QED BY <2>1 DEF UplFiles
<1>15. Upl!NoStrayFile'
  <2>1. ASSUME NEW m \in Upl!FileNames, files[m] # {}
        PROVE  \E v \in Images : up'[v].name = m /\ up'[v].step # "none" /\ OwnsFile(v)'
    <3>1. PICK v \in Images : up[v].name = m /\ up[v].step # "none" /\ OwnsFile(v)
      BY <2>1 DEF UplInv, Upl!NoStrayFile, OwnsFile
    <3>2. v # u /\ up'[v] = up[v]
      BY <3>1, <1>1, <1>7
    <3>. QED BY <3>1, <3>2, <1>1, <1>9 DEF OwnsFile, Upl!Going
  <2>. QED BY <1>1, <2>1 DEF Upl!NoStrayFile, OwnsFile
<1>. QED BY <1>10, <1>11, <1>12, <1>13, <1>14, <1>15 DEF UplInv

\* the record of an upload is replaced
LEMMA UplReplaced ==
    ASSUME UplInv, NEW u \in Images, NEW e \in Upload, up' = [up EXCEPT ![u] = e]
    PROVE  up' \in [Images -> Upload] /\ up'[u] = e /\ \A v \in Images : v # u => up'[v] = up[v]
BY DEF UplInv, UplTypes, Upload

\* what the invariant says of one upload
LEMMA UplOne ==
    ASSUME UplInv, NEW u \in Images
    PROVE  /\ up[u] \in Upload /\ up[u].name \in Upl!FileNames /\ RowFine(u)
           /\ up[u].step # "none" => u \in Named
           /\ u \in Named => u \in Images /\ up[u].step # "none"
           /\ u \in Named /\ Upl!Alone(u) => FilesFine(u)
BY DEF UplInv, UplTypes, UplRows, UplFiles, Upload, Named

\* the file is truncated
LEMMA UplOpen == ASSUME UplInv, NEW u \in Images, Upl!Open(u) PROVE UplInv'
<1>. DEFINE e == [up[u] EXCEPT !.step = "open"]
<1>1. /\ up[u].step = "named" /\ up' = [up EXCEPT ![u] = e] /\ files' = [files EXCEPT ![up[u].name] = {}]
      /\ clock' = clock /\ counter' = counter /\ sized' = sized /\ rows' = rows /\ deletion' = deletion /\ upPast' = upPast
  BY DEF Upl!Open
<1>2. /\ e \in Upload /\ e.step = "open" /\ e.name = up[u].name /\ e.left = up[u].left /\ e.read = up[u].read
      /\ e.ok = up[u].ok
  BY UplOne DEF Upload, Upl!Steps
<1>. HIDE DEF e
<1>3. up' \in [Images -> Upload] /\ up'[u] = e /\ \A v \in Images : v # u => up'[v] = up[v]
  BY <1>1, <1>2, UplReplaced
<1>4. /\ files' \in [Upl!FileNames -> SUBSET Images] /\ files'[up[u].name] = {}
      /\ \A n \in Upl!FileNames \ {up[u].name} : files'[n] = files[n]
  BY <1>1, UplOne DEF UplInv, UplTypes
<1>5. UplTypes'
  BY <1>1, <1>3, <1>4 DEF UplInv, UplTypes, Upload
<1>6. u \in Named
  BY <1>1, UplOne
<1>7. OwnsFile(u)'
  BY <1>2, <1>3 DEF OwnsFile, Upl!Going
<1>8. RowFine(u)'
  BY <1>1, <1>2, <1>3, UplOne DEF RowFine, Inserted
<1>9. Upl!Alone(u) => FilesFine(u)'
  BY <1>1, <1>2, <1>3, <1>4, <1>6, UplOne DEF FilesFine, Written, RowFine, Inserted
<1>. QED BY <1>1, <1>2, <1>3, <1>4, <1>5, <1>6, <1>7, <1>8, <1>9, UplOfOne

\* the body is written, all of it or a part
LEMMA UplPipe == ASSUME UplInv, NEW u \in Images, Upl!Pipe(u) PROVE UplInv'
<1>1. PICK ending \in {"closed", "aborted"} : up' = [up EXCEPT ![u].step = ending]
  BY DEF Upl!Pipe
<1>. DEFINE e == [up[u] EXCEPT !.step = ending]
<1>2. /\ up[u].step = "open" /\ up' = [up EXCEPT ![u] = e] /\ files' = [files EXCEPT ![up[u].name] = @ \union {u}]
      /\ clock' = clock /\ counter' = counter /\ sized' = sized /\ rows' = rows /\ deletion' = deletion /\ upPast' = upPast
  BY <1>1 DEF Upl!Pipe
<1>3. /\ e \in Upload /\ e.step = ending /\ e.name = up[u].name /\ e.left = up[u].left /\ e.read = up[u].read
      /\ e.ok = up[u].ok
  BY UplOne DEF Upload, Upl!Steps
<1>. HIDE DEF e
<1>4. up' \in [Images -> Upload] /\ up'[u] = e /\ \A v \in Images : v # u => up'[v] = up[v]
  BY <1>2, <1>3, UplReplaced
<1>5. /\ files' \in [Upl!FileNames -> SUBSET Images] /\ files'[up[u].name] = files[up[u].name] \union {u}
      /\ \A n \in Upl!FileNames \ {up[u].name} : files'[n] = files[n]
  BY <1>2, UplOne DEF UplInv, UplTypes
<1>6. UplTypes'
  BY <1>2, <1>4, <1>5 DEF UplInv, UplTypes, Upload
<1>7. u \in Named
  BY <1>2, UplOne
<1>8. OwnsFile(u)'
  BY <1>3, <1>4 DEF OwnsFile, Upl!Going
<1>9. RowFine(u)'
  BY <1>2, <1>3, <1>4, UplOne DEF RowFine, Inserted
<1>10. Upl!Alone(u) => FilesFine(u)'
  BY <1>2, <1>3, <1>4, <1>5, <1>7, UplOne DEF FilesFine, Written, RowFine, Inserted
<1>11. up'[u].step # "none" /\ up'[u].name = up[u].name
  BY <1>3, <1>4
<1>. QED BY <1>2, <1>4, <1>5, <1>6, <1>7, <1>8, <1>9, <1>10, <1>11, UplOfOne

\* the file is read
LEMMA UplRead == ASSUME UplInv, NEW u \in Images, Upl!Read(u) PROVE UplInv'
<1>. DEFINE e == [up[u] EXCEPT !.step = "resizing", !.read = files[up[u].name]]
<1>1. /\ up[u].step = "closed" /\ up' = [up EXCEPT ![u] = e]
      /\ clock' = clock /\ counter' = counter /\ files' = files /\ sized' = sized /\ rows' = rows
      /\ deletion' = deletion /\ upPast' = upPast
  BY DEF Upl!Read, UplInv, UplTypes
<1>2. files[up[u].name] \in SUBSET Images
  BY UplOne DEF UplInv, UplTypes
<1>3. /\ e \in Upload /\ e.step = "resizing" /\ e.name = up[u].name /\ e.left = up[u].left
      /\ e.read = files[up[u].name] /\ e.ok = up[u].ok
  BY <1>2, UplOne DEF Upload, Upl!Steps
<1>. HIDE DEF e
<1>4. up' \in [Images -> Upload] /\ up'[u] = e /\ \A v \in Images : v # u => up'[v] = up[v]
  BY <1>1, <1>3, UplReplaced
<1>5. UplTypes'
  BY <1>1, <1>4 DEF UplInv, UplTypes, Upload
<1>6. u \in Named
  BY <1>1, UplOne
<1>7. OwnsFile(u)'
  BY <1>3, <1>4 DEF OwnsFile, Upl!Going
<1>8. RowFine(u)'
  BY <1>1, <1>3, <1>4, UplOne DEF RowFine, Inserted
<1>9. Upl!Alone(u) => FilesFine(u)'
  <2>. SUFFICES ASSUME Upl!Alone(u) PROVE FilesFine(u)'
    OBVIOUS
  <2>1. FilesFine(u) /\ u \notin upPast.deleted /\ up[u].left = Sizes
    BY <1>1, <1>6, UplOne DEF RowFine, Inserted
  <2>. QED BY <1>1, <1>3, <1>4, <2>1 DEF FilesFine, Written
<1>. QED BY <1>1, <1>3, <1>4, <1>5, <1>6, <1>7, <1>8, <1>9, UplOfOne

\* one size is written, or not
LEMMA UplResize == ASSUME UplInv, NEW u \in Images, Upl!Resize(u) PROVE UplInv'
<1>1. PICK s \in up[u].left :
        /\ up' = [up EXCEPT ![u].left = @ \ {s}]
        /\ \/ sized' = [sized EXCEPT ![<<up[u].name, s>>] = up[u].read] /\ upPast' = upPast
           \/ upPast' = [upPast EXCEPT !.unwritten = @ \union {<<u, s>>}] /\ sized' = sized
  BY DEF Upl!Resize
<1>. DEFINE e == [up[u] EXCEPT !.left = up[u].left \ {s}]
            file == <<up[u].name, s>>
<1>2. /\ up[u].step = "resizing" /\ up' = [up EXCEPT ![u] = e]
      /\ clock' = clock /\ counter' = counter /\ files' = files /\ rows' = rows /\ deletion' = deletion
  BY <1>1 DEF Upl!Resize, UplInv, UplTypes
<1>3. /\ e \in Upload /\ e.step = "resizing" /\ e.name = up[u].name /\ e.left = up[u].left \ {s}
      /\ e.read = up[u].read /\ e.ok = up[u].ok
  BY <1>2, UplOne DEF Upload
<1>4. s \in Sizes /\ up[u].read \in SUBSET Images /\ up[u].name \in Upl!FileNames
  BY UplOne DEF Upload
<1>. HIDE DEF e
<1>5. up' \in [Images -> Upload] /\ up'[u] = e /\ \A v \in Images : v # u => up'[v] = up[v]
  BY <1>2, <1>3, UplReplaced
<1>6. u \in Named
  BY <1>2, UplOne
<1>7. /\ upPast' \in [shared : SUBSET Upl!FileNames, unwritten : SUBSET (Images \X Sizes), deleted : SUBSET Images]
      /\ sized' \in [Upl!FileNames \X Sizes -> SUBSET Images]
  <2>1. CASE sized' = [sized EXCEPT ![file] = up[u].read] /\ upPast' = upPast
    BY <2>1, <1>4 DEF UplInv, UplTypes
  <2>2. CASE upPast' = [upPast EXCEPT !.unwritten = @ \union {<<u, s>>}] /\ sized' = sized
    <3>1. upPast.unwritten \union {<<u, s>>} \in SUBSET (Images \X Sizes)
      BY <1>4 DEF UplInv, UplTypes
    <3>2. /\ upPast'.shared = upPast.shared /\ upPast'.deleted = upPast.deleted
          /\ upPast' \in [shared : SUBSET Upl!FileNames, unwritten : SUBSET (Images \X Sizes), deleted : SUBSET Images]
      BY <2>2, <3>1 DEF UplInv, UplTypes
    <3>. QED BY <2>2, <3>2 DEF UplInv, UplTypes
  <2>. QED BY <1>1, <2>1, <2>2
<1>8. /\ upPast'.shared = upPast.shared /\ upPast'.deleted = upPast.deleted
      /\ upPast.unwritten \subseteq upPast'.unwritten
      /\ <<u, s>> \in upPast'.unwritten \/ sized'[file] = up[u].read
      /\ \A n \in Upl!FileNames, z \in Sizes : <<n, z>> # file => sized'[<<n, z>>] = sized[<<n, z>>]
  <2>1. CASE sized' = [sized EXCEPT ![file] = up[u].read] /\ upPast' = upPast
    BY <2>1, <1>4 DEF UplInv, UplTypes
  <2>2. CASE upPast' = [upPast EXCEPT !.unwritten = @ \union {<<u, s>>}] /\ sized' = sized
    BY <2>2, <1>4 DEF UplInv, UplTypes
  <2>. QED BY <1>1, <2>1, <2>2
<1>9. UplTypes'
  BY <1>2, <1>5, <1>7 DEF UplInv, UplTypes, Upload
<1>10. OwnsFile(u)'
  BY <1>3, <1>5 DEF OwnsFile, Upl!Going
<1>11. RowFine(u)'
  BY <1>2, <1>3, <1>5, <1>8, UplOne DEF RowFine, Inserted
<1>12. Upl!Alone(u) => FilesFine(u)'
  <2>. SUFFICES ASSUME Upl!Alone(u) PROVE FilesFine(u)'
    OBVIOUS
  <2>1. FilesFine(u) /\ u \notin upPast.deleted
    BY <1>2, <1>6, UplOne DEF RowFine, Inserted
  <2>2. files[up[u].name] = {u} /\ up[u].read = {u}
    BY <1>2, <2>1 DEF FilesFine, Written
  <2>3. ASSUME NEW z \in Sizes \ e.left PROVE <<u, z>> \in upPast'.unwritten \/ sized'[<<up[u].name, z>>] = {u}
    <3>1. CASE z = s
      BY <3>1, <1>8, <2>2
    <3>2. CASE z # s
      <4>1. z \in Sizes \ up[u].left /\ <<up[u].name, z>> # file
        BY <2>3, <3>2, <1>3
      <4>2. <<u, z>> \in upPast.unwritten \/ sized[<<up[u].name, z>>] = {u}
        BY <4>1, <1>2, <2>1 DEF FilesFine
      <4>. QED BY <4>1, <4>2, <1>4, <1>8
    <3>. QED BY <3>1, <3>2
  <2>. QED BY <1>2, <1>3, <1>5, <1>8, <2>1, <2>2, <2>3 DEF FilesFine, Written
<1>13. \A n \in Upl!FileNames \ {up[u].name} :
          files'[n] = files[n] /\ \A z \in Sizes : sized'[<<n, z>>] = sized[<<n, z>>]
  BY <1>2, <1>8
<1>14. up'[u].step # "none" /\ up'[u].name = up[u].name
  BY <1>3, <1>5
<1>. QED BY <1>2, <1>5, <1>6, <1>8, <1>9, <1>10, <1>11, <1>12, <1>13, <1>14, UplOfOne

\* the sizes are all there
LEMMA UplMeasure == ASSUME UplInv, NEW u \in Images, Upl!Measure(u) PROVE UplInv'
<1>1. PICK ok \in BOOLEAN : up' = [up EXCEPT ![u].step = "measured", ![u].ok = ok]
  BY DEF Upl!Measure
<1>. DEFINE e == [up[u] EXCEPT !.step = "measured", !.ok = ok]
<1>2. /\ up[u].step = "resizing" /\ up[u].left = {} /\ up' = [up EXCEPT ![u] = e]
      /\ clock' = clock /\ counter' = counter /\ files' = files /\ sized' = sized /\ rows' = rows
      /\ deletion' = deletion /\ upPast' = upPast
  BY <1>1 DEF Upl!Measure, UplInv, UplTypes
<1>3. /\ e \in Upload /\ e.step = "measured" /\ e.name = up[u].name /\ e.left = up[u].left
      /\ e.read = up[u].read
  <2>1. up[u] \in Upload /\ "measured" \in Upl!Steps
    BY UplOne DEF Upl!Steps
  <2>. QED BY <2>1 DEF Upload
<1>. HIDE DEF e
<1>4. up' \in [Images -> Upload] /\ up'[u] = e /\ \A v \in Images : v # u => up'[v] = up[v]
  BY <1>2, <1>3, UplReplaced
<1>5. UplTypes'
  BY <1>2, <1>4 DEF UplInv, UplTypes, Upload
<1>6. u \in Named
  BY <1>2, UplOne
<1>7. OwnsFile(u)'
  BY <1>3, <1>4 DEF OwnsFile, Upl!Going
<1>8. RowFine(u)'
  BY <1>2, <1>3, <1>4, UplOne DEF RowFine, Inserted
<1>9. Upl!Alone(u) => FilesFine(u)'
  BY <1>2, <1>3, <1>4, <1>6, UplOne DEF FilesFine, Written, RowFine, Inserted
<1>. QED BY <1>2, <1>3, <1>4, <1>5, <1>6, <1>7, <1>8, <1>9, UplOfOne

\* the row is inserted
LEMMA UplInsert == ASSUME UplInv, NEW u \in Images, Upl!Insert(u) PROVE UplInv'
<1>. DEFINE e == [up[u] EXCEPT !.step = IF up[u].ok THEN "answered" ELSE "refused"]
<1>1. /\ up[u].step = "measured" /\ up' = [up EXCEPT ![u] = e] /\ rows' = rows \union {u}
      /\ clock' = clock /\ counter' = counter /\ files' = files /\ sized' = sized
      /\ deletion' = deletion /\ upPast' = upPast
  BY DEF Upl!Insert
<1>2. /\ e \in Upload /\ e.step \in {"answered", "refused"} /\ e.name = up[u].name /\ e.left = up[u].left
      /\ e.read = up[u].read /\ e.ok = up[u].ok
  BY UplOne DEF Upload, Upl!Steps
<1>. HIDE DEF e
<1>3. up' \in [Images -> Upload] /\ up'[u] = e /\ \A v \in Images : v # u => up'[v] = up[v]
  BY <1>1, <1>2, UplReplaced
<1>4. UplTypes'
  BY <1>1, <1>3 DEF UplInv, UplTypes, Upload
<1>5. u \in Named
  BY <1>1, UplOne
<1>6. OwnsFile(u)'
  BY <1>1 DEF OwnsFile
<1>7. RowFine(u)'
  BY <1>1, <1>2, <1>3, UplOne DEF RowFine, Inserted
<1>8. Upl!Alone(u) => FilesFine(u)'
  BY <1>1, <1>2, <1>3, <1>5, UplOne DEF FilesFine, Written, RowFine, Inserted
<1>9. up'[u].step # "none" /\ up'[u].name = up[u].name
  BY <1>2, <1>3
<1>10. \A v \in Images : v # u => (v \in rows' <=> v \in rows)
  BY <1>1
<1>. QED BY <1>1, <1>3, <1>4, <1>5, <1>6, <1>7, <1>8, <1>9, <1>10, UplOfOne

\* an upload which has a row, or had
LEMMA UplKept ==
    ASSUME UplInv, NEW u \in Images, u \in rows \union upPast.deleted
    PROVE  u \in Named /\ Inserted(u)
<1>1. Inserted(u)
  BY UplOne DEF RowFine
<1>. QED BY <1>1, UplOne DEF Inserted

\* a deletion begins
LEMMA UplDelete == ASSUME UplInv, NEW u \in Images, Upl!Delete(u) PROVE UplInv'
<1>1. /\ u \in rows /\ deletion' = [deletion EXCEPT ![u] = [left |-> Upl!Listed(u), row |-> TRUE]]
      /\ upPast' = [upPast EXCEPT !.deleted = @ \union {u}]
      /\ clock' = clock /\ counter' = counter /\ up' = up /\ files' = files /\ sized' = sized /\ rows' = rows
  BY DEF Upl!Delete
<1>2. u \in Named /\ Inserted(u)
  BY <1>1, UplKept
<1>3. Upl!Listed(u) \subseteq Sizes /\ (up[u].ok => Upl!Listed(u) = Sizes)
  BY DEF Upl!Listed
<1>4. /\ deletion' \in [Images -> [left : SUBSET Sizes, row : BOOLEAN]]
      /\ deletion'[u].left = Upl!Listed(u) /\ \A v \in Images : v # u => deletion'[v] = deletion[v]
  BY <1>1, <1>3 DEF UplInv, UplTypes
<1>5. /\ upPast' \in [shared : SUBSET Upl!FileNames, unwritten : SUBSET (Images \X Sizes), deleted : SUBSET Images]
      /\ upPast'.shared = upPast.shared /\ upPast'.unwritten = upPast.unwritten
      /\ upPast'.deleted = upPast.deleted \union {u}
  BY <1>1 DEF UplInv, UplTypes
<1>6. UplTypes'
  BY <1>1, <1>4, <1>5 DEF UplInv, UplTypes
<1>7. OwnsFile(u)' /\ RowFine(u)'
  BY <1>1, <1>2, <1>5, UplOne DEF OwnsFile, RowFine, Inserted
<1>8. Upl!Alone(u) => FilesFine(u)'
  <2>. SUFFICES ASSUME Upl!Alone(u) PROVE FilesFine(u)'
    OBVIOUS
  <2>1. FilesFine(u)
    BY <1>2, UplOne
  <2>2. up[u].ok => Sizes \ deletion'[u].left = {}
    BY <1>3, <1>4
  <2>3. u \in upPast'.deleted /\ up[u].step # "resizing" /\ files[up[u].name] = {u}
    BY <1>2, <1>5, <2>1 DEF FilesFine, Written, Inserted
  <2>. QED BY <1>1, <2>2, <2>3 DEF FilesFine, Written
<1>9. \A v \in Images : v # u => (v \in upPast'.deleted <=> v \in upPast.deleted)
  BY <1>5
<1>10. up'[u].step # "none" /\ up'[u].name = up[u].name
  BY <1>1, <1>2, UplOne
<1>. QED BY <1>1, <1>2, <1>4, <1>5, <1>6, <1>7, <1>8, <1>9, <1>10, UplOfOne

\* one size is deleted
LEMMA UplUnlink == ASSUME UplInv, NEW u \in Images, Upl!Unlink(u) PROVE UplInv'
<1>1. PICK s \in deletion[u].left :
        /\ sized' = [sized EXCEPT ![<<up[u].name, s>>] = {}]
        /\ deletion' = [deletion EXCEPT ![u].left = @ \ {s}]
  BY DEF Upl!Unlink
<1>. DEFINE file == <<up[u].name, s>>
<1>2. /\ clock' = clock /\ counter' = counter /\ up' = up /\ files' = files /\ rows' = rows /\ upPast' = upPast
  BY DEF Upl!Unlink
<1>3. u \in upPast.deleted
  BY <1>1, UplOne DEF RowFine
<1>4. u \in Named /\ Inserted(u)
  BY <1>3, UplKept
<1>5. s \in Sizes /\ up[u].name \in Upl!FileNames
  BY UplOne DEF UplInv, UplTypes
<1>6. /\ deletion' \in [Images -> [left : SUBSET Sizes, row : BOOLEAN]]
      /\ deletion'[u].left = deletion[u].left \ {s} /\ deletion'[u].row = deletion[u].row
      /\ \A v \in Images : v # u => deletion'[v] = deletion[v]
  BY <1>1 DEF UplInv, UplTypes
<1>7. /\ sized' \in [Upl!FileNames \X Sizes -> SUBSET Images] /\ sized'[file] = {}
      /\ \A n \in Upl!FileNames, z \in Sizes : <<n, z>> # file => sized'[<<n, z>>] = sized[<<n, z>>]
  BY <1>1, <1>5 DEF UplInv, UplTypes
<1>8. UplTypes'
  BY <1>2, <1>6, <1>7 DEF UplInv, UplTypes
<1>9. OwnsFile(u)'
  BY <1>2, <1>3 DEF OwnsFile
<1>10. RowFine(u)'
  BY <1>2, <1>3, <1>6, UplOne DEF RowFine, Inserted
<1>11. Upl!Alone(u) => FilesFine(u)'
  <2>. SUFFICES ASSUME Upl!Alone(u) PROVE FilesFine(u)'
    OBVIOUS
  <2>1. FilesFine(u)
    BY <1>4, UplOne
  <2>2. ASSUME up[u].ok, NEW z \in Sizes \ deletion'[u].left PROVE sized'[<<up[u].name, z>>] = {}
    <3>1. CASE z = s
      BY <3>1, <1>7
    <3>2. CASE z # s
      <4>1. z \in Sizes \ deletion[u].left /\ <<up[u].name, z>> # file
        BY <2>2, <3>2, <1>6
      <4>. QED BY <1>3, <1>5, <1>7, <2>1, <2>2, <4>1 DEF FilesFine
    <3>. QED BY <3>1, <3>2
  <2>. QED BY <1>2, <1>3, <2>1, <2>2 DEF FilesFine, Written
<1>12. \A n \in Upl!FileNames \ {up[u].name} :
          files'[n] = files[n] /\ \A z \in Sizes : sized'[<<n, z>>] = sized[<<n, z>>]
  BY <1>2, <1>7
<1>13. up'[u].step # "none" /\ up'[u].name = up[u].name
  BY <1>2, <1>4, UplOne
<1>. QED BY <1>2, <1>4, <1>6, <1>8, <1>9, <1>10, <1>11, <1>12, <1>13, UplOfOne

\* the row is removed
LEMMA UplRemoveRow == ASSUME UplInv, NEW u \in Images, Upl!RemoveRow(u) PROVE UplInv'
<1>1. /\ deletion[u].row /\ rows' = rows \ {u} /\ deletion' = [deletion EXCEPT ![u].row = FALSE]
      /\ clock' = clock /\ counter' = counter /\ up' = up /\ files' = files /\ sized' = sized /\ upPast' = upPast
  BY DEF Upl!RemoveRow
<1>2. u \in upPast.deleted
  BY <1>1, UplOne DEF RowFine
<1>3. u \in Named /\ Inserted(u)
  BY <1>2, UplKept
<1>4. /\ deletion' \in [Images -> [left : SUBSET Sizes, row : BOOLEAN]]
      /\ deletion'[u].left = deletion[u].left /\ \A v \in Images : v # u => deletion'[v] = deletion[v]
  BY <1>1 DEF UplInv, UplTypes
<1>5. UplTypes'
  BY <1>1, <1>4 DEF UplInv, UplTypes
<1>6. OwnsFile(u)' /\ RowFine(u)'
  BY <1>1, <1>2, <1>3, <1>4, UplOne DEF OwnsFile, RowFine, Inserted
<1>7. Upl!Alone(u) => FilesFine(u)'
  BY <1>1, <1>3, <1>4, UplOne DEF FilesFine, Written
<1>8. up'[u].step # "none" /\ up'[u].name = up[u].name
  BY <1>1, <1>3, UplOne
<1>9. \A v \in Images : v # u => (v \in rows' <=> v \in rows)
  BY <1>1
<1>. QED BY <1>1, <1>3, <1>4, <1>5, <1>6, <1>7, <1>8, <1>9, UplOfOne

\* a worker dies with its uploads
LEMMA UplCrash == ASSUME UplInv, NEW w \in Upl!Handlers, Upl!Crash(w) PROVE UplInv'
<1>. DEFINE Dies(u) == WorkerOf[u] = w /\ Upl!Going(u)
<1>1. /\ counter' = [counter EXCEPT ![w] = 0]
      /\ up' = [u \in Images |-> IF Dies(u) THEN [up[u] EXCEPT !.step = "dead"] ELSE up[u]]
      /\ clock' = clock /\ files' = files /\ sized' = sized /\ rows' = rows /\ deletion' = deletion /\ upPast' = upPast
  BY DEF Upl!Crash
<1>2. \A u \in Images : up[u] \in Upload /\ [up[u] EXCEPT !.step = "dead"] \in Upload
  BY UplOne DEF Upload, Upl!Steps
<1>3. up' \in [Images -> Upload]
  BY <1>1, <1>2
<1>4. \A u \in Images : /\ up'[u].name = up[u].name /\ up'[u].left = up[u].left /\ up'[u].ok = up[u].ok
                        /\ up'[u].read = up[u].read
                        /\ up'[u].step = (IF Dies(u) THEN "dead" ELSE up[u].step)
  BY <1>1, <1>2 DEF Upload
<1>. HIDE DEF Dies
<1>5. \A u \in Images : Dies(u) => Upl!Going(u)
  BY DEF Dies
<1>6. Named' = Named
  BY <1>4, <1>5 DEF Named, Upl!Going
<1>7. counter' \in [Upl!Handlers -> Nat] /\ \A v \in Upl!Handlers : counter'[v] = counter[v] \/ counter'[v] = 0
  BY <1>1 DEF UplInv, UplTypes
<1>8. UplTypes'
  BY <1>1, <1>3, <1>7 DEF UplInv, UplTypes, Upload
<1>9. UplCounted'
  <2>1. Named \in SUBSET Images
    BY DEF Named
  <2>2. Cardinality(Named) \in Nat
    BY <2>1, ImagesAssumption, FS_Subset, FS_CardinalityType
  <2>. QED BY <1>6, <1>7, <2>2 DEF UplInv, UplCounted
<1>10. UplNames'
  BY <1>1, <1>4, <1>6 DEF UplInv, UplNames, Named
<1>11. UplRows'
  <2>1. ASSUME NEW u \in Images PROVE RowFine(u)'
    <3>1. RowFine(u)
      BY UplOne
    <3>2. CASE Dies(u)
      <4>1. up'[u].step = "dead" /\ Upl!Going(u)
        BY <3>2, <1>4, <1>5
      <4>2. ~Inserted(u) /\ ~Inserted(u)'
        BY <4>1 DEF Inserted, Upl!Going
      <4>. QED BY <3>1, <4>1, <4>2, <1>1 DEF RowFine
    <3>3. CASE ~Dies(u)
      BY <3>1, <3>3, <1>1, <1>4 DEF RowFine, Inserted
    <3>. QED BY <3>2, <3>3
  <2>. QED BY <2>1 DEF UplRows
<1>12. UplFiles'
  <2>1. ASSUME NEW u \in Named, Upl!Alone(u)' PROVE FilesFine(u)'
    <3>1. u \in Images /\ Upl!Alone(u) /\ FilesFine(u) /\ RowFine(u)
      BY <2>1, <1>1, <1>4, UplOne DEF Upl!Alone, Named
    <3>2. CASE Dies(u)
      <4>1. up'[u].step = "dead" /\ Upl!Going(u)
        BY <3>1, <3>2, <1>4, <1>5
      <4>2. ~Inserted(u)
        BY <4>1 DEF Inserted, Upl!Going
      <4>3. u \notin upPast.deleted
        BY <3>1, <4>2 DEF RowFine
      <4>. QED BY <3>1, <4>1, <4>3, <1>1, <1>4 DEF FilesFine, Written
    <3>3. CASE ~Dies(u)
      BY <3>1, <3>3, <1>1, <1>4 DEF FilesFine, Written
    <3>. QED BY <3>2, <3>3
  <2>. QED BY <2>1, <1>6 DEF UplFiles
<1>13. Upl!NoStrayFile'
  <2>1. ASSUME NEW n \in Upl!FileNames, files[n] # {}
        PROVE  \E v \in Images : up'[v].name = n /\ up'[v].step # "none" /\ OwnsFile(v)'
    <3>1. PICK v \in Images : up[v].name = n /\ up[v].step # "none" /\ OwnsFile(v)
      BY <2>1 DEF UplInv, Upl!NoStrayFile, OwnsFile
    <3>2. up'[v].step = "dead" \/ up'[v].step = up[v].step
      BY <1>4
    <3>. QED BY <3>1, <3>2, <1>1, <1>4 DEF OwnsFile, Upl!Going
  <2>. QED BY <1>1, <2>1 DEF Upl!NoStrayFile, OwnsFile
<1>. QED BY <1>8, <1>9, <1>10, <1>11, <1>12, <1>13 DEF UplInv

\* no image has been uploaded
LEMMA UplInit == ASSUME Upl!Init PROVE UplInv
<1>1. 0 \in 0..Upl!Cardinality(Images) /\ Cardinality(Images) \in Nat
  BY ImagesAssumption, FS_CardinalityType, UplCard
<1>2. Upl!Nameless \in Upl!FileNames
  BY <1>1, ClockAssumption DEF Upl!Nameless, Upl!FileNames
<1>3. UplTypes
  <2>1. up \in [Images -> Upload]
    BY <1>2 DEF Upl!Init, Upload, Upl!Steps
  <2>2. upPast \in [shared : SUBSET Upl!FileNames, unwritten : SUBSET (Images \X Sizes), deleted : SUBSET Images]
    BY DEF Upl!Init
  <2>. QED BY <2>1, <2>2, ClockAssumption DEF Upl!Init, UplTypes, Upload
<1>4. \A u \in Images : /\ up[u].step = "none" /\ up[u].left = Sizes
                        /\ deletion[u].row = FALSE /\ deletion[u].left = {}
  BY DEF Upl!Init
<1>5. Named = {} /\ rows = {} /\ upPast.deleted = {} /\ \A n \in Upl!FileNames : files[n] = {}
  BY <1>4 DEF Upl!Init, Named
<1>6. \A w \in Upl!Handlers : counter[w] = 0
  BY DEF Upl!Init
<1>7. UplCounted
  BY <1>5, <1>6, FS_EmptySet DEF UplCounted
<1>. QED BY <1>3, <1>4, <1>5, <1>7 DEF UplInv, UplNames, UplRows, RowFine, Inserted, UplFiles, Upl!NoStrayFile

\* every step of uploads keeps the invariant
LEMMA UplStep == ASSUME UplInv, Upl!Next PROVE UplInv'
<1>1. CASE Upl!Tick
  BY <1>1, UplTick
<1>2. ASSUME NEW u \in Images,
             \/ Upl!Name(u) \/ Upl!Open(u) \/ Upl!Pipe(u) \/ Upl!Read(u) \/ Upl!Resize(u) \/ Upl!Measure(u)
             \/ Upl!Insert(u) \/ Upl!Delete(u) \/ Upl!Unlink(u) \/ Upl!RemoveRow(u)
      PROVE  UplInv'
  BY <1>2, UplName, UplOpen, UplPipe, UplRead, UplResize, UplMeasure, UplInsert, UplDelete, UplUnlink, UplRemoveRow
<1>3. ASSUME NEW w \in Upl!Handlers, Upl!Crash(w) PROVE UplInv'
  BY <1>3, UplCrash
<1>. QED BY <1>1, <1>2, <1>3 DEF Upl!Next

\* the invariant says what is asked of uploads; a worker has made a name per upload at most
LEMMA UplProps ==
    ASSUME UplInv
    PROVE  Upl!TypeOK /\ Upl!RowHasFiles /\ Upl!SizesDeleted /\ Upl!NoStrayFile
<1>1. Upl!TypeOK
  <2>1. Cardinality(Images) \in Nat /\ Cardinality(Named) <= Cardinality(Images) /\ Cardinality(Named) \in Nat
    <3>1. Named \in SUBSET Images
      BY DEF Named
    <3>. QED BY <3>1, ImagesAssumption, FS_Subset, FS_CardinalityType
  <2>2. \A w \in Upl!Handlers : counter[w] \in 0..Upl!Cardinality(Images)
    BY <2>1, UplCard DEF UplInv, UplTypes, UplCounted
  <2>3. counter \in [Upl!Handlers -> 0..Upl!Cardinality(Images)]
    BY <2>2 DEF UplInv, UplTypes
  <2>. QED BY <2>3 DEF UplInv, UplTypes, Upl!TypeOK
<1>2. ASSUME NEW u \in rows \ upPast.deleted, Upl!Alone(u)
      PROVE  /\ files[up[u].name] = {u}
             /\ \A s \in Upl!Listed(u) : <<u, s>> \in upPast.unwritten \/ sized[<<up[u].name, s>>] = {u}
  <2>1. u \in Images /\ u \in Named /\ Inserted(u)
    BY UplKept DEF UplInv, UplTypes
  <2>2. FilesFine(u) /\ up[u].left = {}
    BY <1>2, <2>1, UplOne DEF RowFine, Inserted
  <2>. QED BY <1>2, <2>1, <2>2 DEF FilesFine, Written, Inserted, Upl!Listed
<1>3. ASSUME NEW u \in upPast.deleted, deletion[u].left = {}, Upl!Alone(u), up[u].ok, NEW s \in Sizes
      PROVE  sized[<<up[u].name, s>>] = {}
  <2>1. u \in Images /\ u \in Named
    BY UplKept DEF UplInv, UplTypes
  <2>. QED BY <1>3, <2>1, UplOne DEF FilesFine
<1>4. Upl!RowHasFiles /\ Upl!SizesDeleted
  BY <1>2, <1>3 DEF Upl!RowHasFiles, Upl!SizesDeleted
<1>. QED BY <1>1, <1>4 DEF UplInv

-----------------------------------------------------------------------------
(* The workers *)

WorkersInv ==
    /\ part \in Parts
    /\ SessInv /\ LockInv /\ AccInv /\ AccCounted /\ VltInv
    /\ TabsInv /\ HttpInv /\ LiveInv
    /\ MemInv /\ MemOrdered /\ PluInv /\ UplInv

\* a component which does not move keeps its invariant
LEMMA SessStays == ASSUME SessInv, UNCHANGED sessions PROVE SessInv'
BY DEF sessions, SessInv, SessBooks, SessUp, SessLogins, SessVisits, Pending, Sess!TypeOK, Sess!SessionsFound

\* the same of the padlock
LEMMA LockStays == ASSUME LockInv, UNCHANGED padlock PROVE LockInv'
BY DEF padlock, LockInv, LockTypes, LockCounts, LockAlone, Failing, Getting, Locking, Lock!Busy

\* of accounts
LEMMA AccStays == ASSUME AccInv, AccCounted, UNCHANGED accounts PROVE AccInv' /\ AccCounted'
<1>1. AccTypes' /\ AccSlots' /\ AccBounds' /\ AccChanged' /\ AccGone' /\ AccInvited'
  BY DEF accounts, AccInv, AccTypes, AccSlots, AccBounds, AccChanged, AccGone, AccInvited, Active, Asks
<1>2. AccRecovered' /\ AccLogged'
  BY DEF accounts, AccInv, AccRecovered, AccLogged, Asks, Relinks
<1>3. AccCounted'
  BY DEF accounts, AccCounted, Within, Owed, Owes
<1>. QED BY <1>1, <1>2, <1>3 DEF AccInv

\* of the vault
LEMMA VltStays == ASSUME VltInv, UNCHANGED vault PROVE VltInv'
<1>1. VltTypes' /\ VltKnown' /\ VltCrossed' /\ VltRead'
  BY DEF vault, VltInv, VltTypes, VltKnown, VltCrossed, VltRead, IsOpen
<1>2. Vlt!NoOrphan' /\ Vlt!LastGiven'
  BY DEF vault, VltInv, Vlt!NoOrphan, Vlt!LastGiven, Vlt!Open
<1>. QED BY <1>1, <1>2 DEF VltInv

\* of sockets
LEMMA TabsStays == ASSUME TabsInv, UNCHANGED sockets PROVE TabsInv'
BY DEF sockets, TabsInv, TabsTypes, TabsPages, TabsAlone, Tabs!TabsListed

\* of requests
LEMMA HttpStays == ASSUME HttpInv, UNCHANGED requests PROVE HttpInv'
BY DEF requests, HttpInv, HttpTypes, HttpQueued, HttpHandled, HttpMay

\* of live variables
LEMMA LiveStays == ASSUME LiveInv, UNCHANGED livevars PROVE LiveInv'
BY DEF livevars, LiveInv, LiveTypes, LiveCounts, LiveSent, Doubled

\* of the shared memory
LEMMA MemStays == ASSUME MemInv, UNCHANGED sharedmemory PROVE MemInv'
BY DEF sharedmemory, MemInv

\* of the order of the calls
LEMMA MemOrderedStays == ASSUME MemOrdered, UNCHANGED sharedmemory PROVE MemOrdered'
BY DEF sharedmemory, MemOrdered, MemServed, MemUnserved, Mem!Back
\* of plugins
LEMMA PluStays == ASSUME PluInv, UNCHANGED plugins PROVE PluInv'
BY DEF plugins, PluInv, PluTypes, PluTodo, PluCrossed, PluSearch, PluAgree, Excused, Plug!RegisteredOnce

\* and of uploads
LEMMA UplStays == ASSUME UplInv, UNCHANGED uploads PROVE UplInv'
<1>1. UplTypes' /\ UplCounted' /\ UplNames' /\ Upl!NoStrayFile'
  BY DEF uploads, UplInv, UplTypes, UplCounted, UplNames, Upl!NoStrayFile, Upl!Going, Named
<1>2. UplRows' /\ UplFiles'
  BY DEF uploads, UplInv, UplRows, UplFiles, RowFine, FilesFine, Named, Inserted, Written, Upl!Alone
<1>. QED BY <1>1, <1>2 DEF UplInv

\* whichever component moves, the others stay
LEMMA WorkersStep == ASSUME WorkersInv, [Next]_vars PROVE WorkersInv'
<1>. USE DEF WorkersInv, access, clients, stores
<1>1. CASE Sess!Next /\ UNCHANGED <<part, padlock, accounts, clients, stores>>
  BY <1>1, SessStep,
     LockStays, AccStays, VltStays, TabsStays, HttpStays, LiveStays, MemStays, MemOrderedStays, PluStays, UplStays
<1>2. CASE Lock!Next /\ UNCHANGED <<part, sessions, accounts, clients, stores>>
  BY <1>2, LockStep,
     SessStays, AccStays, VltStays, TabsStays, HttpStays, LiveStays, MemStays, MemOrderedStays, PluStays, UplStays
<1>3. CASE Acc!Next /\ UNCHANGED <<part, sessions, padlock, clients, stores>>
  BY <1>3, AccStep, AccCountedStep,
     SessStays, LockStays, VltStays, TabsStays, HttpStays, LiveStays, MemStays, MemOrderedStays, PluStays, UplStays
<1>4. CASE Tabs!Next /\ UNCHANGED <<part, access, requests, livevars, stores>>
  BY <1>4, TabsStep,
     SessStays, LockStays, AccStays, VltStays, HttpStays, LiveStays, MemStays, MemOrderedStays, PluStays, UplStays
<1>5. CASE Http!Next /\ UNCHANGED <<part, access, sockets, livevars, stores>>
  BY <1>5, HttpStep,
     SessStays, LockStays, AccStays, VltStays, TabsStays, LiveStays, MemStays, MemOrderedStays, PluStays, UplStays
<1>6. CASE Live!Next /\ UNCHANGED <<part, access, sockets, requests, stores>>
  BY <1>6, LiveStep,
     SessStays, LockStays, AccStays, VltStays, TabsStays, HttpStays, MemStays, MemOrderedStays, PluStays, UplStays
<1>7. CASE Mem!Next /\ UNCHANGED <<part, access, clients, plugins, vault, uploads>>
  BY <1>7, MemStep, MemOrderedStep,
     SessStays, LockStays, AccStays, VltStays, TabsStays, HttpStays, LiveStays, PluStays, UplStays
<1>8. CASE Plug!Next /\ UNCHANGED <<part, access, clients, sharedmemory, vault, uploads>>
  BY <1>8, PluStep,
     SessStays, LockStays, AccStays, VltStays, TabsStays, HttpStays, LiveStays, MemStays, MemOrderedStays, UplStays
<1>9. CASE Vlt!Next /\ UNCHANGED <<part, access, clients, sharedmemory, plugins, uploads>>
  BY <1>9, VltStep,
     SessStays, LockStays, AccStays, TabsStays, HttpStays, LiveStays, MemStays, MemOrderedStays, PluStays, UplStays
<1>10. CASE Upl!Next /\ UNCHANGED <<part, access, clients, sharedmemory, plugins, vault>>
  BY <1>10, UplStep,
     SessStays, LockStays, AccStays, VltStays, TabsStays, HttpStays, LiveStays, MemStays, MemOrderedStays, PluStays
<1>11. CASE UNCHANGED vars
  BY <1>11, SessStays, LockStays, AccStays, VltStays, TabsStays, HttpStays, LiveStays, MemStays, MemOrderedStays, PluStays, UplStays DEF vars
<1>. QED BY <1>1, <1>2, <1>3, <1>4, <1>5, <1>6, <1>7, <1>8, <1>9, <1>10, <1>11 DEF Next

\* The inductive invariant of all components holds in every behaviour of the workers.
THEOREM WorkersInvariant == Spec => []WorkersInv
<1>1. Init => WorkersInv
  BY SessInit, LockInit, AccInit, AccCountedInit, VltInit, TabsInit, HttpInit, LiveInit, MemInit, MemOrderedInit, PluInit, UplInit
  DEF Init, WorkersInv
<1>. QED BY <1>1, WorkersStep, PTL DEF Spec

\* Every variable of the workers keeps its type: counters stay below their bounds, queues have what waits
\* once, calls of the cache know only earlier ones.
THEOREM TypesAreKept == Spec => []TypeOK
<1>1. WorkersInv => TypeOK
  <2>1. SessInv => Sess!TypeOK
    BY DEF SessInv
  <2>. QED BY <2>1, LockProps, AccTyped, VltProps, TabsProps, HttpProps, LiveProps, MemProps, PluProps, UplProps
           DEF WorkersInv, TypeOK
<1>. QED BY <1>1, WorkersInvariant, PTL

\* Who holds a cookie is found in the cache or the database, and a session which was logged out of is
\* gone or on its way out, however logins, visits and crashes interleave (lib/session.js).
THEOREM SessionsAreKept == Spec => []SessionsKept
<1>1. WorkersInv => SessionsKept
  BY SessProps DEF WorkersInv
<1>. QED BY <1>1, WorkersInvariant, PTL

\* A tab whose handlers are bound is on its user's list, and the time on a page is recorded once, however
\* many tabs come and go (lib/notifications.js).
THEOREM TabsAreKept == Spec => []TabsKept
<1>1. WorkersInv => TabsKept
  BY TabsProps DEF WorkersInv
<1>. QED BY <1>1, WorkersInvariant, PTL

\* A request is handled once at most, handlers of the admin interface have a session, and live variables
\* are answered once, with all of them (pipeline).
THEOREM RequestsAreHandled == Spec => []RequestsHandled
<1>1. WorkersInv => RequestsHandled
  BY HttpProps, LiveProps DEF WorkersInv, RequestsHandled
<1>. QED BY <1>1, WorkersInvariant, PTL

\* Calls of the cache are linearizable over crashes of its server: some order of those which called back,
\* and of some which did not, keeps the order in which they were made one after the other, and explains
\* every answer, however their pieces interleave (network/sharedmemory.js, lib/sharedcache.js).
THEOREM MemoryIsLinearizable == Spec => []MemoryLinearizable
<1>1. WorkersInv => MemoryLinearizable
  BY MemLinear DEF WorkersInv, MemoryLinearizable
<1>. QED BY <1>1, WorkersInvariant, PTL

\* No failure is made up and none forgotten unless attempts overlap, a secret is used once, and the vault
\* has what it was last given (lib/padlock.js, lib/entities.js, lib/passwordrecovery.js, lib/pwmanager.js).
THEOREM SecretsAreKept == Spec => []SecretsKept
<1>1. WorkersInv => SecretsKept
  BY LockProps, AccProps, VltProps DEF WorkersInv, SecretsKept
<1>. QED BY <1>1, WorkersInvariant, PTL

\* Who has left has no account, and no two are invited under one name, unless workers die, accounts are
\* restored or invitations overlap (lib/staffing.js, lib/entities.js).
THEOREM AccountsAreKept == Spec => []AccountsKept
<1>1. WorkersInv => AccountsKept
  BY AccProps DEF WorkersInv, AccountsKept
<1>. QED BY <1>1, WorkersInvariant, PTL

\* Rows have their files and files their rows, sizes of what was deleted are gone, and each worker has
\* registered what is active, unless two work on the same name or plugin (lib/media.js, lib/plugins.js).
THEOREM WorkersAlwaysAgree == Spec => []WorkersAgree
<1>1. WorkersInv => WorkersAgree
  BY PluProps, UplProps DEF WorkersInv, WorkersAgree
<1>. QED BY <1>1, WorkersInvariant, PTL
=============================================================================
