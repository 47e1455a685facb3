--------------------------- MODULE GardenerProofs ---------------------------
(***************************************************************************)
(* Theorems about Gardener, for any number of workers, mishaps and         *)
(* restarts.  They rest on one inductive invariant: what the gardener has  *)
(* a variable for is all there is to kill, and its garden has one worker   *)
(* of each number.                                                         *)
(***************************************************************************)
EXTENDS Gardener, SequenceTheorems, TLAPS

\* a process which is dead or killed, or known
Known(p) == Running(p) => p \in garden \cup {caij, shared, data}

IInv ==
    /\ TypeOK
    /\ master = "starting" => garden = {} /\ caij = 0
    /\ \A p \in exits : procs[p].state = "dead"
    /\ \A p \in garden : procs[p].role = "worker"
    /\ \A p \in Pids : procs[p].role = "worker" /\ procs[p].state # "dead" => p \in garden
    /\ \A p, q \in garden : procs[p].num = procs[q].num => p = q
    /\ \A p \in Pids : Known(p)
    /\ NoOrphans

-----------------------------------------------------------------------------
(* Sequences of processes *)

LEMMA ForkType ==
  ASSUME NEW role \in {"worker", "caij", "shared", "data"}, NEW num \in 0 .. FamilySize
  PROVE  /\ Fork(role, num) \in Process
         /\ Fork(role, num).role = role
         /\ Fork(role, num).num = num
         /\ Fork(role, num).state \in {"booting", "up"}
BY DEF Fork, Process

LEMMA AppendOne ==
  ASSUME NEW s \in Seq(Process), NEW x \in Process
  PROVE  /\ Append(s, x) \in Seq(Process)
         /\ DOMAIN Append(s, x) = DOMAIN s \cup {Len(s) + 1}
         /\ Len(s) + 1 \notin DOMAIN s
         /\ \A p \in DOMAIN s : Append(s, x)[p] = s[p]
         /\ Append(s, x)[Len(s) + 1] = x
<1>1. Append(s, x) \in Seq(Process) /\ Len(Append(s, x)) = Len(s) + 1
  OBVIOUS
<1>2. DOMAIN s = 1 .. Len(s) /\ DOMAIN Append(s, x) = 1 .. Len(s) + 1 /\ Len(s) \in Nat
  BY <1>1
<1>3. 1 .. Len(s) + 1 = (1 .. Len(s)) \cup {Len(s) + 1} /\ Len(s) + 1 \notin 1 .. Len(s)
  BY <1>2
<1>4. QED
  BY <1>1, <1>2, <1>3

LEMMA ConcatTwo ==
  ASSUME NEW s \in Seq(Process), NEW t \in Seq(Process)
  PROVE  /\ s \o t \in Seq(Process)
         /\ Len(s \o t) = Len(s) + Len(t)
         /\ DOMAIN (s \o t) = 1 .. Len(s) + Len(t)
         /\ \A p \in DOMAIN s : (s \o t)[p] = s[p]
         /\ \A p \in (Len(s) + 1) .. (Len(s) + Len(t)) : (s \o t)[p] = t[p - Len(s)]
<1>1. s \o t \in Seq(Process) /\ Len(s \o t) = Len(s) + Len(t)
  BY ConcatProperties
<1>2. Len(s) \in Nat /\ Len(t) \in Nat /\ DOMAIN s = 1 .. Len(s)
  OBVIOUS
<1>3. \A p \in 1 .. Len(s) + Len(t) : (s \o t)[p] = IF p <= Len(s) THEN s[p] ELSE t[p - Len(s)]
  BY ConcatProperties
<1>4. QED
  BY <1>1, <1>2, <1>3

LEMMA KilledFacts ==
  ASSUME TypeOK, NEW pids
  PROVE  /\ Killed(pids) \in Seq(Process)
         /\ Len(Killed(pids)) = Len(procs)
         /\ DOMAIN Killed(pids) = Pids
         /\ \A p \in Pids :
               /\ Killed(pids)[p].role = procs[p].role
               /\ Killed(pids)[p].num = procs[p].num
               /\ procs[p].state = "dead" <=> Killed(pids)[p].state = "dead"
               /\ Killed(pids)[p].state \in {"booting", "up"} => Running(p) /\ p \notin pids
<1>1. \A p \in Pids : procs[p] \in Process
  BY DEF TypeOK, Pids
<1>2. ASSUME NEW p \in Pids
      PROVE  /\ Killed(pids)[p] \in Process
             /\ Killed(pids)[p].role = procs[p].role
             /\ Killed(pids)[p].num = procs[p].num
             /\ procs[p].state = "dead" <=> Killed(pids)[p].state = "dead"
             /\ Killed(pids)[p].state \in {"booting", "up"} => Running(p) /\ p \notin pids
  BY <1>1, <1>2 DEF Killed, Running, Process
<1>3. Pids = 1 .. Len(procs) /\ Len(procs) \in Nat
  BY DEF TypeOK, Pids
<1>4. Killed(pids) = [p \in 1 .. Len(procs) |-> Killed(pids)[p]]
  BY <1>3 DEF Killed
<1>5. Killed(pids) \in [1 .. Len(procs) -> Process]
  BY <1>2, <1>3, <1>4
<1>6. Killed(pids) \in Seq(Process) /\ Len(Killed(pids)) = Len(procs)
  BY <1>3, <1>5
<1>7. QED
  BY <1>2, <1>3, <1>5, <1>6

-----------------------------------------------------------------------------
(* The invariant *)

LEMMA InitInv == Init => IInv
<1>1. SUFFICES ASSUME Init PROVE IInv
  OBVIOUS
<1>2. /\ FamilySize \in 0 .. FamilySize /\ NoNum \in 0 .. FamilySize
      /\ MaxMishaps \in 0 .. MaxMishaps /\ MaxRestarts \in 0 .. MaxRestarts
  BY GardenerAssumption DEF NoNum
<1>3. Fork("shared", NoNum) \in Process /\ Fork("data", NoNum) \in Process
  BY <1>2, ForkType
<1>4. /\ procs \in Seq(Process) /\ Pids = {1, 2}
      /\ procs[1].role = "shared" /\ procs[2].role = "data"
  BY <1>1, <1>2, <1>3, ForkType DEF Init, Pids
<1>5. TypeOK
  BY <1>1, <1>2, <1>4 DEF Init, TypeOK
<1>6. QED
  BY <1>1, <1>4, <1>5 DEF Init, IInv, Known, NoOrphans

\* whoever exits kills all it knows
LEMMA ExitInv ==
  ASSUME IInv, OnExit, mishaps' \in 0 .. MaxMishaps, restarts' \in 0 .. MaxRestarts
  PROVE  IInv'
<1> DEFINE K == garden \cup {caij, shared, data}
<1>1. /\ procs' = Killed(K) /\ master' = "exited" /\ exits' = {} /\ inbox' = {}
      /\ garden' = garden /\ caij' = caij /\ shared' = shared /\ data' = data
  BY DEF OnExit
<1>2. /\ procs' \in Seq(Process) /\ Pids' = Pids
      /\ \A p \in Pids :
            /\ procs'[p].role = procs[p].role
            /\ procs'[p].num = procs[p].num
            /\ procs[p].state = "dead" <=> procs'[p].state = "dead"
            /\ procs'[p].state \in {"booting", "up"} => Running(p) /\ p \notin K
  BY <1>1, KilledFacts DEF IInv, Pids
<1>3. \A p \in Pids : ~Running(p)'
  BY <1>2 DEF IInv, Known, Running
<1>4. TypeOK'
  BY <1>1, <1>2 DEF IInv, TypeOK
<1>5. NoOrphans' /\ \A p \in Pids' : Known(p)'
  BY <1>2, <1>3 DEF NoOrphans, Known
<1>6. garden \subseteq Pids
  BY DEF IInv, TypeOK
<1>7. \A p \in garden' : procs'[p].role = "worker"
  BY <1>1, <1>2, <1>6 DEF IInv
<1>8. \A p \in Pids' : procs'[p].role = "worker" /\ procs'[p].state # "dead" => p \in garden'
  BY <1>1, <1>2 DEF IInv
<1>9. ASSUME NEW p \in garden', NEW q \in garden', procs'[p].num = procs'[q].num
      PROVE  p = q
  <2>1. p \in garden /\ q \in garden /\ procs[p].num = procs[q].num
    BY <1>1, <1>2, <1>6, <1>9
  <2>2. QED
    BY <2>1 DEF IInv
<1>10. QED
  BY <1>1, <1>4, <1>5, <1>7, <1>8, <1>9 DEF IInv

\* what the others do to the processes: none is forked, none runs which did not, and what
\* was dead still is
LEMMA StateInv ==
  ASSUME IInv, NEW p \in Pids, NEW st \in {"booting", "up", "doomed", "dead"},
         st \in {"booting", "up"} => Running(p),
         st # "dead" => procs[p].state # "dead",
         procs' = [procs EXCEPT ![p].state = st],
         exits' \in {exits, exits \cup {p}}, exits' # exits => st = "dead",
         p \in exits => st = "dead",
         UNCHANGED <<master, garden, caij, shared, data, inbox>>,
         mishaps' \in 0 .. MaxMishaps, restarts' \in 0 .. MaxRestarts
  PROVE  IInv'
<1> DEFINE x == [procs[p] EXCEPT !.state = st]
<1>1. procs \in Seq(Process) /\ procs[p] \in Process
  BY DEF IInv, TypeOK, Pids
<1>a. x \in Process /\ x.role = procs[p].role /\ x.num = procs[p].num /\ x.state = st
  BY <1>1 DEF Process
<1>b. procs' = [procs EXCEPT ![p] = x]
  OBVIOUS
<1> HIDE DEF x
<1>2. procs' \in Seq(Process) /\ Pids' = Pids
  BY <1>1, <1>a, <1>b DEF Pids
<1>3. /\ \A q \in Pids : q # p => procs'[q] = procs[q]
      /\ procs'[p].role = procs[p].role /\ procs'[p].num = procs[p].num /\ procs'[p].state = st
  BY <1>1, <1>a, <1>b DEF Pids
<1>4. \A q \in Pids : Running(q)' => Running(q)
  BY <1>3 DEF Running
<1>5. TypeOK'
  BY <1>2 DEF IInv, TypeOK
<1>6. NoOrphans' /\ \A q \in Pids' : Known(q)'
  BY <1>2, <1>4 DEF IInv, NoOrphans, Known
<1>7. \A q \in exits' : procs'[q].state = "dead"
  BY <1>3 DEF IInv, TypeOK
<1>8. QED
  BY <1>2, <1>3, <1>5, <1>6, <1>7 DEF IInv, TypeOK

\* a dead process is forked again in its place
LEMMA ForkInv ==
  ASSUME IInv, NEW p \in exits, master = "running",
         exits' = exits \ {p},
         UNCHANGED <<master, shared, data, inbox, mishaps, restarts>>,
         NEW role \in {"worker", "caij"}, NEW num \in 0 .. FamilySize,
         procs' = Append(procs, Fork(role, num)),
         \/ /\ role = "caij" /\ p = caij
            /\ caij' = Len(procs) + 1 /\ garden' = garden
         \/ /\ role = "worker" /\ p \in garden /\ num = procs[p].num
            /\ caij' = caij /\ garden' = (garden \ {p}) \cup {Len(procs) + 1}
  PROVE  IInv'
<1> DEFINE new == Len(procs) + 1
<1>1. /\ Fork(role, num) \in Process
      /\ Fork(role, num).role = role /\ Fork(role, num).num = num
  BY ForkType
<1>2. /\ procs' \in Seq(Process) /\ Pids' = Pids \cup {new} /\ new \notin Pids
      /\ \A q \in Pids : procs'[q] = procs[q]
      /\ procs'[new] = Fork(role, num)
  BY <1>1, AppendOne DEF IInv, TypeOK, Pids
<1>3. /\ garden \subseteq Pids /\ exits \subseteq Pids /\ p \in Pids
      /\ procs[p].state = "dead" /\ ~Running(p)
  BY DEF IInv, TypeOK, Running
<1>4. TypeOK'
  BY <1>2, <1>3 DEF IInv, TypeOK
<1>5. \A q \in Pids' : Known(q)'
  BY <1>2, <1>3 DEF IInv, Known, Running
<1>a. \A q \in garden : procs[q].role = "worker" /\ \A r \in garden : procs[q].num = procs[r].num => q = r
  BY DEF IInv
<1>6. \A q \in garden' : procs'[q].role = "worker"
  <2>1. CASE role = "caij"
    BY <1>2, <1>3, <1>a, <2>1
  <2>2. CASE role = "worker"
    BY <1>1, <1>2, <1>3, <1>a, <2>2
  <2>3. QED
    BY <2>1, <2>2
<1>7. \A q \in Pids' : procs'[q].role = "worker" /\ procs'[q].state # "dead" => q \in garden'
  <2>1. ASSUME NEW q \in Pids, procs[q].role = "worker", procs[q].state # "dead"
        PROVE  q \in garden /\ q # p
    BY <1>3, <2>1 DEF IInv
  <2>2. role = "worker" => new \in garden'
    OBVIOUS
  <2>3. garden \ {p} \subseteq garden'
    OBVIOUS
  <2>4. procs'[new].role = role
    BY <1>1, <1>2
  <2>5. QED
    BY <1>2, <2>1, <2>2, <2>3, <2>4
<1>8. \A q, r \in garden' : procs'[q].num = procs'[r].num => q = r
  <2>1. CASE role = "caij"
    <3>1. garden' = garden
      BY <2>1
    <3>2. ASSUME NEW q \in garden, NEW r \in garden, procs'[q].num = procs'[r].num
          PROVE  q = r
      <4>1. procs[q].num = procs[r].num
        BY <1>2, <1>3, <3>2
      <4>2. QED
        BY <1>a, <4>1
    <3>3. QED
      BY <3>1, <3>2
  <2>2. CASE role = "worker"
    <3>1. /\ num = procs[p].num /\ p \in garden
          /\ garden' = (garden \ {p}) \cup {new}
      BY <2>2
    <3>2. ASSUME NEW q \in garden', NEW r \in garden', procs'[q].num = procs'[r].num
          PROVE  q = r
      <4> DEFINE Old(x) == IF x = new THEN p ELSE x
      <4>1. \A x \in garden' : Old(x) \in garden /\ procs'[x].num = procs[Old(x)].num
        BY <1>1, <1>2, <1>3, <3>1
      <4>2. Old(q) = Old(r)
        <5>1. Old(q) \in garden /\ Old(r) \in garden /\ procs[Old(q)].num = procs[Old(r)].num
          BY <3>2, <4>1
        <5>2. QED
          BY <1>a, <5>1
      <4>3. QED
        BY <1>3, <3>1, <3>2, <4>2
    <3>3. QED
      BY <3>2
  <2>3. QED
    BY <2>1, <2>2
<1>9. \A q \in exits' : procs'[q].state = "dead"
  BY <1>2, <1>3 DEF IInv
<1>10. QED
  BY <1>4, <1>5, <1>6, <1>7, <1>8, <1>9 DEF IInv, NoOrphans
LEMMA OpenInv ==
  ASSUME IInv, OpenRedis
  PROVE  IInv'
<1> DEFINE n == Len(procs)
           w == [i \in 1 .. FamilySize |-> Fork("worker", i - 1)]
           s == procs \o <<Fork("caij", NoNum)>>
<1>1. /\ FamilySize \in Nat /\ FamilySize > 0 /\ n \in Nat
      /\ procs \in Seq(Process) /\ Pids = 1 .. n
      /\ garden = {} /\ caij = 0 /\ exits \subseteq Pids
  BY GardenerAssumption DEF IInv, TypeOK, OpenRedis, Pids
<1>2. /\ Fork("caij", NoNum) \in Process /\ Fork("caij", NoNum).role = "caij"
  BY <1>1, ForkType DEF NoNum
<1>3. /\ <<Fork("caij", NoNum)>> \in Seq(Process) /\ Len(<<Fork("caij", NoNum)>>) = 1
      /\ <<Fork("caij", NoNum)>>[1] = Fork("caij", NoNum)
  BY <1>2
<1>4. /\ s \in Seq(Process) /\ Len(s) = n + 1
      /\ \A p \in Pids : s[p] = procs[p]
      /\ s[n + 1] = Fork("caij", NoNum)
  <2>1. /\ s \in Seq(Process) /\ Len(s) = n + 1
        /\ \A p \in Pids : s[p] = procs[p]
        /\ s[n + 1] = <<Fork("caij", NoNum)>>[n + 1 - n]
    BY <1>1, <1>3, ConcatTwo DEF Pids
  <2>2. n + 1 - n = 1
    BY <1>1
  <2>3. QED
    BY <1>3, <2>1, <2>2
<1>5. \A i \in 1 .. FamilySize :
        w[i] \in Process /\ w[i].role = "worker" /\ w[i].num = i - 1
  <2>1. ASSUME NEW i \in 1 .. FamilySize
        PROVE  i - 1 \in 0 .. FamilySize /\ w[i] = Fork("worker", i - 1)
    BY <1>1
  <2>2. QED
    BY <2>1, ForkType
<1>6. w \in Seq(Process) /\ Len(w) = FamilySize
  BY <1>1, <1>5
<1> HIDE DEF w, s
<1>7. procs' = s \o w
  BY DEF OpenRedis, s, w
<1>8. /\ procs' \in Seq(Process) /\ Pids' = 1 .. n + 1 + FamilySize
      /\ \A p \in Pids : procs'[p] = procs[p]
      /\ procs'[n + 1].role = "caij"
      /\ \A p \in (n + 2) .. (n + 1 + FamilySize) : procs'[p].role = "worker" /\ procs'[p].num = p - n - 2
  <2>1. /\ procs' \in Seq(Process) /\ Pids' = 1 .. n + 1 + FamilySize
        /\ \A p \in DOMAIN s : procs'[p] = s[p]
        /\ \A p \in (n + 1 + 1) .. (n + 1 + FamilySize) : procs'[p] = w[p - (n + 1)]
    BY <1>4, <1>6, <1>7, ConcatTwo DEF Pids
  <2>2. DOMAIN s = 1 .. n + 1
    BY <1>4
  <2>3. \A p \in (n + 2) .. (n + 1 + FamilySize) : p - (n + 1) \in 1 .. FamilySize /\ p - (n + 1) - 1 = p - n - 2
    BY <1>1
  <2>4. \A p \in Pids : procs'[p] = procs[p]
    BY <1>1, <1>4, <2>1, <2>2
  <2>5. procs'[n + 1].role = "caij"
    BY <1>1, <1>2, <1>4, <2>1, <2>2
  <2>6. ASSUME NEW p \in (n + 2) .. (n + 1 + FamilySize)
        PROVE  procs'[p].role = "worker" /\ procs'[p].num = p - n - 2
    <3>1. procs'[p] = w[p - (n + 1)]
      BY <1>1, <2>1
    <3>2. QED
      BY <1>5, <2>3, <3>1
  <2>7. QED
    BY <2>1, <2>4, <2>5, <2>6
<1>9. /\ caij' = n + 1 /\ garden' = (n + 2) .. (n + 1 + FamilySize)
      /\ master' = "running" /\ exits' = exits /\ inbox' = inbox
      /\ shared' = shared /\ data' = data /\ mishaps' = mishaps /\ restarts' = restarts
  BY DEF OpenRedis
<1>10. /\ Pids' = Pids \cup {n + 1} \cup garden' /\ Pids \subseteq Pids'
  BY <1>1, <1>8, <1>9
<1>11. TypeOK'
  BY <1>8, <1>9, <1>10 DEF IInv, TypeOK
<1>12. \A p \in Pids' : Known(p)'
  <2>1. ASSUME NEW p \in Pids, Running(p)'
        PROVE  p \in {shared, data}
    <3>1. Running(p)
      BY <1>8, <2>1 DEF Running
    <3>2. QED
      BY <1>1, <3>1 DEF IInv, Known
  <2>2. QED
    BY <1>9, <1>10, <2>1 DEF Known
<1>13. \A p \in Pids' : procs'[p].role = "worker" /\ procs'[p].state # "dead" => p \in garden'
  <2>1. \A p \in Pids : procs'[p].role = "worker" => procs'[p].state = "dead"
    BY <1>1, <1>8 DEF IInv
  <2>2. QED
    BY <1>8, <1>10, <2>1
<1>14. \A p \in garden' : procs'[p].role = "worker"
  BY <1>8, <1>9
<1>15. ASSUME NEW p \in garden', NEW q \in garden', procs'[p].num = procs'[q].num
       PROVE  p = q
  <2>1. p - n - 2 = q - n - 2 /\ p \in Int /\ q \in Int
    BY <1>1, <1>8, <1>9, <1>15
  <2>2. QED
    BY <1>1, <2>1
<1>16. \A p \in exits' : procs'[p].state = "dead"
  BY <1>1, <1>8, <1>9 DEF IInv
<1>17. QED
  BY <1>9, <1>11, <1>12, <1>13, <1>14, <1>15, <1>16 DEF IInv, NoOrphans

LEMMA RestartInv ==
  ASSUME IInv, UpdateAndRestart
  PROVE  IInv'
<1> DEFINE n == Len(procs)
           K == garden \cup {caij, shared, data}
           k == Killed(K)
           t == <<Fork("shared", NoNum), Fork("data", NoNum)>>
<1>1. /\ procs \in Seq(Process) /\ Pids = 1 .. n /\ n \in Nat
      /\ garden \subseteq Pids /\ exits \subseteq Pids /\ master = "running"
  BY DEF IInv, TypeOK, UpdateAndRestart, Pids
<1>2. /\ k \in Seq(Process) /\ Len(k) = n /\ DOMAIN k = Pids
      /\ \A p \in Pids :
            /\ k[p].role = procs[p].role
            /\ k[p].num = procs[p].num
            /\ procs[p].state = "dead" <=> k[p].state = "dead"
            /\ k[p].state \in {"booting", "up"} => Running(p) /\ p \notin K
  BY KilledFacts DEF IInv
<1>3. /\ Fork("shared", NoNum) \in Process /\ Fork("shared", NoNum).role = "shared"
      /\ Fork("data", NoNum) \in Process /\ Fork("data", NoNum).role = "data"
  BY GardenerAssumption, ForkType DEF NoNum
<1>4. t \in Seq(Process) /\ Len(t) = 2 /\ t[1].role = "shared" /\ t[2].role = "data"
  BY <1>3
<1> HIDE DEF k, t
<1>5. procs' = k \o t
  BY DEF UpdateAndRestart, k, t
<1>6. /\ procs' \in Seq(Process) /\ Pids' = 1 .. n + 2
      /\ \A p \in Pids : procs'[p] = k[p]
      /\ procs'[n + 1].role = "shared" /\ procs'[n + 2].role = "data"
  <2>1. /\ procs' \in Seq(Process) /\ Pids' = 1 .. n + 2
        /\ \A p \in Pids : procs'[p] = k[p]
        /\ \A p \in (n + 1) .. (n + 2) : procs'[p] = t[p - n]
    <3>1. /\ k \o t \in Seq(Process) /\ DOMAIN (k \o t) = 1 .. n + 2
          /\ \A p \in DOMAIN k : (k \o t)[p] = k[p]
          /\ \A p \in (n + 1) .. (n + 2) : (k \o t)[p] = t[p - n]
      BY <1>2, <1>4, ConcatTwo
    <3>2. QED
      BY <1>2, <1>5, <3>1 DEF Pids
  <2>2. n + 1 - n = 1 /\ n + 2 - n = 2
    BY <1>1
  <2>3. QED
    BY <1>1, <1>4, <2>1, <2>2
<1>7. Pids' = Pids \cup {n + 1, n + 2}
  BY <1>1, <1>6
<1>8. /\ shared' = n + 1 /\ data' = n + 2 /\ caij' = caij /\ garden' = garden /\ exits' = exits
      /\ inbox' \subseteq inbox /\ master' = master /\ mishaps' = mishaps /\ restarts' = restarts
  BY DEF UpdateAndRestart
<1>9. TypeOK'
  BY <1>6, <1>7, <1>8 DEF IInv, TypeOK
<1>10. \A p \in Pids' : Known(p)'
  <2>1. \A p \in Pids : ~Running(p)'
    BY <1>2, <1>6 DEF IInv, Known, Running
  <2>2. QED
    BY <1>7, <1>8, <2>1 DEF Known
<1>11. \A p \in Pids' : procs'[p].role = "worker" /\ procs'[p].state # "dead" => p \in garden'
  BY <1>2, <1>6, <1>7, <1>8 DEF IInv
<1>12. \A p \in garden' : procs'[p].role = "worker"
  BY <1>1, <1>2, <1>6, <1>8 DEF IInv
<1>13. ASSUME NEW p \in garden', NEW q \in garden', procs'[p].num = procs'[q].num
       PROVE  p = q
  <2>1. p \in garden /\ q \in garden /\ procs[p].num = procs[q].num
    BY <1>1, <1>2, <1>6, <1>8, <1>13
  <2>2. QED
    BY <2>1 DEF IInv
<1>14. \A p \in exits' : procs'[p].state = "dead"
  BY <1>1, <1>2, <1>6, <1>8 DEF IInv
<1>15. QED
  BY <1>1, <1>8, <1>9, <1>10, <1>11, <1>12, <1>13, <1>14 DEF IInv, NoOrphans
LEMMA StutterInv ==
  ASSUME IInv, procs' = procs, master' = master, garden' = garden, caij' = caij, shared' = shared, data' = data,
         exits' \subseteq exits, inbox' \subseteq {"fatal", "updateAndRestart"},
         mishaps' \in 0 .. MaxMishaps, restarts' \in 0 .. MaxRestarts
  PROVE  IInv'
<1>1. Pids' = Pids /\ exits \subseteq Pids
  BY DEF IInv, TypeOK, Pids
<1>2. TypeOK'
  BY <1>1 DEF IInv, TypeOK
<1>3. NoOrphans' /\ \A p \in Pids' : Known(p)'
  BY <1>1 DEF IInv, NoOrphans, Known, Running
<1>4. QED
  BY <1>1, <1>2, <1>3 DEF IInv

LEMMA StepInv == IInv /\ [Next]_vars => IInv'
<1> SUFFICES ASSUME IInv, [Next]_vars PROVE IInv'
  OBVIOUS
<1>0. /\ mishaps \in 0 .. MaxMishaps /\ restarts \in 0 .. MaxRestarts
      /\ inbox \subseteq {"fatal", "updateAndRestart"} /\ exits \subseteq Pids
      /\ MaxMishaps \in Nat /\ MaxRestarts \in Nat
  BY GardenerAssumption DEF IInv, TypeOK
<1>a. mishaps > 0 => mishaps - 1 \in 0 .. MaxMishaps
  BY <1>0
<1>b. restarts > 0 => restarts - 1 \in 0 .. MaxRestarts
  BY <1>0
<1>1. CASE OpenRedis
  BY <1>1, OpenInv
<1>2. CASE UpdateAndRestart
  BY <1>2, RestartInv
<1>3. CASE HandleFatal
  BY <1>0, <1>3, ExitInv DEF HandleFatal
<1>4. CASE Interrupt
  BY <1>0, <1>a, <1>4, ExitInv DEF Interrupt
<1>5. ASSUME NEW p \in Pids, LoseExit(p) \/ HandleExit(p)
      PROVE  IInv'
  <2>1. CASE LoseExit(p)
    BY <1>0, <2>1, StutterInv DEF LoseExit
  <2>2. CASE CaijExit(p)
    <3>1. /\ p \in exits /\ master = "running" /\ exits' = exits \ {p} /\ p = caij
          /\ procs' = Append(procs, Fork("caij", NoNum))
          /\ caij' = Len(procs) + 1 /\ garden' = garden
          /\ UNCHANGED <<master, shared, data, inbox, mishaps, restarts>>
      BY <2>2 DEF CaijExit
    <3>2. NoNum \in 0 .. FamilySize
      BY GardenerAssumption DEF NoNum
    <3>3. QED
      BY <3>1, <3>2, ForkInv
  <2>3. CASE WorkerExit(p)
    <3>1. /\ p \in exits /\ p \in garden /\ master = "running" /\ exits' = exits \ {p}
          /\ procs' = Append(procs, Fork("worker", procs[p].num))
          /\ caij' = caij /\ garden' = (garden \ {p}) \cup {Len(procs) + 1}
          /\ UNCHANGED <<master, shared, data, inbox, mishaps, restarts>>
      BY <2>3 DEF WorkerExit
    <3>2. procs[p].num \in 0 .. FamilySize
      <4>1. procs[p] \in Process
        BY DEF IInv, TypeOK, Pids
      <4>2. QED
        BY <4>1 DEF Process
    <3>3. QED
      BY <3>1, <3>2, ForkInv
  <2>4. CASE StrangerExit(p)
    BY <1>0, <2>4, ExitInv DEF StrangerExit
  <2>5. QED
    BY <1>5, <2>1, <2>2, <2>3, <2>4 DEF HandleExit
<1>6. ASSUME NEW p \in Pids, Boot(p) \/ DieOfKill(p) \/ DieOfItself(p)
      PROVE  IInv'
  <2>1. CASE Boot(p)
    <3>1. procs[p].state = "booting" /\ Running(p) /\ p \notin exits
      BY <2>1 DEF IInv, Boot, Running
    <3>2. /\ procs' = [procs EXCEPT ![p].state = "up"] /\ exits' = exits
          /\ mishaps' = mishaps /\ restarts' = restarts
          /\ UNCHANGED <<master, garden, caij, shared, data, inbox>>
      BY <2>1 DEF Boot
    <3>3. QED
      BY <1>0, <3>1, <3>2, StateInv
  <2>2. CASE Die(p) /\ mishaps' \in 0 .. MaxMishaps
    <3>1. /\ procs' = [procs EXCEPT ![p].state = "dead"] /\ exits' \in {exits, exits \cup {p}}
          /\ restarts' = restarts
          /\ UNCHANGED <<master, garden, caij, shared, data, inbox>>
      BY <2>2 DEF Die
    <3>2. QED
      BY <1>0, <2>2, <3>1, StateInv
  <2>3. QED
    BY <1>0, <1>a, <1>6, <2>1, <2>2 DEF DieOfKill, DieOfItself
<1>7. ASSUME NEW p \in Pids, CacheFails(p) \/ OtherFatal(p) \/ AskRestart(p)
      PROVE  IInv'
  <2>1. /\ procs' = procs /\ master' = master /\ garden' = garden /\ caij' = caij /\ shared' = shared /\ data' = data
        /\ exits' = exits /\ inbox' \subseteq {"fatal", "updateAndRestart"}
    BY <1>0, <1>7 DEF CacheFails, OtherFatal, AskRestart, Tell
  <2>2. mishaps' \in 0 .. MaxMishaps /\ restarts' \in 0 .. MaxRestarts
    BY <1>0, <1>a, <1>b, <1>7 DEF CacheFails, OtherFatal, AskRestart
  <2>3. QED
    BY <2>1, <2>2, StutterInv
<1>8. CASE UNCHANGED vars
  BY <1>0, <1>8, StutterInv DEF vars
<1>9. QED
  BY <1>1, <1>2, <1>3, <1>4, <1>5, <1>6, <1>7, <1>8 DEF Next

-----------------------------------------------------------------------------
(* Theorems *)

THEOREM Invariant == Spec => []IInv
<1>1. Init => IInv
  BY InitInv
<1>2. IInv /\ [Next]_vars => IInv'
  BY StepInv
<1>3. QED
  BY <1>1, <1>2, PTL DEF Spec

\* What the gardener knows are processes it has forked (GardenerCluster.start, gardener.js:114).
THEOREM TreeTyped == Spec => []TypeOK
<1>1. IInv => TypeOK
  BY DEF IInv
<1>2. QED
  BY <1>1, Invariant, PTL

\* Two processes never run under one instance number, whatever dies and is forked again: a worker which
\* is not dead is in the garden, and a number is passed on when its worker is taken out of it
\* (gardener.js:153).
THEOREM OneProcessANumber == Spec => []InstancesUnique
<1>1. IInv => InstancesUnique
  <2> SUFFICES ASSUME IInv, NEW p \in Pids, NEW q \in Pids,
                      procs[p].role = "worker", procs[p].state # "dead",
                      procs[q].role = "worker", procs[q].state # "dead",
                      procs[p].num = procs[q].num
               PROVE  p = q
    BY DEF InstancesUnique
  <2>1. p \in garden /\ q \in garden
    BY DEF IInv
  <2>2. QED
    BY <2>1 DEF IInv
<1>2. QED
  BY <1>1, Invariant, PTL

\* When the gardener has exited no process is left which nobody kills: it has a variable for every one
\* which runs (gardener.js:49).
THEOREM NothingLeft == Spec => []NoOrphans
<1>1. IInv => NoOrphans
  BY DEF IInv
<1>2. QED
  BY <1>1, Invariant, PTL
=============================================================================
