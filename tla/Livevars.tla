------------------------------ MODULE Livevars ------------------------------
(***************************************************************************)
(* A request for several live variables (pipeline/livevars.js): each is    *)
(* looked up after a timeout of zero, and the answer is sent when as many  *)
(* callbacks as variables have come.                                       *)
(***************************************************************************)
EXTENDS Naturals, FiniteSets

CONSTANTS Vars   \* variables asked for

VARIABLES
    kind,      \* what the callback of each variable does
    left,      \* how often each will still call back; 3 before it is looked up
    index,     \* callbacks counted, from the one startLoop makes itself
    response,  \* code of the response so far, and whether it was sent
    assoc      \* variables which have a value

vars == <<kind, left, index, response, assoc>>

\* unregistered is what nobody registered, or the user may not read
Kinds == {"once", "twice", "never", "throws", "unregistered"}

NotYet == 3

TypeOK ==
    /\ kind \in [Vars -> Kinds]
    /\ left \in [Vars -> 0..NotYet]
    /\ index \in 0..(2 * Cardinality(Vars))
    /\ response \in [code : {200, 403}, sent : SUBSET {"full", "partial", "again"}]
    /\ assoc \subseteq Vars

\* checkForCompletion() is called once before the variables are looked up; index starts at -1
Init ==
    /\ kind \in [Vars -> Kinds]
    /\ left = [v \in Vars |-> NotYet]
    /\ index = 0
    /\ response = [code |-> 200, sent |-> {}]
    /\ assoc = {}

\* A mutant of Count: the answer is sent when at least as many have called back.
CountAtLeast(code, values) ==
    /\ index' = index + 1
    /\ assoc' = values
    /\ response' = [code |-> code,
                    sent |-> IF index + 1 >= Cardinality(Vars) THEN response.sent \union
                                 (IF response.sent # {} THEN {"again"}
                                  ELSE IF values = Vars THEN {"full"} ELSE {"partial"})
                             ELSE response.sent]

\* checkForCompletion()
Count(code, values) ==
    /\ index' = index + 1
    /\ assoc' = values
    /\ response' = [code |-> code,
                    sent |-> IF index + 1 = Cardinality(Vars) THEN response.sent \union
                                 (IF response.sent # {} THEN {"again"}
                                  ELSE IF values = Vars THEN {"full"} ELSE {"partial"})
                             ELSE response.sent]

\* handleOneVar(): secondLevelVars goes straight to it, its loop never being entered
LookUp(v) ==
    /\ left[v] = NotYet
    /\ CASE kind[v] = "unregistered" -> Count(403, assoc \union {v}) /\ left' = [left EXCEPT ![v] = 0]
         [] kind[v] \in {"never", "throws"} -> left' = [left EXCEPT ![v] = 0]
                                               /\ UNCHANGED <<index, response, assoc>>
         [] OTHER -> left' = [left EXCEPT ![v] = IF kind[v] = "once" THEN 1 ELSE 2]
                     /\ UNCHANGED <<index, response, assoc>>
    /\ UNCHANGED kind

CallBack(v) ==
    /\ left[v] \in {1, 2}
    /\ left' = [left EXCEPT ![v] = @ - 1]
    /\ Count(response.code, assoc \union {v})
    /\ UNCHANGED kind

Step(v) == LookUp(v) \/ CallBack(v)

Next == \E v \in Vars : Step(v)

Spec == Init /\ [][Next]_vars /\ WF_vars(Next)

-----------------------------------------------------------------------------
(* Properties *)

\* The answer is sent once, and has every variable unless one of them called back twice
\* and stood for another (livevars.js:113).
AnswerComplete ==
    /\ "again" \notin response.sent
    /\ "partial" \in response.sent => \E v \in Vars : kind[v] = "twice"

\* The answer is sent, if each variable which is registered calls back; nothing else answers the
\* client, who waits for the timeout of the server (livevars.js:79).
AnswerSent == (\A v \in Vars : kind[v] \in {"once", "unregistered"}) => <>(response.sent # {})
=============================================================================
