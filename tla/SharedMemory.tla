---------------------------- MODULE SharedMemory ----------------------------
(***************************************************************************)
(* The memory which all processes share (network/sharedmemory.js), one key *)
(* of its cache, and the calls of its clients (lib/sharedcache.js).  Each  *)
(* call has a connection of its own, may arrive in pieces, and is answered *)
(* when the connection ends.                                               *)
(***************************************************************************)
EXTENDS Naturals, SequencesExt, FiniteSetsExt

CONSTANTS
    Values,      \* values, of more than one byte a character
    Garbled,     \* what a value is when a piece ended within a character
    MaxCalls     \* bound on the calls, crashes of the server included

VARIABLES
    memory,  \* nothing, a value, or a list
    calls    \* calls in the order they were made: how each ended, what the server answered and what the
             \* client made of it, and those which had ended before it

vars == <<memory, calls>>

Nothing == [is |-> "nothing", items |-> << >>]
One(v) == [is |-> "value", items |-> <<v>>]
List(s) == [is |-> "list", items |-> s]

Actions == {"set", "unset", "push", "rem", "get"}
Stored == Values \union {Garbled}

TypeOK ==
    /\ memory.is \in {"nothing", "value", "list"} /\ ToSet(memory.items) \subseteq Stored
    /\ Len(calls) <= MaxCalls
    /\ \A i \in DOMAIN calls :
          /\ calls[i].action \in Actions \union {"crash"} /\ calls[i].value \in Stored
          /\ calls[i].state \in {"sent", "partly", "ended", "unread", "back", "silent", "dead"}
          /\ calls[i].after \subseteq 1..(i - 1)

Init == memory = Nothing /\ calls = << >>

-----------------------------------------------------------------------------
(* setCache(), unsetCache(), pushCache() and remCache(); the last two throw on what is no list, and change *)
(* nothing.                                                                                                *)

Throws(m, call) ==
    \/ call.action = "push" /\ m.is = "value"
    \/ call.action = "rem" /\ m = One(call.value)

Applied(m, call) ==
    CASE call.action = "set" -> One(call.value)
      [] call.action \in {"unset", "crash"} -> Nothing
      [] call.action = "push" /\ m.is # "value" -> List(Append(m.items, call.value))
      [] call.action = "rem" /\ m.is = "list" /\ call.value \in ToSet(m.items) ->
            List(RemoveFirst(m.items, call.value))
      [] OTHER -> m

-----------------------------------------------------------------------------

Back == {i \in DOMAIN calls : calls[i].state = "back"}

NewCall(action, value, state) ==
    /\ Len(calls) < MaxCalls
    /\ calls' = Append(calls, [action |-> action, value |-> value, state |-> state, answer |-> Nothing,
                               heard |-> Nothing, after |-> Back])

Call ==
    /\ \E action \in Actions : \E v \in Values :
          /\ action \in {"unset", "get"} => v = CHOOSE w \in Values : TRUE
          /\ NewCall(action, v, "sent")
    /\ UNCHANGED memory

\* a piece which does not end the request; of what has no value it makes no difference
Piece(i) ==
    /\ calls[i].state = "sent" /\ calls[i].action \notin {"unset", "get"}
    /\ \E v \in {calls[i].value, Garbled} : calls' = [calls EXCEPT ![i].state = "partly", ![i].value = v]
    /\ UNCHANGED memory

\* a call which throws is never answered, and nobody reads the answer to rem(), which does not end before
\* it is read
AfterServe(call) ==
    IF Throws(memory, call) THEN "silent" ELSE IF call.action = "rem" THEN "unread" ELSE "ended"

\* A mutant of Serve: a request which came in pieces ends before it is handled.
ServeWhole(i) ==
    /\ calls[i].state \in {"sent", "partly"}
    /\ memory' = IF calls[i].state = "partly" THEN memory ELSE Applied(memory, calls[i])
    /\ calls' = [calls EXCEPT ![i].state = AfterServe(calls[i]),
                              ![i].answer = IF calls[i].action = "get" THEN memory ELSE Nothing]

\* onConnect(): the request is complete
Serve(i) ==
    /\ calls[i].state \in {"sent", "partly"}
    /\ memory' = Applied(memory, calls[i])
    /\ calls' = [calls EXCEPT ![i].state = AfterServe(calls[i]),
                              ![i].answer = IF calls[i].action = "get" THEN memory ELSE Nothing]

\* what a client may make of an answer: it decodes each chunk alone, as the server does
Decoded(m) ==
    {[m EXCEPT !.items = [k \in DOMAIN m.items |-> IF k \in cut THEN Garbled ELSE m.items[k]]] :
        cut \in SUBSET DOMAIN m.items}

\* The client is called back when the answer ends, with what it made of it.
CallBack(i) ==
    /\ calls[i].state = "ended"
    /\ \E m \in Decoded(calls[i].answer) : calls' = [calls EXCEPT ![i].state = "back", ![i].heard = m]
    /\ UNCHANGED memory

\* The server dies and is forked again.  To a client the connection ends without an answer, or breaks,
\* which ends the client.
Crash ==
    /\ LET open == {i \in DOMAIN calls : calls[i].state \in {"sent", "partly", "silent"}} IN
         \E ended \in SUBSET open :
            /\ Len(calls) < MaxCalls
            /\ calls' = Append([i \in DOMAIN calls |->
                                   [calls[i] EXCEPT !.state = IF i \in ended THEN "ended"
                                                              ELSE IF i \in open THEN "dead" ELSE @]],
                               [action |-> "crash", value |-> CHOOSE v \in Values : TRUE, state |-> "back",
                                answer |-> Nothing, heard |-> Nothing, after |-> Back])
    /\ memory' = Nothing

Next ==
    \/ Call \/ Crash
    \/ \E i \in DOMAIN calls : Piece(i) \/ Serve(i) \/ CallBack(i)

Answer == \E i \in DOMAIN calls : Serve(i) \/ CallBack(i)

Spec == Init /\ [][Next]_vars /\ WF_vars(Answer)

-----------------------------------------------------------------------------
(* Properties *)

\* the memory after each of the calls, when they are made in this order
Replay(order) ==
    LET replayed[n \in 0..Len(order)] ==
            IF n = 0 THEN Nothing ELSE Applied(replayed[n - 1], calls[order[n]])
    IN replayed

\* Calls are linearizable, over crashes of the server, which empty the memory: some order of those which
\* called back, and of some which did not, keeps the order in which they were made one after the other,
\* and explains what every client was called back with, but for the characters which were cut on the way
\* back, each of them in that one answer (sharedcache.js:92).  What a piece of a request which ended
\* within a character garbled is the same in any order (sharedmemory.js:99).
Linearizable ==
    \E some \in SUBSET (DOMAIN calls \ Back) : \E order \in SetToSeqs(Back \union some) :
        /\ \A n, m \in DOMAIN order : n < m => order[m] \notin calls[order[n]].after
        /\ LET seen == Replay(order) IN
             \A n \in DOMAIN order :
                order[n] \in Back /\ calls[order[n]].action = "get" =>
                    calls[order[n]].heard \in Decoded(seen[n - 1])

Pending ==
    {i \in DOMAIN calls : calls[i].action \in {"set", "unset", "get"} /\ calls[i].state \notin {"back", "dead"}}

\* Whoever sets, gets or unsets is called back, or ends with the server (sharedcache.js:96).
CalledBack == Pending # {} ~> Pending = {}
=============================================================================
