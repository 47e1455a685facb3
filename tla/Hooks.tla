------------------------------- MODULE Hooks -------------------------------
(***************************************************************************)
(* The callbacks of one event (lib/hooks.js): bound at a priority, or the  *)
(* next one free, fired from the highest; and the chain of asynchronous    *)
(* hooks of a website, each of which starts the next by calling back.      *)
(***************************************************************************)
EXTENDS Naturals, Sequences

CONSTANTS
    Priorities,  \* priorities hooks ask for, naturals
    MaxBinds,    \* bound on the hooks bound
    MaxAsync     \* bound on the asynchronous hooks

VARIABLES
    asked,   \* the priority each hook asked for, in the order of their binding
    given,   \* the priority each was given
    chain,   \* what each asynchronous hook does
    index,   \* i of fireAsync: the last hook which was started
    state    \* of each asynchronous hook; and how often done was called

vars == <<asked, given, chain, index, state>>

\* a hook calls back, says that nobody need go on, calls back twice, or not at all
Fates == {"next", "stop", "twice", "never"}

Hooked == 1..Len(asked)

TypeOK ==
    /\ asked \in Seq(Priorities) /\ Len(asked) <= MaxBinds
    /\ given \in Seq(Nat) /\ Len(given) = Len(asked)
    /\ chain \in Seq(Fates) /\ Len(chain) = MaxAsync
    /\ index \in 0..(2 * MaxAsync + 1)
    /\ state \in [left : [1..MaxAsync -> 0..2], started : SUBSET (1..MaxAsync),
                  done : 0..MaxAsync + 1, thrown : BOOLEAN]

Init ==
    /\ asked = << >> /\ given = << >>
    /\ chain \in [1..MaxAsync -> Fates]
    /\ index = 0
    /\ state = [left |-> [h \in 1..MaxAsync |-> 0], started |-> {}, done |-> 0, thrown |-> FALSE]

-----------------------------------------------------------------------------
(* bind() and trigger() *)

Taken == {given[h] : h \in Hooked}

\* A mutant of FirstFree: the search goes down.
FirstFreeBelow(p) == IF p \notin Taken THEN p
                     ELSE CHOOSE q \in 0..(p + Len(asked)) :
                              q \notin Taken /\ (q < p \/ \A r \in 0..p : r \in Taken)

\* priority++ for as long as it is taken
FirstFree(p) == CHOOSE q \in p..(p + Len(asked)) :
                    q \notin Taken /\ \A r \in p..(q - 1) : r \in Taken

\* A mutant of Bind: a hook whose priority is taken is not kept.
BindFree ==
    /\ Len(asked) < MaxBinds
    /\ \E p \in Priorities :
          /\ asked' = Append(asked, p)
          /\ given' = IF p \in Taken THEN given ELSE Append(given, p)
    /\ UNCHANGED <<chain, index, state>>

Bind ==
    /\ Len(asked) < MaxBinds
    /\ \E p \in Priorities :
          /\ asked' = Append(asked, p)
          /\ given' = Append(given, FirstFree(p))
    /\ UNCHANGED <<chain, index, state>>

\* the order in which trigger() calls the hooks, if none of them returns true
RunsBefore(g, h) == given[g] > given[h]

-----------------------------------------------------------------------------
(* fireAsync() *)

\* nextHook(): the next hook is started, or done called, or there is nothing to start and
\* that throws
NextHook(left) ==
    /\ index' = index + 1
    /\ state' =
         CASE index + 1 = MaxAsync + 1 -> [state EXCEPT !.left = left, !.done = @ + 1]
           [] index + 1 > MaxAsync + 1 -> [state EXCEPT !.left = left, !.thrown = TRUE]
           [] OTHER -> [state EXCEPT !.started = @ \union {index + 1},
                            !.left = [left EXCEPT ![index + 1] =
                                CASE chain[index + 1] = "twice" -> 2
                                  [] chain[index + 1] = "never" -> 0
                                  [] OTHER -> 1]]

Fire ==
    /\ index = 0
    /\ NextHook(state.left)
    /\ UNCHANGED <<asked, given, chain>>

\* a hook calls back
CallBack(h) ==
    /\ state.left[h] > 0
    /\ LET left == [state.left EXCEPT ![h] = @ - 1] IN
         IF chain[h] = "stop"
         THEN /\ state' = [state EXCEPT !.left = left, !.done = @ + 1]
              /\ UNCHANGED index
         ELSE NextHook(left)
    /\ UNCHANGED <<asked, given, chain>>

Next == Bind \/ Fire \/ \E h \in 1..MaxAsync : CallBack(h)

Spec == Init /\ [][Next]_vars /\ WF_vars(\E h \in 1..MaxAsync : CallBack(h)) /\ WF_vars(Fire)

-----------------------------------------------------------------------------
(* Properties *)

\* A hook bound later with at least the priority of an earlier one runs before it, whatever
\* priorities were taken when they asked (hooks.js:69).
LaterRunsFirst ==
    \A g, h \in Hooked : g < h /\ asked[h] >= asked[g] => RunsBefore(h, g)

\* Unless a hook calls back twice, each is started after those before it have called back, none
\* after one said stop, and done is called once (hooks.js:117).
ChainInOrder ==
    (\A h \in 1..MaxAsync : chain[h] # "twice") =>
        /\ \A h \in state.started : \A g \in 1..(h - 1) : chain[g] = "next" /\ state.left[g] = 0
        /\ state.done <= 1 /\ ~state.thrown

\* The chain comes to its end if each hook calls back (hooks.js:121).
ChainEnds == (\A h \in 1..MaxAsync : chain[h] \in {"next", "stop"}) => <>(state.done = 1)
=============================================================================
