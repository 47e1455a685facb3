---------------------------- MODULE MCMachinery ----------------------------
(***************************************************************************)
(* What runs beside the requests, for TLC: the janitor, the data server,   *)
(* hooks, scheduled jobs, badges, the two template engines, and pages and  *)
(* widgets of the dashboard.  They share no state: part says which of them *)
(* moves in a behaviour, and the others stay where they are.               *)
(***************************************************************************)
EXTENDS Naturals, Sequences, FiniteSets, TLC

CONSTANTS
    Websites, OptedOut, MaxPushes, MaxStrays,
    Priorities, MaxBinds, MaxAsync,
    Ticks, Week, Long, Short, Width, MaxDays,
    MaxBlocks, MaxLines,
    Filters, Batch, MaxItems, MaxRequests,
    MaxChanges, MaxCuts,
    Topics, ChildrenOf, Category, Directories, None, MaxClicks,
    Posts, MaxEdits, MaxOthers,
    Pops, MaxFlips,
    BadgeLevels, MaxEvents,
    Visitors, Articles, Slots, MaxTokens, MaxRestarts

\* three levels, each an event after the other
MCBadgeLevels == <<1, 2, 3>>

\* t1 is a directory of t3 and t4; the topics t1 and t2 are right under the category
CONSTANTS t1, t2, t3, t4, root
MCChildren == (root :> {t1, t2}) @@ (t1 :> {t3, t4}) @@ (t2 :> {}) @@ (t3 :> {}) @@ (t4 :> {})

ASSUME LevelsAssumption == BadgeLevels \in Seq(Nat \ {0}) /\ \A l \in 2..Len(BadgeLevels) : BadgeLevels[l - 1] < BadgeLevels[l]
ASSUME TopicsAssumption == ChildrenOf \in [Topics \union {Category} -> SUBSET Topics]

ASSUME PrioritiesAssumption == Priorities \subseteq Nat
ASSUME AsyncAssumption == MaxAsync \in Nat
\* a week is of more than a day, and all of it but a tick is no longer than a timer takes
ASSUME ScheduleAssumption ==
    /\ Ticks \in Nat \ {0} /\ Week \in Nat \ {0, 1} /\ Long \in Nat \ {0} /\ Short \in Nat \ {0}
    /\ Width \in Nat /\ Week * Ticks <= Width + 1 /\ MaxDays \in Nat /\ Week <= MaxDays
ASSUME NoneAssumption == None \notin Visitors
\* a list has MaxItems items, or one less than a batch, which are not more
ASSUME BatchAssumption == Batch \in Nat \ {0} /\ MaxItems \in Nat /\ Batch - 1 <= MaxItems
ASSUME PopsAssumption == IsFiniteSet(Pops)
ASSUME TokensAssumption == MaxTokens \in Nat /\ MaxRestarts \in Nat
\* the first request of a list and of a picker is counted
ASSUME CountsAssumption ==
    /\ {MaxPushes, MaxStrays, MaxBinds, MaxBlocks, MaxLines, MaxChanges, MaxCuts, MaxEdits, MaxOthers, MaxFlips,
        MaxEvents} \subseteq Nat
    /\ MaxRequests \in Nat \ {0} /\ MaxClicks \in Nat \ {0}

VARIABLES
    part,
    queue, loop, jobs, counts,
    asked, given, chain, index, state,
    job, now, due, runs,
    template, at, flags, loops, written,
    lines, cLine, marks, stack, copies,
    matching, list, loads, listPast,
    field, told, kept, wire, db, net, fieldPast,
    picker, value, asks, pickerPast,
    content, adding, page, chainAsks, chainPast,
    mendatory, read, pops, popAsks, popPast,
    worth, decorations, checks, badgePast,
    rows, keys, favs, sessions, flight, issued, sends, loading, visitPast

CAIJ == INSTANCE Janitor
Hook == INSTANCE Hooks
Sched == INSTANCE Schedule
Lml2 == INSTANCE LmlCompiler
Lml1 == INSTANCE LmlInterpreter WITH
            template <- lines, at <- cLine, flags <- marks, written <- copies, MaxBlocks <- MaxLines
List == INSTANCE BigList WITH flight <- loads, past <- listPast
Field == INSTANCE Autosave WITH queue <- kept, past <- fieldPast
Picker == INSTANCE TopicPicker WITH flight <- asks, past <- pickerPast
Chain == INSTANCE Chains WITH chain <- content, flight <- chainAsks, past <- chainPast
Cake == INSTANCE Cakepops WITH list <- pops, flight <- popAsks, past <- popPast
Badge == INSTANCE Badges WITH Levels <- BadgeLevels, past <- badgePast
Visit == INSTANCE Visitors WITH wire <- sends, past <- visitPast

Parts == {"janitor", "hooks", "schedule", "lml2", "lml",
          "list", "field", "picker", "chains", "cakepops", "badges", "visitors"}

janitor == <<queue, loop, jobs, counts>>
hooks == <<asked, given, chain, index, state>>
schedule == <<job, now, due, runs>>
lml2 == <<template, at, flags, loops, written>>
lml == <<lines, cLine, marks, stack, copies>>
biglist == <<matching, list, loads, listPast>>
autosave == <<field, told, kept, wire, db, net, fieldPast>>
topicpicker == <<picker, value, asks, pickerPast>>
chains == <<content, adding, page, chainAsks, chainPast>>
cakepops == <<mendatory, read, pops, popAsks, popPast>>
badges == <<worth, decorations, checks, badgePast>>
visitors == <<rows, keys, favs, sessions, flight, issued, sends, loading, visitPast>>
services == <<janitor, hooks, schedule, badges, visitors>>
engines == <<lml2, lml>>
widgets == <<biglist, autosave, topicpicker, chains, cakepops>>

vars == <<part, services, engines, widgets>>

TypeOK ==
    /\ part \in Parts
    /\ CAIJ!TypeOK /\ Hook!TypeOK /\ Sched!TypeOK /\ Lml2!TypeOK /\ Lml1!TypeOK
    /\ List!TypeOK /\ Field!TypeOK /\ Picker!TypeOK
    /\ Chain!TypeOK /\ Cake!TypeOK /\ Badge!TypeOK /\ Visit!TypeOK

\* a component which does not move has one initial state, chosen before those of the next
Init ==
    /\ part \in Parts
    /\ part # "hooks" => chain = [h \in 1..MaxAsync |-> "never"]
    /\ part # "schedule" => now = 0 /\ job = [every |-> "day", day |-> 0, at |-> 0]
    /\ part # "list" => matching = [f \in Filters |-> MaxItems]
    /\ part # "picker" => value = None
    /\ part # "chains" => content = [title |-> 0, media |-> FALSE, articles |-> {}, status |-> "draft"]
    /\ part # "cakepops" => mendatory = {} /\ read = {}
    /\ CAIJ!Init /\ Hook!Init /\ Sched!Init /\ Lml2!Init /\ Lml1!Init
    /\ List!Init /\ (part # "list" => list.filter = CHOOSE g \in Filters : TRUE)
    /\ Field!Init /\ Picker!Init /\ Chain!Init /\ Cake!Init /\ Badge!Init /\ Visit!Init

Next ==
    \/ part = "janitor" /\ CAIJ!Next /\ UNCHANGED <<part, hooks, schedule, badges, visitors, engines, widgets>>
    \/ part = "hooks" /\ Hook!Next /\ UNCHANGED <<part, janitor, schedule, badges, visitors, engines, widgets>>
    \/ part = "schedule" /\ Sched!Next /\ UNCHANGED <<part, janitor, hooks, badges, visitors, engines, widgets>>
    \/ part = "badges" /\ Badge!Next /\ UNCHANGED <<part, janitor, hooks, schedule, visitors, engines, widgets>>
    \/ part = "visitors" /\ Visit!Next /\ UNCHANGED <<part, janitor, hooks, schedule, badges, engines, widgets>>
    \/ part = "lml2" /\ Lml2!Next /\ UNCHANGED <<part, services, lml, widgets>>
    \/ part = "lml" /\ Lml1!Next /\ UNCHANGED <<part, services, lml2, widgets>>
    \/ part = "list" /\ List!Next /\ UNCHANGED <<part, services, engines, autosave, topicpicker, chains, cakepops>>
    \/ part = "field" /\ Field!Next /\ UNCHANGED <<part, services, engines, biglist, topicpicker, chains, cakepops>>
    \/ part = "picker" /\ Picker!Next /\ UNCHANGED <<part, services, engines, biglist, autosave, chains, cakepops>>
    \/ part = "chains" /\ Chain!Next /\ UNCHANGED <<part, services, engines, biglist, autosave, topicpicker, cakepops>>
    \/ part = "cakepops" /\ Cake!Next /\ UNCHANGED <<part, services, engines, biglist, autosave, topicpicker, chains>>

Spec ==
    /\ Init /\ [][Next]_vars
    /\ WF_janitor(part = "janitor" /\ CAIJ!Decide)
    /\ WF_janitor(part = "janitor" /\ CAIJ!Answer)
    /\ WF_janitor(part = "janitor" /\ CAIJ!Error)
    /\ WF_hooks(part = "hooks" /\ Hook!Fire)
    /\ WF_hooks(part = "hooks" /\ \E h \in 1..MaxAsync : Hook!CallBack(h))
    /\ WF_lml2(part = "lml2" /\ Lml2!Step)
    /\ WF_lml(part = "lml" /\ Lml1!Step)
    /\ WF_biglist(part = "list" /\ List!Answer)

-----------------------------------------------------------------------------
(* The properties of the components, stated where they are *)

\* caij/ai.js, dataserver/handlers.js: a loop of the janitor is lost or doubled only by an exception of no
\* task, and a queued task of a module has its job; who has a token of the data server stays logged in,
\* and nothing is left of who had himself erased, unless requests of his crossed
ServersKept ==
    /\ CAIJ!LoopsCounted /\ CAIJ!JobsKnown
    /\ Visit!StaysIn /\ Visit!ErasedGone

\* lib/hooks.js, lib/scheduler.js, lib/badges.js: of two hooks the later runs first, if it asked for no
\* less; asynchronous hooks run one after the other, and done is called once; a job runs when it asked
\* to, and misses no such moment; a badge which a hook checks is of the level which was earned
RunWhenDue ==
    /\ Hook!LaterRunsFirst /\ Hook!ChainInOrder
    /\ Sched!RunsOnTime /\ Sched!NoneMissed
    /\ Badge!NoneUnearned /\ Badge!LevelIsEarned

\* lml/compiler.js, lml/lml.js: a template is written as it is nested
WrittenAsNested == Lml2!WrittenAsNested /\ Lml1!WrittenAsNested

\* widgets/biglist.js, widgets/form.js, pages/contentchains/edit.js, layout/cakepopsmanager.js: a list is
\* of the filter chosen, a field and a page show what is stored, the topic locked in is the end topic
\* which was picked, and what is gone was read, unless requests overlapped, overtook one another or were
\* lost; and a chain is live with all it takes
DashboardKept ==
    /\ List!ListOfFilter /\ List!OneFilter
    /\ Field!ShownAsStored /\ Field!LastIsStored
    /\ Picker!StagedIsPicked /\ Picker!SlidesArePath /\ Picker!LockedIsEnd
    /\ Chain!ShownIsStored /\ Chain!LiveIsComplete /\ Chain!AddedIsThere
    /\ Cake!GoneIsRead /\ Cake!OneAtATime

\* caij/taskscheduler.js, lib/hooks.js, lml, widgets/biglist.js: what is queued is done, unless a task
\* never calls back; a chain whose hooks call back is done; a template is compiled or interpreted to its
\* end; and a spinner goes, unless a request failed
Ends == CAIJ!QueueDrains /\ Hook!ChainEnds /\ Lml2!TemplateEnds /\ Lml1!TemplateEnds /\ (part = "list" => List!SpinnerGoes)
=============================================================================
