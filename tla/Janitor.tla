------------------------------ MODULE Janitor ------------------------------
(***************************************************************************)
(* CAIJ, the janitor: a queue of tasks (caij/taskscheduler.js), the loop   *)
(* which takes one after each cooldown (caij/ai.js) and the tasks          *)
(* (caij/executor.js), some of which throw or never call back.             *)
(***************************************************************************)
EXTENDS Naturals, Sequences

CONSTANTS
    Websites,   \* the websites served by CAIJ
    OptedOut,   \* those which opted out of Google Analytics
    MaxPushes,  \* bound on the tasks pushed in a life of the process
    MaxStrays   \* bound on exceptions which are not of a task

VARIABLES
    queue,   \* tasks waiting
    loop,    \* number of cooldown timers, and of tasks in progress by what they will do
    jobs,    \* jobs which modules have registered
    counts   \* tasks pushed, exceptions caught which are not of a task

vars == <<queue, loop, jobs, counts>>

-----------------------------------------------------------------------------
(* Tasks *)

NoSite == "no site"
Names == {"refreshHomepage", "storeRealtime", "generateTheDailyLilium", "statsEmail", "module"}
Task == [name : Names, site : Websites \union {NoSite}]

\* storeFacebookShares, refreshSitemaps, storeHot, store3daysFiller, refreshTopicLatests and
\* socialDispatch fare like a homepage: they call back, or throw on what an outside service said
Fates(t) ==
    CASE t.site = NoSite -> {"answers"}
      [] t.name = "storeRealtime" /\ t.site \in OptedOut -> {"forgets"}
      [] t.name = "generateTheDailyLilium" -> {"throws"}
      [] t.name = "statsEmail" -> {"answers", "throws", "forgets"}
      [] t.name = "module" /\ t.name \notin jobs -> {"throws"}
      [] OTHER -> {"answers", "throws"}

Running == loop.answers + loop.throws + loop.forgets

TypeOK ==
    /\ queue \in Seq(Task) /\ Len(queue) <= MaxPushes
    /\ loop \in [timers : Nat, answers : Nat, throws : Nat, forgets : Nat]
    /\ jobs \subseteq {"module"}
    /\ counts \in [pushes : 0..MaxPushes, strays : 0..MaxStrays]

Init ==
    /\ queue = << >>
    /\ loop = [timers |-> 1, answers |-> 0, throws |-> 0, forgets |-> 0]
    /\ jobs = {}
    /\ counts = [pushes |-> 0, strays |-> 0]

-----------------------------------------------------------------------------
(* The loop *)

\* A mutant of Decide: nobody calls done for a task without a website.
DecideNotDone ==
    /\ loop.timers > 0
    /\ queue # << >>
    /\ \E fate \in Fates(Head(queue)) :
          loop' = IF Head(queue).site = NoSite THEN [loop EXCEPT !.timers = @ - 1]
                  ELSE [loop EXCEPT !.timers = @ - 1, ![fate] = @ + 1]
    /\ queue' = Tail(queue)
    /\ UNCHANGED <<jobs, counts>>

\* a task without the config of a website is done at once; the config may be there, and
\* the task begins, to answer or throw now or in a callback
Decide ==
    /\ loop.timers > 0
    /\ queue # << >>
    /\ \E fate \in Fates(Head(queue)) :
          loop' = IF Head(queue).site = NoSite THEN loop
                  ELSE [loop EXCEPT !.timers = @ - 1, ![fate] = @ + 1]
    /\ queue' = Tail(queue)
    /\ UNCHANGED <<jobs, counts>>

\* createInterval, as the task's callback
Answer ==
    /\ loop.answers > 0
    /\ loop' = [loop EXCEPT !.answers = @ - 1, !.timers = @ + 1]
    /\ UNCHANGED <<queue, jobs, counts>>

\* A mutant of Error: the exception is logged, and that is all.
ErrorLogged ==
    /\ loop.throws > 0
    /\ loop' = [loop EXCEPT !.throws = @ - 1]
    /\ UNCHANGED <<queue, jobs, counts>>

\* the exception of a task in progress reaches the process: error() starts the next cooldown
Error ==
    /\ loop.throws > 0
    /\ loop' = [loop EXCEPT !.throws = @ - 1, !.timers = @ + 1]
    /\ UNCHANGED <<queue, jobs, counts>>

\* error() for any other exception, which starts one loop more
Stray ==
    /\ counts.strays < MaxStrays
    /\ loop' = [loop EXCEPT !.timers = @ + 1]
    /\ counts' = [counts EXCEPT !.strays = @ + 1]

-----------------------------------------------------------------------------
(* What is asked of it *)

Push(t) ==
    /\ counts.pushes < MaxPushes
    /\ queue' = Append(queue, t)
    /\ counts' = [counts EXCEPT !.pushes = @ + 1]
    /\ UNCHANGED <<loop, jobs>>

\* the intervals of createTaskInserter, which push a task for each website, and the timer
\* of a module
Interval ==
    \E n \in Names \ {"statsEmail"}, w \in Websites :
        /\ n = "module" => n \in jobs
        /\ Push([name |-> n, site |-> w])

\* handleMessage of a message which is neither direct nor of a module; config.fetchConfig finds
\* the website, or not
Message == \E n \in {"refreshHomepage", "statsEmail"}, w \in Websites \union {NoSite} :
               Push([name |-> n, site |-> w])

\* a direct message: prepend() throws, for there is no variable task; so does JSON.parse
\* of a message which is none
DirectMessage == Stray /\ UNCHANGED <<queue, jobs>>

\* moduleTask: the job is registered; every sets a timer, notImmediate leaves the first time out
ModuleMessage ==
    /\ jobs' = jobs \union {"module"}
    /\ \/ UNCHANGED <<queue, loop, counts>>
       \/ /\ counts.pushes < MaxPushes
          /\ \E w \in Websites : queue' = Append(queue, [name |-> "module", site |-> w])
          /\ counts' = [counts EXCEPT !.pushes = @ + 1]
          /\ UNCHANGED loop

\* runAt: the scheduler is required from a directory it is not in, after the registration
ModuleRunAt ==
    /\ jobs' = jobs \union {"module"}
    /\ Stray
    /\ UNCHANGED queue

-----------------------------------------------------------------------------
\* the process dies, and the gardener forks it again: nothing of it was on disk
Reborn ==
    /\ queue' = << >>
    /\ loop' = [timers |-> 1, answers |-> 0, throws |-> 0, forgets |-> 0]
    /\ jobs' = {}
    /\ counts' = [pushes |-> 0, strays |-> 0]

Next ==
    \/ Decide
    \/ Answer
    \/ Error
    \/ Interval
    \/ Message
    \/ DirectMessage
    \/ ModuleMessage
    \/ ModuleRunAt
    \/ Reborn

Spec == Init /\ [][Next]_vars /\ WF_vars(Decide) /\ WF_vars(Answer) /\ WF_vars(Error)

-----------------------------------------------------------------------------
(* Properties *)

\* A loop is never lost and never doubled, but for the exceptions which belong to no task:
\* error() takes each exception for the end of the task in progress (ai.js:179).
LoopsCounted == loop.timers + Running = 1 + counts.strays

\* Tasks of modules are pushed only when their job is known, whatever dies and is
\* reborn: a queue does not outlive the jobs it needs (ai.js:184).
JobsKnown == \A i \in DOMAIN queue : queue[i].name = "module" => "module" \in jobs

\* every loop waits for a task which will not call back
Stuck == loop.forgets > counts.strays

\* What is queued is done, unless each loop is held by a task which forgot to call
\* back (executor.js:277, analytics.js:584).
QueueDrains == queue # << >> ~> (queue = << >> \/ Stuck)
=============================================================================
