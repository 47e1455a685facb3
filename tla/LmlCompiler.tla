---------------------------- MODULE LmlCompiler ----------------------------
(***************************************************************************)
(* LML2 (lml/compiler.js): the blocks of a template are run one by one,    *)
(* each in a timeout of its own.  A condition which fails, and a loop      *)
(* which is over, skip to their closure, counting what is opened and       *)
(* closed on the way; a loop goes back to its opening.                     *)
(***************************************************************************)
EXTENDS Templates, Integers

CONSTANTS MaxBlocks   \* bound on the blocks of a template

VARIABLES
    template,  \* the blocks
    at,        \* blockIndex, from 1; or 0 while the template is written
    flags,     \* skipping and toSkip; whether done was called or an exception thrown
    loops,     \* stack of loops: where each begins, and its index
    written    \* how often each block was written

vars == <<template, at, flags, loops, written>>

\* writings of a block are counted to here, which is more than any template asks for
Enough == 9

TypeOK ==
    /\ template \in Seq(Blocks) /\ Len(template) <= MaxBlocks
    /\ at \in 0..(Len(template) + 1)
    /\ flags \in [skipping : BOOLEAN, toSkip : 0..MaxBlocks, over : {"no", "done", "thrown"}]
    /\ loops \in Seq([at : 1..MaxBlocks, index : 0..2]) /\ Len(loops) <= MaxBlocks
    /\ written \in [1..MaxBlocks -> 0..Enough]

Init ==
    /\ template = << >>
    /\ at = 0
    /\ flags = [skipping |-> FALSE, toSkip |-> 0, over |-> "no"]
    /\ loops = << >>
    /\ written = [i \in 1..MaxBlocks |-> 0]

\* somebody writes a template
Write ==
    /\ at = 0
    /\ Len(template) < MaxBlocks
    /\ \E b \in Blocks : MayFollow(template, b) /\ template' = Append(template, b)
    /\ UNCHANGED <<at, flags, loops, written>>

\* deal()
Deal == at = 0 /\ WellNested(template) /\ at' = 1 /\ UNCHANGED <<template, flags, loops, written>>

-----------------------------------------------------------------------------

Running == flags.over = "no" /\ at \in DOMAIN template

Skip(skipping) == flags' = [flags EXCEPT !.skipping = skipping]

\* output()
Text ==
    /\ Running /\ template[at] = "text"
    /\ written' = IF flags.skipping THEN written ELSE [written EXCEPT ![at] = IF @ = Enough THEN @ ELSE @ + 1]
    /\ at' = at + 1
    /\ UNCHANGED <<template, flags, loops>>

\* runFor(): the next round, or the end of the loop, whose blocks are gone through once more
RunFor(stack) ==
    LET loop == stack[Len(stack)] IN
      /\ at' = loop.at + 1
      /\ IF loop.index = Rounds(template[loop.at])
         THEN Skip(TRUE) /\ loops' = SubSeq(stack, 1, Len(stack) - 1)
         ELSE UNCHANGED flags /\ loops' = [stack EXCEPT ![Len(stack)].index = @ + 1]

\* A mutant of Opening: what is opened while skipping is not counted.
OpeningUncounted ==
    /\ Running /\ template[at] \in Openings
    /\ IF flags.skipping THEN at' = at + 1 /\ UNCHANGED <<flags, loops>>
       ELSE IF template[at] \in Ifs
       THEN Skip(template[at] = "if false") /\ at' = at + 1 /\ UNCHANGED loops
       ELSE RunFor(Append(loops, [at |-> at, index |-> 0]))
    /\ UNCHANGED <<template, written>>

\* runCondStack(); while is left out, whose second round calls a function which is not there
Opening ==
    /\ Running /\ template[at] \in Openings
    /\ IF flags.skipping
       THEN flags' = [flags EXCEPT !.toSkip = @ + 1] /\ at' = at + 1 /\ UNCHANGED loops
       ELSE IF template[at] \in Ifs
       THEN Skip(template[at] = "if false") /\ at' = at + 1 /\ UNCHANGED loops
       ELSE RunFor(Append(loops, [at |-> at, index |-> 0]))
    /\ UNCHANGED <<template, written>>

\* runClosureStack(): without a loop to go back to, runFor() throws in the timeout
Closing ==
    /\ Running /\ template[at] \in Closings
    /\ CASE flags.toSkip > 0 ->
              flags' = [flags EXCEPT !.toSkip = @ - 1] /\ at' = at + 1 /\ UNCHANGED loops
         [] flags.toSkip = 0 /\ (template[at] # "endfor" \/ flags.skipping) ->
              Skip(template[at] = "else" /\ ~flags.skipping) /\ at' = at + 1 /\ UNCHANGED loops
         [] OTHER ->
              IF loops = << >> THEN flags' = [flags EXCEPT !.over = "thrown"] /\ UNCHANGED <<at, loops>>
              ELSE RunFor(loops)
    /\ UNCHANGED <<template, written>>

\* checkForCompletion()
Finish ==
    /\ flags.over = "no" /\ at = Len(template) + 1
    /\ flags' = [flags EXCEPT !.over = "done"]
    /\ UNCHANGED <<template, at, loops, written>>

Step == Text \/ Opening \/ Closing \/ Finish

Next == Write \/ Deal \/ Step

Spec == Init /\ [][Next]_vars /\ WF_vars(Step)

-----------------------------------------------------------------------------
(* Properties *)

\* A template is written as its conditions and loops say, and comes to its end without throwing,
\* if it has no else deep inside (compiler.js:409): there the else counts as the end of its
\* block, the end as that of the block around it, and what is left of that is written.
WrittenAsNested ==
    ~DeepElse(template) =>
        /\ flags.over # "thrown"
        /\ flags.over = "done" =>
              \A i \in DOMAIN template : template[i] = "text" => written[i] = Times(template, i)

\* Every template comes to an end or throws, one with an else deep inside too: a page is never
\* written for ever (compiler.js:391).
TemplateEnds == at > 0 ~> flags.over # "no"
=============================================================================
