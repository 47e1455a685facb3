--------------------------- MODULE LmlInterpreter ---------------------------
(***************************************************************************)
(* LML (lml/lml.js): the blocks of a template are run one by one.  A stack *)
(* has each condition and loop which is open; a loop jumps from its end to *)
(* its opening, which knows by the flag looping that it is the same loop   *)
(* again, and from there to its end when it is over.                       *)
(***************************************************************************)
EXTENDS Templates, Integers

CONSTANTS MaxBlocks   \* bound on the blocks of a template

VARIABLES
    template,  \* the blocks
    at,        \* cLine, from 1; or 0 while the template is written
    flags,     \* skipUntilClosure, temp.looping; whether the end was reached
    stack,     \* condStack
    written    \* how often each block was written

vars == <<template, at, flags, stack, written>>

\* writings of a block are counted to here, which is more than any template asks for
Enough == 9

Entry == [at : 1..MaxBlocks, index : 0..3, end : 0..MaxBlocks, requiredSkip : 0..MaxBlocks]

TypeOK ==
    /\ template \in Seq(Blocks) /\ Len(template) <= MaxBlocks
    /\ at \in 0..(Len(template) + 1)
    /\ flags \in [skipping : BOOLEAN, looping : BOOLEAN, over : BOOLEAN]
    /\ stack \in Seq(Entry) /\ Len(stack) <= MaxBlocks
    /\ written \in [1..MaxBlocks -> 0..Enough]

Init ==
    /\ template = << >>
    /\ at = 0
    /\ flags = [skipping |-> FALSE, looping |-> FALSE, over |-> FALSE]
    /\ stack = << >>
    /\ written = [i \in 1..MaxBlocks |-> 0]

\* somebody writes a template
Write ==
    /\ at = 0
    /\ Len(template) < MaxBlocks
    /\ \E b \in Blocks : MayFollow(template, b) /\ template' = Append(template, b)
    /\ UNCHANGED <<at, flags, stack, written>>

\* parseContent()
Begin == at = 0 /\ WellNested(template) /\ at' = 1 /\ UNCHANGED <<template, flags, stack, written>>

-----------------------------------------------------------------------------

Running == ~flags.over /\ at \in DOMAIN template

Top == stack[Len(stack)]

\* the stack without its top, or with another one
Popped == SubSeq(stack, 1, Len(stack) - 1)
WithTop(entry) == [stack EXCEPT ![Len(stack)] = entry]

\* validateClosure() throws: an endif is the end of whatever is open
Mismatch == \/ template[at] = "else" /\ template[Top.at] \in Fors
            \/ template[at] = "endfor" /\ template[Top.at] \in Ifs

Text ==
    /\ Running /\ template[at] = "text"
    /\ written' = IF flags.skipping THEN written
                  ELSE [written EXCEPT ![at] = IF @ = Enough THEN @ ELSE @ + 1]
    /\ at' = at + 1
    /\ UNCHANGED <<template, flags, stack>>

\* a loop counts its rounds
Round(entry) == IF template[entry.at] \in Fors THEN [entry EXCEPT !.index = @ + 1] ELSE entry

\* execLMLTag() of what opens a block: while skipping it is counted; while looping it is taken
\* for the loop on top, whatever it is; processCondition() and processForLoop()
Opening ==
    /\ Running /\ template[at] \in Openings
    /\ CASE stack = << >> /\ (flags.skipping \/ flags.looping) ->
              flags' = [flags EXCEPT !.looping = @ /\ flags.skipping] /\ at' = at + 1 /\ UNCHANGED stack
         [] stack # << >> /\ flags.skipping ->
              stack' = WithTop([Top EXCEPT !.requiredSkip = @ + 1]) /\ at' = at + 1 /\ UNCHANGED flags
         [] OTHER ->
              LET entry == IF flags.looping THEN Top
                           ELSE [at |-> at, index |-> 0, end |-> 0, requiredSkip |-> 0]
                  rest == IF flags.looping THEN Popped ELSE stack
                  block == template[entry.at]
                  over == block \in Fors /\ entry.index >= Rounds(block)
              IN
                /\ flags' = [flags EXCEPT !.looping = FALSE, !.skipping = over \/ block = "if false"]
                /\ stack' = Append(rest, Round(entry))
                /\ at' = IF over /\ entry.index > 0 /\ entry.end > 0 THEN entry.end ELSE at + 1
    /\ UNCHANGED <<template, written>>

\* the end of the block on top: a loop goes on at its opening, or it is over, and then the
\* block around it is said to be looping if it is a loop
End ==
    IF template[Top.at] \in Fors /\ ~flags.skipping
    THEN /\ at' = Top.at
         /\ stack' = WithTop([Top EXCEPT !.end = at])
         /\ flags' = [flags EXCEPT !.looping = TRUE]
    ELSE /\ at' = at + 1
         /\ stack' = Popped
         /\ flags' = [flags EXCEPT !.skipping = FALSE, !.looping =
                          IF template[Top.at] \in Fors
                          THEN Len(stack) > 1 /\ template[stack[Len(stack) - 1].at] \in Fors
                          ELSE @]

\* A mutant of CountDown: what was counted stays counted.
CountKept == at' = at + 1 /\ UNCHANGED <<stack, flags>>

CountDown == at' = at + 1 /\ stack' = WithTop([Top EXCEPT !.requiredSkip = @ - 1]) /\ UNCHANGED flags

\* execLMLTag() of a closure: what was counted is counted down, an else too; an exception is
\* caught, and the next block is run
Closing ==
    /\ Running /\ template[at] \in Closings
    /\ IF stack = << >> THEN UNCHANGED <<flags, stack>> /\ at' = at + 1
       ELSE CASE Top.requiredSkip > 0 -> CountDown
              [] Top.requiredSkip = 0 /\ Mismatch ->
                   stack' = Popped /\ at' = at + 1 /\ UNCHANGED flags
              [] Top.requiredSkip = 0 /\ ~Mismatch /\ template[at] = "else" ->
                   flags' = [flags EXCEPT !.skipping = ~@] /\ at' = at + 1 /\ UNCHANGED stack
              [] OTHER -> End
    /\ UNCHANGED <<template, written>>

Finish ==
    /\ ~flags.over /\ at = Len(template) + 1
    /\ flags' = [flags EXCEPT !.over = TRUE]
    /\ UNCHANGED <<template, at, stack, written>>

Step == Text \/ Opening \/ Closing \/ Finish

Next == Write \/ Begin \/ Step

Spec == Init /\ [][Next]_vars /\ WF_vars(Step)

-----------------------------------------------------------------------------
(* Properties *)

\* a block opened after a loop in the same loop, which is taken for that loop's next round
OpenedAfterLoop(p) ==
    \E i \in DOMAIN p : \E j \in 1..(i - 1) :
        /\ p[i] \in Openings /\ p[j] = "endfor"
        /\ \E o \in Around(p, j + 1) : p[o] \in Fors /\ o \in Around(p, i)

\* A template is written as its conditions and loops say, if it has no else deep inside, and
\* opens nothing after a loop inside of another loop (lml.js:498, 520).
WrittenAsNested ==
    ~DeepElse(template) /\ ~OpenedAfterLoop(template) /\ flags.over =>
        \A i \in DOMAIN template : template[i] = "text" => written[i] = Times(template, i)

\* Every template comes to its end, those which are not written as nested too (lml.js:515).
TemplateEnds == at > 0 ~> flags.over
=============================================================================
