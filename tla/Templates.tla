----------------------------- MODULE Templates -----------------------------
(***************************************************************************)
(* What a template is to the two engines which run one, lml/lml.js and     *)
(* lml/compiler.js: text, conditions and loops, block after block.         *)
(* A condition is what it evaluates to, a loop is how often it runs.       *)
(***************************************************************************)
EXTENDS Naturals, Sequences, Folds

Ifs == {"if true", "if false"}
Fors == {"for 0", "for 2"}
Openings == Ifs \union Fors
Closings == {"else", "endif", "endfor"}
Blocks == {"text"} \union Openings \union Closings

Rounds(block) == IF block = "for 0" THEN 0 ELSE 2

\* how deep the blocks up to i are nested
Depth(p, i) == Len(SelectSeq(SubSeq(p, 1, i), LAMBDA b : b \in Openings))
               - Len(SelectSeq(SubSeq(p, 1, i), LAMBDA b : b \in {"endif", "endfor"}))

\* the openings of the blocks around i, an else being inside its if
Around(p, i) == {o \in 1..(i - 1) : /\ p[o] \in Openings
                                    /\ \A j \in o..(i - 1) : Depth(p, j) >= Depth(p, o)
                                    /\ p[i] \in {"endif", "endfor"} => Depth(p, o) <= Depth(p, i)}

\* the innermost opening at the end of p, if any
Open(p) == {o \in Around(Append(p, "text"), Len(p) + 1) : Depth(p, o) = Depth(p, Len(p))}

\* whether p may go on with block b
MayFollow(p, b) ==
    CASE b = "endif" -> \E o \in Open(p) : p[o] \in Ifs
      [] b = "endfor" -> \E o \in Open(p) : p[o] \in Fors
      [] b = "else" -> \E o \in Open(p) : p[o] \in Ifs /\ \A j \in (o + 1)..Len(p) :
                                              p[j] = "else" => Depth(p, j) > Depth(p, o)
      [] OTHER -> TRUE

WellNested(p) == Depth(p, Len(p)) = 0

\* whether i is after the else of the if at o
InElse(p, o, i) == \E j \in (o + 1)..(i - 1) : p[j] = "else" /\ Depth(p, j) = Depth(p, o)

\* how often the text at i should be written
Times(p, i) ==
    IF \E o \in Around(p, i) : p[o] \in Ifs /\ (p[o] = "if true") = InElse(p, o, i) THEN 0
    ELSE MapThenFoldSet(LAMBDA a, b : a * b, 1, LAMBDA o : Rounds(p[o]),
                        LAMBDA S : CHOOSE o \in S : TRUE, {o \in Around(p, i) : p[o] \in Fors})

\* an else inside of a block which is inside of another one: while the outer one is skipped,
\* the else counts as an end
DeepElse(p) == \E i \in DOMAIN p : p[i] = "else" /\ Depth(p, i) > 1
=============================================================================
