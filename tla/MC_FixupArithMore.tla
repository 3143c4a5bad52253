------------------------- MODULE MC_FixupArithMore -------------------------
(***************************************************************************)
(* The remaining arithmetic rules of fixupNode on one block: ArithMul,    *)
(* ArithNegate, ArithMin, ArithAbs, ArithSqrt and ArithMod over two       *)
(* locals, each done in integers or in doubles as the predictions and the *)
(* node's overflow profile decide, and the modulo either by a hardware    *)
(* divider or through DoubleAsInt32.                                       *)
(***************************************************************************)
EXTENDS FixupPhase

MCVars == {"a", "b"}

MCVarPredictions == {{"Int32"}, {"Double"}, {"Int32", "Double"}, {"Object"}}

MCProgram ==
    << [op |-> "GetLocal",    var |-> "a",   args |-> <<>>],       \* 1
       [op |-> "GetLocal",    var |-> "b",   args |-> <<>>],       \* 2
       [op |-> "ArithMul",    var |-> NoVar, args |-> <<1, 2>>],   \* 3
       [op |-> "ArithNegate", var |-> NoVar, args |-> <<2>>],      \* 4
       [op |-> "ArithMin",    var |-> NoVar, args |-> <<1, 2>>],   \* 5
       [op |-> "ArithAbs",    var |-> NoVar, args |-> <<1>>],      \* 6
       [op |-> "ArithSqrt",   var |-> NoVar, args |-> <<2>>],      \* 7
       [op |-> "ArithMod",    var |-> NoVar, args |-> <<1, 2>>] >> \* 8

MCProgramBlocks == << [i \in 1..8 |-> i] >>

\* No SetLocal: at most the one sweep that finds nothing to do.
MCMaxSweeps == 1
=============================================================================
