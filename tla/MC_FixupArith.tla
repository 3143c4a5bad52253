--------------------------- MODULE MC_FixupArith ---------------------------
(***************************************************************************)
(* One block of arithmetic for FixupPhase, at a 6-bit int width.         *)
(* ValueToInt32 3 feeds a bit operation, whose result goes through        *)
(* UInt32ToNumber.  The add 7 and the subtract 9 each have a number        *)
(* constant: 2^(w-1), one past the int32 range, is truncated when the     *)
(* add's result is used as an int; 2^(w+21)+1 lies beyond the twoToThe48  *)
(* bound and is not exact as a double.  The division 10 is done either by *)
(* a hardware divider or in doubles.  MCProgramFraction is a + 1.5.       *)
(***************************************************************************)
EXTENDS FixupPhase

MCVars == {"a", "b"}

MCVarPredictions == {{"Int32"}, {"Double"}, {"Boolean"}, {"Object"}}

MCIntWidth == 6

MCProgram ==
    << [op |-> "GetLocal",       var |-> "a",   args |-> <<>>],        \* 1
       [op |-> "GetLocal",       var |-> "b",   args |-> <<>>],        \* 2
       [op |-> "ValueToInt32",   var |-> NoVar, args |-> <<1>>],       \* 3
       [op |-> "BitAnd",         var |-> NoVar, args |-> <<3, 3>>],    \* 4
       [op |-> "UInt32ToNumber", var |-> NoVar, args |-> <<4>>],       \* 5
       [op |-> "JSConstant",     var |-> NoVar, args |-> <<>>,
        value |-> 2^(MCIntWidth - 1)],                                 \* 6
       [op |-> "ArithAdd",       var |-> NoVar, args |-> <<1, 6>>],    \* 7
       [op |-> "JSConstant",     var |-> NoVar, args |-> <<>>,
        value |-> 2^(MCIntWidth + 21) + 1],                            \* 8
       [op |-> "ArithSub",       var |-> NoVar, args |-> <<8, 2>>],    \* 9
       [op |-> "ArithDiv",       var |-> NoVar, args |-> <<1, 2>>] >>  \* 10

MCProgramBlocks == << [i \in 1..10 |-> i] >>

\* a + 1.5, the fraction an int32 add may have for its immediate: the
\* add's constant is truncated to 1 when its result is used as an int.
MCProgramFraction ==
    << [op |-> "GetLocal",   var |-> "a",   args |-> <<>>],            \* 1
       [op |-> "JSConstant", var |-> NoVar, args |-> <<>>,
        value |-> 1, plusHalf |-> TRUE],                               \* 2
       [op |-> "ArithAdd",   var |-> NoVar, args |-> <<1, 2>>] >>      \* 3

MCProgramBlocksFraction == << <<1, 2, 3>> >>

\* No SetLocal: at most the one sweep that finds nothing to do.
MCMaxSweeps == 1
=============================================================================
