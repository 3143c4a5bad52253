------------------------- MODULE MC_FixupStringAdd --------------------------
(***************************************************************************)
(* One block of string additions for FixupPhase.  ValueAdd 3 adds two     *)
(* locals whose predictions range over strings, string objects, either,   *)
(* plain objects and integers, so every branch of the ValueAdd case and   *)
(* of attemptToMakeFastStringAdd is taken, the ToPrimitive/ToString path   *)
(* included.  ValueAdd 5 adds a string constant on the left, and MakeRope *)
(* 8 concatenates three constants, each of which may be the empty string, *)
(* so fixupMakeRope removes zero to three edges.                          *)
(***************************************************************************)
EXTENDS FixupPhase

MCVars == {"a", "b"}

MCVarPredictions ==
    {{"String"}, {"StringObject"}, {"String", "StringObject"}, {"Object"},
     {"Int32"}}

MCProgram ==
    << [op |-> "GetLocal",    var |-> "a",   args |-> <<>>],        \* 1
       [op |-> "GetLocal",    var |-> "b",   args |-> <<>>],        \* 2
       [op |-> "ValueAdd",    var |-> NoVar, args |-> <<1, 2>>],    \* 3
       [op |-> "JSConstant",  var |-> NoVar, args |-> <<>>],        \* 4
       [op |-> "ValueAdd",    var |-> NoVar, args |-> <<4, 1>>],    \* 5
       [op |-> "JSConstant",  var |-> NoVar, args |-> <<>>],        \* 6
       [op |-> "JSConstant",  var |-> NoVar, args |-> <<>>],        \* 7
       [op |-> "MakeRope",    var |-> NoVar, args |-> <<4, 6, 7>>] >> \* 8

MCProgramBlocks == << <<1, 2, 3, 4, 5, 6, 7, 8>> >>

\* No SetLocal: at most the one sweep that finds nothing to do.
MCMaxSweeps == 1
=============================================================================
