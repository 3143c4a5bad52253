-------------------------- MODULE MC_FixupUnboxing --------------------------
(***************************************************************************)
(* A two-block graph for FixupPhase.  Block 1 copies z into y and then *)
(* y into x, so a flag set on x by the uses in block 2 reaches y in the   *)
(* first sweep and z only in the second: the writes are walked in the     *)
(* opposite order to the flow.  Block 2 reads x in an ArithSub and a      *)
(* LogicalNot and stores the difference into z, which makes an           *)
(* Int32ToDouble appear in a sweep when z is voted into double format.   *)
(* MCArgumentPositions leaves the chain unshortcut; MCArgumentPositionsXZ *)
(* lets x and z, the two ends of the chain, share an argument position.  *)
(***************************************************************************)
EXTENDS FixupPhaseRefinement

MCVars == {"x", "y", "z"}

\* y sits in the middle of the flow chain: marking it never-unbox cuts it.
MCNeverUnboxCandidates == {"y"}

MCArgumentPositions == {}

MCArgumentPositionsXZ == {{"x", "z"}}

MCVarPredictions ==
    {{"Int32"}, {"Double"}, {"Int32", "Double"}, {"Boolean"}, {"Object"}}

MCProgram ==
    << [op |-> "GetLocal",   var |-> "z",   args |-> <<>>],      \* 1
       [op |-> "SetLocal",   var |-> "y",   args |-> <<1>>],     \* 2
       [op |-> "GetLocal",   var |-> "y",   args |-> <<>>],      \* 3
       [op |-> "SetLocal",   var |-> "x",   args |-> <<3>>],     \* 4
       [op |-> "GetLocal",   var |-> "x",   args |-> <<>>],      \* 5
       [op |-> "ArithSub",   var |-> NoVar, args |-> <<5, 5>>],  \* 6
       [op |-> "SetLocal",   var |-> "z",   args |-> <<6>>],     \* 7
       [op |-> "LogicalNot", var |-> NoVar, args |-> <<5>>] >>   \* 8

MCProgramBlocks == << <<1, 2, 3, 4>>, <<5, 6, 7, 8>> >>

\* One more than the three sweeps the longest flow chain needs.
MCMaxSweeps == 4
=============================================================================
