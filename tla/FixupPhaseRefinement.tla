------------------------ MODULE FixupPhaseRefinement ------------------------
(***************************************************************************)
(* FixupPhase with two history variables, seeds and flows, that record    *)
(* what the original graph justifies, so that a refinement mapping onto   *)
(* UnboxingProfitability can be written.  They are set once from the      *)
(* initial state and no step of FixupPhase changes them, so every         *)
(* behaviour of FixupPhase is a behaviour of this module with the two     *)
(* variables hidden.                                                       *)
(***************************************************************************)
EXTENDS FixupPhase

VARIABLES seeds, flows

history == <<seeds, flows>>

(* The reference the refinement is stated against: the seeds are the     *)
(* variables some opcode rule of the main pass makes profitable when       *)
(* applied on its own to the original graph, and <<w, v>> is a flow when  *)
(* sweeping a SetLocal of w alone, with only w profitable, makes v        *)
(* profitable.                                                             *)
Blank(prof) == [nodes |-> OriginalNodes, ins |-> <<>>, prof |-> prof,
                changed |-> FALSE]

NoneProfitable == [v \in Vars |-> FALSE]

ProgramNodeIds == UNION {{ProgramBlocks[b][k] : k \in DOMAIN ProgramBlocks[b]}
                          : b \in DOMAIN ProgramBlocks}

Seeds ==
    LET B     == Blank(NoneProfitable)
        after == {FixupNode(B, n, 0).prof : n \in ProgramNodeIds}
    IN  {v \in Vars : \E prof \in after : prof[v]}

Flows ==
    {f \in Vars \X Vars :
        /\ f[1] # f[2]
        /\ \E n \in ProgramNodeIds :
              /\ Program[n].op = "SetLocal"
              /\ Program[n].var = f[1]
              /\ FixupSetLocal(Blank([v \in Vars |-> v = f[1]]), n, 0).prof[f[2]]}

InitH == Init /\ seeds = Seeds /\ flows = Flows

NextH == Next /\ UNCHANGED history

SpecH == InitH /\ [][NextH]_<<vars, history>> /\ WF_<<vars, history>>(NextH)

Abstract == INSTANCE UnboxingProfitability
              WITH profitable <- {v \in Vars : profitable[v]},
                   finished   <- phase = "Done",
                   seeds      <- seeds,
                   flows      <- flows

(* The detailed phase implements the abstract fixpoint: each flag it sets  *)
(* is justified by a seed, a flow from a profitable variable or an        *)
(* argument-position sibling; it returns only when the profitable set is  *)
(* closed under those rules; and it does return.                           *)
ImplementsUnboxingProfitability == Abstract!Spec
=============================================================================
