-------------------------- MODULE FixupControlRules --------------------------
(***************************************************************************)
(* The control-flow rules of fixupNode: the truth-edge chain LogicalNot and*)
(* Branch share, the Branch-over-LogicalNot peephole with its backward scan*)
(* for nodes that can exit, and ToThis.                                    *)
(***************************************************************************)
EXTENDS FixupGraph

\* The speculation chain LogicalNot and Branch share: the first test that
\* holds of child 1 picks its UseKind.
FixupTruthEdge(S, n, pos) ==
    LET p == ChildPrediction(S, n, 1) IN
    IF isBooleanSpeculation(p)
    THEN SetUseKindAndUnboxIfProfitable(S, n, 1, "BooleanUse")
    ELSE IF isObjectOrOtherSpeculation(p)
    THEN SetUseKindAndUnboxIfProfitable(S, n, 1, "ObjectOrOtherUse")
    ELSE IF isInt32Speculation(p)
    THEN SetUseKindAndUnboxIfProfitable(S, n, 1, "Int32Use")
    ELSE IF isNumberSpeculation(p)
    THEN FixDoubleEdge(S, n, 1, "NumberUse", FALSE, pos)
    ELSE S

\* case LogicalNot
FixupLogicalNot(S, n, pos) == FixupTruthEdge(S, n, pos)

\* The modelled opcodes whose default flags include NodeDoesNotExit.
DoesNotExitOps == {"JSConstant", "WeakJSConstant"}

\* Fault variant: the exit test reads the node's current opcode.
CanExitByCurrentOp(S, m) == S.nodes[m].op \notin DoesNotExitOps

\* Node::canExit tests NodeDoesNotExit in m_flags.  A node gets its flags
\* from the opcode it is created with, and the in-place conversions of the
\* phase (convertToWeakConstant, setOp) leave the flag as it was: a
\* program node keeps the exit behaviour of its template opcode.
CanExit(S, m) ==
    LET createdAs == IF m \in DOMAIN Program THEN Program[m].op ELSE S.nodes[m].op
    IN  createdAs \notin DoesNotExitOps

\* Node::hasBooleanResult (NodeResultBoolean) among the modelled opcodes.
HasBooleanResult(S, m) == S.nodes[m].op = "LogicalNot"

\* The backward scan of the Branch case over m_block from index i - 1:
\* TRUE when it reaches the LogicalNot ln before a node that can exit
\* (and, as in a release build, when it runs off the start of the block).
RECURSIVE ScanOk(_, _, _, _)
ScanOk(S, blk, i, ln) ==
    IF i = 0 THEN TRUE
    ELSE IF blk[i] = ln THEN TRUE
    ELSE IF CanExit(S, blk[i]) THEN FALSE
    ELSE ScanOk(S, blk, i - 1, ln)

\* Fault variant: the successors are not swapped.
BranchPeepholeNoSwap(S, n) ==
    [S EXCEPT !.nodes[n].children[1] = S.nodes[ChildNode(S, n, 1)].children[1]]

\* Branch consumes the LogicalNot's input and swaps taken and not taken.
BranchPeephole(S, n) ==
    [S EXCEPT !.nodes[n].children[1] = S.nodes[ChildNode(S, n, 1)].children[1],
              !.nodes[n].targets = <<@[2], @[1]>>]

\* case Branch: the truth edge, then the peephole around a LogicalNot.
\* m_block is the block being walked, before its insertions are flushed.
FixupBranch(S, n, pos) ==
    LET T  == FixupTruthEdge(S, n, pos)
        ln == ChildNode(T, n, 1)
    IN  IF /\ T.nodes[ln].op = "LogicalNot"
           /\ ScanOk(T, blocks[blockIndex], pos, ln)
           /\ HasBooleanResult(T, ChildNode(T, ln, 1))
        THEN BranchPeephole(T, n)
        ELSE T

\* case ToThis
FixupToThis(S, n, pos) ==
    LET p == ChildPrediction(S, n, 1) IN
    IF isOtherSpeculation(p) /\ strictMode[S.nodes[n].codeOrigin]
    THEN SetOp(SetUseKindAndUnboxIfProfitable(S, n, 1, "OtherUse"), n, "Identity")
    ELSE IF isOtherSpeculation(p)
    THEN LET T == InsertNode(S, pos, NewNode("Phantom",
                      <<[node |-> ChildNode(S, n, 1), useKind |-> "OtherUse"]>>,
                      {}, S.nodes[n].codeOrigin))
         IN  [ObserveUseKindOnNode(T, ChildNode(S, n, 1), "OtherUse")
                 EXCEPT !.nodes[n].op = "WeakJSConstant",
                        !.nodes[n].children = <<>>]
    ELSE IF isFinalObjectSpeculation(p)
    THEN SetOp(SetUseKindAndUnboxIfProfitable(S, n, 1, "ObjectUse"), n, "Identity")
    ELSE S

-----------------------------------------------------------------------------
(* Properties of the Branch peephole.                                      *)

\* The truth of node m when the base of its LogicalNot chain has truth b.
RECURSIVE Truth(_, _)
Truth(m, b) ==
    IF nodes[m].op = "LogicalNot" THEN ~Truth(nodes[m].children[1].node, b) ELSE b

\* The successor a branch with targets tg takes on a condition of truth v.
Dest(tg, v) == IF v THEN tg[1] ELSE tg[2]

(* Branch-on-negation elision (spec.md 4.9) changes no decision: for both *)
(* truth values of its condition's input, every Branch of the program     *)
(* takes the same successor after the phase as before it.  The rewrite in *)
(* the Branch case replaces the LogicalNot by its input and must swap     *)
(* taken and not-taken to compensate.                                      *)
BranchPreservesTarget ==
    phase = "Done" =>
      \A n \in DOMAIN Program :
        Program[n].op = "Branch" =>
          \A b \in BOOLEAN :
            Dest(nodes[n].targets, Truth(nodes[n].children[1].node, b))
              = Dest(<<"taken", "notTaken">>, Truth(Program[n].args[1], b))

(* The comment in the Branch case: "Make sure that OSR exit can't observe *)
(* the LogicalNot.  If it can, then we must compute it and cannot         *)
(* peephole around it."  The scan reads m_block before the insertions    *)
(* queued by the nodes it passes are flushed; still, in the flushed block *)
(* no node that can exit lies between a LogicalNot and a Branch that was  *)
(* rewritten to bypass it.                                                 *)
PeepholeNotObservable ==
    phase = "Done" =>
      \A b \in DOMAIN blocks : \A i, j, k \in DOMAIN blocks[b] :
        LET n == blocks[b][j] IN
        (/\ n \in DOMAIN Program
         /\ Program[n].op = "Branch"
         /\ nodes[n].targets = <<"notTaken", "taken">>
         /\ blocks[b][i] = Program[n].args[1]
         /\ i < k /\ k < j)
           => ~CanExit(Cur, blocks[b][k])
=============================================================================
