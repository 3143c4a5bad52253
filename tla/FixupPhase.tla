----------------------------- MODULE FixupPhase -----------------------------
(***************************************************************************)
(* The driver of the DFG fixup phase (DFGFixupPhase.cpp) and the unboxing  *)
(* fixpoint it runs: FixupPhase::run, fixupBlock, fixupSetLocalsInBlock, and*)
(* fixupNode's dispatch to the opcode rules of FixupArithRules,            *)
(* FixupStringRules and FixupControlRules.  The cases of the switch in     *)
(* fixupNode that no rule module models are left out (no-ops here).        *)
(***************************************************************************)
EXTENDS FixupCellRules, FixupArrayRules, FixupControlRules

\* case ValueAdd: integer add, double add, then the six string attempts.
FixupValueAdd(S, n, pos) ==
    LET p1 == ChildPrediction(S, n, 1)
        p2 == ChildPrediction(S, n, 2)
        ok == CanOptimizeStringObjectAccess(S, n)
    IN
    IF IntegerAdd(S, n) THEN AttemptToMakeIntegerAdd(S, n, pos)
    ELSE IF isNumberSpeculationExpectingDefined(p1)
            /\ isNumberSpeculationExpectingDefined(p2)
    THEN FixDoubleEdges(S, n, pos)
    ELSE IF isStringSpeculation(p1)
    THEN AttemptToMakeFastStringAdd(S, n, 1, 2, "StringUse", pos)
    ELSE IF isStringSpeculation(p2)
    THEN AttemptToMakeFastStringAdd(S, n, 2, 1, "StringUse", pos)
    ELSE IF isStringObjectSpeculation(p1) /\ ok
    THEN AttemptToMakeFastStringAdd(S, n, 1, 2, "StringObjectUse", pos)
    ELSE IF isStringObjectSpeculation(p2) /\ ok
    THEN AttemptToMakeFastStringAdd(S, n, 2, 1, "StringObjectUse", pos)
    ELSE IF isStringOrStringObjectSpeculation(p1) /\ ok
    THEN AttemptToMakeFastStringAdd(S, n, 1, 2, "StringOrStringObjectUse", pos)
    ELSE IF isStringOrStringObjectSpeculation(p2) /\ ok
    THEN AttemptToMakeFastStringAdd(S, n, 2, 1, "StringOrStringObjectUse", pos)
    ELSE S

-----------------------------------------------------------------------------

\* The opcodes fixupNode lists as needing no fixup (the no-op cases kept
\* so that a new opcode is not forgotten).
NoFixupOps ==
    {"SetArgument", "JSConstant", "WeakJSConstant", "GetLocal", "GetCallee",
     "Flush", "PhantomLocal", "GetLocalUnlinked", "InlineStart", "GetMyScope",
     "GetClosureVar", "GetGlobalVar", "PutGlobalVar", "GlobalVarWatchpoint",
     "VarInjectionWatchpoint", "AllocationProfileWatchpoint", "Call",
     "Construct", "NewObject", "NewArrayBuffer", "NewRegexp", "Breakpoint",
     "IsUndefined", "IsBoolean", "IsNumber", "IsString", "IsObject",
     "IsFunction", "CreateActivation", "TearOffActivation", "CreateArguments",
     "PhantomArguments", "TearOffArguments", "GetMyArgumentsLength",
     "GetMyArgumentsLengthSafe", "CheckArgumentsNotCreated", "NewFunction",
     "NewFunctionNoCheck", "NewFunctionExpression", "Jump", "Return", "Throw",
     "ThrowReferenceError", "CountExecution", "ForceOSRExit",
     "CheckWatchdogTimer", "Unreachable", "ExtractOSREntryLocal", "LoopHint"}

\* fixupNode for the modelled opcodes.  The cases that only break (those
\* of NoFixupOps, the constant compares, SetLocal, whose edge
\* fixupSetLocalsInBlock fixes) leave the graph as it is.
FixupNode(S, n, pos) ==
    LET op == S.nodes[n].op IN
    CASE op \in BitOps                  -> FixupBitOp(S, n)
      [] op = "UInt32ToNumber"          ->
            SetUseKindAndUnboxIfProfitable(S, n, 1, "KnownInt32Use")
      [] op = "ValueToInt32"            -> FixupValueToInt32(S, n)
      [] op \in {"ArithAdd", "ArithSub"} -> FixupArithAdd(S, n, pos)
      [] op = "ArithNegate"             ->
            FixupUnaryArith(S, n, pos, NegateShouldSpeculateInteger(S, n))
      [] op = "ArithMul"                ->
            FixupBinaryArith(S, n, pos, MulShouldSpeculateInteger(S, n))
      [] op \in {"ArithDiv", "ArithMod"} -> FixupArithDiv(S, n, pos)
      [] op \in {"ArithMin", "ArithMax"} ->
            FixupBinaryArith(S, n, pos, IntegerForArithmetic(S, n))
      [] op = "ArithAbs"                -> FixupArithAbs(S, n, pos)
      [] op = "ArithSqrt"               -> FixupArithSqrt(S, n, pos)
      [] op = "LogicalNot"              -> FixupLogicalNot(S, n, pos)
      [] op = "TypeOf"                  -> FixupTypeOf(S, n)
      [] op \in CompareOps              -> FixupCompare(S, n, pos)
      [] op = "CompareStrictEq"         -> FixupCompareStrictEq(S, n, pos)
      [] op = "StringFromCharCode"      -> FixupStringFromCharCode(S, n)
      [] op = "Switch"                  -> FixupSwitch(S, n)
      [] op = "ValueAdd"                -> FixupValueAdd(S, n, pos)
      [] op = "MakeRope"                -> FixupMakeRope(S, n)
      [] op = "ToPrimitive"             -> FixupToPrimitive(S, n)
      [] op = "ToString"                -> FixupToString(S, n)
      [] op = "Branch"                  -> FixupBranch(S, n, pos)
      [] op = "ToThis"                  -> FixupToThis(S, n, pos)
      [] op = "GetByVal"                -> FixupGetByVal(S, n, pos)
      [] op \in {"PutByVal", "PutByValAlias"} -> FixupPutByVal(S, n, pos)
      [] op = "ArrayPush"               -> FixupArrayPush(S, n, pos)
      [] op = "ArrayPop"                -> FixupArrayPop(S, n, pos)
      [] op \in {"StringCharAt", "StringCharCodeAt"} ->
            FixupStringCharAt(S, n, pos)
      [] op \in {"GetById", "GetByIdFlush"} -> FixupGetById(S, n, pos)
      [] op \in CellCheckOps            -> Use(S, n, 1, "CellUse")
      [] op = "CheckArray"              -> FixupCheckArray(S, n)
      [] op \in {"Arrayify", "ArrayifyToStructure"} -> FixupArrayify(S, n)
      [] op \in KnownCellOps            -> Use(S, n, 1, "KnownCellUse")
      [] op \in Int32ArgumentOps        -> Use(S, n, 1, "Int32Use")
      [] op \in {"GetByOffset", "PutByOffset"} -> FixupOffsetAccess(S, n)
      [] op = "InstanceOf"              -> FixupInstanceOf(S, n)
      [] op = "In"                      -> FixupIn(S, n)
      [] op \in {"RegExpExec", "RegExpTest"} -> FixupRegExp(S, n)
      [] op \in {"Phantom", "Identity"} -> FixupPhantom(S, n)
      [] op = "NewArray"                -> FixupNewArray(S, n, pos)
      [] op = "NewTypedArray"           -> FixupNewTypedArray(S, n)
      [] op = "NewStringObject"         -> FixupNewStringObject(S, n)
      [] op \in NoFixupOps              -> S
      [] OTHER                          -> S

-----------------------------------------------------------------------------
(* Variables (VariableAccessData / ArgumentPosition).                      *)

ArgumentGroup(v) ==
    IF \E A \in ArgumentPositions : v \in A
    THEN CHOOSE A \in ArgumentPositions : v \in A
    ELSE {v}

ArgumentAwarePrediction(v) == UNION {varPrediction[w] : w \in ArgumentGroup(v)}

ShouldUnboxIfPossible(S, v) == S.prof[v] /\ ~neverUnbox[v]

ShouldUseDoubleFormat(S, v) == doubleFormat[v] /\ S.prof[v]

\* Fault variant: the call to mergeArgumentUnboxingAwareness is dropped.
MergeArgumentUnboxingAwarenessSkipped(prof) == prof

\* ArgumentPosition::mergeArgumentUnboxingAwareness for every position.
MergeArgumentUnboxingAwareness(prof) ==
    [v \in Vars |-> prof[v] \/ \E w \in ArgumentGroup(v) : prof[w]]

\* The body of the loop in fixupSetLocalsInBlock for one SetLocal.
FixupSetLocal(S, n, pos) ==
    LET v == S.nodes[n].var
        p == ArgumentAwarePrediction(v)
    IN  IF ~ShouldUnboxIfPossible(S, v) THEN S
        ELSE IF ShouldUseDoubleFormat(S, v)
        THEN FixDoubleEdge(S, n, 1, "NumberUse", TRUE, pos)
        ELSE IF isInt32Speculation(p)
        THEN SetUseKindAndUnboxIfProfitable(S, n, 1, "Int32Use")
        ELSE IF isCellSpeculation(p)
        THEN SetUseKindAndUnboxIfProfitable(S, n, 1, "CellUse")
        ELSE IF isBooleanSpeculation(p)
        THEN SetUseKindAndUnboxIfProfitable(S, n, 1, "BooleanUse")
        ELSE S

-----------------------------------------------------------------------------
(* run(), fixupBlock() and fixupSetLocalsInBlock() as steps.               *)

Init ==
    /\ varPrediction \in [Vars -> VarPredictions]
    /\ doubleFormat \in [Vars -> BOOLEAN]
    /\ neverUnbox \in [Vars -> BOOLEAN]
    /\ \A v \in Vars \ NeverUnboxCandidates : ~neverUnbox[v]
    \* only numbers are voted into double format, never a never-unbox local
    /\ \A v \in Vars : doubleFormat[v] =>
          isNumberSpeculation(varPrediction[v]) /\ ~neverUnbox[v]
    /\ stringObjectSane \in [StringOrigins -> BOOLEAN]
    /\ strictMode \in [ThisIds -> BOOLEAN]
    \* the build matters only to a division
    /\ hardwareDivision \in IF \E i \in DOMAIN Program :
                                Program[i].op \in {"ArithDiv", "ArithMod"}
                            THEN BOOLEAN ELSE {FALSE}
    \* and the register count only to an equality on strings
    /\ manyRegisters \in IF \E i \in DOMAIN Program : Program[i].op \in EqualityOps
                         THEN BOOLEAN ELSE {TRUE}
    /\ \E canSpec \in [ArithIds -> BOOLEAN], trunc \in [TruncIds -> BOOLEAN],
         empty \in [ConstIds -> BOOLEAN],
         profile \in ProfileChoices(ProfiledIds) :
          nodes = InitialNodes([i \in DOMAIN Program |->
                                   i \in ArithIds /\ canSpec[i]],
                               [i \in DOMAIN Program |->
                                   i \in TruncIds /\ trunc[i]],
                               [i \in DOMAIN Program |->
                                   i \in ConstIds /\ empty[i]],
                               [i \in DOMAIN Program |->
                                   IF i \in ProfiledIds THEN profile[i]
                                   ELSE NoProfile])
    /\ blocks = ProgramBlocks
    /\ insertionSet = <<>>
    /\ profitable = [v \in Vars |-> FALSE]
    /\ profitabilityChanged = FALSE
    /\ phase = "FixupBlocks"
    /\ blockIndex = 1
    /\ indexInBlock = 0
    /\ sweeps = 0

CurrentNode == blocks[blockIndex][indexInBlock + 1]

InBlock == indexInBlock < Len(blocks[blockIndex])

\* fixupBlock: one iteration of its loop, fixupNode(m_currentNode).
FixupBlockNode ==
    /\ phase = "FixupBlocks"
    /\ InBlock
    /\ Commit(FixupNode(Cur, CurrentNode, indexInBlock))
    /\ indexInBlock' = indexInBlock + 1
    /\ UNCHANGED <<blocks, phase, blockIndex, sweeps, oracle>>

\* Fault variant: m_profitabilityChanged is reset at the end of every block.
ExecuteInsertionsResetsChanged(nextPhase) ==
    /\ ~InBlock
    /\ blocks' = [blocks EXCEPT ![blockIndex] = Execute(@, insertionSet)]
    /\ insertionSet' = <<>>
    /\ IF blockIndex < Len(blocks)
       THEN /\ blockIndex' = blockIndex + 1
            /\ indexInBlock' = 0
            /\ UNCHANGED phase
       ELSE /\ phase' = nextPhase
            /\ UNCHANGED <<blockIndex, indexInBlock>>
    /\ profitabilityChanged' = FALSE
    /\ UNCHANGED <<nodes, profitable, sweeps, oracle>>

ExecuteInsertions(nextPhase) ==
    /\ ~InBlock
    /\ blocks' = [blocks EXCEPT ![blockIndex] = Execute(@, insertionSet)]
    /\ insertionSet' = <<>>
    /\ IF blockIndex < Len(blocks)
       THEN /\ blockIndex' = blockIndex + 1
            /\ indexInBlock' = 0
            /\ UNCHANGED phase
       ELSE /\ phase' = nextPhase
            /\ UNCHANGED <<blockIndex, indexInBlock>>
    /\ UNCHANGED <<nodes, profitable, profitabilityChanged, sweeps, oracle>>

FinishFixupBlock == phase = "FixupBlocks" /\ ExecuteInsertions("Loop")

\* while (m_profitabilityChanged): reset the flag, merge argument positions,
\* then sweep every block's SetLocals.
StartSweep ==
    /\ phase = "Loop"
    /\ profitabilityChanged
    /\ sweeps < MaxSweeps
    /\ profitabilityChanged' = FALSE
    /\ profitable' = MergeArgumentUnboxingAwareness(profitable)
    /\ phase' = "SetLocals"
    /\ blockIndex' = 1
    /\ indexInBlock' = 0
    /\ sweeps' = sweeps + 1
    /\ UNCHANGED <<nodes, blocks, insertionSet, oracle>>

\* The loop condition fails and run() returns true.
FinishRun ==
    /\ phase = "Loop"
    /\ ~profitabilityChanged
    /\ phase' = "Done"
    /\ UNCHANGED <<nodes, blocks, insertionSet, profitable,
                   profitabilityChanged, blockIndex, indexInBlock, sweeps,
                   oracle>>

\* fixupSetLocalsInBlock: one iteration of its loop.
FixupSetLocalsNode ==
    /\ phase = "SetLocals"
    /\ InBlock
    /\ IF nodes[CurrentNode].op = "SetLocal"
       THEN Commit(FixupSetLocal(Cur, CurrentNode, indexInBlock))
       ELSE UNCHANGED <<nodes, insertionSet, profitable, profitabilityChanged>>
    /\ indexInBlock' = indexInBlock + 1
    /\ UNCHANGED <<blocks, phase, blockIndex, sweeps, oracle>>

FinishSetLocalsBlock == phase = "SetLocals" /\ ExecuteInsertions("Loop")

Next ==
    \/ FixupBlockNode
    \/ FinishFixupBlock
    \/ StartSweep
    \/ FinishRun
    \/ FixupSetLocalsNode
    \/ FinishSetLocalsBlock

\* The phase runs to completion on one thread (spec.md section 5).
Spec == Init /\ [][Next]_vars /\ WF_vars(Next)

-----------------------------------------------------------------------------
(* Properties.                                                             *)

NodeRecords ==
    [op: {"GetLocal", "SetLocal", "JSConstant", "LogicalNot", "Int32ToDouble",
          "ValueAdd", "MakeRope", "ToPrimitive", "ToString", "Phantom",
          "Identity", "ToThis", "WeakJSConstant", "Branch", "ValueToInt32",
          "UInt32ToNumber", "DoubleAsInt32", "ArithSqrt",
          "GetByVal", "PutByVal", "ArrayPush", "ArrayPop", "StringCharAt",
          "StringCharCodeAt", "GetById", "GetArrayLength",
          "GetTypedArrayByteOffset", "ForceOSRExit", "GetButterfly",
          "GetIndexedPropertyStorage", "TypeOf", "CompareStrictEq",
          "StringFromCharCode", "Switch", "GetByOffset", "PutByOffset",
          "InstanceOf", "In", "NewArray", "NewTypedArray", "NewStringObject",
          "GetMyScope", "GetCallee", "NewObject", "RegExpTest"}
         \cup GuardOps \cup CompareOps \cup CellCheckOps \cup KnownCellOps
         \cup Int32ArgumentOps
         \cup BitOps \cup IntArithOps,
     var: Vars \cup {NoVar},
     children: Seq([node: Nat \ {0}, useKind: UseKinds]),
     prediction: SUBSET SpecCategories,
     canSpecInt: BOOLEAN,
     canTruncate: BOOLEAN,
     value: SUBSET Int,
     exitsForward: BOOLEAN,
     codeOrigin: DOMAIN Program,
     emptyString: BOOLEAN,
     targets: Seq({"taken", "notTaken"}),
     switchKind: SwitchKinds \cup {"None"},
     profile: [pred: SUBSET SpecCategories, mode: ArrayModes],
     arrayMode: ArrayModes]

\* Every variable has its type and every edge points at an existing node.
TypeOK ==
    /\ nodes \in Seq(NodeRecords)
    /\ \A n \in DOMAIN nodes : \A i \in DOMAIN nodes[n].children :
          nodes[n].children[i].node \in DOMAIN nodes
    /\ blocks \in Seq(Seq(DOMAIN nodes))
    /\ insertionSet \in Seq([pos: Nat, node: DOMAIN nodes])
    /\ profitable \in [Vars -> BOOLEAN]
    /\ profitabilityChanged \in BOOLEAN
    /\ phase \in Phases
    /\ blockIndex \in 1..Len(blocks)
    /\ indexInBlock \in 0..Len(blocks[blockIndex])
    /\ sweeps \in 0..MaxSweeps
    /\ manyRegisters \in BOOLEAN

\* The UseKind the committed representation of v implies for its writes.
ImpliedUseKind(v) ==
    LET p == ArgumentAwarePrediction(v) IN
    IF doubleFormat[v] THEN "NumberUse"
    ELSE IF isInt32Speculation(p) THEN "Int32Use"
    ELSE IF isCellSpeculation(p) THEN "CellUse"
    ELSE IF isBooleanSpeculation(p) THEN "BooleanUse"
    ELSE "UntypedUse"


\* The opcodes fixupNode meets with RELEASE_ASSERT_NOT_REACHED that the
\* phase itself creates: conversions, the double copy of a division, the
\* storage and length nodes of checkArray and the length rewrites.
UnreachableOps == {"DoubleAsInt32", "Int32ToDouble", "GetArrayLength",
                   "GetIndexedPropertyStorage", "GetTypedArrayByteOffset"}

SetLocalsFixedAtEnd ==
    phase = "Done" =>
      \A n \in GraphNodes :
         LET v == nodes[n].var IN
         (nodes[n].op = "SetLocal" /\ profitable[v] /\ ~neverUnbox[v])
            => nodes[n].children[1].useKind = ImpliedUseKind(v)

(* Sweeping a SetLocal again, which run() does on every iteration of its  *)
(* loop, never converts an already converted value: no Int32ToDouble reads *)
(* another Int32ToDouble.  fixDoubleEdge relies on the prediction of the   *)
(* conversion it inserted the first time to make the repeat a no-op.       *)
NoConversionOfConversion ==
    \A n \in DOMAIN nodes :
       nodes[n].op = "Int32ToDouble"
          => nodes[nodes[n].children[1].node].op # "Int32ToDouble"

(* The fixpoint loop stops within as many sweeps as there are variables:  *)
(* a sweep is repeated only when it flipped a flag, and the main pass must *)
(* have flipped one before the first sweep.                                *)
SweepBound == sweeps <= Cardinality(Vars)

(* spec.md section 8, "Subset-implies-specialization": when the phase is  *)
(* done, every edge whose producer is predicted to be purely an integer   *)
(* carries an integer UseKind.  The code gives the Int32ToDouble that      *)
(* injectInt32ToDoubleNode inserts a NumberUse edge to its integer input, *)
(* and leaves the SetLocal of a variable that is not profitable to unbox  *)
(* untyped.                                                                *)
SubsetImpliesSpecialization ==
    phase = "Done" =>
      \A n \in GraphNodes : \A i \in DOMAIN nodes[n].children :
         isInt32Speculation(nodes[nodes[n].children[i].node].prediction)
            => nodes[n].children[i].useKind \in Int32UseKinds

=============================================================================
