----------------------------- MODULE FixupGraph -----------------------------
(***************************************************************************)
(* The graph the DFG fixup phase (DFGFixupPhase.cpp) rewrites, the         *)
(* prediction oracle it reads, and the edge helpers every opcode rule is   *)
(* built from: setUseKindAndUnboxIfProfitable, observeUseKindOnNode,       *)
(* fixDoubleEdge and injectInt32ToDoubleNode.  Also the initial graph built*)
(* from the Program template, with the predictions the earlier prediction  *)
(* propagation phase gives each node.                                      *)
(*                                                                         *)
(* The graph is a sequence of node records; a node id is its index.  A     *)
(* block is a sequence of node ids.  Each edge is [node, useKind].  The    *)
(* prediction oracle snapshot (variable predictions, double-format votes,  *)
(* never-unbox marks, overflow and truncation profiles) is chosen in Init  *)
(* and never changes, as spec.md section 5 requires.  Threading one state  *)
(* record S = [nodes, ins, prof, changed] through the helpers lets a rule  *)
(* chain them the way the C++ calls them one after another.                *)
(***************************************************************************)
EXTENDS Naturals, Sequences, FiniteSets, SpeculatedType, ArrayMode, InsertionSet

CONSTANTS
    Vars,                        \* source-level locals (VariableAccessData)
    ArgumentPositions,           \* disjoint sets of Vars (ArgumentPosition)
    VarPredictions,              \* the predictions a variable may have
    Program,                     \* node templates [op, var, args]
    ProgramBlocks,               \* blocks as sequences of template indices
    AlwaysUnboxSimplePrimitives, \* TRUE on a JSVALUE32_64 build
    NoVar,                       \* the var of a node that is not a local
    NeverUnboxCandidates,        \* the Vars that may be marked never-unbox
    MaxSweeps,                   \* bound on fixpoint sweeps (model bound)
    IntWidth                     \* bits of an int32 (32; smaller in models)

ASSUME \A A, B \in ArgumentPositions : A # B => A \cap B = {}
ASSUME AlwaysUnboxSimplePrimitives \in BOOLEAN
ASSUME MaxSweeps \in Nat
ASSUME NeverUnboxCandidates \subseteq Vars
ASSUME IntWidth \in Nat \ {0}

VARIABLES
    nodes,                \* the graph's nodes
    blocks,               \* the graph's blocks
    insertionSet,         \* m_insertionSet: queued [pos, node] records
    profitable,           \* VariableAccessData::isProfitableToUnbox()
    profitabilityChanged, \* m_profitabilityChanged
    phase,                \* where run() is
    blockIndex,           \* the block being walked (1-based)
    indexInBlock,         \* m_indexInBlock (0-based, as in the code)
    sweeps,               \* fixpoint sweeps started so far (history)
    varPrediction,        \* oracle: variable->prediction()
    doubleFormat,         \* oracle: doubleFormatState() == UsingDoubleFormat
    neverUnbox,           \* oracle: shouldNeverUnbox()
    stringObjectSane,     \* oracle: canOptimizeStringObjectAccess(origin)
    strictMode,           \* oracle: executableFor(origin)->isStrictMode()
    hardwareDivision,     \* oracle: isX86() || isARMv7s()
    manyRegisters         \* oracle: GPRInfo::numberOfRegisters >= 7

\* What no step changes: the oracle snapshot.
oracle == <<varPrediction, doubleFormat, neverUnbox, stringObjectSane,
            strictMode, hardwareDivision, manyRegisters>>
vars == <<nodes, blocks, insertionSet, profitable, profitabilityChanged,
          phase, blockIndex, indexInBlock, sweeps, oracle>>

Phases == {"FixupBlocks", "Loop", "SetLocals", "Done"}

-----------------------------------------------------------------------------
(* The initial graph.                                                      *)

BitOps == {"BitAnd", "BitOr", "BitXor", "BitRShift", "BitLShift",
          "BitURShift", "ArithIMul"}
AddOps == {"ArithAdd", "ArithSub", "ValueAdd"}
\* Arithmetic whose fixup and prediction read node->canSpeculateInteger().
IntArithOps == AddOps \cup {"ArithNegate", "ArithMul", "ArithDiv", "ArithMod",
                            "ArithMin", "ArithMax", "ArithAbs"}
\* Arithmetic that is always done in doubles when not done in integers.
DoubleArithOps == IntArithOps \ {"ValueAdd"}

ArithIds == {i \in DOMAIN Program : Program[i].op \in IntArithOps}

\* The JSValue of a constant node: {} for a string; {v} for an integer-valued
\* number v; {v, v+1} for the number v + 1/2 strictly between them (a
\* template constant with plusHalf), the one kind of fraction the model has.
ConstValue(i) ==
    IF "value" \notin DOMAIN Program[i] THEN {}
    ELSE IF "plusHalf" \in DOMAIN Program[i]
    THEN {Program[i].value, Program[i].value + 1}
    ELSE {Program[i].value}

IsInt32(v) == -(2^(IntWidth-1)) <= v /\ v < 2^(IntWidth-1)

\* Twice the number a value set stands for (an integer for every number).
Twice(val) == (CHOOSE v \in val : \A w \in val : v <= w)
            + (CHOOSE v \in val : \A w \in val : v >= w)

\* JSValue::isNumber() and JSValue::isInt32()
IsNumberValue(val) == val # {}
IsInt32Value(val)  == Cardinality(val) = 1 /\ \E v \in val : IsInt32(v)
NumberOf(val) == CHOOSE v \in val : TRUE

\* The integer part of x / 2, rounded toward zero.
TruncHalf(x) == IF x >= 0 THEN x \div 2 ELSE -((-x) \div 2)

\* JSC::toInt32 of an integer-valued double: the value modulo 2^32, signed.
ToInt32(v) ==
    LET m == v % (2^IntWidth) IN
    IF m >= 2^(IntWidth-1) THEN m - 2^IntWidth ELSE m

\* JSC::toInt32 of a number value: truncated toward zero, then wrapped.
NumberToInt32(val) == ToInt32(TruncHalf(Twice(val)))

\* addImmediateShouldSpeculateInteger's twoToThe48, at the model's width.
ImmediateBound == 2^(IntWidth + 16)

\* The adds whose arithNodeFlags decide constant truncation: those with a
\* number constant operand.
TruncIds ==
    {i \in DOMAIN Program :
        /\ Program[i].op \in AddOps
        /\ \E k \in 1..2 : /\ Program[Program[i].args[k]].op = "JSConstant"
                          /\ IsNumberValue(ConstValue(Program[i].args[k]))}

\* The code origins canOptimizeStringObjectAccess is asked about.
StringOrigins ==
    {i \in DOMAIN Program :
        \/ Program[i].op \in {"ValueAdd", "ToPrimitive", "ToString"}
        \/ Program[i].op = "GetById" /\ Program[i].prop = "length"}

\* A block the main walk of run() has left (its nodes all fixed up).
Walked(b) == b < blockIndex \/ phase # "FixupBlocks"

\* Nodes whose result prediction (value profiling) and array mode (array
\* profiling) the bytecode parser took from the baseline profiles; the
\* template lists the [pred, mode] pairs the profiles may hold.
ProfiledIds == {i \in DOMAIN Program : "profiles" \in DOMAIN Program[i]}

\* Every choice of one of its template's profiles for each id of ids.
RECURSIVE ProfileChoices(_)
ProfileChoices(ids) ==
    IF ids = {} THEN {<<>>}
    ELSE LET i == CHOOSE x \in ids : TRUE IN
         {[j \in DOMAIN f \cup {i} |-> IF j = i THEN p ELSE f[j]] :
             f \in ProfileChoices(ids \ {i}), p \in Program[i].profiles}

\* The nodes the profiles say nothing about.
NoProfile == [pred |-> {}, mode |-> Mode("SelectUsingPredictions")]

\* The ops whose result prediction is the value profile's.
HeapOps == {"GetByVal", "GetById", "ArrayPop"}

ConstIds == {i \in DOMAIN Program : Program[i].op = "JSConstant"}

ThisIds == {i \in DOMAIN Program : Program[i].op = "ToThis"}

\* Fault variant: the twoToThe48 range test is dropped.
AddImmediateShouldSpeculateIntegerNoBound(varPred, imm, canSpec, canTrunc) ==
    IF ~IsNumberValue(imm) THEN "DontSpeculateInteger"
    ELSE IF ~isInt32SpeculationExpectingDefined(varPred) THEN "DontSpeculateInteger"
    ELSE IF IsInt32Value(imm)
    THEN IF canSpec THEN "SpeculateInteger" ELSE "DontSpeculateInteger"
    ELSE IF canTrunc THEN "SpeculateIntegerAndTruncateConstants"
    ELSE "DontSpeculateInteger"

\* Graph::addImmediateShouldSpeculateInteger: an add of a variable and an
\* immediate.
AddImmediateShouldSpeculateInteger(varPred, imm, canSpec, canTrunc) ==
    IF ~IsNumberValue(imm) THEN "DontSpeculateInteger"
    ELSE IF ~isInt32SpeculationExpectingDefined(varPred) THEN "DontSpeculateInteger"
    ELSE IF IsInt32Value(imm)
    THEN IF canSpec THEN "SpeculateInteger" ELSE "DontSpeculateInteger"
    ELSE IF Twice(imm) < -2 * ImmediateBound \/ Twice(imm) > 2 * ImmediateBound
    THEN "DontSpeculateInteger"
    ELSE IF canTrunc THEN "SpeculateIntegerAndTruncateConstants"
    ELSE "DontSpeculateInteger"

\* Graph::addSpeculationMode over operand descriptors [const, value, pred].
AddModeOf(l, r, canSpec, canTrunc) ==
    IF l.const THEN AddImmediateShouldSpeculateInteger(r.pred, l.value, canSpec, canTrunc)
    ELSE IF r.const THEN AddImmediateShouldSpeculateInteger(l.pred, r.value, canSpec, canTrunc)
    ELSE IF /\ isInt32SpeculationExpectingDefined(l.pred)
            /\ isInt32SpeculationExpectingDefined(r.pred)
            /\ canSpec
    THEN "SpeculateInteger" ELSE "DontSpeculateInteger"

ConstPrediction(v) ==
    IF ~IsNumberValue(v) THEN {"String"}
    ELSE IF IsInt32Value(v) THEN {"Int32"} ELSE {"Double"}

\* Predictions left on nodes by the prediction propagation phase.
RECURSIVE TemplatePrediction(_, _, _, _)
TemplatePrediction(i, canSpec, trunc, profile) ==
    LET t == Program[i]
        P(k) == TemplatePrediction(t.args[k], canSpec, trunc, profile)
        D(k) == [const |-> Program[t.args[k]].op = "JSConstant",
                 value |-> ConstValue(t.args[k]), pred |-> P(k)]
        IntOrDouble(b) == IF b THEN {"Int32"} ELSE {"Double"}
    IN
    CASE t.op = "GetLocal"   -> varPrediction[t.var]
      [] t.op = "JSConstant" -> ConstPrediction(ConstValue(i))
      [] t.op = "MakeRope"   -> {"String"}
      [] t.op = "ToString"   -> {"String"}
      [] t.op = "ToPrimitive" -> ResultOfToPrimitive(P(1))
      [] t.op \in BitOps \cup {"ValueToInt32"} -> {"Int32"}
      [] t.op = "UInt32ToNumber" -> SpecNumber
      [] t.op \in {"ArithAdd", "ArithSub"} ->
            IntOrDouble(AddModeOf(D(1), D(2), canSpec[i], trunc[i])
                           # "DontSpeculateInteger")
      [] t.op = "ValueAdd" ->
            IF AddModeOf(D(1), D(2), canSpec[i], trunc[i]) # "DontSpeculateInteger"
            THEN {"Int32"} ELSE {}
      [] t.op \in {"ArithNegate", "ArithAbs"} ->
            IntOrDouble(canSpec[i] /\ isInt32SpeculationForArithmetic(P(1)))
      [] t.op \in {"ArithMul", "ArithDiv", "ArithMod", "ArithMin", "ArithMax"} ->
            IntOrDouble(/\ canSpec[i]
                        /\ isInt32SpeculationForArithmetic(P(1))
                        /\ isInt32SpeculationForArithmetic(P(2)))
      [] t.op = "ArithSqrt"  -> {"Double"}
      [] t.op = "LogicalNot" -> {"Boolean"}
      [] t.op \in HeapOps    -> profile[i].pred
      [] t.op = "ArrayPush"  -> {"Int32"}
      [] OTHER               -> {}

InitialNodes(canSpec, trunc, empty, profile) ==
    [i \in DOMAIN Program |->
        [op           |-> Program[i].op,
         var          |-> Program[i].var,
         children     |-> [j \in DOMAIN Program[i].args |->
                              [node |-> Program[i].args[j],
                               useKind |-> "UntypedUse"]],
         prediction   |-> TemplatePrediction(i, canSpec, trunc, profile),
         canSpecInt   |-> canSpec[i],
         canTruncate  |-> trunc[i],
         value        |-> IF Program[i].op = "JSConstant" THEN ConstValue(i)
                          ELSE {},
         exitsForward |-> FALSE,
         codeOrigin   |-> i,
         emptyString  |-> empty[i],
         targets      |-> IF Program[i].op = "Branch"
                          THEN <<"taken", "notTaken">> ELSE <<>>,
         switchKind   |-> IF "kind" \in DOMAIN Program[i]
                          THEN Program[i].kind ELSE "None",
         profile      |-> profile[i],
         arrayMode    |-> profile[i].mode]]

\* The graph as it was when the phase started.
OriginalNodes == InitialNodes([i \in DOMAIN Program |-> nodes[i].canSpecInt],
                              [i \in DOMAIN Program |-> nodes[i].canTruncate],
                              [i \in DOMAIN Program |-> nodes[i].emptyString],
                              [i \in DOMAIN Program |-> nodes[i].profile])

-----------------------------------------------------------------------------
(* The state the edge helpers read and write, as one record so that a     *)
(* handler can chain them the way the C++ calls them one after another.   *)

Cur == [nodes |-> nodes, ins |-> insertionSet, prof |-> profitable,
        changed |-> profitabilityChanged]

Commit(S) ==
    /\ nodes' = S.nodes
    /\ insertionSet' = S.ins
    /\ profitable' = S.prof
    /\ profitabilityChanged' = S.changed

ChildNode(S, n, i) == S.nodes[n].children[i].node
ChildPrediction(S, n, i) == S.nodes[ChildNode(S, n, i)].prediction

\* The unboxing decision rule of observeUseKindOnNode for variable v.
UseMakesProfitable(v, useKind) ==
    CASE useKind = "Int32Use" ->
            AlwaysUnboxSimplePrimitives \/ isInt32Speculation(varPrediction[v])
      [] useKind \in {"NumberUse", "RealNumberUse"} -> doubleFormat[v]
      [] useKind = "BooleanUse" ->
            AlwaysUnboxSimplePrimitives \/ isBooleanSpeculation(varPrediction[v])
      [] useKind \in {"CellUse", "KnownCellUse", "ObjectUse", "StringUse",
                      "KnownStringUse", "StringObjectUse",
                      "StringOrStringObjectUse"} ->
            AlwaysUnboxSimplePrimitives \/ isCellSpeculation(varPrediction[v])
      [] OTHER -> FALSE

\* Fault variant: m_profitabilityChanged = merge(...) instead of |=.
ObserveUseKindOnNodeAssigns(S, n, useKind) ==
    LET v == S.nodes[n].var IN
    IF S.nodes[n].op = "GetLocal" /\ UseMakesProfitable(v, useKind)
    THEN [S EXCEPT !.prof[v] = TRUE, !.changed = ~S.prof[v]]
    ELSE S

\* Fault variant: the merge reports a change even when the flag was set.
ObserveUseKindOnNodeAlwaysChanged(S, n, useKind) ==
    LET v == S.nodes[n].var IN
    IF S.nodes[n].op = "GetLocal" /\ UseMakesProfitable(v, useKind)
    THEN [S EXCEPT !.prof[v] = TRUE, !.changed = TRUE]
    ELSE S

\* observeUseKindOnNode: m_profitabilityChanged |= mergeIsProfitableToUnbox.
ObserveUseKindOnNode(S, n, useKind) ==
    LET v == S.nodes[n].var IN
    IF S.nodes[n].op = "GetLocal" /\ UseMakesProfitable(v, useKind)
    THEN [S EXCEPT !.prof[v] = TRUE, !.changed = @ \/ ~S.prof[v]]
    ELSE S

SetUseKindAndUnboxIfProfitable(S, n, i, useKind) ==
    [ObserveUseKindOnNode(S, ChildNode(S, n, i), useKind)
        EXCEPT !.nodes[n].children[i].useKind = useKind]

\* A node created by the phase on behalf of the node at codeOrigin.
NewNode(op, children, prediction, origin) ==
    [op |-> op, var |-> NoVar, children |-> children, prediction |-> prediction,
     canSpecInt |-> FALSE, canTruncate |-> FALSE, value |-> {},
     exitsForward |-> FALSE, codeOrigin |-> origin,
     emptyString |-> FALSE, targets |-> <<>>, switchKind |-> "None",
     profile |-> NoProfile,
     arrayMode |-> Mode("SelectUsingPredictions")]

\* Node::setOp, as convertToIdentity and convertToToString use it.
SetOp(S, n, op) == [S EXCEPT !.nodes[n].op = op]

\* m_insertionSet.insertNode(pos, ...): a new node, queued in front of pos.
InsertNode(S, pos, rec) ==
    [S EXCEPT !.nodes = Append(@, rec),
              !.ins = Append(@, [pos |-> pos, node |-> Len(S.nodes) + 1])]

Int32ToDouble(S, n, i, forward) ==
    [NewNode("Int32ToDouble", <<[node |-> ChildNode(S, n, i),
                                 useKind |-> "NumberUse"]>>,
             {"Double"}, S.nodes[n].codeOrigin)
        EXCEPT !.exitsForward = forward]

\* Fault variant: the edge is pointed one past the new node.
InjectInt32ToDoubleNodeOffByOne(S, n, i, useKind, forward, pos) ==
    [InsertNode(S, pos, Int32ToDouble(S, n, i, forward))
        EXCEPT !.nodes[n].children[i] = [node |-> Len(S.nodes) + 2,
                                         useKind |-> useKind]]

\* Fault variant: the conversion is queued behind the node that reads it.
InjectInt32ToDoubleNodeAfter(S, n, i, useKind, forward, pos) ==
    [InsertNode(S, pos + 1, Int32ToDouble(S, n, i, forward))
        EXCEPT !.nodes[n].children[i] = [node |-> Len(S.nodes) + 1,
                                         useKind |-> useKind]]

\* A new Int32ToDouble queued at pos, reading the old child with NumberUse;
\* the edge is redirected to it with the requested UseKind.
InjectInt32ToDoubleNode(S, n, i, useKind, forward, pos) ==
    [InsertNode(S, pos, Int32ToDouble(S, n, i, forward))
        EXCEPT !.nodes[n].children[i] = [node |-> Len(S.nodes) + 1,
                                         useKind |-> useKind]]

\* Fault variant: the SpecDouble test is dropped, every edge is converted.
FixDoubleEdgeAlwaysConverts(S, n, i, useKind, forward, pos) ==
    InjectInt32ToDoubleNode(S, n, i, useKind, forward, pos)

FixDoubleEdge(S, n, i, useKind, forward, pos) ==
    IF "Double" \in ChildPrediction(S, n, i)
    THEN SetUseKindAndUnboxIfProfitable(S, n, i, useKind)
    ELSE InjectInt32ToDoubleNode(S, n, i, useKind, forward, pos)


-----------------------------------------------------------------------------
(* Graph-level properties shared by the rules.                             *)

GraphNodes == UNION {{blocks[b][k] : k \in DOMAIN blocks[b]} : b \in DOMAIN blocks}

\* A block no longer has queued insertions once it has been flushed; only
\* the block being walked may have them.
Flushed(b) == b # blockIndex \/ insertionSet = <<>>

\* m is placed before position k of block b.
PlacedBefore(m, b, k) ==
    \/ \E j \in 1..(k - 1) : blocks[b][j] = m
    \/ \E c \in 1..(b - 1) : \E j \in DOMAIN blocks[c] : blocks[c][j] = m

(* In every flushed block each node's inputs are placed before it: the    *)
(* nodes a rule queues with m_insertionSet.insertNode(m_indexInBlock, ...) *)
(* (conversions, truncated constants, the double copy of a division) land  *)
(* in front of the node that reads them, in the order they were queued.    *)
DefinedBeforeUse ==
    \A b \in DOMAIN blocks : Flushed(b) =>
       \A k \in DOMAIN blocks[b] :
          \A e \in DOMAIN nodes[blocks[b][k]].children :
             PlacedBefore(nodes[blocks[b][k]].children[e].node, b, k)
=============================================================================
