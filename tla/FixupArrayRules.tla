-------------------------- MODULE FixupArrayRules --------------------------
(***************************************************************************)
(* The indexed-access and length rules of fixupNode (spec.md 4.8, 4.9):   *)
(* GetByVal, PutByVal, ArrayPush, ArrayPop and StringCharAt with          *)
(* blessArrayOperation and checkArray, and GetById of length, byteLength  *)
(* and byteOffset with attemptToMakeGetArrayLength,                        *)
(* attemptToMakeGetTypedArrayByteLength, convertToGetArrayLength,          *)
(* prependGetArrayLength and attemptToMakeGetTypedArrayByteOffset.         *)
(*                                                                         *)
(* A node's arrayMode field is its ArrayMode; the profile field holds the *)
(* mode and value prediction the bytecode parser took from the baseline   *)
(* profiles.  The storage slot of an access (child3 of GetByVal, varArg 3 *)
(* of PutByVal, ...) is the edge after its last operand: filling it       *)
(* appends an edge.  A null Node* (no index) is 0.                         *)
(***************************************************************************)
EXTENDS FixupStringRules

\* Fault variant: the storage slot is pointed one past the storage node.
AppendStorageOffByOne(S, n, storage) ==
    [S EXCEPT !.nodes[n].children =
                 Append(@, [node |-> storage + 1, useKind |-> "UntypedUse"])]

\* storageChild = Edge(storage): the storage slot after the operands.
AppendStorage(S, n, storage) ==
    [S EXCEPT !.nodes[n].children =
                 Append(@, [node |-> storage, useKind |-> "UntypedUse"])]

\* checkArray: queue the guard (ArrayifyToStructure, Arrayify, CheckStructure
\* or CheckArray) on array and, when storageCheck holds, the storage fetch
\* behind it; the storage node is then the last node of the graph.  A
\* CheckStructure carries the mode whose original structure it checks.
CheckArray(S, n, mode, array, index, pos, storageCheck) ==
    LET origin == S.nodes[n].codeOrigin
        base   == [node |-> array, useKind |-> "CellUse"]
        idx    == IF index = 0 THEN <<>>
                  ELSE <<[node |-> index, useKind |-> "Int32Use"]>>
        guard  == CASE mode.conversion /\ HasOriginalStructure(mode) ->
                           "ArrayifyToStructure"
                    [] mode.conversion -> "Arrayify"
                    [] HasOriginalStructure(mode) -> "CheckStructure"
                    [] OTHER -> "CheckArray"
        S1 == InsertNode(S, pos,
                  [NewNode(guard, IF mode.conversion THEN <<base>> \o idx
                                  ELSE <<base>>, {}, origin)
                      EXCEPT !.arrayMode = mode])
        storage == IF usesButterfly(mode)
                   THEN NewNode("GetButterfly", <<base>>, {}, origin)
                   ELSE [NewNode("GetIndexedPropertyStorage",
                                 <<[base EXCEPT !.useKind = "KnownCellUse"]>>,
                                 {}, origin)
                            EXCEPT !.arrayMode = mode]
    IN  IF storageCheck THEN InsertNode(S1, pos, storage) ELSE S1

\* Fault variant: a ForceExit access gets no ForceOSRExit.
BlessArrayOperationNoForceExit(S, n, base, index, pos) ==
    LET mode == S.nodes[n].arrayMode IN
    IF mode.type \in {"ForceExit", "Generic"} THEN S
    ELSE AppendStorage(CheckArray(S, n, mode, base, index, pos, TRUE), n,
                       Len(S.nodes) + 2)

\* blessArrayOperation: nothing for Generic, an unconditional exit for
\* ForceExit, and otherwise the guard and the storage the access reads.
BlessArrayOperation(S, n, base, index, pos) ==
    LET mode == S.nodes[n].arrayMode IN
    CASE mode.type = "ForceExit" ->
            InsertNode(S, pos, NewNode("ForceOSRExit", <<>>, {},
                                       S.nodes[n].codeOrigin))
      [] mode.type = "Generic" -> S
      [] OTHER ->
            IF canCSEStorage(mode)
            THEN AppendStorage(CheckArray(S, n, mode, base, index, pos, TRUE),
                               n, Len(S.nodes) + 2)
            ELSE CheckArray(S, n, mode, base, index, pos, FALSE)

\* The node's mode refined by the operand predictions (setArrayMode).
Refined(S, n, base, index, value) ==
    [S EXCEPT !.nodes[n].arrayMode =
                 Refine(S.nodes[n].arrayMode, base, index, value)]

\* Base and index of a specialised access: KnownCellUse and Int32Use.
KnownCellAndIndex(S, n) ==
    SetUseKindAndUnboxIfProfitable(
        SetUseKindAndUnboxIfProfitable(S, n, 1, "KnownCellUse"), n, 2, "Int32Use")

\* A generic access speculates cell only on a 32-bit build.
GenericBase(S, n) ==
    IF AlwaysUnboxSimplePrimitives
    THEN SetUseKindAndUnboxIfProfitable(S, n, 1, "CellUse") ELSE S

\* case GetByVal.  The SaneChain and OutOfBounds speculation changes made
\* after blessing are part of the speculation byte the model leaves out.
FixupGetByVal(S, n, pos) ==
    LET S1 == Refined(S, n, ChildPrediction(S, n, 1), ChildPrediction(S, n, 2), {})
        S2 == BlessArrayOperation(S1, n, ChildNode(S, n, 1), ChildNode(S, n, 2), pos)
        t  == S1.nodes[n].arrayMode.type
    IN  CASE t = "Generic"   -> GenericBase(S2, n)
          [] t = "ForceExit" -> S2
          [] OTHER           -> KnownCellAndIndex(S2, n)

\* case PutByVal: the value edge by modeForPut().
FixupPutByVal(S, n, pos) ==
    LET S1 == Refined(S, n, ChildPrediction(S, n, 1), ChildPrediction(S, n, 2),
                      ChildPrediction(S, n, 3))
        S2 == BlessArrayOperation(S1, n, ChildNode(S, n, 1), ChildNode(S, n, 2), pos)
        t  == ModeForPut(S1.nodes[n].arrayMode).type
        S3 == KnownCellAndIndex(S2, n)
    IN  CASE t \in {"ForceExit", "Generic"} -> GenericBase(S2, n)
          [] t = "Int32"  -> SetUseKindAndUnboxIfProfitable(S3, n, 3, "Int32Use")
          [] t = "Double" -> FixDoubleEdge(S3, n, 3, "RealNumberUse", FALSE, pos)
          [] t \in IntegerTypedArrayTypes ->
                IF isInt32Speculation(ChildPrediction(S, n, 3))
                THEN SetUseKindAndUnboxIfProfitable(S3, n, 3, "Int32Use")
                ELSE FixDoubleEdge(S3, n, 3, "NumberUse", FALSE, pos)
          [] t = "Float64Array" -> FixDoubleEdge(S3, n, 3, "NumberUse", FALSE, pos)
          [] OTHER -> S3

\* case ArrayPush: refined with the base's cell part only, so that a
\* non-cell base never makes it Generic; the base is KnownCellUse whatever
\* the mode.
FixupArrayPush(S, n, pos) ==
    LET S1 == Refined(S, n, ChildPrediction(S, n, 1) \cap SpecCell, {"Int32"},
                      ChildPrediction(S, n, 2))
        S2 == SetUseKindAndUnboxIfProfitable(
                  BlessArrayOperation(S1, n, ChildNode(S, n, 1), 0, pos),
                  n, 1, "KnownCellUse")
        t  == S1.nodes[n].arrayMode.type
    IN  CASE t = "Int32"  -> SetUseKindAndUnboxIfProfitable(S2, n, 2, "Int32Use")
          [] t = "Double" -> FixDoubleEdge(S2, n, 2, "RealNumberUse", FALSE, pos)
          [] OTHER        -> S2

\* case ArrayPop: the parser's mode, not refined.
FixupArrayPop(S, n, pos) ==
    SetUseKindAndUnboxIfProfitable(
        BlessArrayOperation(S, n, ChildNode(S, n, 1), 0, pos), n, 1, "KnownCellUse")

\* case StringCharAt / StringCharCodeAt: always ArrayMode(Array::String).
FixupStringCharAt(S, n, pos) ==
    KnownCellAndIndex(
        BlessArrayOperation(S, n, ChildNode(S, n, 1), ChildNode(S, n, 2), pos), n)

-----------------------------------------------------------------------------
(* Length, byteLength and byteOffset reads.                                *)

\* convertToGetArrayLength: the GetById becomes a GetArrayLength on a KnownCell
\* base behind the mode's guard, reading the storage when the length is in it.
ConvertToGetArrayLength(S, n, mode, pos) ==
    LET S1 == SetUseKindAndUnboxIfProfitable(
                  [S EXCEPT !.nodes[n].op = "GetArrayLength",
                            !.nodes[n].arrayMode = mode], n, 1, "KnownCellUse")
        S2 == CheckArray(S1, n, mode, ChildNode(S, n, 1), 0, pos,
                         lengthNeedsStorage(mode))
    IN  IF lengthNeedsStorage(mode) THEN AppendStorage(S2, n, Len(S2.nodes))
        ELSE S2

\* attemptToForceStringArrayModeByToStringConversion<useKind>: when the
\* string object's accesses are sane, the base goes through a ToString
\* and the mode becomes String; otherwise both stay as they are (Generic).
\* The result is the graph and the mode.
AttemptToForceStringArrayMode(S, n, useKind, pos) ==
    IF ~CanOptimizeStringObjectAccess(S, n) THEN [graph |-> S, mode |-> Mode("Generic")]
    ELSE [graph |-> CreateToString(S, n, 1, useKind, pos), mode |-> Mode("String")]

\* attemptToMakeGetArrayLength: the profiled mode (Unprofiled read as
\* SelectUsingPredictions) refined by the base and the read's own
\* prediction; a Generic string object is first turned into a string.
AttemptToMakeGetArrayLength(S, n, pos) ==
    LET p    == ChildPrediction(S, n, 1)
        prof == S.nodes[n].profile.mode
        m1   == Refine(IF prof.type = "Unprofiled"
                       THEN Mode("SelectUsingPredictions") ELSE prof,
                       p, S.nodes[n].prediction, {})
        f    == CASE m1.type # "Generic" -> [graph |-> S, mode |-> m1]
                  [] isStringObjectSpeculation(p) ->
                       AttemptToForceStringArrayMode(S, n, "StringObjectUse", pos)
                  [] isStringOrStringObjectSpeculation(p) ->
                       AttemptToForceStringArrayMode(S, n, "StringOrStringObjectUse", pos)
                  [] OTHER -> [graph |-> S, mode |-> m1]
    IN  CASE ~isInt32Speculation(S.nodes[n].prediction) -> S
          [] ~supportsLength(f.mode) -> f.graph
          [] OTHER -> ConvertToGetArrayLength(f.graph, n, f.mode, pos)

\* Fault variant: the GetArrayLength is queued behind the node reading it.
PrependGetArrayLengthAfter(S, n, child, mode, pos) ==
    LET S1 == CheckArray(S, n, mode, child, 0, pos, lengthNeedsStorage(mode))
        storage == IF lengthNeedsStorage(mode)
                   THEN <<[node |-> Len(S1.nodes), useKind |-> "UntypedUse"]>>
                   ELSE <<>>
    IN  InsertNode(S1, pos + 1,
            [NewNode("GetArrayLength",
                     <<[node |-> child, useKind |-> "KnownCellUse"]>> \o storage,
                     {"Int32"}, S.nodes[n].codeOrigin)
                EXCEPT !.arrayMode = mode])

\* prependGetArrayLength: a guard, maybe storage, then a GetArrayLength of
\* child, which is the last node of the graph.
PrependGetArrayLength(S, n, child, mode, pos) ==
    LET S1 == CheckArray(S, n, mode, child, 0, pos, lengthNeedsStorage(mode))
        storage == IF lengthNeedsStorage(mode)
                   THEN <<[node |-> Len(S1.nodes), useKind |-> "UntypedUse"]>>
                   ELSE <<>>
    IN  InsertNode(S1, pos,
            [NewNode("GetArrayLength",
                     <<[node |-> child, useKind |-> "KnownCellUse"]>> \o storage,
                     {"Int32"}, S.nodes[n].codeOrigin)
                EXCEPT !.arrayMode = mode])

\* The GetById becomes length << shift, its edges Int32Use (observed).
ShiftedLength(S, n, pos, t, shiftAmount) ==
    LET S1 == PrependGetArrayLength(S, n, ChildNode(S, n, 1), Mode(t), pos)
        S2 == InsertNode(S1, pos, [NewNode("JSConstant", <<>>, {"Int32"},
                                           S.nodes[n].codeOrigin)
                                      EXCEPT !.value = {shiftAmount}])
        length == Len(S1.nodes)
        shift  == Len(S2.nodes)
        S3 == ObserveUseKindOnNode(ObserveUseKindOnNode(SetOp(S2, n, "BitLShift"),
                                                        length, "Int32Use"),
                                   shift, "Int32Use")
    IN  [S3 EXCEPT !.nodes[n].children =
                      <<[node |-> length, useKind |-> "Int32Use"],
                        [node |-> shift, useKind |-> "Int32Use"]>>]

\* Fault variant: the length is shifted by the element size, not its log.
AttemptToMakeGetTypedArrayByteLengthBySize(S, n, pos) ==
    LET t == TypedArrayTypeFromSpeculation(ChildPrediction(S, n, 1)) IN
    CASE ~isInt32Speculation(S.nodes[n].prediction) \/ ~isTypedView(t) -> S
      [] ElementSize(t) = 1 -> ConvertToGetArrayLength(S, n, Mode(t), pos)
      [] OTHER -> ShiftedLength(S, n, pos, t, ElementSize(t))

\* attemptToMakeGetTypedArrayByteLength: a one-byte view's byteLength is its
\* length; otherwise length << logElementSize.
AttemptToMakeGetTypedArrayByteLength(S, n, pos) ==
    LET t == TypedArrayTypeFromSpeculation(ChildPrediction(S, n, 1)) IN
    CASE ~isInt32Speculation(S.nodes[n].prediction) \/ ~isTypedView(t) -> S
      [] ElementSize(t) = 1 -> ConvertToGetArrayLength(S, n, Mode(t), pos)
      [] OTHER -> ShiftedLength(S, n, pos, t, LogElementSize(t))

\* attemptToMakeGetTypedArrayByteOffset: a guard without storage.
AttemptToMakeGetTypedArrayByteOffset(S, n, pos) ==
    LET t == TypedArrayTypeFromSpeculation(ChildPrediction(S, n, 1)) IN
    IF ~isInt32Speculation(S.nodes[n].prediction) \/ ~isTypedView(t) THEN S
    ELSE SetUseKindAndUnboxIfProfitable(
             SetOp(CheckArray(S, n, Mode(t), ChildNode(S, n, 1), 0, pos, FALSE),
                   n, "GetTypedArrayByteOffset"),
             n, 1, "KnownCellUse")

\* case GetById / GetByIdFlush on a cell: the three rewritten names, and a
\* CellUse base for every other one.
FixupGetById(S, n, pos) ==
    LET name == Program[S.nodes[n].codeOrigin].prop IN
    CASE ~isCellSpeculation(ChildPrediction(S, n, 1)) -> S
      [] name = "length"     -> AttemptToMakeGetArrayLength(S, n, pos)
      [] name = "byteLength" -> AttemptToMakeGetTypedArrayByteLength(S, n, pos)
      [] name = "byteOffset" -> AttemptToMakeGetTypedArrayByteOffset(S, n, pos)
      [] OTHER -> SetUseKindAndUnboxIfProfitable(S, n, 1, "CellUse")

-----------------------------------------------------------------------------
(* Properties of the indexed-access and length rules.                      *)

\* The nodes checkArray may queue in front of an access to guard its base.
GuardOps == {"CheckArray", "CheckStructure", "Arrayify", "ArrayifyToStructure"}

\* Nodes that read their base by the representation their arrayMode names.
ArrayAccessOps == {"GetByVal", "PutByVal", "ArrayPush", "ArrayPop",
                   "StringCharAt", "StringCharCodeAt", "GetArrayLength",
                   "GetIndexedPropertyStorage"}

\* The mode by which an access reads its base.
EffectiveMode(u) == IF u.op = "PutByVal" THEN ModeForPut(u.arrayMode) ELSE u.arrayMode

\* Before position k of block b the block exits unconditionally, or a guard
\* with one of the modes checks that m is a cell (CellUse) of that mode.
Guarded(b, k, m, modes) ==
    \E j \in 1..(k - 1) :
       LET g == nodes[blocks[b][j]] IN
       \/ g.op = "ForceOSRExit"
       \/ /\ g.op \in GuardOps
          /\ g.children[1] = [node |-> m, useKind |-> "CellUse"]
          /\ g.arrayMode \in modes

(* spec.md section 8, "Mode specialization closure": in every flushed     *)
(* block, every KnownCellUse edge (which the backend reads without a cell  *)
(* check) is preceded in its block by a guard on the same node, of the    *)
(* mode the reading access uses, or by an unconditional ForceOSRExit; and *)
(* every access whose mode is specific reads its base as KnownCellUse.     *)
(* blessArrayOperation and checkArray queue the guard; ArrayPush marks its *)
(* base KnownCellUse whatever mode refine() left it with.                 *)
ModeSpecializationClosure ==
    \A b \in DOMAIN blocks : Flushed(b) =>
       \A k \in DOMAIN blocks[b] :
          LET u == nodes[blocks[b][k]] IN
          /\ \A e \in DOMAIN u.children :
                u.children[e].useKind = "KnownCellUse" =>
                   Guarded(b, k, u.children[e].node,
                           IF u.op \in ArrayAccessOps THEN {u.arrayMode}
                           ELSE ArrayModes)
          /\ Walked(b) /\ u.op \in ArrayAccessOps
             /\ isSpecific(EffectiveMode(u)) =>
                u.children[1].useKind = "KnownCellUse"

\* x << s on an int32: the count is taken modulo the width.
ShiftLeft(x, s) == ToInt32(x * 2^(s % IntWidth))

\* The longest view ArrayBufferContents::tryAllocate admits: its byte length
\* stays below INT_MAX.
MaxTypedArrayLength(t) == (2^(IntWidth - 1) - 1) \div ElementSize(t)

(* A byteLength read rewritten by attemptToMakeGetTypedArrayByteLength     *)
(* computes length * elementSize of the view its base is predicted to be: *)
(* a GetArrayLength of that base under that view's mode when the element   *)
(* is one byte, otherwise a BitLShift of such a GetArrayLength by a       *)
(* constant that, for every length a view can have, neither overflows nor *)
(* scales by anything but the element size ("typed arrays will never have *)
(* a byteLength that overflows int32").                                    *)
ByteLengthExact ==
    \A n \in DOMAIN Program :
       Program[n].op = "GetById" /\ Program[n].prop = "byteLength" =>
          LET u    == nodes[n]
              base == Program[n].args[1]
              t    == TypedArrayTypeFromSpeculation(nodes[base].prediction)
              LengthOf(g) == /\ g.op = "GetArrayLength"
                             /\ g.children[1].node = base
                             /\ g.arrayMode = Mode(t)
          IN  /\ u.op = "GetArrayLength" => LengthOf(u) /\ ElementSize(t) = 1
              /\ u.op = "BitLShift" =>
                    LET c == nodes[u.children[2].node] IN
                    /\ LengthOf(nodes[u.children[1].node])
                    /\ c.op = "JSConstant" /\ c.value # {}
                    /\ \A s \in c.value : \A len \in 0..MaxTypedArrayLength(t) :
                          ShiftLeft(len, s) = len * ElementSize(t)
=============================================================================
