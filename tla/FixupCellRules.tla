--------------------------- MODULE FixupCellRules ---------------------------
(***************************************************************************)
(* The object and allocation rules of fixupNode: the structure, function  *)
(* and instance checks, scope and property-storage accesses, GetByOffset   *)
(* and PutByOffset, InstanceOf, In, CheckArray and Arrayify as the parser *)
(* creates them, Phantom and Identity, and the allocations NewArray,       *)
(* NewArrayWithSize, NewTypedArray and NewStringObject.                    *)
(*                                                                         *)
(* NewArray keeps the indexing type of its allocation profile in the type  *)
(* field of arrayMode (Undecided, Int32, Double or Contiguous).            *)
(***************************************************************************)
EXTENDS FixupCompareRules

\* The opcodes whose first edge is checked to be a cell.
CellCheckOps == {"CheckExecutable", "CheckStructure",
                 "StructureTransitionWatchpoint", "CheckFunction", "PutById",
                 "PutByIdDirect", "CheckHasInstance", "CreateThis", "GetButterfly"}

\* The opcodes whose first edge reads a scope, callee or object the graph
\* already knows to be a cell.
KnownCellOps == {"GetClosureRegisters", "PutClosureVar", "SkipTopScope",
                 "SkipScope", "SetCallee", "SetMyScope", "PutStructure",
                 "AllocatePropertyStorage", "ReallocatePropertyStorage",
                 "GetScope"}

\* The opcodes whose first edge is an int32 index or size.
Int32ArgumentOps == {"GetMyArgumentByVal", "GetMyArgumentByValSafe",
                     "NewArrayWithSize"}

\* Node::hasStorageResult: the opcodes with NodeResultStorage.
StorageOps == {"GetButterfly", "GetIndexedPropertyStorage",
               "AllocatePropertyStorage", "ReallocatePropertyStorage"}

Use(S, n, i, u) == SetUseKindAndUnboxIfProfitable(S, n, i, u)

\* case CheckArray: a string mode checks a string, any other a cell.
FixupCheckArray(S, n) ==
    Use(S, n, 1, IF S.nodes[n].arrayMode.type = "String" THEN "StringUse" ELSE "CellUse")

\* case Arrayify, ArrayifyToStructure: the cell, and the index if any.
FixupArrayify(S, n) ==
    LET T == Use(S, n, 1, "CellUse") IN
    IF Len(S.nodes[n].children) >= 2 THEN Use(T, n, 2, "Int32Use") ELSE T

\* Fault variant: hasStorageResult() is not asked; child 1 is always a cell.
FixupOffsetAccessNoStorageTest(S, n) ==
    Use(Use(S, n, 1, "KnownCellUse"), n, 2, "KnownCellUse")

\* case GetByOffset, PutByOffset: child 1 is the storage or, for inline
\* properties, the object itself; child 2 is the object.
FixupOffsetAccess(S, n) ==
    LET T == IF S.nodes[ChildNode(S, n, 1)].op \in StorageOps THEN S
             ELSE Use(S, n, 1, "KnownCellUse")
    IN  Use(T, n, 2, "KnownCellUse")

\* case InstanceOf: the value only when it is predicted to be a cell (or
\* nothing); the prototype always.
FixupInstanceOf(S, n) ==
    LET T == IF ChildPrediction(S, n, 1) \subseteq SpecCell
             THEN Use(S, n, 1, "CellUse") ELSE S
    IN  Use(T, n, 2, "CellUse")

\* case Phantom, Identity: a number use that can be an int32 becomes one;
\* then the use is observed on the variable.
FixupPhantom(S, n) ==
    LET T == IF /\ S.nodes[n].children[1].useKind = "NumberUse"
                /\ isInt32SpeculationForArithmetic(ChildPrediction(S, n, 1))
             THEN [S EXCEPT !.nodes[n].children[1].useKind = "Int32Use"]
             ELSE S
    IN  ObserveUseKindOnNode(T, ChildNode(T, n, 1), T.nodes[n].children[1].useKind)

-----------------------------------------------------------------------------
(* NewArray.                                                               *)

IndexingTypes == {"Undecided", "Int32", "Double", "Contiguous"}

\* leastUpperBoundOfIndexingTypeAndType (IndexingType.cpp, outside this
\* repository): the indexing type that holds the old elements and one of
\* prediction p.
LeastUpperBoundOfIndexingTypeAndType(t, p) ==
    CASE p = {}                                          -> t
      [] isInt32Speculation(p) /\ t \in {"Undecided", "Int32"} -> "Int32"
      [] isInt32Speculation(p)                           -> t
      [] isNumberSpeculation(p) /\ t # "Contiguous"      -> "Double"
      [] OTHER                                           -> "Contiguous"

\* The loop of the NewArray case, from the last child down to the first.
RECURSIVE IndexingTypeOf(_, _, _, _)
IndexingTypeOf(S, n, t, i) ==
    IF i = 0 THEN t
    ELSE IndexingTypeOf(S, n,
            LeastUpperBoundOfIndexingTypeAndType(t, ChildPrediction(S, n, i)), i - 1)

\* Fault variant: double elements are checked to be numbers, NaN included.
RECURSIVE ElementEdgesNumberUse(_, _, _, _, _)
ElementEdgesNumberUse(S, n, t, i, pos) ==
    IF i > Len(S.nodes[n].children) THEN S
    ELSE ElementEdgesNumberUse(IF t = "Int32" THEN Use(S, n, i, "Int32Use")
                               ELSE FixDoubleEdge(S, n, i, "NumberUse", FALSE, pos),
                               n, t, i + 1, pos)

\* The loops of the int32 and double cases: each element edge, in order,
\* gets Int32Use or a RealNumberUse double edge.
RECURSIVE ElementEdges(_, _, _, _, _)
ElementEdges(S, n, t, i, pos) ==
    IF i > Len(S.nodes[n].children) THEN S
    ELSE ElementEdges(IF t = "Int32" THEN Use(S, n, i, "Int32Use")
                      ELSE FixDoubleEdge(S, n, i, "RealNumberUse", FALSE, pos),
                      n, t, i + 1, pos)

\* The switch on the indexing type: an undecided array with elements is
\* an exit; int32 and double arrays check each element.
NewArrayElements(S, n, t, pos) ==
    CASE t = "Undecided" /\ S.nodes[n].children # <<>> ->
            InsertNode(S, pos, NewNode("ForceOSRExit", <<>>, {}, S.nodes[n].codeOrigin))
      [] t \in {"Int32", "Double"} -> ElementEdges(S, n, t, 1, pos)
      [] OTHER -> S

\* case NewArray
FixupNewArray(S, n, pos) ==
    LET t == IndexingTypeOf(S, n, S.nodes[n].arrayMode.type, Len(S.nodes[n].children))
    IN  NewArrayElements([S EXCEPT !.nodes[n].arrayMode.type = t], n, t, pos)

\* case NewTypedArray: an int32 length.  (Clearing NodeMustGenerate and
\* NodeClobbersWorld is left out: no flag is modelled.)
FixupNewTypedArray(S, n) ==
    IF isInt32Speculation(ChildPrediction(S, n, 1)) THEN Use(S, n, 1, "Int32Use") ELSE S

\* case RegExpExec, RegExpTest: the regexp and the subject are cells.
FixupRegExp(S, n) == Use(Use(S, n, 1, "CellUse"), n, 2, "CellUse")

\* case In: only the object operand is checked (no array profiling).
FixupIn(S, n) == Use(S, n, 2, "CellUse")

\* case NewStringObject: its operand is known to be a string.
FixupNewStringObject(S, n) == Use(S, n, 1, "KnownStringUse")

-----------------------------------------------------------------------------
(* Properties.                                                             *)

\* Opcodes whose result is a cell whatever their inputs.
CellResultOps == {"GetMyScope", "GetCallee", "SkipScope", "SkipTopScope",
                  "GetScope", "CreateThis", "NewObject", "NewArray"}

\* The UseKinds whose check establishes that a value is a cell.
CellCheckingUseKinds == {"CellUse", "ObjectUse", "StringUse", "StringObjectUse",
                         "StringOrStringObjectUse"}

\* Position k of block b reads m through an edge whose check makes m a cell.
ChecksCell(b, k, m) ==
    \E f \in DOMAIN nodes[blocks[b][k]].children :
       /\ nodes[blocks[b][k]].children[f].node = m
       /\ nodes[blocks[b][k]].children[f].useKind \in CellCheckingUseKinds

(* A KnownCellUse edge is never the first to claim that a value is a cell *)
(* (spec.md glossary: a Known* UseKind is a guarantee established          *)
(* upstream).  In every flushed block, each KnownCellUse edge reads a node *)
(* whose result is always a cell, or a node an earlier node of the block   *)
(* checks with a cell UseKind.  It fails if GetByOffset's storage operand  *)
(* (a butterfly, not a cell) were marked KnownCellUse, or if a structure   *)
(* check in front of the access were left untyped.                         *)
KnownCellEstablished ==
    \A b \in DOMAIN blocks : Flushed(b) =>
       \A k \in DOMAIN blocks[b] :
          \A e \in DOMAIN nodes[blocks[b][k]].children :
             LET m == nodes[blocks[b][k]].children[e].node IN
             nodes[blocks[b][k]].children[e].useKind = "KnownCellUse" =>
                \/ nodes[m].op \in CellResultOps
                \/ \E j \in 1..(k - 1) : ChecksCell(b, j, m)

\* Can an array of indexing type t hold value x?  A double array keeps NaN
\* as its hole marker, so it cannot hold NaN.
CanStore(t, x) ==
    CASE t = "Int32"  -> x.cat = "Int32"
      [] t = "Double" -> x.cat \in SpecNumber /\ x.num # NaN
      [] OTHER        -> TRUE

\* A ForceOSRExit queued for n's code origin sits before position k of b.
ExitsBefore(b, k, n) ==
    \E j \in 1..(k - 1) : /\ nodes[blocks[b][j]].op = "ForceOSRExit"
                         /\ nodes[blocks[b][j]].codeOrigin = nodes[n].codeOrigin

(* The array a fixed NewArray allocates can hold every element its edges *)
(* let through: an int32 array only int32s, a double array only numbers   *)
(* that are not NaN (its hole).  An array whose elements gave no type is   *)
(* never allocated: an exit sits before it.  It fails if the element loop  *)
(* skipped a child, if the indexing type ignored one, or if double         *)
(* elements were checked with NumberUse.                                   *)
NewArrayStorageSound ==
    \A b \in DOMAIN blocks : Walked(b) /\ Flushed(b) =>
       \A k \in DOMAIN blocks[b] :
          LET n == blocks[b][k] IN
          nodes[n].op = "NewArray" =>
             /\ nodes[n].arrayMode.type = "Undecided" /\ nodes[n].children # <<>>
                   => ExitsBefore(b, k, n)
             /\ \A e \in DOMAIN nodes[n].children : \A x \in JSValues :
                   Admits(nodes[n].children[e].useKind, x)
                      => CanStore(nodes[n].arrayMode.type, x)
=============================================================================
