--------------------------- MODULE FixupArithRules ---------------------------
(***************************************************************************)
(* The numeric rules of fixupNode: the bit operations with fixIntEdge,     *)
(* UInt32ToNumber, ValueToInt32, ArithAdd and ArithSub with                *)
(* attemptToMakeIntegerAdd and constant truncation, ArithNegate, ArithMul, *)
(* ArithDiv and ArithMod (through DoubleAsInt32 without a hardware divider),*)
(* ArithMin, ArithMax, ArithAbs and ArithSqrt, and the properties that say *)
(* they compute what the untyped program computed.                         *)
(***************************************************************************)
EXTENDS FixupGraph

\* hasConstant(), valueOfJSConstant() and prediction() of child k.
Operand(S, n, k) ==
    LET m == ChildNode(S, n, k) IN
    [const |-> S.nodes[m].op \in {"JSConstant", "WeakJSConstant"},
     value |-> S.nodes[m].value, pred |-> S.nodes[m].prediction]

\* Graph::addSpeculationMode(node)
AddSpeculationMode(S, n) ==
    AddModeOf(Operand(S, n, 1), Operand(S, n, 2), S.nodes[n].canSpecInt,
              S.nodes[n].canTruncate)

Int32Edges(S, n) ==
    SetUseKindAndUnboxIfProfitable(
        SetUseKindAndUnboxIfProfitable(S, n, 1, "Int32Use"), n, 2, "Int32Use")

FixDoubleEdges(S, n, pos) ==
    FixDoubleEdge(FixDoubleEdge(S, n, 1, "NumberUse", FALSE, pos),
                  n, 2, "NumberUse", FALSE, pos)

\* truncateConstantToInt32: a new JSConstant holding toInt32 of the value,
\* queued in front of the current node; the edge keeps its UseKind.
TruncateConstantToInt32(S, n, k, pos) ==
    LET v == S.nodes[ChildNode(S, n, k)].value IN
    IF IsInt32Value(v) THEN S
    ELSE [InsertNode(S, pos, [NewNode("JSConstant", <<>>, {"Int32"},
                                      S.nodes[n].codeOrigin)
                                 EXCEPT !.value = {NumberToInt32(v)}])
             EXCEPT !.nodes[n].children[k].node = Len(S.nodes) + 1]

TruncateConstantsIfNecessary(S, n, mode, pos) ==
    IF mode # "SpeculateIntegerAndTruncateConstants" THEN S
    ELSE IF Operand(S, n, 1).const THEN TruncateConstantToInt32(S, n, 1, pos)
    ELSE TruncateConstantToInt32(S, n, 2, pos)

\* attemptToMakeIntegerAdd, for a node whose mode is not DontSpeculateInteger.
AttemptToMakeIntegerAdd(S, n, pos) ==
    Int32Edges(TruncateConstantsIfNecessary(S, n, AddSpeculationMode(S, n), pos), n)

IntegerAdd(S, n) == AddSpeculationMode(S, n) # "DontSpeculateInteger"

\* case ArithAdd/ArithSub: attemptToMakeIntegerAdd, else two double edges.
FixupArithAdd(S, n, pos) ==
    IF IntegerAdd(S, n) THEN AttemptToMakeIntegerAdd(S, n, pos)
    ELSE FixDoubleEdges(S, n, pos)

\* fixIntEdge: a bit operation reads through a ValueToInt32 whose input
\* is already checked to be an int32.
FixIntEdge(S, n, k) ==
    LET m == ChildNode(S, n, k) IN
    IF S.nodes[m].op # "ValueToInt32"
    THEN SetUseKindAndUnboxIfProfitable(S, n, k, "KnownInt32Use")
    ELSE IF S.nodes[m].children[1].useKind # "Int32Use"
    THEN [S EXCEPT !.nodes[n].children[k].useKind = "KnownInt32Use"]
    ELSE [S EXCEPT !.nodes[n].children[k] = S.nodes[m].children[1]]

\* case BitAnd ... ArithIMul
FixupBitOp(S, n) == FixIntEdge(FixIntEdge(S, n, 1), n, 2)

\* Fault variant: a number input also turns the node into an Identity.
FixupValueToInt32IdentityOnNumber(S, n) ==
    LET p == ChildPrediction(S, n, 1) IN
    IF isInt32Speculation(p)
    THEN SetOp(SetUseKindAndUnboxIfProfitable(S, n, 1, "Int32Use"), n, "Identity")
    ELSE IF isNumberSpeculation(p)
    THEN SetOp(SetUseKindAndUnboxIfProfitable(S, n, 1, "NumberUse"), n, "Identity")
    ELSE IF isBooleanSpeculation(p)
    THEN SetUseKindAndUnboxIfProfitable(S, n, 1, "BooleanUse")
    ELSE SetUseKindAndUnboxIfProfitable(S, n, 1, "NotCellUse")

\* case ValueToInt32
FixupValueToInt32(S, n) ==
    LET p == ChildPrediction(S, n, 1) IN
    IF isInt32Speculation(p)
    THEN SetOp(SetUseKindAndUnboxIfProfitable(S, n, 1, "Int32Use"), n, "Identity")
    ELSE IF isNumberSpeculation(p)
    THEN SetUseKindAndUnboxIfProfitable(S, n, 1, "NumberUse")
    ELSE IF isBooleanSpeculation(p)
    THEN SetUseKindAndUnboxIfProfitable(S, n, 1, "BooleanUse")
    ELSE SetUseKindAndUnboxIfProfitable(S, n, 1, "NotCellUse")

\* Node::shouldSpeculateIntegerForArithmetic of the children, and
\* node->canSpeculateInteger(): the test of ArithDiv/Mod/Min/Max/Abs.
IntegerForArithmetic(S, n) ==
    /\ \A k \in DOMAIN S.nodes[n].children :
          isInt32SpeculationForArithmetic(ChildPrediction(S, n, k))
    /\ S.nodes[n].canSpecInt

\* Graph::negateShouldSpeculateInteger, and mulShouldSpeculateInteger for a
\* product without constant operands.
NegateShouldSpeculateInteger(S, n) == IntegerForArithmetic(S, n)
MulShouldSpeculateInteger(S, n) == IntegerForArithmetic(S, n)

\* case ArithNegate, ArithAbs
FixupUnaryArith(S, n, pos, speculate) ==
    IF speculate THEN SetUseKindAndUnboxIfProfitable(S, n, 1, "Int32Use")
    ELSE FixDoubleEdge(S, n, 1, "NumberUse", FALSE, pos)

\* case ArithMul, ArithMin, ArithMax
FixupBinaryArith(S, n, pos, speculate) ==
    IF speculate THEN Int32Edges(S, n) ELSE FixDoubleEdges(S, n, pos)

\* case ArithAbs: in integers when the operand and the node allow it.
FixupArithAbs(S, n, pos) == FixupUnaryArith(S, n, pos, IntegerForArithmetic(S, n))

\* case ArithSqrt: always in doubles.
FixupArithSqrt(S, n, pos) == FixDoubleEdge(S, n, 1, "NumberUse", FALSE, pos)

\* Fault variant: the DoubleAsInt32 reads the node queued just before the
\* copy.
DivideInDoublesOffByOne(S, n, pos, copyPos) ==
    LET T == InjectInt32ToDoubleNode(
                InjectInt32ToDoubleNode(S, n, 1, "NumberUse", FALSE, pos),
                n, 2, "NumberUse", FALSE, pos)
        U == InsertNode(T, copyPos, [T.nodes[n] EXCEPT !.prediction = {"Double"}])
    IN  [U EXCEPT !.nodes[n].op = "DoubleAsInt32",
                  !.nodes[n].children = <<[node |-> Len(U.nodes) - 1,
                                           useKind |-> "KnownNumberUse"]>>]

\* The integer division of a build without a hardware divider: both inputs
\* converted to double, a copy of the node divides them, and the node
\* becomes a DoubleAsInt32 of the copy.  copyPos is where the copy goes.
DivideInDoubles(S, n, pos, copyPos) ==
    LET T == InjectInt32ToDoubleNode(
                InjectInt32ToDoubleNode(S, n, 1, "NumberUse", FALSE, pos),
                n, 2, "NumberUse", FALSE, pos)
        U == InsertNode(T, copyPos, [T.nodes[n] EXCEPT !.prediction = {"Double"}])
    IN  [U EXCEPT !.nodes[n].op = "DoubleAsInt32",
                  !.nodes[n].children = <<[node |-> Len(U.nodes),
                                           useKind |-> "KnownNumberUse"]>>]

\* Fault variant: the copy is queued one position too late.
FixupArithDivCopyAfter(S, n, pos) ==
    IF IntegerForArithmetic(S, n)
    THEN IF hardwareDivision THEN Int32Edges(S, n)
         ELSE DivideInDoubles(S, n, pos, pos + 1)
    ELSE FixDoubleEdges(S, n, pos)

\* case ArithDiv, ArithMod
FixupArithDiv(S, n, pos) ==
    IF IntegerForArithmetic(S, n)
    THEN IF hardwareDivision THEN Int32Edges(S, n)
         ELSE DivideInDoubles(S, n, pos, pos)
    ELSE FixDoubleEdges(S, n, pos)


-----------------------------------------------------------------------------
(* Properties of the arithmetic rules.                                     *)


\* A bit operation applies ToInt32 to its inputs, so one more is no change.
BitArgument(op, t) == IF op \in BitOps /\ t[1] = "ToInt32" THEN t[2] ELSE t

\* A constant as the term of its value; a number as its toInt32, which is
\* what a truncated constant keeps (TruncationSound checks the rest).
ConstTerm(val) == <<"Const", IF IsNumberValue(val) THEN {NumberToInt32(val)} ELSE {}>>

\* The value node m of the current graph computes, as a term over the
\* locals.  Int32ToDouble and DoubleAsInt32 do not change a value they let
\* through; an Identity whose input is checked to be an int32 is ToInt32.
RECURSIVE Den(_)
Den(m) ==
    LET r == nodes[m]
        K(k) == BitArgument(r.op, Den(r.children[k].node))
    IN
    CASE r.op \in {"Int32ToDouble", "DoubleAsInt32"} -> Den(r.children[1].node)
      [] r.op = "Identity" ->
            IF r.children[1].useKind \in Int32UseKinds
            THEN <<"ToInt32", Den(r.children[1].node)>>
            ELSE Den(r.children[1].node)
      [] r.op = "ValueToInt32" -> <<"ToInt32", Den(r.children[1].node)>>
      [] r.op \in {"JSConstant", "WeakJSConstant"} -> ConstTerm(r.value)
      [] r.op = "GetLocal" -> <<"Local", r.var>>
      [] OTHER -> <<r.op>> \o [k \in DOMAIN r.children |-> K(k)]

\* The same for node i of the program the phase was given.
RECURSIVE DenP(_)
DenP(i) ==
    LET t == Program[i]
        K(k) == BitArgument(t.op, DenP(t.args[k]))
    IN
    CASE t.op = "ValueToInt32" -> <<"ToInt32", DenP(t.args[1])>>
      [] t.op = "JSConstant" -> ConstTerm(ConstValue(i))
      [] t.op = "GetLocal" -> <<"Local", t.var>>
      [] OTHER -> <<t.op>> \o [k \in DOMAIN t.args |-> K(k)]

ProgramDen == [i \in DOMAIN Program |-> DenP(i)]

(* Every node of the program still computes what it computed before the   *)
(* phase, through whatever conversions the rules put in between: the      *)
(* ValueToInt32 that becomes an Identity, the edge of a bit operation that *)
(* fixIntEdge moves past a ValueToInt32, the division that becomes        *)
(* DoubleAsInt32 of a double copy, and every injected Int32ToDouble.       *)
ValuePreserved == \A i \in DOMAIN Program : Den(i) = ProgramDen[i]

RECURSIVE BitLength(_)
BitLength(x) == IF x = 0 THEN 0 ELSE 1 + BitLength(x \div 2)

\* A double's significand has 21 bits more than an int32.
DoubleMantissa == IntWidth + 21

\* The integer x as a double with the given number of significant bits,
\* rounded to nearest, ties to even.
RoundToBits(x, bits) ==
    LET ax == IF x < 0 THEN -x ELSE x
        e  == BitLength(ax) - bits
        q  == 2^e
        lo == (ax \div q) * q
        r  == ax - lo
        up == IF 2 * r > q \/ (2 * r = q /\ (ax \div q) % 2 = 1)
              THEN lo + q ELSE lo
    IN  IF e <= 0 THEN x ELSE IF x < 0 THEN -up ELSE up

Int32Range == -(2^(IntWidth-1)) .. (2^(IntWidth-1) - 1)

AddOf(op, x, y) == IF op = "ArithSub" THEN x - y ELSE x + y

(* When an add or subtract had its constant truncated to an int32, its     *)
(* result is used only as an int32 (nodeCanTruncateInteger), and for every *)
(* int32 input the integer operation either overflows (and exits) or gives *)
(* what ToInt32 of the double operation on the original constant gives.   *)
(* The double operation is computed in halves (jsTwice), which scales it  *)
(* without changing its DoubleMantissa significant bits.  The             *)
(* twoToThe48 bound of addImmediateShouldSpeculateInteger makes the double *)
(* operation exact; nothing in the code keeps a fractional constant out.   *)
TruncationSound ==
    \A n \in TruncIds : \A k \in 1..2 :
       LET c0 == Program[n].args[k]
           c  == nodes[n].children[k].node
           Op(x, y) == IF k = 1 THEN AddOf(Program[n].op, x, y)
                       ELSE AddOf(Program[n].op, y, x)
       IN  (Program[c0].op = "JSConstant" /\ c # c0) =>
             /\ nodes[n].canTruncate
             /\ \A a \in Int32Range :
                  LET jsTwice == Op(Twice(ConstValue(c0)), 2 * a)
                      js      == TruncHalf(RoundToBits(jsTwice, DoubleMantissa))
                      int     == Op(NumberOf(nodes[c].value), a)
                  IN  ~IsInt32(int) \/ ToInt32(js) = int
=============================================================================
