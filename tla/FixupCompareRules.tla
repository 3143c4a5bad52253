------------------------- MODULE FixupCompareRules -------------------------
(***************************************************************************)
(* The comparison rules of fixupNode: CompareEq and the relational         *)
(* compares, CompareStrictEq, TypeOf, StringFromCharCode and Switch.       *)
(* Each picks, from the predictions of the operands, the UseKinds under    *)
(* which the backend compares the two values without calling the generic  *)
(* operation.  The properties compare what such a specialised comparison   *)
(* computes with what JavaScript's == and === (ES5 11.9.3 and 11.9.6)      *)
(* compute on every pair of values the speculation checks let through.   *)
(***************************************************************************)
EXTENDS FixupArithRules

CompareOps == {"CompareEq", "CompareLess", "CompareLessEq", "CompareGreater",
               "CompareGreaterEq"}
EqualityOps == {"CompareEq", "CompareStrictEq"}
SwitchKinds == {"SwitchImm", "SwitchChar", "SwitchString"}

\* Edges 1 and 2 of n get UseKinds u1 and u2, in that order.
TwoEdges(S, n, u1, u2) ==
    SetUseKindAndUnboxIfProfitable(
        SetUseKindAndUnboxIfProfitable(S, n, 1, u1), n, 2, u2)

\* Node::shouldSpeculateX(op1, op2): the test holds of both operands.
Both(S, n, Test(_)) ==
    Test(ChildPrediction(S, n, 1)) /\ Test(ChildPrediction(S, n, 2))

\* Fault variant: one symmetric ObjectOrOtherUse rule for the mixed cases.
CompareObjectEdgesSymmetric(S, n) ==
    IF Both(S, n, isObjectSpeculation) THEN TwoEdges(S, n, "ObjectUse", "ObjectUse")
    ELSE IF Both(S, n, isObjectOrOtherSpeculation)
    THEN TwoEdges(S, n, "ObjectOrOtherUse", "ObjectOrOtherUse")
    ELSE S

\* The object rules that end the CompareEq case: two objects, or an object
\* and an object-or-other on either side.
CompareObjectEdges(S, n) ==
    LET p1 == ChildPrediction(S, n, 1)
        p2 == ChildPrediction(S, n, 2)
    IN
    IF Both(S, n, isObjectSpeculation) THEN TwoEdges(S, n, "ObjectUse", "ObjectUse")
    ELSE IF isObjectSpeculation(p1) /\ isObjectOrOtherSpeculation(p2)
    THEN TwoEdges(S, n, "ObjectUse", "ObjectOrOtherUse")
    ELSE IF isObjectOrOtherSpeculation(p1) /\ isObjectSpeculation(p2)
    THEN TwoEdges(S, n, "ObjectOrOtherUse", "ObjectUse")
    ELSE S

\* The string rules both equalities share: identifiers compare by pointer;
\* other strings only when the build has registers enough for the compare.
StringEdges(S, n) ==
    IF Both(S, n, isStringIdentSpeculation)
    THEN TwoEdges(S, n, "StringIdentUse", "StringIdentUse")
    ELSE TwoEdges(S, n, "StringUse", "StringUse")

IsStringCompare(S, n) ==
    \/ Both(S, n, isStringIdentSpeculation)
    \/ Both(S, n, isStringSpeculation) /\ manyRegisters

\* case CompareEq, CompareLess, CompareLessEq, CompareGreater,
\* CompareGreaterEq: numbers for all of them, the rest for CompareEq only.
FixupCompare(S, n, pos) ==
    IF Both(S, n, isInt32Speculation) THEN Int32Edges(S, n)
    ELSE IF Both(S, n, isNumberSpeculation) THEN FixDoubleEdges(S, n, pos)
    ELSE IF S.nodes[n].op # "CompareEq" THEN S
    ELSE IF Both(S, n, isBooleanSpeculation)
    THEN TwoEdges(S, n, "BooleanUse", "BooleanUse")
    ELSE IF IsStringCompare(S, n) THEN StringEdges(S, n)
    ELSE CompareObjectEdges(S, n)

\* case CompareStrictEq: booleans first, and only two objects.
FixupCompareStrictEq(S, n, pos) ==
    IF Both(S, n, isBooleanSpeculation)
    THEN TwoEdges(S, n, "BooleanUse", "BooleanUse")
    ELSE IF Both(S, n, isInt32Speculation) THEN Int32Edges(S, n)
    ELSE IF Both(S, n, isNumberSpeculation) THEN FixDoubleEdges(S, n, pos)
    ELSE IF IsStringCompare(S, n) THEN StringEdges(S, n)
    ELSE IF Both(S, n, isObjectSpeculation)
    THEN TwoEdges(S, n, "ObjectUse", "ObjectUse")
    ELSE S

\* case StringFromCharCode: the character code is an int32.
FixupStringFromCharCode(S, n) == SetUseKindAndUnboxIfProfitable(S, n, 1, "Int32Use")

\* case TypeOf
FixupTypeOf(S, n) ==
    LET p == ChildPrediction(S, n, 1) IN
    IF isStringSpeculation(p) THEN SetUseKindAndUnboxIfProfitable(S, n, 1, "StringUse")
    ELSE IF isCellSpeculation(p) THEN SetUseKindAndUnboxIfProfitable(S, n, 1, "CellUse")
    ELSE S

\* case Switch, by the kind of its SwitchData.
FixupSwitch(S, n) ==
    LET p == ChildPrediction(S, n, 1)
        k == S.nodes[n].switchKind
        Use(u) == SetUseKindAndUnboxIfProfitable(S, n, 1, u)
    IN
    IF k = "SwitchImm" /\ isInt32Speculation(p) THEN Use("Int32Use")
    ELSE IF k = "SwitchChar" /\ isStringSpeculation(p) THEN Use("StringUse")
    ELSE IF k = "SwitchString" /\ isStringIdentSpeculation(p) THEN Use("StringIdentUse")
    ELSE IF k = "SwitchString" /\ isStringSpeculation(p) THEN Use("StringUse")
    ELSE S

-----------------------------------------------------------------------------
(* JavaScript values and the reference comparisons.                        *)
(*                                                                         *)
(* A value is [cat, num, str, cell]: its prediction category, its number   *)
(* (booleans as 0 and 1), its string contents and its heap cell.  Two     *)
(* strings "1" live in distinct cells; an identifier is the one cell for  *)
(* its contents.  NaN is a number no other value equals.                  *)

NaN == -1

Val(cat, num, str, cell) == [cat |-> cat, num |-> num, str |-> str, cell |-> cell]

JSValues ==
    {Val("Int32", 0, "", 0), Val("Int32", 1, "", 0),
     Val("Double", 1, "", 0), Val("Double", NaN, "", 0),
     Val("Boolean", 0, "", 0), Val("Boolean", 1, "", 0),
     Val("String", 0, "1", 1), Val("String", 0, "1", 2),
     Val("StringIdent", 0, "1", 3), Val("StringIdent", 0, "a", 4),
     Val("Object", 0, "[object Object]", 5), Val("Object", 0, "[object Object]", 6),
     Val("StringObject", 0, "1", 7),
     Val("Other", 0, "undefined", 0), Val("Other", 0, "null", 0)}

JSType(x) ==
    CASE x.cat \in SpecNumber -> "Number"
      [] x.cat \in SpecString -> "String"
      [] x.cat \in SpecObject -> "Object"
      [] x.cat = "Boolean"    -> "Boolean"
      [] OTHER                -> x.str

NumEq(a, b) == a = b /\ a # NaN

\* ToNumber of a primitive.
ToNumber(x) ==
    CASE JSType(x) \in {"Number", "Boolean"} -> x.num
      [] JSType(x) = "String" -> IF x.str = "1" THEN 1 ELSE NaN
      [] JSType(x) = "null"   -> 0
      [] OTHER                -> NaN

NumberValue(v) == Val("Double", v, "", 0)

\* ToPrimitive of an object: its string, a fresh string value.
ToPrimitive(x) == Val("String", 0, x.str, 0)

\* The strict equality comparison algorithm (===).
StrictEquals(x, y) ==
    /\ JSType(x) = JSType(y)
    /\ CASE JSType(x) = "Number"  -> NumEq(x.num, y.num)
         [] JSType(x) = "String"  -> x.str = y.str
         [] JSType(x) = "Boolean" -> x.num = y.num
         [] JSType(x) = "Object"  -> x.cell = y.cell
         [] OTHER                 -> TRUE

\* The abstract equality comparison algorithm (==).
RECURSIVE LooseEquals(_, _)
LooseEquals(x, y) ==
    LET tx == JSType(x)
        ty == JSType(y)
    IN
    CASE tx = ty -> StrictEquals(x, y)
      [] {tx, ty} = {"undefined", "null"} -> TRUE
      [] tx = "Number" /\ ty = "String" -> NumEq(x.num, ToNumber(y))
      [] tx = "String" /\ ty = "Number" -> NumEq(ToNumber(x), y.num)
      [] tx = "Boolean" -> LooseEquals(NumberValue(x.num), y)
      [] ty = "Boolean" -> LooseEquals(x, NumberValue(y.num))
      [] tx \in {"Number", "String"} /\ ty = "Object" -> LooseEquals(x, ToPrimitive(y))
      [] tx = "Object" /\ ty \in {"Number", "String"} -> LooseEquals(ToPrimitive(x), y)
      [] OTHER -> FALSE

\* The relational comparisons on two numbers; NaN is unordered.
NumCompare(op, a, b) ==
    /\ a # NaN /\ b # NaN
    /\ CASE op = "CompareLess"      -> a < b
         [] op = "CompareLessEq"    -> a <= b
         [] op = "CompareGreater"   -> a > b
         [] op = "CompareGreaterEq" -> a >= b

Reference(op, x, y) ==
    CASE op = "CompareEq"       -> LooseEquals(x, y)
      [] op = "CompareStrictEq" -> StrictEquals(x, y)
      [] OTHER                  -> NumCompare(op, x.num, y.num)

-----------------------------------------------------------------------------
(* The speculation checks and the backend's specialised comparisons.      *)
(* Both live in DFGSpeculativeJIT, outside this repository; they are       *)
(* written from spec.md's glossary of UseKinds.                            *)

\* The values an edge's speculation check lets through.
Admits(u, x) ==
    CASE u = "Int32Use"         -> x.cat = "Int32"
      [] u = "NumberUse"        -> x.cat \in SpecNumber
      [] u = "RealNumberUse"    -> x.cat \in SpecNumber /\ x.num # NaN
      [] u = "BooleanUse"       -> x.cat = "Boolean"
      [] u = "StringIdentUse"   -> x.cat = "StringIdent"
      [] u = "StringUse"        -> x.cat \in SpecString
      [] u = "ObjectUse"        -> x.cat \in SpecObject
      [] u = "ObjectOrOtherUse" -> x.cat \in SpecObject \cup {"Other"}
      [] OTHER                  -> TRUE

ObjectUseKinds == {"ObjectUse", "ObjectOrOtherUse"}

\* The UseKind pairs the backend has a specialised comparison for.
HasSpecialization(op, u1, u2) ==
    \/ u1 = u2 /\ u1 \in {"Int32Use", "NumberUse"}
    \/ /\ op \in EqualityOps
       /\ \/ u1 = u2 /\ u1 \in {"BooleanUse", "StringIdentUse", "StringUse"}
          \/ {u1, u2} \subseteq ObjectUseKinds /\ "ObjectUse" \in {u1, u2}

\* What it computes: numbers by value, strings by contents, identifiers,
\* booleans, objects and other values by their bits.
Specialized(op, u1, x, y) ==
    CASE u1 \in {"Int32Use", "NumberUse"} /\ op \in EqualityOps -> NumEq(x.num, y.num)
      [] u1 \in {"Int32Use", "NumberUse"} -> NumCompare(op, x.num, y.num)
      [] u1 = "StringUse"                 -> x.str = y.str
      [] OTHER                            -> x = y

(* A comparison fixupNode has specialised computes what JavaScript's ==,  *)
(* === or < computes, for every pair of values its two speculation checks *)
(* let through: the UseKind pair has a specialised comparison in the      *)
(* backend for this opcode, and that comparison agrees with the reference *)
(* algorithm.  It fails if CompareEq gives ObjectOrOtherUse to both sides *)
(* (undefined == null is true, their bits differ), if a relational compare*)
(* takes one of CompareEq's rules, or if the two edges disagree.          *)
CompareSpecializationSound ==
    \A n \in GraphNodes :
       nodes[n].op \in CompareOps \cup {"CompareStrictEq"} =>
          LET op == nodes[n].op
              u1 == nodes[n].children[1].useKind
              u2 == nodes[n].children[2].useKind
          IN  \/ u1 = "UntypedUse" /\ u2 = "UntypedUse"
              \/ /\ HasSpecialization(op, u1, u2)
                 /\ \A x, y \in JSValues :
                       Admits(u1, x) /\ Admits(u2, y)
                          => Specialized(op, u1, x, y) = Reference(op, x, y)
=============================================================================
