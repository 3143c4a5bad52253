--------------------------- MODULE SpeculatedType ---------------------------
(***************************************************************************)
(* The read-only vocabulary the fixup phase consumes: predicted-type sets  *)
(* (the Prediction Oracle), the narrowing tests over them, and the UseKind *)
(* an edge may carry.  JSC keeps these in SpeculatedType.h and             *)
(* DFGUseKind.h, which are not part of this repository, so every          *)
(* definition here is written from spec.md sections 3, 4.2 and the         *)
(* glossary.                                                               *)
(*                                                                         *)
(* A prediction is a set of type categories.  The tests "isXSpeculation"  *)
(* hold when the prediction is non-empty and contained in category X.     *)
(***************************************************************************)
EXTENDS FiniteSets

\* The type categories of spec.md section 3 ("Prediction").
\* "Array" is a JSArray; the three typed-array views stand for the nine.
\* "String" is SpecStringVar and "StringIdent" an atomic (identifier) string.
SpecTypedArrayView == {"Int8Array", "Int16Array", "Float64Array"}
SpecCategories == {"Int32", "Double", "Boolean", "String", "StringIdent",
                   "StringObject", "Object", "Other", "Array"}
                  \cup SpecTypedArrayView

SpecNumber == {"Int32", "Double"}
SpecObject == {"Object", "StringObject", "Array"} \cup SpecTypedArrayView
SpecString == {"String", "StringIdent"}
SpecCell   == SpecString \cup SpecObject

\* Narrowing tests of the Prediction Oracle (spec.md 4.2).
IsSpeculation(p, cat) == p # {} /\ p \subseteq cat

isInt32Speculation(p)        == IsSpeculation(p, {"Int32"})
isNumberSpeculation(p)       == IsSpeculation(p, SpecNumber)
isBooleanSpeculation(p)      == IsSpeculation(p, {"Boolean"})
isCellSpeculation(p)         == IsSpeculation(p, SpecCell)
\* SpecObject includes SpecStringObject.
isObjectOrOtherSpeculation(p) ==
    IsSpeculation(p, SpecObject \cup {"Other"})
isOtherSpeculation(p)        == IsSpeculation(p, {"Other"})
\* The model's "Object" category stands for final (plain) objects.
isFinalObjectSpeculation(p)  == IsSpeculation(p, {"Object"})
isStringSpeculation(p)       == IsSpeculation(p, SpecString)
isStringIdentSpeculation(p)  == IsSpeculation(p, {"StringIdent"})
isObjectSpeculation(p)       == IsSpeculation(p, SpecObject)
isStringObjectSpeculation(p) == IsSpeculation(p, {"StringObject"})
isStringOrStringObjectSpeculation(p) ==
    IsSpeculation(p, SpecString \cup {"StringObject"})

\* isNumberSpeculationExpectingDefined: a number once undefined is ignored.
isNumberSpeculationExpectingDefined(p) == isNumberSpeculation(p \ {"Other"})

\* isInt32SpeculationForArithmetic: no double may flow in.
isInt32SpeculationForArithmetic(p) == "Double" \notin p

isInt32SpeculationExpectingDefined(p) == isInt32Speculation(p \ {"Other"})

\* resultOfToPrimitive: an object (a StringObject is one) may become a string.
ResultOfToPrimitive(p) ==
    IF p \cap SpecObject # {}
    THEN (p \ SpecObject) \cup {"String"}
    ELSE p

(***************************************************************************)
(* UseKinds (spec.md section 3, "Edge").  UntypedUse is the default boxed *)
(* form every edge has before the phase runs.                              *)
(***************************************************************************)
Int32UseKinds  == {"Int32Use", "KnownInt32Use"}
NumberUseKinds == {"NumberUse", "RealNumberUse", "KnownNumberUse"}
CellUseKinds   == {"CellUse", "KnownCellUse", "ObjectUse", "StringUse",
                   "KnownStringUse", "StringObjectUse",
                   "StringOrStringObjectUse"}
UseKinds == {"UntypedUse", "BooleanUse", "ObjectOrOtherUse", "OtherUse",
             "NotCellUse", "StringIdentUse"}
            \cup Int32UseKinds \cup NumberUseKinds \cup CellUseKinds
=============================================================================
