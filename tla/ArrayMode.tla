----------------------------- MODULE ArrayMode -----------------------------
(***************************************************************************)
(* The array-mode classification an indexed access carries (spec.md 4.8) *)
(* and the queries the fixup phase makes of it.  JSC keeps ArrayMode and  *)
(* refine() in DFGArrayMode.h/.cpp and the typed-array helpers in         *)
(* TypedArrayType.h, which are not part of this repository, so every      *)
(* definition here is written from spec.md 4.8 and 4.9.                    *)
(*                                                                         *)
(* A mode is [type, class, conversion].  The speculation byte (InBounds,   *)
(* OutOfBounds, SaneChain) is left out: it changes how the backend reads  *)
(* the storage, never which guard the fixup phase puts in front of it.    *)
(***************************************************************************)
EXTENDS SpeculatedType

\* Array types whose storage is the butterfly (indexing types of a JSObject).
ButterflyTypes == {"Int32", "Double", "Contiguous"}

\* The typed-array array types; one per SpecTypedArrayView category.
TypedArrayTypes == SpecTypedArrayView

\* Types the profile may leave for refine() to resolve.
UnresolvedTypes == {"SelectUsingPredictions", "Unprofiled", "Undecided"}

ArrayTypes == ButterflyTypes \cup TypedArrayTypes \cup UnresolvedTypes
              \cup {"String", "Generic", "ForceExit"}

\* Array::NonArray, Array::Array (any JSArray), Array::OriginalArray.
ArrayClasses == {"NonArray", "Array", "OriginalArray"}

ArrayModes == [type: ArrayTypes, class: ArrayClasses, conversion: BOOLEAN]

\* ArrayMode(Array::Type): a NonArray mode that converts nothing.
Mode(t) == [type |-> t, class |-> "NonArray", conversion |-> FALSE]

WithType(m, t) == [m EXCEPT !.type = t]
WithTypeAndConversion(m, t) == [m EXCEPT !.type = t, !.conversion = TRUE]

isJSArray(m) == m.class \in {"Array", "OriginalArray"}

\* A mode that names a concrete representation the backend can check.
isSpecific(m) == m.type \notin UnresolvedTypes \cup {"Generic", "ForceExit"}

usesButterfly(m) == m.type \in ButterflyTypes

\* originalArrayStructure() returns a structure (not null).
HasOriginalStructure(m) == m.class = "OriginalArray" /\ usesButterfly(m)

canCSEStorage(m) == isSpecific(m)

\* The length of a JSArray is read from its butterfly; a typed array's and
\* a string's from the cell.
lengthNeedsStorage(m) == isJSArray(m)

supportsLength(m) ==
    /\ isSpecific(m)
    /\ usesButterfly(m) => isJSArray(m)

\* modeForPut(): a string or arguments object is stored to generically.
ModeForPut(m) == IF m.type = "String" THEN Mode("Generic") ELSE m

(***************************************************************************)
(* ArrayMode::refine(base, index, value): resolve the profiled mode with  *)
(* the predictions of the operands.  A profile that never ran forces an   *)
(* exit; an index that is not an int32 makes the access generic; a value  *)
(* the butterfly cannot hold makes the mode convert to one that can.      *)
(***************************************************************************)
TypedArrayTypeFromSpeculation(p) ==
    IF \E t \in TypedArrayTypes : IsSpeculation(p, {t})
    THEN CHOOSE t \in TypedArrayTypes : IsSpeculation(p, {t})
    ELSE "NotTypedArray"

isTypedView(t) == t \in TypedArrayTypes

Refine(m, base, index, value) ==
    LET b == base \ {"Other"} IN
    CASE base = {} \/ index = {}        -> Mode("ForceExit")
      [] ~isInt32Speculation(index)     -> Mode("Generic")
      [] m.type = "Unprofiled"          -> Mode("ForceExit")
      [] m.type = "Undecided" /\ value = {} -> WithType(m, "ForceExit")
      [] m.type \in {"Undecided", "Int32"} /\ isInt32Speculation(value) ->
            IF m.type = "Int32" THEN m ELSE WithTypeAndConversion(m, "Int32")
      [] m.type = "Int32" /\ value = {}  -> m
      [] m.type \in {"Undecided", "Int32"} /\ isNumberSpeculation(value) ->
            WithTypeAndConversion(m, "Double")
      [] m.type \in {"Undecided", "Int32"} ->
            WithTypeAndConversion(m, "Contiguous")
      [] m.type = "Double" /\ (value = {} \/ isNumberSpeculation(value)) -> m
      [] m.type = "Double"              -> WithTypeAndConversion(m, "Contiguous")
      [] m.type = "SelectUsingPredictions" /\ isStringSpeculation(b) ->
            Mode("String")
      [] m.type = "SelectUsingPredictions" ->
            Mode(IF isTypedView(TypedArrayTypeFromSpeculation(b))
                 THEN TypedArrayTypeFromSpeculation(b) ELSE "Generic")
      [] OTHER                          -> m

\* elementSize and logElementSize of a typed-array type.
ElementSize(t) ==
    CASE t = "Int8Array" -> 1 [] t = "Int16Array" -> 2 [] t = "Float64Array" -> 8

LogElementSize(t) ==
    CASE t = "Int8Array" -> 0 [] t = "Int16Array" -> 1 [] t = "Float64Array" -> 3

\* The integer typed arrays a PutByVal may store an int32 into directly.
IntegerTypedArrayTypes == {"Int8Array", "Int16Array"}
=============================================================================
