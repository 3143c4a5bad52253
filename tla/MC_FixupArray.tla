--------------------------- MODULE MC_FixupArray ---------------------------
(***************************************************************************)
(* Indexed accesses and length reads for FixupPhase, in one block over a  *)
(* base local a and an index/value local i.  Each local may be predicted  *)
(* a JSArray, one of three typed-array views (one, two and eight bytes), *)
(* a string, a string object, Other, or a number, so refine() reaches     *)
(* every mode: an original JSArray (CheckStructure), a converting one     *)
(* (Arrayify), a typed view or String (CheckArray), Generic and           *)
(* ForceExit.  The profiles offer each access a JSArray mode and, where   *)
(* the parser can leave it, SelectUsingPredictions.                        *)
(***************************************************************************)
EXTENDS FixupPhase

MCVars == {"a", "i"}

MCVarPredictions ==
    {{"Array"}, {"Int8Array"}, {"Int16Array"}, {"Float64Array"}, {"String"},
     {"StringObject"}, {"Other"}, {"Int32"}, {"Double"}}

\* An ArrayMode with an array class.
JSMode(t, c) == [type |-> t, class |-> c, conversion |-> FALSE]

Select == Mode("SelectUsingPredictions")

MCProgram ==
    << [op |-> "GetLocal", var |-> "a", args |-> <<>>],                 \* 1
       [op |-> "GetLocal", var |-> "i", args |-> <<>>],                 \* 2
       [op |-> "GetByVal", var |-> NoVar, args |-> <<1, 2>>,            \* 3
        profiles |-> {[pred |-> {"Int32"}, mode |-> JSMode("Int32", "OriginalArray")],
                      [pred |-> {"Int32"}, mode |-> Select]}],
       [op |-> "PutByVal", var |-> NoVar, args |-> <<1, 2, 2>>,         \* 4
        profiles |-> {[pred |-> {}, mode |-> JSMode("Double", "Array")],
                      [pred |-> {}, mode |-> Select]}],
       [op |-> "ArrayPush", var |-> NoVar, args |-> <<1, 2>>,           \* 5
        profiles |-> {[pred |-> {}, mode |-> JSMode("Int32", "OriginalArray")],
                      [pred |-> {}, mode |-> JSMode("Undecided", "Array")]}],
       [op |-> "ArrayPop", var |-> NoVar, args |-> <<1>>,               \* 6
        profiles |-> {[pred |-> {"Int32"}, mode |-> JSMode("Contiguous", "Array")]}],
       [op |-> "GetById", var |-> NoVar, args |-> <<1>>, prop |-> "length", \* 7
        profiles |-> {[pred |-> {"Int32"}, mode |-> Select],
                      [pred |-> {"Int32"}, mode |-> JSMode("Int32", "Array")]}],
       [op |-> "GetById", var |-> NoVar, args |-> <<1>>, prop |-> "byteLength", \* 8
        profiles |-> {[pred |-> {"Int32"}, mode |-> Select]}],
       [op |-> "GetById", var |-> NoVar, args |-> <<1>>, prop |-> "byteOffset", \* 9
        profiles |-> {[pred |-> {"Int32"}, mode |-> Select]}],
       [op |-> "StringCharAt", var |-> NoVar, args |-> <<1, 2>>,        \* 10
        profiles |-> {[pred |-> {}, mode |-> Mode("String")]}],
       [op |-> "GetById", var |-> NoVar, args |-> <<1>>, prop |-> "x"] >> \* 11

MCProgramBlocks == << <<1, 2, 3, 4, 5, 6, 7, 8, 9, 10, 11>> >>

\* No SetLocal: at most the one sweep that finds nothing to do.
MCMaxSweeps == 1
=============================================================================
