-------------------------- MODULE MC_FixupCompare --------------------------
(***************************************************************************)
(* The comparison rules for FixupPhase.  Block 1 compares locals a and b  *)
(* with ==, < and ===, takes typeof a and String.fromCharCode(b), and ends*)
(* in a string switch on a; blocks 2 and 3 end in a character switch on b *)
(* and an integer switch on a.  Each local is predicted one of the        *)
(* categories a rule of the CompareEq case tells apart, or an object or   *)
(* undefined; the build has or lacks the registers of the string compare. *)
(* Blocks 4 and 5 are the branches over LogicalNot: in block 4, Branch 18 *)
(* reads the double negation 16 of a, with a ToThis of local t between    *)
(* them; when t is predicted Other in non-strict code, ToThis queues a    *)
(* Phantom OtherUse check and becomes a WeakJSConstant in place.  In      *)
(* block 5, Branch 23 reads the double negation 21 of a with a constant   *)
(* between them, which cannot exit; with a predicted a number, the first *)
(* LogicalNot's edge goes through an Int32ToDouble.                       *)
(***************************************************************************)
EXTENDS FixupPhase

MCVars == {"a", "b", "t"}

MCVarPredictions ==
    {{"Int32"}, {"Double"}, {"Boolean"}, {"StringIdent"}, {"String"},
     {"Object"}, {"Object", "Other"}, {"Other"}}

MCProgram ==
    << [op |-> "GetLocal",           var |-> "a",   args |-> <<>>],      \* 1
       [op |-> "GetLocal",           var |-> "b",   args |-> <<>>],      \* 2
       [op |-> "CompareEq",          var |-> NoVar, args |-> <<1, 2>>],  \* 3
       [op |-> "CompareLess",        var |-> NoVar, args |-> <<1, 2>>],  \* 4
       [op |-> "CompareStrictEq",    var |-> NoVar, args |-> <<1, 2>>],  \* 5
       [op |-> "TypeOf",             var |-> NoVar, args |-> <<1>>],     \* 6
       [op |-> "StringFromCharCode", var |-> NoVar, args |-> <<2>>],     \* 7
       [op |-> "Switch",             var |-> NoVar, args |-> <<1>>,
        kind |-> "SwitchString"],                                       \* 8
       [op |-> "GetLocal",           var |-> "b",   args |-> <<>>],      \* 9
       [op |-> "Switch",             var |-> NoVar, args |-> <<9>>,
        kind |-> "SwitchChar"],                                         \* 10
       [op |-> "GetLocal",           var |-> "a",   args |-> <<>>],      \* 11
       [op |-> "Switch",             var |-> NoVar, args |-> <<11>>,
        kind |-> "SwitchImm"],                                          \* 12
       [op |-> "GetLocal",           var |-> "t",   args |-> <<>>],      \* 13
       [op |-> "GetLocal",           var |-> "a",   args |-> <<>>],      \* 14
       [op |-> "LogicalNot",         var |-> NoVar, args |-> <<14>>],    \* 15
       [op |-> "LogicalNot",         var |-> NoVar, args |-> <<15>>],    \* 16
       [op |-> "ToThis",             var |-> NoVar, args |-> <<13>>],    \* 17
       [op |-> "Branch",             var |-> NoVar, args |-> <<16>>],    \* 18
       [op |-> "GetLocal",           var |-> "a",   args |-> <<>>],      \* 19
       [op |-> "LogicalNot",         var |-> NoVar, args |-> <<19>>],    \* 20
       [op |-> "LogicalNot",         var |-> NoVar, args |-> <<20>>],    \* 21
       [op |-> "JSConstant",         var |-> NoVar, args |-> <<>>,
        value |-> 0],                                                   \* 22
       [op |-> "Branch",             var |-> NoVar, args |-> <<21>>] >>  \* 23

MCProgramBlocks ==
    << [i \in 1..8 |-> i], <<9, 10>>, <<11, 12>>, [i \in 1..6 |-> 12 + i],
       [i \in 1..5 |-> 18 + i] >>

\* No SetLocal: at most the one sweep that finds nothing to do.
MCMaxSweeps == 1
=============================================================================
