---------------------------- MODULE MC_FixupCell ----------------------------
(***************************************************************************)
(* The object and allocation rules for FixupPhase, in the shapes the      *)
(* bytecode parser emits them: a structure check of object o in front of  *)
(* its out-of-line (through GetButterfly) and inline property accesses,   *)
(* scope and callee chains, instanceof and in, a NewArray of v and i whose*)
(* allocation profile is any indexing type, and the other allocations.    *)
(***************************************************************************)
EXTENDS FixupPhase

MCVars == {"o", "v", "i"}

MCVarPredictions == {{"Int32"}, {"Double"}, {"String"}, {"Object"}, {}}

\* Node templates with an allocation profile or a profiled array mode.
Profiled(op, args, modes) ==
    [op |-> op, var |-> NoVar, args |-> args,
     profiles |-> {[pred |-> {}, mode |-> Mode(t)] : t \in modes}]

N(op, args) == [op |-> op, var |-> NoVar, args |-> args]

MCProgram ==
    << [op |-> "GetLocal", var |-> "o", args |-> <<>>],                \* 1
       [op |-> "GetLocal", var |-> "v", args |-> <<>>],                \* 2
       [op |-> "GetLocal", var |-> "i", args |-> <<>>],                \* 3
       N("CheckStructure", <<1>>),                                     \* 4
       N("GetButterfly", <<1>>),                                       \* 5
       N("GetByOffset", <<5, 1>>),                                     \* 6
       N("GetByOffset", <<1, 1>>),                                     \* 7
       N("PutByOffset", <<5, 1, 2>>),                                  \* 8
       N("PutStructure", <<1>>),                                       \* 9
       N("AllocatePropertyStorage", <<1>>),                            \* 10
       N("PutById", <<1, 2>>),                                         \* 11
       N("GetMyScope", <<>>),                                          \* 12
       N("SkipScope", <<12>>),                                         \* 13
       N("GetCallee", <<>>),                                           \* 14
       N("GetScope", <<14>>),                                          \* 15
       N("CreateThis", <<14>>),                                        \* 16
       N("CheckHasInstance", <<1>>),                                   \* 17
       N("InstanceOf", <<2, 1>>),                                      \* 18
       N("In", <<2, 1>>),                                              \* 19
       Profiled("NewArray", <<2, 3>>,
                {"Undecided", "Int32", "Double", "Contiguous"}),       \* 20
       N("NewArrayWithSize", <<3>>),                                   \* 21
       N("NewTypedArray", <<3>>),                                      \* 22
       [op |-> "JSConstant", var |-> NoVar, args |-> <<>>],            \* 23
       N("NewStringObject", <<23>>),                                   \* 24
       Profiled("CheckArray", <<1>>, {"String", "Int32"}),             \* 25
       N("Arrayify", <<1, 3>>),                                        \* 26
       N("Phantom", <<2>>),                                            \* 27
       N("GetMyArgumentByVal", <<3>>),                                 \* 28
       N("RegExpTest", <<1, 1>>) >>                                    \* 29

MCProgramBlocks == << [k \in 1..29 |-> k] >>

\* No SetLocal: at most the one sweep that finds nothing to do.
MCMaxSweeps == 1
=============================================================================
