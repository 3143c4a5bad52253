\* The arithmetic rules of fixupNode on one block.
CONSTANTS
    Vars <- MCVars
    ArgumentPositions = {}
    VarPredictions <- MCVarPredictions
    Program <- MCProgram
    ProgramBlocks <- MCProgramBlocks
    MaxSweeps <- MCMaxSweeps
    IntWidth <- MCIntWidth
    AlwaysUnboxSimplePrimitives = FALSE
    NoVar = NoVar
    NeverUnboxCandidates = {}

SPECIFICATION Spec

INVARIANTS
    DefinedBeforeUse
    ValuePreserved


    

\* run() returns: the final state has no successor.
CHECK_DEADLOCK FALSE
