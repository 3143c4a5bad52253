\* An add of an int32 local and the immediate 1.5 whose result is used as an int.
CONSTANTS
    Vars <- MCVars
    ArgumentPositions = {}
    VarPredictions <- MCVarPredictions
    Program <- MCProgramFraction
    ProgramBlocks <- MCProgramBlocksFraction
    MaxSweeps <- MCMaxSweeps
    IntWidth <- MCIntWidth
    AlwaysUnboxSimplePrimitives = FALSE
    NoVar = NoVar
    NeverUnboxCandidates = {}

SPECIFICATION Spec

INVARIANT
    TruncationSound

\* run() returns: the final state has no successor.
CHECK_DEADLOCK FALSE
