\* The object and allocation cases of fixupNode on a 64-bit build.
CONSTANTS
    Vars <- MCVars
    ArgumentPositions = {}
    VarPredictions <- MCVarPredictions
    Program <- MCProgram
    ProgramBlocks <- MCProgramBlocks
    MaxSweeps <- MCMaxSweeps
    IntWidth = 8
    AlwaysUnboxSimplePrimitives = FALSE
    NoVar = NoVar
    NeverUnboxCandidates = {}

SPECIFICATION Spec

INVARIANTS
    DefinedBeforeUse
    KnownCellEstablished
    NewArrayStorageSound

\* run() returns: the final state has no successor.
CHECK_DEADLOCK FALSE
