\* The indexed-access and length rules of fixupNode on a 64-bit build.
CONSTANTS
    Vars <- MCVars
    ArgumentPositions = {}
    VarPredictions <- MCVarPredictions
    Program <- MCProgram
    ProgramBlocks <- MCProgramBlocks
    MaxSweeps <- MCMaxSweeps
    IntWidth = 8
    AlwaysUnboxSimplePrimitives = FALSE
    NoVar = NoVar
    NeverUnboxCandidates = {}

SPECIFICATION Spec

INVARIANTS
    DefinedBeforeUse
    ModeSpecializationClosure
    ByteLengthExact

\* run() returns: the final state has no successor.
CHECK_DEADLOCK FALSE
