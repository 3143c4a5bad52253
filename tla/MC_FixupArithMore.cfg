\* The double and integer forms of the other arithmetic rules.
CONSTANTS
    Vars <- MCVars
    ArgumentPositions = {}
    VarPredictions <- MCVarPredictions
    Program <- MCProgram
    ProgramBlocks <- MCProgramBlocks
    MaxSweeps <- MCMaxSweeps
    IntWidth = 6
    AlwaysUnboxSimplePrimitives = FALSE
    NoVar = NoVar
    NeverUnboxCandidates = {}

SPECIFICATION Spec

INVARIANTS
    DefinedBeforeUse
    ValuePreserved

\* run() returns: the final state has no successor.
CHECK_DEADLOCK FALSE
