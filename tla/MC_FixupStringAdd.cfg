\* The string rules of fixupNode (ValueAdd, MakeRope, ToPrimitive, ToString) on a 64-bit build.
CONSTANTS
    Vars <- MCVars
    ArgumentPositions = {}
    VarPredictions <- MCVarPredictions
    Program <- MCProgram
    ProgramBlocks <- MCProgramBlocks
    MaxSweeps <- MCMaxSweeps
    IntWidth = 8
    AlwaysUnboxSimplePrimitives = FALSE
    NoVar = NoVar
    NeverUnboxCandidates = {}

SPECIFICATION Spec

INVARIANTS
    StringChecksPrecedeToPrimitive
    KnownStringEstablished
    RopeMatchesReference

\* run() returns: the final state has no successor.
CHECK_DEADLOCK FALSE
