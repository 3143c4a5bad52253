\* spec.md 8 "Subset-implies-specialization" checked against the UseKinds the code leaves on edges.
CONSTANTS
    Vars <- MCVars
    ArgumentPositions <- MCArgumentPositions
    VarPredictions <- MCVarPredictions
    Program <- MCProgram
    ProgramBlocks <- MCProgramBlocks
    MaxSweeps <- MCMaxSweeps
    IntWidth = 8
    AlwaysUnboxSimplePrimitives = FALSE
    NoVar = NoVar
    NeverUnboxCandidates <- MCNeverUnboxCandidates

SPECIFICATION SpecH

INVARIANT SubsetImpliesSpecialization

\* run() returns: the final state has no successor.
CHECK_DEADLOCK FALSE
