\* The unboxing fixpoint on a 64-bit build (JSVALUE64: alwaysUnboxSimplePrimitives() is false).
CONSTANTS
    Vars <- MCVars
    ArgumentPositions <- MCArgumentPositionsXZ
    VarPredictions <- MCVarPredictions
    Program <- MCProgram
    ProgramBlocks <- MCProgramBlocks
    MaxSweeps <- MCMaxSweeps
    IntWidth = 8
    AlwaysUnboxSimplePrimitives = FALSE
    NoVar = NoVar
    NeverUnboxCandidates <- MCNeverUnboxCandidates

SPECIFICATION SpecH

INVARIANTS
    TypeOK
    SetLocalsFixedAtEnd
    NoConversionOfConversion
    SweepBound

PROPERTIES
    ImplementsUnboxingProfitability

\* run() returns: the final state has no successor, and termination is part
\* of ImplementsUnboxingProfitability.
CHECK_DEADLOCK FALSE
