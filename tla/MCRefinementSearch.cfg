CONSTANTS
    Trees <- MCTrees
    Root = 0
    Edits <- MCEdits
    EnabledFlags <- MCEnabledFlags
    MaxHop = 2
    MaxNum = 4
    AnalyzerErrors <- MCAnalyzerErrors
    ExecOutcomes <- MCExecOutcomes
    NoTree = NoTree

SPECIFICATION Spec

INVARIANTS
    TypeOK
    BestFirst
    AnalyzedAtMostOnce
    AnalyzerBudget

PROPERTIES
    AbstractSpec

\* analyze_with_refinement returns: the terminal states are real.
CHECK_DEADLOCK FALSE
