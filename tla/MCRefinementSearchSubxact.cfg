CONSTANTS
    Trees <- MCTrees
    Root = 0
    Edits <- MCEdits
    EnabledFlags <- MCEnabledFlags
    MaxHop = 2
    MaxNum = 4
    AnalyzerErrors <- MCAnalyzerErrors
    ExecOutcomes <- MCExecOutcomes
    NoTree = NoTree

SPECIFICATION Spec

INVARIANT
    SubxactBalanced

CHECK_DEADLOCK FALSE
