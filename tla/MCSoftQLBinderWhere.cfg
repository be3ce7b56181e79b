\* Hard bind mode; queries whose first operation is a join, followed by
\* any second operation of MCOps.
CONSTANTS
    None = None
    BindMode = "hard"
    Queries <- MCJoinQueries
    SearchPath <- MCSearchPath
    Relations <- MCRelations
    FieldsOf <- MCFieldsOf
    Operators <- MCOperators
    Functions <- MCFunctions
    Dist <- MCDist
    NumKind <- MCNumKind
SPECIFICATION Spec
INVARIANT JoinPredicateKept
CHECK_DEADLOCK FALSE
