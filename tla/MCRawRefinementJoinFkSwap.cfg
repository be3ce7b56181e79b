\* A catalog without primary keys: only the foreign key decides a key join.
CONSTANTS
    ta = ta  tb = tb  tc = tc  tx = tx  al = al  tq = tq
    c1 = c1  c2 = c2  c3 = c3  cx = cx  vx = vx  v1 = v1  v2 = v2
    None = None
    CatTables <- MCCatTables
    Idents <- MCIdents
    Columns <- MCColumns
    PKCols <- NoPKCols
    FKs <- MCFKs
    TableDist <- MCTableDist
    ColDist <- MCColDist
    Weight <- MCWeight
    Enabled <- MCEnabled
    TopK = 2
    MaxHop = 3
    Lits <- MCLits
    Samples <- MCSamples
    ValDist <- MCValDist
    Tokens <- MCTokens
    Types <- MCTypes
    ColType <- MCColType
    VecOps <- MCVecOps
    MaxLoc = 2
    Casts <- MCCasts
    FuncNames <- MCFuncNames
    FuncSigs <- MCFuncSigs
    FuncDist <- MCFuncDist
    FormatType <- MCFormatType
    InitTrees <- MCInitTrees
SPECIFICATION Spec
INVARIANT JoinConditionFollowsKeys
\* A path ends where its tree has no refinement: the search pops another.
CHECK_DEADLOCK FALSE
