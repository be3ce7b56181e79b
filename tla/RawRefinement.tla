--------------------------- MODULE RawRefinement ---------------------------
(***************************************************************************)
(* One refinement step of safeql/search.rs on a concrete raw SELECT tree:  *)
(* the analyzer reports the first error, the classifier (extract_* in      *)
(* search.rs) pulls the names out of its message, the dispatch of          *)
(* perform_refinement_search calls the generators of safeql/refine.rs for  *)
(* that error class, and each generator deep-copies the tree and rewrites  *)
(* it with a tree walker, using the catalog queries of safeql/score.rs.    *)
(* A behaviour is one path of edits from the submitted statement, so every *)
(* tree the best-first search could pop is a state.                        *)
(*                                                                         *)
(* A tree is a record: the FROM list of RangeVars [rel, alias], the target *)
(* list's ColumnRefs [qual, col] (qual = None for a one-field reference), *)
(* the calls fn('unit', ColumnRef) that follow them in the target list   *)
(* as units [fn, unit, ucast, arg, acast, loc] (ucast and acast: the type *)
(* a TypeCast wraps each argument in, loc: the FuncCall's location), the  *)
(* WHERE conjuncts col = 'literal' as                                      *)
(* filters [ref, lit, cast], and the equalities [l, r, lc, rc, loc] of    *)
(* two ColumnRefs after them; join edits append these                      *)
(* (add_condition_to_where_clause ANDs a new condition to the right).     *)
(* cast is the type a TypeCast wraps the operand in (None: no cast), and *)
(* loc the A_Expr's location in the submitted text (None: -1, a node the  *)
(* code built).  The only operator is =, and a literal is valid input for *)
(* the type of the column it is compared with.                             *)
(* Identifiers are compared in lower case by the code; here they are      *)
(* model values that differ in more than case.                             *)
(***************************************************************************)
EXTENDS Integers, Sequences, FiniteSets, FiniteSetsExt, Functions

CONSTANTS
    CatTables,        \* tables on the search path, in pg_class and pg_vector_tables
    Idents,           \* every identifier a statement may use
    Columns(_),       \* Columns(t): the fields of catalog table t
    PKCols(_),        \* PKCols(t): the primary-key columns of t
    FKs,              \* [src, scol, dst, dcol]: src.scol REFERENCES dst.dcol
    TableDist(_, _),  \* embedding distance (thousandths) from a name to a table
    ColDist(_, _),    \* embedding distance (thousandths) from a name to a column name
    Weight(_),        \* a family's *_REFINEMENT_WEIGHT GUC, in tenths
    Enabled,          \* the families whose ENABLE_* GUC is on
    TopK,             \* TOP_K_EXPANSION
    MaxHop,           \* MAX_HOP
    Lits,             \* string literals, and the sample values of pg_vector_values
    Samples(_, _),    \* Samples(t, c): the non-empty sample values of column t.c
    ValDist(_, _),    \* embedding distance (thousandths) from a literal to a sample
    Tokens,           \* the characters (and whole lower-case words) of unit literals
    Types,            \* column types
    ColType(_, _),    \* ColType(t, c): the type of column t.c
    VecOps,           \* the = signatures [left, right] of pg_vector_operators (and pg_operator)
    MaxLoc,           \* locations of submitted expressions are 0..MaxLoc
    Casts,            \* the [from, to] pairs a TypeCast of a column may convert
    FuncNames,        \* the function names a call may use
    FuncSigs,         \* [fn, args] rows of pg_vector_functions (and pg_proc), args : Seq(Types)
    FuncDist(_, _),   \* embedding distance (thousandths) from a name to a function
    FormatType(_),    \* format_type: the name an error message gives a type
    InitTrees,        \* the statements a user may submit
    None

VARIABLES
    tree,   \* the candidate popped from the queue
    prio,   \* its cumulative priority
    hop,    \* its hop count
    orig,   \* the submitted statement
    last    \* the edit that produced tree: family, distance, parent priority,
            \*   parent tree and the analyzer error it answered

vars == <<tree, prio, hop, orig, last>>

Entry == [rel : Idents, alias : Idents \cup {None}]
Ref   == [qual : Idents \cup {None}, col : Idents]
Call  == [fn : FuncNames, unit : Seq(Tokens), ucast : Types \cup {None}, arg : Ref,
          acast : Types \cup {None}, loc : 0..MaxLoc]
Tree  == [from : Seq(Entry), target : Seq(Ref), units : Seq(Call),
          filters : Seq([ref : Ref, lit : Lits, cast : Types \cup {None}]),
          where : Seq([l : Ref, r : Ref, lc : Types \cup {None}, rc : Types \cup {None},
                       loc : 0..MaxLoc \cup {None}])]

\* TableInfo::get_reference_name: the alias if there is one, else the table.
RefName(e) == IF e.alias = None THEN e.rel ELSE e.alias

\* The ColumnRefs a raw_expression_tree_walker visits: target list, then WHERE.
UnitArgs(t) == [i \in DOMAIN t.units |-> t.units[i].arg]
FilterRefs(t) == [i \in DOMAIN t.filters |-> t.filters[i].ref]
WhereRefs(t) == [i \in 1..2 * Len(t.where) |->
                    IF i % 2 = 1 THEN t.where[(i + 1) \div 2].l ELSE t.where[i \div 2].r]
AllRefs(t) == t.target \o UnitArgs(t) \o FilterRefs(t) \o WhereRefs(t)

\* A walker that rewrites ColumnRefs and leaves the FROM list alone.
MapRefs(t, F(_)) ==
    [from   |-> t.from,
     target |-> [i \in DOMAIN t.target |-> F(t.target[i])],
     units  |-> [i \in DOMAIN t.units |-> [t.units[i] EXCEPT !.arg = F(@)]],
     filters |-> [i \in DOMAIN t.filters |-> [t.filters[i] EXCEPT !.ref = F(@)]],
     where  |-> [i \in DOMAIN t.where |-> [t.where[i] EXCEPT !.l = F(@), !.r = F(@)]]]

-----------------------------------------------------------------------------
(***************************************************************************)
(* PostgreSQL parse analysis: the FROM list item by item (missing relation, *)
(* then a reference name used twice), then every ColumnRef in walk order.  *)
(* The error is reported as its SQLSTATE and the message template with    *)
(* its arguments.                                                          *)
(***************************************************************************)
Msg(code, msg, a, b) == [code |-> code, msg |-> msg, a |-> a, b |-> b]
Ok == Msg("OK", "none", None, None)

FromError(t, i) ==
    IF t.from[i].rel \notin CatTables
    THEN Msg("UNDEFINED_TABLE", "relation", t.from[i].rel, None)
    ELSE IF \E j \in 1..(i - 1) : RefName(t.from[j]) = RefName(t.from[i])
         THEN Msg("DUPLICATE_ALIAS", "specified_more_than_once", RefName(t.from[i]), None)
         ELSE Ok

RefError(t, r) ==
    IF r.qual # None
    THEN LET hits == {i \in DOMAIN t.from : RefName(t.from[i]) = r.qual}
         IN  IF hits = {}
             THEN IF \E i \in DOMAIN t.from : t.from[i].rel = r.qual /\ t.from[i].alias # None
                  THEN Msg("UNDEFINED_TABLE", "invalid_reference", r.qual, None)
                  ELSE Msg("UNDEFINED_TABLE", "missing_entry", r.qual, None)
             ELSE IF r.col \notin Columns(t.from[Min(hits)].rel)
                  THEN Msg("UNDEFINED_COLUMN", "column_qualified", r.qual, r.col)
                  ELSE Ok
    ELSE LET owners == {i \in DOMAIN t.from : r.col \in Columns(t.from[i].rel)}
         IN  CASE owners = {}              -> Msg("UNDEFINED_COLUMN", "column", r.col, None)
               [] Cardinality(owners) > 1  -> Msg("AMBIGUOUS_COLUMN", "ambiguous", r.col, None)
               [] OTHER                    -> Ok

\* The table a ColumnRef that analyzes is bound to.
ResolvedTable(t, r) ==
    IF r.qual # None
    THEN t.from[Min({i \in DOMAIN t.from : RefName(t.from[i]) = r.qual})].rel
    ELSE t.from[CHOOSE i \in DOMAIN t.from : r.col \in Columns(t.from[i].rel)].rel

OperandType(t, r, cast) == IF cast # None THEN cast ELSE ColType(ResolvedTable(t, r), r.col)

\* make_op: no = for the operand types.  The cursor is the A_Expr's
\* location + 1, or none for location -1.
OpError(t, i) ==
    LET w  == t.where[i]
        lt == OperandType(t, w.l, w.lc)
        rt == OperandType(t, w.r, w.rc)
    IN  IF [left |-> lt, right |-> rt] \in VecOps THEN Ok
        ELSE Msg("UNDEFINED_FUNCTION", "operator_does_not_exist",
                 IF w.loc = None THEN None ELSE w.loc + 1, <<lt, rt>>)

\* A TypeCast of a column argument: coerce_type finds no cast path.
CastError(t, i) ==
    LET u == t.units[i]
    IN  IF u.acast = None \/ [from |-> ColType(ResolvedTable(t, u.arg), u.arg.col), to |-> u.acast] \in Casts
        THEN Ok ELSE Msg("CANNOT_COERCE", "cannot_cast", u.loc + 1, None)

\* The argument types of a call: an uncast literal is "unknown".
CallTypes(t, u) == <<IF u.ucast = None THEN "unknown" ELSE u.ucast, OperandType(t, u.arg, u.acast)>>

\* func_get_detail: a signature of the name whose types equal the
\* arguments', an unknown literal taking any type.  The message names the
\* argument types as format_type writes them; the cursor is the FuncCall.
FuncError(t, i) ==
    LET u  == t.units[i]
        at == CallTypes(t, u)
    IN  IF \E s \in FuncSigs : /\ s.fn = u.fn /\ Len(s.args) = 2
                              /\ \A k \in 1..2 : at[k] = "unknown" \/ at[k] = s.args[k]
        THEN Ok
        ELSE Msg("UNDEFINED_FUNCTION", "function_does_not_exist", u.loc + 1,
                 [fn |-> u.fn, types |-> [k \in 1..2 |-> IF at[k] = "unknown" THEN "unknown"
                                                        ELSE FormatType(at[k])]])

\* The target list's ColumnRefs, then per call its column argument, that
\* argument's cast and the call; the WHERE clause: filters, then per
\* equality its two operands and its operator.
Analyze(t) ==
    LET errs == [i \in DOMAIN t.from |-> FromError(t, i)]
                \o [i \in DOMAIN t.target |-> RefError(t, t.target[i])]
                \o [k \in 1..3 * Len(t.units) |->
                      LET i == (k + 2) \div 3
                      IN  CASE k % 3 = 1                      -> RefError(t, t.units[i].arg)
                            [] RefError(t, t.units[i].arg) # Ok -> Ok
                            [] k % 3 = 2                      -> CastError(t, i)
                            [] OTHER                          -> FuncError(t, i)]
                \o [i \in DOMAIN t.filters |-> RefError(t, t.filters[i].ref)]
                \o [k \in 1..3 * Len(t.where) |->
                      LET i == (k + 2) \div 3
                      IN  CASE k % 3 = 1 -> RefError(t, t.where[i].l)
                            [] k % 3 = 2 -> RefError(t, t.where[i].r)
                            [] RefError(t, t.where[i].l) # Ok \/ RefError(t, t.where[i].r) # Ok -> Ok
                            [] OTHER     -> OpError(t, i)]
        bad  == {i \in DOMAIN errs : errs[i] # Ok}
    IN  IF bad = {} THEN Ok ELSE errs[Min(bad)]

(***************************************************************************)
(* The classifier: the first pattern of each regex cascade that matches   *)
(* the message.  The "column Y.X" patterns need names without dots or      *)
(* blanks, which every identifier here is.                                 *)
(***************************************************************************)
ExtractMissingRelation(m) == IF m.msg \in {"relation", "missing_entry"} THEN m.a ELSE None

ExtractMissingColumn(m) ==
    CASE m.msg = "column_qualified" -> [table |-> m.a, col |-> m.b]
      [] m.msg = "column"           -> [table |-> None, col |-> m.a]
      [] OTHER                      -> None

ExtractAmbiguousColumn(m) == IF m.msg = "ambiguous" THEN m.a ELSE None

\* "function [schema.]name(types) does not exist": the name and the types.
ExtractMissingFunction(m) == IF m.msg = "function_does_not_exist" THEN m.b ELSE None

-----------------------------------------------------------------------------
(***************************************************************************)
(* The catalog queries of score.rs.  ORDER BY distance LIMIT top_k keeps  *)
(* the rows with fewer than top_k strictly closer rows: every row a tie   *)
(* at the limit may let through.                                          *)
(***************************************************************************)
TopBy(S, D(_)) == {x \in S : Cardinality({y \in S : D(y) < D(x)}) < TopK}

ListTablesBySimilarity(n) ==
    {[name |-> t, dist |-> TableDist(n, t)] : t \in TopBy(CatTables, LAMBDA t : TableDist(n, t))}

Fields == UNION {{[col |-> c, table |-> t] : c \in Columns(t)} : t \in CatTables}

\* With a table that has fields, only its fields; otherwise the whole catalog.
ListColumnsBySimilarity(tbl, c) ==
    LET pool == IF tbl # None /\ \E f \in Fields : f.table = tbl
                THEN {f \in Fields : f.table = tbl} ELSE Fields
    IN  {[col |-> f.col, table |-> f.table, dist |-> ColDist(c, f.col)] :
            f \in TopBy(pool, LAMBDA f : ColDist(c, f.col))}

FindTablesWithExactColumn(ts, c) == {t \in ts \cap CatTables : c \in Columns(t)}

(***************************************************************************)
(* Joinable tables.  Both queries select fk_column := a1.attname (a key   *)
(* column of t1 = conrelid) and pk_column := a2.attname (of t2 =          *)
(* confrelid), and build left_table := existing_table, left_column :=     *)
(* pk_column, right_table := join_table, right_column := fk_column.       *)
(***************************************************************************)
PkFkJoinables(E) ==
    {[join |-> k.dst, cond |-> [lt |-> k.src, lc |-> k.dcol, rt |-> k.dst, rc |-> k.scol]] :
        k \in {k \in FKs : k.src \in E /\ k.dst \notin E}}
    \cup
    {[join |-> k.src, cond |-> [lt |-> k.dst, lc |-> k.dcol, rt |-> k.src, rc |-> k.scol]] :
        k \in {k \in FKs : k.dst \in E /\ k.src \notin E}}

NaturalJoinables(E, skipPK) ==
    UNION {{[join |-> t2, cond |-> [lt |-> t1, lc |-> a, rt |-> t2, rc |-> a]] :
               a \in {a \in Columns(t1) \cap Columns(t2) :
                         skipPK => a \notin PKCols(t1) \cup PKCols(t2)}} :
           <<t1, t2>> \in E \X (CatTables \ E)}

FindAllJoinableTables(E) == PkFkJoinables(E) \cup NaturalJoinables(E, TRUE)

\* The joined table must own a field named exactly c; top_k tables by its distance.
FindJoinableTablesForColumn(E, c) ==
    LET js == {x \in PkFkJoinables(E) \cup NaturalJoinables(E, FALSE) : c \in Columns(x.join)}
        kept == TopBy({x.join : x \in js}, LAMBDA t : ColDist(c, c))
    IN  {x \in js : x.join \in kept}

-----------------------------------------------------------------------------
(***************************************************************************)
(* Tree mutators of refine.rs.  find_table_walker "stops" by returning    *)
(* false, which a raw tree walker takes as "continue": every RangeVar     *)
(* matching by table name or alias overwrites the result, so the last    *)
(* one wins.                                                               *)
(***************************************************************************)
FindActualTableName(t, ref) ==
    LET ms == {i \in DOMAIN t.from : t.from[i].rel = ref \/ t.from[i].alias = ref}
    IN  IF ms = {} THEN None ELSE t.from[Max(ms)].rel

ActualOr(t, ref) == IF FindActualTableName(t, ref) = None THEN ref ELSE FindActualTableName(t, ref)

\* Mutant: a rename that rebuilds the RangeVar without its alias.
ReplaceTableDropsAlias(t, old, new) ==
    LET actual == ActualOr(t, old)
    IN  [MapRefs(t, LAMBDA r : IF r.qual = old /\ old = actual THEN [r EXCEPT !.qual = new] ELSE r)
            EXCEPT !.from = [i \in DOMAIN t.from |->
                               IF t.from[i].rel = actual THEN [rel |-> new, alias |-> None]
                                                         ELSE t.from[i]]]

\* Mutant: a rename of the RangeVars that leaves the qualifiers alone.
ReplaceTableKeepsQualifiers(t, old, new) ==
    LET actual == ActualOr(t, old)
    IN  [t EXCEPT !.from = [i \in DOMAIN t.from |->
                              IF t.from[i].rel = actual THEN [t.from[i] EXCEPT !.rel = new]
                                                        ELSE t.from[i]]]

\* Every RangeVar of the actual table is renamed, its alias kept; qualifiers
\* equal to old are renamed only when old was the table name itself.
ReplaceTableIntelligently(t, old, new) ==
    LET actual == ActualOr(t, old)
    IN  [MapRefs(t, LAMBDA r : IF r.qual = old /\ old = actual THEN [r EXCEPT !.qual = new] ELSE r)
            EXCEPT !.from = [i \in DOMAIN t.from |->
                               IF t.from[i].rel = actual THEN [t.from[i] EXCEPT !.rel = new]
                                                         ELSE t.from[i]]]

\* raw_replace_column_walker: with a filter only refs qualified by it.
ReplaceColumnRefInplace(t, missing, new, filter) ==
    MapRefs(t, LAMBDA r : IF r.col = missing /\ (filter = None \/ r.qual = filter)
                          THEN [r EXCEPT !.col = new] ELSE r)

ReplaceColumnTableReference(t, oldT, newT, oldC, newC) ==
    MapRefs(t, LAMBDA r : IF r.qual # None /\ r.qual = oldT /\ r.col = oldC
                          THEN [qual |-> newT, col |-> newC] ELSE r)

QualifyAmbiguousColumnReference(t, c, q) ==
    MapRefs(t, LAMBDA r : IF r.qual = None /\ r.col = c THEN [qual |-> q, col |-> c] ELSE r)

AddTableWithAlias(t, rel, alias) == [t EXCEPT !.from = Append(@, [rel |-> rel, alias |-> alias])]

\* The first RangeVar of left_table decides; its alias, if any, replaces it.
AdjustJoinConditionForExistingAlias(cond, tables) ==
    LET hits == {i \in DOMAIN tables : tables[i].rel = cond.lt}
    IN  IF hits = {} \/ tables[Min(hits)].alias = None THEN cond
        ELSE [cond EXCEPT !.lt = tables[Min(hits)].alias]

(* A new RangeVar names the table with no alias; a ColumnRef and the     *)
(* "=" A_Expr built for a join condition carry location -1 (None).        *)
CreateRangeVar(tbl) == [rel |-> tbl, alias |-> None]

CreateColumnRef(tbl, col) == [qual |-> tbl, col |-> col]

CreateEqualityExpr(left, right) ==
    [l |-> left, r |-> right, lc |-> None, rc |-> None, loc |-> None]

CreateJoinConditionExpr(cond) ==
    CreateEqualityExpr(CreateColumnRef(cond.lt, cond.lc), CreateColumnRef(cond.rt, cond.rc))

AddTableToFromList(t, rv) == [t EXCEPT !.from = Append(@, rv)]

(* The WHERE clause is the list of its AND-ed conjuncts: an empty clause  *)
(* becomes the condition, a present one becomes (existing AND cond).      *)
AddConditionToWhereClause(t, e) == [t EXCEPT !.where = Append(@, e)]

AddTableAndWhereCondition(t, jt, cond) ==
    LET adj == AdjustJoinConditionForExistingAlias(cond, t.from)
    IN  AddConditionToWhereClause(AddTableToFromList(t, CreateRangeVar(jt)),
                                  CreateJoinConditionExpr(adj))

AddTableToEmptyFromClause(t, tbl) == [t EXCEPT !.from = <<CreateRangeVar(tbl)>>]

-----------------------------------------------------------------------------
(***************************************************************************)
(* The generators.  Each returns its (priority, tree) pairs as a set of   *)
(* candidates; the edit's cost is ((distance * 100.0) * weight) as i32,   *)
(* with distance in thousandths and weight in tenths.                     *)
(***************************************************************************)
EditCost(d, fam) == (d * Weight(fam)) \div 100

Cand(base, d, fam, t) == [prio |-> base + EditCost(d, fam), tree |-> t, dist |-> d, fam |-> fam]

Rels(t) == {e.rel : e \in Range(t.from)}

\* Empty result: every FROM table against its similar tables but itself.
GenerateTableRefinementsForAllFromTables(t, base) ==
    UNION {{Cand(base, c.dist, "table", ReplaceTableIntelligently(t, e.rel, c.name)) :
               c \in {c \in ListTablesBySimilarity(e.rel) : c.name # e.rel}} :
           e \in Range(t.from)}

\* Unknown relation: tables already named in FROM (or as aliases) are skipped.
GenerateTableRefinements(t, missing, base) ==
    LET existing == Rels(t) \cup ({e.alias : e \in Range(t.from)} \ {None})
        target   == ActualOr(t, missing)
    IN  {Cand(base, c.dist, "table",
              IF missing # target THEN AddTableWithAlias(t, c.name, missing)
                                  ELSE ReplaceTableIntelligently(t, missing, c.name)) :
            c \in {c \in ListTablesBySimilarity(target) : c.name \notin existing}}

GenerateColumnRefinements(t, table, col, base) ==
    LET actual == IF table = None THEN None ELSE ActualOr(t, table)
    IN  {Cand(base, c.dist, "column", ReplaceColumnRefInplace(t, col, c.col, table)) :
            c \in {c \in ListColumnsBySimilarity(actual, col) : table = None \/ c.table = actual}}

GenerateTableRefinementsForColumnError(t, old, base) ==
    LET target == ActualOr(t, old)
    IN  {Cand(base, c.dist, "table_for_column", ReplaceTableIntelligently(t, target, c.name)) :
            c \in {c \in ListTablesBySimilarity(target) : c.name \notin Rels(t) \/ c.name = target}}

GenerateTableRefinementsForAllTables(t, base) ==
    UNION {{Cand(base, c.dist, "table_for_column", ReplaceTableIntelligently(t, e.rel, c.name)) :
               c \in {c \in ListTablesBySimilarity(e.rel) : c.name \notin Rels(t) \/ c.name = e.rel}} :
           e \in Range(t.from)}

\* R.a -> S.b for every other FROM entry S, with S's closest column b.
GenerateColumnTableReferenceRefinements(t, cur, col, base) ==
    IF cur = None THEN {}
    ELSE UNION {LET cands == ListColumnsBySimilarity(e.rel, col)
                    best  == {c \in cands : \A o \in cands : c.dist <= o.dist}
                IN  {Cand(base, b.dist, "column_table_reference",
                          ReplaceColumnTableReference(t, cur, RefName(e), col, b.col)) : b \in best} :
                e \in {e \in Range(t.from) : RefName(e) # cur /\ e.rel # cur}}

GenerateJoinRefinements(t, col, base) ==
    IF t.from = <<>>
    THEN {Cand(base, c.dist + 1000, "join", AddTableToEmptyFromClause(t, c.table)) :
             c \in ListColumnsBySimilarity(None, col)}
    ELSE {Cand(base, ColDist(col, col) + 1000, "join", AddTableAndWhereCondition(t, x.join, x.cond)) :
             x \in {x \in FindJoinableTablesForColumn(Rels(t), col) : x.join \notin Rels(t)}}

\* The condition is adjusted here and again inside add_table_and_where_condition.
GenerateOneHopJoinRefinementsForAllTables(t, base) ==
    {Cand(base, 1000, "join",
          AddTableAndWhereCondition(t, x.join, AdjustJoinConditionForExistingAlias(x.cond, t.from))) :
        x \in {x \in FindAllJoinableTables(Rels(t)) : x.join \notin Rels(t)}}

GenerateColumnAmbiguityRefinements(t, c, base) ==
    LET matching == FindTablesWithExactColumn(Rels(t), c)
    IN  {Cand(base, 1000, "ambiguity", QualifyAmbiguousColumnReference(t, c, RefName(e))) :
            e \in {e \in Range(t.from) : e.rel \in matching}}

(***************************************************************************)
(* Operand refinement (CASE 6-4 and the empty-result branch).  An A_Expr  *)
(* of the WHERE clause is seen as its operands: the ColumnRef on a side,  *)
(* as a ColumnOperand [qual, col], or None for a TypeCast or a constant.  *)
(* The operator is always =, and OperatorInfo keeps its two types.        *)
(***************************************************************************)
ColumnOperand(r, cast) == IF cast = None THEN r ELSE None

\* extract_column_operands_from_expr on the WHERE A_Exprs in walk order:
\* the filters col = 'lit', then the equalities, with their locations.
FindAllWhereExpressions(t) ==
    [i \in DOMAIN t.filters |-> [lop |-> ColumnOperand(t.filters[i].ref, t.filters[i].cast),
                                 rop |-> None, loc |-> None]]
    \o [i \in DOMAIN t.where |-> [lop |-> ColumnOperand(t.where[i].l, t.where[i].lc),
                                 rop |-> ColumnOperand(t.where[i].r, t.where[i].rc),
                                 loc |-> t.where[i].loc]]

\* The A_Exprs whose location + 1 is the error cursor.
FindExpressionsAtPosition(t, pos) ==
    SelectSeq(FindAllWhereExpressions(t), LAMBDA x : x.loc # None /\ x.loc + 1 = pos)

IsOperatorTypeError(m) == m.msg = "operator_does_not_exist"

\* The types of "operator does not exist: L = R", or none for another message.
ExtractOperatorInfoFromError(m) ==
    IF m # None /\ IsOperatorTypeError(m) THEN [left |-> m.b[1], right |-> m.b[2]]
    ELSE [left |-> None, right |-> None]

\* SQL: right_type = $fixed unless NULL, left_type <> $failed.  A NULL
\* $failed makes every row's comparison NULL: no row, no filter.
GetCompatibleTypesForOperator(info, side) ==
    LET other  == IF side = "left" THEN "right" ELSE "left"
        rows   == {o[side] : o \in {o \in VecOps : /\ info[other] = None \/ o[other] = info[other]
                                                /\ info[side] # None /\ o[side] # info[side]}}
    IN  IF "type_based" \notin Enabled \/ rows = {} THEN None ELSE rows

\* The callers pass the message "": the type filter is asked with no types.
FindCompatibleColumnsForOperator(tbl, c, side) ==
    LET types == GetCompatibleTypesForOperator(ExtractOperatorInfoFromError(None), side)
        named == {f \in Fields : f.col # c /\ (types = None \/ ColType(f.table, f.col) \in types)}
        pool  == IF tbl # None /\ \E f \in Fields : f.table = tbl
                 THEN {f \in named : f.table = tbl} ELSE named
    IN  {[col |-> f.col, table |-> f.table, dist |-> ColDist(c, f.col)] :
            f \in TopBy(pool, LAMBDA f : ColDist(c, f.col))}

\* The first FROM entry of the table gives its reference name.
FindTableReferenceName(t, tbl) ==
    LET ms == {i \in DOMAIN t.from : t.from[i].rel = tbl}
    IN  IF ms = {} THEN tbl ELSE RefName(t.from[Min(ms)])

\* A two-field ref matches a qualified operand, a one-field ref an
\* unqualified one.
OperandMatches(r, op) == r.qual = op.qual /\ r.col = op.col

\* Mutant: only the WHERE operands are rewritten, not the target list.
ReplaceColumnInWhereOperands(t, op, nt, nc) ==
    LET F(r) == IF OperandMatches(r, op) THEN [qual |-> IF op.qual = None THEN None ELSE nt, col |-> nc] ELSE r
    IN  [t EXCEPT !.filters = [i \in DOMAIN @ |-> [@[i] EXCEPT !.ref = F(@)]],
                  !.where = [i \in DOMAIN @ |-> [@[i] EXCEPT !.l = F(@), !.r = F(@)]]]

\* all_operand_replace_walker: every matching ColumnRef of the statement.
ReplaceColumnInAllOperands(t, op, nt, nc) ==
    MapRefs(t, LAMBDA r : IF OperandMatches(r, op)
                          THEN [qual |-> IF op.qual = None THEN None ELSE nt, col |-> nc] ELSE r)

GenerateOperandColumnRefinements(t, ops, base) ==
    UNION {LET actual == IF op.qual # None THEN ActualOr(t, op.qual) ELSE None
           IN  {Cand(base, c.dist, "operand",
                     ReplaceColumnInAllOperands(t, op, FindTableReferenceName(t, c.table), c.col)) :
                   c \in FindCompatibleColumnsForOperator(actual, op.col, side)} :
           <<op, side>> \in {<<ops.lop, "left">>, <<ops.rop, "right">>} \ {<<None, "left">>, <<None, "right">>}}

ProcessOperandTableRefinements(t, op, base) ==
    (IF "operand_table_for_column" \notin Enabled THEN {}
     ELSE IF op.qual # None THEN GenerateTableRefinementsForColumnError(t, op.qual, base)
     ELSE GenerateTableRefinementsForAllTables(t, base))
    \cup (IF "operand_column_table_reference" \in Enabled /\ op.qual # None
          THEN GenerateColumnTableReferenceRefinements(t, op.qual, op.col, base) ELSE {})

\* With no types: every left type of = cast left, every right type cast right.
GetTypecastRefinementsForOperator(info) ==
    {[side |-> "left", target |-> o.left] :
        o \in {o \in VecOps : (info.right = None \/ o.right = info.right) /\ o.left # info.left}}
    \cup {[side |-> "right", target |-> o.right] :
        o \in {o \in VecOps : (info.left = None \/ o.left = info.left) /\ o.right # info.right}}

\* all_operand_typecast_walker: in every A_Expr whose operand on that side
\* is an uncast ColumnRef matching, wrap it in a TypeCast.
ApplyTypecastToAllOperands(t, op, ty, side) ==
    IF op = None THEN t
    ELSE IF side = "left"
    THEN [t EXCEPT !.filters = [i \in DOMAIN @ |->
                     IF @[i].cast = None /\ OperandMatches(@[i].ref, op) THEN [@[i] EXCEPT !.cast = ty] ELSE @[i]],
                   !.where = [i \in DOMAIN @ |->
                     IF @[i].lc = None /\ OperandMatches(@[i].l, op) THEN [@[i] EXCEPT !.lc = ty] ELSE @[i]]]
    ELSE [t EXCEPT !.where = [i \in DOMAIN @ |->
                     IF @[i].rc = None /\ OperandMatches(@[i].r, op) THEN [@[i] EXCEPT !.rc = ty] ELSE @[i]]]

\* extract_operator_info_from_expr leaves both types None.
GenerateOperandTypecastRefinements(t, ops, base) ==
    {Cand(base, 1000, "typecast",
          ApplyTypecastToAllOperands(t, IF r.side = "left" THEN ops.lop ELSE ops.rop, r.target, r.side)) :
        r \in GetTypecastRefinementsForOperator([left |-> None, right |-> None])}

\* process_operand_refinements_for_expressions over a list of A_Exprs.
ProcessOperandRefinementsForExpressions(t, exprs, base) ==
    UNION {LET ops == exprs[i]
           IN  (IF "operand_column" \in Enabled THEN GenerateOperandColumnRefinements(t, ops, base) ELSE {})
               \cup UNION {ProcessOperandTableRefinements(t, op, base) : op \in {ops.lop, ops.rop} \ {None}}
               \cup (IF "operand_typecast" \in Enabled THEN GenerateOperandTypecastRefinements(t, ops, base) ELSE {}) :
           i \in DOMAIN exprs}

(***************************************************************************)
(* Function refinement (CASE 6 of the UNDEFINED_FUNCTION arm).  A call's  *)
(* arguments are seen as operands: None for the literal, the ColumnRef    *)
(* of the second argument unless it is cast.  Argument indexes are        *)
(* 1-based here (ArgumentPosition.index + 1).                              *)
(***************************************************************************)
\* The message parsed again by the same regex; "unknown" with no types
\* when it does not match.
ExtractFunctionInfoFromError(m) ==
    IF m.msg = "function_does_not_exist" THEN m.b ELSE [fn |-> "unknown", types |-> <<>>]

\* The FuncCalls whose location + 1 is the error cursor.
FindFunctionCallsAtPosition(t, pos) == {i \in DOMAIN t.units : t.units[i].loc + 1 = pos}

ExtractArgumentOperandsFromFunctionCall(u) == <<None, ColumnOperand(u.arg, u.acast)>>

CheckFunctionExists(fn) == \E s \in FuncSigs : s.fn = fn

\* Mutant: the argument index is taken 0-based by the array subscript.
GetCompatibleTypesForFunctionOffByOne(fn, k) ==
    LET rows == {s.args[k - 1] : s \in {s \in FuncSigs : s.fn = fn /\ Len(s.args) >= k /\ k > 1}}
    IN  IF "type_based" \notin Enabled \/ rows = {} THEN None ELSE rows

\* The k-th type of every signature of the name with at least k arguments.
GetCompatibleTypesForFunction(fn, k) ==
    LET rows == {s.args[k] : s \in {s \in FuncSigs : s.fn = fn /\ Len(s.args) >= k}}
    IN  IF "type_based" \notin Enabled \/ rows = {} THEN None ELSE rows

\* Fields of another name and a compatible type; with a table that has
\* fields, only its fields; top_k by distance to the old column name.
FindCompatibleArgumentsForFunction(tbl, c, fn, k) ==
    LET types == GetCompatibleTypesForFunction(fn, k)
        named == {f \in Fields : f.col # c /\ (types = None \/ ColType(f.table, f.col) \in types)}
        pool  == IF tbl # None /\ \E f \in Fields : f.table = tbl
                 THEN {f \in named : f.table = tbl} ELSE named
    IN  {[col |-> f.col, table |-> f.table, dist |-> ColDist(c, f.col)] :
            f \in TopBy(pool, LAMBDA f : ColDist(c, f.col))}

\* function_argument_replace_walker: at the call at the cursor, an uncast
\* argument matching the operand becomes create_qualified_column_ref of
\* the reference's first field and the new column; the new table is not
\* used, and a one-field reference's first field is its column name.
ReplaceFunctionArgumentAtPosition(t, pos, op, nc) ==
    [t EXCEPT !.units = [i \in DOMAIN @ |->
        IF @[i].loc + 1 = pos /\ @[i].acast = None /\ OperandMatches(@[i].arg, op)
        THEN [@[i] EXCEPT !.arg = [qual |-> IF op.qual # None THEN op.qual ELSE op.col, col |-> nc]]
        ELSE @[i]]]

GenerateFunctionArgumentColumnRefinements(t, ops, pos, fn, base) ==
    UNION {LET op == ops[k]
               actual == IF op.qual # None THEN ActualOr(t, op.qual) ELSE None
           IN  {Cand(base, c.dist, "argument", ReplaceFunctionArgumentAtPosition(t, pos, op, c.col)) :
                   c \in FindCompatibleArgumentsForFunction(actual, op.col, fn, k)} :
           k \in {k \in DOMAIN ops : ops[k] # None}}

\* Per signature argument, its pg_type typname when it differs from the
\* message's type at that index, which format_type wrote.
GetTypecastRefinementsForFunction(info, cur) ==
    {[k |-> k, target |-> s.args[k]] :
        <<s, k>> \in {<<s, k>> \in {s \in FuncSigs : s.fn = info.fn} \X (1..Len(cur)) :
                         k <= Len(s.args) /\ s.args[k] # cur[k]}}

\* function_typecast_walker: wraps the argument unless it is a TypeCast.
ApplyTypecastToFunctionArgumentAtPosition(t, pos, ty, k) ==
    [t EXCEPT !.units = [i \in DOMAIN @ |->
        CASE @[i].loc + 1 # pos             -> @[i]
          [] k = 1 /\ @[i].ucast = None     -> [@[i] EXCEPT !.ucast = ty]
          [] k = 2 /\ @[i].acast = None     -> [@[i] EXCEPT !.acast = ty]
          [] OTHER                          -> @[i]]]

GenerateFunctionTypecastRefinements(t, info, pos, cur, base) ==
    {Cand(base, 1000, "function_typecast", ApplyTypecastToFunctionArgumentAtPosition(t, pos, r.target, r.k)) :
        r \in GetTypecastRefinementsForFunction(info, cur)}

\* One row per other function name of the arity, top_k by distance.
FindSimilarFunctions(fn, n) ==
    LET names == {s.fn : s \in {s \in FuncSigs : Len(s.args) = n /\ s.fn # fn}}
    IN  {[name |-> g, dist |-> FuncDist(fn, g)] : g \in TopBy(names, LAMBDA g : FuncDist(fn, g))}

\* Mutant: every call of the old name is renamed, wherever it is.
ReplaceFunctionNameEverywhere(t, pos, old, new) ==
    [t EXCEPT !.units = [i \in DOMAIN @ |-> IF @[i].fn = old THEN [@[i] EXCEPT !.fn = new] ELSE @[i]]]

\* function_name_replace_walker: the call at the cursor, if it has the name.
ReplaceFunctionNameAtPosition(t, pos, old, new) ==
    [t EXCEPT !.units = [i \in DOMAIN @ |->
        IF @[i].loc + 1 = pos /\ @[i].fn = old THEN [@[i] EXCEPT !.fn = new] ELSE @[i]]]

GenerateFunctionNameRefinements(t, pos, fn, cur, base) ==
    {Cand(base, f.dist, "function_name", ReplaceFunctionNameAtPosition(t, pos, fn, f.name)) :
        f \in FindSimilarFunctions(fn, Len(cur))}

(***************************************************************************)
(* Value refinement.  Every equality with a ColumnRef on one side and a   *)
(* string constant on the other gets the first row of                      *)
(* find_similar_values_for_literal (ORDER BY distance: any nearest sample) *)
(* for the (table, column) extract_table_column_from_ref names; all of    *)
(* them are replaced in one candidate whose cost sums their distances.    *)
(***************************************************************************)
\* A qualified ref names its RangeVar's table; an unqualified one the first
\* FROM table.
ExtractTableColumnFromRef(t, r) ==
    CASE r.qual # None   -> [table |-> ActualOr(t, r.qual), col |-> r.col]
      [] t.from # <<>>   -> [table |-> t.from[1].rel, col |-> r.col]
      [] OTHER           -> None

FindSimilarValuesForLiteral(tbl, col, lit) ==
    {v \in Samples(tbl, col) : \A o \in Samples(tbl, col) : ValDist(lit, v) <= ValDist(lit, o)}

ValueChoices(t, i) ==
    LET tc == ExtractTableColumnFromRef(t, t.filters[i].ref)
    IN  IF tc = None \/ t.filters[i].cast # None THEN {}
        ELSE FindSimilarValuesForLiteral(tc.table, tc.col, t.filters[i].lit)

\* Mutant: the walker rewrites the first equality with a constant, not the target.
ReplaceLiteralInFirstExpression(fs, i, v) == [fs EXCEPT ![1].lit = v]

\* value_replace_walker: the target expression's constant becomes v.
ReplaceLiteralValueInExpression(fs, i, v) == [fs EXCEPT ![i].lit = v]

RECURSIVE ApplyValueRefinements(_, _, _)
ApplyValueRefinements(fs, f, S) ==
    IF S = {} THEN fs
    ELSE ApplyValueRefinements(ReplaceLiteralValueInExpression(fs, Min(S), f[Min(S)]), f, S \ {Min(S)})

GenerateValueRefinements(t, base) ==
    LET ok == {i \in DOMAIN t.filters : ValueChoices(t, i) # {}}
    IN  IF ok = {} THEN {}
        ELSE {Cand(base, SumFunction([i \in ok |-> ValDist(t.filters[i].lit, f[i])]), "value",
                  [t EXCEPT !.filters = ApplyValueRefinements(t.filters, f, ok)]) :
                f \in {f \in [ok -> Lits] : \A i \in ok : f[i] \in ValueChoices(t, i)}}

(***************************************************************************)
(* Format-string refinement (CASE 11).  A unit literal is a sequence of   *)
(* tokens: single characters, or a whole lower-case word standing for its *)
(* letters (the date_part fields the edit writes).  No word of the model  *)
(* is a proper infix of another error unit, so infix on tokens is infix   *)
(* on characters.  Filter literals are model values that hold no '%' and  *)
(* no field name: they never match an error unit, and in walk order they   *)
(* come after the target list's unit literals.                             *)
(***************************************************************************)
Blanks == {" "}
Quotes == {"'", "\""}
UpperToLower == [Y |-> "y", M |-> "m", H |-> "h", S |-> "s", U |-> "u", W |-> "w", Z |-> "z"]

\* str::trim_matches: the longest infix that neither starts nor ends in C.
TrimMatches(s, C) ==
    LET keep == {i \in DOMAIN s : s[i] \notin C}
    IN  IF keep = {} THEN <<>> ELSE SubSeq(s, Min(keep), Max(keep))

\* literal.trim().trim_matches(|c| c == '\'' || c == '"')
Trim(s) == TrimMatches(TrimMatches(s, Blanks), Quotes)

ToLowercase(s) == [i \in DOMAIN s |-> IF s[i] \in DOMAIN UpperToLower THEN UpperToLower[s[i]] ELSE s[i]]

HasInfix(s, sub) == \E i \in 0..(Len(s) - Len(sub)) : SubSeq(s, i + 1, i + Len(sub)) = sub

\* The first regex: unit "X" not recognized; "[^"]+" needs a non-empty X.
ExtractFormatFromError(m) == IF m.msg = "unit_not_recognized" /\ m.a # <<>> THEN m.a ELSE None

FormatMap ==
    <<<<<<"%", "Y">>, "year">>, <<<<"%", "y">>, "year">>, <<<<"%", "m">>, "month">>,
      <<<<"%", "d">>, "day">>, <<<<"%", "H">>, "hour">>, <<<<"%", "M">>, "minute">>,
      <<<<"%", "S">>, "second">>, <<<<"%", "w">>, "dow">>, <<<<"%", "j">>, "doy">>,
      <<<<"%", "U">>, "week">>, <<<<"%", "W">>, "week">>, <<<<"%", "c">>, "epoch">>,
      <<<<"%", "s">>, "epoch">>, <<<<"%", "z">>, "timezone">>, <<<<"%", "Z">>, "timezone_abbrev">>>>

StrftimeToDatepart(s) ==
    LET hits == {i \in DOMAIN FormatMap : Trim(s) = FormatMap[i][1]}
    IN  IF hits = {} THEN None ELSE <<FormatMap[Min(hits)][2]>>

\* find_all_string_literals: the string constants of the tree, in walk order.
FindAllStringLiterals(t) == [i \in DOMAIN t.units |-> t.units[i].unit]

(***************************************************************************)
(* literal_replace_by_value_walker rewrites a literal whose trimmed value  *)
(* equals the trimmed old value and returns false, which                   *)
(* raw_expression_tree_walker takes as "go on": every such literal of the  *)
(* statement is rewritten, not only the first (the comment at the return   *)
(* and spec 3.3 say the first).                                            *)
(***************************************************************************)
ReplaceLiteralByValue(t, old, new) ==
    [t EXCEPT !.units = [i \in DOMAIN @ |->
        IF Trim(@[i].unit) = Trim(old) THEN [@[i] EXCEPT !.unit = new] ELSE @[i]]]

\* Every matching literal with a date_part field gives a candidate at cost 0.
GenerateArgumentFormatRefinements(t, msg, base) ==
    LET bad == ExtractFormatFromError(msg)
        lits == FindAllStringLiterals(t)
        matching == {l \in Range(lits) : /\ HasInfix(ToLowercase(Trim(l)), bad) \/ Trim(l) = bad
                                         /\ StrftimeToDatepart(l) # None}
    IN  IF bad = None THEN {}
        ELSE {[prio |-> base, tree |-> ReplaceLiteralByValue(t, Trim(l), StrftimeToDatepart(l)),
               dist |-> 0, fam |-> "format"] : l \in matching}

(***************************************************************************)
(* The executor on a tree that analyzes: every call has a signature, so   *)
(* it is date_part(text, timestamp) or date_trunc(text, timestamp).  Each *)
(* lower-cases its unit and evaluates per row, target entries left to     *)
(* right: the first unit it does not take fails the statement, with       *)
(* ERRCODE_FEATURE_NOT_SUPPORTED for a units word the function does not   *)
(* support for timestamp and ERRCODE_INVALID_PARAMETER_VALUE for any      *)
(* other (timestamp_part, timestamp_trunc).                                *)
(***************************************************************************)
TimestampUnits == {"year", "month", "day", "hour", "minute", "second", "dow", "doy", "week", "epoch"}
TruncUnits == {"year", "month", "day", "hour", "minute", "second", "week"}

TakenUnits(fn) == IF fn = "date_trunc" THEN TruncUnits ELSE TimestampUnits

UnsupportedUnits(fn) == IF fn = "date_trunc" THEN {"dow", "doy", "timezone"} ELSE {"timezone"}

UnitIn(l, W) == \E w \in W : ToLowercase(l) = <<w>>

ExecuteError(t) ==
    LET bad == {i \in DOMAIN t.units : ~UnitIn(t.units[i].unit, TakenUnits(t.units[i].fn))}
        u   == t.units[Min(bad)]
    IN  CASE bad = {}                              -> Ok
          [] UnitIn(u.unit, UnsupportedUnits(u.fn)) -> Msg("FEATURE_NOT_SUPPORTED", "unit_not_supported",
                                                          ToLowercase(u.unit), None)
          [] OTHER                                 -> Msg("INVALID_PARAMETER_VALUE", "unit_not_recognized",
                                                          ToLowercase(u.unit), None)

-----------------------------------------------------------------------------
(***************************************************************************)
(* The search loop around one popped candidate.  push_candidate admits a  *)
(* child only within the hop bound and only if its tree was never pushed *)
(* before (visited): the submitted statement and the parent certainly     *)
(* were.  A child is popped later, which is the next step of this path.   *)
(***************************************************************************)
\* Mutant: the hop check admits one hop too many.
HopAdmitsOffByOne(h) == h <= MaxHop + 1

HopAdmits(h) == h <= MaxHop

NoEdit == [fam |-> "none", dist |-> 0, base |-> 0, parent |-> None, err |-> Ok]

Init ==
    /\ tree \in InitTrees
    /\ orig = tree
    /\ prio = 0
    /\ hop = 0
    /\ last = NoEdit

Err == Analyze(tree)

Pop(cands) ==
    /\ HopAdmits(hop + 1)
    /\ \E c \in cands :
          /\ c.tree \notin {tree, orig}
          /\ tree' = c.tree
          /\ prio' = c.prio
          /\ hop'  = hop + 1
          /\ last' = [fam |-> c.fam, dist |-> c.dist, base |-> prio, parent |-> tree, err |-> Err]
    /\ UNCHANGED orig

\* ERRCODE_UNDEFINED_TABLE: CASE 1.
TableRefinement ==
    /\ Err.code = "UNDEFINED_TABLE" /\ "table" \in Enabled
    /\ ExtractMissingRelation(Err) # None
    /\ Pop(GenerateTableRefinements(tree, ExtractMissingRelation(Err), prio))

\* ERRCODE_UNDEFINED_COLUMN: CASE 2 to 5, each behind its own flag.
MissingColumn == ExtractMissingColumn(Err)

ColumnRefinement ==
    /\ Err.code = "UNDEFINED_COLUMN" /\ MissingColumn # None /\ "column" \in Enabled
    /\ Pop(GenerateColumnRefinements(tree, MissingColumn.table, MissingColumn.col, prio))

TableForColumnRefinement ==
    /\ Err.code = "UNDEFINED_COLUMN" /\ MissingColumn # None /\ "table_for_column" \in Enabled
    /\ Pop(IF MissingColumn.table # None
           THEN GenerateTableRefinementsForColumnError(tree, MissingColumn.table, prio)
           ELSE GenerateTableRefinementsForAllTables(tree, prio))

ColumnTableReferenceRefinement ==
    /\ Err.code = "UNDEFINED_COLUMN" /\ MissingColumn # None /\ "column_table_reference" \in Enabled
    /\ MissingColumn.table # None
    /\ Pop(GenerateColumnTableReferenceRefinements(tree, MissingColumn.table, MissingColumn.col, prio))

JoinRefinement ==
    /\ Err.code = "UNDEFINED_COLUMN" /\ MissingColumn # None /\ "join" \in Enabled
    /\ Pop(GenerateJoinRefinements(tree, MissingColumn.col, prio))

\* ERRCODE_AMBIGUOUS_COLUMN: CASE 7.
AmbiguityRefinement ==
    /\ Err.code = "AMBIGUOUS_COLUMN" /\ "ambiguity" \in Enabled
    /\ ExtractAmbiguousColumn(Err) # None
    /\ Pop(GenerateColumnAmbiguityRefinements(tree, ExtractAmbiguousColumn(Err), prio))

\* ERRCODE_UNDEFINED_FUNCTION whose message extract_missing_function does
\* not parse: CASE 6-4, operator type errors that carry a cursor.
OperandRefinement ==
    /\ Err.code = "UNDEFINED_FUNCTION" /\ ExtractMissingFunction(Err) = None
    /\ IsOperatorTypeError(Err) /\ Err.a # None
    /\ Pop(ProcessOperandRefinementsForExpressions(tree, FindExpressionsAtPosition(tree, Err.a), prio))

\* ERRCODE_UNDEFINED_FUNCTION with a function message and a cursor: per
\* call at the cursor, argument columns and argument casts when the name
\* exists, and names of the same arity.
FunctionRefinement ==
    /\ Err.code = "UNDEFINED_FUNCTION" /\ ExtractMissingFunction(Err) # None /\ Err.a # None
    /\ LET mf   == ExtractMissingFunction(Err)
           info == ExtractFunctionInfoFromError(Err)
       IN  Pop(UNION {(IF CheckFunctionExists(mf.fn)
                       THEN (IF "argument_column" \in Enabled
                             THEN GenerateFunctionArgumentColumnRefinements(tree,
                                      ExtractArgumentOperandsFromFunctionCall(tree.units[i]), Err.a, mf.fn, prio)
                             ELSE {})
                            \cup (IF "argument_typecast" \in Enabled
                                  THEN GenerateFunctionTypecastRefinements(tree, info, Err.a, mf.types, prio)
                                  ELSE {})
                       ELSE {})
                      \cup (IF "function_name" \in Enabled
                            THEN GenerateFunctionNameRefinements(tree, Err.a, mf.fn, mf.types, prio) ELSE {}) :
                      i \in FindFunctionCallsAtPosition(tree, Err.a)})

\* The tree analyzes and the executor returns no row: the value, table,
\* operand and join parts of the empty-result branch.
EmptyResultValueRefinement ==
    /\ Err = Ok /\ "value" \in Enabled
    /\ Pop(GenerateValueRefinements(tree, prio))

EmptyResultTableRefinement ==
    /\ Err = Ok /\ "table" \in Enabled
    /\ Pop(GenerateTableRefinementsForAllFromTables(tree, prio))

EmptyResultOperandRefinement ==
    /\ Err = Ok
    /\ Pop(ProcessOperandRefinementsForExpressions(tree, FindAllWhereExpressions(tree), prio))

EmptyResultJoinRefinement ==
    /\ Err = Ok /\ "join" \in Enabled /\ tree.from # <<>>
    /\ Pop(GenerateOneHopJoinRefinementsForAllTables(tree, prio))

\* The tree analyzes, a row reaches the target list and date_part rejects a
\* unit as unknown: ExecutionOutcome::ArgumentFormatError, behind
\* ENABLE_FUNCTION_NAME_REFINEMENT.
ArgumentFormatRefinement ==
    /\ Err = Ok /\ ExecuteError(tree).code = "INVALID_PARAMETER_VALUE"
    /\ "function_name" \in Enabled
    /\ Pop(GenerateArgumentFormatRefinements(tree, ExecuteError(tree), prio))

Next ==
    \/ TableRefinement
    \/ ColumnRefinement
    \/ TableForColumnRefinement
    \/ ColumnTableReferenceRefinement
    \/ JoinRefinement
    \/ AmbiguityRefinement
    \/ OperandRefinement
    \/ FunctionRefinement
    \/ EmptyResultValueRefinement
    \/ EmptyResultTableRefinement
    \/ EmptyResultOperandRefinement
    \/ EmptyResultJoinRefinement
    \/ ArgumentFormatRefinement

Spec == Init /\ [][Next]_vars

-----------------------------------------------------------------------------
(* Properties *)

TypeOK ==
    /\ tree \in Tree /\ orig \in Tree
    /\ hop \in 0..MaxHop
    /\ prio \in Nat

Resolves(t, q) == \E e \in Range(t.from) : RefName(e) = q

AllQualifiersResolve(t) == \A r \in Range(AllRefs(t)) : r.qual # None => Resolves(t, r.qual)

(***************************************************************************)
(* Spec 8, alias preservation: along any path of edits, every FROM entry  *)
(* of the submitted statement is still there with its alias byte for     *)
(* byte (replace_table_intelligently keeps the alias; edits only append). *)
(***************************************************************************)
AliasesPreserved ==
    /\ Len(tree.from) >= Len(orig.from)
    /\ \A i \in DOMAIN orig.from : tree.from[i].alias = orig.from[i].alias

(***************************************************************************)
(* No edit leaves a dangling qualifier: when every qualified ColumnRef of  *)
(* the popped tree names a FROM entry, so does every one of its child's   *)
(* (the qualifier rewrites of replace_table_intelligently, the retarget   *)
(* of CASE 4, the join condition's alias adjustment, the ambiguity        *)
(* qualifier).                                                             *)
(***************************************************************************)
QualifiersStayResolved ==
    [][AllQualifiersResolve(tree) => AllQualifiersResolve(tree')]_vars

(***************************************************************************)
(* Spec 4.1: a join edit's condition pairs a foreign key with the key it  *)
(* references, or a non-key column with the same name in the other table, *)
(* and each side names the table it belongs to.                            *)
(***************************************************************************)
TableOf(t, q) == LET hits == {e \in Range(t.from) : RefName(e) = q}
                 IN  IF hits = {} THEN None ELSE (CHOOSE e \in hits : TRUE).rel

KeyPair(tl, cl, tr, cr) ==
    \/ \E k \in FKs : \/ <<k.src, k.scol, k.dst, k.dcol>> = <<tl, cl, tr, cr>>
                      \/ <<k.dst, k.dcol, k.src, k.scol>> = <<tl, cl, tr, cr>>
    \/ /\ cl = cr /\ tl # None /\ tr # None
       /\ cl \in Columns(tl) \cap Columns(tr)
       /\ cl \notin PKCols(tl) \cup PKCols(tr)

JoinConditionFollowsKeys ==
    last.fam = "join" /\ tree.where # <<>> /\ Len(tree.where) > Len(last.parent.where) =>
        LET w == tree.where[Len(tree.where)]
        IN  KeyPair(TableOf(tree, w.l.qual), w.l.col, TableOf(tree, w.r.qual), w.r.col)

\* The table whose column a ColumnRef denotes, as the analyzer resolves it.
OwnerTable(t, r) ==
    IF r.qual # None THEN TableOf(t, r.qual)
    ELSE LET os == {e \in Range(t.from) : r.col \in Columns(e.rel)}
         IN  IF os = {} THEN None ELSE (CHOOSE e \in os : TRUE).rel

Stale(t, i) ==
    LET o == OwnerTable(t, t.filters[i].ref)
    IN  t.filters[i].cast = None /\ o # None /\ Samples(o, t.filters[i].ref.col) # {}
        /\ t.filters[i].lit \notin Samples(o, t.filters[i].ref.col)

(***************************************************************************)
(* Spec 4.4.a, value refinement: a value edit gives every literal it      *)
(* changes a sample value of the column that literal is compared with,    *)
(* each equality its own (value_replace_walker rewrites the target node). *)
(***************************************************************************)
ValueEditUsesSamples ==
    last.fam = "value" =>
        \A i \in DOMAIN tree.filters :
            tree.filters[i].lit # last.parent.filters[i].lit =>
                tree.filters[i].lit \in Samples(OwnerTable(tree, tree.filters[i].ref),
                                                tree.filters[i].ref.col)

(***************************************************************************)
(* Spec 4.4.a: when a statement that analyzes compares a column with a    *)
(* literal that is not one of the column's samples while the column has   *)
(* samples, the empty-result branch proposes a value edit.                *)
(***************************************************************************)
ValueRepairOffered ==
    (Err = Ok /\ "value" \in Enabled /\ \E i \in DOMAIN tree.filters : Stale(tree, i)) =>
        GenerateValueRefinements(tree, prio) # {}

(***************************************************************************)
(* Spec 4.4 mapping: a format edit rewrites the unit literals that carry  *)
(* one strftime code, the one the lower-cased error unit names, every one *)
(* of them and nothing else, into the date_part field the spec's fixed    *)
(* mapping gives for that code (%M is minute, %m month: the lookup is by  *)
(* case, while the error unit is lower-cased).                             *)
(***************************************************************************)
SpecDatepart == [Y |-> "year", y |-> "year", m |-> "month", d |-> "day", H |-> "hour",
                 M |-> "minute", S |-> "second", w |-> "dow", j |-> "doy", U |-> "week",
                 W |-> "week", c |-> "epoch", s |-> "epoch", z |-> "timezone",
                 Z |-> "timezone_abbrev"]

OperandEditReplacesEveryMatch ==
    last.fam = "operand" =>
        LET old == AllRefs(last.parent)
        IN  /\ tree.from = last.parent.from
            /\ \E o \in Range(old), n \in Ref :
                  /\ n # o /\ (n.qual = None) = (o.qual = None)
                  /\ AllRefs(tree) = [i \in DOMAIN old |-> IF old[i] = o THEN n ELSE old[i]]

(***************************************************************************)
(* Spec 4.3, operator type mismatch: with type-based pruning on, the      *)
(* column replacements for a side are restricted to types compatible     *)
(* with the other side.  So an operand column edit answering an operator  *)
(* error leaves the equality at the error cursor with an operator for its *)
(* types, whenever both its operands still analyze.                        *)
(***************************************************************************)
OperandEditResolvesOperator ==
    (last.fam = "operand" /\ "type_based" \in Enabled
     /\ IsOperatorTypeError(last.err) /\ last.err.a # None) =>
        \A i \in DOMAIN tree.where :
            (/\ tree.where[i].loc # None /\ tree.where[i].loc + 1 = last.err.a
             /\ RefError(tree, tree.where[i].l) = Ok /\ RefError(tree, tree.where[i].r) = Ok)
                => OpError(tree, i) = Ok

(***************************************************************************)
(* Spec 3.2 and 4.3, function refinement: an argument, cast or rename    *)
(* edit answering "function ... does not exist" rewrites only the call    *)
(* whose location + 1 is the error cursor, in place; every other call and *)
(* the rest of the statement stay as they were (the three walkers of      *)
(* refine.rs match FuncCall.location against the cursor).                 *)
(***************************************************************************)
FunctionEditConfinedToCall ==
    last.fam \in {"argument", "function_typecast", "function_name"} =>
        \E i \in FindFunctionCallsAtPosition(last.parent, last.err.a) :
            /\ Len(tree.units) = Len(last.parent.units)
            /\ tree = [last.parent EXCEPT !.units[i] = tree.units[i]]
            /\ tree.units[i].loc = last.parent.units[i].loc

(***************************************************************************)
(* Spec 4.3, unknown function: with type-based pruning on, the argument   *)
(* column replacements are restricted to the types the function takes at *)
(* that index.  So after an argument edit the call at the error cursor    *)
(* resolves to a signature whenever its argument still analyzes           *)
(* (get_compatible_types_for_function is asked with the name and index   *)
(* of the message, unlike the operator case).                             *)
(***************************************************************************)
ArgumentEditResolvesCall ==
    (last.fam = "argument" /\ "type_based" \in Enabled) =>
        \A i \in FindFunctionCallsAtPosition(tree, last.err.a) :
            (RefError(tree, tree.units[i].arg) = Ok /\ CastError(tree, i) = Ok)
                => FuncError(tree, i) = Ok

====
