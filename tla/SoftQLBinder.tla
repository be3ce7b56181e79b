---------------------------- MODULE SoftQLBinder ----------------------------
(***************************************************************************)
(* The SoftQL binder (src/softql/softql_binder.rs) and the resolver it     *)
(* calls (src/softql/softql_resolver.rs).  bind_softql turns a parsed      *)
(* SoftQL query -- an initial table and a chain of operations -- into a   *)
(* raw SELECT statement, one operation per loop iteration, and stops at   *)
(* the first error a `?` propagates.  Each iteration is an action here.   *)
(*                                                                         *)
(* A DSL expression is a record: [t |-> "field", rel, fld], "str", "num", *)
(* "bool" and "null" literals, and [t |-> "call", name, args].  A          *)
(* predicate is "and"/"or" [l, r], "not" [p], a "call" or a "bool".  The   *)
(* nodes built are records too: "colref", "const", "aexpr", "func",       *)
(* "bool", "restarget" and "sortby".                                       *)
(*                                                                         *)
(* Every resolver lookup is an SPI query ending in LIMIT 1.  Where the     *)
(* query has no ORDER BY (hard mode) any matching row may come back, so a  *)
(* lookup is the set of rows it may return; {} is the code's None.         *)
(***************************************************************************)
EXTENDS Naturals, Sequences, FiniteSets

CONSTANTS
    Queries,        \* the parsed queries bound, [initial, ops]
    BindMode,       \* vectors.bind_mode: "soft" or "hard"
    SearchPath,     \* current_schemas(false)
    Relations,      \* rows of pg_vector_tables, [schema, table]
    FieldsOf(_),    \* fieldnames of pg_vector_fields for a relation
    Operators,      \* rows of pg_vector_operators, [name, kind]: name is oprname
    Functions,      \* rows of pg_vector_functions, [schema, name]
    Dist(_, _),     \* embedding <=> between a search key and a catalog name
    NumKind(_),     \* what Rust's parse accepts a number token as: "i32", "f64"
    None

ASSUME BindMode \in {"soft", "hard"}

VARIABLES
    query,     \* the SoftQLQuery being bound
    pc,        \* "from", "ops" (inside the operation loop) or "done"
    ops,       \* the operations not yet bound
    stmt,      \* the SelectStmt built so far
    outcome,   \* "running", "ok", or the error that ended the bind
    preds      \* history: every join and filter predicate node built

vars == <<query, pc, ops, stmt, outcome, preds>>

Ok(n) == [ok |-> TRUE, node |-> n]
Err(e) == [ok |-> FALSE, err |-> e]

-----------------------------------------------------------------------------
(* The resolver.  Soft mode takes the nearest row (ties: any of them),    *)
(* hard mode a row whose name equals the search key.                      *)

ResolveRelname(n) ==
    LET vis == {r \in Relations : r.schema \in SearchPath}
    IN  IF BindMode = "hard" THEN {r \in vis : r.table = n}
        ELSE {r \in vis : \A o \in vis : Dist(n, r.table) <= Dist(n, o.table)}

ResolveRangevar(n) ==
    {[schemaname |-> r.schema, relname |-> r.table, alias |-> None] : r \in ResolveRelname(n)}

ResolveFieldname(r, f) ==
    IF BindMode = "hard" THEN {x \in FieldsOf(r) : x = f}
    ELSE {x \in FieldsOf(r) : \A y \in FieldsOf(r) : Dist(f, x) <= Dist(f, y)}

(* The soft query orders by pg_vector_operators.embedding, a column       *)
(* load_vector_operators never creates: the SPI query raises an ERROR,    *)
(* which pgrx turns into a panic that aborts the statement.                *)
ResolveCallFails == BindMode = "soft"

(* Hard mode: an operator or function row whose name is the raw name.  An *)
(* operator's symbol is the matched operator_name itself.                 *)
ResolveCall(n) ==
    {[kind |-> "operator", name |-> o.name, symbol |-> o.name, oprkind |-> o.kind,
      schema |-> None] : o \in {x \in Operators : x.name = n}}
    \cup {[kind |-> "function", name |-> f.name, symbol |-> None, oprkind |-> None,
           schema |-> f.schema] : f \in {x \in Functions : x.name = n}}

(* resolve_sval / resolve_ival / resolve_fval / resolve_boolval: the value *)
(* cast through SPI comes back unchanged.                                  *)
AConst(kind, v) == [t |-> "const", isnull |-> FALSE, kind |-> kind, val |-> v]

-----------------------------------------------------------------------------
(* The node builders.  Each returns the set of results the lookups allow. *)

InferAlias(e) ==
    CASE e.t \in {"str", "num"} -> e.v
      [] e.t = "field"          -> e.fld
      [] e.t = "bool"           -> IF e.v THEN "true" ELSE "false"
      [] e.t = "null"           -> "null"
      [] e.t = "call"           -> e.name

CallNode(c, args) ==
    CASE c.kind = "function" ->
             Ok([t |-> "func", name |-> <<c.schema, c.name>>, args |-> args])
      [] c.oprkind = "b" /\ Len(args) = 2 ->
             Ok([t |-> "aexpr", op |-> c.symbol, l |-> args[1], r |-> args[2]])
      [] c.oprkind = "l" /\ Len(args) = 1 ->
             Ok([t |-> "aexpr", op |-> c.symbol, l |-> None, r |-> args[1]])
      [] OTHER -> Err("panic")     \* unreachable!("operator ... supports arity")

BoolExpr(op, args) == [t |-> "bool", op |-> op, args |-> args]

RECURSIVE BuildOperand(_), BuildExprNode(_), BuildFuncCallNode(_),
          BuildPredicateNode(_), BuildResTarget(_), BuildSortBy(_), BuildList(_, _)

(* The match every caller makes: a call goes to build_func_call_node,    *)
(* anything else to build_expr_node.                                       *)
BuildOperand(e) == IF e.t = "call" THEN BuildFuncCallNode(e) ELSE BuildExprNode(e)

BuildExprNode(e) ==
    CASE e.t = "field" ->
            IF ResolveRelname(e.rel) = {} THEN {Err("unknown_relation")}
            ELSE UNION {IF ResolveFieldname(r, e.fld) = {} THEN {Err("unknown_field")}
                        ELSE {Ok([t |-> "colref", fields |-> <<r.schema, r.table, f>>])
                                : f \in ResolveFieldname(r, e.fld)}
                        : r \in ResolveRelname(e.rel)}
      [] e.t = "str"  -> {Ok(AConst("sval", e.v))}
      [] e.t = "num"  -> CASE NumKind(e.v) = "i32" -> {Ok(AConst("ival", e.v))}
                           [] NumKind(e.v) = "f64" -> {Ok(AConst("fval", e.v))}
                           [] OTHER -> {Err("panic")}
      [] e.t = "bool" -> {Ok(AConst("boolval", e.v))}
      [] e.t = "null" -> {Ok([t |-> "const", isnull |-> TRUE, kind |-> None, val |-> None])}
      [] e.t = "call" -> {Err("panic")}        \* unreachable!

(* Builds each element in order; the first error ends the list.           *)
BuildList(es, how) ==
    IF es = <<>> THEN {[ok |-> TRUE, nodes |-> <<>>]}
    ELSE LET first == CASE how = "operand"   -> BuildOperand(Head(es))
                        [] how = "restarget" -> BuildResTarget(Head(es))
                        [] how = "sortby"    -> BuildSortBy(Head(es))
         IN  UNION {IF ~h.ok THEN {h}
                    ELSE {IF r.ok THEN [ok |-> TRUE, nodes |-> <<h.node>> \o r.nodes] ELSE r
                            : r \in BuildList(Tail(es), how)}
                    : h \in first}

(* Arguments first, then resolve_call.                                     *)
BuildFuncCallNode(f) ==
    UNION {IF ~a.ok THEN {a}
           ELSE IF ResolveCallFails THEN {Err("pg_error")}
           ELSE IF ResolveCall(f.name) = {} THEN {Err("unknown_call")}
           ELSE {CallNode(c, a.nodes) : c \in ResolveCall(f.name)}
           : a \in BuildList(f.args, "operand")}

BuildPredicateNode(p) ==
    CASE p.t \in {"and", "or"} ->
            UNION {IF ~l.ok THEN {l}
                   ELSE {IF r.ok THEN Ok(BoolExpr(p.t, <<l.node, r.node>>)) ELSE r
                           : r \in BuildPredicateNode(p.r)}
                   : l \in BuildPredicateNode(p.l)}
      [] p.t = "not"  -> {IF r.ok THEN Ok(BoolExpr("not", <<r.node>>)) ELSE r
                            : r \in BuildPredicateNode(p.p)}
      [] p.t = "call" -> BuildFuncCallNode(p)
      [] p.t = "bool" -> {Ok(AConst("boolval", p.v))}

BuildResTarget(e) ==
    {IF r.ok THEN Ok([t |-> "restarget", name |-> InferAlias(e), val |-> r.node]) ELSE r
       : r \in BuildOperand(e)}

BuildSortBy(e) ==
    {IF r.ok THEN Ok([t |-> "sortby", node |-> r.node, dir |-> "asc", nulls |-> "last"]) ELSE r
       : r \in BuildOperand(e)}

-----------------------------------------------------------------------------
(* bind_softql.  A SelectStmt starts with empty lists and no clauses.     *)

EmptyStmt == [from |-> <<>>, where |-> None, group |-> <<>>, having |-> None,
              target |-> <<>>, sort |-> <<>>, limit |-> None]

Init ==
    /\ query \in Queries
    /\ pc = "from"
    /\ ops = query.ops
    /\ stmt = EmptyStmt
    /\ outcome = "running"
    /\ preds = {}

(* A `?` returns the error: the bind ends with it.                          *)
Fail(e) ==
    /\ pc' = "done"
    /\ outcome' = e
    /\ UNCHANGED <<query, ops, stmt, preds>>

(* One operation bound: the loop moves to the next.                         *)
Advance(s) ==
    /\ stmt' = s
    /\ ops' = Tail(ops)
    /\ UNCHANGED <<query, pc, outcome>>

Op == Head(ops)

(* The FROM clause starts with the initial table.                           *)
BindInitialTable ==
    /\ pc = "from"
    /\ IF ResolveRangevar(query.initial) = {} THEN Fail("unknown_relation")
       ELSE \E rv \in ResolveRangevar(query.initial) :
               /\ stmt' = [stmt EXCEPT !.from = <<rv>>]
               /\ pc' = "ops"
               /\ UNCHANGED <<query, ops, outcome, preds>>

(* Join: the table is appended to FROM, and its ON predicate is stored as  *)
(* the WHERE clause.                                                        *)
BindJoin ==
    /\ pc = "ops" /\ ops # <<>> /\ Op.kind = "join"
    /\ IF ResolveRangevar(Op.table) = {} THEN Fail("unknown_relation")
       ELSE \E rv \in ResolveRangevar(Op.table) :
               LET s == [stmt EXCEPT !.from = Append(@, rv)]
               IN  IF Op.pred = None THEN Advance(s) /\ UNCHANGED preds
                   ELSE \E r \in BuildPredicateNode(Op.pred) :
                           IF r.ok THEN /\ Advance([s EXCEPT !.where = r.node])
                                        /\ preds' = preds \cup {r.node}
                           ELSE Fail(r.err)

BindFilter ==
    /\ pc = "ops" /\ ops # <<>> /\ Op.kind = "filter"
    /\ \E r \in BuildPredicateNode(Op.pred) :
          IF r.ok THEN /\ Advance([stmt EXCEPT !.where = r.node])
                       /\ preds' = preds \cup {r.node}
          ELSE Fail(r.err)

BindGroup ==
    /\ pc = "ops" /\ ops # <<>> /\ Op.kind = "group"
    /\ \E r \in BuildOperand(Op.expr) :
          IF r.ok THEN Advance([stmt EXCEPT !.group = Append(@, r.node)]) /\ UNCHANGED preds
          ELSE Fail(r.err)

BindHaving ==
    /\ pc = "ops" /\ ops # <<>> /\ Op.kind = "having"
    /\ \E r \in BuildPredicateNode(Op.pred) :
          IF r.ok THEN Advance([stmt EXCEPT !.having = r.node]) /\ UNCHANGED preds
          ELSE Fail(r.err)

(* Aggregate and Project both append ResTargets to the target list.        *)
BindProject ==
    /\ pc = "ops" /\ ops # <<>> /\ Op.kind \in {"aggregate", "project"}
    /\ \E r \in BuildList(Op.exprs, "restarget") :
          IF r.ok THEN Advance([stmt EXCEPT !.target = @ \o r.nodes]) /\ UNCHANGED preds
          ELSE Fail(r.err)

BindOrder ==
    /\ pc = "ops" /\ ops # <<>> /\ Op.kind = "order"
    /\ \E r \in BuildList(Op.exprs, "sortby") :
          IF r.ok THEN Advance([stmt EXCEPT !.sort = @ \o r.nodes]) /\ UNCHANGED preds
          ELSE Fail(r.err)

(* Limit(n) is bound as the number literal n.                               *)
BindLimit ==
    /\ pc = "ops" /\ ops # <<>> /\ Op.kind = "limit"
    /\ \E r \in BuildExprNode([t |-> "num", v |-> Op.n]) :
          IF r.ok THEN Advance([stmt EXCEPT !.limit = r.node]) /\ UNCHANGED preds
          ELSE Fail(r.err)

(* The loop ends: the statement is wrapped in a RawStmt and returned.      *)
Finish ==
    /\ pc = "ops" /\ ops = <<>>
    /\ pc' = "done"
    /\ outcome' = "ok"
    /\ UNCHANGED <<query, ops, stmt, preds>>

Next ==
    \/ BindInitialTable
    \/ BindJoin \/ BindFilter \/ BindGroup \/ BindHaving
    \/ BindProject \/ BindOrder \/ BindLimit
    \/ Finish

Spec == Init /\ [][Next]_vars

-----------------------------------------------------------------------------
(* Properties.                                                              *)

TypeOK ==
    /\ pc \in {"from", "ops", "done"}
    /\ outcome \in {"running", "ok", "unknown_relation", "unknown_field", "unknown_call", "panic"}
    /\ DOMAIN stmt = {"from", "where", "group", "having", "target", "sort", "limit"}
    /\ Len(stmt.from) <= 1 + Len(query.ops)

RECURSIVE Conjuncts(_)
Conjuncts(n) ==
    IF n = None THEN {}
    ELSE IF n.t = "bool" /\ n.op = "and"
         THEN {n} \cup UNION {Conjuncts(n.args[i]) : i \in DOMAIN n.args}
         ELSE {n}

(* The binder handles a join's ON predicate "as WHERE" (softql_binder.rs:  *)
(* 43), and ast.rs calls Filter the DSL's .where().  A statement the      *)
(* binder returns keeps every join and filter predicate it built as a      *)
(* conjunct of its WHERE clause, so a join followed by .where() is still   *)
(* a join.                                                                  *)
JoinPredicateKept ==
    (pc = "done" /\ outcome = "ok") => preds \subseteq Conjuncts(stmt.where)

====
