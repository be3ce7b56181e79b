--------------------------- MODULE MCSoftQLBinder ---------------------------
(***************************************************************************)
(* A catalog of two tables (customers, orders) on the search path and an  *)
(* orders table of another schema; the operators =, > and prefix - under  *)
(* their pg_operator names; the functions calcSum and starts_with.  The    *)
(* crate's tests call equals and greater, names no hard-mode lookup finds. *)
(* Queries start at customers and                                          *)
(* chain up to two operations drawn from the SoftQL crate's own tests:    *)
(* joins with and without a predicate, .where() with a call, AND and NOT, *)
(* project, aggregate, group, having, order and limit.                     *)
(***************************************************************************)
EXTENDS SoftQLBinder

MCSearchPath == {"public"}

MCRelations == {[schema |-> "public",  table |-> "customers"],
                [schema |-> "public",  table |-> "orders"],
                [schema |-> "archive", table |-> "orders"]}

MCFieldsOf(r) == IF r.table = "customers" THEN {"id", "amount", "name"} ELSE {"id", "cid", "cname"}

MCOperators == {[name |-> "=", kind |-> "b"], [name |-> ">", kind |-> "b"],
                [name |-> "-", kind |-> "l"]}

MCFunctions == {[schema |-> "public", name |-> "calcSum"],
                [schema |-> "pg_catalog", name |-> "starts_with"]}

(* A search key is nearest to the catalog name it spells.                   *)
MCDist(k, n) == IF k = n THEN 0 ELSE 1

MCNumKind(n) == IF n = "-123.45" THEN "f64" ELSE "i32"

Fld(r, f) == [t |-> "field", rel |-> r, fld |-> f]
Call(n, as) == [t |-> "call", name |-> n, args |-> as]

JoinPred == Call("starts_with", <<Fld("orders", "cname"), Fld("customers", "name")>>)
WherePred == Call("starts_with", <<Fld("customers", "name"), [t |-> "str", v |-> "A"]>>)

MCOps ==
    {[kind |-> "join", table |-> "orders", pred |-> JoinPred],
     [kind |-> "join", table |-> "orders", pred |-> None],
     [kind |-> "join", table |-> "order", pred |-> None],
     [kind |-> "filter", pred |-> WherePred],
     [kind |-> "filter", pred |-> [t |-> "and", l |-> WherePred,
                                   r |-> [t |-> "not", p |-> [t |-> "bool", v |-> FALSE]]]],
     [kind |-> "filter", pred |-> Call("greater", <<Fld("customers", "amount"), [t |-> "num", v |-> "100"]>>)],
     [kind |-> "filter", pred |-> Call("starts_with", <<Fld("customers", "total"), [t |-> "num", v |-> "-123.45"]>>)],
     [kind |-> "project", exprs |-> <<Fld("customers", "amount"), [t |-> "str", v |-> "F"], [t |-> "null"]>>],
     [kind |-> "aggregate", exprs |-> <<Call("calcSum", <<Fld("customers", "amount")>>)>>],
     [kind |-> "aggregate", exprs |-> <<Call("calcTotal", <<Fld("customers", "amount")>>)>>],
     [kind |-> "group", expr |-> Fld("customers", "id")],
     [kind |-> "having", pred |-> Call("negative", <<Fld("customers", "amount")>>)],
     [kind |-> "order", exprs |-> <<Fld("customers", "id"), [t |-> "bool", v |-> TRUE]>>],
     [kind |-> "limit", n |-> "10"]}

MCQueries ==
    {[initial |-> i, ops |-> o] :
        i \in {"customers", "customer"},
        o \in {<<>>} \cup {<<a>> : a \in MCOps} \cup {<<a, b>> : a, b \in MCOps}}

(* The queries whose first operation is a join: the shape of the crate's   *)
(* test_join_where_aggregate, customers.join(yearmonth, ...).where(...).  *)
MCJoinQueries == {q \in MCQueries : Len(q.ops) = 2 /\ q.ops[1].kind = "join"}

====
