------------------------- MODULE MCRawRefinement -------------------------
(* A three-table catalog: ta(c1, c2), tb(c1, c2, c3), tc(c1, c2), each   *)
(* keyed on c1, and tb.c3 REFERENCES ta.c1.  tx is a typo of ta, tq an   *)
(* unknown qualifier, cx a typo of c2, al an alias.  Sampled values:     *)
(* tb.c3 holds v1, ta.c2 and tb.c2 hold v2; vx is a literal no column    *)
(* holds.                                                                  *)
EXTENDS RawRefinement

CONSTANTS ta, tb, tc, tx, al, tq, c1, c2, c3, cx, vx, v1, v2

MCCatTables == {ta, tb, tc}
MCIdents == {ta, tb, tc, tx, al, tq, c1, c2, c3, cx}

MCColumns(t) == IF t = tb THEN {c1, c2, c3} ELSE {c1, c2}
MCPKCols(t) == {c1}
MCFKs == {[src |-> tb, scol |-> c3, dst |-> ta, dcol |-> c1]}

\* Catalogs for the join runs: no primary keys, or no foreign keys.
NoPKCols(t) == {}
NoFKs == {}

MCTableDist(n, t) == CASE n = t            -> 0
                       [] n = tx /\ t = ta -> 127
                       [] OTHER            -> 350

MCColDist(n, c) == CASE n = c             -> 0
                     [] n = cx /\ c = c2  -> 115
                     [] c = c2            -> 200
                     [] c = c1            -> 300
                     [] OTHER             -> 400

\* TABLE_REFINEMENT_WEIGHT and the others 1.0, JOIN 2.0, ambiguity 0.
\* TYPECAST 0.1.
MCWeight(f) == CASE f = "join" -> 20 [] f = "ambiguity" -> 0 [] f \in {"typecast", "function_typecast"} -> 1
                  [] OTHER -> 10

MCLits == {vx, v1, v2}

\* tc.c2 is a timestamp, the other c2 text, c1 and c3 int4; = is defined
\* on equal int4 and text operands only.  Every cast but int4 to and from
\* timestamp exists.
MCTypes == {"int4", "text", "timestamp"}
MCColType(t, c) == CASE t = tc /\ c = c2 -> "timestamp" [] c = c2 -> "text" [] OTHER -> "int4"
MCVecOps == {[left |-> y, right |-> y] : y \in {"int4", "text"}}
MCCasts == {[from |-> x, to |-> y] : x, y \in MCTypes} \
           {[from |-> "int4", to |-> "timestamp"], [from |-> "timestamp", to |-> "int4"]}
MCFormatType(y) == CASE y = "int4" -> "integer" [] y = "timestamp" -> "timestamp without time zone"
                     [] OTHER -> y

\* date_part and date_trunc take (text, timestamp); date_prt is a typo.
MCFuncNames == {"date_part", "date_trunc", "date_prt"}
MCFuncSigs == {[fn |-> f, args |-> <<"text", "timestamp">>] : f \in {"date_part", "date_trunc"}}
MCFuncDist(n, f) == CASE n = f -> 0 [] n = "date_prt" /\ f = "date_part" -> 100 [] OTHER -> 300

MCSamples(t, c) == CASE t = tb /\ c = c3           -> {v1}
                     [] t \in {ta, tb} /\ c = c2   -> {v2}
                     [] OTHER                      -> {}

MCValDist(l, v) == CASE l = v  -> 0
                     [] v = v1 -> 200
                     [] OTHER  -> 300

MCEnabled == {"value", "table", "column", "table_for_column", "column_table_reference",
              "join", "ambiguity", "function_name", "operand_column", "operand_table_for_column",
              "operand_column_table_reference", "operand_typecast", "argument_column",
              "argument_typecast", "type_based"}

\* Submitted statements: up to two FROM items and one target ColumnRef;
\* and, over ta and tb, the target c3 with up to two filters col = 'vx'.
FromItems == [rel : {ta, tb, tx}, alias : {None, al}]
FromLists == {<<>>} \cup {<<e>> : e \in FromItems} \cup {<<e, f>> : e, f \in FromItems}
Targets == {<<[qual |-> q, col |-> c]>> : q \in {None, ta, tb, tx, al, tq}, c \in {c1, c2, c3, cx}}
FilterFromLists == {l \in FromLists : \A i \in DOMAIN l : l[i].rel # tx}
Filters == {[ref |-> [qual |-> q, col |-> c], lit |-> vx, cast |-> None] : <<q, c>> \in {<<None, c3>>, <<None, c2>>, <<al, c3>>, <<ta, c2>>}}
FilterLists == {<<f>> : f \in Filters} \cup {<<f, g>> : f, g \in Filters}
\* And over tc, one or two date_part(unit, tc.c2) calls at locations 0
\* and 1: strftime codes in both cases, a blank-padded one and a
\* composite format.
UnitLits == {<<"%", "Y">>, <<"%", "M">>, <<"%", "m">>, <<"%", "Z">>, <<"%", "z">>,
             <<" ", "%", "Y">>, <<"%", "Y", "-", "%", "m">>}
MkCall(f, u, q, c, l) == [fn |-> f, unit |-> u, ucast |-> None, arg |-> [qual |-> q, col |-> c],
                        acast |-> None, loc |-> l]
UnitLists == {<<MkCall("date_part", u, tc, c2, 0)>> : u \in UnitLits}
             \cup {<<MkCall("date_part", u, tc, c2, 0), MkCall("date_part", v, tc, c2, 1)>> : u, v \in UnitLits}
\* And over tc, tc AS al or ta, one call date_part or date_prt('%Y',
\* q.c) with a qualified argument; and date_prt('%Y', tc.c2) twice.
MCTokens == UNION {Range(u) : u \in UnitLits} \cup {FormatMap[i][2] : i \in DOMAIN FormatMap}
\* And over ta, tb or tb AS al, the target c1, and one equality of
\* two columns at location 0.
OpFromLists == {<<[rel |-> ta, alias |-> None]>>, <<[rel |-> tb, alias |-> al]>>,
                <<[rel |-> ta, alias |-> None], [rel |-> tb, alias |-> None]>>}
OpRefs == {[qual |-> q, col |-> c] : q \in {None, ta, al}, c \in {c1, c2, c3}}
Conds == {[l |-> l, r |-> r, lc |-> None, rc |-> None, loc |-> 0] : l, r \in OpRefs}
FnFromLists == {<<[rel |-> tc, alias |-> None]>>, <<[rel |-> tc, alias |-> al]>>, <<[rel |-> ta, alias |-> None]>>}
FnCalls == {<<MkCall(f, <<"%", "Y">>, q, c, 0)>> : f \in {"date_part", "date_prt"}, q \in {tc, al, ta}, c \in {c1, c2}}
MCInitTrees ==
    [from : OpFromLists, target : {<<[qual |-> None, col |-> c1]>>}, units : {<<>>},
     filters : {<<>>}, where : {<<w>> : w \in Conds}]
    \cup
    [from : FromLists, target : Targets, units : {<<>>}, filters : {<<>>}, where : {<<>>}]
    \cup [from : FilterFromLists, target : {<<[qual |-> None, col |-> c3]>>}, units : {<<>>},
          filters : FilterLists, where : {<<>>}]
    \cup [from : {<<[rel |-> tc, alias |-> None]>>}, target : {<<>>}, units : UnitLists,
          filters : {<<>>}, where : {<<>>}]
    \cup [from : FnFromLists, target : {<<>>}, units : FnCalls, filters : {<<>>}, where : {<<>>}]
    \cup [from : {<<[rel |-> tc, alias |-> None]>>}, target : {<<>>},
          units : {<<MkCall("date_prt", <<"%", "Y">>, tc, c2, 0), MkCall("date_prt", <<"%", "Y">>, tc, c2, 1)>>},
          filters : {<<>>}, where : {<<>>}]

\* FROM tc, date_part('%Y', c1): an unqualified argument of the wrong type.
MCArgInitTrees ==
    {[from |-> <<[rel |-> tc, alias |-> None]>>, target |-> <<>>,
      units |-> <<MkCall("date_part", <<"%", "Y">>, None, c1, 0)>>, filters |-> <<>>, where |-> <<>>]}

====
