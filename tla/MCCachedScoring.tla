-------------------------- MODULE MCCachedScoring --------------------------
(* Two backends, one lookup parameter, top_k in {1, 2}.  Under search path *)
(* s1 the catalog has two matches, under s2 a different one.              *)
EXTENDS CachedScoring

CONSTANTS b1, b2, p1, s1, s2

MCBackends == {b1, b2}
MCParams == {p1}
MCTopKs == {1, 2}

MCMatches(p, s) == IF s = s1 THEN <<"orders", "order_items">> ELSE <<"sales.orders">>

\* A lookup whose key holds top_k, and one whose query does not use it.
MCKinds == {"table_similarity", "tables_with_exact_column"}

\* find_joinable_tables_for_column truncates by top_k but keys without it.
MCJoinKinds == {"joinable_tables"}

====
