------------------------ MODULE MCRefinementSearch -------------------------
(***************************************************************************)
(* A small catalog for RefinementSearch.  Five parse trees, 0 the parsed   *)
(* one.  Generator g turns tree t into tree (t + Shift[g]) % 5; its added  *)
(* cost is (distance * 100 * weight) as i32 for a distance and the shipped *)
(* weight of its family: ambiguity (weight 0.0) and format (a fixed 0) add *)
(* nothing, so equal priorities occur and seq breaks the tie.  The table   *)
(* generators return two candidates (top_k = 2), the others one.  Which    *)
(* tree fails how is left open: every analyzer class and executor outcome  *)
(* is possible for every tree.                                             *)
(***************************************************************************)
EXTENDS RefinementSearch

MCTrees == 0..4

Shift == [table |-> 1, table_for_all_from |-> 2, column |-> 1, table_for_column |-> 3,
          table_for_all_tables |-> 2, column_table_reference |-> 4, join |-> 2,
          join_one_hop |-> 3, operand_column |-> 1, operand_table_for_column |-> 2,
          operand_column_table_reference |-> 3, operand_typecast |-> 4,
          argument_column |-> 1, argument_typecast |-> 2, function_name |-> 3,
          ambiguity |-> 1, value |-> 4, format |-> 1]

Cost == [table |-> 10, table_for_all_from |-> 20, column |-> 10, table_for_column |-> 20,
         table_for_all_tables |-> 10, column_table_reference |-> 10, join |-> 20,
         join_one_hop |-> 20, operand_column |-> 10, operand_table_for_column |-> 10,
         operand_column_table_reference |-> 20, operand_typecast |-> 10,
         argument_column |-> 10, argument_typecast |-> 10, function_name |-> 10,
         ambiguity |-> 0, value |-> 10, format |-> 0]

MCEdits(t, g) ==
    IF g \in {"table", "table_for_all_from"}
    THEN << <<Cost[g], (t + Shift[g]) % 5>>, <<Cost[g] + 10, (t + Shift[g] + 1) % 5>> >>
    ELSE << <<Cost[g], (t + Shift[g]) % 5>> >>

\* The shipped defaults: everything on except operand typecasts.
MCEnabledFlags == {"table", "column", "table_for_column", "column_table_reference",
                   "join", "operand_column", "operand_table_for_column",
                   "operand_column_table_reference", "argument_column",
                   "argument_typecast", "function_name", "ambiguity", "value"}

MCAnalyzerErrors == AnalyzerClasses
MCExecOutcomes == ExecClasses
=============================================================================
