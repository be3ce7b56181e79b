-------------------------- MODULE RefinementSearch --------------------------
(***************************************************************************)
(* The best-first refinement search of SafeQL (src/src/safeql/search.rs):  *)
(* analyze_with_refinement -> perform_refinement_search, its priority      *)
(* queue, visited set, hop and budget bounds, the analyzer and executor    *)
(* oracles run inside internal sub-transactions, and the dispatch of each  *)
(* outcome to the refinement generators of src/src/safeql/refine.rs.       *)
(*                                                                         *)
(* Parse trees are abstract values.  What a generator does to a tree is    *)
(* the constant Edits(t, g): the list of (added cost, resulting tree)      *)
(* pairs it returns, in order.  What the analyzer and executor report for  *)
(* a tree is fixed by the catalog but unknown to the model: it is chosen   *)
(* the first time the tree is analyzed and kept in `outcome`.              *)
(***************************************************************************)
EXTENDS Integers, Sequences, SequencesExt, FiniteSets

CONSTANTS
    Trees,          \* parse trees (their node_to_string serialisations)
    Root,           \* the tree parsed from the user's SQL
    Edits(_, _),    \* Edits(t, g): <<additional priority, tree>> list of generator g
    EnabledFlags,   \* the safeql.enable_* flags that are on
    MaxHop,         \* safeql.max_refinement_hop
    MaxNum,         \* safeql.max_refinement_num
    AnalyzerErrors, \* the analyzer failure classes the catalog can produce
    ExecOutcomes,   \* the executor outcomes the catalog can produce
    NoTree          \* no tree returned yet

ASSUME Root \in Trees
ASSUME MaxHop \in Nat \ {0} /\ MaxNum \in Nat \ {0}

Unknown == "unknown"

VARIABLES
    refinementOn,   \* safeql.enable_refinement at the time of the call
    pq,             \* the BinaryHeap of [prio, seq, tree, hop]
    visited,        \* the HashSet of serialised trees
    seq,            \* the insertion counter
    searchCount,    \* search_count
    outcome,        \* outcome[t]: what analyzer/executor report for t
    subxact,        \* depth of open internal sub-transactions
    pc,             \* "search", "final" (re-analysis) or "done"
    ret,            \* the RawStmt returned by perform_refinement_search
    result,         \* "query" or "error": what analyze_with_refinement gives
    lastPrio,       \* history: priority of the last candidate popped
    lastSeq,        \* history: seq of the last candidate popped (-1: none yet)
    analyzeCalls,   \* history: number of analyzer invocations
    analyzed        \* history: analyzed[t] = analyses of t during the search

vars == <<refinementOn, pq, visited, seq, searchCount, outcome, subxact, pc,
          ret, result, lastPrio, lastSeq, analyzeCalls, analyzed>>

Entry == [prio : Int, seq : Nat, tree : Trees, hop : Nat]

(***************************************************************************)
(* Outcome classes.  Analyzer errors are the match arms of the search loop *)
(* after the classifier ran; "unclassified" is every error no arm or regex *)
(* handles.  Executor outcomes are those of try_execute_query; "ereport"   *)
(* and "spi_error" are its two failure paths (a PostgreSQL error caught by *)
(* catch_others, and an Err returned by client.select).                    *)
(***************************************************************************)
AnalyzerClasses == {"undefined_table", "undefined_column_qualified",
                    "undefined_column_unqualified", "undefined_function_known",
                    "undefined_function_unknown", "operator_mismatch",
                    "ambiguous_column", "unclassified"}
ExecClasses == {"rows", "empty", "format_error", "ereport", "spi_error"}

ASSUME AnalyzerErrors \subseteq AnalyzerClasses /\ ExecOutcomes \subseteq ExecClasses

(***************************************************************************)
(* The enable flag that gates each generator.                              *)
(***************************************************************************)
Flag(g) ==
    CASE g \in {"table", "table_for_all_from"}           -> "table"
      [] g = "column"                                      -> "column"
      [] g \in {"table_for_column", "table_for_all_tables"} -> "table_for_column"
      [] g = "column_table_reference"                      -> "column_table_reference"
      [] g \in {"join", "join_one_hop"}                    -> "join"
      [] g = "format"                                      -> "function_name"
      [] OTHER                                             -> g

OperandGenerators == <<"operand_column", "operand_table_for_column",
                       "operand_column_table_reference", "operand_typecast">>

(***************************************************************************)
(* The generators each outcome is routed to, in the order the loop calls   *)
(* them, before the enable flags are applied.                              *)
(***************************************************************************)
Dispatch(o) ==
    CASE o = "undefined_table"              -> <<"table">>
      [] o = "undefined_column_qualified"   ->
            <<"column", "table_for_column", "column_table_reference", "join">>
      [] o = "undefined_column_unqualified" ->
            <<"column", "table_for_all_tables", "join">>
      [] o = "undefined_function_known"     ->
            <<"argument_column", "argument_typecast", "function_name">>
      [] o = "undefined_function_unknown"   -> <<"function_name">>
      [] o = "operator_mismatch"            -> OperandGenerators
      [] o = "ambiguous_column"             -> <<"ambiguity">>
      [] o = "empty"                        ->
            <<"value", "table_for_all_from">> \o OperandGenerators \o <<"join_one_hop">>
      [] o = "format_error"                 -> <<"format">>
      [] OTHER                              -> <<>>

AllGenerators == UNION {ToSet(Dispatch(o)) : o \in AnalyzerClasses \cup ExecClasses}

Generators(o) == SelectSeq(Dispatch(o), LAMBDA g : Flag(g) \in EnabledFlags)

(***************************************************************************)
(* A generator's output: every proposal costs the parent's priority plus   *)
(* (distance * 100 * weight) as i32, the latter being Edits' first field.  *)
(***************************************************************************)
Generate(g, t, base) ==
    [i \in 1..Len(Edits(t, g)) |-> [prio |-> base + Edits(t, g)[i][1],
                                    tree |-> Edits(t, g)[i][2]]]

Proposals(t, o, base) ==
    FlattenSeq([i \in 1..Len(Generators(o)) |-> Generate(Generators(o)[i], t, base)])

(***************************************************************************)
(* push_candidate: drop over-hop candidates, drop already-visited trees,   *)
(* else insert into visited, push with the current seq and bump seq.      *)
(* The queue state is the record [pq, visited, seq].                       *)
(***************************************************************************)
\* Mutant of push_candidate: the visited check dropped.
PushCandidateNoVisited(s, p, hop) ==
    IF hop > MaxHop THEN s
    ELSE [pq |-> s.pq \cup {[prio |-> p.prio, seq |-> s.seq, tree |-> p.tree, hop |-> hop]},
          visited |-> s.visited \cup {p.tree}, seq |-> s.seq + 1]

PushCandidate(s, p, hop) ==
    IF hop > MaxHop \/ p.tree \in s.visited
    THEN s
    ELSE [pq      |-> s.pq \cup {[prio |-> p.prio, seq |-> s.seq,
                                  tree |-> p.tree, hop |-> hop]},
          visited |-> s.visited \cup {p.tree},
          seq     |-> s.seq + 1]

PushAll(s, props, hop) == FoldLeft(LAMBDA acc, p : PushCandidate(acc, p, hop), s, props)

(***************************************************************************)
(* BinaryHeap<Reverse<(prio, seq, ..)>>::pop: the least (prio, seq).       *)
(***************************************************************************)
\* Mutant: equal priorities popped newest first (the seq tie-break reversed).
PrecedesSeqReversed(e, f) == e.prio < f.prio \/ (e.prio = f.prio /\ e.seq > f.seq)

Precedes(e, f) == e.prio < f.prio \/ (e.prio = f.prio /\ e.seq < f.seq)

PopMin(q) == CHOOSE e \in q : \A f \in q \ {e} : Precedes(e, f)

(***************************************************************************)
(* The search_count > max_searches break.                                  *)
(***************************************************************************)
\* Mutant: an off-by-one in the budget test.
OverBudgetOffByOne(n) == n > MaxNum + 1

OverBudget(n) == n > MaxNum

(***************************************************************************)
(* try_execute_query's emptiness test of the SPI tuple table.              *)
(***************************************************************************)
\* Mutant: the emptiness test of the tuple table dropped.
ReturnsRowsAnyResult(o) == o \in {"rows", "empty"}

ReturnsRows(o) == o = "rows"

(***************************************************************************)
(* Net change of the sub-transaction depth by one try_execute_query call.  *)
(* Success releases, a caught PostgreSQL error rolls back; an empty result *)
(* or an Err from client.select leaves the closure through `?` and reaches *)
(* neither ReleaseCurrentSubTransaction nor the catch_others rollback.     *)
(***************************************************************************)
\* Mutant: the success path releases the sub-transaction a second time.
ExecSubxactDoubleRelease(o) == IF o = "rows" THEN -1 ELSE 0

ExecSubxactLeak(o) == IF o \in {"empty", "spi_error"} THEN 1 ELSE 0

\* The outcomes still possible for tree t.
Possible(t, classes) == IF outcome[t] = Unknown THEN classes
                        ELSE {outcome[t]} \cap classes

-----------------------------------------------------------------------------

Init ==
    /\ refinementOn \in BOOLEAN
    /\ pq = IF refinementOn THEN {[prio |-> 0, seq |-> 0, tree |-> Root, hop |-> 0]}
            ELSE {}
    /\ visited = IF refinementOn THEN {Root} ELSE {}
    /\ seq = IF refinementOn THEN 1 ELSE 0
    /\ searchCount = 0
    /\ outcome = [t \in Trees |-> Unknown]
    /\ subxact = 0
    /\ pc = "search"
    /\ ret = NoTree
    /\ result = NoTree
    /\ lastPrio = 0
    /\ lastSeq = -1
    /\ analyzeCalls = 0
    /\ analyzed = [t \in Trees |-> 0]

(***************************************************************************)
(* safeql.enable_refinement = off: analyze the parsed tree once; return it *)
(* on success (analyze_with_refinement analyzes it again), raise the saved *)
(* error otherwise.                                                        *)
(***************************************************************************)
RefinementDisabled ==
    /\ pc = "search" /\ ~refinementOn
    /\ \E o \in Possible(Root, AnalyzerErrors \cup ExecOutcomes) :
          /\ outcome' = [outcome EXCEPT ![Root] = o]
          /\ ret' = Root
          /\ IF o \in ExecOutcomes
             THEN pc' = "final" /\ result' = NoTree
             ELSE pc' = "done" /\ result' = "error"
    /\ analyzeCalls' = analyzeCalls + 1
    /\ UNCHANGED <<refinementOn, pq, visited, seq, searchCount, subxact,
                   lastPrio, lastSeq, analyzed>>

\* The loop pops a candidate and counts it.
PopHead ==
    /\ pc = "search" /\ refinementOn /\ pq # {}
    /\ searchCount' = searchCount + 1

\* Budget exceeded: break, and perform_refinement_search returns init_raw.
BudgetExhausted ==
    /\ PopHead
    /\ OverBudget(searchCount + 1)
    /\ pq' = pq \ {PopMin(pq)}
    /\ pc' = "final" /\ ret' = Root
    /\ UNCHANGED <<refinementOn, visited, seq, outcome, subxact, result,
                   lastPrio, lastSeq, analyzeCalls, analyzed>>

(***************************************************************************)
(* One candidate within budget: analyze a copy of it (in a sub-transaction *)
(* that is released or rolled back), execute it if the analysis succeeded, *)
(* and queue what the generators of the outcome propose, at hop + 1.       *)
(***************************************************************************)
Expand(o) ==
    LET e == PopMin(pq)
        s == PushAll([pq |-> pq \ {e}, visited |-> visited, seq |-> seq],
                     Proposals(e.tree, o, e.prio), e.hop + 1)
    IN  /\ PopHead
        /\ ~OverBudget(searchCount + 1)
        /\ o \in Possible(e.tree, AnalyzerErrors \cup ExecOutcomes)
        /\ outcome' = [outcome EXCEPT ![e.tree] = o]
        /\ analyzeCalls' = analyzeCalls + 1
        /\ analyzed' = [analyzed EXCEPT ![e.tree] = @ + 1]
        /\ lastPrio' = e.prio
        /\ lastSeq' = e.seq
        /\ subxact' = subxact + (IF o \in ExecOutcomes THEN ExecSubxactLeak(o) ELSE 0)
        /\ IF o \in ExecOutcomes /\ ReturnsRows(o)
           THEN /\ pq' = pq \ {e} /\ pc' = "final" /\ ret' = e.tree
                /\ UNCHANGED <<visited, seq>>
           ELSE /\ pq' = s.pq /\ visited' = s.visited /\ seq' = s.seq
                /\ UNCHANGED <<pc, ret>>
        /\ UNCHANGED <<refinementOn, result>>

\* The analyzer rejects the candidate: classify and route to the generators.
AnalyzeFails == \E o \in AnalyzerErrors : Expand(o)

\* Analyzed and executed with at least one row: the refined tree is returned.
ExecuteRows == Expand("rows")

\* Empty result: value, table, operand and one-hop join refinements.
ExecuteEmpty == Expand("empty")

\* INVALID_PARAMETER_VALUE: format-string refinements.
ExecuteFormatError == Expand("format_error")

\* Any other execution failure: the candidate is dropped.
ExecuteError == \E o \in {"ereport", "spi_error"} : Expand(o)

\* The queue ran dry: perform_refinement_search returns init_raw.
QueueEmpty ==
    /\ pc = "search" /\ refinementOn /\ pq = {}
    /\ pc' = "final" /\ ret' = Root
    /\ UNCHANGED <<refinementOn, pq, visited, seq, searchCount, outcome, subxact,
                   result, lastPrio, lastSeq, analyzeCalls, analyzed>>

(***************************************************************************)
(* analyze_with_refinement analyzes the returned tree once more: the Query *)
(* on success, the saved error raised on failure.                          *)
(***************************************************************************)
FinalAnalyze ==
    /\ pc = "final"
    /\ \E o \in Possible(ret, AnalyzerErrors \cup ExecOutcomes) :
          /\ outcome' = [outcome EXCEPT ![ret] = o]
          /\ result' = IF o \in ExecOutcomes THEN "query" ELSE "error"
    /\ analyzeCalls' = analyzeCalls + 1
    /\ pc' = "done"
    /\ UNCHANGED <<refinementOn, pq, visited, seq, searchCount, subxact, ret,
                   lastPrio, lastSeq, analyzed>>

Next ==
    \/ RefinementDisabled
    \/ BudgetExhausted
    \/ AnalyzeFails
    \/ ExecuteRows
    \/ ExecuteEmpty
    \/ ExecuteFormatError
    \/ ExecuteError
    \/ QueueEmpty
    \/ FinalAnalyze

\* The backend runs the search to completion: the driver is single-threaded.
Spec == Init /\ [][Next]_vars /\ WF_vars(Next)

-----------------------------------------------------------------------------
(***************************************************************************)
(* Properties.                                                             *)
(***************************************************************************)

TypeOK ==
    /\ refinementOn \in BOOLEAN
    /\ pq \subseteq Entry /\ visited \subseteq Trees /\ seq \in Nat
    /\ searchCount \in Nat /\ subxact \in Nat
    /\ outcome \in [Trees -> AnalyzerClasses \cup ExecClasses \cup {Unknown}]
    /\ pc \in {"search", "final", "done"}
    /\ ret \in Trees \cup {NoTree} /\ result \in {"query", "error", NoTree}
    /\ lastPrio \in Int /\ lastSeq \in Int /\ analyzeCalls \in Nat /\ analyzed \in [Trees -> Nat]

\* Every edit any generator can make: <<from, added cost, to>>.
EditGraph == UNION {{<<t, Edits(t, g)[i][1], Edits(t, g)[i][2]>> : i \in 1..Len(Edits(t, g))}
                    : t \in Trees, g \in AllGenerators}

(***************************************************************************)
(* Best-first order with the insertion tie-break: every queued candidate  *)
(* comes after the one last popped in (prio, seq) order, so pops follow   *)
(* cumulative cost and, among equal costs (ambiguity and format edits add *)
(* 0), insertion order.  This needs the heap to pop by (prio, seq), every *)
(* generator to add a non-negative cost to the parent's priority and seq  *)
(* to grow with every push.                                                *)
(***************************************************************************)
BestFirst == \A e \in pq : e.prio > lastPrio \/ (e.prio = lastPrio /\ e.seq > lastSeq)

(***************************************************************************)
(* Visited set: no tree is analyzed twice during the search, whatever      *)
(* cycles the edits have (a rename and its inverse, a zero-cost format     *)
(* rewrite, two families producing the same tree).                        *)
(***************************************************************************)
AnalyzedAtMostOnce == \A t \in Trees : analyzed[t] <= 1

(***************************************************************************)
(* Spec §8 budget: at most max_num + 1 analyzer calls per                  *)
(* analyze_with_refinement (max_num in the loop, one re-analysis).         *)
(***************************************************************************)
AnalyzerBudget == analyzeCalls <= MaxNum + 1

(***************************************************************************)
(* Spec §5 isolation: every internal sub-transaction the oracles open is   *)
(* released or rolled back before the next candidate is examined.          *)
(***************************************************************************)
SubxactBalanced == subxact = 0

(***************************************************************************)
(* The search implements its abstract promise: it answers the parsed tree  *)
(* or a tree within max_hop edits that analyzes and executes with rows.    *)
(***************************************************************************)
RECURSIVE ReachableWithin(_)
ReachableWithin(n) ==
    IF n = 0 THEN {Root}
    ELSE ReachableWithin(n - 1) \cup {x[3] : x \in {y \in EditGraph : y[1] \in ReachableWithin(n - 1)}}

Abstract == INSTANCE RefinementSearchAbstract
    WITH Reachable <- ReachableWithin(MaxHop),
         answer    <- IF pc = "search" THEN NoTree ELSE ret,
         verdict   <- outcome

AbstractSpec == Abstract!Spec

=============================================================================
