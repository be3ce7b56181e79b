---------------------- MODULE RefinementSearchAbstract ----------------------
(***************************************************************************)
(* What analyze_with_refinement promises (spec §1, §4.5): it gives back    *)
(* either the tree parsed from the user's SQL or a tree, reachable from it *)
(* within max_hop refinements, that the analyzer accepts and the executor  *)
(* runs with at least one row.  `verdict` is the catalog's answer for each *)
(* tree, learnt one tree at a time; `answer` is the returned tree.         *)
(***************************************************************************)
CONSTANTS Trees, Root, Reachable, Unknown, NoTree

VARIABLES answer, verdict

\* A verdict may only be learnt, never changed.
Learn ==
    /\ \A t \in Trees : verdict[t] # Unknown => verdict'[t] = verdict[t]

Decide ==
    /\ answer = NoTree
    /\ Learn
    /\ answer' \in {Root} \cup {t \in Reachable : verdict'[t] = "rows"}

Init == answer = NoTree /\ verdict = [t \in Trees |-> Unknown]

Next == (Learn /\ UNCHANGED answer) \/ Decide

Spec == Init /\ [][Next]_<<answer, verdict>>

=============================================================================
