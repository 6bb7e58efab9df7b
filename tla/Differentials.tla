----------------------------- MODULE Differentials ----------------------------
(***************************************************************************)
(* What a mutation changes against its controls (artifacts.py): of the     *)
(* semantic artifacts, sets of records with at least a family and an       *)
(* outcome, and of the projections, functions from features to counts.     *)
(***************************************************************************)
EXTENDS Naturals, Sequences, FiniteSets

\* What more than half of the controls show.
Stable(controls) ==
    {f \in UNION {controls[i] : i \in DOMAIN controls} :
        2 * Cardinality({i \in DOMAIN controls : f \in controls[i]}) > Len(controls)}

\* What the mutation shows in the place of an artifact of the controls.
Replacements(f, shown) == {g.outcome : g \in {h \in shown : h.family = f.family}}

\* A stable outcome the mutation does not show, as an artifact of its own.
Transition(f, shown) ==
    [family |-> "semantic_outcome_transition",
     outcome |-> IF Replacements(f, shown) = {} THEN "absent_under_mutation" ELSE "replaced_under_mutation",
     actors |-> f.actors, resources |-> f.resources,
     signature |-> <<<<"delta", f.family>>, <<"baseline", f.outcome>>,
                     <<"mutation", Replacements(f, shown)>>>>]

SemanticTransitions(controls, shown) == {Transition(f, shown) : f \in Stable(controls) \ shown}

Value(projection, feature) == IF feature \in DOMAIN projection THEN projection[feature] ELSE 0

\* A feature the controls differ in is noise.
Changed(controls, projection) ==
    {f \in DOMAIN projection \cup UNION {DOMAIN controls[i] : i \in DOMAIN controls} :
        \A i \in DOMAIN controls : /\ Value(controls[i], f) = Value(controls[1], f)
                                   /\ Value(controls[i], f) # Value(projection, f)}
=============================================================================
