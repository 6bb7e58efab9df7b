------------------------------- MODULE MCExplorer -----------------------------
(* A control and two mutations of its semantics, with two operators. *)
EXTENDS Explorer, TLC

Case(seed, name, value) ==
    [n \in DOMAIN Neutral |-> IF n = name THEN value ELSE Neutral[n]]
        @@ [scheduler_seed |-> seed, semantics |-> "s"]

MCManifest == {Case(TRUE, "spacing_ms", 0), Case(FALSE, "barrier_mode", "relaxed"),
            Case(FALSE, "boundary_offset_ms", 5)}

Delivery(outcome) ==
    [family |-> "delivery_cardinality", outcome |-> outcome,
     actors |-> {"alice"}, resources |-> {"Square"}]
MCShown == {{}, {Delivery("exact")}, {Delivery("missing")}}
=============================================================================
