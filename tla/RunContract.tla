---------------------------- MODULE RunContract -----------------------------
(***************************************************************************)
(* What a run of a scenario promises its caller, the adapter: roles start  *)
(* one after the other and only behind the barriers their configuration    *)
(* names, the observed trace only grows, and a run that is handed back as  *)
(* complete launched every role and saw every transport fault applied.     *)
(***************************************************************************)
EXTENDS Naturals, Sequences

CONSTANTS NumRoles, Kinds, Barriers, Contract

Roles == 1..NumRoles

VARIABLES
    launched,  \* how many roles have been started
    seen,      \* per role, the events observed, in the order it wrote them
    status     \* "running", "failing", or how the run ended

vars == <<launched, seen, status>>

Init ==
    /\ launched = 0
    /\ seen = [r \in Roles |-> <<>>]
    /\ status = "running"

Saw(kind, r) == \E i \in DOMAIN seen[r] : seen[r][i] = kind

Extends(s, t) == Len(s) <= Len(t) /\ \A i \in DOMAIN s : t[i] = s[i]

\* The trace is append-only, and a role that never started has none.
Grow ==
    /\ DOMAIN seen' = Roles
    /\ \A r \in Roles : Extends(seen[r], seen'[r])
    /\ \A r \in Roles : r > launched => seen'[r] = <<>>

Start ==
    /\ status = "running"
    /\ launched < NumRoles
    /\ \A b \in Barriers[launched + 1] : Saw(b[2], b[1])
    /\ launched' = launched + 1
    /\ UNCHANGED <<seen, status>>

Observe ==
    /\ status \in {"running", "failing"}
    /\ Grow
    /\ UNCHANGED <<launched, status>>

\* A line of the trace may be what makes the run diverge.
Diverge ==
    /\ status = "running"
    /\ Grow
    /\ status' = "failing"
    /\ UNCHANGED launched

Complete ==
    /\ status = "running"
    /\ launched = NumRoles
    /\ \A r \in Roles : \A kind \in Contract[r] : Saw(kind, r)
    /\ status' = "complete"
    /\ UNCHANGED <<launched, seen>>

\* A partial trace needs at least one role that was started.
Abandon ==
    /\ status = "failing"
    /\ \/ status' = "partial" /\ launched > 0
       \/ status' = "raised"
    /\ UNCHANGED <<launched, seen>>

Next == Start \/ Observe \/ Diverge \/ Complete \/ Abandon

Spec == Init /\ [][Next]_vars
=============================================================================
