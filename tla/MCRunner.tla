------------------------------ MODULE MCRunner ------------------------------
(* Two roles, the second behind an event of the first; each may also write *)
(* a line the monitor refuses.                                             *)
EXTENDS RunnerProperties

MCKinds == {"ready", "applied"}
MCEmits == <<{"ready", "malformed"}, {"applied", "oversize"}>>
MCBarriers == <<{}, {<<1, "ready">>}>>
MCOffset == <<0, 1>>
MCContract == <<{}, {"applied"}>>
=============================================================================
