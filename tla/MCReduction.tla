------------------------------ MODULE MCReduction -----------------------------
(* Five actions of two roles, waiting before and between them. *)
EXTENDS Reduction

MCRoleOf == <<1, 1, 1, 2, 2>>
MCAt == <<1, 2, 2, 0, 1>>
MCOffset == <<1, 1>>
=============================================================================
