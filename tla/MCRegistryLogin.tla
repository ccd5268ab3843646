-------------------------- MODULE MCRegistryLogin --------------------------
(***************************************************************************)
(* RegistryLogin for TLC: two ordinary callers, and login sessions with    *)
(* each kind of company in turn.                                           *)
(***************************************************************************)
EXTENDS RegistryLogin

CONSTANTS c1, c2, l1, l2

MCPlans == {[who |-> {c1, c2}, may |-> {"faults"}], [who |-> {c1, l1}, may |-> {}],
            [who |-> {l1}, may |-> {"dialog", "shutdown"}], [who |-> {l1}, may |-> {"faults"}],
            [who |-> {l1, l2}, may |-> {}]}
=============================================================================
