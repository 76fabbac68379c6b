-------------------------- MODULE MCAnalysisCalls --------------------------
(* AnalysisCalls for TLC: calls of two reviews on one slot of the provider *)
(* and a scanner of one of them.                                           *)
EXTENDS AnalysisCalls

CONSTANTS r1, r2

MCReviews == {r1, r2}
MCRoles == {"correctness", "security"}
MCScanners == {"pip-audit"}
MCCalls == {<<r1, "correctness">>, <<r1, "security">>, <<r2, "correctness">>}
MCScans == {<<r1, "pip-audit">>}
MCCommands == [s \in MCScanners |-> 2]
MCNoCall == {}
=============================================================================
