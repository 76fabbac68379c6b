---------------------------- MODULE MCReviewRun ----------------------------
(* ReviewRun for TLC: small sets of runs, commits and versions.            *)
EXTENDS ReviewRun, TLC

CONSTANTS r1, r2, w1, w2, p1

MCRuns == {r1, r2}
MCWorkflows == {w1, w2}
MCOnePrompt == {p1}
MCQuoted == [head: {2}, workflow: Workflows, prompt: Prompts]

(* Runs, workflow versions and prompt versions are only compared.          *)
MCSymmetry ==
    Permutations(Runs) \union Permutations(Workflows) \union Permutations(Prompts)
=============================================================================
