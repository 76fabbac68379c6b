------------------------------ MODULE MCBicho ------------------------------
(* Bicho for TLC: the runner as deployed (one slot), few tasks, commits.   *)
EXTENDS Bicho, TLC

CONSTANTS w1, w2, p1, m1

MCOneWorkflow == {w1}
MCWorkflows == {w1, w2}
MCOnePrompt == {p1}
MCNoMarkers == {}
MCFirstHead == [head: {1}, workflow: Workflows, prompt: Prompts]
MCNoManualRun == {}
MCOneManualRun == {m1}
=============================================================================
