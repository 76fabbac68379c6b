---------------------------- MODULE ReviewLedger ----------------------------
(***************************************************************************)
(* What the service promises of one pull request, seen from GitHub: a list *)
(* of reviews that only grows, in which every commit that is or was the    *)
(* head is reviewed at most once by each workflow version, whatever others *)
(* review in between.                                                      *)
(***************************************************************************)
EXTENDS Integers, Sequences

CONSTANTS Shas, Workflows

VARIABLES
    pushed,  \* commits that are or were the head
    ledger   \* oldest first: <<head, workflow>> of a review of the bot, <<>> of another

vars == <<pushed, ledger>>

Init == pushed = {1} /\ ledger = <<>>

Push(h) == pushed' = pushed \union {h} /\ UNCHANGED ledger

OtherReview == ledger' = Append(ledger, <<>>) /\ UNCHANGED pushed

Review(h, w) ==
    /\ h \in pushed
    /\ \A i \in 1..Len(ledger) : ledger[i] # <<h, w>>
    /\ ledger' = Append(ledger, <<h, w>>)
    /\ UNCHANGED pushed

Next ==
    \/ \E h \in Shas : Push(h)
    \/ OtherReview
    \/ \E h \in Shas, w \in Workflows : Review(h, w)

Spec == Init /\ [][Next]_vars
=============================================================================
