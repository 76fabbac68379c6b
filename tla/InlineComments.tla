--------------------------- MODULE InlineComments ---------------------------
(***************************************************************************)
(* From the patch of a changed file to the review that GitHub accepts or   *)
(* refuses: HunkParser numbers the lines, confirmed findings are anchored  *)
(* to those numbers, and what can be anchored is posted as comments, all   *)
(* in one request.  GitHub judges them by the patch as it wrote it.        *)
(***************************************************************************)
EXTENDS HunkParser

CONSTANTS
    Ranges,      \* the <<start, end>> lines that findings may be about
    MaxFindings, \* bound on the confirmed findings of a review
    NoDraft

ASSUME RangesAssumption == \A r \in Ranges : r[1] \in Numbers /\ r[2] \in Numbers /\ r[1] <= r[2]

(* A patch lists its hunks in the order they have in the new file, and no  *)
(* two of them share a line of it.                                         *)
ASSUME HunksAssumption ==
    \A p \in Patches : \A m, n \in DOMAIN p.hunks :
        m < n => p.hunks[m].new + CountIn(p.hunks[m].lines, OnNew) <= p.hunks[n].new

VARIABLES
    draft, \* the comments of the review, and the ranges that went to its summary
    post   \* the POST of the review: "none" yet, "accepted" or "refused"

all == <<vars, draft, post>>

RightLines(lines_) == {lines_[i].new : i \in DOMAIN lines_} \ {NoNumber}

F == INSTANCE Findings

InitReview == Init /\ draft = NoDraft /\ post = "none"

Parse == Next /\ UNCHANGED <<draft, post>>

(* _to_comment: GitHub takes a comment for a single line unless it has a   *)
(* start_line.                                                             *)
ToComment(r) == [line |-> r[2], start |-> IF r[1] = r[2] THEN NoNumber ELSE r[1]]

CanAnchor(r) ==
    F!CanAnchor([where |-> r], {RightLines(Parsed[m].lines) : m \in DOMAIN Parsed})

ComposeDraft(found) ==
    /\ Ended
    /\ draft = NoDraft
    /\ draft' = [inline |-> {ToComment(r) : r \in {r \in found : CanAnchor(r)}},
                 summary |-> {r \in found : ~CanAnchor(r)}]
    /\ UNCHANGED <<vars, post>>

(* A comment is on a line of the diff, or on lines of one hunk of it.      *)
WrittenLines(n) == RightLines(Written(patch.hunks[n], n).lines)
GitHubAccepts(comment) ==
    \E n \in DOMAIN patch.hunks :
        /\ comment.line \in WrittenLines(n)
        /\ comment.start # NoNumber => comment.start \in WrittenLines(n)

Publish ==
    /\ draft # NoDraft
    /\ post = "none"
    /\ post' = IF \A comment \in draft.inline : GitHubAccepts(comment) THEN "accepted" ELSE "refused"
    /\ UNCHANGED <<vars, draft>>

NextReview ==
    \/ Parse
    \/ \E found \in {S \in SUBSET Ranges : Cardinality(S) <= MaxFindings} : ComposeDraft(found)
    \/ Publish

SpecReview == InitReview /\ [][NextReview]_all

-----------------------------------------------------------------------------
(* The pre-validation is GitHub's own rule but for one case: what is sent  *)
(* is accepted unless a comment begins in one hunk and ends in another,    *)
(* and nothing that GitHub would take inline is put into the summary       *)
(* (can_anchor, on patches without other separators).                      *)
IsAcrossHunks(comment) ==
    \E m, n \in DOMAIN patch.hunks :
        m < n /\ comment.start \in WrittenLines(m) /\ comment.line \in WrittenLines(n)

PrevalidatedLikeGitHub ==
    draft # NoDraft /\ IsClean(patch) =>
        /\ post = "refused" => \E comment \in draft.inline : IsAcrossHunks(comment)
        /\ post = "accepted" => \A comment \in draft.inline : ~IsAcrossHunks(comment)
        /\ \A r \in draft.summary : ~GitHubAccepts(ToComment(r))

(* docs/adr/0008-one-review-idempotency-marker-and-stale-head-guard.md:30, *)
(* "Inline anchoring is pre-validated so an un-anchorable finding degrades *)
(* to a summary bullet instead of failing the whole (atomic) review POST". *)
NeverRefused == IsClean(patch) => post # "refused"
=============================================================================
