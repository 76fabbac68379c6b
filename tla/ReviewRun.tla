------------------------------ MODULE ReviewRun ------------------------------
(***************************************************************************)
(* Review runs of one pull request, against the GitHub state they share.   *)
(*                                                                         *)
(* A run is one call of ReviewService.run: it walks the review graph       *)
(* (builder.py) node by node.  Every node that talks to GitHub is a        *)
(* separate action, so pushes, other reviews and other runs interleave     *)
(* between any two of them; the nodes between the last page of changed     *)
(* files and the composed draft work on data already read (file contents   *)
(* are fetched at the recorded head) and are one action.                   *)
(*                                                                         *)
(* GitHub is external: its reviews only grow, it lists them oldest first,  *)
(* and it may accept or refuse a submitted review.                         *)
(***************************************************************************)
EXTENDS Integers, Sequences, FiniteSets

CONSTANTS
    Runs,         \* calls of ReviewService.run
    MaxHead,      \* bound: commits 1..MaxHead are pushed to the pull request
    MaxReviews,   \* bound: other authors stop reviewing at this many reviews
    Workflows,    \* values of WORKFLOW_VERSION
    Prompts,      \* values of PROMPT_VERSION
    Quoted,       \* the markers that other authors' reviews may hold
    PageSize,     \* reviews in GitHub's first page (30 by default)
    Reverts,      \* may a force-push bring back an earlier commit?
    LateAccepts,  \* may GitHub accept the review of a run that already ended?
    NoRun, NoMarker, NoDraft

Shas == 1..MaxHead
Versions == [workflow: Workflows, prompt: Prompts]
Markers == [head: Shas, workflow: Workflows, prompt: Prompts]
Drafts == [marker: Markers, diff: SUBSET Shas]
Options == [dry_run: BOOLEAN, force: BOOLEAN]

ASSUME RunsAssumption == NoRun \notin Runs
ASSUME BoundsAssumption ==
    /\ MaxHead \in Nat \ {0}
    /\ MaxReviews \in Nat
    /\ PageSize \in Nat \ {0}
ASSUME SwitchesAssumption == Reverts \in BOOLEAN /\ LateAccepts \in BOOLEAN
ASSUME QuotedAssumption == Quoted \subseteq Markers
ASSUME NoneAssumption == NoMarker \notin Markers /\ NoDraft \notin Drafts

(* Where a run is: the node it is about to execute ...                     *)
Nodes == {"fetch_pull_request", "fetch_changed_files", "analyze",
          "idempotency_guard", "stale_head_guard", "publish_github_review"}
(* ... or how it ended: a ReviewStatus, an exception, or the process died. *)
Outcomes == {"DRY_RUN", "COMPLETED", "SKIPPED", "STALE", "FAILED",
             "ERROR", "LOST"}

VARIABLES
    head,     \* head commit of the pull request on GitHub
    reverted, \* history: has a force-push brought back an earlier commit?
    reviews,  \* the pull request's reviews on GitHub, oldest first
    version,  \* WORKFLOW_VERSION and PROMPT_VERSION of the deployed process
    pc,       \* per run: "idle", a node or an outcome
    opts,     \* per run: its ReviewOptions
    sha,      \* per run: head_sha of the pull request it fetched, 0 before
    pages,    \* per run: heads its pages of changed files were computed at
    draft,    \* per run: the ReviewDraft, NoDraft before compose_review
    listed,   \* history, per run: reviews in the page it listed
    post      \* per run: its publishing POST, as GitHub knows it

github == <<head, reverted, reviews>>
vars == <<head, reverted, reviews, version, pc, opts, sha, pages, draft, listed, post>>

Active(r) == pc[r] \in Nodes
Goto(r, from, to) == pc[r] = from /\ pc' = [pc EXCEPT ![r] = to]

Init ==
    /\ head = 1
    /\ reverted = FALSE
    /\ reviews = <<>>
    /\ version \in Versions
    /\ pc = [r \in Runs |-> "idle"]
    /\ opts = [r \in Runs |-> [dry_run |-> FALSE, force |-> FALSE]]
    /\ sha = [r \in Runs |-> 0]
    /\ pages = [r \in Runs |-> {}]
    /\ draft = [r \in Runs |-> NoDraft]
    /\ listed = [r \in Runs |-> 0]
    /\ post = [r \in Runs |-> "none"]

-----------------------------------------------------------------------------
(* The pull request on GitHub.                                             *)

Push(h) ==
    /\ h = head + 1 \/ (Reverts /\ h < head)
    /\ head' = h
    /\ reverted' = (reverted \/ h < head)
    /\ UNCHANGED <<reviews, version, pc, opts, sha, pages, draft, listed, post>>

(* A reviewer other than the bot.  The body may hold a marker all the      *)
(* same, say in a quotation of one of the bot's reviews, here or of        *)
(* another pull request with this commit.                                  *)
OtherReview(marker) ==
    /\ Len(reviews) < MaxReviews
    /\ reviews' = Append(reviews, [run |-> NoRun, marker |-> marker, diff |-> {}])
    /\ UNCHANGED <<head, reverted, version, pc, opts, sha, pages, draft, listed, post>>

GitHubAccepts(r) ==
    /\ post[r] = "sent"
    /\ Active(r) \/ LateAccepts
    /\ reviews' = Append(reviews, [run |-> r, marker |-> draft[r].marker,
                                   diff |-> draft[r].diff])
    /\ post' = [post EXCEPT ![r] = "accepted"]
    /\ UNCHANGED <<head, reverted, version, pc, opts, sha, pages, draft, listed>>

GitHubRejects(r) ==
    /\ post[r] = "sent"
    /\ post' = [post EXCEPT ![r] = "rejected"]
    /\ UNCHANGED <<github, version, pc, opts, sha, pages, draft, listed>>

-----------------------------------------------------------------------------
(* The nodes of the graph.                                                 *)

(* Seeded fault: the run works on the pull request of the event payload.   *)
BeginUnfetched(r, o) ==
    /\ Goto(r, "idle", "fetch_changed_files")
    /\ opts' = [opts EXCEPT ![r] = o]
    /\ UNCHANGED <<github, version, sha, pages, draft, listed, post>>

Begin(r, o) ==
    /\ Goto(r, "idle", "fetch_pull_request")
    /\ opts' = [opts EXCEPT ![r] = o]
    /\ UNCHANGED <<github, version, sha, pages, draft, listed, post>>

FetchPullRequest(r) ==
    /\ Goto(r, "fetch_pull_request", "fetch_changed_files")
    /\ sha' = [sha EXCEPT ![r] = head]
    /\ UNCHANGED <<github, version, opts, pages, draft, listed, post>>

(* One page of changed files; GitHub computes it against the head it has   *)
(* when it answers, whatever head the run recorded.                        *)
FetchFilesPage(r) ==
    /\ pc[r] = "fetch_changed_files"
    /\ pages' = [pages EXCEPT ![r] = @ \union {head}]
    /\ UNCHANGED <<github, version, pc, opts, sha, draft, listed, post>>

FetchLastPage(r) ==
    /\ Goto(r, "fetch_changed_files", "analyze")
    /\ pages' = [pages EXCEPT ![r] = @ \union {head}]
    /\ UNCHANGED <<github, version, opts, sha, draft, listed, post>>

(* compose_review_draft: the marker and commit_id carry the recorded head. *)
Compose(r) ==
    [marker |-> [head |-> sha[r], workflow |-> version.workflow,
                 prompt |-> version.prompt],
     diff |-> pages[r]]

(* normalize_diff ... compose_review.                                      *)
Analyze(r) ==
    /\ Goto(r, "analyze", "idempotency_guard")
    /\ draft' = [draft EXCEPT ![r] = Compose(r)]
    /\ UNCHANGED <<github, version, opts, sha, pages, listed, post>>

FirstPage == IF Len(reviews) <= PageSize THEN Len(reviews) ELSE PageSize

(* Seeded faults: the markers are compared with the head the pull request  *)
(* has now, not with the one the run recorded; their heads are not compared*)
(* at all.                                                                 *)
CurrentHeadReviewed(r) ==
    \E i \in 1..FirstPage :
        /\ reviews[i].marker # NoMarker
        /\ reviews[i].marker.head = head
        /\ reviews[i].marker.workflow = version.workflow

AnyHeadReviewed(r) ==
    \E i \in 1..FirstPage :
        /\ reviews[i].marker # NoMarker
        /\ reviews[i].marker.workflow = version.workflow

AlreadyReviewed(r) ==
    \E i \in 1..FirstPage :
        /\ reviews[i].marker # NoMarker
        /\ reviews[i].marker.head = sha[r]
        /\ reviews[i].marker.workflow = version.workflow

GuardDryRun(r) ==
    /\ opts[r].dry_run
    /\ Goto(r, "idempotency_guard", "DRY_RUN")
    /\ listed' = listed

GuardForced(r) ==
    /\ ~opts[r].dry_run
    /\ opts[r].force
    /\ Goto(r, "idempotency_guard", "stale_head_guard")
    /\ listed' = listed

GuardLists(r) ==
    /\ ~opts[r].dry_run
    /\ ~opts[r].force
    /\ Goto(r, "idempotency_guard",
            IF AlreadyReviewed(r) THEN "SKIPPED" ELSE "stale_head_guard")
    /\ listed' = [listed EXCEPT ![r] = FirstPage]

IdempotencyGuard(r) ==
    /\ GuardDryRun(r) \/ GuardForced(r) \/ GuardLists(r)
    /\ UNCHANGED <<github, version, opts, sha, pages, draft, post>>

(* Seeded fault: no stale-head guard.                                      *)
NoStaleHeadGuard(r) ==
    /\ Goto(r, "stale_head_guard", "publish_github_review")
    /\ UNCHANGED <<github, version, opts, sha, pages, draft, listed, post>>

StaleHeadGuard(r) ==
    /\ Goto(r, "stale_head_guard",
            IF head # sha[r] THEN "STALE" ELSE "publish_github_review")
    /\ UNCHANGED <<github, version, opts, sha, pages, draft, listed, post>>

PublishSend(r) ==
    /\ pc[r] = "publish_github_review"
    /\ post[r] = "none"
    /\ post' = [post EXCEPT ![r] = "sent"]
    /\ UNCHANGED <<github, version, pc, opts, sha, pages, draft, listed>>

(* Seeded fault: the answer to the POST is not awaited.                    *)
PublishUnawaited(r) ==
    /\ post[r] # "none"
    /\ Goto(r, "publish_github_review", "COMPLETED")
    /\ UNCHANGED <<github, version, opts, sha, pages, draft, listed, post>>

PublishAck(r) ==
    /\ post[r] = "accepted"
    /\ Goto(r, "publish_github_review", "COMPLETED")
    /\ UNCHANGED <<github, version, opts, sha, pages, draft, listed, post>>

-----------------------------------------------------------------------------
(* Failures.                                                               *)

(* raise_for_status or a transport error in a node that calls GitHub; for  *)
(* the POST, GitHub may have accepted the review or may still accept it.   *)
RaisesError(r) ==
    /\ Active(r)
    /\ pc[r] = "idempotency_guard" => ~opts[r].dry_run /\ ~opts[r].force
    /\ pc' = [pc EXCEPT ![r] = "ERROR"]
    /\ UNCHANGED <<github, version, opts, sha, pages, draft, listed, post>>

(* asyncio.wait_for cancels the graph at its current await.                *)
Timeout(r) ==
    /\ Active(r)
    /\ pc' = [pc EXCEPT ![r] = "FAILED"]
    /\ UNCHANGED <<github, version, opts, sha, pages, draft, listed, post>>

(* The process dies and is started again, perhaps on another release.      *)
Restart(v) ==
    /\ version' = v
    /\ pc' = [r \in Runs |-> IF Active(r) THEN "LOST" ELSE pc[r]]
    /\ UNCHANGED <<github, opts, sha, pages, draft, listed, post>>

-----------------------------------------------------------------------------
GitHubStep ==
    \/ \E h \in Shas : Push(h)
    \/ \E marker \in Quoted \union {NoMarker} : OtherReview(marker)
    \/ \E r \in Runs : GitHubAccepts(r) \/ GitHubRejects(r)

(* What the program itself does next in run r when nothing fails.          *)
Advance(r) ==
    \/ FetchPullRequest(r)
    \/ FetchLastPage(r)
    \/ Analyze(r)
    \/ IdempotencyGuard(r)
    \/ StaleHeadGuard(r)
    \/ PublishSend(r)
    \/ PublishAck(r)

RunStep(r) ==
    \/ \E o \in Options : Begin(r, o)
    \/ FetchFilesPage(r)
    \/ Advance(r)
    \/ RaisesError(r)
    \/ Timeout(r)

Next ==
    \/ GitHubStep
    \/ \E r \in Runs : RunStep(r)
    \/ \E v \in Versions : Restart(v)

Spec == Init /\ [][Next]_vars

-----------------------------------------------------------------------------
(* The types of the variables.                                             *)
Reviews == [run: Runs \union {NoRun}, marker: Markers \union {NoMarker},
            diff: SUBSET Shas]

TypeOK ==
    /\ head \in Shas
    /\ reverted \in BOOLEAN
    /\ reviews \in Seq(Reviews)
    /\ version \in Versions
    /\ pc \in [Runs -> {"idle"} \union Nodes \union Outcomes]
    /\ opts \in [Runs -> Options]
    /\ sha \in [Runs -> 0..MaxHead]
    /\ pages \in [Runs -> SUBSET Shas]
    /\ draft \in [Runs -> Drafts \union {NoDraft}]
    /\ listed \in [Runs -> Nat]
    /\ post \in [Runs -> {"none", "sent", "accepted", "rejected"}]

SameHeadAndWorkflow(i, j) ==
    /\ reviews[i].run # NoRun
    /\ reviews[j].run # NoRun
    /\ reviews[i].marker.head = reviews[j].marker.head
    /\ reviews[i].marker.workflow = reviews[j].marker.workflow

(* The idempotency guard's real guarantee: a second review of the same     *)
(* head by the same workflow exists only if its run was forced, or the     *)
(* first one was not in the page that run listed, because it was posted    *)
(* later or lies beyond the first page.  Reposting after a timeout, an     *)
(* error or a restart is therefore harmless once the review is visible.    *)
DuplicateOnlyWhenUnseen ==
    \A j \in 1..Len(reviews) : \A i \in 1..(j-1) :
        SameHeadAndWorkflow(i, j) =>
            \/ opts[reviews[j].run].force
            \/ listed[reviews[j].run] < i

(* The diff a published review was computed from is the diff of the commit *)
(* it is anchored to, although changed files are read page by page and     *)
(* never at a given commit: the stale-head guard, which runs much later,   *)
(* makes up for it, unless a force-push has brought back an earlier commit.*)
ReviewedDiffIsPublishedHead ==
    ~reverted =>
        \A i \in 1..Len(reviews) :
            reviews[i].run # NoRun => reviews[i].diff = {reviews[i].marker.head}

ReviewsOf(r) == {i \in 1..Len(reviews) : reviews[i].run = r}

(* The result a run reports agrees with what GitHub holds, through         *)
(* concurrent runs, lost answers, timeouts and late acceptances: COMPLETED *)
(* means exactly one review of it, the results that promise not to publish *)
(* mean none, now or later.                                                *)
ResultMatchesLedger ==
    \A r \in Runs :
        /\ \A i, j \in ReviewsOf(r) : i = j
        /\ pc[r] = "COMPLETED" => ReviewsOf(r) # {}
        /\ pc[r] \in {"DRY_RUN", "SKIPPED", "STALE"} =>
               ReviewsOf(r) = {} /\ post[r] # "sent"

-----------------------------------------------------------------------------
(* What the documentation says, and the code does not do.                  *)

(* okf/decisions/one-review-idempotency-stale-guard.md:4, "never a         *)
(* duplicate": without force, a head is reviewed once by a workflow.       *)
NoDuplicateReview ==
    \A j \in 1..Len(reviews) : \A i \in 1..(j-1) :
        SameHeadAndWorkflow(i, j) => opts[reviews[j].run].force
=============================================================================
