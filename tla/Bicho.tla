-------------------------------- MODULE Bicho --------------------------------
(***************************************************************************)
(* The service end to end, for one pull request: GitHub's events become    *)
(* webhook deliveries, BackgroundReviewRunner turns them into tasks, and   *)
(* each task is a run of ReviewRun; manual runs come in beside them, not   *)
(* under the runner's semaphore.                                           *)
(*                                                                         *)
(* Task t of the runner is run t of the review graph: the run begins when  *)
(* the task gets the semaphore, and its outcome finishes the task.         *)
(***************************************************************************)
EXTENDS Integers, Sequences, FiniteSets

CONSTANTS
    MaxHead, MaxReviews, Workflows, Prompts, Quoted, PageSize, Reverts, LateAccepts,
    NoRun, NoMarker, NoDraft,
    NoHeader, MaxSize, MaxRegistered, Concurrency, MaxTasks,
    ManualRuns,  \* calls of POST /reviews
    MaxEvents,   \* bound: reviewable actions on the pull request
    Faults       \* may calls fail, runs time out and the process die?

Tasks == 1..MaxTasks
Runs == Tasks \union ManualRuns
EventIds == 1..MaxEvents

ASSUME NamesAssumption ==
    /\ NoRun \notin Runs /\ NoHeader \notin EventIds
    /\ ManualRuns \intersect Tasks = {}
ASSUME BoundsAssumption ==
    /\ MaxHead \in Nat \ {0} /\ MaxReviews \in Nat /\ PageSize \in Nat \ {0}
    /\ MaxSize \in Nat \ {0} /\ MaxRegistered \in Nat
    /\ Concurrency \in Nat \ {0} /\ MaxTasks \in Nat /\ MaxEvents \in Nat \ {0}
ASSUME SwitchesAssumption == {Reverts, LateAccepts, Faults} \subseteq BOOLEAN

Events == [id: EventIds, reviewable: BOOLEAN, complete: {TRUE}]

VARIABLES
    head, reverted, reviews, version, pc, opts, sha, pages, draft, listed, post,
    seen, order, registered, created, state, tasks, value, waiters, phase, awaited,
    isDraft,   \* is the pull request a draft?
    emitted,   \* events 1..emitted have happened on the pull request
    inflight   \* deliveries GitHub has yet to make

runVars == <<head, reverted, reviews, version, pc, opts, sha, pages, draft, listed, post>>
runnerVars == <<seen, order, registered, created, state, tasks, value,
                waiters, phase, awaited>>
eventVars == <<isDraft, emitted, inflight>>
vars == <<runVars, runnerVars, eventVars>>

R == INSTANCE ReviewRun
B == INSTANCE BackgroundReviewRunner WITH Deliveries <- EventIds

ASSUME NoneAssumption == NoMarker \notin R!Markers /\ NoDraft \notin R!Drafts
ASSUME QuotedAssumption == Quoted \subseteq R!Markers

(* The payload of an event says whether the pull request was a draft.      *)
Event(n, d) == [id |-> n, reviewable |-> ~d, complete |-> TRUE]

Init ==
    /\ R!Init
    /\ B!Init
    /\ isDraft \in BOOLEAN
    /\ emitted = 1
    /\ inflight = {Event(1, isDraft)}

-----------------------------------------------------------------------------
(* The pull request: synchronize and ready_for_review emit an event, and   *)
(* converted_to_draft is none of the actions the handler reacts to.        *)
Emit(d) ==
    /\ emitted < MaxEvents
    /\ emitted' = emitted + 1
    /\ inflight' = inflight \union {Event(emitted + 1, d)}

Push(h) == R!Push(h) /\ Emit(isDraft) /\ UNCHANGED <<runnerVars, isDraft>>

MarkReady ==
    /\ isDraft
    /\ isDraft' = FALSE
    /\ Emit(FALSE)
    /\ UNCHANGED <<runVars, runnerVars>>

ConvertToDraft ==
    /\ ~isDraft
    /\ isDraft' = TRUE
    /\ UNCHANGED <<runVars, runnerVars, emitted, inflight>>

OtherReview ==
    /\ \E marker \in Quoted \union {NoMarker} : R!OtherReview(marker)
    /\ UNCHANGED <<runnerVars, eventVars>>

(* GitHub delivers in any order, and may deliver again what it delivered.  *)
Receive(e) ==
    /\ e \in inflight
    /\ \/ B!Webhook(e)
       \/ (~e.reviewable \/ e.id \in seen) /\ UNCHANGED runnerVars
    /\ inflight' \in {inflight \ {e}, inflight}
    /\ UNCHANGED <<runVars, isDraft, emitted>>

-----------------------------------------------------------------------------
WebhookOptions == [dry_run |-> FALSE, force |-> FALSE]

TaskBegins(t) ==
    /\ B!StartRunning(t) \/ B!Resume(t)
    /\ R!Begin(t, WebhookOptions)
    /\ UNCHANGED eventVars

TaskQueues(t) ==
    /\ B!StartWaiting(t) \/ B!Discard(t)
    /\ UNCHANGED <<runVars, eventVars>>

ManualBegins(m) ==
    /\ \E o \in R!Options : R!Begin(m, o)
    /\ UNCHANGED <<runnerVars, eventVars>>

(* An outcome of a task's run is the end of the task.                      *)
Finishes(r) ==
    IF r \in Tasks /\ pc'[r] \in R!Outcomes
    THEN B!FinishReview(r)
    ELSE UNCHANGED runnerVars

Advance(r) == R!Advance(r) /\ Finishes(r) /\ UNCHANGED eventVars

FetchFilesPage(r) == R!FetchFilesPage(r) /\ UNCHANGED <<runnerVars, eventVars>>

GitHubAccepts(r) == R!GitHubAccepts(r) /\ UNCHANGED <<runnerVars, eventVars>>

-----------------------------------------------------------------------------
Fails(r) ==
    /\ R!RaisesError(r) \/ R!Timeout(r)
    /\ Finishes(r)
    /\ UNCHANGED eventVars

GitHubRejects(r) == R!GitHubRejects(r) /\ UNCHANGED <<runnerVars, eventVars>>

Restart(v) == R!Restart(v) /\ B!Restart /\ UNCHANGED eventVars

Fault ==
    /\ Faults
    /\ \/ \E r \in Runs : Fails(r) \/ GitHubRejects(r)
       \/ \E v \in R!Versions : Restart(v)

-----------------------------------------------------------------------------
Next ==
    \/ \E h \in R!Shas : Push(h)
    \/ MarkReady \/ ConvertToDraft \/ OtherReview
    \/ \E e \in Events : Receive(e)
    \/ \E t \in Tasks : TaskBegins(t) \/ TaskQueues(t)
    \/ \E m \in ManualRuns : ManualBegins(m)
    \/ \E r \in Runs : Advance(r) \/ FetchFilesPage(r) \/ GitHubAccepts(r)
    \/ Fault

Spec == Init /\ [][Next]_vars

(* Deliveries are made, ready tasks are run, awaited calls are answered    *)
(* and GitHub decides on what it was sent.                                 *)
Fairness ==
    /\ \A e \in Events : WF_vars(Receive(e))
    /\ \A t \in Tasks : WF_vars(TaskBegins(t)) /\ WF_vars(TaskQueues(t))
    /\ \A r \in Runs : WF_vars(Advance(r)) /\ WF_vars(GitHubAccepts(r))

FairSpec == Spec /\ Fairness

-----------------------------------------------------------------------------
(* What the pull request's list of reviews says: the head and the workflow *)
(* of each review of the bot.                                              *)
Entry(rv) == IF rv.run = NoRun THEN <<>> ELSE <<rv.marker.head, rv.marker.workflow>>

Ledger == INSTANCE ReviewLedger WITH
    Shas <- 1..MaxHead,
    pushed <- 1..head,
    ledger <- [i \in 1..Len(reviews) |-> Entry(reviews[i])]

(* With webhook runs alone (one at a time), a list of reviews that fits in *)
(* the first page and no review accepted for a run that already ended, the *)
(* service keeps its promise: whatever is pushed, redelivered, timed out   *)
(* or restarted, the ledger never shows the same head twice.  (Commits are *)
(* numbered in the order of their first push, so without force-pushes to   *)
(* earlier ones those pushed so far are 1..head.)                          *)
ImplementsLedger == Ledger!Spec

(* When calls do not fail, a pull request that settles on a head and is    *)
(* not a draft gets a review of that head, although runs go stale without  *)
(* a retry: the push that made them stale brings a run of its own.  Nobody *)
(* else may post a review with the head's marker in it: the idempotency    *)
(* guard would skip the head, as it does not look at a review's author.    *)
Reviewed(h) == \E i \in 1..Len(reviews) :
    reviews[i].run # NoRun /\ reviews[i].marker.head = h

FinalHeadReviewed ==
    \A h \in 1..MaxHead :
        <>[](head = h /\ ~isDraft) => <>Reviewed(h)

(* docs/adr/0008-one-review-idempotency-marker-and-stale-head-guard.md:26, *)
(* "No duplicate reviews across webhook redeliveries or re-runs".          *)
NoDuplicateReview == R!NoDuplicateReview
=============================================================================
