--------------------------- MODULE ReviewRunProofs ---------------------------
(***************************************************************************)
(* Proofs about ReviewRun, for every number of runs, commits, reviews,     *)
(* versions and any page size.                                             *)
(***************************************************************************)
EXTENDS ReviewRun, TLAPS

-----------------------------------------------------------------------------
(* Appending a review keeps those before it.                               *)
LEMMA ReviewsGrow ==
    ASSUME reviews \in Seq(Reviews), NEW rv \in Reviews
    PROVE  /\ Append(reviews, rv) \in Seq(Reviews)
           /\ Len(Append(reviews, rv)) = Len(reviews) + 1
           /\ Append(reviews, rv)[Len(reviews) + 1] = rv
           /\ \A i \in 1..Len(reviews) : Append(reviews, rv)[i] = reviews[i]
  OBVIOUS

(* compose_review_draft yields a draft, for a run that knows its head.     *)
LEMMA ComposeType ==
    ASSUME TypeOK, NEW r \in Runs, sha[r] \in Shas
    PROVE  Compose(r) \in Drafts
  BY DEF TypeOK, Compose, Drafts, Markers, Versions, Shas

(* The page a run lists is a prefix of the reviews.                        *)
LEMMA FirstPageType ==
    ASSUME TypeOK
    PROVE  FirstPage \in 0..Len(reviews)
  BY BoundsAssumption DEF TypeOK, FirstPage

(* A run that has something to publish or to analyse knows its head.       *)
ShaKnown ==
    \A r \in Runs :
        pc[r] \in {"fetch_changed_files", "analyze", "idempotency_guard",
                   "stale_head_guard", "publish_github_review"} => sha[r] \in Shas

(* A submitted review was composed.                                        *)
PostDrafted == \A r \in Runs :
    /\ pc[r] \in {"idempotency_guard", "stale_head_guard", "publish_github_review"}
          => draft[r] \in Drafts
    /\ post[r] # "none" => draft[r] \in Drafts

Typed == TypeOK /\ ShaKnown /\ PostDrafted

(* Types and progress hold at first.                                       *)
LEMMA TypedInit == Init => Typed
<1> SUFFICES ASSUME Init PROVE Typed
  OBVIOUS
<1>1. head \in Shas
  BY BoundsAssumption DEF Init, Shas
<1>2. reverted \in BOOLEAN /\ version \in Versions
  BY DEF Init
<1>3. reviews \in Seq(Reviews)
  BY DEF Init
<1>4. /\ pc \in [Runs -> {"idle"} \union Nodes \union Outcomes]
      /\ post \in [Runs -> {"none", "sent", "accepted", "rejected"}]
  BY DEF Init
<1>5. opts \in [Runs -> Options]
  BY DEF Init, Options
<1>6. /\ sha \in [Runs -> 0..MaxHead]
      /\ listed \in [Runs -> Nat]
  BY BoundsAssumption DEF Init
<1>7. /\ pages \in [Runs -> SUBSET Shas]
      /\ draft \in [Runs -> Drafts \union {NoDraft}]
  BY DEF Init
<1>8. ShaKnown /\ PostDrafted
  BY DEF Init, ShaKnown, PostDrafted
<1> QED
  BY <1>1, <1>2, <1>3, <1>4, <1>5, <1>6, <1>7, <1>8 DEF Typed, TypeOK

(* Every step keeps the types, and that a run past fetch_pull_request      *)
(* knows its head and a run past compose_review has its draft.             *)
LEMMA TypedStep == Typed /\ [Next]_vars => Typed'
<1> SUFFICES ASSUME Typed, [Next]_vars PROVE Typed'
  OBVIOUS
<1> USE DEF Typed
<1>1. ASSUME NEW h \in Shas, Push(h) PROVE Typed'
  BY <1>1 DEF Push, TypeOK, ShaKnown, PostDrafted
<1>2. ASSUME NEW marker \in Quoted \union {NoMarker}, OtherReview(marker) PROVE Typed'
  <2>1. [run |-> NoRun, marker |-> marker, diff |-> {}] \in Reviews
    BY QuotedAssumption DEF Reviews
  <2> QED
    BY <1>2, <2>1 DEF OtherReview, TypeOK, ShaKnown, PostDrafted
<1>3. ASSUME NEW r \in Runs, GitHubAccepts(r) PROVE Typed'
  <2>1. draft[r] \in Drafts
    BY <1>3 DEF GitHubAccepts, PostDrafted
  <2>2. [run |-> r, marker |-> draft[r].marker, diff |-> draft[r].diff] \in Reviews
    BY <2>1 DEF Drafts, Reviews
  <2> QED
    BY <1>3, <2>1, <2>2 DEF GitHubAccepts, TypeOK, ShaKnown, PostDrafted
<1>4. ASSUME NEW r \in Runs, GitHubRejects(r) PROVE Typed'
  BY <1>4 DEF GitHubRejects, github, TypeOK, ShaKnown, PostDrafted
<1>5. ASSUME NEW r \in Runs, NEW o \in Options, Begin(r, o) PROVE Typed'
  BY <1>5 DEF Begin, Goto, github, Nodes, Outcomes, TypeOK, ShaKnown, PostDrafted
<1>6. ASSUME NEW r \in Runs, FetchPullRequest(r) PROVE Typed'
  BY <1>6
  DEF FetchPullRequest, Goto, github, Nodes, Outcomes, Shas, TypeOK, ShaKnown,
      PostDrafted
<1>7. ASSUME NEW r \in Runs, FetchFilesPage(r) \/ FetchLastPage(r) PROVE Typed'
  <2>1. pages[r] \union {head} \in SUBSET Shas
    BY DEF TypeOK
  <2>2. CASE FetchFilesPage(r)
    BY <2>1, <2>2 DEF FetchFilesPage, github, TypeOK, ShaKnown, PostDrafted
  <2>3. CASE FetchLastPage(r)
    BY <2>1, <2>3
    DEF FetchLastPage, Goto, github, Nodes, Outcomes, TypeOK, ShaKnown, PostDrafted
  <2> QED
    BY <1>7, <2>2, <2>3
<1>8. ASSUME NEW r \in Runs, Analyze(r) PROVE Typed'
  <2>1. Compose(r) \in Drafts
    BY <1>8, ComposeType DEF Analyze, Goto, ShaKnown
  <2> QED
    BY <1>8, <2>1 DEF Analyze, Goto, github, Nodes, Outcomes, TypeOK, ShaKnown, PostDrafted
<1>9. ASSUME NEW r \in Runs, IdempotencyGuard(r) PROVE Typed'
  <2>1. FirstPage \in Nat
    BY FirstPageType DEF TypeOK
  <2>2. listed' \in [Runs -> Nat]
    BY <1>9, <2>1 DEF IdempotencyGuard, GuardDryRun, GuardForced, GuardLists, TypeOK
  <2>3. /\ pc[r] = "idempotency_guard"
        /\ \E to \in {"DRY_RUN", "SKIPPED", "stale_head_guard"} : pc' = [pc EXCEPT ![r] = to]
    BY <1>9 DEF IdempotencyGuard, GuardDryRun, GuardForced, GuardLists, Goto
  <2>4. UNCHANGED <<github, version, opts, sha, pages, draft, post>>
    BY <1>9 DEF IdempotencyGuard
  <2> QED
    BY <2>2, <2>3, <2>4 DEF github, Nodes, Outcomes, TypeOK, ShaKnown, PostDrafted
<1>10. ASSUME NEW r \in Runs, StaleHeadGuard(r) PROVE Typed'
  BY <1>10 DEF StaleHeadGuard, Goto, github, Nodes, Outcomes, TypeOK, ShaKnown, PostDrafted
<1>11. ASSUME NEW r \in Runs, PublishSend(r) PROVE Typed'
  BY <1>11 DEF PublishSend, github, TypeOK, ShaKnown, PostDrafted
<1>12. ASSUME NEW r \in Runs, PublishAck(r) PROVE Typed'
  BY <1>12 DEF PublishAck, Goto, github, Nodes, Outcomes, TypeOK, ShaKnown, PostDrafted
<1>13. ASSUME NEW r \in Runs, RaisesError(r) \/ Timeout(r) PROVE Typed'
  BY <1>13
  DEF RaisesError, Timeout, Active, github, Nodes, Outcomes, TypeOK, ShaKnown,
      PostDrafted
<1>14. ASSUME NEW v \in Versions, Restart(v) PROVE Typed'
  BY <1>14 DEF Restart, Active, github, Nodes, Outcomes, TypeOK, ShaKnown, PostDrafted
<1>15. CASE UNCHANGED vars
  BY <1>15 DEF vars, TypeOK, ShaKnown, PostDrafted
<1> QED
  BY <1>1, <1>2, <1>3, <1>4, <1>5, <1>6, <1>7, <1>8, <1>9, <1>10, <1>11, <1>12,
     <1>13, <1>14, <1>15
  DEF Next, GitHubStep, RunStep, Advance

(* Type correctness of the runs and of the GitHub state they share.        *)
THEOREM TypeCorrect == Spec => []TypeOK
<1>1. Init => Typed BY TypedInit
<1>2. Typed /\ [Next]_vars => Typed' BY TypedStep
<1>3. Typed => TypeOK BY DEF Typed
<1> QED BY <1>1, <1>2, <1>3, PTL DEF Spec

-----------------------------------------------------------------------------
(* The inductive invariant behind the properties of the ledger.            *)

(* A run composes once, then only reads its draft; what it composed is     *)
(* what it fetched, under the version still deployed.                      *)
Drafting == \A r \in Runs :
    /\ pc[r] \in {"idle", "fetch_pull_request", "fetch_changed_files", "analyze"}
          => draft[r] = NoDraft
    /\ pc[r] \in {"idle", "fetch_pull_request", "fetch_changed_files", "analyze",
                  "idempotency_guard", "stale_head_guard", "DRY_RUN", "SKIPPED", "STALE"}
          => post[r] = "none"
    /\ draft[r] # NoDraft
          => draft[r].marker.head = sha[r] /\ draft[r].diff = pages[r]
    /\ pc[r] \in {"idempotency_guard", "stale_head_guard", "publish_github_review"}
          => draft[r].marker.workflow = version.workflow

(* Each review of the bot is the accepted draft of one run.                *)
Accepted ==
    /\ \A i \in 1..Len(reviews) : reviews[i].run # NoRun =>
          /\ post[reviews[i].run] = "accepted"
          /\ reviews[i].marker = draft[reviews[i].run].marker
          /\ reviews[i].diff = draft[reviews[i].run].diff
          /\ \A j \in 1..Len(reviews) : reviews[j].run = reviews[i].run => i = j
    /\ \A r \in Runs : post[r] = "accepted" =>
          \E i \in 1..Len(reviews) : reviews[i].run = r
    /\ \A r \in Runs : pc[r] = "COMPLETED" => post[r] = "accepted"

Matches(i, r) ==
    /\ reviews[i].run # NoRun
    /\ reviews[i].marker.head = draft[r].marker.head
    /\ reviews[i].marker.workflow = draft[r].marker.workflow

(* A run that got past the idempotency guard unforced saw no match.        *)
Guarded == \A r \in Runs :
    /\ listed[r] <= Len(reviews)
    /\ pc[r] \in {"stale_head_guard", "publish_github_review"} \/ post[r] # "none" =>
          opts[r].force \/ \A i \in 1..listed[r] : ~Matches(i, r)

IInv == Typed /\ Drafting /\ Accepted /\ Guarded

(* A draft is made of what its run fetched, in every step.                 *)
LEMMA DraftingStep == Typed /\ Drafting /\ [Next]_vars => Drafting'
<1> SUFFICES ASSUME Typed /\ Drafting, [Next]_vars PROVE Drafting'
  OBVIOUS
<1>1. ASSUME NEW h \in Shas, Push(h) PROVE Drafting'
  BY <1>1 DEF Push, Typed, TypeOK, PostDrafted, Drafting
<1>2. ASSUME NEW marker \in Quoted \union {NoMarker}, OtherReview(marker) PROVE Drafting'
  BY <1>2 DEF OtherReview, Typed, TypeOK, PostDrafted, Drafting
<1>3. ASSUME NEW r \in Runs, GitHubAccepts(r) PROVE Drafting'
  BY <1>3 DEF GitHubAccepts, Typed, TypeOK, PostDrafted, Drafting
<1>4. ASSUME NEW r \in Runs, GitHubRejects(r) PROVE Drafting'
  BY <1>4 DEF GitHubRejects, github, Typed, TypeOK, PostDrafted, Drafting
<1>5. ASSUME NEW r \in Runs, NEW o \in Options, Begin(r, o) PROVE Drafting'
  BY <1>5 DEF Begin, Goto, github, Typed, TypeOK, PostDrafted, Drafting
<1>6. ASSUME NEW r \in Runs, FetchPullRequest(r) PROVE Drafting'
  BY <1>6 DEF FetchPullRequest, Goto, github, Typed, TypeOK, PostDrafted, Drafting
<1>7. ASSUME NEW r \in Runs, FetchFilesPage(r) PROVE Drafting'
  BY <1>7 DEF FetchFilesPage, github, Typed, TypeOK, PostDrafted, Drafting
<1>8. ASSUME NEW r \in Runs, FetchLastPage(r) PROVE Drafting'
  BY <1>8 DEF FetchLastPage, Goto, github, Typed, TypeOK, PostDrafted, Drafting
<1>9. ASSUME NEW r \in Runs, Analyze(r) PROVE Drafting'
  BY <1>9 DEF Analyze, Compose, Goto, github, Typed, TypeOK, PostDrafted, Drafting
<1>10. ASSUME NEW r \in Runs, IdempotencyGuard(r) PROVE Drafting'
  BY <1>10
  DEF IdempotencyGuard, GuardDryRun, GuardForced, GuardLists, Goto, github, Typed,
      TypeOK, PostDrafted, Drafting
<1>11. ASSUME NEW r \in Runs, StaleHeadGuard(r) PROVE Drafting'
  BY <1>11 DEF StaleHeadGuard, Goto, github, Typed, TypeOK, PostDrafted, Drafting
<1>12. ASSUME NEW r \in Runs, PublishSend(r) PROVE Drafting'
  BY <1>12 DEF PublishSend, github, Typed, TypeOK, PostDrafted, Drafting
<1>13. ASSUME NEW r \in Runs, PublishAck(r) PROVE Drafting'
  BY <1>13 DEF PublishAck, Goto, github, Typed, TypeOK, PostDrafted, Drafting
<1>14. ASSUME NEW r \in Runs, RaisesError(r) \/ Timeout(r) PROVE Drafting'
  BY <1>14
  DEF RaisesError, Timeout, Active, Nodes, github, Typed, TypeOK, PostDrafted, Drafting
<1>15. ASSUME NEW v \in Versions, Restart(v) PROVE Drafting'
  BY <1>15 DEF Restart, Active, Nodes, github, Typed, TypeOK, PostDrafted, Drafting
<1>16. CASE UNCHANGED vars
  BY <1>16 DEF vars, Typed, TypeOK, PostDrafted, Drafting
<1> QED
  BY <1>1, <1>2, <1>3, <1>4, <1>5, <1>6, <1>7, <1>8, <1>9, <1>10, <1>11, <1>12, <1>13, <1>14, <1>15, <1>16
  DEF Next, GitHubStep, RunStep, Advance

(* Only GitHubAccepts adds a review of the bot, once for each run.         *)
LEMMA AcceptedStep == Typed /\ Drafting /\ Accepted /\ [Next]_vars => Accepted'
<1> SUFFICES ASSUME Typed /\ Drafting /\ Accepted, [Next]_vars PROVE Accepted'
  OBVIOUS
<1>1. ASSUME NEW h \in Shas, Push(h) PROVE Accepted'
  BY <1>1 DEF Push, Typed, TypeOK, PostDrafted, Drafting, Accepted
<1>2. ASSUME NEW marker \in Quoted \union {NoMarker}, OtherReview(marker) PROVE Accepted'
  BY <1>2 DEF OtherReview, Typed, TypeOK, PostDrafted, Drafting, Accepted
<1>3. ASSUME NEW r \in Runs, GitHubAccepts(r) PROVE Accepted'
  <2> DEFINE rv == [run |-> r, marker |-> draft[r].marker, diff |-> draft[r].diff]
  <2>1. draft[r] \in Drafts /\ rv \in Reviews
    BY <1>3 DEF GitHubAccepts, Typed, PostDrafted, Drafts, Reviews
  <2>2. /\ reviews' = Append(reviews, rv)
        /\ Len(reviews') = Len(reviews) + 1
        /\ reviews'[Len(reviews) + 1] = rv
        /\ \A i \in 1..Len(reviews) : reviews'[i] = reviews[i]
    BY <1>3, <2>1, ReviewsGrow DEF GitHubAccepts, Typed, TypeOK
  <2>3. Len(reviews) \in Nat
    BY DEF Typed, TypeOK
  <2>4. \A i \in 1..Len(reviews) : reviews[i].run # r
    BY <1>3, RunsAssumption DEF GitHubAccepts, Accepted
  <2>5. post' = [post EXCEPT ![r] = "accepted"] /\ UNCHANGED <<pc, draft>>
    BY <1>3 DEF GitHubAccepts
  <2>6. ASSUME NEW i \in 1..Len(reviews'), reviews'[i].run # NoRun
        PROVE  /\ post'[reviews'[i].run] = "accepted"
               /\ reviews'[i].marker = draft'[reviews'[i].run].marker
               /\ reviews'[i].diff = draft'[reviews'[i].run].diff
               /\ \A j \in 1..Len(reviews') : reviews'[j].run = reviews'[i].run => i = j
    <3>1. CASE i = Len(reviews) + 1
      BY <3>1, <2>2, <2>3, <2>4, <2>5 DEF Typed, TypeOK
    <3>2. CASE i \in 1..Len(reviews)
      <4> DEFINE q == reviews[i].run
      <4>1. reviews'[i] = reviews[i] /\ q # NoRun /\ q # r
        BY <3>2, <2>2, <2>4, <2>6
      <4>2. q \in Runs
        <5>1. reviews \in Seq(Reviews)
          BY DEF Typed, TypeOK
        <5>2. reviews[i] \in Reviews
          BY <5>1, <3>2
        <5> QED
          BY <5>2, <4>1 DEF Reviews
      <4>3. /\ post[q] = "accepted"
            /\ reviews[i].marker = draft[q].marker
            /\ reviews[i].diff = draft[q].diff
            /\ \A j \in 1..Len(reviews) : reviews[j].run = q => i = j
        BY <3>2, <4>1 DEF Accepted
      <4>4. post'[q] = "accepted"
        BY <4>1, <4>2, <4>3, <2>5 DEF Typed, TypeOK
      <4>5. ASSUME NEW j \in 1..Len(reviews'), reviews'[j].run = q PROVE i = j
        <5>1. j # Len(reviews) + 1
          BY <4>1, <4>5, <2>2
        <5>2. j \in 1..Len(reviews) /\ reviews'[j] = reviews[j]
          BY <5>1, <2>2, <2>3
        <5> QED
          BY <5>2, <4>3, <4>5
      <4> QED
        BY <4>1, <4>3, <4>4, <4>5, <2>5
    <3> QED
      BY <3>1, <3>2, <2>2, <2>3
  <2>7. ASSUME NEW q \in Runs, post'[q] = "accepted"
        PROVE  \E i \in 1..Len(reviews') : reviews'[i].run = q
    <3>1. CASE q = r
      BY <3>1, <2>2, <2>3
    <3>2. CASE q # r
      BY <3>2, <2>2, <2>3, <2>5, <2>7 DEF Typed, TypeOK, Accepted
    <3> QED
      BY <3>1, <3>2
  <2>8. \A q \in Runs : pc'[q] = "COMPLETED" => post'[q] = "accepted"
    BY <2>5 DEF Typed, TypeOK, Accepted
  <2> QED
    BY <2>6, <2>7, <2>8 DEF Accepted
<1>4. ASSUME NEW r \in Runs, GitHubRejects(r) PROVE Accepted'
  BY <1>4 DEF GitHubRejects, github, Typed, TypeOK, PostDrafted, Drafting, Accepted
<1>5. ASSUME NEW r \in Runs, NEW o \in Options, Begin(r, o) PROVE Accepted'
  BY <1>5 DEF Begin, Goto, github, Typed, TypeOK, PostDrafted, Drafting, Accepted
<1>6. ASSUME NEW r \in Runs, FetchPullRequest(r) PROVE Accepted'
  BY <1>6 DEF FetchPullRequest, Goto, github, Typed, TypeOK, PostDrafted, Drafting, Accepted
<1>7. ASSUME NEW r \in Runs, FetchFilesPage(r) PROVE Accepted'
  BY <1>7 DEF FetchFilesPage, github, Typed, TypeOK, PostDrafted, Drafting, Accepted
<1>8. ASSUME NEW r \in Runs, FetchLastPage(r) PROVE Accepted'
  BY <1>8 DEF FetchLastPage, Goto, github, Typed, TypeOK, PostDrafted, Drafting, Accepted
<1>9. ASSUME NEW r \in Runs, Analyze(r) PROVE Accepted'
  BY <1>9 DEF Analyze, Compose, Goto, github, Typed, TypeOK, PostDrafted, Drafting, Accepted
<1>10. ASSUME NEW r \in Runs, IdempotencyGuard(r) PROVE Accepted'
  BY <1>10
  DEF IdempotencyGuard, GuardDryRun, GuardForced, GuardLists, Goto, github, Typed,
      TypeOK, PostDrafted, Drafting, Accepted
<1>11. ASSUME NEW r \in Runs, StaleHeadGuard(r) PROVE Accepted'
  BY <1>11 DEF StaleHeadGuard, Goto, github, Typed, TypeOK, PostDrafted, Drafting, Accepted
<1>12. ASSUME NEW r \in Runs, PublishSend(r) PROVE Accepted'
  <2>1. /\ post[r] = "none" /\ post' = [post EXCEPT ![r] = "sent"]
        /\ UNCHANGED <<reviews, pc, draft>>
        /\ pc[r] # "COMPLETED"
    BY <1>12 DEF PublishSend, github
  <2>2. \A q \in Runs : post'[q] = "accepted" <=> post[q] = "accepted"
    BY <2>1 DEF Typed, TypeOK
  <2>3. \A i \in 1..Len(reviews) : reviews[i].run \in Runs \union {NoRun}
    <3>1. \A i \in 1..Len(reviews) : reviews[i] \in Reviews
      BY DEF Typed, TypeOK
    <3> QED
      BY <3>1 DEF Reviews
  <2>4. \A i \in 1..Len(reviews) : reviews[i].run # NoRun => post'[reviews[i].run] = "accepted"
    BY <2>2, <2>3 DEF Accepted
  <2>5. \A q \in Runs : post'[q] = "accepted" => \E i \in 1..Len(reviews) : reviews[i].run = q
    BY <2>2 DEF Accepted
  <2>6. \A q \in Runs : pc[q] = "COMPLETED" => post'[q] = "accepted"
    BY <2>2 DEF Accepted
  <2> QED
    BY <2>1, <2>4, <2>5, <2>6 DEF Accepted
<1>13. ASSUME NEW r \in Runs, PublishAck(r) PROVE Accepted'
  BY <1>13 DEF PublishAck, Goto, github, Typed, TypeOK, PostDrafted, Drafting, Accepted
<1>14. ASSUME NEW r \in Runs, RaisesError(r) \/ Timeout(r) PROVE Accepted'
  BY <1>14
  DEF RaisesError, Timeout, Active, Nodes, github, Typed, TypeOK, PostDrafted, Drafting,
      Accepted
<1>15. ASSUME NEW v \in Versions, Restart(v) PROVE Accepted'
  BY <1>15
  DEF Restart, Active, Nodes, github, Typed, TypeOK, PostDrafted, Drafting, Accepted
<1>16. CASE UNCHANGED vars
  BY <1>16 DEF vars, Typed, TypeOK, PostDrafted, Drafting, Accepted
<1> QED
  BY <1>1, <1>2, <1>3, <1>4, <1>5, <1>6, <1>7, <1>8, <1>9, <1>10, <1>11, <1>12, <1>13, <1>14, <1>15, <1>16
  DEF Next, GitHubStep, RunStep, Advance

(* The guard's answer stays true of the page it listed: reviews are only   *)
(* ever appended, and a run on a new release is no longer active.          *)
LEMMA GuardedStep == Typed /\ Drafting /\ Accepted /\ Guarded /\ [Next]_vars => Guarded'
<1> SUFFICES ASSUME Typed /\ Drafting /\ Accepted /\ Guarded, [Next]_vars PROVE Guarded'
  OBVIOUS
<1>1. ASSUME NEW h \in Shas, Push(h) PROVE Guarded'
  BY <1>1 DEF Push, Typed, TypeOK, PostDrafted, Drafting, Accepted, Guarded, Matches
<1>2. ASSUME NEW marker \in Quoted \union {NoMarker}, OtherReview(marker) PROVE Guarded'
  <2> DEFINE rv == [run |-> NoRun, marker |-> marker, diff |-> {}]
  <2>1. rv \in Reviews
    BY QuotedAssumption DEF Reviews
  <2>2. /\ Len(reviews') = Len(reviews) + 1
        /\ \A i \in 1..Len(reviews) : reviews'[i] = reviews[i]
        /\ Len(reviews) \in Nat
    BY <1>2, <2>1, ReviewsGrow DEF OtherReview, Typed, TypeOK
  <2>3. UNCHANGED <<pc, opts, draft, listed, post>>
    BY <1>2 DEF OtherReview
  <2>4. ASSUME NEW q \in Runs
        PROVE  /\ listed[q] \in Nat /\ listed[q] <= Len(reviews) /\ listed[q] <= Len(reviews')
               /\ \A i \in 1..listed[q] : reviews'[i] = reviews[i]
    <3>1. listed[q] \in Nat
      BY DEF Typed, TypeOK
    <3>2. listed[q] <= Len(reviews)
      BY DEF Guarded
    <3> QED
      BY <2>2, <3>1, <3>2
  <2> QED
    BY <2>3, <2>4 DEF Guarded, Matches
<1>3. ASSUME NEW r \in Runs, GitHubAccepts(r) PROVE Guarded'
  BY <1>3
  DEF GitHubAccepts, Typed, TypeOK, PostDrafted, Drafting, Accepted, Guarded, Matches
<1>4. ASSUME NEW r \in Runs, GitHubRejects(r) PROVE Guarded'
  BY <1>4
  DEF GitHubRejects, github, Typed, TypeOK, PostDrafted, Drafting, Accepted, Guarded, Matches
<1>5. ASSUME NEW r \in Runs, NEW o \in Options, Begin(r, o) PROVE Guarded'
  BY <1>5
  DEF Begin, Goto, github, Typed, TypeOK, PostDrafted, Drafting, Accepted, Guarded,
      Matches
<1>6. ASSUME NEW r \in Runs, FetchPullRequest(r) PROVE Guarded'
  BY <1>6
  DEF FetchPullRequest, Goto, github, Typed, TypeOK, PostDrafted, Drafting, Accepted,
      Guarded, Matches
<1>7. ASSUME NEW r \in Runs, FetchFilesPage(r) PROVE Guarded'
  BY <1>7
  DEF FetchFilesPage, github, Typed, TypeOK, PostDrafted, Drafting, Accepted, Guarded,
      Matches
<1>8. ASSUME NEW r \in Runs, FetchLastPage(r) PROVE Guarded'
  BY <1>8
  DEF FetchLastPage, Goto, github, Typed, TypeOK, PostDrafted, Drafting, Accepted,
      Guarded, Matches
<1>9. ASSUME NEW r \in Runs, Analyze(r) PROVE Guarded'
  BY <1>9
  DEF Analyze, Compose, Goto, github, Typed, TypeOK, PostDrafted, Drafting, Accepted,
      Guarded, Matches
<1>10. ASSUME NEW r \in Runs, IdempotencyGuard(r) PROVE Guarded'
  <2>1. /\ pc[r] = "idempotency_guard"
        /\ UNCHANGED <<reviews, opts, sha, draft, post, version>>
        /\ \A q \in Runs : q # r => pc'[q] = pc[q] /\ listed'[q] = listed[q]
    BY <1>10
    DEF IdempotencyGuard, GuardDryRun, GuardForced, GuardLists, Goto, github, Typed,
        TypeOK
  <2>2. draft[r].marker.head = sha[r] /\ draft[r].marker.workflow = version.workflow
    BY <2>1, NoneAssumption DEF Typed, PostDrafted, Drafting
  <2>3. listed'[r] <= Len(reviews)
    BY <1>10, FirstPageType
    DEF IdempotencyGuard, GuardDryRun, GuardForced, GuardLists, Typed, TypeOK, Guarded
  <2>4. ASSUME pc'[r] \in {"stale_head_guard", "publish_github_review"} \/ post'[r] # "none",
               ~opts[r].force
        PROVE  \A i \in 1..listed'[r] : ~Matches(i, r)
    <3>1. pc'[r] = "stale_head_guard"
      BY <2>1, <2>4, <1>10
      DEF IdempotencyGuard, GuardDryRun, GuardForced, GuardLists, Goto, Typed, TypeOK, Drafting
    <3>2. ~AlreadyReviewed(r) /\ listed'[r] = FirstPage
      BY <3>1, <2>4, <1>10
      DEF IdempotencyGuard, GuardDryRun, GuardForced, GuardLists, Goto, Typed, TypeOK
    <3>3. \A i \in 1..FirstPage : reviews[i].run # NoRun => reviews[i].marker # NoMarker
      <4> SUFFICES ASSUME NEW i \in 1..FirstPage, reviews[i].run # NoRun
                   PROVE  reviews[i].marker # NoMarker
        OBVIOUS
      <4>1. i \in 1..Len(reviews) /\ reviews[i] \in Reviews
        BY FirstPageType DEF Typed, TypeOK
      <4>2. reviews[i].run \in Runs
        BY <4>1 DEF Reviews
      <4>3. post[reviews[i].run] # "none" /\ reviews[i].marker = draft[reviews[i].run].marker
        BY <4>1 DEF Accepted
      <4> QED
        BY <4>2, <4>3, NoneAssumption DEF Typed, PostDrafted, Drafts
    <3> QED
      BY <3>2, <3>3, <2>2 DEF AlreadyReviewed, Matches
  <2> QED
    BY <2>1, <2>3, <2>4 DEF Guarded, Matches
<1>11. ASSUME NEW r \in Runs, StaleHeadGuard(r) PROVE Guarded'
  <2>1. /\ pc[r] = "stale_head_guard"
        /\ \E to \in {"STALE", "publish_github_review"} : pc' = [pc EXCEPT ![r] = to]
        /\ UNCHANGED <<reviews, opts, draft, listed, post>>
    BY <1>11 DEF StaleHeadGuard, Goto, github
  <2> QED
    BY <2>1 DEF Typed, TypeOK, Guarded, Matches
<1>12. ASSUME NEW r \in Runs, PublishSend(r) PROVE Guarded'
  BY <1>12
  DEF PublishSend, github, Typed, TypeOK, PostDrafted, Drafting, Accepted, Guarded,
      Matches
<1>13. ASSUME NEW r \in Runs, PublishAck(r) PROVE Guarded'
  BY <1>13
  DEF PublishAck, Goto, github, Typed, TypeOK, PostDrafted, Drafting, Accepted, Guarded,
      Matches
<1>14. ASSUME NEW r \in Runs, RaisesError(r) \/ Timeout(r) PROVE Guarded'
  <2>1. /\ \E to \in {"ERROR", "FAILED"} : pc' = [pc EXCEPT ![r] = to]
        /\ UNCHANGED <<reviews, opts, draft, listed, post>>
    BY <1>14 DEF RaisesError, Timeout, github
  <2> QED
    BY <2>1 DEF Typed, TypeOK, Guarded, Matches
<1>15. ASSUME NEW v \in Versions, Restart(v) PROVE Guarded'
  BY <1>15
  DEF Restart, Active, Nodes, github, Typed, TypeOK, PostDrafted, Drafting, Accepted,
      Guarded, Matches
<1>16. CASE UNCHANGED vars
  BY <1>16 DEF vars, Typed, TypeOK, PostDrafted, Drafting, Accepted, Guarded, Matches
<1> QED
  BY <1>1, <1>2, <1>3, <1>4, <1>5, <1>6, <1>7, <1>8, <1>9, <1>10, <1>11, <1>12, <1>13, <1>14, <1>15, <1>16
  DEF Next, GitHubStep, RunStep, Advance

(* The inductive invariant holds at first ...                              *)
LEMMA IInvInit == Init => IInv
  BY TypedInit
  DEF Init, IInv, Drafting, Accepted, Guarded, Matches

(* ... and always.                                                         *)
LEMMA IInvInductive == Spec => []IInv
<1>1. IInv /\ [Next]_vars => IInv'
  BY TypedStep, DraftingStep, AcceptedStep, GuardedStep DEF IInv
<1> QED
  BY IInvInit, <1>1, PTL DEF Spec

(* The idempotency guard's guarantee: a second review of a head by the     *)
(* same workflow was forced, or its run could not see the first one.       *)
THEOREM DuplicatesWereUnseen == Spec => []DuplicateOnlyWhenUnseen
<1>1. IInv => DuplicateOnlyWhenUnseen
  <2> SUFFICES ASSUME IInv, NEW j \in 1..Len(reviews), NEW i \in 1..(j-1),
                      SameHeadAndWorkflow(i, j),
                      ~opts[reviews[j].run].force
               PROVE  listed[reviews[j].run] < i
    BY DEF DuplicateOnlyWhenUnseen
  <2> DEFINE r == reviews[j].run
  <2>1. reviews[j] \in Reviews /\ i \in 1..Len(reviews) /\ i \in Nat
    BY DEF IInv, Typed, TypeOK
  <2>2. r \in Runs
    BY <2>1 DEF Reviews, SameHeadAndWorkflow
  <2>3. post[r] = "accepted" /\ reviews[j].marker = draft[r].marker
    BY <2>1 DEF IInv, Accepted, SameHeadAndWorkflow
  <2>4. Matches(i, r)
    BY <2>3 DEF Matches, SameHeadAndWorkflow
  <2>5. i \notin 1..listed[r]
    BY <2>2, <2>3, <2>4 DEF IInv, Guarded
  <2>6. listed[r] \in Nat
    BY <2>2 DEF IInv, Typed, TypeOK
  <2> QED
    BY <2>1, <2>5, <2>6
<1> QED
  BY <1>1, IInvInductive, PTL

(* What a run reports is what GitHub holds: one review for COMPLETED, none *)
(* ever for DRY_RUN, SKIPPED and STALE, never two for any run.             *)
THEOREM ResultsMatchLedger == Spec => []ResultMatchesLedger
<1>1. IInv => ResultMatchesLedger
  <2> SUFFICES ASSUME IInv, NEW r \in Runs
               PROVE  /\ \A i, j \in ReviewsOf(r) : i = j
                      /\ pc[r] = "COMPLETED" => ReviewsOf(r) # {}
                      /\ pc[r] \in {"DRY_RUN", "SKIPPED", "STALE"} =>
                             ReviewsOf(r) = {} /\ post[r] # "sent"
    BY DEF ResultMatchesLedger
  <2>1. \A i \in ReviewsOf(r) : post[r] = "accepted"
    BY RunsAssumption DEF ReviewsOf, IInv, Accepted
  <2>2. \A i, j \in ReviewsOf(r) : i = j
    BY RunsAssumption DEF ReviewsOf, IInv, Accepted
  <2>3. pc[r] = "COMPLETED" => ReviewsOf(r) # {}
    BY DEF ReviewsOf, IInv, Accepted
  <2> QED
    BY <2>1, <2>2, <2>3 DEF IInv, Drafting
<1> QED
  BY <1>1, IInvInductive, PTL

-----------------------------------------------------------------------------
(* As long as no earlier commit came back, what a run has read is bounded  *)
(* by the head it recorded and the present one; at the stale-head guard    *)
(* the two coincide.                                                       *)
Reading == \A r \in Runs :
    /\ pc[r] \in {"fetch_changed_files", "analyze", "idempotency_guard", "stale_head_guard"}
          => sha[r] <= head /\ \A h \in pages[r] : sha[r] <= h /\ h <= head
    /\ pc[r] \in {"idle", "fetch_pull_request"} => pages[r] = {}
    /\ pc[r] \in {"analyze", "idempotency_guard", "stale_head_guard"} => pages[r] # {}
    /\ pc[r] = "publish_github_review" \/ post[r] # "none" => draft[r].diff = {sha[r]}

DiffInv == Typed /\ Drafting /\ Accepted /\ (reverted \/ Reading)

(* A head read later is no older: pages lie between the recorded head      *)
(* and the present one, and are the present one when the guard passes.     *)
LEMMA ReadingStep == ~reverted' /\ Typed /\ Drafting /\ Reading /\ [Next]_vars => Reading'
<1> SUFFICES ASSUME ~reverted', Typed, Drafting, Reading, [Next]_vars PROVE Reading'
  OBVIOUS
<1>1. ASSUME NEW h \in Shas, Push(h) PROVE Reading'
  <2>1. /\ head \in Int
        /\ \A q \in Runs : sha[q] \in Int /\ pages[q] \subseteq Int
    BY DEF Typed, TypeOK, Shas
  <2>2. head' = head + 1 /\ UNCHANGED <<pc, sha, pages, draft, post>>
    BY <1>1 DEF Push
  <2>3. \A x \in Int : x <= head => x <= head'
    BY <2>1, <2>2
  <2>4. ASSUME NEW q \in Runs,
               pc[q] \in {"fetch_changed_files", "analyze", "idempotency_guard", "stale_head_guard"}
        PROVE  sha[q] <= head' /\ \A x \in pages[q] : sha[q] <= x /\ x <= head'
    BY <2>1, <2>3, <2>4 DEF Reading
  <2> QED
    BY <2>2, <2>4 DEF Reading
<1>2. ASSUME NEW marker \in Quoted \union {NoMarker}, OtherReview(marker) PROVE Reading'
  BY <1>2 DEF OtherReview, Typed, TypeOK, ShaKnown, PostDrafted, Drafting, Reading
<1>3. ASSUME NEW r \in Runs, GitHubAccepts(r) PROVE Reading'
  BY <1>3 DEF GitHubAccepts, Typed, TypeOK, ShaKnown, PostDrafted, Drafting, Reading
<1>4. ASSUME NEW r \in Runs, GitHubRejects(r) PROVE Reading'
  BY <1>4 DEF GitHubRejects, github, Typed, TypeOK, ShaKnown, PostDrafted, Drafting, Reading
<1>5. ASSUME NEW r \in Runs, NEW o \in Options, Begin(r, o) PROVE Reading'
  BY <1>5 DEF Begin, Goto, github, Typed, TypeOK, ShaKnown, PostDrafted, Drafting, Reading
<1>6. ASSUME NEW r \in Runs, FetchPullRequest(r) PROVE Reading'
  <2>1. /\ head \in Int
        /\ \A q \in Runs : sha[q] \in Int /\ pages[q] \subseteq Int
    BY DEF Typed, TypeOK, Shas
  <2>2. /\ pc[r] = "fetch_pull_request"
        /\ pc' = [pc EXCEPT ![r] = "fetch_changed_files"]
        /\ sha' = [sha EXCEPT ![r] = head]
        /\ UNCHANGED <<head, pages, draft, post>>
    BY <1>6 DEF FetchPullRequest, Goto, github
  <2>3. pages[r] = {} /\ post[r] = "none"
    BY <2>2 DEF Reading, Drafting
  <2>4. sha'[r] = head /\ pc'[r] = "fetch_changed_files"
    BY <2>2 DEF Typed, TypeOK
  <2>5. \A q \in Runs : q # r => sha'[q] = sha[q] /\ pc'[q] = pc[q]
    BY <2>2 DEF Typed, TypeOK
  <2> QED
    BY <2>1, <2>2, <2>3, <2>4, <2>5 DEF Reading
<1>7. ASSUME NEW r \in Runs, FetchFilesPage(r) PROVE Reading'
  <2>1. /\ head \in Int
        /\ \A q \in Runs : sha[q] \in Int /\ pages[q] \subseteq Int
    BY DEF Typed, TypeOK, Shas
  <2>2. /\ pc[r] = "fetch_changed_files"
        /\ pages' = [pages EXCEPT ![r] = @ \union {head}]
        /\ UNCHANGED <<head, sha, draft, post>>
        /\ pc'[r] \in {"fetch_changed_files", "analyze"}
        /\ \A q \in Runs : q # r => pc'[q] = pc[q]
    BY <1>7 DEF FetchFilesPage, github, Typed, TypeOK
  <2>3. post[r] = "none"
    BY <2>2 DEF Drafting
  <2>4. pages'[r] = pages[r] \union {head} /\ \A q \in Runs : q # r => pages'[q] = pages[q]
    BY <2>2 DEF Typed, TypeOK
  <2>5. sha[r] <= head /\ \A x \in pages'[r] : sha[r] <= x /\ x <= head
    BY <2>1, <2>2, <2>4 DEF Reading
  <2> QED
    BY <2>2, <2>3, <2>4, <2>5 DEF Reading
<1>8. ASSUME NEW r \in Runs, FetchLastPage(r) PROVE Reading'
  <2>1. /\ head \in Int
        /\ \A q \in Runs : sha[q] \in Int /\ pages[q] \subseteq Int
    BY DEF Typed, TypeOK, Shas
  <2>2. /\ pc[r] = "fetch_changed_files"
        /\ pages' = [pages EXCEPT ![r] = @ \union {head}]
        /\ UNCHANGED <<head, sha, draft, post>>
        /\ pc'[r] \in {"fetch_changed_files", "analyze"}
        /\ \A q \in Runs : q # r => pc'[q] = pc[q]
    BY <1>8 DEF FetchLastPage, Goto, github, Typed, TypeOK
  <2>3. post[r] = "none"
    BY <2>2 DEF Drafting
  <2>4. pages'[r] = pages[r] \union {head} /\ \A q \in Runs : q # r => pages'[q] = pages[q]
    BY <2>2 DEF Typed, TypeOK
  <2>5. sha[r] <= head /\ \A x \in pages'[r] : sha[r] <= x /\ x <= head
    BY <2>1, <2>2, <2>4 DEF Reading
  <2> QED
    BY <2>2, <2>3, <2>4, <2>5 DEF Reading
<1>9. ASSUME NEW r \in Runs, Analyze(r) PROVE Reading'
  BY <1>9
  DEF Analyze, Compose, Goto, github, Typed, TypeOK, ShaKnown, PostDrafted, Drafting,
      Reading
<1>10. ASSUME NEW r \in Runs, IdempotencyGuard(r) PROVE Reading'
  BY <1>10
  DEF IdempotencyGuard, GuardDryRun, GuardForced, GuardLists, Goto, github, Typed,
      TypeOK, ShaKnown, PostDrafted, Drafting, Reading
<1>11. ASSUME NEW r \in Runs, StaleHeadGuard(r) PROVE Reading'
  <2>1. /\ head \in Int
        /\ \A q \in Runs : sha[q] \in Int /\ pages[q] \subseteq Int
    BY DEF Typed, TypeOK, Shas
  <2>2. /\ pc[r] = "stale_head_guard"
        /\ pc' = [pc EXCEPT ![r] = IF head # sha[r] THEN "STALE" ELSE "publish_github_review"]
        /\ UNCHANGED <<head, sha, pages, draft, post>>
    BY <1>11 DEF StaleHeadGuard, Goto, github
  <2>3. pc'[r] \in {"STALE", "publish_github_review"} /\ \A q \in Runs : q # r => pc'[q] = pc[q]
    BY <2>2 DEF Typed, TypeOK
  <2>4. post[r] = "none"
    BY <2>2 DEF Drafting
  <2>5. ASSUME pc'[r] = "publish_github_review" PROVE draft[r].diff = {sha[r]}
    <3>1. head = sha[r]
      BY <2>2, <2>5 DEF Typed, TypeOK
    <3>2. \A x \in pages[r] : x = sha[r]
      BY <2>1, <2>2, <3>1 DEF Reading
    <3>3. pages[r] = {sha[r]}
      BY <2>2, <3>2 DEF Reading
    <3>4. draft[r] # NoDraft
      BY <2>2, NoneAssumption DEF Typed, PostDrafted
    <3> QED
      BY <3>3, <3>4 DEF Drafting
  <2> QED
    BY <2>2, <2>3, <2>4, <2>5 DEF Reading
<1>12. ASSUME NEW r \in Runs, PublishSend(r) PROVE Reading'
  BY <1>12 DEF PublishSend, github, Typed, TypeOK, ShaKnown, PostDrafted, Drafting, Reading
<1>13. ASSUME NEW r \in Runs, PublishAck(r) PROVE Reading'
  BY <1>13
  DEF PublishAck, Goto, github, Typed, TypeOK, ShaKnown, PostDrafted, Drafting, Reading
<1>14. ASSUME NEW r \in Runs, RaisesError(r) \/ Timeout(r) PROVE Reading'
  <2>1. /\ \E to \in {"ERROR", "FAILED"} : pc' = [pc EXCEPT ![r] = to]
        /\ UNCHANGED <<head, sha, pages, draft, post>>
    BY <1>14 DEF RaisesError, Timeout, github
  <2>2. pc'[r] \in {"ERROR", "FAILED"} /\ \A q \in Runs : q # r => pc'[q] = pc[q]
    BY <2>1 DEF Typed, TypeOK
  <2> QED
    BY <2>1, <2>2 DEF Reading
<1>15. ASSUME NEW v \in Versions, Restart(v) PROVE Reading'
  BY <1>15
  DEF Restart, Active, Nodes, github, Typed, TypeOK, ShaKnown, PostDrafted, Drafting,
      Reading
<1>16. CASE UNCHANGED vars
  BY <1>16 DEF vars, Typed, TypeOK, ShaKnown, PostDrafted, Drafting, Reading
<1> QED
  BY <1>1, <1>2, <1>3, <1>4, <1>5, <1>6, <1>7, <1>8, <1>9, <1>10, <1>11, <1>12, <1>13, <1>14, <1>15, <1>16
  DEF Next, GitHubStep, RunStep, Advance

(* A force-push back is remembered.                                        *)
LEMMA RevertedStep == reverted /\ [Next]_vars => reverted'
  BY DEF Next, vars, github, GitHubStep, Push, OtherReview, GitHubAccepts, GitHubRejects, RunStep,
         Begin, FetchFilesPage, Advance, FetchPullRequest, FetchLastPage, Analyze,
         IdempotencyGuard, StaleHeadGuard, PublishSend, PublishAck, RaisesError, Timeout,
         Restart

(* Nothing has been read at first.                                         *)
LEMMA DiffInvInit == Init => DiffInv
  BY TypedInit DEF Init, DiffInv, Drafting, Accepted, Reading

(* A published review was computed from the diff of its own commit, unless *)
(* a force-push has brought back an earlier commit.                        *)
THEOREM ReviewedDiffs == Spec => []ReviewedDiffIsPublishedHead
<1>1. DiffInv /\ [Next]_vars => DiffInv'
  BY TypedStep, DraftingStep, AcceptedStep, ReadingStep, RevertedStep DEF DiffInv
<1>2. DiffInv => ReviewedDiffIsPublishedHead
  <2> SUFFICES ASSUME DiffInv, ~reverted, NEW i \in 1..Len(reviews), reviews[i].run # NoRun
               PROVE  reviews[i].diff = {reviews[i].marker.head}
    BY DEF ReviewedDiffIsPublishedHead
  <2> DEFINE r == reviews[i].run
  <2>1. reviews[i] \in Reviews
    BY DEF DiffInv, Typed, TypeOK
  <2>2. r \in Runs
    BY <2>1 DEF Reviews
  <2>3. /\ post[r] = "accepted"
        /\ reviews[i].marker = draft[r].marker
        /\ reviews[i].diff = draft[r].diff
    BY DEF DiffInv, Accepted
  <2>4. draft[r] # NoDraft
    BY <2>2, <2>3, NoneAssumption DEF DiffInv, Typed, PostDrafted
  <2> QED
    BY <2>2, <2>3, <2>4 DEF DiffInv, Drafting, Reading
<1> QED
  BY DiffInvInit, <1>1, <1>2, PTL DEF Spec
=============================================================================
