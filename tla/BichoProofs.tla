---------------------------- MODULE BichoProofs ----------------------------
(***************************************************************************)
(* Bicho implements ReviewLedger, for any number of commits, deliveries,   *)
(* tasks, workflow versions and reviews of others, where runs are one at a *)
(* time and the list of reviews fits in the page they read.                *)
(***************************************************************************)
EXTENDS Bicho, FiniteSetTheorems, SequenceTheorems, TLAPS

RP == INSTANCE ReviewRunProofs
BP == INSTANCE BackgroundReviewRunnerProofs WITH Deliveries <- EventIds

(* The conditions: as deployed, webhook runs alone, in one slot; commits   *)
(* are not brought back, and GitHub takes no review of a run that is over. *)
WebhookAlone ==
    /\ Concurrency = 1
    /\ ManualRuns = {}
    /\ ~Reverts /\ ~LateAccepts

FitsInPage == Len(reviews) <= PageSize

-----------------------------------------------------------------------------
(* The inductive invariant, beside those of the runs and of the runner.    *)

(* A run is under way only while its task runs, and begins with it.        *)
TaskIsRun == \A t \in Tasks :
    /\ pc[t] \in R!Nodes => state[t] = "running"
    /\ state[t] \in {"none", "scheduled", "waiting", "woken"} => pc[t] = "idle"

(* The options of a webhook's run neither skip the guard nor publishing.   *)
Unforced == \A r \in Runs : ~opts[r].force

(* What a run past the guard did not list, it published, or others wrote.  *)
ListedAll == \A r \in Runs :
    pc[r] \in {"stale_head_guard", "publish_github_review"} =>
        \A i \in 1..Len(reviews) :
            i > listed[r] => reviews[i].run = NoRun \/ reviews[i].run = r

(* What a run recorded as the head is or was the head.                     *)
HeadsPushed == \A r \in Runs : sha[r] <= head

IInv ==
    /\ RP!IInv /\ BP!IInv
    /\ TaskIsRun /\ Unforced /\ ListedAll /\ HeadsPushed

-----------------------------------------------------------------------------
(* What the runs assume of their constants.                                *)
LEMMA RunConstants ==
    /\ NoRun \notin Runs
    /\ MaxHead \in Nat \ {0} /\ MaxReviews \in Nat /\ PageSize \in Nat \ {0}
    /\ Reverts \in BOOLEAN /\ LateAccepts \in BOOLEAN
    /\ NoMarker \notin RP!Markers /\ NoDraft \notin RP!Drafts
    /\ Quoted \subseteq RP!Markers
  BY NamesAssumption, BoundsAssumption, SwitchesAssumption, NoneAssumption,
     QuotedAssumption
  DEF R!Markers, R!Drafts, R!Shas, RP!Markers, RP!Drafts, RP!Shas

(* What the runner assumes of its constants.                               *)
LEMMA RunnerConstants ==
    /\ NoHeader \notin EventIds
    /\ Events \subseteq [id: EventIds \union {NoHeader},
                          reviewable: BOOLEAN, complete: BOOLEAN]
    /\ MaxSize \in Nat \ {0} /\ MaxRegistered \in Nat
    /\ Concurrency \in Nat \ {0} /\ MaxTasks \in Nat
  BY NamesAssumption, BoundsAssumption DEF Events

(* What a run does next is the same in both instances of ReviewRun.        *)
LEMMA AdvanceFollows ==
    ASSUME NEW r \in Runs, R!Advance(r)
    PROVE  RP!Advance(r)
  BY DEF R!Advance, RP!Advance, R!FetchPullRequest, RP!FetchPullRequest,
     R!FetchLastPage, RP!FetchLastPage, R!Analyze, RP!Analyze, R!Compose, RP!Compose,
     R!IdempotencyGuard, RP!IdempotencyGuard, R!GuardDryRun, RP!GuardDryRun,
     R!GuardForced, RP!GuardForced, R!GuardLists, RP!GuardLists, R!AlreadyReviewed,
     RP!AlreadyReviewed, R!FirstPage, RP!FirstPage, R!StaleHeadGuard, RP!StaleHeadGuard,
     R!PublishSend, RP!PublishSend, R!PublishAck, RP!PublishAck, R!Goto, RP!Goto,
     R!github, RP!github

(* Every step is a step of ReviewRun or leaves the runs alone.             *)
LEMMA RunsFollow == [Next]_vars => [RP!Next]_(RP!vars)
<1> SUFFICES ASSUME [Next]_vars PROVE RP!Next \/ UNCHANGED RP!vars
  OBVIOUS
<1> USE DEF RP!vars, runVars
<1>1. ASSUME NEW h \in R!Shas, Push(h) PROVE RP!Next
  <2>1. h \in RP!Shas /\ RP!Push(h)
    BY <1>1 DEF Push, R!Push, RP!Push, R!Shas, RP!Shas
  <2> QED
    BY <2>1 DEF RP!Next, RP!GitHubStep
<1>2. ASSUME OtherReview PROVE RP!Next
  BY <1>2 DEF OtherReview, R!OtherReview, RP!OtherReview, RP!Next, RP!GitHubStep
<1>3. ASSUME NEW r \in Runs, NEW o \in R!Options, R!Begin(r, o) PROVE RP!Next
  <2>1. o \in RP!Options /\ RP!Begin(r, o)
    BY <1>3 DEF R!Begin, RP!Begin, R!Goto, RP!Goto, R!Options, RP!Options, R!github, RP!github
  <2> QED
    BY <2>1 DEF RP!Next, RP!RunStep
<1>4. ASSUME NEW r \in Runs, R!Advance(r) PROVE RP!Next
  BY <1>4, AdvanceFollows DEF RP!Next, RP!RunStep
<1>5. ASSUME NEW r \in Runs, FetchFilesPage(r) PROVE RP!Next
  <2>1. RP!FetchFilesPage(r)
    BY <1>5 DEF FetchFilesPage, R!FetchFilesPage, RP!FetchFilesPage, R!github, RP!github
  <2> QED
    BY <2>1 DEF RP!Next, RP!RunStep
<1>6. ASSUME NEW r \in Runs, GitHubAccepts(r) \/ GitHubRejects(r) PROVE RP!Next
  <2>1. RP!GitHubAccepts(r) \/ RP!GitHubRejects(r)
    BY <1>6 DEF GitHubAccepts, R!GitHubAccepts, RP!GitHubAccepts, GitHubRejects,
       R!GitHubRejects, RP!GitHubRejects, R!github, RP!github, R!Active, RP!Active,
       R!Nodes, RP!Nodes
  <2> QED
    BY <2>1 DEF RP!Next, RP!GitHubStep
<1>7. ASSUME NEW r \in Runs, Fails(r) PROVE RP!Next
  <2>1. RP!RaisesError(r) \/ RP!Timeout(r)
    BY <1>7 DEF Fails, R!RaisesError, RP!RaisesError, R!Timeout, RP!Timeout, R!github,
       RP!github, R!Active, RP!Active, R!Nodes, RP!Nodes
  <2> QED
    BY <2>1 DEF RP!Next, RP!RunStep
<1>8. ASSUME NEW v \in R!Versions, Restart(v) PROVE RP!Next
  <2>1. v \in RP!Versions /\ RP!Restart(v)
    BY <1>8 DEF Restart, R!Restart, RP!Restart, R!Versions, RP!Versions, R!github, RP!github,
       R!Active, RP!Active, R!Nodes, RP!Nodes
  <2> QED
    BY <2>1 DEF RP!Next
<1>9. ASSUME NEW t \in Tasks, TaskBegins(t) PROVE RP!Next
  <2>1. t \in Runs /\ WebhookOptions \in R!Options
    BY DEF Runs, WebhookOptions, R!Options
  <2> QED
    BY <1>9, <2>1, <1>3 DEF TaskBegins
<1>10. ASSUME NEW m \in ManualRuns, ManualBegins(m) PROVE RP!Next
  BY <1>10, <1>3 DEF ManualBegins, Runs
<1> QED
  BY <1>1, <1>2, <1>4, <1>5, <1>6, <1>7, <1>8, <1>9, <1>10
  DEF Next, vars, MarkReady, ConvertToDraft, Receive, TaskQueues, Advance, Fault

(* The two instances of BackgroundReviewRunner wake alike.                 *)
LEMMA SameWakeUps ==
    ASSUME NEW st, NEW free, NEW n, B!WakeUpNext(st, free, n)
    PROVE  BP!WakeUpNext(st, free, n)
  BY DEF B!WakeUpNext, BP!WakeUpNext, B!Asleep, BP!Asleep, B!Tasks, BP!Tasks,
     B!Cardinality, BP!Cardinality

(* Every step is a step of BackgroundReviewRunner or leaves it alone.      *)
LEMMA RunnerFollows == [Next]_vars => [BP!Next]_(BP!vars)
<1> SUFFICES ASSUME [Next]_vars PROVE BP!Next \/ UNCHANGED BP!vars
  OBVIOUS
<1> USE DEF BP!vars, runnerVars
<1>1. ASSUME NEW e \in Events, B!Webhook(e) PROVE BP!Next
  <2>1. BP!Webhook(e)
    BY <1>1 DEF B!Webhook, BP!Webhook, B!Register, BP!Register, B!Schedule, BP!Schedule,
       B!deliveries, BP!deliveries, B!semaphore, BP!semaphore, B!server, BP!server
  <2> QED
    BY <2>1 DEF BP!Next
<1>2. ASSUME NEW t \in Tasks,
             B!StartRunning(t) \/ B!Resume(t) \/ B!StartWaiting(t) \/ B!Discard(t)
                \/ B!FinishReview(t)
      PROVE  BP!Next
  <2>1. t \in BP!Tasks
    BY DEF Tasks, BP!Tasks
  <2>2. BP!TaskStep(t)
    BY <1>2, SameWakeUps DEF BP!TaskStep, B!StartRunning, BP!StartRunning, B!Resume, BP!Resume,
       B!StartWaiting, BP!StartWaiting, B!Discard, BP!Discard, B!FinishReview,
       BP!FinishReview, B!NextToStart, BP!NextToStart, B!deliveries, BP!deliveries,
       B!semaphore, BP!semaphore, B!server, BP!server
  <2> QED
    BY <2>1, <2>2 DEF BP!Next
<1>3. ASSUME NEW r \in Runs, Finishes(r) PROVE BP!Next \/ UNCHANGED BP!vars
  BY <1>2, <1>3 DEF Finishes
<1>4. ASSUME B!Restart PROVE BP!Next
  BY <1>4 DEF B!Restart, BP!Restart, B!Forget, BP!Forget, B!Tasks, BP!Tasks,
     B!Unfinished, BP!Unfinished, BP!Next
<1> QED
  BY <1>1, <1>2, <1>3, <1>4
  DEF Next, vars, Push, MarkReady, ConvertToDraft, OtherReview, Receive, TaskBegins,
      TaskQueues, ManualBegins, Advance, FetchFilesPage, GitHubAccepts, Fault, Fails,
      GitHubRejects, Restart

(* The first states are first states of both.                              *)
LEMMA InitsFollow == Init => RP!Init /\ BP!Init
<1>1. Init => RP!Init
  BY DEF Init, R!Init, RP!Init, R!Versions, RP!Versions
<1>2. Init => BP!Init
  BY DEF Init, B!Init, BP!Init, B!InitMemory, BP!InitMemory, B!Tasks, BP!Tasks
<1> QED
  BY <1>1, <1>2

(* The composition adds nothing to what its parts may do, so that all that *)
(* is proved of ReviewRun and of BackgroundReviewRunner holds of runs that *)
(* begin and end as the tasks of the runner, and of manual ones beside.    *)
THEOREM PartsBehave == Spec => RP!Spec /\ BP!Spec
<1>1. Init => RP!Init /\ BP!Init
  BY InitsFollow
<1>2. [Next]_vars => [RP!Next]_(RP!vars) /\ [BP!Next]_(BP!vars)
  BY RunsFollow, RunnerFollows
<1> QED
  BY <1>1, <1>2, PTL DEF Spec, RP!Spec, BP!Spec

(* So the invariants of both, proved with them, are kept here.             *)
LEMMA BothFollow == IInv /\ [Next]_vars => RP!IInv' /\ BP!IInv'
<1> SUFFICES ASSUME IInv, [Next]_vars PROVE RP!IInv' /\ BP!IInv'
  OBVIOUS
<1>1. [RP!Next]_(RP!vars) /\ [BP!Next]_(BP!vars)
  BY RunsFollow, RunnerFollows
<1>2. RP!IInv'
  BY <1>1, RunConstants, RP!TypedStep, RP!DraftingStep, RP!AcceptedStep, RP!GuardedStep
  DEF IInv, RP!IInv
<1>3. BP!IInv'
  BY <1>1, RunnerConstants, BP!NextInvariant DEF IInv
<1> QED
  BY <1>2, <1>3

(* The invariant holds at first.                                           *)
LEMMA InitInvariant == Init => IInv
<1> SUFFICES ASSUME Init PROVE IInv
  OBVIOUS
<1>1. RP!IInv
  BY InitsFollow, RunConstants, RP!IInvInit
<1>2. BP!IInv
  BY InitsFollow, RunnerConstants, BP!InitInvariant
<1>3. TaskIsRun /\ Unforced /\ ListedAll /\ HeadsPushed
  BY DEF Init, R!Init, R!Nodes, TaskIsRun, Unforced, ListedAll, HeadsPushed, Runs
<1> QED
  BY <1>1, <1>2, <1>3 DEF IInv

-----------------------------------------------------------------------------
(* The types, and what the steps of the runs do to pc.                     *)
Types ==
    /\ head \in Nat
    /\ pc \in [Runs -> {"idle"} \union R!Nodes \union R!Outcomes]
    /\ opts \in [Runs -> R!Options]
    /\ sha \in [Runs -> Nat]
    /\ listed \in [Runs -> Nat]
    /\ Len(reviews) \in Nat
    /\ state \in [Tasks -> BP!States]
    /\ created \in Nat

(* The types follow from those of the components.                          *)
LEMMA TypesHold == IInv => Types
<1> SUFFICES ASSUME IInv PROVE Types
  OBVIOUS
<1>1. RP!TypeOK /\ BP!TypeOK
  BY DEF IInv, RP!IInv, RP!Typed, BP!IInv, BP!Bookkeeping
<1>2. head \in Nat /\ sha \in [Runs -> Nat] /\ listed \in [Runs -> Nat] /\ opts \in [Runs -> R!Options]
  BY <1>1, BoundsAssumption DEF RP!TypeOK, RP!Shas, RP!Options, R!Options
<1>3. pc \in [Runs -> {"idle"} \union R!Nodes \union R!Outcomes]
  BY <1>1 DEF RP!TypeOK, RP!Nodes, R!Nodes, RP!Outcomes, R!Outcomes
<1>4. Len(reviews) \in Nat
  BY <1>1 DEF RP!TypeOK
<1>5. state \in [Tasks -> BP!States] /\ created \in Nat
  BY <1>1, BoundsAssumption DEF BP!TypeOK, BP!Tasks, Tasks, BP!States, BP!Unfinished
<1> QED
  BY <1>2, <1>3, <1>4, <1>5 DEF Types

Moves(r) ==
    /\ pc[r] \in R!Nodes
    /\ \E x \in R!Nodes \union R!Outcomes : pc' = [pc EXCEPT ![r] = x]

(* A step of a run takes it from a node to a node or an outcome ...        *)
LEMMA AdvanceMoves ==
    ASSUME Types, NEW r \in Runs, R!Advance(r)
    PROVE  Moves(r)
<1> USE DEF R!Goto, R!Nodes, R!Outcomes, Moves
<1>1. CASE R!PublishSend(r)
  <2>1. pc' = [pc EXCEPT ![r] = "publish_github_review"]
    BY <1>1 DEF R!PublishSend, Types
  <2> QED
    BY <1>1, <2>1 DEF R!PublishSend
<1>2. CASE R!IdempotencyGuard(r)
  BY <1>2 DEF R!IdempotencyGuard, R!GuardDryRun, R!GuardForced, R!GuardLists
<1>3. CASE R!FetchPullRequest(r) \/ R!FetchLastPage(r) \/ R!Analyze(r)
  BY <1>3 DEF R!FetchPullRequest, R!FetchLastPage, R!Analyze
<1>4. CASE R!StaleHeadGuard(r) \/ R!PublishAck(r)
  BY <1>4 DEF R!StaleHeadGuard, R!PublishAck
<1> QED
  BY <1>1, <1>2, <1>3, <1>4 DEF R!Advance

(* ... and so does a failure.                                              *)
LEMMA FailureMoves ==
    ASSUME NEW r \in Runs, R!RaisesError(r) \/ R!Timeout(r)
    PROVE  Moves(r)
  BY DEF R!RaisesError, R!Timeout, R!Active, R!Nodes, R!Outcomes, Moves

(* A wake-up changes only tasks asleep.                                    *)
LEMMA OthersKeepState ==
    ASSUME NEW st, NEW free, NEW n, B!WakeUpNext(st, free, n), NEW u \in Tasks
    PROVE  state'[u] = st[u] \/ (st[u] = "waiting" /\ state'[u] = "woken")
  BY DEF B!WakeUpNext, B!Asleep, B!Tasks, Tasks

(* A step of a run that goes on leaves its task alone; one that ends it    *)
(* finishes the task.                                                      *)
LEMMA MoveStep ==
    ASSUME Types, TaskIsRun, NEW r \in Runs, Moves(r), Finishes(r)
    PROVE  TaskIsRun'
<1>1. PICK x \in R!Nodes \union R!Outcomes : pc' = [pc EXCEPT ![r] = x]
  BY DEF Moves
<1> SUFFICES ASSUME NEW t \in Tasks
             PROVE  /\ pc'[t] \in R!Nodes => state'[t] = "running"
                    /\ state'[t] \in {"none", "scheduled", "waiting", "woken"} => pc'[t] = "idle"
  BY DEF TaskIsRun, R!Nodes
<1>2. /\ pc[t] \in R!Nodes => state[t] = "running"
      /\ state[t] \in {"none", "scheduled", "waiting", "woken"} => pc[t] = "idle"
  BY DEF TaskIsRun
<1>3. t \in Runs /\ pc'[r] = x /\ (t # r => pc'[t] = pc[t])
  BY <1>1 DEF Types, Runs
<1>4. CASE r \in Tasks /\ x \in R!Outcomes
  <2>1. B!FinishReview(r)
    BY <1>3, <1>4 DEF Finishes
  <2>2. state'[t] = [state EXCEPT ![r] = "finished"][t]
        \/ ([state EXCEPT ![r] = "finished"][t] = "waiting" /\ state'[t] = "woken")
    BY <2>1, OthersKeepState DEF B!FinishReview
  <2>3. CASE t = r
    BY <2>2, <2>3, <1>3, <1>4 DEF Types, R!Nodes, R!Outcomes
  <2>4. CASE t # r
    BY <2>2, <2>4, <1>2, <1>3 DEF Types, R!Nodes
  <2> QED
    BY <2>3, <2>4
<1>5. CASE ~(r \in Tasks /\ x \in R!Outcomes)
  <2>1. state' = state
    BY <1>3, <1>5 DEF Finishes, runnerVars
  <2>2. t = r => x \in R!Nodes /\ state[t] = "running"
    BY <1>2, <1>5 DEF Moves
  <2> QED
    BY <2>1, <2>2, <1>2, <1>3
<1> QED
  BY <1>4, <1>5

(* A run goes on only while its task has the slot, in every step.          *)
LEMMA TaskIsRunStep ==
    ASSUME IInv, Types, [Next]_vars
    PROVE  TaskIsRun'
<1> USE DEF R!Nodes
<1>0. TaskIsRun /\ \A t \in Tasks : t \in Runs
  BY DEF IInv, Runs
<1>1. CASE UNCHANGED <<pc, state>>
  BY <1>0, <1>1 DEF TaskIsRun
<1>2. ASSUME NEW e \in Events, B!Webhook(e), UNCHANGED pc PROVE TaskIsRun'
  <2>1. CASE e.complete
    <3>1. state' = [state EXCEPT ![created + 1] = "scheduled"] /\ created + 1 \in Nat
      BY <1>2, <2>1 DEF B!Webhook, B!Schedule, Types
    <3>2. \A t \in Tasks : t = created + 1 => state[t] = "none"
      BY DEF IInv, BP!IInv, BP!Bookkeeping, BP!CreatedInOrder, BP!Tasks, Tasks, Types
    <3> QED
      BY <1>0, <1>2, <3>1, <3>2 DEF TaskIsRun, Types
  <2>2. CASE ~e.complete
    BY <1>1, <1>2, <2>2 DEF B!Webhook
  <2> QED
    BY <2>1, <2>2
<1>3. ASSUME NEW t \in Tasks, TaskBegins(t) PROVE TaskIsRun'
  <2>1. pc' = [pc EXCEPT ![t] = "fetch_pull_request"]
    BY <1>3 DEF TaskBegins, R!Begin, R!Goto
  <2>2. state[t] \in {"scheduled", "woken"}
    BY <1>3 DEF TaskBegins, B!StartRunning, B!NextToStart, B!Resume
  <2> SUFFICES ASSUME NEW u \in Tasks
               PROVE  /\ pc'[u] \in R!Nodes => state'[u] = "running"
                      /\ state'[u] \in {"none", "scheduled", "waiting", "woken"} => pc'[u] = "idle"
    BY DEF TaskIsRun
  <2>3. \/ state'[u] = [state EXCEPT ![t] = "running"][u]
        \/ ([state EXCEPT ![t] = "running"][u] = "waiting" /\ state'[u] = "woken")
    BY <1>3, OthersKeepState DEF TaskBegins, B!StartRunning, B!Resume
  <2> QED
    BY <1>0, <2>1, <2>3 DEF TaskIsRun, Types
<1>4. ASSUME NEW t \in Tasks, TaskQueues(t) PROVE TaskIsRun'
  <2>1. CASE B!StartWaiting(t)
    BY <1>0, <1>4, <2>1 DEF TaskQueues, runVars, B!StartWaiting, B!NextToStart, TaskIsRun, Types
  <2>2. CASE B!Discard(t)
    BY <1>1, <1>4, <2>2 DEF TaskQueues, runVars, B!Discard
  <2> QED
    BY <1>4, <2>1, <2>2 DEF TaskQueues
<1>5. ASSUME NEW r \in Runs, Advance(r) \/ Fails(r) PROVE TaskIsRun'
  BY <1>0, <1>5, AdvanceMoves, FailureMoves, MoveStep DEF Advance, Fails
<1>6. ASSUME NEW m \in ManualRuns, ManualBegins(m), ManualRuns \intersect Tasks = {}
      PROVE  TaskIsRun'
  <2>1. pc' = [pc EXCEPT ![m] = "fetch_pull_request"] /\ UNCHANGED state
    BY <1>6 DEF ManualBegins, R!Begin, R!Goto, runnerVars
  <2> QED
    BY <1>0, <1>6, <2>1 DEF TaskIsRun, Types
<1>7. ASSUME NEW v \in R!Versions, Restart(v) PROVE TaskIsRun'
  <2>1. pc' = [r \in Runs |-> IF pc[r] \in R!Nodes THEN "LOST" ELSE pc[r]]
    BY <1>7 DEF Restart, R!Restart, R!Active
  <2>2. \A t \in Tasks : state'[t] = IF state[t] \in B!Unfinished THEN "lost" ELSE state[t]
    BY <1>7 DEF Restart, B!Restart, B!Tasks, Tasks
  <2> QED
    BY <1>0, <2>1, <2>2 DEF TaskIsRun, Types, B!Unfinished
<1> QED
  <2>1. ASSUME NEW h \in R!Shas, Push(h) PROVE TaskIsRun'
    BY <1>1, <2>1 DEF Push, R!Push, runnerVars
  <2>2. ASSUME MarkReady \/ ConvertToDraft \/ OtherReview PROVE TaskIsRun'
    BY <1>1, <2>2 DEF MarkReady, ConvertToDraft, OtherReview, R!OtherReview, runVars, runnerVars
  <2>3. ASSUME NEW e \in Events, Receive(e) PROVE TaskIsRun'
    BY <1>1, <1>2, <2>3 DEF Receive, runVars, runnerVars
  <2>4. ASSUME NEW r \in Runs, FetchFilesPage(r) \/ GitHubAccepts(r) \/ GitHubRejects(r)
        PROVE  TaskIsRun'
    BY <1>1, <2>4 DEF FetchFilesPage, R!FetchFilesPage, GitHubAccepts, R!GitHubAccepts,
                      GitHubRejects, R!GitHubRejects, runnerVars
  <2> QED
    BY <1>1, <1>3, <1>4, <1>5, <1>6, <1>7, <2>1, <2>2, <2>3, <2>4, NamesAssumption
    DEF Next, vars, runVars, runnerVars, Fault

-----------------------------------------------------------------------------
(* One slot: no two tasks run at once.                                     *)
LEMMA OneRunning ==
    ASSUME WebhookAlone, IInv, NEW t \in Tasks, NEW u \in Tasks,
           state[t] = "running", state[u] = "running"
    PROVE  t = u
<1> DEFINE S == {x \in Tasks : state[x] = "running"}
           T == {x \in Tasks : state[x] = "woken"}
<1>1. \A A : BP!Cardinality(A) = Cardinality(A)
  BY DEF BP!Cardinality, Cardinality
<1>2. value + Cardinality(S) + Cardinality(T) = 1 /\ value \in Nat
  <2>1. BP!SlotsConserved /\ BP!TypeOK
    BY DEF IInv, BP!IInv, BP!Bookkeeping
  <2>2. value + BP!Cardinality(S) + BP!Cardinality(T) = 1
    BY <2>1 DEF BP!SlotsConserved, BP!Running, BP!InState, BP!Tasks, Tasks, WebhookAlone
  <2>3. value \in Nat
    BY <2>1, BoundsAssumption DEF BP!TypeOK
  <2> QED
    BY <1>1, <2>2, <2>3
<1>3. \A A \in SUBSET Tasks : IsFiniteSet(A) /\ Cardinality(A) \in Nat
  <2>1. IsFiniteSet(Tasks)
    BY BoundsAssumption, FS_Interval DEF Tasks
  <2> QED
    BY <2>1, FS_Subset, FS_CardinalityType
<1>4. IsFiniteSet(S) /\ Cardinality(S) \in Nat /\ Cardinality(T) \in Nat
  BY <1>3
<1>5. Cardinality(S) <= 1
  <2> HIDE DEF S, T
  <2> QED
    BY <1>2, <1>4
<1> SUFFICES ASSUME t # u PROVE FALSE
  OBVIOUS
<1>6. {t, u} \in SUBSET S /\ Cardinality({t, u}) = 2
  <2>1. IsFiniteSet({t}) /\ Cardinality({t}) = 1
    BY FS_Singleton
  <2>2. Cardinality({t} \union {u}) = 2
    BY <2>1, FS_AddElement
  <2>3. {t, u} = {t} \union {u}
    OBVIOUS
  <2> QED
    BY <2>2, <2>3
<1>7. Cardinality({t, u}) <= Cardinality(S)
  BY <1>4, <1>6, FS_Subset
<1> HIDE DEF S
<1> QED
  BY <1>4, <1>5, <1>6, <1>7

(* Only a task sets the options of its run, and none forces it.            *)
LEMMA UnforcedStep ==
    ASSUME WebhookAlone, IInv, Types, [Next]_vars
    PROVE  Unforced'
<1>0. Unforced
  BY DEF IInv
<1>1. CASE UNCHANGED opts
  BY <1>0, <1>1 DEF Unforced
<1>2. ASSUME NEW t \in Tasks, TaskBegins(t) PROVE Unforced'
  <2>1. opts' = [opts EXCEPT ![t] = WebhookOptions]
    BY <1>2 DEF TaskBegins, R!Begin
  <2> QED
    BY <1>0, <2>1 DEF Unforced, WebhookOptions, Types
<1>3. ASSUME NEW r \in Runs, R!Advance(r) PROVE UNCHANGED opts
  BY <1>3 DEF R!Advance, R!FetchPullRequest, R!FetchLastPage, R!Analyze, R!IdempotencyGuard,
              R!StaleHeadGuard, R!PublishSend, R!PublishAck
<1> QED
  BY <1>1, <1>2, <1>3
  DEF Next, vars, runVars, Push, R!Push, MarkReady, ConvertToDraft, OtherReview, R!OtherReview,
      Receive, TaskQueues, Advance, FetchFilesPage, R!FetchFilesPage, GitHubAccepts,
      R!GitHubAccepts, Fault, Fails, R!RaisesError, R!Timeout, GitHubRejects,
      R!GitHubRejects, Restart, R!Restart, WebhookAlone

(* Without commits brought back, the head only moves on.                   *)
LEMMA HeadsPushedStep ==
    ASSUME WebhookAlone, IInv, Types, [Next]_vars
    PROVE  HeadsPushed'
<1>0. HeadsPushed
  BY DEF IInv
<1>1. CASE UNCHANGED <<head, sha>>
  BY <1>0, <1>1 DEF HeadsPushed
<1>2. ASSUME NEW h \in R!Shas, Push(h) PROVE HeadsPushed'
  <2>1. head' = head + 1 /\ UNCHANGED sha
    BY <1>2 DEF Push, R!Push, WebhookAlone
  <2> QED
    BY <1>0, <2>1 DEF HeadsPushed, Types
<1>3. ASSUME NEW r \in Runs, R!FetchPullRequest(r) PROVE HeadsPushed'
  <2>1. sha' = [sha EXCEPT ![r] = head] /\ UNCHANGED head
    BY <1>3 DEF R!FetchPullRequest, R!github
  <2> QED
    BY <1>0, <2>1 DEF HeadsPushed, Types
<1>4. ASSUME NEW r \in Runs, R!Advance(r), ~R!FetchPullRequest(r) PROVE UNCHANGED <<head, sha>>
  BY <1>4 DEF R!Advance, R!FetchLastPage, R!Analyze, R!IdempotencyGuard,
              R!StaleHeadGuard, R!PublishSend, R!PublishAck, R!github
<1> QED
  BY <1>1, <1>2, <1>3, <1>4
  DEF Next, vars, runVars, MarkReady, ConvertToDraft, OtherReview, R!OtherReview,
      Receive, TaskBegins, ManualBegins, R!Begin, TaskQueues, Advance, FetchFilesPage,
      R!FetchFilesPage, GitHubAccepts, R!GitHubAccepts, Fault, Fails, R!RaisesError,
      R!Timeout, GitHubRejects, R!GitHubRejects, Restart, R!Restart, R!github

(* A review goes to the end of the list.                                   *)
LEMMA ReviewsGrow ==
    ASSUME IInv, NEW rv
    PROVE  /\ Len(Append(reviews, rv)) = Len(reviews) + 1
           /\ \A i \in 1..Len(reviews) : Append(reviews, rv)[i] = reviews[i]
           /\ Append(reviews, rv)[Len(reviews) + 1] = rv
<1>1. reviews \in Seq(RP!Reviews)
  BY DEF IInv, RP!IInv, RP!Typed, RP!TypeOK
<1>2. reviews \in Seq(RP!Reviews \union {rv}) /\ rv \in RP!Reviews \union {rv}
  BY <1>1
<1> QED
  BY <1>2

(* While a run is past the guard no other is under way, so the list grows  *)
(* by its own review and those of others.                                  *)
LEMMA ListedAllStep ==
    ASSUME WebhookAlone, FitsInPage, IInv, Types, [Next]_vars
    PROVE  ListedAll'
<1> DEFINE Past == {"stale_head_guard", "publish_github_review"}
<1>0. ListedAll /\ Runs = Tasks
  BY DEF IInv, WebhookAlone, Runs
<1>1. ASSUME UNCHANGED <<reviews, listed>>, \A r \in Runs : pc'[r] \in Past => pc[r] \in Past
      PROVE  ListedAll'
  BY <1>0, <1>1 DEF ListedAll
<1>2. ASSUME NEW rv, reviews' = Append(reviews, rv), UNCHANGED <<listed, pc>>,
             \A r \in Runs : pc[r] \in Past => rv.run = NoRun \/ rv.run = r
      PROVE  ListedAll'
  <2> SUFFICES ASSUME NEW r \in Runs, pc[r] \in Past, NEW i \in 1..(Len(reviews) + 1),
                      i > listed[r]
               PROVE  Append(reviews, rv)[i].run = NoRun \/ Append(reviews, rv)[i].run = r
    BY <1>2, ReviewsGrow DEF ListedAll
  <2>1. CASE i = Len(reviews) + 1
    BY <1>2, <2>1, ReviewsGrow
  <2>2. CASE i # Len(reviews) + 1
    <3>1. i \in 1..Len(reviews)
      BY <2>2 DEF Types
    <3> QED
      BY <3>1, <1>0, ReviewsGrow DEF ListedAll
  <2> QED
    BY <2>1, <2>2
<1>3. ASSUME OtherReview PROVE ListedAll'
  <2>0. PICK marker \in Quoted \union {NoMarker} : R!OtherReview(marker)
    BY <1>3 DEF OtherReview
  <2> DEFINE rv == [run |-> NoRun, marker |-> marker, diff |-> {}]
  <2>1. reviews' = Append(reviews, rv) /\ UNCHANGED <<listed, pc>> /\ rv.run = NoRun
    BY <2>0 DEF R!OtherReview
  <2> HIDE DEF rv
  <2> QED
    BY <2>1, <1>2
<1>4. ASSUME NEW r \in Runs, GitHubAccepts(r) PROVE ListedAll'
  <2> DEFINE rv == [run |-> r, marker |-> draft[r].marker, diff |-> draft[r].diff]
  <2>1. reviews' = Append(reviews, rv) /\ UNCHANGED <<listed, pc>> /\ rv.run = r
    BY <1>4 DEF GitHubAccepts, R!GitHubAccepts
  <2>2. pc[r] \in R!Nodes
    BY <1>4 DEF GitHubAccepts, R!GitHubAccepts, R!Active, WebhookAlone
  <2>3. \A u \in Runs : pc[u] \in Past => u = r
    <3> SUFFICES ASSUME NEW u \in Runs, pc[u] \in Past PROVE u = r
      OBVIOUS
    <3>1. state[u] = "running" /\ state[r] = "running"
      BY <1>0, <2>2 DEF IInv, TaskIsRun, R!Nodes
    <3> QED
      BY <1>0, <3>1, OneRunning
  <2> HIDE DEF rv
  <2> QED
    BY <2>1, <2>3, <1>2
<1>5. ASSUME NEW r \in Runs, R!IdempotencyGuard(r) PROVE ListedAll'
  <2>1. CASE R!GuardDryRun(r)
    BY <1>1, <1>5, <2>1 DEF R!IdempotencyGuard, R!GuardDryRun, R!Goto, R!github, Types
  <2>2. CASE R!GuardForced(r)
    BY <2>2 DEF R!GuardForced, IInv, Unforced
  <2>3. CASE R!GuardLists(r)
    <3>1. R!FirstPage = Len(reviews)
      BY DEF R!FirstPage, FitsInPage
    <3>2. listed' = [listed EXCEPT ![r] = Len(reviews)] /\ UNCHANGED reviews
      BY <1>5, <2>3, <3>1 DEF R!IdempotencyGuard, R!GuardLists, R!github
    <3>3. \A u \in Runs : u # r => pc'[u] = pc[u] /\ listed'[u] = listed[u]
      BY <2>3, <3>2 DEF R!GuardLists, R!Goto, Types
    <3>4. listed'[r] = Len(reviews)
      BY <3>2 DEF Types
    <3> SUFFICES ASSUME NEW u \in Runs, pc'[u] \in Past, NEW i \in 1..Len(reviews),
                        i > listed'[u]
                 PROVE  reviews[i].run = NoRun \/ reviews[i].run = u
      BY <3>2 DEF ListedAll
    <3>5. u # r
      BY <3>4 DEF Types
    <3> QED
      BY <3>3, <3>5, <1>0 DEF ListedAll
  <2> QED
    BY <1>5, <2>1, <2>2, <2>3 DEF R!IdempotencyGuard
<1>6. ASSUME NEW r \in Runs, R!Advance(r), ~R!IdempotencyGuard(r) PROVE ListedAll'
  <2> USE DEF R!Goto, R!github, Types
  <2>1. CASE R!FetchPullRequest(r) \/ R!FetchLastPage(r) \/ R!Analyze(r)
    BY <1>1, <2>1 DEF R!FetchPullRequest, R!FetchLastPage, R!Analyze
  <2>2. CASE R!StaleHeadGuard(r)
    BY <1>1, <2>2 DEF R!StaleHeadGuard
  <2>3. CASE R!PublishSend(r) \/ R!PublishAck(r)
    BY <1>1, <2>3 DEF R!PublishSend, R!PublishAck
  <2> QED
    BY <1>6, <2>1, <2>2, <2>3 DEF R!Advance
<1>7. ASSUME NEW r \in Runs, Fails(r) PROVE ListedAll'
  BY <1>1, <1>7 DEF Fails, R!RaisesError, R!Timeout, R!github, Types
<1>8. ASSUME NEW v \in R!Versions, Restart(v) PROVE ListedAll'
  BY <1>1, <1>8 DEF Restart, R!Restart, R!github, Types
<1>9. ASSUME NEW t \in Tasks, TaskBegins(t) PROVE ListedAll'
  BY <1>1, <1>9 DEF TaskBegins, R!Begin, R!Goto, R!github, Types
<1> QED
  BY <1>0, <1>1, <1>3, <1>4, <1>5, <1>6, <1>7, <1>8, <1>9
  DEF Next, vars, runVars, Push, R!Push, MarkReady, ConvertToDraft, Receive, TaskQueues,
      Advance, FetchFilesPage, R!FetchFilesPage, Fault, GitHubRejects, R!GitHubRejects,
      R!github, WebhookAlone

(* The invariant is kept while the list fits in the page.                  *)
LEMMA NextInvariant == WebhookAlone /\ FitsInPage /\ IInv /\ [Next]_vars => IInv'
  BY TypesHold, BothFollow, TaskIsRunStep, UnforcedStep, HeadsPushedStep, ListedAllStep
  DEF IInv

-----------------------------------------------------------------------------
(* The mapping to ReviewLedger.                                            *)
List == [i \in 1..Len(reviews) |-> Entry(reviews[i])]

(* Append, as a function.                                                  *)
LEMMA AppendIs ==
    ASSUME NEW S, NEW s \in Seq(S), NEW e \in S
    PROVE  Append(s, e) = [i \in 1..(Len(s) + 1) |-> IF i = Len(s) + 1 THEN e ELSE s[i]]
<1>1. Append(s, e) \in Seq(S) /\ Len(Append(s, e)) = Len(s) + 1
  OBVIOUS
<1>2. Append(s, e) = [i \in 1..(Len(s) + 1) |-> Append(s, e)[i]]
  <2> DEFINE t == Append(s, e)
  <2>1. t \in Seq(S) /\ Len(t) = Len(s) + 1
    BY <1>1
  <2> HIDE DEF t
  <2>2. t \in [1..Len(t) -> S]
    BY <2>1, LenProperties
  <2>3. t = [i \in 1..(Len(s) + 1) |-> t[i]]
    BY <2>1, <2>2
  <2> QED
    BY <2>3 DEF t
<1>3. \A i \in 1..(Len(s) + 1) : Append(s, e)[i] = IF i = Len(s) + 1 THEN e ELSE s[i]
  OBVIOUS
<1> QED
  BY <1>2, <1>3, Zenon

(* What the list says grows with it.                                       *)
LEMMA ListGrows ==
    ASSUME IInv, Types, NEW rv, reviews' = Append(reviews, rv)
    PROVE  List' = Append(List, Entry(rv))
<1> DEFINE n == Len(reviews)
           grown == [i \in 1..(n + 1) |-> IF i = n + 1 THEN Entry(rv) ELSE Entry(reviews[i])]
<1>1. n \in Nat /\ Len(reviews') = n + 1
  BY ReviewsGrow DEF Types
<1>2. \A i \in 1..(n + 1) : reviews'[i] = IF i = n + 1 THEN rv ELSE reviews[i]
  BY <1>1, ReviewsGrow
<1>3. List' = grown
  BY <1>1, <1>2 DEF List, Entry
<1>4. List \in Seq({Entry(reviews[i]) : i \in 1..n}) /\ Len(List) = n
  BY <1>1 DEF List
<1>5. Append(List, Entry(rv)) = grown
  <2> DEFINE S == {Entry(reviews[i]) : i \in 1..n} \union {Entry(rv)}
  <2>1. \A i \in 1..n : List[i] = Entry(reviews[i])
    BY DEF List
  <2>2. List \in Seq(S) /\ Entry(rv) \in S
    BY <1>4
  <2>3. Append(List, Entry(rv))
          = [i \in 1..(Len(List) + 1) |-> IF i = Len(List) + 1 THEN Entry(rv) ELSE List[i]]
    BY <2>2, AppendIs
  <2>4. \A i \in 1..(n + 1) :
          (IF i = n + 1 THEN Entry(rv) ELSE List[i])
            = (IF i = n + 1 THEN Entry(rv) ELSE Entry(reviews[i]))
    BY <1>1, <2>1
  <2> HIDE DEF n
  <2> QED
    BY <1>4, <2>3, <2>4, Zenon
<1> QED
  BY <1>3, <1>5

(* The first states map to the first state of ReviewLedger.                *)
LEMMA RefinesInit == Init => Ledger!Init
  BY DEF Init, R!Init, Ledger!Init

(* When a review is accepted, no earlier one has its head and workflow.    *)
LEMMA AcceptsNew ==
    ASSUME WebhookAlone, IInv, Types, NEW r \in Runs, GitHubAccepts(r),
           NEW i \in 1..Len(reviews)
    PROVE  List[i] # <<draft[r].marker.head, draft[r].marker.workflow>>
<1>1. post[r] = "sent" /\ pc[r] \in R!Nodes
  BY DEF GitHubAccepts, R!GitHubAccepts, R!Active, WebhookAlone
<1>2. pc[r] = "publish_github_review"
  BY <1>1 DEF IInv, RP!IInv, RP!Drafting, R!Nodes
<1>3. CASE reviews[i].run = NoRun
  BY <1>3 DEF List, Entry
<1>4. CASE reviews[i].run # NoRun /\ i <= listed[r]
  <2>1. RP!Guarded /\ ~opts[r].force
    BY DEF IInv, Unforced, RP!IInv
  <2>2. i \in 1..listed[r]
    BY <1>4 DEF Types
  <2>3. ~RP!Matches(i, r)
    BY <1>1, <2>1, <2>2 DEF RP!Guarded
  <2> QED
    BY <1>4, <2>3 DEF RP!Matches, List, Entry
<1>5. CASE reviews[i].run # NoRun /\ i > listed[r]
  <2>1. reviews[i].run = r
    BY <1>2, <1>5 DEF IInv, ListedAll
  <2> QED
    BY <1>1, <1>5, <2>1 DEF IInv, RP!IInv, RP!Accepted
<1> QED
  BY <1>3, <1>4, <1>5 DEF Types

(* Every step maps to a step of ReviewLedger or to a stutter.              *)
LEMMA RefinesStep ==
    ASSUME WebhookAlone, IInv, Types, [Next]_vars
    PROVE  [Ledger!Next]_(Ledger!vars)
<1> SUFFICES Ledger!Next \/ UNCHANGED <<1..head, List>>
  BY DEF Ledger!vars, List
<1>1. CASE UNCHANGED <<head, reviews>>
  BY <1>1 DEF List
<1>2. ASSUME NEW h \in R!Shas, Push(h) PROVE Ledger!Next
  <2>1. head' = head + 1 /\ h = head + 1 /\ UNCHANGED List
    BY <1>2 DEF Push, R!Push, WebhookAlone, List
  <2>2. 1..head' = (1..head) \union {h}
    BY <2>1 DEF Types
  <2> QED
    BY <2>1, <2>2 DEF Ledger!Next, Ledger!Push, R!Shas, List
<1>3. ASSUME OtherReview PROVE Ledger!Next
  <2>0. PICK marker \in Quoted \union {NoMarker} : R!OtherReview(marker)
    BY <1>3 DEF OtherReview
  <2> DEFINE rv == [run |-> NoRun, marker |-> marker, diff |-> {}]
  <2>1. reviews' = Append(reviews, rv) /\ UNCHANGED head
    BY <2>0 DEF R!OtherReview
  <2>2. Entry(rv) = <<>>
    BY DEF Entry
  <2>3. List' = Append(List, <<>>)
    BY <2>1, <2>2, ListGrows, Zenon
  <2> QED
    BY <2>1, <2>3 DEF Ledger!Next, Ledger!OtherReview, List
<1>4. ASSUME NEW r \in Runs, GitHubAccepts(r) PROVE Ledger!Next
  <2> DEFINE h == draft[r].marker.head
             w == draft[r].marker.workflow
             rv == [run |-> r, marker |-> draft[r].marker, diff |-> draft[r].diff]
  <2>1. reviews' = Append(reviews, rv) /\ UNCHANGED head /\ post[r] = "sent"
    BY <1>4 DEF GitHubAccepts, R!GitHubAccepts
  <2>2. h \in 1..MaxHead /\ w \in Workflows /\ h \in 1..head
    <3>1. draft[r] # NoDraft /\ draft[r] \in RP!Drafts
      BY <2>1, RunConstants DEF IInv, RP!IInv, RP!Typed, RP!PostDrafted
    <3>2. h = sha[r] /\ sha[r] <= head
      BY <3>1 DEF IInv, RP!IInv, RP!Drafting, HeadsPushed
    <3> QED
      BY <3>1, <3>2, BoundsAssumption DEF RP!Drafts, RP!Markers, RP!Shas, Types
  <2>3. List' = Append(List, <<h, w>>)
    <3>1. Entry(rv) = <<h, w>>
      BY NamesAssumption DEF Entry
    <3> QED
      BY <2>1, <3>1, ListGrows, Zenon
  <2>4. Len(List) = Len(reviews)
    BY DEF List, Types
  <2>5. \A i \in 1..Len(List) : List[i] # <<h, w>>
    BY <1>4, <2>4, AcceptsNew
  <2> HIDE DEF h, w
  <2> QED
    BY <2>1, <2>2, <2>3, <2>5 DEF Ledger!Next, Ledger!Review, List
<1>5. ASSUME NEW r \in Runs, R!Advance(r) PROVE UNCHANGED <<head, reviews>>
  BY <1>5 DEF R!Advance, R!FetchPullRequest, R!FetchLastPage, R!Analyze, R!IdempotencyGuard,
              R!StaleHeadGuard, R!PublishSend, R!PublishAck, R!github
<1> QED
  BY <1>1, <1>2, <1>3, <1>4, <1>5
  DEF Next, vars, runVars, MarkReady, ConvertToDraft, Receive, TaskBegins, ManualBegins,
      R!Begin, TaskQueues, Advance, FetchFilesPage, R!FetchFilesPage, Fault, Fails,
      R!RaisesError, R!Timeout, GitHubRejects, R!GitHubRejects, Restart, R!Restart, R!github

-----------------------------------------------------------------------------
(* One run at a time and a list that fits in the page the guard reads make *)
(* the marker an exact memory: through redeliveries, errors, timeouts,     *)
(* restarts and new releases, no head is reviewed twice by a workflow, and *)
(* only heads that were pushed are reviewed.                               *)
THEOREM EachHeadOnce ==
    ASSUME WebhookAlone
    PROVE  Spec /\ []FitsInPage => ImplementsLedger
<1>1. Init => IInv /\ Ledger!Init
  BY InitInvariant, RefinesInit
<1>2. FitsInPage /\ IInv /\ [Next]_vars => IInv'
  BY NextInvariant
<1>3. IInv /\ [Next]_vars => [Ledger!Next]_(Ledger!vars)
  BY TypesHold, RefinesStep
<1> QED
  BY <1>1, <1>2, <1>3, PTL DEF Spec, ImplementsLedger, Ledger!Spec
=============================================================================
