# Bicho PR Reviewer in TLA+

A formal model of the review service: TLA+ modules, the TLC runs that check
them on small instances, and TLAPS proofs about them for every value of the
constants. Source paths below are relative to `src/bicho/` unless they start
with `docs/`, `okf/` or `tests/`.

## 1. The system

Bicho receives GitHub pull-request events, reviews the diff with LLM analyzers
and scanners, and publishes one review. There is no database: a hidden marker
in each published review is the only memory that survives a restart.

| Component | State | Operations | What makes it correct |
|---|---|---|---|
| Webhook handler `api/routes/webhooks.py` | none of its own | `github_webhook`: filter, register the id, schedule | an accepted event leads to a review; a redelivery does not lead to a second one |
| Delivery memory `api/background.py` `RecentDeliveries` | `_seen`, `_order` | `register` | set and deque agree; the last `max_size` ids are refused |
| Background runner `api/background.py` `BackgroundReviewRunner` | `_tasks`, the semaphore | `schedule`, `_run`, `drain` | bounded concurrency, no lost wake-up, order of acceptance, complete shutdown |
| Review service and graph `application/review_service.py`, `application/graph/` | the state of one run | twelve nodes, the analyzers' fan-out, a total timeout | one review per head and workflow, anchored to the commit that was analysed |
| GitHub client `infrastructure/github/client.py` | none | five calls, one of them paginated | its answers are what the guards rest on |
| Analyzers and scanners `application/analyzers/`, `infrastructure/scanners/` | none | `analyze` | every failure degrades to an outcome |
| Finding services `domain/services/`, `application/verifier.py` | none (pure) | fingerprint, dedup, verify, anchor, event | no finding is lost or shown twice |
| Model provider `infrastructure/model/provider.py` | a semaphore | `structured` with retries | bounded calls, errors as data |
| GitHub App auth `infrastructure/github/auth.py` | token cache | `installation_token` | no request carries an expired token; refreshes are not repeated |
| Subprocess runner, workspace `infrastructure/process/`, `infrastructure/fs/` | a process, a directory | `run`, `create` | killed on timeout, always removed |
| Hunk parser `infrastructure/diff/hunk_parser.py` | none | `parse_hunks` | line numbers of the patch; comments GitHub accepts |
| Language adapters `infrastructure/language/` | none | `select`, `in_scope`, `enclosing_symbol` | the best adapter, a fallback; the innermost definition |
| Container `api/container.py` | a cache of services | `review_service` | one service per installation |
| Settings, prompts, health, security, logging, clock, ids | configuration | reads | - |

**How they interact.** The handler registers a delivery and schedules a task;
a task takes the runner's semaphore and calls `ReviewService.run`;
`POST /reviews` calls the same `run` without the semaphore. A run reads GitHub
several times and writes it once, at its end. Runs share nothing in the process
but that semaphore, the model's, and the caches: what they share is the pull
request on GitHub.

**What is hard here.** Every call to GitHub is an await, so the head may move,
and other runs and other reviewers may act, between any two nodes. The guards
are checks whose results are used some awaits later. A timeout cancels a run
wherever it is, also while its review is in flight. The process may die at any
moment and come back as another release with an empty memory. Analyzers of one
superstep answer in any order and fail independently, and findings pass a chain
of pure steps (dedup, verify, anchor) in which a finding could be lost, shown
twice or change its effect on the review's event. A review is one request:
one comment that GitHub refuses loses all of them. Tokens expire by a clock that
is not the service's, while concurrent requests refresh them.

## 2. Modules

| Module | Models |
|---|---|
| `ReviewRun` | the runs of one pull request and GitHub's state |
| `ReviewRunProofs` | its theorems |
| `RecentDeliveries` | the delivery memory |
| `BackgroundReviewRunner`, `BackgroundReviewRunnerProofs` | handler, runner, semaphore, shutdown, restart; extends `RecentDeliveries`; the theorems of both |
| `ReviewLedger` | abstract: a list of reviews with each head once per workflow, among those of others |
| `Bicho`, `BichoProofs` | `BackgroundReviewRunner` and `ReviewRun` composed, with the events of the pull request; refines `ReviewLedger`; its theorems |
| `Findings` | the pure operations on findings |
| `LanguageAdapter` | the choice of adapter, the files in scope, the enclosing definition |
| `FindingPipeline`, `FindingPipelineProofs` | one run from the changed files to the draft: contents, analyzers, dedup, verification, composition; extends `Findings` and `LanguageAdapter`; its theorems |
| `AnalysisCalls`, `AnalysisCallsProofs` | the model calls and scanner processes that runs await, its theorems |
| `ListFacts` | lemmas about lists: induction, what `FlattenSeq` joins, a semaphore's queue; for the proofs of the runner, the calls, the pipeline and the parser |
| `HunkParser` | the parser of patches, a piece of text at a time |
| `InlineComments`, `InlineCommentsProofs` | anchoring on what `HunkParser` parsed, and GitHub's verdict on the review; extends `HunkParser`, instantiates `Findings`; the theorems of both |
| `InstallationToken`, `InstallationTokenProofs` | the token cache and the requests that use it, its theorems |
| `MC*` | each of these for TLC |

Modules carry "seeded faults": variants of one definition with a plausible
programming error. They are not part of the specification. Each run's
properties are tested against them: with the fault in place of the definition,
TLC finds the property violated.

### ReviewRun

`pc[r]` is the node run `r` is about to execute, or how it ended: a
`ReviewStatus`, `ERROR` for an exception, `LOST` when the process died. `sha`,
`pages` and `draft` are the run's graph state (`pull_request.head_sha`, the
heads at which GitHub computed the pages of changed files, the composed draft);
`opts` its `ReviewOptions`. `head` and `reviews` are GitHub's, `version` is
what the deployed process has for `WORKFLOW_VERSION` and `PROMPT_VERSION`.
`post[r]` is the publishing POST as GitHub knows it; `listed[r]` is a history
variable, the size of the page the run listed; `reverted` another, whether a
force-push has brought back an earlier commit.

| Action | Code |
|---|---|
| `FetchPullRequest` | `nodes.fetch_pull_request` |
| `FetchFilesPage`, `FetchLastPage` | `client.fetch_changed_files`, page by page |
| `Analyze` | `normalize_diff` to `compose_review` (in detail in `FindingPipeline`) |
| `IdempotencyGuard` | `idempotency_guard`: dry run, forced, or the list of reviews |
| `StaleHeadGuard` | `stale_head_guard` |
| `PublishSend`, `PublishAck` | `publish_github_review`, the request and its answer |
| `RaisesError`, `Timeout`, `Restart` | `raise_for_status`, `wait_for`, the process |
| `Push`, `OtherReview`, `GitHubAccepts`, `GitHubRejects` | GitHub (external) |

`Analyze` is one step because it uses what the run has already read: file
contents are fetched at the recorded head, and nothing in it changes shared
state. GitHub lists reviews in chronological order and the client reads one
page (`FirstPage`). A review of another author may bear a marker too
(`OtherReview`, from the set `Quoted`): the guard parses the body of every listed
review and never looks at its author (`application/graph/nodes.py:140`), and a
marker names a commit, not a pull request.

### BackgroundReviewRunner

A step is what the event loop runs between two suspensions of a task. A task
is `scheduled`, `waiting` or `woken` at the semaphore, `running`, `finished`,
or `lost` with its process. The semaphore is CPython's: `_wake_up_next` takes
the slot on behalf of the waiter it wakes, and a resumed waiter passes spare
slots on (`WakeUpNext`, external). The done callback (`Discard`) runs in a
later step than the end of the task. `StartDrain` and `DrainAgain` are
`drain`'s loop around `gather`.

Payloads are records: `reviewable` is what the handler's filters on event,
action and draft decide, `complete` whether the fields it reads after
registering the id are there.

### Bicho

Task `t` of the runner is run `t` of the graph. `TaskBegins` joins the step that
takes the semaphore and the beginning of the run; `Finishes` the outcome of the
run and the end of the task. Deliveries (`inflight`) are made in any order and
any number of times.

### Findings, LanguageAdapter and FindingPipeline

`Findings` translates `compute_fingerprint`, `deduplicate` with its helpers,
the verification policy and the model's verdicts, `can_anchor`, `review_event`
and the producers' `_to_finding`. Findings are about the RIGHT side. A digest is
the tuple it digests. A path or a snippet is a text and a spelling of it:
`NormalizePath` and `NormalizeSnippet` drop the spelling from fingerprints, while
everything else (file contents, hunks, symbols) is looked up by the path as
reported; semgrep's findings are rid of their `./` first (`RemovePrefix`).

`LanguageAdapter` translates the registry and the two adapters. A changed file
is a record: what its name makes it (`kind`), whether it has a patch, whether
its path is unsafe or vendored (`skipped`), and the definitions of its content.
`EnclosingSymbol` is the last of those that hold the line in the order of
`ast.walk`, which goes by depth.

`FindingPipeline` has an action for each node from `detect_language` to
`compose_review`, and one for each turn of the loop over file contents
(`OutOfScope`, `FetchContent`, `FetchNothing` for `None`, `FetchRaises`). The
scanners report on files whose content was read, and a model on any path. The
order in which LangGraph concatenates parallel outcomes is left open, and so is
the order of the random ids that break ties. `Timeout` is the deadline of
`ReviewService.run` for the part of a run that is modelled here: it cancels the graph
at any node, and the result is `FAILED`, without findings or a draft.

### AnalysisCalls

One step of a task between two awaits is an action, as in the runner. `call` is
where a call of `structured` is: `scheduled`, at the provider's semaphore
(`waiting`, `woken`), in a request (`calling`), in the pause before the next
attempt (`delaying`), or over. `scan` does the same for a scanner, `process` and
`workspaces` are what it has outside the event loop. `Deadline` is the timeout of
`ReviewService.run`: it only requests the cancellation of the run's tasks
(`cancelled`); each gets its `CancelledError` at its next step (`CancelCall`,
`CancelScan`), and others may act in between. Cancellation is where CPython's
semaphore is delicate, so `Unlocked`, `WakeUp` and `LeaveQueue` follow it: a
cancelled waiter no longer counts, one that was already handed a slot gives it
back and wakes the next. A request that fails and one that times out are the
same step, and any request may do so; time itself is not modelled.

### HunkParser

A step is one turn of `parse_hunks`' loop. The patch is what GitHub wrote: hunks
of lines, a line having a kind and, in `strays`, the kinds its further pieces are
taken for when it holds a separator other than newline (a form feed, a lone
carriage return) at which `str.splitlines` cuts as well. A header has `strays` too,
since it ends in a section heading, which is a line of the file. `SplitLines` is that
cut; `at` remembers which line a piece begins. The counts in headers and the text of
the heading are copied and not modelled. The properties compare the result
with the numbering that the format defines (`Place`), which counts lines of the
patch and knows no pieces.

### InlineComments

When the patch is read, some ranges are the confirmed findings (`ComposeDraft`):
those that `can_anchor` finds among the parsed numbers become comments
(`ToComment`), the others go to the summary. `Publish` posts them in one request,
which GitHub takes if it takes every comment (`GitHubAccepts`, external): a
comment is on a line of the patch as written, or on a range within one of its
hunks.

### InstallationToken

`at[c]` is where an API call is: at its `await self._headers()` it uses the
cached token (`UseCached`) or asks for one (`AskForToken`); GitHub answers
(`Mint`), the answer is cached (`CacheToken`), and the call is `sent`. Calls
overlap, fail (`Raises`) and are served in any order. `now` is the service's
clock and `drift` how far GitHub's is ahead; `Tick` lets no more than `Latency`
pass while a request or an answer is on its way. `app_jwt` cuts the fraction of a
second, so the JWT's second may be the one before. `token[c]` and `cache` are
expiry times, which is all that is compared. `Container` builds one
`GitHubAppAuth` per installation, so the cache has one entry.

## 3. What is checked

| Run | Question | Result |
|---|---|---|
| `ReviewRun` | is a review computed from its commit's diff; when can duplicates arise; what do results mean? | holds |
| `BackgroundReviewRunner` | are set, deque and history of the delivery memory in step; slots, wake-ups, order, shutdown; does every accepted review end? | holds |
| `BichoLedger` | does the webhook path implement the abstract ledger? | holds, on the conditions below |
| `BichoLive` | is the final head reviewed, also beside a manual run? | holds without failures |
| `FindingPipeline` | dedup whatever the order, verdicts, event, notes, completion; what is merged? | holds |
| `AnalysisCalls` | do slots, calls, processes and workspaces survive cancellation; does every analysis end? | holds |
| `InlineComments` | are hunks parsed as written; what can other separators change; which reviews does GitHub refuse? | holds |
| `InstallationToken` | are tokens and JWTs accepted under drift and delays; are refreshes repeated? | holds |
| `BichoPages` | "No duplicate reviews across ... re-runs" | violated: only the first page is listed |
| `ScanOrphaned` | scanners run "with a hard timeout" | violated: a cancelled scan's process goes on |
| `InlineDrift` | lines are numbered "so inline comments can be anchored precisely" | violated: other separators shift lines |
| `InlineRefused` | un-anchorable findings do not fail "the whole (atomic) review POST" | violated: a range across hunks |

What the guards really give is `DuplicateOnlyWhenUnseen`: a second review of a
head by the same workflow needs `force`, or a listing that did not contain the
first one, because it came later or lay beyond the first page. The
refinement in `BichoLedger` says when that never happens: webhook runs only
(the runner's one slot makes them sequential), a list that fits in one page,
and no review accepted for a run that already ended. `docs/limitations.md`
concedes that there is "no exactly-once guarantee"; the runs show which
schedules it refers to.

Some windows remain that no run here singles out. Two overlapping runs of one
head, say a manual one beside a webhook's, can both pass the idempotency guard
before either publishes, and a POST whose run timed out may be accepted after
the next run has listed the reviews: both are duplicates that
`DuplicateOnlyWhenUnseen` allows. The head may move between the stale-head guard
and GitHub's acceptance, so a review can be anchored to a commit that is no
longer the head; `ReviewedDiffIsPublishedHead` only says that its diff is that
commit's. And since findings are deduplicated before they are verified, a
severe report of low confidence absorbs a confident one of the same fingerprint,
and is then rejected; `okf/review-pipeline.md:42` names the two steps in the opposite
order.

Nor is it true that a skipped head was reviewed by the bot. A review by anybody
that quotes a marker counts as the bot's, so a head it names is skipped; the models
have such reviews, and no property speaks of skips. They cannot cause duplicates
(`DuplicateOnlyWhenUnseen` and `ImplementsLedger` hold beside them), but they can
keep a head unreviewed: `BichoLive` therefore assumes that nobody else posts a review
while it runs (`MaxReviews = 0`).

Some sentences of the documents are not what the code does, though no run is
spent on them. `docs/adr/0008-...md:27` says that bumping the prompt version allows
a re-review of a head; the guard compares head and workflow version only
(`application/graph/nodes.py:145`, `AlreadyReviewed`). `domain/services/dedup.py:3`
says that findings with the same fingerprint describe the same issue; semgrep's
findings have neither snippet nor symbol, so all matches of a rule in a file
have one fingerprint, and all but one are marked duplicates. A model's finding
has the bare name of its innermost definition, so `DuplicatesShareDefinition`
speaks of names: equal methods of two classes are merged. It speaks of paths as
they are spelled, too: a model that writes `./app.py` is not found in the contents, so
its finding has no symbol, and as fingerprints normalize paths
(`domain/services/fingerprint.py:19`) it is merged with one at the level of the module
`app.py`, whichever method it lies in.
`domain/models/analysis.py:5` says of diagnostics that nothing is hidden; an
outcome with findings is not degraded, so a manifest whose audit failed is not
mentioned when another has findings, and `DegradedIsNoted` allows exactly that.

`InlineDrift` shows that lines are not always numbered precisely: a separator other
than newline inside a line, or in the section heading of a header, makes pieces that
are counted as lines, and what follows in the hunk is anchored to numbers that are
not its own. `StraysStayInHunk` says how far this reaches: no line before the first such
piece of its hunk is affected, and the next header sets both numbers right again, also
when a piece looks like a header and starts a hunk. No line is lost or read as another
kind of line (`EveryLineOnce`).

`PrevalidatedLikeGitHub` says that the range across hunks is the only way in
which the pre-validation and GitHub's rule differ on patches without such
separators, and that nothing goes to the summary that could have been inline.

`TokensAreFresh` holds because the margin covers what may pass between the look
at the cache and the request's arrival, drift included (`MarginAssumption`); with
the code's constants, drift and latency may together be a minute, and drift
alone, for the JWT, a minute too. Concurrent refreshes may overwrite a newer token
with an older one: `NoEarlyRefresh` says that this costs at most one latency of
the token's life.

`ReviewedDiffIsPublishedHead` says nothing once a force-push has brought back
an earlier commit (`reverted`): a head that goes away and comes back while the
files are read passes the stale-head guard. The service's documents make no
promise about that case.

**Bounds.** `ReviewRun`: two runs, two commits, one review of another author, without
a marker or with the second commit's, a first page of one review, two workflow
versions. Every property relates at most two runs or reviews. The other author's review
can only come first (`MaxReviews` bounds the list to which it is added), and then takes
up the page; without it, a review of the bot is first in the page or beyond it. The runner: a memory of
two ids and five registrations of four ids, so that ids leave the window and return;
two slots and five tasks, so that two slots are handed over while others wait and
start. `Bicho`: two tasks and two events on two commits (in `BichoPages` on one), and a
manual run in `BichoLive`: the fewest that let a run go stale, be superseded and be
redelivered; `BichoLedger` and `BichoPages` have one review of another author, in the
former also with the first commit's marker. Findings: two hunks; up to two raw findings of an analyzer around the confidence and severity thresholds, up to
five in all, on a module with two methods in a class, its path and a snippet each in two
spellings; every partial map of
verdicts on them; one or two manifests.
`AnalysisCalls`: one slot, two calls of one review and one of another, so that a
cancelled call leaves two waiters, of either review; two attempts; one scanner
with two commands. `InlineComments`: up to two lines with a separator in each, or in
the header, or three lines without, in a hunk, and a second hunk after it: each line's number depends only
on how many lines of each kind came before it in its hunk. Up to two findings,
since each comment is judged alone. `InstallationToken`: two calls, of which one
refreshes while the other does, with lifetimes in proportion to the code's, a
margin of exactly latency and drift together, and time for the cached token to be
replaced once and to near its expiry again.

**Symmetry.** The runs of `ReviewRun` use the symmetry of runs, workflow and
prompt versions, which are only compared for equality. No temporal run uses it.

**Deadlock** is checked in all runs but those of `Bicho` (all events delivered, all
runs over), `FindingPipeline` (the review is composed), `AnalysisCalls` (the
reviews are over) and `InlineComments` (the review is posted), which may stop.

**Fairness.** The event loop runs every ready callback, so each task's steps and
`DrainAgain` are weakly fair in the runner; a review always ends because
`review_timeout_seconds` bounds it. Arrivals, shutdown and restarts are not
fair. In `Bicho`, deliveries are made and calls answered, and `BichoLive`
assumes that nothing fails (`Faults = FALSE`): a failed run is retried only
by the next event, so the final head is not reviewed if its only run fails.
In `AnalysisCalls` requests are answered or time out and timers fire, but
processes need not end by themselves and the review's timeout need not expire;
`EveryAnalysisEnds` therefore rests on attempts being counted and slots being
passed on. In `FindingPipeline` the analyzers return or raise, because every call they make has
a timeout of its own, and nodes run once what they need is there (`Advance`). The run's
deadline may come at any await and need not come (`Timeout` is not fair): it is what
`ComposedUnlessTimeout` allows beside a composed review, so that no failure of an
analyzer can be a third way to end, nor a wait without end. A run whose file contents
cannot be read ends before, so the property begins at the fan-out.
`InstallationToken` has safety properties only.

## 4. What is proved

`ReviewRunProofs` proves, for any number of runs, commits, reviews and
versions, and any page size, from the assumptions on the constants alone:

- `TypeCorrect`: `TypeOK`. The strengthening `Typed` adds that a run past
  `fetch_pull_request` knows its head and a run past `compose_review` has its
  draft, without which the types of drafts and reviews do not follow.
- `DuplicatesWereUnseen`: `DuplicateOnlyWhenUnseen`, by `IInv`. Its parts:
  `Drafting` (a draft is made of what its run fetched, under the version still
  deployed while the run is active), `Accepted` (a bot review is the accepted
  draft of exactly one run), `Guarded` (an unforced run past the guard saw no
  match in the page it listed). `DuplicateOnlyWhenUnseen` compares two reviews;
  only `Guarded` remembers, from the guard to the acceptance, what the later
  run had seen, and it survives because reviews are only appended.
- `ResultsMatchLedger`: `ResultMatchesLedger`, from `Accepted`.
- `ReviewedDiffs`: `ReviewedDiffIsPublishedHead`. As long as no commit came
  back, the invariant `Reading` says that pages were computed between the recorded and
  the present head; heads only grow, so if they agree at the stale-head guard
  they agreed all along.

`BackgroundReviewRunnerProofs` begins with the delivery memory: `MemoryIsTyped`,
`MemoryIsWindow` and `RedeliveriesAreRefused`, for any `MaxSize` and any ids.
`SeenIsWindow` is not inductive alone: the proof adds that the deque is the tail
of the history and that no id repeats within a window, so that the evicted id is
not still in it. `RunnerKeepsMemory` says that every behaviour of the runner is one
of the memory (each step registers an id, loses the memory with the process, or
leaves it alone), and `RunnerRefusesRedeliveries` that the memory's promises therefore
hold in the service that runs it.

Of the runner it proves `TypeCorrect`, `SlotsAreConserved`,
`NoWakeUpIsLost`, `ReviewsBeginInOrder` and `DrainIsComplete` for any number of
slots, tasks, deliveries and events. The three properties of the semaphore are
not inductive alone: a resumed waiter wakes the first sleepers *of the queue*,
while the order of acceptance speaks of tasks. `Bookkeeping` ties the two
together: the queue is ascending (`Ascending`) and holds exactly the tasks asleep
or woken (`QueueHoldsQueued`), tasks are created in order (`CreatedInOrder`), and
those that have not reached the semaphore yet are younger than all in the queue
(`ScheduledLast`). `DrainIsComplete` rests on `UnfinishedHeld`: the runner holds a
reference to every task that is not over, so an empty set means no work.
`WakeUpNext` is summarised once (`WakesSome`: it wakes as many as there are slots,
sleepers and requests) and every step that wakes uses that summary.

`InstallationTokenProofs` proves `TokenTypes`, `TokensStayFresh`,
`JwtsStayAccepted` and `RefreshesAreNeeded` for any number of calls, any lifetimes
and any drift and latency that the margin covers (`MarginAssumption`). The
inductive invariant adds to the types that what is under way is no older than
`Latency` (`Punctual`), that a call which asks or was answered knows when by
GitHub's clock (`Obtained`), and that the cached token, once there was an answer,
is within a latency of the latest one (`NearlyLatest`). The first two bound the
time between the look at the cache and the request's arrival, which no single
state shows; the third bounds what one late answer can undo.

`AnalysisCallsProofs` proves `TypeCorrect`, `SlotsSurvive` and `NothingIsLeft` for any
set of calls, scans and reviews, any number of attempts and commands, and any
`Concurrency`, zero included (a `max_concurrency` of zero, for which the provider
has no semaphore and nobody ever queues).
`Calls` need not be finite; that finitely many of them hold a slot (`Holding`) is
part of the invariant, without which their number means nothing. `Slots`
adds that the queue has no call twice and holds exactly those `waiting` or `woken`:
that is what makes a cancelled waiter leave exactly one place behind
(`Leaving` in `ListFacts`) and give back exactly the slot it was handed.
`AttemptsLeft`, `ScansTidy` and `ReviewsWait` say that a pause is followed by
a further attempt, that a scanner that ends by itself has reaped its process and
removed its workspace, and that a review ends after its calls.

The runner and the calls rest on two lemmas of `ListFacts`: who is reached when the first `n` of those
asleep are woken (`FirstInQueue`), and what is left when one leaves (`Leaving`).
The runs check these specifications with fairness; fairness only removes
behaviours, so the theorems hold of them too.

`BichoProofs` proves of the composition, for any number of commits, events,
deliveries, tasks, versions and reviews of others:

- `PartsBehave`: every behaviour of `Bicho` is one of `ReviewRun` and one of
  `BackgroundReviewRunner`, so the theorems about these hold of it.
- `EachHeadOnce`: `Bicho` implements `ReviewLedger` on the conditions of the
  run `BichoLedger`, stated as `WebhookAlone` (one slot, no manual runs, no commit
  brought back, no review accepted for a run that is over) and `FitsInPage` (the
  list of reviews fits in the page the guard reads, throughout the behaviour).

What `DuplicateOnlyWhenUnseen` leaves open is what a run did not list.
`EachHeadOnce` closes it by an invariant that needs both parts: a run past the
guard is the only one under way (`TaskIsRun` ties each run to its task, the runner's
conserved slots leave one task running), so what was added to the list
since it looked is its own or another author's (`ListedAll`). The rest of the
invariant is that no run is forced (`Unforced`) and that a recorded head was
pushed (`HeadsPushed`). The temporal steps are an implication between next-state
relations and use no fairness. `BichoPages` violates `FitsInPage`, and duplicates.

`FindingPipelineProofs` proves every invariant of the run `FindingPipeline` for any
pull requests, any analyzers and any reports, with either verifier, from the
assumptions that what is reported are lists with levels of the enums
(`ReportsAssumption`), that a pull request lists a file once
(`PullRequestsAssumption`) and that definitions nest (`FilesAssumption`):

- `DedupIsOrderFree`: `DedupIgnoresOrder`, about `deduplicate` on a list of any
  length. `FlattenTraces` (in `ListFacts`) says from which entry of which list each
  entry of a joined list comes, each exactly once and in order; `DeduplicateShows`
  follows, that the result is a rearrangement of the reported findings, each
  changed only as its group asks (`Merged`). That a group has one survivor and that
  it is the one with the greatest score is `SurvivorIsBest`: severity, confidence
  and source compare like one number, and ids break the ties.
- `TypeCorrect`, `FindingsAreAccounted`, `EventIsJustified`, `FailuresAreNoted`:
  `TypeOK`, `EveryFindingAccounted`, `EventFollowsReports` and `DegradedIsNoted`, by
  the invariant `IInv`. None of them is inductive alone, since each speaks of the
  composed review and of the reports at once. `IInv` carries the connection through
  the stages: `Answered` (one outcome for each analyzer), `IsReported` (the reports
  are candidates with ids of their own, whatever order those sort in), `Verified`
  (there is a bijection `of` from the findings to the reports, and each finding is its
  report merged and, once verified, judged if a candidate) and `Composed` (what the
  review shows, notes and requests follows from the findings and outcomes).
- `DuplicatesAreOfOneDefinition`: `DuplicatesShareDefinition`, by a second invariant,
  `Located`: the fingerprint of a model's finding has the normalized path, and the symbol
  found, by the path as reported, in the contents as they still are. Among nested definitions the one that spans the fewest
  lines is visited last (`InnermostIsVisitedLast`).

`InlineCommentsProofs` proves every invariant of the run `InlineComments`, for any
number of hunks, lines and separators in them, and any findings:

- `ParserIsTyped`, `LinesAreKept`, `StraysMoveOnlyWhatFollows`, `CleanPatchesParse`: `TypeOK`,
  `EveryLineOnce`, `StraysStayInHunk` and `ParsedAsWritten`. All but the first speak only
  of a patch that has been read, and the parser's state says nothing of where its
  lines came from. The inductive invariant `IInv` says what has been read so far in terms of
  the raw lines alone: `HunksRead`, that there is a list of the headers met, that each
  closed hunk is what `HunkIn` says of the pieces between its header and the next, and
  that `lines` and the two counters are what `LinesIn` and `CountIn` say of the pieces since
  the last header; `LinesRead`, that the lines of all hunks together are the pieces that
  count and come after a header, each numbered from its header (`Numbered`). At the end
  this is a statement about `SplitLines(patch)`, and what remains is where in it the
  format's lines lie (`JoinedPlaces` in `ListFacts`): each is one piece, behind it its
  strays, and before the first hunk only a preamble. Where no stray comes before a line in
  its hunk, the pieces since the hunk's header are the format's lines and the counters
  agree; where there is none at all, the headers met are the headers written, and hunk by
  hunk the lists agree.
- `PrevalidationAgrees`: `PrevalidatedLikeGitHub`, of `SpecReview`. `ReviewsParse` says that
  composing and publishing leave the parser alone, so that `IInv` holds in a review too
  (`ReviewedAsParsed`); the invariant `RInv` adds that a draft is what `can_anchor` makes
  of some ranges once the patch is read, and that `post` is what GitHub's rule says of its
  comments. On a clean patch the numbers `can_anchor` finds are those written
  (`AnchoredAsWritten`), and as hunks share no line of the new file, a comment that is not
  within one hunk is across two.

The assumptions are that the absent header, number and place are none of the present
ones (`NoneAssumption`), and that a patch lists its hunks in the order of the new file
without overlap (`HunksAssumption`), which is the format's promise and which TLC evaluates
on the patches of the run. The latter is needed for `PrevalidationAgrees` only.

The provers cannot instantiate the library's induction theorems. `ListFacts`
therefore states induction over numbers and lists with a set in the place of the
predicate (`NumberInduction`, `ListInduction`), from the well-foundedness of the
numbers; all that is said of `FlattenSeq` rests on these two.

Every invariant that a run checks is also a theorem, and so is the refinement of
`ReviewLedger`. Only model-checked are the liveness properties `EveryReviewEnds`,
`DrainReturns`, `FinalHeadReviewed`, `ComposedUnlessTimeout` and `EveryAnalysisEnds`: they need
fairness and ENABLED, which the prover does not support. The four violations are
counterexamples of TLC on their instances.

## 5. Not modelled

`components` in `PROJECT.json` lists every part with its status. Left out for
good: the HMAC check, path predicates, settings, prompts, health, logging (pure
functions or configuration), Python's parser, the rendering of prompts,
comments and summaries. `api/container.py` is wiring; that it keeps one service
per installation is what `InstallationToken` and `AnalysisCalls` rest on.

## 6. Plan

Done, in order of importance: `ReviewRun` and its proofs; `RecentDeliveries` and
`BackgroundReviewRunner` and their proofs; `Bicho`, `ReviewLedger` and their proofs;
`Findings` and `FindingPipeline`; `AnalysisCalls` and its proofs; `HunkParser`;
`InstallationToken` and its proofs; `InlineComments`; `LanguageAdapter`; the proofs of
`FindingPipeline`; the proofs of `HunkParser` and `InlineComments`.

Left open: the windows named in section 3 that no run singles out, the
materializing of files for the scanners at sanitized paths, and the liveness
properties, should the provers come to handle ENABLED.
