----------------------- MODULE BackgroundReviewRunner -----------------------
(***************************************************************************)
(* The webhook handler and the in-process runner behind it: one asyncio    *)
(* task per accepted delivery, an asyncio.Semaphore that bounds how many   *)
(* review at once, the set of tasks that drain awaits at shutdown, and a   *)
(* process that may die at any moment.                                     *)
(*                                                                         *)
(* A task suspends only at the semaphore and inside its review, so a step  *)
(* is what the event loop runs between two suspensions.  The loop's ready  *)
(* queue is first in first out: tasks start in the order they were         *)
(* created, and woken waiters resume in the order they were woken.         *)
(***************************************************************************)
EXTENDS RecentDeliveries, FiniteSets

CONSTANTS
    Events,         \* webhook payloads: [id, reviewable, complete]
    NoHeader,       \* the id of a request without X-GitHub-Delivery
    Concurrency,    \* the semaphore's initial value
    MaxTasks        \* bound: tasks created by all processes together

Tasks == 1..MaxTasks

ASSUME NoHeaderAssumption == NoHeader \notin Deliveries
ASSUME EventsAssumption ==
    Events \subseteq [id: Deliveries \union {NoHeader},
                      reviewable: BOOLEAN, complete: BOOLEAN]
ASSUME LimitsAssumption ==
    /\ Concurrency \in Nat \ {0}
    /\ MaxTasks \in Nat

VARIABLES
    created,  \* tasks created so far: 1..created
    state,    \* per task, see TypeOK
    tasks,    \* _tasks
    value,    \* the semaphore's _value
    waiters,  \* the semaphore's _waiters, oldest first
    phase,    \* "serving", "draining" (after yield in _lifespan) or "stopped"
    awaited   \* what drain's gather is waiting for

semaphore == <<value, waiters>>
server == <<phase, awaited>>
vars == <<seen, order, registered, created, state, tasks, value, waiters,
          phase, awaited>>

InState(s) == {t \in Tasks : state[t] = s}
Running == InState("running")
Unfinished == {"scheduled", "waiting", "woken", "running"}

Init ==
    /\ InitMemory
    /\ created = 0
    /\ state = [t \in Tasks |-> "none"]
    /\ tasks = {}
    /\ value = Concurrency
    /\ waiters = <<>>
    /\ phase = "serving"
    /\ awaited = {}

-----------------------------------------------------------------------------
(* Seeded fault: the task is created but no reference to it is kept.       *)
ScheduleUnreferenced ==
    /\ created < MaxTasks
    /\ created' = created + 1
    /\ state' = [state EXCEPT ![created + 1] = "scheduled"]
    /\ UNCHANGED tasks

(* schedule: create the task, hold a reference to it until it is done.     *)
Schedule ==
    /\ created < MaxTasks
    /\ created' = created + 1
    /\ state' = [state EXCEPT ![created + 1] = "scheduled"]
    /\ tasks' = tasks \union {created + 1}

(* github_webhook, for the payloads that get past its filters and are not  *)
(* redeliveries (those are answered without changing anything).  The id is *)
(* registered before the rest of the payload is read: an incomplete one    *)
(* raises KeyError and schedules nothing.                                  *)
Webhook(e) ==
    /\ phase = "serving"
    /\ e.reviewable
    /\ \/ e.id = NoHeader /\ UNCHANGED deliveries
       \/ e.id # NoHeader /\ Register(e.id)
    /\ \/ e.complete /\ Schedule
       \/ ~e.complete /\ UNCHANGED <<created, state, tasks>>
    /\ UNCHANGED <<semaphore, server>>

NextToStart(t) ==
    /\ state[t] = "scheduled"
    /\ \A u \in 1..(t-1) : state[u] # "scheduled"

(* Seeded faults: a free slot is taken ahead of the waiters; no semaphore. *)
StartBarging(t) ==
    /\ NextToStart(t)
    /\ value > 0
    /\ state' = [state EXCEPT ![t] = "running"]
    /\ value' = value - 1
    /\ UNCHANGED <<deliveries, created, tasks, waiters, server>>

StartUnbounded(t) ==
    /\ NextToStart(t)
    /\ state' = [state EXCEPT ![t] = "running"]
    /\ value' = value - 1
    /\ UNCHANGED <<deliveries, created, tasks, waiters, server>>

(* A task's first step: Semaphore.acquire without suspending ...           *)
StartRunning(t) ==
    /\ NextToStart(t)
    /\ value > 0 /\ waiters = <<>>
    /\ state' = [state EXCEPT ![t] = "running"]
    /\ value' = value - 1
    /\ UNCHANGED <<deliveries, created, tasks, waiters, server>>

(* ... or joining the waiters.                                             *)
StartWaiting(t) ==
    /\ NextToStart(t)
    /\ ~(value > 0 /\ waiters = <<>>)
    /\ state' = [state EXCEPT ![t] = "waiting"]
    /\ waiters' = Append(waiters, t)
    /\ UNCHANGED <<deliveries, created, tasks, value, server>>

(* _wake_up_next, up to n times while slots are free: each time the oldest *)
(* waiter not woken yet takes a slot.                                      *)
Asleep(st) == {i \in 1..Len(waiters) : st[waiters[i]] = "waiting"}

WakeUpNext(st, free, n) ==
    LET woken == {i \in Asleep(st) :
                    Cardinality({j \in Asleep(st) : j < i}) < (IF n < free THEN n ELSE free)}
    IN  /\ state' = [t \in Tasks |-> IF \E i \in woken : waiters[i] = t
                                    THEN "woken" ELSE st[t]]
        /\ value' = free - Cardinality(woken)

(* A woken waiter resumes in acquire and passes on every spare slot.       *)
Resume(t) ==
    /\ waiters # <<>> /\ t = Head(waiters)
    /\ state[t] = "woken"
    /\ WakeUpNext([state EXCEPT ![t] = "running"], value, value)
    /\ waiters' = Tail(waiters)
    /\ UNCHANGED <<deliveries, created, tasks, server>>

(* Seeded faults: the slot is released twice; never, as when the exception *)
(* of a review skips the release; without waking anybody.                  *)
FinishReleasingTwice(t) ==
    /\ state[t] = "running"
    /\ WakeUpNext([state EXCEPT ![t] = "finished"], value + 2, 2)
    /\ UNCHANGED <<deliveries, created, tasks, waiters, server>>

FinishHoldingSlot(t) ==
    /\ state[t] = "running"
    /\ state' = [state EXCEPT ![t] = "finished"]
    /\ UNCHANGED <<deliveries, created, tasks, semaphore, server>>

FinishWakingNobody(t) ==
    /\ state[t] = "running"
    /\ WakeUpNext([state EXCEPT ![t] = "finished"], value + 1, 0)
    /\ UNCHANGED <<deliveries, created, tasks, waiters, server>>

(* service.run returned or raised (_run logs and swallows the exception):  *)
(* the semaphore is released and the task is done.                         *)
FinishReview(t) ==
    /\ state[t] = "running"
    /\ WakeUpNext([state EXCEPT ![t] = "finished"], value + 1, 1)
    /\ UNCHANGED <<deliveries, created, tasks, waiters, server>>

(* The done callback, which the loop runs some steps later.                *)
Discard(t) ==
    /\ state[t] = "finished"
    /\ t \in tasks
    /\ tasks' = tasks \ {t}
    /\ UNCHANGED <<deliveries, created, state, semaphore, server>>

-----------------------------------------------------------------------------
(* Shutdown: the server no longer takes requests; drain gathers what       *)
(* _tasks holds, again and again until it is empty.                        *)
Gather ==
    IF tasks = {} THEN phase' = "stopped" /\ awaited' = {}
                  ELSE phase' = "draining" /\ awaited' = tasks

StartDrain ==
    /\ phase = "serving"
    /\ Gather
    /\ UNCHANGED <<deliveries, created, state, tasks, semaphore>>

DrainAgain ==
    /\ phase = "draining"
    /\ \A t \in awaited : state[t] = "finished" /\ t \notin tasks
    /\ Gather
    /\ UNCHANGED <<deliveries, created, state, tasks, semaphore>>

(* The process dies, at any moment, or was stopped: a new one starts with  *)
(* an empty memory, and the reviews accepted before are gone.              *)
Restart ==
    /\ Forget
    /\ state' = [t \in Tasks |-> IF state[t] \in Unfinished THEN "lost" ELSE state[t]]
    /\ tasks' = {}
    /\ value' = Concurrency
    /\ waiters' = <<>>
    /\ phase' = "serving"
    /\ awaited' = {}
    /\ UNCHANGED created

TaskStep(t) ==
    \/ StartRunning(t) \/ StartWaiting(t) \/ Resume(t)
    \/ FinishReview(t) \/ Discard(t)

Next ==
    \/ \E e \in Events : Webhook(e)
    \/ \E t \in Tasks : TaskStep(t)
    \/ StartDrain \/ DrainAgain
    \/ Restart

Spec == Init /\ [][Next]_vars

(* The event loop runs every ready callback, and a review always ends: the *)
(* service bounds it with review_timeout_seconds.                          *)
Fairness ==
    /\ \A t \in Tasks : WF_vars(TaskStep(t))
    /\ WF_vars(DrainAgain)

FairSpec == Spec /\ Fairness

-----------------------------------------------------------------------------
(* The types of the variables.                                             *)
TypeOK ==
    /\ MemoryTypeOK
    /\ created \in 0..MaxTasks
    /\ state \in [Tasks -> {"none", "finished", "lost"} \union Unfinished]
    /\ tasks \subseteq Tasks
    /\ value \in 0..Concurrency
    /\ waiters \in Seq(Tasks)
    /\ phase \in {"serving", "draining", "stopped"}
    /\ awaited \subseteq Tasks

(* The semaphore's slots are conserved through hand-overs: a slot is free, *)
(* running a review, or on its way to a woken waiter, so at most           *)
(* Concurrency reviews run and none of the slots leaks.                    *)
SlotsConserved ==
    value + Cardinality(Running) + Cardinality(InState("woken")) = Concurrency

(* No lost wake-up: while a slot is free somebody may sleep on the         *)
(* semaphore only behind a waiter that was woken and will pass it on.      *)
NoSleeperLeftBehind ==
    value > 0 /\ InState("waiting") # {} => InState("woken") # {}

(* Reviews begin in the order their deliveries were accepted, so a push is *)
(* reviewed before a later push of the same process.                       *)
Begun == {"running", "finished"}
FirstAcceptedFirst ==
    \A u \in Tasks : state[u] \in Begun =>
        \A t \in 1..(u-1) : state[t] \in Begun \union {"lost"}

(* When the lifespan goes on to close the HTTP clients, no review is left  *)
(* that could still use them.                                              *)
DrainLeavesNothing ==
    phase = "stopped" => \A t \in Tasks : state[t] \notin Unfinished

(* Every accepted delivery is reviewed to an outcome or lost in a restart. *)
EveryReviewEnds ==
    \A t \in Tasks : state[t] = "scheduled" ~> state[t] \in {"finished", "lost"}

(* Shutdown terminates, however many reviews are in flight or queued.      *)
DrainReturns == phase = "draining" ~> phase # "draining"
=============================================================================
