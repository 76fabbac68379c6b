---------------------------- MODULE AnalysisCalls ----------------------------
(***************************************************************************)
(* What reviews have in flight while they analyze: calls of one model      *)
(* provider, which retry while they hold its semaphore, and scanners that  *)
(* wait for processes in a temporary workspace.  A review's total timeout  *)
(* (ReviewService.run) cancels whatever it still awaits.                   *)
(*                                                                         *)
(* Reviews of one installation share the provider: webhook reviews if the  *)
(* runner has several slots, and manual ones in any case.  A step is what  *)
(* a task runs between two awaits; a cancelled task gets its               *)
(* CancelledError at its next step, which comes later.                     *)
(***************************************************************************)
EXTENDS Integers, Sequences, FiniteSets

CONSTANTS
    Reviews,      \* calls of ReviewService.run
    Roles,        \* LLM analyzers and the verifier
    Scanners,     \* semgrep, pip-audit
    Calls, Scans, \* <<review, role>> and <<review, scanner>>: what each
                  \* review selected
    Commands,     \* per scanner: its processes, one after the other: one for
                  \* semgrep, one for each manifest for pip-audit
    Concurrency,  \* max_concurrency of the provider, 0 if unbounded
    MaxAttempts   \* max_attempts of the provider

ASSUME NamesAssumption == Roles \intersect Scanners = {}
ASSUME TasksAssumption == Calls \subseteq Reviews \X Roles /\ Scans \subseteq Reviews \X Scanners
ASSUME LimitsAssumption == Concurrency \in Nat /\ MaxAttempts \in Nat \ {0}
ASSUME CommandsAssumption == Commands \in [Scanners -> Nat \ {0}]

VARIABLES
    phase,      \* per review: "analyzing", "cancelling", "analyzed", "FAILED"
    call,       \* per call, see TypeOK
    attempts,   \* per call: requests made
    value,      \* the semaphore's _value
    waiters,    \* the semaphore's _waiters, oldest first
    scan,       \* per scan, see TypeOK
    commands,   \* per scan: commands that are over
    process,    \* per scan: "none", "alive" or "gone", its latest process
    workspaces, \* scans whose temporary directory exists
    cancelled   \* tasks whose cancellation was requested and not delivered

semaphore == <<value, waiters>>
calls == <<call, attempts, semaphore>>
scans == <<scan, commands, process, workspaces>>
vars == <<phase, calls, scans, cancelled>>

Over == {"ok", "error", "cancelled"}
TasksOf(r) == {t \in Calls \union Scans : t[1] = r}
IsOver(t) == IF t \in Calls THEN call[t] \in Over ELSE scan[t] \in Over

Init ==
    /\ phase = [r \in Reviews |-> "analyzing"]
    /\ call = [c \in Calls |-> "scheduled"]
    /\ attempts = [c \in Calls |-> 0]
    /\ value = Concurrency
    /\ waiters = <<>>
    /\ scan = [k \in Scans |-> "scheduled"]
    /\ commands = [k \in Scans |-> 0]
    /\ process = [k \in Scans |-> "none"]
    /\ workspaces = {}
    /\ cancelled = {}

-----------------------------------------------------------------------------
(* asyncio.Semaphore.  The future of a cancelled waiter is cancelled: it   *)
(* stays in the queue until its task resumes, but nobody counts it.        *)
Asleep(c) == call[c] = "waiting" /\ c \notin cancelled

Unlocked ==
    \/ Concurrency = 0
    \/ /\ value > 0
       /\ \A i \in 1..Len(waiters) : call[waiters[i]] = "waiting" /\ ~Asleep(waiters[i])

(* Task c goes on in state `next'; `queue' holds the waiters, of which the *)
(* first n are woken, as far as slots are free.                            *)
WakeUp(c, next, queue, free, n) ==
    LET asleep == {i \in 1..Len(queue) : Asleep(queue[i])}
        woken == {queue[i] : i \in
                    {i \in asleep : Cardinality({j \in asleep : j < i}) < (IF n < free THEN n ELSE free)}}
    IN  /\ call' = [d \in Calls |-> IF d = c THEN next ELSE IF d \in woken THEN "woken" ELSE call[d]]
        /\ value' = free - Cardinality(woken)
        /\ waiters' = queue

(* The task leaves the queue, and passes on every free slot.               *)
LeaveQueue(c, next, free) ==
    LET i == CHOOSE i \in 1..Len(waiters) : waiters[i] = c
        others == SubSeq(waiters, 1, i - 1) \o SubSeq(waiters, i + 1, Len(waiters))
    IN  WakeUp(c, next, others, free, free)

Release(c, next) ==
    WakeUp(c, next, waiters, IF Concurrency = 0 THEN value ELSE value + 1, 1)

-----------------------------------------------------------------------------
(* LangChainModelProvider.structured.                                      *)
CallIn(c, state) == call[c] = state /\ c \notin cancelled

StartCalling(c) ==
    /\ CallIn(c, "scheduled")
    /\ Unlocked
    /\ call' = [call EXCEPT ![c] = "calling"]
    /\ attempts' = [attempts EXCEPT ![c] = 1]
    /\ value' = IF Concurrency = 0 THEN value ELSE value - 1
    /\ UNCHANGED <<phase, waiters, scans, cancelled>>

StartWaiting(c) ==
    /\ CallIn(c, "scheduled")
    /\ ~Unlocked
    /\ call' = [call EXCEPT ![c] = "waiting"]
    /\ waiters' = Append(waiters, c)
    /\ UNCHANGED <<phase, attempts, value, scans, cancelled>>

ResumeCalling(c) ==
    /\ CallIn(c, "woken")
    /\ LeaveQueue(c, "calling", value)
    /\ attempts' = [attempts EXCEPT ![c] = 1]
    /\ UNCHANGED <<phase, scans, cancelled>>

AnswerOk(c) ==
    /\ CallIn(c, "calling")
    /\ Release(c, "ok")
    /\ UNCHANGED <<phase, attempts, scans, cancelled>>

(* An exception, the request's own timeout or an answer without a tool     *)
(* call: the next attempt after a delay, or the error as the result.       *)
AnswerError(c) ==
    /\ CallIn(c, "calling")
    /\ attempts[c] = MaxAttempts
    /\ Release(c, "error")
    /\ UNCHANGED <<phase, attempts, scans, cancelled>>

(* Seeded fault: one attempt too many.                                     *)
DelayOnceMore(c) ==
    /\ CallIn(c, "calling")
    /\ attempts[c] <= MaxAttempts
    /\ call' = [call EXCEPT ![c] = "delaying"]
    /\ UNCHANGED <<phase, attempts, semaphore, scans, cancelled>>

Delay(c) ==
    /\ CallIn(c, "calling")
    /\ attempts[c] < MaxAttempts
    /\ call' = [call EXCEPT ![c] = "delaying"]
    /\ UNCHANGED <<phase, attempts, semaphore, scans, cancelled>>

(* Seeded fault: the attempt is not counted.                               *)
RetryUncounted(c) ==
    /\ CallIn(c, "delaying")
    /\ call' = [call EXCEPT ![c] = "calling"]
    /\ UNCHANGED <<phase, attempts, semaphore, scans, cancelled>>

Retry(c) ==
    /\ CallIn(c, "delaying")
    /\ call' = [call EXCEPT ![c] = "calling"]
    /\ attempts' = [attempts EXCEPT ![c] = @ + 1]
    /\ UNCHANGED <<phase, semaphore, scans, cancelled>>

(* CancelledError leaves structured: out of the queue, giving back a slot  *)
(* that was already handed over, or out of the `async with'.               *)
CancelWaiting(c) ==
    \/ call[c] = "scheduled" /\ call' = [call EXCEPT ![c] = "cancelled"] /\ UNCHANGED semaphore
    \/ call[c] = "waiting" /\ LeaveQueue(c, "cancelled", value)
    \/ call[c] = "woken" /\ LeaveQueue(c, "cancelled", value + 1)

(* Seeded fault: a slot taken without `async with' stays taken.            *)
CancelHolding(c) ==
    /\ call[c] \in {"calling", "delaying"}
    /\ call' = [call EXCEPT ![c] = "cancelled"]
    /\ UNCHANGED semaphore

CancelCalling(c) ==
    /\ call[c] \in {"calling", "delaying"}
    /\ Release(c, "cancelled")

CancelCall(c) ==
    /\ c \in cancelled
    /\ CancelWaiting(c) \/ CancelCalling(c)
    /\ cancelled' = cancelled \ {c}
    /\ UNCHANGED <<phase, attempts, scans>>

-----------------------------------------------------------------------------
(* The scanners, AsyncSubprocessRunner and TempWorkspaceFactory.           *)
ScanIn(k, state) == scan[k] = state /\ k \notin cancelled

(* rmtree ignores errors, as when a process still writes to the directory. *)
RemoveWorkspace(k) ==
    \/ workspaces' = workspaces \ {k}
    \/ process[k] = "alive" /\ UNCHANGED workspaces

StartScan(k) ==
    /\ ScanIn(k, "scheduled")
    /\ scan' = [scan EXCEPT ![k] = "waiting"]
    /\ process' = [process EXCEPT ![k] = "alive"]
    /\ workspaces' = workspaces \union {k}
    /\ UNCHANGED <<phase, calls, commands, cancelled>>

(* The binary is missing: create_subprocess_exec raises, the workspace is  *)
(* left at once.                                                           *)
StartRaises(k) ==
    /\ ScanIn(k, "scheduled")
    /\ scan' = [scan EXCEPT ![k] = "error"]
    /\ UNCHANGED <<phase, calls, commands, process, workspaces, cancelled>>

(* A process ends when it likes, watched or not.                           *)
ProcessExits(k) ==
    /\ process[k] = "alive"
    /\ process' = [process EXCEPT ![k] = "gone"]
    /\ UNCHANGED <<phase, calls, scan, commands, workspaces, cancelled>>

(* Seeded fault: after the timeout the process is left alone.              *)
GiveUpOnProcess(k) ==
    /\ ScanIn(k, "waiting")
    /\ process[k] = "alive"
    /\ scan' = [scan EXCEPT ![k] = "error"]
    /\ RemoveWorkspace(k)
    /\ UNCHANGED <<phase, calls, commands, process, cancelled>>

(* The scan's own timeout: kill, and wait.                                 *)
KillProcess(k) ==
    /\ ScanIn(k, "waiting")
    /\ process[k] = "alive"
    /\ process' = [process EXCEPT ![k] = "gone"]
    /\ UNCHANGED <<phase, calls, scan, commands, workspaces, cancelled>>

CommandOver(k) ==
    /\ ScanIn(k, "waiting")
    /\ process[k] = "gone"
    /\ commands' = [commands EXCEPT ![k] = @ + 1]
    /\ UNCHANGED <<phase, calls, cancelled>>

NextCommand(k) ==
    /\ CommandOver(k)
    /\ commands'[k] < Commands[k[2]]
    /\ process' = [process EXCEPT ![k] = "alive"]
    /\ UNCHANGED <<scan, workspaces>>

EndScan(k) ==
    /\ CommandOver(k)
    /\ commands'[k] = Commands[k[2]]
    /\ scan' = [scan EXCEPT ![k] = "ok"]
    /\ RemoveWorkspace(k)
    /\ UNCHANGED process

(* CancelledError is not the TimeoutError that `run' catches: the process  *)
(* is not killed.                                                          *)
CancelScan(k) ==
    /\ k \in cancelled
    /\ scan' = [scan EXCEPT ![k] = "cancelled"]
    /\ cancelled' = cancelled \ {k}
    /\ RemoveWorkspace(k)
    /\ UNCHANGED <<phase, calls, commands, process>>

-----------------------------------------------------------------------------
(* The review.                                                             *)

(* wait_for's timeout: every task of the superstep is cancelled.           *)
Deadline(r) ==
    /\ phase[r] = "analyzing"
    /\ phase' = [phase EXCEPT ![r] = "cancelling"]
    /\ cancelled' = cancelled \union {t \in TasksOf(r) : ~IsOver(t)}
    /\ UNCHANGED <<calls, scans>>

EndAnalysis(r) ==
    /\ phase[r] \in {"analyzing", "cancelling"}
    /\ \A t \in TasksOf(r) : IsOver(t)
    /\ phase' = [phase EXCEPT ![r] = IF @ = "analyzing" THEN "analyzed" ELSE "FAILED"]
    /\ UNCHANGED <<calls, scans, cancelled>>

CallStep(c) ==
    \/ StartCalling(c) \/ StartWaiting(c) \/ ResumeCalling(c)
    \/ AnswerOk(c) \/ AnswerError(c) \/ Delay(c) \/ Retry(c)
    \/ CancelCall(c)

ScanStep(k) ==
    \/ StartScan(k) \/ StartRaises(k)
    \/ KillProcess(k) \/ NextCommand(k) \/ EndScan(k)
    \/ CancelScan(k)

Next ==
    \/ \E c \in Calls : CallStep(c)
    \/ \E k \in Scans : ScanStep(k) \/ ProcessExits(k)
    \/ \E r \in Reviews : Deadline(r) \/ EndAnalysis(r)

Spec == Init /\ [][Next]_vars

(* Requests are answered or time out, timers fire, the event loop goes on. *)
(* Processes need not end by themselves, and reviews need not time out.    *)
FairSpec ==
    /\ Spec
    /\ \A c \in Calls : WF_vars(CallStep(c))
    /\ \A k \in Scans : WF_vars(ScanStep(k))
    /\ \A r \in Reviews : WF_vars(EndAnalysis(r))

-----------------------------------------------------------------------------
(* The types of the variables.                                             *)
TypeOK ==
    /\ phase \in [Reviews -> {"analyzing", "cancelling", "analyzed", "FAILED"}]
    /\ call \in [Calls -> {"scheduled", "waiting", "woken", "calling", "delaying"} \union Over]
    /\ attempts \in [Calls -> 0..MaxAttempts]
    /\ value \in 0..Concurrency
    /\ waiters \in Seq(Calls)
    /\ scan \in [Scans -> {"scheduled", "waiting"} \union Over]
    /\ \A k \in Scans : commands[k] \in 0..Commands[k[2]]
    /\ process \in [Scans -> {"none", "alive", "gone"}]
    /\ workspaces \subseteq Scans
    /\ cancelled \subseteq Calls \union Scans

Holding == {c \in Calls : call[c] \in {"woken", "calling", "delaying"}}

(* The provider's semaphore survives every cancellation: a slot is free,   *)
(* handed over or held by a call, whenever the review of a waiting, woken, *)
(* calling or delaying call times out; no more than max_concurrency        *)
(* requests are ever made at once, and no slot is free while a call waits  *)
(* that nobody is going to wake.                                           *)
SlotsSurviveCancellation ==
    Concurrency > 0 =>
        /\ value + Cardinality(Holding) = Concurrency
        /\ (value > 0 /\ \E c \in Calls : Asleep(c)) =>
               \E i \in 1..Len(waiters) : ~Asleep(waiters[i])

(* A review that is over, timed out or not, leaves nothing behind: none of *)
(* its calls waits for a slot or holds one, and no process and no          *)
(* workspace of its scanners remains, except where a scan was cancelled.   *)
ReviewLeavesNothing ==
    \A r \in Reviews : phase[r] \in {"analyzed", "FAILED"} =>
        /\ \A c \in Calls : c[1] = r => c \notin Holding /\ \A i \in 1..Len(waiters) : waiters[i] # c
        /\ \A k \in Scans : k[1] = r /\ scan[k] # "cancelled" =>
               process[k] # "alive" /\ k \notin workspaces

(* Every analysis ends, whatever the model and the processes do, although  *)
(* calls wait for calls of other reviews that are delaying or cancelled.   *)
EveryAnalysisEnds == \A r \in Reviews : <>(phase[r] \in {"analyzed", "FAILED"})

-----------------------------------------------------------------------------
(* What the documentation says, and the code does not do.                  *)

(* okf/security-model.md:26, scanners run "via a no-shell subprocess       *)
(* runner with a hard timeout": none of their processes runs for ever.     *)
EveryProcessEnds == \A k \in Scans : process[k] = "alive" ~> process[k] # "alive"
=============================================================================
