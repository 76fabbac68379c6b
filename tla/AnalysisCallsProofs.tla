------------------------- MODULE AnalysisCallsProofs -------------------------
(***************************************************************************)
(* Theorems about AnalysisCalls, for any number of reviews, calls, slots,  *)
(* attempts, scans and commands.                                           *)
(***************************************************************************)
EXTENDS AnalysisCalls, ListFacts

-----------------------------------------------------------------------------
(* The inductive invariant.                                                *)
CallStates == {"scheduled", "waiting", "woken", "calling", "delaying"} \union Over
ScanStates == {"scheduled", "waiting"} \union Over
Queued == {"waiting", "woken"}
Ended == {"analyzed", "FAILED"}

QueueHoldsQueued ==
    \A c \in Calls : call[c] \in Queued <=> \E i \in 1..Len(waiters) : waiters[i] = c

Slots ==
    /\ call \in [Calls -> CallStates]
    /\ value \in 0..Concurrency
    /\ waiters \in Seq(Calls)
    /\ Distinct(waiters) /\ QueueHoldsQueued
    /\ Concurrency = 0 => waiters = <<>>
    /\ IsFiniteSet(Holding)
    /\ SlotsSurviveCancellation

AttemptsLeft ==
    /\ attempts \in [Calls -> 0..MaxAttempts]
    /\ \A c \in Calls : call[c] = "delaying" => attempts[c] < MaxAttempts

ScansTidy ==
    /\ scan \in [Scans -> ScanStates]
    /\ commands \in [Scans -> Nat]
    /\ process \in [Scans -> {"none", "alive", "gone"}]
    /\ workspaces \subseteq Scans
    /\ \A k \in Scans :
         /\ commands[k] <= Commands[k[2]]
         /\ scan[k] \in {"scheduled", "waiting"} => commands[k] < Commands[k[2]]
         /\ scan[k] = "scheduled" => process[k] = "none" /\ k \notin workspaces
         /\ scan[k] \in {"ok", "error"} => process[k] # "alive" /\ k \notin workspaces

ReviewsWait ==
    /\ phase \in [Reviews -> {"analyzing", "cancelling"} \union Ended]
    /\ cancelled \subseteq Calls \union Scans
    /\ \A c \in Calls : phase[c[1]] \in Ended => call[c] \in Over
    /\ \A k \in Scans : phase[k[1]] \in Ended => scan[k] \in Over

IInv == Slots /\ AttemptsLeft /\ ScansTidy /\ ReviewsWait

-----------------------------------------------------------------------------
(* Calls and scans are different tasks.                                    *)
LEMMA TasksDiffer == \A c \in Calls, k \in Scans : c # k
  BY NamesAssumption, TasksAssumption

(* What a step of call c does to the calls, whichever it is.               *)
Moves(c, next) ==
    /\ call'[c] = next
    /\ \A d \in Calls : d # c =>
         call'[d] = call[d] \/ (call[d] = "waiting" /\ call'[d] = "woken")

(* The waiters without c, the calls that hold a slot when c has gone on    *)
(* without waking anybody, and that no other call's cancellation changes.  *)
AreOthersWaiting(c, queue) ==
    /\ queue \in Seq(Calls) /\ Distinct(queue)
    /\ \A d \in Calls : (\E i \in 1..Len(queue) : queue[i] = d) <=> call[d] \in Queued /\ d # c

AreKept(c, next, kept) ==
    /\ kept \in SUBSET Calls /\ IsFiniteSet(kept)
    /\ \A d \in Calls : d \in kept <=>
         IF d = c THEN next \in {"calling", "delaying"}
                  ELSE call[d] \in {"woken", "calling", "delaying"}

CancelsNoOther(c) == \A d \in Calls : d # c => (d \in cancelled' <=> d \in cancelled)

(* A call goes on and wakes others: if the calls that keep a slot and the  *)
(* free slots are all the slots, the semaphore is in order again.          *)
LEMMA Waking ==
    ASSUME Slots, NEW c \in Calls, NEW next \in CallStates \ Queued,
           NEW queue, AreOthersWaiting(c, queue),
           NEW kept, AreKept(c, next, kept),
           NEW free \in Nat, NEW n \in Nat, n = free \/ n >= 1,
           Concurrency > 0 => free + Cardinality(kept) = Concurrency,
           Concurrency = 0 => free = 0 /\ queue = <<>>,
           CancelsNoOther(c),
           WakeUp(c, next, queue, free, n)
    PROVE  Slots' /\ Moves(c, next)
<1> USE DEF AreOthersWaiting, AreKept, CancelsNoOther
<1> DEFINE A == {i \in 1..Len(queue) : Asleep(queue[i])}
           k == IF n < free THEN n ELSE free
           W == Owners(queue, First(A, k))
<1>1. /\ call' = [d \in Calls |-> IF d = c THEN next ELSE IF d \in W THEN "woken" ELSE call[d]]
      /\ value' = free - Cardinality(W)
      /\ waiters' = queue
  BY DEF WakeUp, Owners, First, Below
<1>2. k \in Nat /\ k <= n /\ k <= free /\ (k = n \/ k = free)
  OBVIOUS
<1>3. A \in SUBSET (1..Len(queue))
  OBVIOUS
<1> HIDE DEF A, k
<1>4. /\ IsFiniteSet(W) /\ Cardinality(W) \in Nat /\ Cardinality(W) <= k
      /\ \A w \in W : \E i \in A : queue[i] = w
      /\ Cardinality(W) < k => \A i \in A : queue[i] \in W
  <2>1. queue \in Seq(Calls) /\ Distinct(queue)
    OBVIOUS
  <2> QED
    BY ONLY <1>2, <1>3, <2>1, FirstInQueue
<1>5. \A w \in W : w \in Calls /\ w # c /\ Asleep(w) /\ \E i \in 1..Len(queue) : queue[i] = w
  <2> SUFFICES ASSUME NEW w \in W
               PROVE  w \in Calls /\ w # c /\ Asleep(w) /\ \E i \in 1..Len(queue) : queue[i] = w
    OBVIOUS
  <2>1. PICK i \in A : queue[i] = w
    BY <1>4
  <2>2. i \in 1..Len(queue) /\ Asleep(queue[i])
    BY DEF A
  <2>3. w \in Calls
    BY <2>1, <2>2
  <2> QED
    BY <2>1, <2>2, <2>3
<1> HIDE DEF W
<1>6. call'[c] = next /\ \A w \in W : call'[w] = "woken" /\ call[w] = "waiting"
  BY <1>1, <1>5 DEF Asleep
<1>7. \A d \in Calls : d # c /\ d \notin W => call'[d] = call[d]
  BY <1>1
<1>8. call' \in [Calls -> CallStates]
  BY <1>1 DEF Slots, CallStates
<1>9. \A d \in Calls : d # c => call'[d] = call[d] \/ (call[d] = "waiting" /\ call'[d] = "woken")
  BY <1>6, <1>7
<1>10. QueueHoldsQueued'
  <2>1. \A d \in Calls : call'[d] \in Queued <=> call[d] \in Queued /\ d # c
    BY <1>6, <1>7 DEF Queued
  <2> QED
    BY <1>1, <2>1 DEF QueueHoldsQueued
<1>11. Holding' = kept \union W /\ kept \intersect W = {}
  <2>1. \A d \in Calls : call'[d] \in {"woken", "calling", "delaying"} <=> d \in kept \/ d \in W
    <3> SUFFICES ASSUME NEW d \in Calls
                 PROVE  call'[d] \in {"woken", "calling", "delaying"} <=> d \in kept \/ d \in W
      OBVIOUS
    <3>1. CASE d = c
      BY <3>1, <1>5, <1>6 DEF Queued
    <3>2. CASE d # c
      BY <3>2, <1>6, <1>7
    <3> QED
      BY <3>1, <3>2
  <2>2. \A w \in W : w \notin kept
    BY <1>5, <1>6
  <2> QED
    BY <2>1, <2>2, <1>5 DEF Holding
<1>12. IsFiniteSet(Holding') /\ Cardinality(Holding') = Cardinality(kept) + Cardinality(W)
  <2>1. /\ IsFiniteSet(kept \union W)
        /\ Cardinality(kept \union W) =
             Cardinality(kept) + Cardinality(W) - Cardinality(kept \intersect W)
    BY <1>4, FS_Union, Zenon
  <2>2. Cardinality(kept \intersect W) = 0
    BY <1>11, FS_EmptySet
  <2>3. Cardinality(kept) \in Nat
    BY FS_CardinalityType
  <2> QED
    BY <1>4, <1>11, <2>1, <2>2, <2>3
<1>13. value' \in Nat /\ (Concurrency > 0 => value' + Cardinality(Holding') = Concurrency)
  <2>1. Cardinality(kept) \in Nat /\ Concurrency \in Nat
    BY FS_CardinalityType, LimitsAssumption
  <2> QED
    BY <1>1, <1>2, <1>4, <1>12, <2>1
<1>14. value' \in 0..Concurrency
  <2>1. Cardinality(Holding') \in Nat /\ Concurrency \in Nat
    BY <1>12, FS_CardinalityType, LimitsAssumption
  <2>2. Concurrency = 0 => value' = 0
    BY <1>1, <1>2, <1>4
  <2> QED
    BY <1>13, <2>1, <2>2
<1>15. ASSUME value' > 0, NEW d \in Calls, Asleep(d)'
       PROVE  \E i \in 1..Len(queue) : ~Asleep(queue[i])'
  <2>1. d # c /\ d \notin W /\ call[d] = "waiting" /\ d \notin cancelled
    BY <1>6, <1>7, <1>15 DEF Asleep, Queued
  <2>2. PICK i \in 1..Len(queue) : queue[i] = d
    BY <2>1 DEF Queued
  <2>3. i \in A /\ queue[i] \notin W
    BY <2>1, <2>2 DEF A, Asleep
  <2>4. ~(Cardinality(W) < k)
    BY <1>4, <2>3
  <2>5. Cardinality(W) # 0
    BY <1>1, <1>2, <1>4, <1>15, <2>4
  <2>6. PICK w \in W : TRUE
    BY <2>5, FS_EmptySet
  <2>7. PICK j \in 1..Len(queue) : queue[j] = w
    BY <1>5, <2>6
  <2>8. ~Asleep(queue[j])'
    BY <1>6, <2>6, <2>7 DEF Asleep
  <2> QED
    BY <2>8
<1>16. SlotsSurviveCancellation'
  BY <1>1, <1>13, <1>15 DEF SlotsSurviveCancellation
<1>17. Slots'
  BY <1>1, <1>8, <1>10, <1>12, <1>14, <1>16 DEF Slots
<1> QED
  BY <1>6, <1>9, <1>17 DEF Moves

LEMMA HoldingCounts ==
    ASSUME Slots
    PROVE  /\ Cardinality(Holding) \in Nat
           /\ Concurrency > 0 => value + Cardinality(Holding) = Concurrency
           /\ \A c \in Holding :
                /\ IsFiniteSet(Holding \ {c})
                /\ Cardinality(Holding \ {c}) = Cardinality(Holding) - 1
  BY FS_CardinalityType, FS_RemoveElement DEF Slots, SlotsSurviveCancellation

(* A call returns or is cancelled while it holds a slot.                   *)
LEMMA Releasing ==
    ASSUME Slots, NEW c \in Calls, call[c] \in {"calling", "delaying"},
           NEW next \in Over, Release(c, next),
           CancelsNoOther(c)
    PROVE  Slots' /\ Moves(c, next)
<1> DEFINE free == IF Concurrency = 0 THEN value ELSE value + 1
           kept == Holding \ {c}
<1>1. /\ value \in 0..Concurrency /\ Concurrency \in Nat
      /\ waiters \in Seq(Calls) /\ Distinct(waiters) /\ QueueHoldsQueued
      /\ Concurrency = 0 => waiters = <<>>
  BY LimitsAssumption DEF Slots
<1>2. c \in Holding /\ next \in CallStates \ Queued /\ next \notin {"calling", "delaying"}
  BY DEF Holding, Over, CallStates, Queued
<1>3. AreOthersWaiting(c, waiters)
  BY <1>1 DEF AreOthersWaiting, QueueHoldsQueued, Queued
<1>4. /\ IsFiniteSet(kept) /\ Cardinality(kept) = Cardinality(Holding) - 1
      /\ Cardinality(Holding) \in Nat
      /\ Concurrency > 0 => value + Cardinality(Holding) = Concurrency
  BY <1>2, HoldingCounts
<1>5. AreKept(c, next, kept)
  BY <1>2, <1>4 DEF AreKept, Holding
<1> HIDE DEF kept
<1>6. /\ free \in Nat
      /\ Concurrency > 0 => free + Cardinality(kept) = Concurrency
      /\ Concurrency = 0 => free = 0 /\ waiters = <<>>
  BY <1>1, <1>4
<1>7. WakeUp(c, next, waiters, free, 1) /\ 1 \in Nat /\ 1 >= 1
  BY DEF Release
<1> HIDE DEF free
<1> QED
  BY <1>2, <1>3, <1>5, <1>6, <1>7, Waking

(* A waiter leaves the queue: with the slot it was given, giving that slot *)
(* back, or, cancelled in its sleep, without one.                          *)
LEMMA LeavingQueue ==
    ASSUME Slots, NEW c \in Calls, call[c] \in Queued,
           NEW next \in {"calling", "cancelled"}, NEW free \in Nat,
           \/ free = value /\ (call[c] = "woken" <=> next = "calling")
           \/ free = value + 1 /\ call[c] = "woken" /\ next = "cancelled",
           LeaveQueue(c, next, free),
           CancelsNoOther(c)
    PROVE  Slots' /\ Moves(c, next)
<1> DEFINE at == CHOOSE i \in 1..Len(waiters) : waiters[i] = c
           rest == Without(waiters, at)
           kept == IF free = value THEN Holding ELSE Holding \ {c}
<1>1. /\ value \in 0..Concurrency /\ Concurrency \in Nat
      /\ waiters \in Seq(Calls) /\ Distinct(waiters) /\ QueueHoldsQueued
      /\ Concurrency = 0 => waiters = <<>>
      /\ IsFiniteSet(Holding)
  BY LimitsAssumption DEF Slots
<1>2. at \in 1..Len(waiters) /\ waiters[at] = c
  BY <1>1 DEF QueueHoldsQueued
<1>3. WakeUp(c, next, rest, free, free)
  BY DEF LeaveQueue, Without
<1> HIDE DEF at
<1>4. /\ rest \in Seq(Calls) /\ Distinct(rest)
      /\ Everyone(rest) = Everyone(waiters) \ {c}
  BY <1>1, <1>2, Leaving
<1> HIDE DEF rest
<1>5. AreOthersWaiting(c, rest)
  <2>1. \A d \in Calls : d \in Everyone(waiters) <=> call[d] \in Queued
    BY <1>1 DEF QueueHoldsQueued, Everyone, Owners
  <2>2. \A d \in Calls : (\E i \in 1..Len(rest) : rest[i] = d) <=> d \in Everyone(rest)
    BY DEF Everyone, Owners
  <2> QED
    BY <1>4, <2>1, <2>2 DEF AreOthersWaiting
<1>6. Concurrency > 0
  BY <1>1, <1>2
<1>7. next \in CallStates \ Queued
  BY DEF Over, CallStates, Queued
<1>8. IsFiniteSet(kept) /\ free + Cardinality(kept) = Concurrency
  <2>1. /\ Cardinality(Holding) \in Nat
        /\ value + Cardinality(Holding) = Concurrency
    BY <1>6, HoldingCounts
  <2>2. CASE free = value
    BY <1>1, <2>1, <2>2
  <2>3. CASE free = value + 1 /\ call[c] = "woken"
    <3>1. c \in Holding
      BY <2>3 DEF Holding
    <3>2. kept = Holding \ {c}
      BY <1>1, <2>3
    <3>3. IsFiniteSet(kept) /\ Cardinality(kept) = Cardinality(Holding) - 1
      BY <3>1, <3>2, HoldingCounts
    <3> QED
      BY <1>1, <2>1, <2>3, <3>3
  <2> QED
    BY <2>2, <2>3
<1>9. AreKept(c, next, kept)
  <2>1. CASE free = value
    BY <1>1, <1>8, <2>1 DEF AreKept, Holding, Queued
  <2>2. CASE free = value + 1
    BY <1>1, <1>8, <2>2 DEF AreKept, Holding
  <2> QED
    BY <2>1, <2>2
<1> HIDE DEF kept
<1>10. Concurrency = 0 => free = 0 /\ rest = <<>>
  BY <1>6
<1> QED
  BY <1>3, <1>5, <1>7, <1>8, <1>9, <1>10, Waking

-----------------------------------------------------------------------------
(* The invariant holds initially and is preserved by every action.         *)
LEMMA InitInvariant == Init => IInv
<1> SUFFICES ASSUME Init PROVE IInv
  OBVIOUS
<1> USE DEF Init
<1>1. Concurrency \in Nat /\ MaxAttempts \in Nat \ {0}
  BY LimitsAssumption
<1>2. Holding = {} /\ IsFiniteSet(Holding) /\ Cardinality(Holding) = 0
  BY FS_EmptySet DEF Holding
<1>3. Slots
  <2>1. \A c \in Calls : ~Asleep(c)
    BY DEF Asleep
  <2> QED
    BY <1>1, <1>2, <2>1
    DEF Slots, CallStates, Distinct, QueueHoldsQueued, Queued, SlotsSurviveCancellation
<1>4. AttemptsLeft
  BY <1>1 DEF AttemptsLeft
<1>5. ScansTidy
  <2>1. \A k \in Scans : Commands[k[2]] \in Nat \ {0}
    BY TasksAssumption, CommandsAssumption
  <2> QED
    BY <2>1 DEF ScansTidy, ScanStates, Over
<1>6. ReviewsWait
  <2>1. \A c \in Calls : c[1] \in Reviews
    BY TasksAssumption
  <2>2. \A k \in Scans : k[1] \in Reviews
    BY TasksAssumption
  <2> QED
    BY <2>1, <2>2 DEF ReviewsWait, Ended
<1> QED
  BY <1>3, <1>4, <1>5, <1>6 DEF IInv

(* Joining the queue keeps it; whoever was passed over is passed over for  *)
(* one who is awake.                                                       *)
LEMMA StartWaitingStep ==
    ASSUME Slots, NEW c \in Calls, StartWaiting(c)
    PROVE  Slots' /\ Moves(c, "waiting")
<1> DEFINE n == Len(waiters)
<1>1. /\ call \in [Calls -> CallStates] /\ value \in 0..Concurrency /\ Concurrency \in Nat
      /\ waiters \in Seq(Calls) /\ Distinct(waiters) /\ QueueHoldsQueued
      /\ IsFiniteSet(Holding) /\ SlotsSurviveCancellation
  BY LimitsAssumption DEF Slots
<1>2. /\ call[c] = "scheduled" /\ ~Unlocked
      /\ call' = [call EXCEPT ![c] = "waiting"]
      /\ waiters' = Append(waiters, c)
      /\ value' = value /\ cancelled' = cancelled
  BY DEF StartWaiting, CallIn
<1>3. call'[c] = "waiting" /\ \A d \in Calls : d # c => call'[d] = call[d]
  BY <1>1, <1>2
<1>4. /\ n \in Nat /\ Len(waiters') = n + 1 /\ waiters'[n + 1] = c
      /\ \A i \in 1..n : waiters'[i] = waiters[i] /\ waiters[i] \in Calls
      /\ waiters' \in Seq(Calls)
  BY <1>1, <1>2
<1>5. \A i \in 1..n : waiters[i] # c
  BY <1>1, <1>2, <1>4 DEF QueueHoldsQueued, Queued
<1>6. Distinct(waiters')
  BY <1>1, <1>4, <1>5 DEF Distinct
<1>7. QueueHoldsQueued'
  <2> SUFFICES ASSUME NEW d \in Calls
               PROVE  call'[d] \in Queued <=> \E i \in 1..(n + 1) : waiters'[i] = d
    BY <1>4 DEF QueueHoldsQueued
  <2>1. CASE d = c
    BY <2>1, <1>3, <1>4 DEF Queued
  <2>2. CASE d # c
    <3>1. (\E i \in 1..(n + 1) : waiters'[i] = d) <=> (\E i \in 1..n : waiters[i] = d)
      BY <2>2, <1>4
    <3> QED
      BY <3>1, <2>2, <1>1, <1>3 DEF QueueHoldsQueued
  <2> QED
    BY <2>1, <2>2
<1>8. Holding' = Holding
  BY <1>2, <1>3 DEF Holding
<1>9. SlotsSurviveCancellation'
  <2>1. ASSUME Concurrency > 0, value > 0
        PROVE  \E i \in 1..(n + 1) : call'[waiters'[i]] # "waiting" \/ waiters'[i] \in cancelled'
    <3>1. \E i \in 1..n : call[waiters[i]] # "waiting" \/ Asleep(waiters[i])
      BY <1>2, <2>1 DEF Unlocked
    <3>2. PICK i \in 1..n : ~Asleep(waiters[i])
      BY <1>1, <1>4, <2>1, <3>1 DEF SlotsSurviveCancellation, Asleep
    <3>3. waiters'[i] = waiters[i] /\ waiters[i] # c /\ i \in 1..(n + 1)
      BY <1>4, <1>5
    <3>4. call'[waiters[i]] # "waiting" \/ waiters[i] \in cancelled'
      BY <1>2, <1>3, <1>4, <3>2, <3>3 DEF Asleep
    <3> QED
      BY <3>3, <3>4
  <2>2. Concurrency > 0 => value' + Cardinality(Holding') = Concurrency
    BY <1>1, <1>2, <1>8 DEF SlotsSurviveCancellation
  <2> QED
    BY <1>2, <1>4, <2>1, <2>2 DEF SlotsSurviveCancellation, Asleep
<1>10. Concurrency # 0
  BY <1>2 DEF Unlocked
<1>11. call' \in [Calls -> CallStates]
  BY <1>1, <1>2 DEF CallStates
<1> QED
  BY <1>1, <1>2, <1>3, <1>4, <1>6, <1>7, <1>8, <1>9, <1>10, <1>11 DEF Slots, Moves

(* An unlocked semaphore gives a slot without suspending.                  *)
LEMMA StartCallingStep ==
    ASSUME Slots, NEW c \in Calls, StartCalling(c)
    PROVE  Slots' /\ Moves(c, "calling")
<1>1. /\ call \in [Calls -> CallStates] /\ value \in 0..Concurrency /\ Concurrency \in Nat
      /\ waiters \in Seq(Calls) /\ Distinct(waiters) /\ QueueHoldsQueued
      /\ IsFiniteSet(Holding) /\ SlotsSurviveCancellation
      /\ Concurrency = 0 => waiters = <<>>
  BY LimitsAssumption DEF Slots
<1>2. /\ call[c] = "scheduled" /\ Unlocked
      /\ call' = [call EXCEPT ![c] = "calling"]
      /\ value' = IF Concurrency = 0 THEN value ELSE value - 1
      /\ waiters' = waiters /\ cancelled' = cancelled
  BY DEF StartCalling, CallIn
<1>3. call'[c] = "calling" /\ \A d \in Calls : d # c => call'[d] = call[d]
  BY <1>1, <1>2
<1>4. QueueHoldsQueued'
  BY <1>1, <1>2, <1>3 DEF QueueHoldsQueued, Queued
<1>5. Holding' = Holding \union {c} /\ c \notin Holding
  BY <1>2, <1>3 DEF Holding
<1>6. IsFiniteSet(Holding') /\ Cardinality(Holding') = Cardinality(Holding) + 1
  BY <1>1, <1>5, FS_AddElement
<1>7. Cardinality(Holding) \in Nat
  BY <1>1, FS_CardinalityType
<1>8. SlotsSurviveCancellation'
  <2> SUFFICES ASSUME Concurrency > 0
               PROVE  /\ value' + Cardinality(Holding') = Concurrency
                      /\ \A d \in Calls : ~Asleep(d)'
    BY DEF SlotsSurviveCancellation
  <2>1. value > 0 /\ \A i \in 1..Len(waiters) : ~Asleep(waiters[i])
    BY <1>2 DEF Unlocked
  <2>2. value' + Cardinality(Holding') = Concurrency
    BY <1>1, <1>2, <1>6, <1>7 DEF SlotsSurviveCancellation
  <2>3. \A d \in Calls : ~Asleep(d)
    BY <1>1, <2>1 DEF QueueHoldsQueued, Queued, Asleep
  <2>4. \A d \in Calls : ~Asleep(d)'
    BY <1>2, <1>3, <2>3 DEF Asleep
  <2> QED
    BY <2>2, <2>4
<1>9. value' \in 0..Concurrency
  BY <1>1, <1>2 DEF Unlocked
<1>10. call' \in [Calls -> CallStates]
  BY <1>1, <1>2 DEF CallStates
<1> QED
  BY <1>1, <1>2, <1>3, <1>4, <1>6, <1>8, <1>9, <1>10 DEF Slots, Moves

(* A delay and the retry after it keep the slot.                           *)
LEMMA HoldingOn ==
    ASSUME Slots, NEW c \in Calls, call[c] \in {"calling", "delaying"},
           NEW next \in {"calling", "delaying"},
           call' = [call EXCEPT ![c] = next],
           UNCHANGED <<semaphore, cancelled>>
    PROVE  Slots' /\ Moves(c, next)
<1>1. call \in [Calls -> CallStates] /\ waiters \in Seq(Calls)
  BY DEF Slots
<1>2. call'[c] = next /\ \A d \in Calls : d # c => call'[d] = call[d]
  BY <1>1
<1>3. value' = value /\ waiters' = waiters /\ cancelled' = cancelled
  BY DEF semaphore
<1>4. Holding' = Holding /\ QueueHoldsQueued'
  BY <1>2, <1>3 DEF Holding, QueueHoldsQueued, Queued, Slots
<1>5. \A d \in Calls : Asleep(d)' <=> Asleep(d)
  BY <1>2, <1>3 DEF Asleep
<1>6. SlotsSurviveCancellation'
  <2>1. \A i \in 1..Len(waiters) : waiters[i] \in Calls
    BY <1>1
  <2>2. \A i \in 1..Len(waiters) :
          (call'[waiters[i]] = "waiting" /\ waiters[i] \notin cancelled') <=> Asleep(waiters[i])
    BY <1>2, <1>3, <2>1 DEF Asleep
  <2> QED
    BY <1>3, <1>4, <1>5, <2>2 DEF SlotsSurviveCancellation, Asleep, Slots
<1>7. call' \in [Calls -> CallStates]
  BY <1>1 DEF CallStates
<1> QED
  BY <1>2, <1>3, <1>4, <1>6, <1>7 DEF Slots, Moves

(* The cancellation of a call.                                             *)
LEMMA CancelCallStep ==
    ASSUME Slots, NEW c \in Calls, CancelCall(c)
    PROVE  call[c] \notin Over /\ Slots' /\ Moves(c, "cancelled")
<1>1. CancelsNoOther(c)
  BY DEF CancelCall, CancelsNoOther
<1>2. value \in Nat /\ call \in [Calls -> CallStates] /\ waiters \in Seq(Calls)
  BY LimitsAssumption DEF Slots
<1>3. CASE call[c] = "scheduled" /\ call' = [call EXCEPT ![c] = "cancelled"] /\ UNCHANGED semaphore
  <2>1. call'[c] = "cancelled" /\ \A d \in Calls : d # c => call'[d] = call[d]
    BY <1>2, <1>3
  <2>2. value' = value /\ waiters' = waiters
    BY <1>3 DEF semaphore
  <2>3. Holding' = Holding
    BY <1>3, <2>1 DEF Holding
  <2>4. QueueHoldsQueued'
    BY <1>3, <2>1, <2>2 DEF QueueHoldsQueued, Queued, Slots
  <2>5. \A d \in Calls : Asleep(d)' <=> Asleep(d)
    BY <1>1, <1>3, <2>1 DEF Asleep, CancelsNoOther
  <2>6. SlotsSurviveCancellation'
    <3>1. \A i \in 1..Len(waiters) : waiters[i] \in Calls
      BY <1>2
    <3>2. \A i \in 1..Len(waiters) :
            (call'[waiters[i]] = "waiting" /\ waiters[i] \notin cancelled') <=> Asleep(waiters[i])
      BY <2>5, <3>1 DEF Asleep
    <3> QED
      BY <2>2, <2>3, <2>5, <3>2 DEF SlotsSurviveCancellation, Asleep, Slots
  <2>7. call' \in [Calls -> CallStates]
    BY <1>2, <1>3 DEF CallStates, Over
  <2> QED
    BY <1>3, <2>1, <2>2, <2>3, <2>4, <2>6, <2>7 DEF Slots, Moves, Over
<1>4. CASE call[c] = "waiting" /\ LeaveQueue(c, "cancelled", value)
  BY <1>1, <1>2, <1>4, LeavingQueue DEF Queued, Over
<1>5. CASE call[c] = "woken" /\ LeaveQueue(c, "cancelled", value + 1)
  <2>1. value + 1 \in Nat
    BY <1>2
  <2> QED
    BY <1>1, <1>5, <2>1, LeavingQueue DEF Queued, Over
<1>6. CASE CancelCalling(c)
  BY <1>1, <1>6, Releasing DEF CancelCalling, Over
<1> QED
  BY <1>3, <1>4, <1>5, <1>6 DEF CancelCall, CancelWaiting

(* Steps of a call disturb neither scans nor reviews that are over.        *)
LEMMA CallKeepsRest ==
    ASSUME IInv, NEW c \in Calls, call[c] \notin Over,
           Slots', NEW next, Moves(c, next),
           UNCHANGED <<phase, scans>>, cancelled' \subseteq cancelled,
           attempts' \in [Calls -> 0..MaxAttempts],
           \A d \in Calls : d # c => attempts'[d] = attempts[d],
           next = "delaying" => attempts'[c] < MaxAttempts
    PROVE  IInv'
<1>1. AttemptsLeft'
  <2> SUFFICES ASSUME NEW d \in Calls, call'[d] = "delaying"
               PROVE  attempts'[d] < MaxAttempts
    BY DEF AttemptsLeft
  <2>1. CASE d = c
    BY <2>1 DEF Moves
  <2>2. CASE d # c
    BY <2>2 DEF Moves, IInv, AttemptsLeft
  <2> QED
    BY <2>1, <2>2
<1>2. ScansTidy'
  BY DEF IInv, ScansTidy, scans
<1>3. ReviewsWait'
  <2>1. ASSUME NEW d \in Calls, phase[d[1]] \in Ended
        PROVE  call'[d] \in Over
    <3>1. call[d] \in Over
      BY <2>1 DEF IInv, ReviewsWait
    <3>2. d # c /\ call[d] # "waiting"
      BY <3>1 DEF Over
    <3> QED
      BY <3>1, <3>2 DEF Moves
  <2> QED
    BY <2>1 DEF IInv, ReviewsWait, scans
<1> QED
  BY <1>1, <1>2, <1>3 DEF IInv

LEMMA CallStepInvariant ==
    ASSUME IInv, NEW c \in Calls, CallStep(c)
    PROVE  IInv'
<1>1. /\ Slots /\ MaxAttempts \in Nat \ {0} /\ Concurrency \in Nat
      /\ attempts \in [Calls -> 0..MaxAttempts]
      /\ value \in Nat
  BY LimitsAssumption DEF IInv, AttemptsLeft, Slots
<1>2. CASE StartCalling(c)
  <2>1. /\ call[c] \notin Over /\ UNCHANGED <<phase, scans, cancelled>>
        /\ attempts' = [attempts EXCEPT ![c] = 1]
    BY <1>2 DEF StartCalling, CallIn, Over
  <2>2. attempts' \in [Calls -> 0..MaxAttempts]
    BY <1>1, <2>1
  <2>3. Slots' /\ Moves(c, "calling")
    BY <1>1, <1>2, StartCallingStep
  <2> QED
    BY <1>1, <2>1, <2>2, <2>3, CallKeepsRest
<1>3. CASE StartWaiting(c)
  <2>1. call[c] \notin Over /\ UNCHANGED <<phase, attempts, scans, cancelled>>
    BY <1>3 DEF StartWaiting, CallIn, Over
  <2>2. Slots' /\ Moves(c, "waiting")
    BY <1>1, <1>3, StartWaitingStep
  <2> QED
    BY <1>1, <2>1, <2>2, CallKeepsRest
<1>4. CASE ResumeCalling(c)
  <2>1. /\ call[c] = "woken" /\ UNCHANGED <<phase, scans, cancelled>>
        /\ attempts' = [attempts EXCEPT ![c] = 1]
        /\ LeaveQueue(c, "calling", value)
    BY <1>4 DEF ResumeCalling, CallIn
  <2>2. attempts' \in [Calls -> 0..MaxAttempts]
    BY <1>1, <2>1
  <2>3. Slots' /\ Moves(c, "calling")
    BY <1>1, <2>1, LeavingQueue DEF Queued, CancelsNoOther
  <2> QED
    BY <1>1, <2>1, <2>2, <2>3, CallKeepsRest DEF Over
<1>5. CASE AnswerOk(c) \/ AnswerError(c)
  <2>1. PICK next \in {"ok", "error"} :
          /\ call[c] = "calling" /\ Release(c, next)
          /\ UNCHANGED <<phase, attempts, scans, cancelled>>
    BY <1>5 DEF AnswerOk, AnswerError, CallIn
  <2>2. Slots' /\ Moves(c, next)
    BY <1>1, <2>1, Releasing DEF Over, CancelsNoOther
  <2> QED
    BY <1>1, <2>1, <2>2, CallKeepsRest DEF Over
<1>6. CASE Delay(c)
  <2>1. /\ call[c] = "calling" /\ attempts[c] < MaxAttempts
        /\ call' = [call EXCEPT ![c] = "delaying"]
        /\ UNCHANGED <<phase, attempts, semaphore, scans, cancelled>>
    BY <1>6 DEF Delay, CallIn
  <2>2. Slots' /\ Moves(c, "delaying")
    BY <1>1, <2>1, HoldingOn
  <2> QED
    BY <1>1, <2>1, <2>2, CallKeepsRest DEF Over
<1>7. CASE Retry(c)
  <2>1. /\ call[c] = "delaying"
        /\ call' = [call EXCEPT ![c] = "calling"]
        /\ attempts' = [attempts EXCEPT ![c] = attempts[c] + 1]
        /\ UNCHANGED <<phase, semaphore, scans, cancelled>>
    BY <1>7 DEF Retry, CallIn
  <2>2. attempts[c] < MaxAttempts
    BY <2>1 DEF IInv, AttemptsLeft
  <2>3. attempts' \in [Calls -> 0..MaxAttempts]
    BY <1>1, <2>1, <2>2
  <2>4. Slots' /\ Moves(c, "calling")
    BY <1>1, <2>1, HoldingOn
  <2> QED
    BY <1>1, <2>1, <2>3, <2>4, CallKeepsRest DEF Over
<1>8. CASE CancelCall(c)
  <2>1. UNCHANGED <<phase, attempts, scans>> /\ cancelled' \subseteq cancelled
    BY <1>8 DEF CancelCall
  <2>2. call[c] \notin Over /\ Slots' /\ Moves(c, "cancelled")
    BY <1>1, <1>8, CancelCallStep
  <2> QED
    BY <1>1, <2>1, <2>2, CallKeepsRest
<1> QED
  BY <1>2, <1>3, <1>4, <1>5, <1>6, <1>7, <1>8 DEF CallStep

(* A cancellation that is only requested wakes nobody and frees no slot.   *)
LEMMA SlotsUntouched ==
    ASSUME Slots, UNCHANGED <<call, value, waiters>>,
           \A c \in Calls : c \in cancelled => c \in cancelled'
    PROVE  Slots'
<1>1. \A c \in Calls : call[c] = "waiting" /\ c \notin cancelled' => Asleep(c)
  BY DEF Asleep
<1>2. \A i \in 1..Len(waiters) : waiters[i] \in Calls
  BY DEF Slots
<1>3. Holding' = Holding
  BY DEF Holding
<1>4. SlotsSurviveCancellation'
  BY <1>1, <1>2, <1>3 DEF Slots, SlotsSurviveCancellation, Asleep
<1> QED
  BY <1>3, <1>4 DEF Slots, QueueHoldsQueued

LEMMA ScanStepInvariant ==
    ASSUME IInv, NEW k \in Scans, ScanStep(k) \/ ProcessExits(k)
    PROVE  IInv'
<1>1. UNCHANGED <<phase, calls>> /\ (cancelled' = cancelled \/ cancelled' = cancelled \ {k})
  BY DEF ScanStep, StartScan, StartRaises, KillProcess, NextCommand, EndScan, CommandOver,
         CancelScan, ProcessExits
<1>2. Slots'
  <2>1. \A c \in Calls : c \in cancelled => c \in cancelled'
    BY <1>1, TasksDiffer
  <2> QED
    BY <1>1, <2>1, SlotsUntouched DEF IInv, calls, semaphore
<1>3. AttemptsLeft'
  BY <1>1 DEF IInv, AttemptsLeft, calls
<1>4. Commands[k[2]] \in Nat
  BY TasksAssumption, CommandsAssumption
<1>5. ScansTidy' /\ (scan[k] \in Over => scan'[k] \in Over)
  <2> USE DEF IInv, ScansTidy, ScanStates, Over
  <2>1. CASE StartScan(k) \/ StartRaises(k)
    BY <2>1 DEF StartScan, StartRaises, ScanIn
  <2>2. CASE KillProcess(k) \/ ProcessExits(k)
    BY <2>2 DEF KillProcess, ProcessExits, ScanIn
  <2>3. CASE NextCommand(k)
    BY <2>3, <1>4 DEF NextCommand, CommandOver, ScanIn
  <2>4. CASE EndScan(k)
    <3>1. process[k] = "gone" /\ workspaces' = workspaces \ {k}
      BY <2>4 DEF EndScan, CommandOver, ScanIn, RemoveWorkspace
    <3> QED
      BY <2>4, <3>1, <1>4 DEF EndScan, CommandOver, ScanIn
  <2>5. CASE CancelScan(k)
    BY <2>5 DEF CancelScan, RemoveWorkspace
  <2> QED
    BY <2>1, <2>2, <2>3, <2>4, <2>5 DEF ScanStep
<1>6. \A j \in Scans : j # k => scan'[j] = scan[j]
  BY DEF IInv, ScansTidy, ScanStep, StartScan, StartRaises, KillProcess, NextCommand, EndScan,
         CommandOver, CancelScan, ProcessExits
<1>7. ReviewsWait'
  <2>1. \A j \in Scans : scan[j] \in Over => scan'[j] \in Over
    BY <1>5, <1>6
  <2> QED
    BY <1>1, <2>1 DEF IInv, ReviewsWait, calls
<1> QED
  BY <1>2, <1>3, <1>5, <1>7 DEF IInv

(* The timeout of a review only requests cancellations; a review is over   *)
(* once all of its tasks are.                                              *)
LEMMA ReviewStepInvariant ==
    ASSUME IInv, NEW r \in Reviews, Deadline(r) \/ EndAnalysis(r)
    PROVE  IInv'
<1>1. UNCHANGED <<calls, scans>> /\ cancelled \subseteq cancelled'
  BY DEF Deadline, EndAnalysis
<1>2. Slots' /\ AttemptsLeft' /\ ScansTidy'
  BY <1>1, SlotsUntouched DEF IInv, calls, semaphore, scans, AttemptsLeft, ScansTidy
<1>3. ReviewsWait'
  <2> USE DEF IInv, ReviewsWait
  <2>1. phase \in [Reviews -> {"analyzing", "cancelling"} \union Ended]
    OBVIOUS
  <2>2. CASE Deadline(r)
    <3>1. cancelled' \subseteq Calls \union Scans
      BY <2>2 DEF Deadline, TasksOf
    <3>2. phase' = [phase EXCEPT ![r] = "cancelling"]
      BY <2>2 DEF Deadline
    <3>3. \A q : phase'[q] \in Ended /\ q \in Reviews => phase[q] \in Ended
      BY <2>1, <3>2 DEF Ended
    <3>4. /\ \A c \in Calls : c[1] \in Reviews
          /\ \A k \in Scans : k[1] \in Reviews
      BY TasksAssumption
    <3>5. phase' \in [Reviews -> {"analyzing", "cancelling"} \union Ended]
      BY <2>1, <3>2
    <3> QED
      BY <1>1, <3>1, <3>3, <3>4, <3>5 DEF calls, scans
  <2>3. CASE EndAnalysis(r)
    <3>1. /\ phase' \in [Reviews -> {"analyzing", "cancelling"} \union Ended]
          /\ \A q \in Reviews : q # r => phase'[q] = phase[q]
          /\ cancelled' = cancelled
      BY <2>1, <2>3 DEF EndAnalysis, Ended
    <3>2. \A c \in Calls : c[1] = r => call[c] \in Over
      BY <2>3 DEF EndAnalysis, TasksOf, IsOver
    <3>3. \A k \in Scans : k[1] = r => scan[k] \in Over
      BY <2>3, TasksDiffer DEF EndAnalysis, TasksOf, IsOver
    <3>4. /\ \A c \in Calls : c[1] \in Reviews
          /\ \A k \in Scans : k[1] \in Reviews
      BY TasksAssumption
    <3> QED
      BY <1>1, <3>1, <3>2, <3>3, <3>4 DEF calls, scans
  <2> QED
    BY <2>2, <2>3
<1> QED
  BY <1>2, <1>3 DEF IInv

LEMMA NextInvariant == IInv /\ [Next]_vars => IInv'
<1> SUFFICES ASSUME IInv, [Next]_vars PROVE IInv'
  OBVIOUS
<1>1. ASSUME NEW c \in Calls, CallStep(c) PROVE IInv'
  BY <1>1, CallStepInvariant
<1>2. ASSUME NEW k \in Scans, ScanStep(k) \/ ProcessExits(k) PROVE IInv'
  BY <1>2, ScanStepInvariant
<1>3. ASSUME NEW r \in Reviews, Deadline(r) \/ EndAnalysis(r) PROVE IInv'
  BY <1>3, ReviewStepInvariant
<1>4. CASE UNCHANGED vars
  <2>1. UNCHANGED <<phase, calls, scans, cancelled>>
    BY <1>4 DEF vars
  <2>2. Slots'
    BY <2>1, SlotsUntouched DEF IInv, calls, semaphore
  <2> QED
    BY <2>1, <2>2 DEF IInv, AttemptsLeft, ScansTidy, ReviewsWait, calls, scans
<1> QED
  BY <1>1, <1>2, <1>3, <1>4 DEF Next

LEMMA Invariant == Spec => []IInv
<1>1. Init => IInv
  BY InitInvariant
<1>2. IInv /\ [Next]_vars => IInv'
  BY NextInvariant
<1> QED
  BY <1>1, <1>2, PTL DEF Spec

-----------------------------------------------------------------------------
(* The types hold in every reachable state: no call makes more than        *)
(* max_attempts requests, and the semaphore never counts below zero.       *)
THEOREM TypeCorrect == Spec => []TypeOK
<1>1. IInv => TypeOK
  <2> SUFFICES ASSUME IInv PROVE TypeOK
    OBVIOUS
  <2>1. \A k \in Scans : Commands[k[2]] \in Nat
    BY TasksAssumption, CommandsAssumption
  <2> QED
    BY <2>1 DEF IInv, Slots, CallStates, AttemptsLeft, ScansTidy, ScanStates, ReviewsWait, Ended,
                TypeOK
<1> QED
  BY <1>1, Invariant, PTL

(* Whatever is cancelled while it waits, is being woken, calls or delays,  *)
(* the provider's slots are neither lost nor multiplied, and nobody sleeps *)
(* beside a free one with nobody awake in the queue.                       *)
THEOREM SlotsSurvive == Spec => []SlotsSurviveCancellation
<1>1. IInv => SlotsSurviveCancellation
  BY DEF IInv, Slots
<1> QED
  BY <1>1, Invariant, PTL

(* A review that is over has no call in the queue or with a slot, and no   *)
(* process or workspace of a scan that was not cancelled.                  *)
THEOREM NothingIsLeft == Spec => []ReviewLeavesNothing
<1>1. IInv => ReviewLeavesNothing
  <2> SUFFICES ASSUME IInv, NEW r \in Reviews, phase[r] \in {"analyzed", "FAILED"}
               PROVE  /\ \A c \in Calls : c[1] = r =>
                           c \notin Holding /\ \A i \in 1..Len(waiters) : waiters[i] # c
                      /\ \A k \in Scans : k[1] = r /\ scan[k] # "cancelled" =>
                           process[k] # "alive" /\ k \notin workspaces
    BY DEF ReviewLeavesNothing
  <2>1. ASSUME NEW c \in Calls, c[1] = r
        PROVE  c \notin Holding /\ \A i \in 1..Len(waiters) : waiters[i] # c
    <3>1. call[c] \in Over
      BY <2>1 DEF IInv, ReviewsWait, Ended
    <3> QED
      BY <3>1 DEF IInv, Slots, QueueHoldsQueued, Queued, Holding, Over
  <2>2. ASSUME NEW k \in Scans, k[1] = r, scan[k] # "cancelled"
        PROVE  process[k] # "alive" /\ k \notin workspaces
    <3>1. scan[k] \in {"ok", "error"}
      BY <2>2 DEF IInv, ReviewsWait, Ended, Over
    <3> QED
      BY <3>1 DEF IInv, ScansTidy
  <2> QED
    BY <2>1, <2>2
<1> QED
  BY <1>1, Invariant, PTL
=============================================================================
