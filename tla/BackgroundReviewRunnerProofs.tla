-------------------- MODULE BackgroundReviewRunnerProofs --------------------
(***************************************************************************)
(* Theorems about RecentDeliveries, the memory of delivery ids, and about  *)
(* BackgroundReviewRunner, which keeps it: for any number of tasks and     *)
(* slots, any events and any size of the memory.                           *)
(***************************************************************************)
EXTENDS BackgroundReviewRunner, ListFacts

-----------------------------------------------------------------------------
(* The delivery memory.                                                    *)

(* The deque holds the tail of the history, and the set what the deque     *)
(* holds.                                                                  *)
OrderIsTail ==
    /\ Len(order) = IF Len(registered) <= MaxSize THEN Len(registered) ELSE MaxSize
    /\ \A k \in 1..Len(order) : order[k] = registered[Len(registered) - Len(order) + k]

MemoryInvariant == MemoryTypeOK /\ OrderIsTail /\ SeenIsWindow /\ NoRepeatWithinWindow

(* The memory is empty at first.                                           *)
LEMMA MemoryBegins == InitMemory => MemoryInvariant
  BY SizeAssumption
  DEF InitMemory, MemoryInvariant, MemoryTypeOK, OrderIsTail, SeenIsWindow, Window,
      NoRepeatWithinWindow

(* Registering a new id keeps deque, set and history in step: an id still  *)
(* in the window is refused, and the id that leaves the window occurs only *)
(* once in it.                                                             *)
LEMMA RegisterKeepsMemory ==
    ASSUME MemoryInvariant, NEW d \in Deliveries, Register(d)
    PROVE  MemoryInvariant'
<1> DEFINE n == Len(registered)
           grown == Append(order, d)
           evicts == Len(grown) > MaxSize
<1>1. /\ d \notin seen
      /\ registered' = Append(registered, d)
      /\ order' = IF evicts THEN Tail(grown) ELSE grown
      /\ seen' = IF evicts THEN (seen \union {d}) \ {Head(grown)} ELSE seen \union {d}
  BY DEF Register
<1>2. /\ n \in Nat /\ MaxSize \in Nat /\ MaxSize > 0
      /\ Len(registered') = n + 1
      /\ registered'[n + 1] = d
      /\ \A i \in 1..n : registered'[i] = registered[i]
      /\ registered' \in Seq(Deliveries)
  BY <1>1, SizeAssumption DEF MemoryInvariant, MemoryTypeOK
<1>3. \A i \in 1..n : registered[i] = d => n + 1 - i > MaxSize
  BY <1>1, <1>2 DEF MemoryInvariant, SeenIsWindow, Window
<1>4. NoRepeatWithinWindow'
  <2> SUFFICES ASSUME NEW j \in 1..(n + 1), NEW i \in 1..(j - 1),
                      registered'[i] = registered'[j]
               PROVE  j - i > MaxSize
    BY <1>2 DEF NoRepeatWithinWindow
  <2>1. CASE j = n + 1
    BY <2>1, <1>2, <1>3
  <2>2. CASE j \in 1..n
    BY <2>2, <1>2 DEF MemoryInvariant, NoRepeatWithinWindow
  <2> QED
    BY <2>1, <2>2, <1>2
<1>5. /\ Len(grown) = Len(order) + 1
      /\ grown[Len(order) + 1] = d
      /\ \A k \in 1..Len(order) : grown[k] = order[k]
      /\ Len(order) \in Nat
      /\ grown \in Seq(Deliveries)
  BY DEF MemoryInvariant, MemoryTypeOK
<1>6. CASE ~evicts
  <2>1. Len(order) = n /\ n < MaxSize
    BY <1>2, <1>5, <1>6 DEF MemoryInvariant, OrderIsTail
  <2>2. order' = grown /\ seen' = seen \union {d}
    BY <1>1, <1>6
  <2>3. OrderIsTail'
    <3>1. Len(order') = n + 1 /\ n + 1 <= MaxSize
      BY <1>2, <1>5, <2>1, <2>2
    <3>2. ASSUME NEW k \in 1..(n + 1) PROVE order'[k] = registered'[k]
      <4>1. CASE k = n + 1
        BY <4>1, <1>2, <1>5, <2>1, <2>2
      <4>2. CASE k \in 1..n
        <5>1. order[k] = registered[n - Len(order) + k]
          BY <4>2, <2>1 DEF MemoryInvariant, OrderIsTail
        <5>2. n - Len(order) + k = k
          BY <1>2, <2>1
        <5>3. order'[k] = order[k]
          BY <4>2, <1>5, <2>1, <2>2
        <5>4. registered'[k] = registered[k]
          BY <4>2, <1>2
        <5> QED
          BY <5>1, <5>2, <5>3, <5>4
      <4> QED
        BY <4>1, <4>2, <1>2
    <3>3. \A k \in 1..(n + 1) : n + 1 - (n + 1) + k = k
      BY <1>2
    <3> QED
      BY <3>1, <3>2, <3>3, <1>2 DEF OrderIsTail
  <2>4. SeenIsWindow'
    BY <1>2, <2>1, <2>2 DEF MemoryInvariant, SeenIsWindow, Window
  <2>5. MemoryTypeOK'
    BY <1>2, <1>5, <2>2 DEF MemoryInvariant, MemoryTypeOK
  <2> QED
    BY <1>4, <2>3, <2>4, <2>5 DEF MemoryInvariant
<1>7. CASE evicts
  <2> DEFINE e == n + 1 - MaxSize
  <2>1. Len(order) = MaxSize /\ n >= MaxSize
    BY <1>2, <1>5, <1>7 DEF MemoryInvariant, OrderIsTail
  <2>2. /\ order' = Tail(grown)
        /\ seen' = (seen \union {d}) \ {Head(grown)}
    BY <1>1, <1>7
  <2>3. /\ Len(order') = MaxSize
        /\ \A k \in 1..MaxSize : order'[k] = grown[k + 1]
        /\ order' \in Seq(Deliveries)
    BY <1>2, <1>5, <2>1, <2>2
  <2>4. \A k \in 1..(MaxSize + 1) : grown[k] = registered'[n - MaxSize + k]
    <3> SUFFICES ASSUME NEW k \in 1..(MaxSize + 1) PROVE grown[k] = registered'[n - MaxSize + k]
      OBVIOUS
    <3>1. CASE k = MaxSize + 1
      BY <3>1, <1>2, <1>5, <2>1
    <3>2. CASE k \in 1..MaxSize
      <4>1. order[k] = registered[n - Len(order) + k]
        BY <3>2, <2>1 DEF MemoryInvariant, OrderIsTail
      <4>2. grown[k] = order[k]
        BY <3>2, <1>5, <2>1
      <4>3. n - MaxSize + k \in 1..n
        BY <3>2, <1>2, <2>1
      <4> QED
        BY <4>1, <4>2, <4>3, <1>2, <2>1
    <3>3. k = MaxSize + 1 \/ k \in 1..MaxSize
      BY <1>2
    <3> QED
      BY <3>1, <3>2, <3>3
  <2>5. OrderIsTail'
    <3>1. Len(order') = MaxSize /\ n + 1 > MaxSize
      BY <1>2, <2>1, <2>3
    <3>2. ASSUME NEW k \in 1..MaxSize PROVE order'[k] = registered'[n + 1 - MaxSize + k]
      <4>1. k + 1 \in 1..(MaxSize + 1) /\ n - MaxSize + (k + 1) = n + 1 - MaxSize + k
        BY <1>2
      <4> QED
        BY <4>1, <2>3, <2>4
    <3>3. Len(order') = IF Len(registered') <= MaxSize THEN Len(registered') ELSE MaxSize
      BY <3>1, <1>2
    <3>4. \A k \in 1..Len(order') :
             order'[k] = registered'[Len(registered') - Len(order') + k]
      BY <3>1, <3>2, <1>2
    <3> QED
      BY <3>3, <3>4 DEF OrderIsTail
  <2>6. Head(grown) = registered'[e]
    BY <1>2, <1>5, <2>1, <2>4
  <2>7. e \in 1..n
    BY <1>2, <2>1
  <2>8. \A i \in (e + 1)..(n + 1) : registered'[i] # registered'[e]
    <3> SUFFICES ASSUME NEW i \in (e + 1)..(n + 1), registered'[i] = registered'[e] PROVE FALSE
      OBVIOUS
    <3>1. i \in 1..Len(registered') /\ e \in 1..(i - 1) /\ i - e <= MaxSize
      BY <1>2, <2>1
    <3> QED
      BY <3>1, <1>2, <1>4 DEF NoRepeatWithinWindow
  <2>9. seen \union {d} = {registered'[i] : i \in e..(n + 1)}
    BY <1>2, <2>1 DEF MemoryInvariant, SeenIsWindow, Window
  <2>10. seen' = {registered'[i] : i \in (e + 1)..(n + 1)}
    BY <1>2, <2>2, <2>6, <2>7, <2>8, <2>9
  <2>11. SeenIsWindow'
    <3>1. Window' = (e + 1)..(n + 1)
      BY <1>2, <2>1 DEF Window
    <3> QED
      BY <2>10, <3>1 DEF SeenIsWindow
  <2>12. MemoryTypeOK'
    BY <1>2, <2>2, <2>3 DEF MemoryInvariant, MemoryTypeOK
  <2> QED
    BY <1>4, <2>5, <2>11, <2>12 DEF MemoryInvariant
<1> QED
  BY <1>6, <1>7

(* MemoryInvariant is inductive: a restarted process starts over with      *)
(* nothing.                                                                *)
LEMMA MemoryHolds == SpecMemory => []MemoryInvariant
<1>1. MemoryInvariant /\ [NextMemory]_deliveries => MemoryInvariant'
  <2> SUFFICES ASSUME MemoryInvariant, [NextMemory]_deliveries PROVE MemoryInvariant'
    OBVIOUS
  <2>1. ASSUME NEW d \in Deliveries, Register(d) PROVE MemoryInvariant'
    BY <2>1, RegisterKeepsMemory
  <2>2. CASE Forget
    BY <2>2, SizeAssumption
    DEF Forget, MemoryInvariant, MemoryTypeOK, OrderIsTail, SeenIsWindow, Window,
        NoRepeatWithinWindow
  <2>3. CASE UNCHANGED deliveries
    BY <2>3
    DEF deliveries, MemoryInvariant, MemoryTypeOK, OrderIsTail, SeenIsWindow, Window,
        NoRepeatWithinWindow
  <2> QED
    BY <2>1, <2>2, <2>3 DEF NextMemory
<1> QED
  BY MemoryBegins, <1>1, PTL DEF SpecMemory

(* The deque is always a list of ids: what popleft leaves, not what it     *)
(* returns.                                                                *)
THEOREM MemoryIsTyped == SpecMemory => []MemoryTypeOK
<1>1. MemoryInvariant => MemoryTypeOK
  BY DEF MemoryInvariant
<1> QED
  BY <1>1, MemoryHolds, PTL

(* register's memory is the window of the last max_size ids.               *)
THEOREM MemoryIsWindow == SpecMemory => []SeenIsWindow
<1>1. MemoryInvariant => SeenIsWindow
  BY DEF MemoryInvariant
<1> QED
  BY <1>1, MemoryHolds, PTL

(* A redelivery within max_size deliveries is never taken for a new one.   *)
THEOREM RedeliveriesAreRefused == SpecMemory => []NoRepeatWithinWindow
<1>1. MemoryInvariant => NoRepeatWithinWindow
  BY DEF MemoryInvariant
<1> QED
  BY <1>1, MemoryHolds, PTL

-----------------------------------------------------------------------------
(* The inductive invariant of the runner.                                  *)
States == {"none", "finished", "lost"} \union Unfinished
Queued == {"waiting", "woken"}

Ascending == \A i, j \in 1..Len(waiters) : i < j => waiters[i] < waiters[j]

QueueHoldsQueued ==
    \A t \in Tasks : state[t] \in Queued <=> \E i \in 1..Len(waiters) : waiters[i] = t

CreatedInOrder == \A t \in Tasks : state[t] = "none" <=> t > created

ScheduledLast ==
    \A t, u \in Tasks : state[t] \in Queued /\ state[u] = "scheduled" => t < u

UnfinishedHeld == \A t \in Tasks : state[t] \in Unfinished => t \in tasks

StoppedHoldsNone == phase = "stopped" => tasks = {}

Bookkeeping ==
    /\ TypeOK
    /\ Ascending /\ QueueHoldsQueued
    /\ CreatedInOrder /\ ScheduledLast
    /\ UnfinishedHeld /\ StoppedHoldsNone

IInv == Bookkeeping /\ FirstAcceptedFirst /\ SlotsConserved /\ NoSleeperLeftBehind

(* What _wake_up_next does: it wakes as many waiters as there are free     *)
(* slots, as it was asked for and as are asleep, and each takes a slot.    *)
WakesSome(st, free, n, W) ==
    /\ \A t \in W : st[t] = "waiting"
    /\ state' = [t \in Tasks |-> IF t \in W THEN "woken" ELSE st[t]]
    /\ value' = free - Cardinality(W)
    /\ Cardinality(W) <= free
    /\ Cardinality(W) < n /\ Cardinality(W) < free =>
         \A i \in 1..Len(waiters) : st[waiters[i]] = "waiting" => waiters[i] \in W

LEMMA TasksFinite == \A S \in SUBSET Tasks : IsFiniteSet(S) /\ Cardinality(S) \in Nat
<1>1. MaxTasks \in Int /\ 1 \in Int
  BY LimitsAssumption
<1>2. IsFiniteSet(Tasks)
  BY <1>1, FS_Interval, Zenon DEF Tasks
<1> SUFFICES ASSUME NEW S \in SUBSET Tasks PROVE IsFiniteSet(S) /\ Cardinality(S) \in Nat
  OBVIOUS
<1>3. IsFiniteSet(S)
  BY <1>2, FS_Subset
<1> QED
  BY <1>3, FS_CardinalityType

LEMMA WakeUp ==
    ASSUME waiters \in Seq(Tasks), Ascending,
           NEW st, NEW free \in Nat, NEW n \in Nat,
           WakeUpNext(st, free, n)
    PROVE  \E W \in SUBSET Tasks : WakesSome(st, free, n, W)
<1> DEFINE A == Asleep(st)
           k == IF n < free THEN n ELSE free
           woken == First(A, k)
           W == Owners(waiters, woken)
<1>1. /\ state' = [t \in Tasks |-> IF \E i \in woken : waiters[i] = t THEN "woken" ELSE st[t]]
      /\ value' = free - Cardinality(woken)
  BY DEF WakeUpNext, First, Below
<1>2. k \in Nat /\ k <= n /\ k <= free /\ (k = n \/ k = free)
  OBVIOUS
<1>3. A \in SUBSET (1..Len(waiters))
  BY DEF Asleep
<1>4. Distinct(waiters)
  <2> SUFFICES ASSUME NEW i \in 1..Len(waiters), NEW j \in 1..Len(waiters),
                      waiters[i] = waiters[j], i # j
               PROVE  FALSE
    BY DEF Distinct
  <2>1. waiters[i] \in Tasks /\ (i < j \/ j < i)
    OBVIOUS
  <2> QED
    BY <2>1 DEF Ascending, Tasks
<1> HIDE DEF A, k
<1>5. /\ IsFiniteSet(W) /\ Cardinality(W) \in Nat /\ Cardinality(W) <= k
      /\ \A w \in W : \E i \in A : waiters[i] = w
      /\ Cardinality(W) = Cardinality(woken)
      /\ Cardinality(W) < k => \A i \in A : waiters[i] \in W
  BY <1>2, <1>3, <1>4, FirstInQueue
<1>6. W \in SUBSET Tasks
  BY <1>3, <1>5
<1> HIDE DEF woken
<1>7. \A t \in W : st[t] = "waiting"
  BY <1>5 DEF A, Asleep
<1>8. state' = [t \in Tasks |-> IF t \in W THEN "woken" ELSE st[t]]
  BY <1>1 DEF Owners
<1>9. value' = free - Cardinality(W) /\ Cardinality(W) <= free
  BY <1>1, <1>2, <1>5
<1>10. Cardinality(W) < n /\ Cardinality(W) < free =>
         \A i \in 1..Len(waiters) : st[waiters[i]] = "waiting" => waiters[i] \in W
  BY <1>2, <1>5 DEF A, Asleep
<1>11. WakesSome(st, free, n, W)
  BY <1>7, <1>8, <1>9, <1>10 DEF WakesSome
<1> QED
  BY <1>6, <1>11

(* Counting tasks.                                                         *)
LEMMA JoinOne ==
    ASSUME NEW S \in SUBSET Tasks, NEW t \in Tasks, t \notin S
    PROVE  Cardinality(S \union {t}) = Cardinality(S) + 1
  BY TasksFinite, FS_AddElement

LEMMA LeaveOne ==
    ASSUME NEW S \in SUBSET Tasks, NEW t \in S
    PROVE  Cardinality(S \ {t}) = Cardinality(S) - 1
  BY TasksFinite, FS_RemoveElement

LEMMA JoinMany ==
    ASSUME NEW S \in SUBSET Tasks, NEW W \in SUBSET Tasks, S \intersect W = {}
    PROVE  Cardinality(S \union W) = Cardinality(S) + Cardinality(W)
<1>1. IsFiniteSet(S) /\ IsFiniteSet(W) /\ Cardinality(S) \in Nat /\ Cardinality(W) \in Nat
  BY TasksFinite
<1>2. Cardinality(S \union W) =
        Cardinality(S) + Cardinality(W) - Cardinality(S \intersect W)
  BY <1>1, FS_Union, Zenon
<1>3. Cardinality(S \intersect W) = 0
  BY FS_EmptySet
<1> QED
  BY <1>1, <1>2, <1>3

-----------------------------------------------------------------------------
(* The invariant holds initially and is preserved by every action.         *)
LEMMA InitInvariant == Init => IInv
<1> SUFFICES ASSUME Init PROVE IInv
  OBVIOUS
<1> USE DEF Init
<1>1. MaxTasks \in Nat /\ Concurrency \in Nat /\ MaxSize \in Nat \ {0}
  BY LimitsAssumption, SizeAssumption
<1>2. TypeOK
  BY <1>1 DEF TypeOK, InitMemory, MemoryTypeOK, Tasks
<1>3. Ascending /\ QueueHoldsQueued
  BY DEF Ascending, QueueHoldsQueued, Queued
<1>4. CreatedInOrder
  BY <1>1 DEF CreatedInOrder, Tasks
<1>5. ScheduledLast /\ UnfinishedHeld /\ StoppedHoldsNone
  BY DEF ScheduledLast, Queued, UnfinishedHeld, Unfinished, StoppedHoldsNone
<1>6. FirstAcceptedFirst /\ NoSleeperLeftBehind
  BY DEF FirstAcceptedFirst, Begun, NoSleeperLeftBehind, InState
<1>7. Running = {} /\ InState("woken") = {}
  BY DEF Running, InState
<1>8. SlotsConserved
  BY <1>1, <1>7, FS_EmptySet DEF SlotsConserved
<1> QED
  BY <1>2, <1>3, <1>4, <1>5, <1>6, <1>8 DEF IInv, Bookkeeping

LEMMA RegisterKeepsTypes ==
    ASSUME MemoryTypeOK, NEW d \in Deliveries, Register(d)
    PROVE  MemoryTypeOK'
<1> DEFINE grown == Append(order, d)
<1>1. grown \in Seq(Deliveries) /\ grown # <<>> /\ Append(registered, d) \in Seq(Deliveries)
  BY DEF MemoryTypeOK
<1>2. order' \in Seq(Deliveries)
  BY <1>1 DEF Register
<1>3. seen' \subseteq Deliveries /\ registered' \in Seq(Deliveries)
  BY <1>1 DEF Register, MemoryTypeOK
<1> QED
  BY <1>2, <1>3 DEF MemoryTypeOK

LEMMA SlotsUntouched ==
    ASSUME SlotsConserved, NoSleeperLeftBehind,
           InState("running")' = InState("running"),
           InState("woken")' = InState("woken"),
           InState("waiting")' = InState("waiting"),
           value' = value
    PROVE  SlotsConserved' /\ NoSleeperLeftBehind'
  BY DEF SlotsConserved, NoSleeperLeftBehind, Running

(* A delivery is accepted: at most one more task, scheduled and held.      *)
LEMMA WebhookStep ==
    ASSUME IInv, NEW e \in Events, Webhook(e)
    PROVE  IInv'
<1> USE DEF IInv, Bookkeeping
<1>1. MaxTasks \in Nat
  BY LimitsAssumption
<1>2. /\ phase = "serving" /\ phase' = phase /\ awaited' = awaited
      /\ value' = value /\ waiters' = waiters
  BY DEF Webhook, semaphore, server
<1>3. MemoryTypeOK'
  <2>1. CASE e.id = NoHeader /\ UNCHANGED deliveries
    BY <2>1 DEF TypeOK, MemoryTypeOK, deliveries
  <2>2. CASE e.id # NoHeader /\ Register(e.id)
    <3>1. e.id \in Deliveries
      BY <2>2, EventsAssumption
    <3> QED
      BY <2>2, <3>1, RegisterKeepsTypes DEF TypeOK
  <2> QED
    BY <2>1, <2>2 DEF Webhook
<1>4. CASE UNCHANGED <<created, state, tasks>>
  <2>1. TypeOK'
    BY <1>2, <1>3, <1>4 DEF TypeOK
  <2>2. SlotsConserved' /\ NoSleeperLeftBehind'
    BY <1>2, <1>4, SlotsUntouched DEF InState
  <2> QED
    BY <1>2, <1>4, <2>1, <2>2
    DEF Ascending, QueueHoldsQueued, CreatedInOrder, ScheduledLast, UnfinishedHeld,
        StoppedHoldsNone, FirstAcceptedFirst
<1>5. CASE Schedule
  <2> DEFINE new == created + 1
  <2>1. /\ created \in Nat /\ created < MaxTasks /\ created' = new /\ new \in Tasks
        /\ state' = [state EXCEPT ![new] = "scheduled"]
        /\ tasks' = tasks \union {new}
        /\ state \in [Tasks -> States]
    BY <1>1, <1>5 DEF Schedule, TypeOK, Tasks, States
  <2>2. state[new] = "none" /\ state'[new] = "scheduled"
    BY <2>1, <1>1 DEF CreatedInOrder, Tasks
  <2>3. \A t \in Tasks : t # new => state'[t] = state[t]
    BY <2>1
  <2>4. TypeOK'
    BY <1>1, <1>2, <1>3, <2>1 DEF TypeOK, Unfinished
  <2>5. Ascending' /\ QueueHoldsQueued'
    BY <1>2, <2>2, <2>3 DEF Ascending, QueueHoldsQueued, Queued
  <2>6. CreatedInOrder'
    BY <1>1, <2>1, <2>2, <2>3 DEF CreatedInOrder, Tasks
  <2>7. \A t \in Tasks : state[t] # "none" => t < new
    BY <1>1, <2>1 DEF CreatedInOrder, Tasks
  <2>8. ScheduledLast'
    BY <2>2, <2>3, <2>7 DEF ScheduledLast, Queued
  <2>9. UnfinishedHeld' /\ StoppedHoldsNone'
    BY <1>2, <2>1, <2>2, <2>3 DEF UnfinishedHeld, StoppedHoldsNone
  <2>10. FirstAcceptedFirst'
    <3> SUFFICES ASSUME NEW u \in Tasks, state'[u] \in Begun, NEW t \in 1..(u-1)
                 PROVE  state'[t] \in Begun \union {"lost"}
      BY DEF FirstAcceptedFirst
    <3>1. u # new /\ state[u] \in Begun
      BY <2>2, <2>3 DEF Begun
    <3>2. state[t] \in Begun \union {"lost"} /\ t \in Tasks
      BY <1>1, <3>1 DEF FirstAcceptedFirst, Tasks
    <3> QED
      BY <3>2, <2>2, <2>3 DEF Begun
  <2>11. SlotsConserved' /\ NoSleeperLeftBehind'
    <3>1. /\ InState("running")' = InState("running")
          /\ InState("woken")' = InState("woken")
          /\ InState("waiting")' = InState("waiting")
      BY <2>2, <2>3 DEF InState
    <3> QED
      BY <1>2, <3>1, SlotsUntouched
  <2> QED
    BY <2>4, <2>5, <2>6, <2>8, <2>9, <2>10, <2>11
<1> QED
  BY <1>4, <1>5 DEF Webhook

(* A task takes a free slot: nobody is queued before it.                   *)
LEMMA StartRunningStep ==
    ASSUME IInv, NEW t \in Tasks, StartRunning(t)
    PROVE  IInv'
<1> USE DEF IInv, Bookkeeping
<1>1. /\ MaxTasks \in Nat /\ Concurrency \in Nat /\ state \in [Tasks -> States]
      /\ state[t] = "scheduled" /\ \A u \in 1..(t-1) : state[u] # "scheduled"
      /\ value > 0 /\ waiters = <<>> /\ waiters' = waiters
      /\ state' = [state EXCEPT ![t] = "running"]
      /\ value' = value - 1
      /\ UNCHANGED <<deliveries, created, tasks, server>>
  BY LimitsAssumption DEF StartRunning, NextToStart, TypeOK, States
<1>2. state'[t] = "running" /\ \A u \in Tasks : u # t => state'[u] = state[u]
  BY <1>1
<1>3. \A u \in Tasks : state[u] \notin Queued /\ state'[u] \notin Queued
  BY <1>1, <1>2 DEF QueueHoldsQueued, Queued
<1>4. TypeOK'
  BY <1>1 DEF TypeOK, MemoryTypeOK, deliveries, server, States, Unfinished
<1>5. Ascending' /\ QueueHoldsQueued' /\ ScheduledLast'
  BY <1>1, <1>3 DEF Ascending, QueueHoldsQueued, ScheduledLast
<1>6. CreatedInOrder' /\ UnfinishedHeld' /\ StoppedHoldsNone'
  BY <1>1, <1>2 DEF CreatedInOrder, UnfinishedHeld, Unfinished, StoppedHoldsNone, server
<1>7. FirstAcceptedFirst'
  <2> SUFFICES ASSUME NEW u \in Tasks, state'[u] \in Begun, NEW v \in 1..(u-1)
               PROVE  state'[v] \in Begun \union {"lost"}
    BY DEF FirstAcceptedFirst
  <2>1. v \in Tasks
    BY <1>1 DEF Tasks
  <2>2. CASE u = t
    <3>1. state[v] \notin {"none", "scheduled"}
      BY <1>1, <2>1, <2>2 DEF CreatedInOrder, TypeOK, Tasks
    <3>2. state[v] \in Begun \union {"lost"}
      BY <1>1, <1>3, <2>1, <3>1 DEF States, Unfinished, Queued, Begun
    <3> QED
      BY <1>2, <2>1, <3>2 DEF Begun
  <2>3. CASE u # t
    <3>1. state[v] \in Begun \union {"lost"}
      BY <1>2, <2>3 DEF FirstAcceptedFirst
    <3> QED
      BY <1>2, <2>1, <3>1 DEF Begun
  <2> QED
    BY <2>2, <2>3
<1>8. SlotsConserved'
  <2>1. /\ InState("running")' = InState("running") \union {t}
        /\ InState("woken")' = InState("woken")
        /\ InState("running") \in SUBSET Tasks /\ InState("woken") \in SUBSET Tasks
        /\ t \notin InState("running")
    BY <1>1, <1>2 DEF InState
  <2>2. Cardinality(InState("running")') = Cardinality(InState("running")) + 1
    BY <2>1, JoinOne
  <2>3. Cardinality(InState("running")) \in Nat /\ Cardinality(InState("woken")) \in Nat
    BY <2>1, TasksFinite
  <2>4. value \in Nat /\ Concurrency \in Nat
    BY LimitsAssumption DEF TypeOK
  <2> QED
    BY <1>1, <2>1, <2>2, <2>3, <2>4 DEF SlotsConserved, Running
<1>9. NoSleeperLeftBehind'
  BY <1>3 DEF NoSleeperLeftBehind, InState, Queued
<1> QED
  BY <1>4, <1>5, <1>6, <1>7, <1>8, <1>9

(* A task joins the queue: it is younger than all that queue, and when a   *)
(* slot is free somebody is woken already.                                 *)
LEMMA StartWaitingStep ==
    ASSUME IInv, NEW t \in Tasks, StartWaiting(t)
    PROVE  IInv'
<1> USE DEF IInv, Bookkeeping
<1> DEFINE n == Len(waiters)
<1>1. /\ MaxTasks \in Nat /\ state \in [Tasks -> States]
      /\ state[t] = "scheduled" /\ \A u \in 1..(t-1) : state[u] # "scheduled"
      /\ ~(value > 0 /\ waiters = <<>>)
      /\ state' = [state EXCEPT ![t] = "waiting"]
      /\ waiters' = Append(waiters, t)
      /\ waiters \in Seq(Tasks)
      /\ UNCHANGED <<deliveries, created, tasks, value, server>>
  BY LimitsAssumption DEF StartWaiting, NextToStart, TypeOK, States
<1>2. state'[t] = "waiting" /\ \A u \in Tasks : u # t => state'[u] = state[u]
  BY <1>1
<1>3. /\ n \in Nat /\ Len(waiters') = n + 1 /\ waiters'[n + 1] = t
      /\ \A i \in 1..n : waiters'[i] = waiters[i] /\ waiters[i] \in Tasks
      /\ waiters' \in Seq(Tasks)
  BY <1>1
<1>4. \A i \in 1..n : waiters[i] < t /\ waiters[i] # t
  BY <1>1, <1>3 DEF QueueHoldsQueued, ScheduledLast, Tasks
<1>5. TypeOK'
  BY <1>1, <1>3 DEF TypeOK, MemoryTypeOK, deliveries, server, States, Unfinished
<1>6. Ascending'
  <2> SUFFICES ASSUME NEW i \in 1..(n + 1), NEW j \in 1..(n + 1), i < j
               PROVE  waiters'[i] < waiters'[j]
    BY <1>3 DEF Ascending
  <2>1. CASE j = n + 1
    BY <2>1, <1>3, <1>4
  <2>2. CASE j \in 1..n
    BY <2>2, <1>3 DEF Ascending
  <2> QED
    BY <2>1, <2>2, <1>3
<1>7. QueueHoldsQueued'
  <2> SUFFICES ASSUME NEW u \in Tasks
               PROVE  state'[u] \in Queued <=> \E i \in 1..(n + 1) : waiters'[i] = u
    BY <1>3 DEF QueueHoldsQueued
  <2>1. CASE u = t
    BY <2>1, <1>2, <1>3 DEF Queued
  <2>2. CASE u # t
    <3>1. (\E i \in 1..(n + 1) : waiters'[i] = u) <=> (\E i \in 1..n : waiters[i] = u)
      BY <2>2, <1>3
    <3>2. state[u] \in Queued <=> \E i \in 1..n : waiters[i] = u
      BY DEF QueueHoldsQueued
    <3> QED
      BY <3>1, <3>2, <1>2, <2>2
  <2> QED
    BY <2>1, <2>2
<1>8. ScheduledLast'
  <2> SUFFICES ASSUME NEW v \in Tasks, NEW u \in Tasks, state'[v] \in Queued,
                      state'[u] = "scheduled"
               PROVE  v < u
    BY DEF ScheduledLast
  <2>1. u # t /\ state[u] = "scheduled"
    BY <1>2
  <2>2. CASE v = t
    BY <2>1, <2>2, <1>1 DEF Tasks
  <2>3. CASE v # t
    BY <2>1, <2>3, <1>2 DEF ScheduledLast
  <2> QED
    BY <2>2, <2>3
<1>9. CreatedInOrder' /\ UnfinishedHeld' /\ StoppedHoldsNone'
  BY <1>1, <1>2 DEF CreatedInOrder, UnfinishedHeld, Unfinished, StoppedHoldsNone, server
<1>10. FirstAcceptedFirst'
  <2> SUFFICES ASSUME NEW u \in Tasks, state'[u] \in Begun, NEW v \in 1..(u-1)
               PROVE  state'[v] \in Begun \union {"lost"}
    BY DEF FirstAcceptedFirst
  <2>1. u # t /\ state[u] \in Begun /\ v \in Tasks
    BY <1>1, <1>2 DEF Begun, Tasks
  <2>2. state[v] \in Begun \union {"lost"}
    BY <2>1 DEF FirstAcceptedFirst
  <2> QED
    BY <1>1, <1>2, <2>1, <2>2 DEF Begun
<1>11. /\ InState("running")' = InState("running")
       /\ InState("woken")' = InState("woken")
       /\ InState("waiting")' = InState("waiting") \union {t}
  BY <1>1, <1>2 DEF InState
<1>12. SlotsConserved'
  BY <1>1, <1>11 DEF SlotsConserved, Running
<1>13. NoSleeperLeftBehind'
  <2> SUFFICES ASSUME value > 0 PROVE InState("woken") # {}
    BY <1>1, <1>11 DEF NoSleeperLeftBehind
  <2>1. n > 0 /\ waiters[1] \in Tasks /\ state[waiters[1]] \in Queued
    BY <1>1, <1>3 DEF QueueHoldsQueued
  <2>2. waiters[1] \in InState("waiting") \/ waiters[1] \in InState("woken")
    BY <2>1 DEF InState, Queued
  <2> QED
    BY <2>2 DEF NoSleeperLeftBehind
<1> QED
  BY <1>5, <1>6, <1>7, <1>8, <1>9, <1>10, <1>12, <1>13

(* A task goes on into or out of its review, waking some waiters.          *)
LEMMA WakingStep ==
    ASSUME IInv, NEW t \in Tasks, NEW next \in Begun, NEW W \in SUBSET Tasks,
           state[t] \in {"woken", "running"},
           \A u \in 1..(t-1) : state[u] \in Begun \union {"lost"},
           \A w \in W : w # t /\ state[w] = "waiting",
           state' = [u \in Tasks |-> IF u \in W THEN "woken" ELSE IF u = t THEN next ELSE state[u]],
           UNCHANGED <<deliveries, created, tasks, server>>
    PROVE  /\ state' \in [Tasks -> States]
           /\ \A u \in Tasks : u # t => (state'[u] \in Queued <=> state[u] \in Queued)
           /\ CreatedInOrder' /\ ScheduledLast' /\ UnfinishedHeld' /\ StoppedHoldsNone'
           /\ FirstAcceptedFirst'
<1> USE DEF IInv, Bookkeeping
<1>1. MaxTasks \in Nat /\ state \in [Tasks -> States] /\ next \in States
  BY LimitsAssumption DEF TypeOK, States, Begun, Unfinished
<1>2. /\ state'[t] = next
      /\ \A u \in Tasks : u # t /\ u \notin W => state'[u] = state[u]
      /\ \A w \in W : state'[w] = "woken" /\ state[w] = "waiting"
  OBVIOUS
<1>3. state' \in [Tasks -> States]
  BY <1>1 DEF States, Unfinished
<1>4. \A u \in Tasks : u # t => (state'[u] \in Queued <=> state[u] \in Queued)
  BY <1>2 DEF Queued
<1>5. CreatedInOrder'
  BY <1>2 DEF CreatedInOrder, Begun
<1>6. ScheduledLast'
  <2>1. \A u \in Tasks : state'[u] \in Queued => state[u] \in Queued
    BY <1>2, <1>4 DEF Queued, Begun
  <2>2. \A u \in Tasks : state'[u] = "scheduled" => state[u] = "scheduled"
    BY <1>2 DEF Begun
  <2> QED
    BY <2>1, <2>2 DEF ScheduledLast
<1>7. UnfinishedHeld' /\ StoppedHoldsNone'
  <2>1. t \in tasks
    BY DEF UnfinishedHeld, Unfinished
  <2>2. \A w \in W : w \in tasks
    BY <1>2 DEF UnfinishedHeld, Unfinished
  <2> QED
    BY <1>2, <2>1, <2>2 DEF UnfinishedHeld, StoppedHoldsNone, server
<1>8. FirstAcceptedFirst'
  <2> SUFFICES ASSUME NEW u \in Tasks, state'[u] \in Begun, NEW v \in 1..(u-1)
               PROVE  state'[v] \in Begun \union {"lost"}
    BY DEF FirstAcceptedFirst
  <2>1. v \in Tasks
    BY <1>1 DEF Tasks
  <2>2. state[v] \in Begun \union {"lost"}
    <3>1. CASE u = t
      BY <3>1
    <3>2. CASE u # t
      <4>1. state[u] \in Begun
        BY <3>2, <1>2 DEF Begun
      <4> QED
        BY <4>1 DEF FirstAcceptedFirst
    <3> QED
      BY <3>1, <3>2
  <2>3. v \notin W
    BY <1>2, <2>2 DEF Begun
  <2> QED
    BY <1>2, <2>1, <2>2, <2>3
<1> QED
  BY <1>3, <1>4, <1>5, <1>6, <1>7, <1>8

(* The oldest waiter resumes with the slot it was given and passes on the  *)
(* spare ones.                                                             *)
LEMMA ResumeStep ==
    ASSUME IInv, NEW t \in Tasks, Resume(t)
    PROVE  IInv'
<1> USE DEF IInv, Bookkeeping
<1> DEFINE st == [state EXCEPT ![t] = "running"]
           n == Len(waiters)
<1>1. /\ MaxTasks \in Nat /\ Concurrency \in Nat /\ value \in 0..Concurrency
      /\ state \in [Tasks -> States] /\ waiters \in Seq(Tasks)
      /\ waiters # <<>> /\ t = Head(waiters) /\ state[t] = "woken"
      /\ waiters' = Tail(waiters)
      /\ UNCHANGED <<deliveries, created, tasks, server>>
      /\ WakeUpNext(st, value, value)
  BY LimitsAssumption DEF Resume, TypeOK, States
<1>2. PICK W \in SUBSET Tasks : WakesSome(st, value, value, W)
  <2>1. value \in Nat
    BY <1>1
  <2> QED
    BY <1>1, <2>1, WakeUp
<1>3. \A w \in W : w # t /\ state[w] = "waiting"
  BY <1>1, <1>2 DEF WakesSome
<1>4. state' = [u \in Tasks |-> IF u \in W THEN "woken" ELSE IF u = t THEN "running" ELSE state[u]]
  BY <1>1, <1>2 DEF WakesSome
<1>5. /\ n \in Nat /\ n > 0 /\ waiters[1] = t
      /\ Len(waiters') = n - 1 /\ waiters' \in Seq(Tasks)
      /\ \A i \in 1..(n - 1) : waiters'[i] = waiters[i + 1]
  BY <1>1
<1>6. \A i \in 1..n : i # 1 => t < waiters[i] /\ waiters[i] # t /\ waiters[i] \in Tasks
  BY <1>1, <1>5 DEF Ascending, Tasks
<1>7. \A u \in 1..(t-1) : state[u] \in Begun \union {"lost"}
  <2> SUFFICES ASSUME NEW u \in 1..(t-1) PROVE state[u] \in Begun \union {"lost"}
    OBVIOUS
  <2>1. u \in Tasks /\ u < t /\ ~(t < u) /\ u # t
    BY <1>1 DEF Tasks
  <2>2. state[u] \notin Queued
    BY <1>5, <1>6, <2>1 DEF QueueHoldsQueued
  <2>3. state[u] # "scheduled"
    BY <1>1, <2>1 DEF ScheduledLast, Queued
  <2>4. state[u] # "none"
    <3>1. state[t] # "none"
      BY <1>1
    <3> QED
      BY <3>1, <1>1, <2>1 DEF CreatedInOrder, TypeOK, Tasks
  <2> QED
    BY <1>1, <2>1, <2>2, <2>3, <2>4 DEF States, Unfinished, Queued, Begun
<1>8. /\ state' \in [Tasks -> States]
      /\ \A u \in Tasks : u # t => (state'[u] \in Queued <=> state[u] \in Queued)
      /\ CreatedInOrder' /\ ScheduledLast' /\ UnfinishedHeld' /\ StoppedHoldsNone'
      /\ FirstAcceptedFirst'
  <2>1. "running" \in Begun
    BY DEF Begun
  <2> QED
    BY <1>1, <1>3, <1>4, <1>7, <2>1, WakingStep
<1>9. state'[t] = "running"
  BY <1>3, <1>4
<1>10. Ascending'
  BY <1>1, <1>5 DEF Ascending
<1>11. QueueHoldsQueued'
  <2> SUFFICES ASSUME NEW u \in Tasks
               PROVE  state'[u] \in Queued <=> \E i \in 1..(n - 1) : waiters'[i] = u
    BY <1>5 DEF QueueHoldsQueued
  <2>1. CASE u = t
    <3>1. \A i \in 1..(n - 1) : i + 1 \in 1..n /\ i + 1 # 1
      BY <1>5
    <3>2. \A i \in 1..(n - 1) : waiters'[i] # t
      BY <1>5, <1>6, <3>1
    <3> QED
      BY <1>9, <2>1, <3>2 DEF Queued
  <2>2. CASE u # t
    <3>1. state[u] \in Queued <=> \E i \in 1..n : waiters[i] = u
      BY DEF QueueHoldsQueued
    <3>2. ASSUME NEW i \in 1..n, waiters[i] = u
          PROVE  i - 1 \in 1..(n - 1) /\ waiters'[i - 1] = u
      <4>1. i # 1
        BY <1>5, <2>2, <3>2
      <4>2. i - 1 \in 1..(n - 1) /\ (i - 1) + 1 = i
        BY <4>1, <1>5
      <4> QED
        BY <4>2, <1>5, <3>2
    <3>3. ASSUME NEW i \in 1..(n - 1), waiters'[i] = u
          PROVE  i + 1 \in 1..n /\ waiters[i + 1] = u
      BY <1>5, <3>3
    <3>4. (\E i \in 1..(n - 1) : waiters'[i] = u) <=> (\E i \in 1..n : waiters[i] = u)
      BY <3>2, <3>3
    <3> QED
      BY <1>8, <2>2, <3>1, <3>4
  <2> QED
    BY <2>1, <2>2
<1>12. /\ value' = value - Cardinality(W) /\ Cardinality(W) \in Nat /\ Cardinality(W) <= value
  BY <1>2, TasksFinite DEF WakesSome
<1>13. SlotsConserved' /\ value' \in 0..Concurrency
  <2> DEFINE R == InState("running")
             K == InState("woken")
  <2>1. R \in SUBSET Tasks /\ K \in SUBSET Tasks /\ t \notin R /\ t \in K
    BY <1>1 DEF InState
  <2>2. InState("running")' = R \union {t}
    BY <1>1, <1>3, <1>4 DEF InState
  <2>3. InState("woken")' = (K \ {t}) \union W
    BY <1>1, <1>3, <1>4 DEF InState
  <2>4. (K \ {t}) \intersect W = {}
    BY <1>3 DEF InState
  <2>5. Cardinality(R \union {t}) = Cardinality(R) + 1
    BY <2>1, JoinOne
  <2>6. Cardinality(K \ {t}) = Cardinality(K) - 1
    BY <2>1, LeaveOne
  <2>7. Cardinality((K \ {t}) \union W) = Cardinality(K \ {t}) + Cardinality(W)
    BY <2>1, <2>4, JoinMany
  <2>8. Cardinality(R) \in Nat /\ Cardinality(K) \in Nat
    BY <2>1, TasksFinite
  <2>9. value + Cardinality(R) + Cardinality(K) = Concurrency
    BY DEF SlotsConserved, Running
  <2> HIDE DEF R, K
  <2>10. value' + Cardinality(R \union {t}) + Cardinality((K \ {t}) \union W) = Concurrency
    BY <1>1, <1>12, <2>5, <2>6, <2>7, <2>8, <2>9
  <2>11. SlotsConserved'
    BY <2>2, <2>3, <2>10 DEF SlotsConserved, Running
  <2>12. value' \in 0..Concurrency
    BY <1>1, <1>12
  <2> QED
    BY <2>11, <2>12
<1>14. NoSleeperLeftBehind'
  <2> SUFFICES ASSUME value' > 0, NEW s \in Tasks, state'[s] = "waiting"
               PROVE  FALSE
    BY DEF NoSleeperLeftBehind, InState
  <2>1. s # t /\ s \notin W /\ state[s] = "waiting"
    BY <1>3, <1>4, <1>9
  <2>2. PICK i \in 1..n : waiters[i] = s
    BY <2>1 DEF QueueHoldsQueued, Queued
  <2>3. Cardinality(W) < value
    BY <1>1, <1>12
  <2>4. st[waiters[i]] = "waiting"
    BY <1>1, <2>1, <2>2
  <2>5. s \in W
    BY <1>2, <2>2, <2>3, <2>4 DEF WakesSome
  <2> QED
    BY <2>1, <2>5
<1>15. TypeOK'
  BY <1>1, <1>5, <1>8, <1>13 DEF TypeOK, MemoryTypeOK, deliveries, server, States
<1> QED
  BY <1>8, <1>10, <1>11, <1>13, <1>14, <1>15

(* A review ends: its slot goes to the oldest waiter asleep, if any.       *)
LEMMA FinishReviewStep ==
    ASSUME IInv, NEW t \in Tasks, FinishReview(t)
    PROVE  IInv'
<1> USE DEF IInv, Bookkeeping
<1> DEFINE st == [state EXCEPT ![t] = "finished"]
<1>1. /\ MaxTasks \in Nat /\ Concurrency \in Nat /\ value \in 0..Concurrency
      /\ state \in [Tasks -> States] /\ waiters \in Seq(Tasks)
      /\ state[t] = "running"
      /\ UNCHANGED <<deliveries, created, tasks, waiters, server>>
      /\ WakeUpNext(st, value + 1, 1)
  BY LimitsAssumption DEF FinishReview, TypeOK, States
<1>2. PICK W \in SUBSET Tasks : WakesSome(st, value + 1, 1, W)
  <2>1. value + 1 \in Nat
    BY <1>1
  <2> QED
    BY <1>1, <2>1, WakeUp
<1>3. \A w \in W : w # t /\ state[w] = "waiting"
  BY <1>1, <1>2 DEF WakesSome
<1>4. state' = [u \in Tasks |-> IF u \in W THEN "woken" ELSE IF u = t THEN "finished" ELSE state[u]]
  BY <1>1, <1>2 DEF WakesSome
<1>5. \A u \in 1..(t-1) : state[u] \in Begun \union {"lost"}
  BY <1>1 DEF FirstAcceptedFirst, Begun
<1>6. /\ state' \in [Tasks -> States]
      /\ \A u \in Tasks : u # t => (state'[u] \in Queued <=> state[u] \in Queued)
      /\ CreatedInOrder' /\ ScheduledLast' /\ UnfinishedHeld' /\ StoppedHoldsNone'
      /\ FirstAcceptedFirst'
  <2>1. "finished" \in Begun
    BY DEF Begun
  <2> QED
    BY <1>1, <1>3, <1>4, <1>5, <2>1, WakingStep
<1>7. state'[t] = "finished"
  BY <1>3, <1>4
<1>8. Ascending' /\ QueueHoldsQueued'
  <2>1. \A u \in Tasks : state'[u] \in Queued <=> state[u] \in Queued
    BY <1>1, <1>6, <1>7 DEF Queued
  <2> QED
    BY <1>1, <2>1 DEF Ascending, QueueHoldsQueued
<1>9. /\ value' = value + 1 - Cardinality(W)
      /\ Cardinality(W) \in Nat /\ Cardinality(W) <= value + 1
  <2>1. value' = (value + 1) - Cardinality(W) /\ Cardinality(W) <= value + 1
    BY <1>2 DEF WakesSome
  <2>2. Cardinality(W) \in Nat
    BY TasksFinite
  <2> QED
    BY <1>1, <2>1, <2>2
<1>10. SlotsConserved' /\ value' \in 0..Concurrency
  <2> DEFINE R == InState("running")
             K == InState("woken")
  <2>1. R \in SUBSET Tasks /\ K \in SUBSET Tasks /\ t \in R /\ K \intersect W = {}
    BY <1>1, <1>3 DEF InState
  <2>2. InState("running")' = R \ {t}
    BY <1>1, <1>3, <1>4 DEF InState
  <2>3. InState("woken")' = K \union W
    BY <1>1, <1>3, <1>4 DEF InState
  <2>4. Cardinality(R \ {t}) = Cardinality(R) - 1
    BY <2>1, LeaveOne
  <2>5. Cardinality(K \union W) = Cardinality(K) + Cardinality(W)
    BY <2>1, JoinMany
  <2>6. /\ Cardinality(R) \in Nat /\ Cardinality(K) \in Nat
        /\ Cardinality(R \ {t}) \in Nat /\ Cardinality(K \union W) \in Nat
    BY <2>1, TasksFinite
  <2>7. value + Cardinality(R) + Cardinality(K) = Concurrency
    BY DEF SlotsConserved, Running
  <2> HIDE DEF R, K
  <2>8. value' + Cardinality(R \ {t}) + Cardinality(K \union W) = Concurrency
    <3>1. PICK r \in Nat : r = Cardinality(R)
      BY ONLY <2>6
    <3>2. PICK w \in Nat : w = Cardinality(K)
      BY ONLY <2>6
    <3>3. PICK v \in Nat : v = Cardinality(W)
      BY ONLY <1>9
    <3>4. value' = value + 1 - v
      BY ONLY <1>9, <3>3
    <3>5. Cardinality(R \ {t}) = r - 1 /\ Cardinality(K \union W) = w + v
      BY ONLY <2>4, <2>5, <3>1, <3>2, <3>3
    <3>6. value \in Int /\ value + r + w = Concurrency
      BY ONLY <1>1, <2>7, <3>1, <3>2
    <3>7. (value + 1 - v) + (r - 1) + (w + v) = Concurrency
      BY ONLY <3>6, r \in Nat, w \in Nat, v \in Nat
    <3> QED
      BY ONLY <3>4, <3>5, <3>7
  <2>9. SlotsConserved'
    BY <2>2, <2>3, <2>8 DEF SlotsConserved, Running
  <2>10. value' \in 0..Concurrency
    BY <1>1, <1>9, <2>6, <2>8
  <2> QED
    BY <2>9, <2>10
<1>11. NoSleeperLeftBehind'
  <2> SUFFICES ASSUME value' > 0, NEW s \in Tasks, state'[s] = "waiting"
               PROVE  \E w \in Tasks : state'[w] = "woken"
    BY DEF NoSleeperLeftBehind, InState
  <2>1. s # t /\ s \notin W /\ state[s] = "waiting"
    BY <1>3, <1>4, <1>7
  <2>2. PICK i \in 1..Len(waiters) : waiters[i] = s
    BY <2>1 DEF QueueHoldsQueued, Queued
  <2>3. st[waiters[i]] = "waiting"
    BY <1>1, <2>1, <2>2
  <2>4. ~(Cardinality(W) < 1 /\ Cardinality(W) < value + 1)
    BY <1>2, <2>1, <2>2, <2>3 DEF WakesSome
  <2>5. Cardinality(W) # 0
    BY <1>1, <1>9, <2>4
  <2>6. PICK w \in W : TRUE
    BY <2>5, FS_EmptySet
  <2> QED
    BY <1>4, <2>6
<1>12. TypeOK'
  BY <1>1, <1>6, <1>10 DEF TypeOK, MemoryTypeOK, deliveries, server, States
<1> QED
  BY <1>6, <1>8, <1>10, <1>11, <1>12

(* The runner forgets a finished task.                                     *)
LEMMA DiscardStep ==
    ASSUME IInv, NEW t \in Tasks, Discard(t)
    PROVE  IInv'
<1> USE DEF IInv, Bookkeeping
<1>1. /\ state[t] = "finished" /\ tasks' = tasks \ {t}
      /\ UNCHANGED <<deliveries, created, state, semaphore, server>>
  BY DEF Discard
<1>2. TypeOK'
  BY <1>1 DEF TypeOK, MemoryTypeOK, deliveries, semaphore, server
<1>3. UnfinishedHeld' /\ StoppedHoldsNone'
  BY <1>1 DEF UnfinishedHeld, Unfinished, StoppedHoldsNone, server
<1>4. SlotsConserved' /\ NoSleeperLeftBehind'
  BY <1>1, SlotsUntouched DEF InState, semaphore
<1> QED
  BY <1>1, <1>2, <1>3, <1>4
  DEF Ascending, QueueHoldsQueued, CreatedInOrder, ScheduledLast, FirstAcceptedFirst, semaphore

(* drain gathers what the runner holds, or returns because it holds none.  *)
LEMMA DrainStep ==
    ASSUME IInv, StartDrain \/ DrainAgain
    PROVE  IInv'
<1> USE DEF IInv, Bookkeeping
<1>1. Gather /\ UNCHANGED <<deliveries, created, state, tasks, semaphore>>
  BY DEF StartDrain, DrainAgain
<1>2. TypeOK'
  BY <1>1 DEF Gather, TypeOK, MemoryTypeOK, deliveries, semaphore
<1>3. UnfinishedHeld' /\ StoppedHoldsNone'
  BY <1>1 DEF UnfinishedHeld, StoppedHoldsNone, Gather
<1>4. SlotsConserved' /\ NoSleeperLeftBehind'
  BY <1>1, SlotsUntouched DEF InState, semaphore
<1> QED
  BY <1>1, <1>2, <1>3, <1>4
  DEF Ascending, QueueHoldsQueued, CreatedInOrder, ScheduledLast, FirstAcceptedFirst, semaphore

(* A new process: what was unfinished is lost, every slot is free.         *)
LEMMA RestartStep ==
    ASSUME IInv, Restart
    PROVE  IInv'
<1> USE DEF IInv, Bookkeeping
<1>1. /\ MaxTasks \in Nat /\ Concurrency \in Nat
      /\ state \in [Tasks -> States] /\ created \in 0..MaxTasks
      /\ state' = [t \in Tasks |-> IF state[t] \in Unfinished THEN "lost" ELSE state[t]]
      /\ tasks' = {} /\ value' = Concurrency /\ waiters' = <<>>
      /\ phase' = "serving" /\ awaited' = {} /\ created' = created
      /\ Forget
  BY LimitsAssumption DEF Restart, TypeOK, States
<1>2. \A t \in Tasks : state'[t] \in {"none", "finished", "lost"}
  BY <1>1 DEF States
<1>3. MemoryTypeOK'
  BY <1>1 DEF Forget, MemoryTypeOK
<1>4. TypeOK'
  BY <1>1, <1>2, <1>3 DEF TypeOK
<1>5. Ascending' /\ QueueHoldsQueued' /\ ScheduledLast'
  BY <1>1, <1>2 DEF Ascending, QueueHoldsQueued, Queued, ScheduledLast
<1>6. CreatedInOrder' /\ UnfinishedHeld' /\ StoppedHoldsNone'
  BY <1>1, <1>2 DEF CreatedInOrder, UnfinishedHeld, Unfinished, StoppedHoldsNone
<1>7. FirstAcceptedFirst'
  <2> SUFFICES ASSUME NEW u \in Tasks, state'[u] \in Begun, NEW v \in 1..(u-1)
               PROVE  state'[v] \in Begun \union {"lost"}
    BY DEF FirstAcceptedFirst
  <2>1. v \in Tasks
    BY <1>1 DEF Tasks
  <2>2. state[u] \in Begun
    BY <1>1 DEF Begun, Unfinished
  <2>3. state[v] \in Begun \union {"lost"}
    BY <2>2 DEF FirstAcceptedFirst
  <2> QED
    BY <1>1, <2>1, <2>3 DEF Begun, Unfinished
<1>8. InState("running")' = {} /\ InState("woken")' = {} /\ InState("waiting")' = {}
  BY <1>2 DEF InState
<1>9. SlotsConserved' /\ NoSleeperLeftBehind'
  <2>1. Cardinality({}) = 0
    BY FS_EmptySet
  <2>2. Cardinality(InState("running")') = 0 /\ Cardinality(InState("woken")') = 0
    BY <1>8, <2>1
  <2> QED
    BY <1>1, <1>8, <2>2 DEF SlotsConserved, NoSleeperLeftBehind, Running
<1> QED
  BY <1>4, <1>5, <1>6, <1>7, <1>9

LEMMA NextInvariant == IInv /\ [Next]_vars => IInv'
<1> SUFFICES ASSUME IInv, [Next]_vars PROVE IInv'
  OBVIOUS
<1>1. ASSUME NEW e \in Events, Webhook(e) PROVE IInv'
  BY <1>1, WebhookStep
<1>2. ASSUME NEW t \in Tasks, TaskStep(t) PROVE IInv'
  BY <1>2, StartRunningStep, StartWaitingStep, ResumeStep, FinishReviewStep, DiscardStep
  DEF TaskStep
<1>3. CASE StartDrain \/ DrainAgain
  BY <1>3, DrainStep
<1>4. CASE Restart
  BY <1>4, RestartStep
<1>5. CASE UNCHANGED vars
  <2> USE DEF IInv, Bookkeeping
  <2>1. TypeOK'
    BY <1>5 DEF vars, TypeOK, MemoryTypeOK
  <2>2. SlotsConserved' /\ NoSleeperLeftBehind'
    BY <1>5, SlotsUntouched DEF vars, InState
  <2> QED
    BY <1>5, <2>1, <2>2
    DEF vars, Ascending, QueueHoldsQueued, CreatedInOrder, ScheduledLast, UnfinishedHeld,
        StoppedHoldsNone, FirstAcceptedFirst
<1> QED
  BY <1>1, <1>2, <1>3, <1>4, <1>5 DEF Next

LEMMA Invariant == Spec => []IInv
<1>1. Init => IInv
  BY InitInvariant
<1>2. IInv /\ [Next]_vars => IInv'
  BY NextInvariant
<1> QED
  BY <1>1, <1>2, PTL DEF Spec

-----------------------------------------------------------------------------
(* The types hold in every reachable state: in particular the semaphore's  *)
(* _value never leaves 0..Concurrency.                                     *)
THEOREM TypeCorrect == Spec => []TypeOK
<1>1. IInv => TypeOK
  BY DEF IInv, Bookkeeping
<1> QED
  BY <1>1, Invariant, PTL

(* However starts, hand-overs, ends and restarts interleave, the slots are *)
(* neither lost nor multiplied: at most Concurrency reviews ever run.      *)
THEOREM SlotsAreConserved == Spec => []SlotsConserved
<1>1. IInv => SlotsConserved
  BY DEF IInv
<1> QED
  BY <1>1, Invariant, PTL

(* No wake-up is lost: while a slot is free and a task is asleep on the    *)
(* semaphore, another has been woken there, and will pass the slot on.     *)
THEOREM NoWakeUpIsLost == Spec => []NoSleeperLeftBehind
<1>1. IInv => NoSleeperLeftBehind
  BY DEF IInv
<1> QED
  BY <1>1, Invariant, PTL

(* The reviews of a process begin in the order their deliveries were       *)
(* accepted: nobody overtakes in the ready queue or at the semaphore.      *)
THEOREM ReviewsBeginInOrder == Spec => []FirstAcceptedFirst
<1>1. IInv => FirstAcceptedFirst
  BY DEF IInv
<1> QED
  BY <1>1, Invariant, PTL

(* When drain has returned no accepted review is left that could still use *)
(* the clients the lifespan closes next.                                   *)
THEOREM DrainIsComplete == Spec => []DrainLeavesNothing
<1>1. IInv => DrainLeavesNothing
  BY DEF IInv, Bookkeeping, UnfinishedHeld, StoppedHoldsNone, DrainLeavesNothing
<1> QED
  BY <1>1, Invariant, PTL

(* The runner keeps the memory as it promises to be kept: each of its      *)
(* steps registers one delivery, starts over with a new process, or leaves *)
(* the memory alone.                                                       *)
THEOREM RunnerKeepsMemory == Spec => SpecMemory
<1>1. Init => InitMemory
  BY DEF Init
<1>2. [Next]_vars => [NextMemory]_deliveries
  <2> SUFFICES ASSUME [Next]_vars PROVE [NextMemory]_deliveries
    OBVIOUS
  <2>1. ASSUME NEW e \in Events, Webhook(e) PROVE [NextMemory]_deliveries
    <3>1. CASE e.id = NoHeader
      BY <2>1, <3>1 DEF Webhook
    <3>2. CASE e.id # NoHeader
      BY <2>1, <3>2, EventsAssumption DEF Webhook, NextMemory
    <3> QED
      BY <3>1, <3>2
  <2>2. ASSUME NEW t \in Tasks, TaskStep(t) PROVE UNCHANGED deliveries
    BY <2>2 DEF TaskStep, StartRunning, StartWaiting, Resume, FinishReview, Discard
  <2>3. StartDrain \/ DrainAgain => UNCHANGED deliveries
    BY DEF StartDrain, DrainAgain
  <2>4. Restart => NextMemory
    BY DEF Restart, NextMemory
  <2>5. UNCHANGED vars => UNCHANGED deliveries
    BY DEF vars, deliveries
  <2> QED
    BY <2>1, <2>2, <2>3, <2>4, <2>5 DEF Next
<1> QED
  BY <1>1, <1>2, PTL DEF Spec, SpecMemory

(* So a redelivery that comes soon enough starts no second review in the   *)
(* service that runs the memory, whatever the tasks do meanwhile.          *)
COROLLARY RunnerRefusesRedeliveries == Spec => [](SeenIsWindow /\ NoRepeatWithinWindow)
  BY RunnerKeepsMemory, MemoryIsWindow, RedeliveriesAreRefused, PTL
=============================================================================
