-------------------------- MODULE RecentDeliveries --------------------------
(***************************************************************************)
(* The bounded memory of webhook delivery ids (api/background.py): a set   *)
(* for membership and a deque for eviction, kept in step by register.      *)
(***************************************************************************)
EXTENDS Integers, Sequences

CONSTANTS
    Deliveries,    \* delivery ids (X-GitHub-Delivery)
    MaxSize,       \* max_size, 2048 in the code
    MaxRegistered  \* bound: ids registered in the life of a process

ASSUME SizeAssumption == MaxSize \in Nat \ {0} /\ MaxRegistered \in Nat

VARIABLES
    seen,       \* _seen
    order,      \* _order, oldest first
    registered  \* history: every id for which register returned True

deliveries == <<seen, order, registered>>

InitMemory == seen = {} /\ order = <<>> /\ registered = <<>>

(* Seeded faults: the deque replaced by what popleft returns; an evicted   *)
(* id left in the set; eviction one id too early.                          *)
RegisterPopped(d) ==
    LET grown == Append(order, d)
    IN  /\ d \notin seen /\ Len(registered) < MaxRegistered
        /\ registered' = Append(registered, d)
        /\ order' = IF Len(grown) > MaxSize THEN Head(grown) ELSE grown
        /\ seen' = seen \union {d}

RegisterForever(d) ==
    LET grown == Append(order, d)
    IN  /\ d \notin seen /\ Len(registered) < MaxRegistered
        /\ registered' = Append(registered, d)
        /\ order' = IF Len(grown) > MaxSize THEN Tail(grown) ELSE grown
        /\ seen' = seen \union {d}

RegisterEvictingEarly(d) ==
    LET grown == Append(order, d)
        evicts == Len(grown) >= MaxSize
    IN  /\ d \notin seen /\ Len(registered) < MaxRegistered
        /\ registered' = Append(registered, d)
        /\ order' = IF evicts THEN Tail(grown) ELSE grown
        /\ seen' = IF evicts THEN (seen \union {d}) \ {Head(grown)}
                             ELSE seen \union {d}

(* register(d) returning True: record d, then evict past max_size.  When d *)
(* was seen register returns False and changes nothing.                    *)
Register(d) ==
    LET grown == Append(order, d)
        evicts == Len(grown) > MaxSize
    IN  /\ d \notin seen
        /\ Len(registered) < MaxRegistered
        /\ registered' = Append(registered, d)
        /\ order' = IF evicts THEN Tail(grown) ELSE grown
        /\ seen' = IF evicts THEN (seen \union {d}) \ {Head(grown)}
                             ELSE seen \union {d}

(* The memory dies with the process.                                       *)
Forget == seen' = {} /\ order' = <<>> /\ registered' = <<>>

NextMemory == Forget \/ \E d \in Deliveries : Register(d)

SpecMemory == InitMemory /\ [][NextMemory]_deliveries

-----------------------------------------------------------------------------
(* The types of the variables.                                             *)
MemoryTypeOK ==
    /\ seen \subseteq Deliveries
    /\ order \in Seq(Deliveries)
    /\ registered \in Seq(Deliveries)

(* The memory is exactly the last MaxSize ids registered: the set and the  *)
(* deque never drift apart, nothing is evicted early or kept late.         *)
Window == {i \in 1..Len(registered) : i > Len(registered) - MaxSize}
SeenIsWindow == seen = {registered[i] : i \in Window}

(* A redelivery starts a second review only after at least MaxSize other   *)
(* deliveries: among any MaxSize + 1 consecutive ids none is repeated.     *)
NoRepeatWithinWindow ==
    \A j \in 1..Len(registered) : \A i \in 1..(j-1) :
        registered[i] = registered[j] => j - i > MaxSize
=============================================================================
