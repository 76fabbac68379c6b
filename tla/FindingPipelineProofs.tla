----------------------- MODULE FindingPipelineProofs -----------------------
(***************************************************************************)
(* Proofs about FindingPipeline, for any pull requests, analyzers and      *)
(* reports: first what deduplicate makes of a list, then the invariant of  *)
(* the pipeline.                                                           *)
(***************************************************************************)
EXTENDS FindingPipeline, ListFacts

States == {"candidate", "confirmed", "rejected", "duplicate"}

(* A finding; its fingerprint, path and lines may be anything.             *)
IsFinding(f) ==
    f \in [id: Int, fingerprint: {f.fingerprint}, severity: Severities,
           confidence: Confidences, kind: Kinds, path: {f.path}, where: {f.where},
           state: States, inline: BOOLEAN]

(* A list of candidates, each with an id that no other of them has.        *)
IsReported(s) ==
    /\ s \in Seq(ToSet(s))
    /\ \A i \in DOMAIN s : IsFinding(s[i]) /\ s[i].state = "candidate" /\ s[i].id \in {i, -i}

-----------------------------------------------------------------------------
(* The sort key of _select_survivor as one number, when ids are in -n..n.  *)
Grade(f) == (f.severity * 3 + f.confidence) * 3 + SourcePriority(f.kind)
Weight(f, n) == Grade(f) * (2 * n + 1) - f.id

(* Grades compare like severity, confidence and source do.                 *)
LEMMA GradeOrders ==
    ASSUME NEW f, NEW g, IsFinding(f), IsFinding(g)
    PROVE  /\ Grade(f) \in 0..44
           /\ Before(f, g) <=> Grade(f) > Grade(g) \/ (Grade(f) = Grade(g) /\ f.id < g.id)
           /\ Before(f, g) \/ Before(g, f) \/ f.id = g.id
<1>1. ASSUME NEW h, IsFinding(h)
      PROVE  /\ h.severity \in 0..4 /\ h.confidence \in 0..2 /\ SourcePriority(h.kind) \in 0..2
             /\ h.id \in Int
  <2>1. h.kind \in {"llm_analyzer", "pip_audit", "semgrep"}
    BY <1>1 DEF IsFinding, Kinds
  <2>2. SourcePriority(h.kind) \in 0..2
    BY <2>1 DEF SourcePriority
  <2> QED
    BY <1>1, <2>2 DEF IsFinding, Severities, Confidences
<1> HIDE DEF SourcePriority
<1>2. Grade(f) \in 0..44
  BY <1>1 DEF Grade
<1>3. Before(f, g) <=> Grade(f) > Grade(g) \/ (Grade(f) = Grade(g) /\ f.id < g.id)
  BY <1>1 DEF Grade, Before
<1>4. Before(f, g) \/ Before(g, f) \/ f.id = g.id
  BY <1>1 DEF Before
<1> QED
  BY <1>2, <1>3, <1>4

(* Weights do too, and the id breaks the ties.                             *)
LEMMA WeightOrders ==
    ASSUME NEW n \in Nat, NEW f, NEW g, IsFinding(f), IsFinding(g),
           f.id \in (-n)..n, g.id \in (-n)..n
    PROVE  /\ Weight(f, n) \in Int /\ Weight(f, n) <= 44 * (2 * n + 1) + n
           /\ Before(f, g) <=> Weight(f, n) > Weight(g, n)
<1> DEFINE m == 2 * n + 1
<1>1. \A a, b \in 0..44 : a > b => a * m >= b * m + m
  <2> SUFFICES ASSUME NEW a \in 0..44, NEW b \in 0..44, a > b PROVE a * m >= b * m + m
    OBVIOUS
  <2>1. PICK d \in Nat : a = b + 1 + d
    <3>1. a - b - 1 \in Nat /\ a = b + 1 + (a - b - 1)
      OBVIOUS
    <3> QED
      BY <3>1
  <2>2. a * m = b * m + m + d * m
    BY <2>1
  <2>3. d * m >= 0
    BY <2>1
  <2>4. b * m \in Int /\ d * m \in Int /\ m \in Int
    BY <2>1
  <2> QED
    BY ONLY <2>2, <2>3, <2>4
<1>2. \A a \in 0..44 : a * m \in Int /\ a * m <= 44 * m
  BY <1>1
<1>3. Grade(f) \in 0..44 /\ Grade(g) \in 0..44
  BY GradeOrders
<1>4. Before(f, g) <=> Grade(f) > Grade(g) \/ (Grade(f) = Grade(g) /\ f.id < g.id)
  BY GradeOrders
<1>5. Weight(f, n) = Grade(f) * m - f.id /\ Weight(g, n) = Grade(g) * m - g.id
  BY DEF Weight
<1>6. m \in Nat /\ m = 2 * n + 1
  OBVIOUS
<1> HIDE DEF m
<1>7. Grade(f) * m \in Int /\ Grade(g) * m \in Int /\ Grade(f) * m <= 44 * m
  BY <1>2, <1>3
<1>8. /\ Grade(f) > Grade(g) => Grade(f) * m >= Grade(g) * m + m
      /\ Grade(g) > Grade(f) => Grade(g) * m >= Grade(f) * m + m
  BY <1>1, <1>3
<1>9. Weight(f, n) \in Int /\ Weight(f, n) <= 44 * m + n
  BY <1>5, <1>6, <1>7
<1>10. Before(f, g) <=> Weight(f, n) > Weight(g, n)
  <2>1. CASE Grade(f) > Grade(g)
    BY <2>1, <1>4, <1>5, <1>6, <1>7, <1>8
  <2>2. CASE Grade(g) > Grade(f)
    BY <2>2, <1>3, <1>4, <1>5, <1>6, <1>7, <1>8
  <2>3. CASE Grade(f) = Grade(g)
    BY <2>3, <1>3, <1>4, <1>5, <1>6, <1>7
  <2> QED
    BY <2>1, <2>2, <2>3, <1>3
<1> QED
  BY <1>6, <1>9, <1>10

(* What holds of the places and ids of a list of candidates.               *)
LEMMA ReportedFacts ==
    ASSUME NEW s, IsReported(s)
    PROVE  /\ Len(s) \in Nat /\ DOMAIN s = 1..Len(s)
           /\ \A i \in 1..Len(s) : IsFinding(s[i]) /\ s[i].id \in (-Len(s))..Len(s)
           /\ \A i, j \in 1..Len(s) : s[i].id = s[j].id => i = j
           /\ \A i \in 1..Len(s) : Peers(s, i) = {j \in 1..Len(s) : s[j].fingerprint = s[i].fingerprint}
<1>1. Len(s) \in Nat /\ DOMAIN s = 1..Len(s)
  BY LenProperties DEF IsReported
<1>2. \A i \in 1..Len(s) : IsFinding(s[i]) /\ s[i].id \in {i, -i}
  BY <1>1 DEF IsReported
<1>3. \A i \in 1..Len(s) : \A j \in 1..Len(s) : s[i].id = s[j].id => i = j
  BY <1>1, <1>2
<1>4. \A i \in 1..Len(s) : s[i].id \in (-Len(s))..Len(s)
  BY <1>1, <1>2
<1>5. \A i \in 1..Len(s) : Peers(s, i) = {j \in 1..Len(s) : s[j].fingerprint = s[i].fingerprint}
  BY <1>1 DEF Peers
<1> QED
  BY <1>1, <1>2, <1>3, <1>4, <1>5

(* The survivor of a group exists, and is the one nothing outweighs.       *)
LEMMA SurvivorIsBest ==
    ASSUME NEW s, IsReported(s), NEW i \in DOMAIN s
    PROVE  LET k == SelectSurvivor(s, Peers(s, i))
           IN  /\ k \in Peers(s, i)
               /\ \A j \in Peers(s, i) \ {k} : Before(s[k], s[j])
<1> DEFINE G == Peers(s, i)
           n == Len(s)
           W == {Weight(s[j], n) : j \in G}
<1>1. n \in Nat /\ i \in G /\ G \subseteq 1..n
  BY ReportedFacts
<1>2. \A j \in 1..n : IsFinding(s[j]) /\ s[j].id \in (-n)..n
  BY ReportedFacts
<1>3. \A j, k \in 1..n :
         /\ Weight(s[j], n) \in Int /\ Weight(s[j], n) <= 44 * (2 * n + 1) + n
         /\ Before(s[j], s[k]) <=> Weight(s[j], n) > Weight(s[k], n)
  BY <1>1, <1>2, WeightOrders
<1>4. \A j, k \in 1..n : j # k => Weight(s[j], n) # Weight(s[k], n)
  <2> SUFFICES ASSUME NEW j \in 1..n, NEW k \in 1..n, Weight(s[j], n) = Weight(s[k], n)
               PROVE  j = k
    OBVIOUS
  <2>1. ~Before(s[j], s[k]) /\ ~Before(s[k], s[j])
    BY <1>3
  <2>2. s[j].id = s[k].id
    BY <1>2, <2>1, GradeOrders
  <2> QED
    BY <2>2, ReportedFacts
<1>5. PICK m \in W : \A w \in W : w <= m
  <2>1. W # {} /\ W \subseteq Int
    BY <1>1, <1>3
  <2>2. PICK b \in Int : \A w \in W : w <= b
    <3>1. 44 * (2 * n + 1) + n \in Int /\ \A w \in W : w <= 44 * (2 * n + 1) + n
      BY <1>1, <1>3
    <3> QED
      BY <3>1
  <2> HIDE DEF W
  <2> QED
    BY <2>1, <2>2, Greatest
<1>6. PICK k \in G : \A j \in G : Weight(s[j], n) <= Weight(s[k], n)
  BY <1>5
<1>7. \A j \in G \ {k} : Before(s[k], s[j])
  <2> SUFFICES ASSUME NEW j \in G, j # k PROVE Before(s[k], s[j])
    OBVIOUS
  <2>1. Weight(s[j], n) # Weight(s[k], n) /\ Weight(s[j], n) <= Weight(s[k], n)
    BY <1>1, <1>4, <1>6
  <2>2. Weight(s[j], n) \in Int /\ Weight(s[k], n) \in Int
    BY <1>1, <1>3
  <2>3. Weight(s[k], n) > Weight(s[j], n)
    BY ONLY <2>1, <2>2
  <2> QED
    BY <1>1, <1>3, <2>3
<1> HIDE DEF G
<1> QED
  BY <1>6, <1>7 DEF SelectSurvivor, G

(* Peers have the same peers, and so the same survivor.                    *)
LEMMA PeersShare ==
    ASSUME NEW s, IsReported(s), NEW i \in DOMAIN s, NEW j \in Peers(s, i)
    PROVE  Peers(s, j) = Peers(s, i) /\ j \in DOMAIN s
BY ReportedFacts DEF Peers

Survivor(s, i) == SelectSurvivor(s, Peers(s, i))

(* A finding survives exactly when no finding of its group outweighs it.   *)
LEMMA SurvivesUnlessOutweighed ==
    ASSUME NEW s, IsReported(s), NEW i \in DOMAIN s
    PROVE  (i # Survivor(s, i)) <=> \E j \in Peers(s, i) : Weight(s[j], Len(s)) > Weight(s[i], Len(s))
<1> DEFINE n == Len(s)
           k == Survivor(s, i)
<1>1. n \in Nat /\ i \in 1..n /\ i \in Peers(s, i) /\ Peers(s, i) \subseteq 1..n
  BY ReportedFacts
<1>2. \A j \in 1..n : IsFinding(s[j]) /\ s[j].id \in (-n)..n
  BY ReportedFacts
<1>3. \A j, l \in 1..n :
         /\ Weight(s[j], n) \in Int
         /\ Before(s[j], s[l]) <=> Weight(s[j], n) > Weight(s[l], n)
  BY <1>1, <1>2, WeightOrders
<1>4. k \in Peers(s, i) /\ \A j \in Peers(s, i) \ {k} : Before(s[k], s[j])
  BY SurvivorIsBest DEF Survivor
<1> HIDE DEF k, n
<1>5. ASSUME i # k PROVE \E j \in Peers(s, i) : Weight(s[j], n) > Weight(s[i], n)
  BY <1>1, <1>3, <1>4, <1>5
<1>6. ASSUME NEW j \in Peers(s, i), Weight(s[j], n) > Weight(s[i], n) PROVE i # k
  <2> SUFFICES ASSUME i = k PROVE FALSE
    OBVIOUS
  <2>1. Weight(s[j], n) \in Int /\ Weight(s[i], n) \in Int
    BY <1>1, <1>3
  <2>2. j # i
    BY <1>6, <2>1
  <2>3. Weight(s[i], n) > Weight(s[j], n)
    BY <1>1, <1>3, <1>4, <2>2
  <2> QED
    BY <1>6, <2>1, <2>3
<1> QED
  BY <1>5, <1>6 DEF k, n

(* What becomes of the i-th finding.                                       *)
Merged(s, i) ==
    IF i = Survivor(s, i)
    THEN [s[i] EXCEPT !.confidence =
            IF \E j \in Peers(s, i) : s[j].kind # s[i].kind THEN RaiseConfidence(@) ELSE @]
    ELSE MarkDuplicate(s[i])

(* A survivor's severity is the worst of its group already.                *)
LEMMA EnrichedSurvivor ==
    ASSUME NEW s, IsReported(s), NEW i \in DOMAIN s, i = Survivor(s, i)
    PROVE  Enrich(s[i], {s[j] : j \in Peers(s, i) \ {i}}) = Merged(s, i)
<1> DEFINE losers == {s[j] : j \in Peers(s, i) \ {i}}
           S == {f.severity : f \in losers \union {s[i]}}
<1>1. /\ i \in 1..Len(s) /\ i \in Peers(s, i) /\ Peers(s, i) \subseteq 1..Len(s)
      /\ \A j \in 1..Len(s) : IsFinding(s[j])
  BY ReportedFacts
<1>2. \A j \in Peers(s, i) \ {i} : Before(s[i], s[j])
  BY SurvivorIsBest DEF Survivor
<1>3. \A j \in 1..Len(s) : s[j].severity \in 0..4
  BY <1>1 DEF IsFinding, Severities
<1>4. \A j \in Peers(s, i) : s[i].severity >= s[j].severity
  <2> SUFFICES ASSUME NEW j \in Peers(s, i), j # i PROVE s[i].severity >= s[j].severity
    BY <1>1, <1>3
  <2>1. s[i].severity \in 0..4 /\ s[j].severity \in 0..4
    BY <1>1, <1>3
  <2> QED
    BY <1>2, <2>1 DEF Before
<1>5. /\ s[i].severity \in S
      /\ \A r \in S : r \in Int /\ s[i].severity >= r
  <2>1. s[i].severity \in S
    OBVIOUS
  <2>2. ASSUME NEW f \in losers \union {s[i]} PROVE f.severity \in Int /\ s[i].severity >= f.severity
    <3>1. PICK j \in Peers(s, i) : f = s[j]
      BY <1>1
    <3> QED
      BY <1>1, <1>3, <1>4, <3>1
  <2> QED
    BY <2>1, <2>2
<1>6. Max(S) = s[i].severity
  <2> HIDE DEF S
  <2>1. PICK m : m = Max(S)
    OBVIOUS
  <2>2. m \in S /\ \A r \in S : m >= r
    BY <1>5, <2>1 DEF Max
  <2> QED
    BY <1>5, <2>1, <2>2
<1>7. (\E f \in losers : f.kind # s[i].kind) <=> \E j \in Peers(s, i) : s[j].kind # s[i].kind
  OBVIOUS
<1>8. IsFinding(s[i])
  BY <1>1
<1> HIDE DEF losers
<1>9. [s[i] EXCEPT !.severity = Max({f.severity : f \in losers \union {s[i]}}),
                   !.confidence = IF \E f \in losers : f.kind # s[i].kind THEN RaiseConfidence(@) ELSE @]
      = [s[i] EXCEPT !.confidence = IF \E f \in losers : f.kind # s[i].kind THEN RaiseConfidence(@) ELSE @]
  BY <1>6, <1>8 DEF S, IsFinding
<1>10. Enrich(s[i], losers)
       = [s[i] EXCEPT !.confidence = IF \E j \in Peers(s, i) : s[j].kind # s[i].kind THEN RaiseConfidence(@) ELSE @]
  BY <1>7, <1>9 DEF Enrich
<1> QED
  BY <1>10 DEF losers, Merged

-----------------------------------------------------------------------------
(* Picked keeps the entries at the given places, in their order.           *)
LEMMA PickedSelects ==
    ASSUME NEW T, NEW s \in Seq(T), NEW places
    PROVE  /\ Picked(s, places) \in Seq(T)
           /\ \E from : Selects(from, Picked(s, places), s, places)
<1>0. PICK ss : ss = [i \in DOMAIN s |-> IF i \in places THEN <<s[i]>> ELSE <<>>]
  OBVIOUS
<1>1. DOMAIN s = 1..Len(s) /\ Len(s) \in Nat /\ \A i \in 1..Len(s) : s[i] \in T
  BY LenProperties, ElementOfSeq
<1>2. ss \in Seq(Seq(T)) /\ Len(ss) = Len(s)
  <2>1. \A i \in 1..Len(s) : <<s[i]>> \in Seq(T) /\ <<>> \in Seq(T)
    BY <1>1
  <2>2. \A i \in 1..Len(s) : ss[i] \in Seq(T)
    BY <1>0, <1>1, <2>1
  <2> QED
    BY <1>0, <1>1, <2>2
<1>3. \A i \in 1..Len(s) : ss[i] = IF i \in places THEN <<s[i]>> ELSE <<>>
  BY <1>0, <1>1
<1>4. /\ FlattenSeq(ss) \in Seq(T)
      /\ \E from : Selects(from, FlattenSeq(ss), s, places)
  BY <1>2, <1>3, SingletonsSelect
<1> QED
  BY <1>0, <1>4 DEF Picked

-----------------------------------------------------------------------------
(* All that may become of the findings of s.                               *)
MergedOf(s) == {Merged(s, i) : i \in DOMAIN s}

(* of tells for each place of the list M which of the findings of s in G   *)
(* is there, each of them once.                                            *)
Shows(of, M, s, G) ==
    /\ of \in [1..Len(M) -> G]
    /\ \A p \in 1..Len(M) : M[p] = Merged(s, of[p])
    /\ \A p, q \in 1..Len(M) : of[p] = of[q] => p = q
    /\ \A j \in G : \E p \in 1..Len(M) : of[p] = j

(* A group of one is left alone.                                           *)
LEMMA MergeAlone ==
    ASSUME NEW s, IsReported(s), NEW i \in DOMAIN s, Cardinality(Peers(s, i)) = 1
    PROVE  LET M == Merge(s, Peers(s, i))
           IN  M \in Seq(MergedOf(s)) /\ \E of : Shows(of, M, s, Peers(s, i))
<1> DEFINE G == Peers(s, i)
<1>1. i \in G /\ G \subseteq 1..Len(s) /\ Len(s) \in Nat /\ IsFinding(s[i])
  BY ReportedFacts
<1>2. G = {i}
  <2>1. IsFiniteSet(1..Len(s))
    BY <1>1, CountFirst
  <2>2. IsFiniteSet(G)
    BY <1>1, <2>1, FS_Subset
  <2>3. PICK x : G = {x}
    BY <2>2, FS_Singleton
  <2> QED
    BY <1>1, <2>3
<1>3. Survivor(s, i) = i
  BY <1>2, SurvivorIsBest DEF Survivor
<1>4. Merged(s, i) = s[i]
  <2>1. ~\E j \in Peers(s, i) : s[j].kind # s[i].kind
    BY <1>2
  <2>2. Merged(s, i) = [s[i] EXCEPT !.confidence = s[i].confidence]
    BY <1>3, <2>1 DEF Merged
  <2> QED
    BY <1>1, <2>2 DEF IsFinding
<1>5. PICK M : M = Merge(s, G)
  OBVIOUS
<1>6. M = <<Merged(s, i)>>
  BY <1>3, <1>4, <1>5 DEF Merge, Survivor
<1>7. M \in Seq(MergedOf(s)) /\ Len(M) = 1
  BY <1>6 DEF MergedOf
<1>8. Shows([p \in 1..1 |-> i], M, s, G)
  BY <1>2, <1>6, <1>7 DEF Shows
<1> QED
  BY <1>5, <1>7, <1>8

(* In a larger group the survivor comes first, then the others.            *)
LEMMA MergeSeveral ==
    ASSUME NEW s, IsReported(s), NEW i \in DOMAIN s, Cardinality(Peers(s, i)) # 1
    PROVE  LET M == Merge(s, Peers(s, i))
           IN  M \in Seq(MergedOf(s)) /\ \E of : Shows(of, M, s, Peers(s, i))
<1> DEFINE G == Peers(s, i)
           k == Survivor(s, i)
           losers == G \ {k}
           dups == [j \in DOMAIN s |-> MarkDuplicate(s[j])]
           D == {MarkDuplicate(s[j]) : j \in DOMAIN s}
<1>1. G \subseteq 1..Len(s) /\ Len(s) \in Nat /\ DOMAIN s = 1..Len(s)
  BY ReportedFacts
<1>2. k \in G /\ k \in DOMAIN s
  BY <1>1, SurvivorIsBest DEF Survivor
<1>3. \A j \in G : Peers(s, j) = G /\ Survivor(s, j) = k
  BY PeersShare DEF Survivor
<1>4. dups \in Seq(D) /\ Len(dups) = Len(s) /\ \A j \in 1..Len(s) : dups[j] = MarkDuplicate(s[j])
  <2>1. dups \in [1..Len(s) -> D]
    BY <1>1
  <2> HIDE DEF D
  <2> QED
    BY <1>1, <2>1, FunctionList
<1>5. \A j \in losers : Merged(s, j) = dups[j] /\ j \in 1..Len(s)
  BY <1>1, <1>3, <1>4 DEF Merged
<1>6. PICK R : R = Picked(dups, losers)
  OBVIOUS
<1> HIDE DEF dups, D, k
<1>7. R \in Seq(D)
  BY <1>4, <1>6, PickedSelects
<1>8. PICK from : Selects(from, R, dups, losers)
  BY <1>4, <1>6, PickedSelects
<1>9. /\ Len(R) \in Nat
      /\ \A p \in 1..Len(R) : from[p] \in losers /\ R[p] = dups[from[p]]
      /\ \A p, q \in 1..Len(R) : p < q => from[p] < from[q]
      /\ \A j \in losers : \E p \in 1..Len(R) : from[p] = j
  BY <1>1, <1>4, <1>7, <1>8, LenProperties DEF Selects
<1>10. R \in Seq(MergedOf(s))
  <2>1. \A p \in 1..Len(R) : R[p] \in MergedOf(s)
    BY <1>1, <1>5, <1>9 DEF MergedOf
  <2> QED
    BY <1>7, <2>1, ListOver
<1>11. Enrich(s[k], {s[j] : j \in losers}) = Merged(s, k)
  BY <1>2, <1>3, EnrichedSurvivor
<1>12. PICK e : e = Merged(s, k)
  OBVIOUS
<1>13. PICK M : M = Merge(s, G)
  OBVIOUS
<1>14. M = <<e>> \o R
  BY <1>6, <1>11, <1>12, <1>13 DEF Merge, k, Survivor, dups
<1>15. e \in MergedOf(s)
  BY <1>2, <1>12 DEF MergedOf
<1>16. /\ M \in Seq(MergedOf(s)) /\ Len(M) = Len(R) + 1
       /\ M[1] = e /\ \A p \in 1..Len(R) : M[p + 1] = R[p]
  BY <1>9, <1>10, <1>14, <1>15
<1> DEFINE of == [p \in 1..(Len(R) + 1) |-> IF p = 1 THEN k ELSE from[p - 1]]
<1>17. of[1] = k /\ \A p \in 2..(Len(R) + 1) : of[p] = from[p - 1] /\ p - 1 \in 1..Len(R) /\ (p - 1) + 1 = p
  BY <1>9
<1>18. DOMAIN of = 1..Len(M) /\ of = [p \in 1..Len(M) |-> of[p]]
  BY <1>16
<1> HIDE DEF of, losers
<1>19. \A p \in 1..Len(M) : of[p] \in G /\ M[p] = Merged(s, of[p])
  <2> SUFFICES ASSUME NEW p \in 1..Len(M) PROVE of[p] \in G /\ M[p] = Merged(s, of[p])
    OBVIOUS
  <2>1. CASE p = 1
    BY <2>1, <1>2, <1>12, <1>16, <1>17
  <2>2. CASE p \in 2..(Len(R) + 1)
    <3>1. of[p] = from[p - 1] /\ M[p] = R[p - 1] /\ from[p - 1] \in losers /\ R[p - 1] = dups[from[p - 1]]
      BY <2>2, <1>9, <1>16, <1>17
    <3> QED
      BY <1>5, <3>1 DEF losers
  <2> QED
    BY <2>1, <2>2, <1>9, <1>16
<1>20. \A p, q \in 1..Len(M) : p < q => of[p] # of[q]
  <2> SUFFICES ASSUME NEW p \in 1..Len(M), NEW q \in 1..Len(M), p < q PROVE of[p] # of[q]
    OBVIOUS
  <2>1. q \in 2..(Len(R) + 1) /\ of[q] = from[q - 1] /\ q - 1 \in 1..Len(R)
    BY <1>9, <1>16, <1>17
  <2>2. CASE p = 1
    BY <2>1, <2>2, <1>9, <1>17 DEF losers
  <2>3. CASE p \in 2..(Len(R) + 1)
    <3>1. of[p] = from[p - 1] /\ p - 1 \in 1..Len(R) /\ p - 1 < q - 1
      BY <2>1, <2>3, <1>17
    <3>2. from[p - 1] < from[q - 1]
      BY <2>1, <3>1, <1>9
    <3>3. from[p - 1] \in 1..Len(s) /\ from[q - 1] \in 1..Len(s)
      BY <2>1, <3>1, <1>9, <1>5
    <3> QED
      BY <2>1, <3>1, <3>2, <3>3
  <2> QED
    BY <2>2, <2>3, <1>9, <1>16
<1>21. ASSUME NEW j \in G PROVE \E p \in 1..Len(M) : of[p] = j
  <2>1. CASE j = k
    BY <2>1, <1>9, <1>16, <1>17
  <2>2. CASE j # k
    <3>1. PICK p \in 1..Len(R) : from[p] = j
      BY <2>2, <1>9 DEF losers
    <3>2. p + 1 \in 2..(Len(R) + 1) /\ p + 1 \in 1..Len(M) /\ (p + 1) - 1 = p
      BY <1>9, <1>16
    <3> QED
      BY <3>1, <3>2, <1>17
  <2> QED
    BY <2>1, <2>2
<1>22. Shows(of, M, s, G)
  <2>1. of \in [1..Len(M) -> G]
    BY <1>18, <1>19
  <2>2. \A p, q \in 1..Len(M) : of[p] = of[q] => p = q
    <3>1. \A p, q \in 1..Len(M) : p < q \/ q < p \/ p = q
      BY <1>9, <1>16
    <3> QED
      BY <3>1, <1>20
  <2> QED
    BY <2>1, <2>2, <1>19, <1>21 DEF Shows
<1> QED
  BY <1>13, <1>16, <1>22

(* Of any group.                                                           *)
LEMMA MergeShows ==
    ASSUME NEW s, IsReported(s), NEW i \in DOMAIN s
    PROVE  LET M == Merge(s, Peers(s, i))
           IN  M \in Seq(MergedOf(s)) /\ \E of : Shows(of, M, s, Peers(s, i))
BY MergeAlone, MergeSeveral

(* The first of each group, where the group stands in the result.          *)
Leads(s, i) == \A j \in Peers(s, i) : i <= j

(* Every group has a first.                                                *)
LEMMA GroupIsLed ==
    ASSUME NEW s, IsReported(s), NEW i \in DOMAIN s
    PROVE  \E l \in Peers(s, i) : Leads(s, l)
<1> DEFINE S == {-j : j \in Peers(s, i)}
<1>1. i \in Peers(s, i) /\ Peers(s, i) \subseteq 1..Len(s) /\ Len(s) \in Nat
  BY ReportedFacts
<1>2. S # {} /\ S \subseteq Int /\ \A x \in S : x <= 0
  BY <1>1
<1>3. PICK m \in S : \A x \in S : x <= m
  <2> HIDE DEF S
  <2>1. 0 \in Int
    OBVIOUS
  <2> QED
    BY <1>2, <2>1, Greatest
<1>4. PICK l \in Peers(s, i) : m = -l
  OBVIOUS
<1>5. ASSUME NEW j \in Peers(s, i) PROVE l <= j
  <2>1. -j \in S /\ -j <= -l
    BY <1>3, <1>4
  <2>2. j \in Int /\ l \in Int
    BY <1>1
  <2> QED
    BY ONLY <2>1, <2>2
<1>6. Peers(s, l) = Peers(s, i)
  BY PeersShare
<1> QED
  BY <1>5, <1>6 DEF Leads

(* The result shows every finding once, and nothing else.                  *)
LEMMA DeduplicateShows ==
    ASSUME NEW s, IsReported(s)
    PROVE  /\ Deduplicate(s) \in Seq(MergedOf(s))
           /\ \E of : Shows(of, Deduplicate(s), s, 1..Len(s))
<1> DEFINE T == MergedOf(s)
           block(i) == IF Leads(s, i) THEN Merge(s, Peers(s, i)) ELSE <<>>
<1>1. /\ Len(s) \in Nat /\ DOMAIN s = 1..Len(s)
      /\ \A i \in 1..Len(s) : i \in Peers(s, i) /\ Peers(s, i) \subseteq 1..Len(s)
  BY ReportedFacts
<1>2. \A i \in 1..Len(s) : block(i) \in Seq(T)
  BY <1>1, MergeShows
<1>3. PICK ss : ss = [i \in DOMAIN s |-> block(i)]
  OBVIOUS
<1>4. ss \in Seq(Seq(T)) /\ Len(ss) = Len(s)
  <2>1. ss \in [1..Len(s) -> Seq(T)]
    BY <1>1, <1>2, <1>3
  <2> QED
    BY <1>1, <2>1, FunctionList
<1>5. PICK D : D = Deduplicate(s)
  OBVIOUS
<1>6. D = FlattenSeq(ss)
  BY <1>3, <1>5 DEF Deduplicate, Leads
<1>7. D \in Seq(T) /\ Len(D) \in Nat
  BY <1>4, <1>6, FlattenType, LenProperties
<1>8. PICK at : Traces(at, D, ss)
  BY <1>4, <1>6, FlattenTraces
<1>9. \A i \in 1..Len(s) :
          /\ Leads(s, i) => ss[i] = Merge(s, Peers(s, i))
          /\ ~Leads(s, i) => ss[i] = <<>>
  BY <1>1, <1>3
<1>10. \A c : c \in Places(ss) <=>
          \E i \in 1..Len(s) : Leads(s, i) /\ \E j \in 1..Len(ss[i]) : c = <<i, j>>
  <2>1. \A c : c \in Places(ss) <=> \E i \in 1..Len(s) : \E j \in 1..Len(ss[i]) : c = <<i, j>>
    BY <1>4 DEF Places
  <2>2. \A i \in 1..Len(s) : \A j \in 1..Len(ss[i]) : Leads(s, i)
    BY <1>9
  <2> QED
    BY <2>1, <2>2
<1> DEFINE whose == [i \in 1..Len(s) |-> CHOOSE of : Shows(of, ss[i], s, Peers(s, i))]
           of == [p \in 1..Len(D) |-> whose[at[p][1]][at[p][2]]]
<1>11. \A i \in 1..Len(s) : Leads(s, i) => Shows(whose[i], ss[i], s, Peers(s, i))
  <2> SUFFICES ASSUME NEW i \in 1..Len(s), Leads(s, i)
               PROVE  Shows(whose[i], ss[i], s, Peers(s, i))
    OBVIOUS
  <2>1. \E f : Shows(f, ss[i], s, Peers(s, i))
    BY <1>1, <1>9, MergeShows
  <2> QED
    BY <2>1
<1>12. \A p \in 1..Len(D) : of[p] = whose[at[p][1]][at[p][2]]
  OBVIOUS
<1>13. of \in [1..Len(D) -> 1..Len(s)] => DOMAIN of = 1..Len(D)
  OBVIOUS
<1>14. of = [p \in 1..Len(D) |-> of[p]]
  OBVIOUS
<1> HIDE DEF whose, of, block
<1>15. ASSUME NEW p \in 1..Len(D)
       PROVE  /\ at[p][1] \in 1..Len(s) /\ Leads(s, at[p][1]) /\ at[p][2] \in 1..Len(ss[at[p][1]])
              /\ of[p] \in Peers(s, at[p][1]) /\ D[p] = Merged(s, of[p])
              /\ at[p] = <<at[p][1], at[p][2]>>
  <2>1. at[p] \in Places(ss) /\ D[p] = ss[at[p][1]][at[p][2]]
    BY <1>8 DEF Traces
  <2>2. PICK i \in 1..Len(s) : Leads(s, i) /\ \E j \in 1..Len(ss[i]) : at[p] = <<i, j>>
    BY <1>10, <2>1
  <2>3. PICK j \in 1..Len(ss[i]) : at[p] = <<i, j>>
    BY <2>2
  <2>4. at[p][1] = i /\ at[p][2] = j
    BY <2>3
  <2>5. whose[i][j] \in Peers(s, i) /\ ss[i][j] = Merged(s, whose[i][j])
    BY <1>11, <2>2 DEF Shows
  <2>6. of[p] = whose[i][j] /\ D[p] = ss[i][j]
    BY <1>12, <2>1, <2>4
  <2> QED
    BY <2>2, <2>3, <2>4, <2>5, <2>6
<1>16. \A p, q \in 1..Len(D) : of[p] = of[q] => p = q
  <2> SUFFICES ASSUME NEW p \in 1..Len(D), NEW q \in 1..Len(D), of[p] = of[q], p # q
               PROVE  FALSE
    OBVIOUS
  <2> DEFINE i == at[p][1]
             j == at[q][1]
  <2>1. i \in 1..Len(s) /\ j \in 1..Len(s) /\ of[p] \in Peers(s, i) /\ of[p] \in Peers(s, j)
    BY <1>15
  <2>2. i \in Peers(s, j) /\ j \in Peers(s, i)
    BY <1>1, <2>1 DEF Peers
  <2>3. Leads(s, i) /\ Leads(s, j)
    BY <1>15
  <2>4. i = j
    BY <2>1, <2>2, <2>3 DEF Leads
  <2>5. at[p][2] = at[q][2]
    <3>1. whose[i][at[p][2]] = whose[i][at[q][2]]
      BY <1>12, <2>4
    <3>2. at[p][2] \in 1..Len(ss[i]) /\ at[q][2] \in 1..Len(ss[i])
      BY <1>15, <2>4
    <3>3. Shows(whose[i], ss[i], s, Peers(s, i))
      BY <1>11, <2>1, <2>3
    <3>4. \A x, y \in 1..Len(ss[i]) : whose[i][x] = whose[i][y] => x = y
      BY <3>3 DEF Shows
    <3> HIDE DEF i
    <3> QED
      BY <3>1, <3>2, <3>4
  <2>6. p < q \/ q < p
    BY <1>7
  <2>7. at[p][1] < at[q][1] \/ at[p][2] < at[q][2] \/ at[q][1] < at[p][1] \/ at[q][2] < at[p][2]
    BY <2>6, <1>8 DEF Traces
  <2>8. at[p][1] \in Int /\ at[p][2] \in Int
    BY <1>15
  <2> QED
    BY <2>4, <2>5, <2>7, <2>8
<1>17. ASSUME NEW j \in 1..Len(s) PROVE \E p \in 1..Len(D) : of[p] = j
  <2>1. PICK i \in Peers(s, j) : Leads(s, i)
    BY <1>1, GroupIsLed
  <2>2. i \in 1..Len(s) /\ j \in Peers(s, i)
    BY <1>1 DEF Peers
  <2>3. PICK m \in 1..Len(ss[i]) : whose[i][m] = j
    BY <1>11, <2>1, <2>2 DEF Shows
  <2>4. <<i, m>> \in Places(ss)
    BY <1>10, <2>1, <2>2
  <2>5. PICK p \in 1..Len(D) : at[p] = <<i, m>>
    BY <1>8, <2>4 DEF Traces
  <2>6. of[p] = j
    BY <1>12, <2>3, <2>5
  <2> QED
    BY <2>6
<1>18. of \in [1..Len(D) -> 1..Len(s)]
  <2>1. \A p \in 1..Len(D) : of[p] \in 1..Len(s)
    BY <1>1, <1>15
  <2> QED
    BY <1>14, <2>1
<1>19. Shows(of, D, s, 1..Len(s))
  BY <1>15, <1>16, <1>17, <1>18 DEF Shows
<1> QED
  BY <1>5, <1>7, <1>19

(* Nothing is lost or added: the result is as long as what was reported.   *)
LEMMA ShownOnce ==
    ASSUME NEW s, NEW n \in Nat, NEW T, NEW M \in Seq(T), NEW of, Shows(of, M, s, 1..n)
    PROVE  Len(M) = n
<1>1. Len(M) \in Nat
  BY LenProperties
<1>2. of \in Bijection(1..Len(M), 1..n)
  BY DEF Shows, Bijection, Injection, IsInjective, Surjection
<1>3. \A m \in Nat : IsFiniteSet(1..m) /\ Cardinality(1..m) = m
  BY CountFirst
<1>4. ExistsBijection(1..Len(M), 1..n)
  BY <1>2 DEF ExistsBijection
<1>5. Cardinality(1..n) = Cardinality(1..Len(M))
  BY <1>1, <1>3, <1>4, FS_Bijection
<1> QED
  BY <1>1, <1>3, <1>5

(* A merged finding is the reported one but for confidence and state.      *)
LEMMA MergedFacts ==
    ASSUME NEW s, IsReported(s), NEW i \in DOMAIN s
    PROVE  LET m == Merged(s, i)
           IN  /\ IsFinding(m)
               /\ m.id = s[i].id /\ m.fingerprint = s[i].fingerprint /\ m.severity = s[i].severity
               /\ m.path = s[i].path /\ m.where = s[i].where /\ m.kind = s[i].kind
               /\ m.state = IF i = Survivor(s, i) THEN "candidate" ELSE "duplicate"
<1>1. IsFinding(s[i]) /\ s[i].state = "candidate"
  BY DEF IsReported
<1>2. RaiseConfidence(s[i].confidence) \in Confidences
  <2>1. s[i].confidence \in 0..2
    BY <1>1 DEF IsFinding, Confidences
  <2> QED
    BY <2>1 DEF RaiseConfidence, Confidences, HighConfidence
<1>3. CASE i = Survivor(s, i)
  <2>1. PICK c \in Confidences : Merged(s, i) = [s[i] EXCEPT !.confidence = c]
    <3>1. s[i].confidence \in Confidences
      BY <1>1 DEF IsFinding
    <3> QED
      BY <1>2, <1>3, <3>1 DEF Merged
  <2> QED
    BY <1>1, <1>3, <2>1 DEF IsFinding
<1>4. CASE i # Survivor(s, i)
  <2>1. Merged(s, i) = [s[i] EXCEPT !.state = "duplicate"]
    BY <1>4 DEF Merged, MarkDuplicate
  <2> QED
    BY <1>1, <1>4, <2>1 DEF IsFinding, States
<1> QED
  BY <1>3, <1>4

-----------------------------------------------------------------------------
(* The inductive invariant.                                                *)

(* The contents, and what is yet to be fetched, are changed files.         *)
Fetching ==
    /\ changed \in PullRequests
    /\ adapter \in {"none", "python", "generic"}
    /\ contents \in Seq(ToSet(changed)) /\ toFetch \in Seq(ToSet(changed))

(* An outcome without findings tells why, and no other has a failure for   *)
(* its status.                                                             *)
IsOutcome(o) ==
    /\ o \in [source: {o.source}, status: {"ok", "zero_findings", "error", "timeout"},
              findings: Seq(ToSet(o.findings)), diagnostics: SUBSET {"error", "timeout"}]
    /\ IF o.status \in {"error", "timeout"} THEN o.status \in o.diagnostics
       ELSE o.findings = <<>> => o.diagnostics = {}

Gathered == stage \in {"verify_findings", "compose_review", "composed"}

(* One outcome of each analyzer, and of all of them once they are gathered.*)
Answered ==
    /\ stage \in {"detect_language", "gather_file_contents", "analyze", "verify_findings",
                 "compose_review", "composed", "raised", "failed"}
    /\ selected \subseteq Available
    /\ outcomes \in Seq(ToSet(outcomes))
    /\ \A k \in DOMAIN outcomes : IsOutcome(outcomes[k])
    /\ \A k, l \in DOMAIN outcomes : outcomes[k].source = outcomes[l].source => k = l
    /\ Reported \subseteq selected
    /\ Gathered => Reported = selected

(* of tells which of the reported findings each of the findings is, merged *)
(* and, once verified, judged if a candidate.                              *)
Deals(of) ==
    /\ \A p, q \in 1..Len(findings) : of[p] = of[q] => p = q
    /\ \A i \in 1..Len(Raw) : \E p \in 1..Len(findings) : of[p] = i
    /\ \A p \in 1..Len(findings) :
          LET m == Merged(Raw, of[p])
          IN  /\ findings[p] = [m EXCEPT !.state = findings[p].state]
              /\ IF m.state = "duplicate" THEN findings[p].state = "duplicate"
                 ELSE IF stage = "verify_findings" THEN findings[p].state = "candidate"
                 ELSE findings[p].state \in {"confirmed", "rejected"}

Verified ==
    /\ findings \in Seq(ToSet(findings))
    /\ ~Gathered => findings = <<>>
    /\ Gathered => \E of \in [1..Len(findings) -> 1..Len(Raw)] : Deals(of)

(* The review shows the confirmed findings, inline or in the summary.      *)
Composed ==
    IF stage # "composed" THEN review = NoReview
    ELSE LET kept == {p \in 1..Len(findings) : findings[p].state = "confirmed"}
         IN  /\ \E inline \in SUBSET kept :
                  /\ review.inline = {findings[p].id : p \in inline}
                  /\ review.summary = {findings[p].id : p \in kept \ inline}
             /\ review.notes = UNION {Diagnostics(outcomes[k]) :
                                        k \in {k \in DOMAIN outcomes : IsDegraded(outcomes[k])}}
             /\ review.event = IF \E p \in kept : findings[p].severity \in {HIGH, CRITICAL}
                               THEN "REQUEST_CHANGES" ELSE "COMMENT"

IInv == Fetching /\ Answered /\ IsReported(Raw) /\ Verified /\ Composed

-----------------------------------------------------------------------------
(* What the invariant says of the findings, place by place.                *)
LEMMA DealtFacts ==
    ASSUME IInv, NEW of \in [1..Len(findings) -> 1..Len(Raw)], Deals(of),
           NEW p \in 1..Len(findings)
    PROVE  LET i == of[p]
               f == findings[p]
           IN  /\ i \in DOMAIN Raw /\ IsFinding(f)
               /\ f = [Merged(Raw, i) EXCEPT !.state = f.state]
               /\ f.id = Raw[i].id /\ f.fingerprint = Raw[i].fingerprint /\ f.severity = Raw[i].severity
               /\ f.path = Raw[i].path /\ f.where = Raw[i].where /\ f.kind = Raw[i].kind
               /\ IF i # Survivor(Raw, i) THEN f.state = "duplicate"
                  ELSE IF stage = "verify_findings" THEN f.state = "candidate"
                  ELSE f.state \in {"confirmed", "rejected"}
<1> DEFINE i == of[p]
           f == findings[p]
           m == Merged(Raw, i)
<1>1. IsReported(Raw)
  BY DEF IInv
<1>2. i \in DOMAIN Raw
  BY <1>1, ReportedFacts
<1>3. /\ IsFinding(m)
      /\ m.id = Raw[i].id /\ m.fingerprint = Raw[i].fingerprint /\ m.severity = Raw[i].severity
      /\ m.path = Raw[i].path /\ m.where = Raw[i].where /\ m.kind = Raw[i].kind
      /\ m.state = IF i = Survivor(Raw, i) THEN "candidate" ELSE "duplicate"
  BY <1>1, <1>2, MergedFacts
<1>4. /\ f = [m EXCEPT !.state = f.state]
      /\ IF m.state = "duplicate" THEN f.state = "duplicate"
         ELSE IF stage = "verify_findings" THEN f.state = "candidate"
         ELSE f.state \in {"confirmed", "rejected"}
  BY DEF Deals
<1> HIDE DEF i, f, m
<1>5. f.state \in States
  BY <1>4 DEF States
<1>6. /\ IsFinding(f) /\ f.id = m.id /\ f.fingerprint = m.fingerprint /\ f.severity = m.severity
      /\ f.path = m.path /\ f.where = m.where /\ f.kind = m.kind
  BY <1>3, <1>4, <1>5 DEF IsFinding
<1>7. IF i # Survivor(Raw, i) THEN f.state = "duplicate"
      ELSE IF stage = "verify_findings" THEN f.state = "candidate"
      ELSE f.state \in {"confirmed", "rejected"}
  BY <1>3, <1>4
<1> QED
  BY <1>2, <1>3, <1>4, <1>6, <1>7 DEF i, f, m

(* The invariant gives the types.                                          *)
LEMMA TypesHold == IInv => TypeOK
<1> SUFFICES ASSUME IInv PROVE TypeOK
  OBVIOUS
<1>1. \A f : IsFinding(f) => FindingType(f)
  BY DEF IsFinding, FindingType, States
<1>2. \A f \in ToSet(Raw) : FindingType(f)
  <2>1. \A i \in DOMAIN Raw : IsFinding(Raw[i])
    BY DEF IInv, IsReported
  <2> QED
    BY <1>1, <2>1 DEF ToSet
<1>3. \A f \in ToSet(findings) : FindingType(f)
  <2>1. DOMAIN findings = 1..Len(findings) /\ (~Gathered => findings = <<>>)
    BY LenProperties DEF IInv, Verified
  <2>2. CASE ~Gathered
    <3>1. DOMAIN findings = {}
      BY <2>1, <2>2
    <3> QED
      BY <3>1 DEF ToSet
  <2>3. CASE Gathered
    <3>1. PICK of \in [1..Len(findings) -> 1..Len(Raw)] : Deals(of)
      BY <2>3 DEF IInv, Verified
    <3>2. \A p \in 1..Len(findings) : IsFinding(findings[p])
      BY <3>1, DealtFacts
    <3> QED
      BY <1>1, <2>1, <3>2 DEF ToSet
  <2> QED
    BY <2>2, <2>3
<1>4. ToSet(contents) \union ToSet(toFetch) \subseteq ToSet(changed)
  <2>1. contents \in Seq(ToSet(changed)) /\ toFetch \in Seq(ToSet(changed))
    BY DEF IInv, Fetching
  <2>2. ASSUME NEW s \in Seq(ToSet(changed)) PROVE ToSet(s) \subseteq ToSet(changed)
    <3>1. DOMAIN s = 1..Len(s) /\ \A i \in 1..Len(s) : s[i] \in ToSet(changed)
      BY LenProperties, ElementOfSeq
    <3>2. ToSet(s) = {s[i] : i \in DOMAIN s}
      BY DEF ToSet
    <3> QED
      BY <3>1, <3>2
  <2> QED
    BY <2>1, <2>2
<1>5. review.event \in {"none", "COMMENT", "REQUEST_CHANGES"}
  BY DEF IInv, Composed, NoReview
<1> QED
  BY <1>2, <1>3, <1>4, <1>5 DEF TypeOK, IInv, Fetching, Answered

(* The invariant gives the place of every analyzer's failure in the notes. *)
LEMMA FailuresNoted == IInv => DegradedIsNoted
<1> SUFFICES ASSUME IInv, stage = "composed"
             PROVE  /\ Reported = selected /\ Len(outcomes) = Cardinality(selected)
                    /\ \A k \in DOMAIN outcomes :
                          outcomes[k].status \notin {"ok", "zero_findings"} =>
                              \E d \in {"error", "timeout"} : <<outcomes[k].source, d>> \in review.notes
                    /\ \A k \in DOMAIN outcomes :
                          outcomes[k].findings = <<>> => Diagnostics(outcomes[k]) \subseteq review.notes
  BY DEF DegradedIsNoted
<1>1. /\ \A k \in DOMAIN outcomes : IsOutcome(outcomes[k])
      /\ \A k, l \in DOMAIN outcomes : outcomes[k].source = outcomes[l].source => k = l
      /\ outcomes \in Seq(ToSet(outcomes))
      /\ Reported = selected
  BY DEF IInv, Answered, Gathered
<1>2. review.notes = UNION {Diagnostics(outcomes[k]) :
                              k \in {k \in DOMAIN outcomes : IsDegraded(outcomes[k])}}
  BY DEF IInv, Composed
<1>3. ASSUME NEW k \in DOMAIN outcomes, outcomes[k].status \in {"error", "timeout"}
      PROVE  Diagnostics(outcomes[k]) \subseteq review.notes
  <2>1. IsDegraded(outcomes[k])
    BY <1>3 DEF IsDegraded
  <2> QED
    BY <1>2, <2>1
<1>4. ASSUME NEW k \in DOMAIN outcomes, outcomes[k].status \notin {"ok", "zero_findings"}
      PROVE  \E d \in {"error", "timeout"} : <<outcomes[k].source, d>> \in review.notes
  <2>1. outcomes[k].status \in {"error", "timeout"} /\ outcomes[k].status \in outcomes[k].diagnostics
    BY <1>1, <1>4 DEF IsOutcome
  <2>2. <<outcomes[k].source, outcomes[k].status>> \in Diagnostics(outcomes[k])
    BY <2>1 DEF Diagnostics
  <2> QED
    BY <1>3, <2>1, <2>2
<1>5. ASSUME NEW k \in DOMAIN outcomes, outcomes[k].findings = <<>>
      PROVE  Diagnostics(outcomes[k]) \subseteq review.notes
  <2>1. CASE outcomes[k].status \in {"error", "timeout"}
    BY <2>1, <1>3
  <2>2. CASE outcomes[k].status \notin {"error", "timeout"}
    <3>1. outcomes[k].diagnostics = {}
      BY <1>1, <1>5, <2>2 DEF IsOutcome
    <3> QED
      BY <3>1 DEF Diagnostics
  <2> QED
    BY <2>1, <2>2
<1>6. Len(outcomes) = Cardinality(selected)
  <2>1. Len(outcomes) \in Nat /\ DOMAIN outcomes = 1..Len(outcomes)
    BY <1>1, LenProperties
  <2>2. [k \in 1..Len(outcomes) |-> outcomes[k].source] \in Bijection(1..Len(outcomes), Reported)
    BY <1>1, <2>1 DEF Reported, Bijection, Injection, IsInjective, Surjection
  <2>3. ExistsBijection(1..Len(outcomes), Reported)
    BY <2>2 DEF ExistsBijection
  <2>4. IsFiniteSet(1..Len(outcomes)) /\ Cardinality(1..Len(outcomes)) = Len(outcomes)
    BY <2>1, CountFirst
  <2> QED
    BY <1>1, <2>3, <2>4, FS_Bijection
<1> QED
  BY <1>1, <1>4, <1>5, <1>6

(* Merging is the abstract deduplication of each finding on its own.       *)
LEMMA MergedIsReference ==
    ASSUME IsReported(Raw), NEW i \in DOMAIN Raw
    PROVE  Merged(Raw, i) = Reference(Raw[i])
<1> DEFINE f == Raw[i]
           n == Len(Raw)
<1>1. /\ DOMAIN Raw = 1..n /\ i \in Peers(Raw, i)
      /\ Peers(Raw, i) = {j \in 1..n : Raw[j].fingerprint = f.fingerprint}
      /\ IsFinding(f)
  BY ReportedFacts
<1>2. Rivals(f) = {Raw[j] : j \in Peers(Raw, i)}
  BY <1>1 DEF Rivals, ToSet
<1>3. \A g : Score(g) = Weight(g, n)
  BY DEF Score, Weight, Grade
<1>4. (i # Survivor(Raw, i)) <=> \E g \in Rivals(f) : Score(g) > Score(f)
  <2>1. (i # Survivor(Raw, i)) <=> \E j \in Peers(Raw, i) : Weight(Raw[j], n) > Weight(f, n)
    BY SurvivesUnlessOutweighed
  <2> HIDE DEF f, n
  <2> QED
    BY <1>2, <1>3, <2>1
<1>5. (\E j \in Peers(Raw, i) : Raw[j].kind # f.kind) <=> \E g \in Rivals(f) : g.kind # f.kind
  BY <1>2
<1>6. RaiseConfidence(f.confidence) = IF f.confidence < HighConfidence THEN f.confidence + 1 ELSE f.confidence
  <2>1. f.confidence \in 0..2
    BY <1>1 DEF IsFinding, Confidences
  <2> QED
    BY <2>1 DEF RaiseConfidence, HighConfidence
<1>7. CASE i # Survivor(Raw, i)
  <2>1. Merged(Raw, i) = [f EXCEPT !.state = "duplicate"]
    BY <1>7 DEF Merged, MarkDuplicate
  <2>2. Reference(f) = [f EXCEPT !.state = "duplicate"]
    BY <1>4, <1>7 DEF Reference
  <2> QED
    BY <2>1, <2>2
<1>8. CASE i = Survivor(Raw, i)
  <2> DEFINE c == IF (\E g \in Rivals(f) : g.kind # f.kind) /\ f.confidence < HighConfidence
                  THEN f.confidence + 1 ELSE f.confidence
  <2>1. Reference(f) = [f EXCEPT !.confidence = c]
    BY <1>4, <1>8 DEF Reference
  <2>2. Merged(Raw, i) = [f EXCEPT !.confidence =
              IF \E j \in Peers(Raw, i) : Raw[j].kind # f.kind THEN RaiseConfidence(f.confidence) ELSE f.confidence]
    BY <1>8 DEF Merged
  <2>3. c = IF \E j \in Peers(Raw, i) : Raw[j].kind # f.kind THEN RaiseConfidence(f.confidence) ELSE f.confidence
    BY <1>5, <1>6
  <2> HIDE DEF c, f
  <2> QED
    BY <2>1, <2>2, <2>3 DEF f
<1> QED
  BY <1>7, <1>8

(* What deduplicate returns is determined by the set it is given.          *)
LEMMA OrderIgnored == IInv => DedupIgnoresOrder
<1> SUFFICES ASSUME IInv, stage = "verify_findings"
             PROVE  Len(findings) = Len(Raw) /\ ToSet(findings) = {Reference(f) : f \in ToSet(Raw)}
  BY DEF DedupIgnoresOrder
<1>1. IsReported(Raw) /\ DOMAIN Raw = 1..Len(Raw) /\ Len(Raw) \in Nat
  BY ReportedFacts DEF IInv
<1>2. findings \in Seq(ToSet(findings)) /\ DOMAIN findings = 1..Len(findings)
  BY LenProperties DEF IInv, Verified
<1>3. PICK of \in [1..Len(findings) -> 1..Len(Raw)] : Deals(of)
  BY DEF IInv, Verified, Gathered
<1>4. \A p \in 1..Len(findings) : findings[p] = Reference(Raw[of[p]]) /\ of[p] \in DOMAIN Raw
  <2> SUFFICES ASSUME NEW p \in 1..Len(findings)
               PROVE  findings[p] = Reference(Raw[of[p]]) /\ of[p] \in DOMAIN Raw
    OBVIOUS
  <2> DEFINE m == Merged(Raw, of[p])
  <2>1. of[p] \in DOMAIN Raw
    BY <1>1
  <2>2. /\ findings[p] = [m EXCEPT !.state = findings[p].state]
        /\ IF m.state = "duplicate" THEN findings[p].state = "duplicate" ELSE findings[p].state = "candidate"
    BY <1>3 DEF Deals
  <2>3. IsFinding(m) /\ m.state = IF of[p] = Survivor(Raw, of[p]) THEN "candidate" ELSE "duplicate"
    BY <1>1, <2>1, MergedFacts
  <2>4. m = Reference(Raw[of[p]])
    BY <1>1, <2>1, MergedIsReference
  <2> HIDE DEF m
  <2>5. findings[p].state = m.state
    BY <2>2, <2>3
  <2>6. findings[p] = m
    BY <2>2, <2>3, <2>5 DEF IsFinding
  <2> QED
    BY <2>1, <2>4, <2>6
<1>5. ToSet(findings) = {Reference(f) : f \in ToSet(Raw)}
  <2>1. ASSUME NEW f \in ToSet(findings) PROVE \E g \in ToSet(Raw) : f = Reference(g)
    <3>1. PICK p \in 1..Len(findings) : f = findings[p]
      BY <1>2 DEF ToSet
    <3> QED
      BY <1>4, <3>1 DEF ToSet
  <2>2. ASSUME NEW g \in ToSet(Raw) PROVE Reference(g) \in ToSet(findings)
    <3>1. PICK i \in 1..Len(Raw) : g = Raw[i]
      BY <1>1 DEF ToSet
    <3>2. PICK p \in 1..Len(findings) : of[p] = i
      BY <1>3 DEF Deals
    <3> QED
      BY <1>2, <1>4, <3>1, <3>2 DEF ToSet
  <2> QED
    BY <2>1, <2>2
<1>6. Len(findings) = Len(Raw)
  <2>1. of \in Bijection(1..Len(findings), 1..Len(Raw))
    BY <1>3 DEF Deals, Bijection, Injection, IsInjective, Surjection
  <2>2. ExistsBijection(1..Len(findings), 1..Len(Raw))
    BY <2>1 DEF ExistsBijection
  <2>3. Len(findings) \in Nat
    BY <1>2, LenProperties
  <2> QED
    BY <1>1, <2>2, <2>3, CountFirst, FS_Bijection
<1> QED
  BY <1>5, <1>6

(* Ids tell findings apart, and those published are the confirmed ones.    *)
LEMMA PublishedFacts ==
    ASSUME IInv, stage = "composed"
    PROVE  /\ DOMAIN findings = 1..Len(findings)
           /\ \A p, q \in 1..Len(findings) : findings[p].id = findings[q].id => p = q
           /\ review.inline \intersect review.summary = {}
           /\ \A p \in 1..Len(findings) :
                 findings[p].id \in Published <=> findings[p].state = "confirmed"
<1> DEFINE kept == {p \in 1..Len(findings) : findings[p].state = "confirmed"}
<1>1. IsReported(Raw) /\ DOMAIN findings = 1..Len(findings)
  BY LenProperties DEF IInv, Verified
<1>2. PICK of \in [1..Len(findings) -> 1..Len(Raw)] : Deals(of)
  BY DEF IInv, Verified, Gathered
<1>3. \A p, q \in 1..Len(findings) : findings[p].id = findings[q].id => p = q
  <2> SUFFICES ASSUME NEW p \in 1..Len(findings), NEW q \in 1..Len(findings),
                      findings[p].id = findings[q].id
               PROVE  p = q
    OBVIOUS
  <2>1. findings[p].id = Raw[of[p]].id /\ findings[q].id = Raw[of[q]].id
    BY <1>2, DealtFacts
  <2>2. of[p] \in 1..Len(Raw) /\ of[q] \in 1..Len(Raw) /\ Raw[of[p]].id = Raw[of[q]].id
    BY <2>1
  <2>3. \A i, j \in 1..Len(Raw) : Raw[i].id = Raw[j].id => i = j
    BY <1>1, ReportedFacts
  <2>4. of[p] = of[q]
    BY <2>2, <2>3
  <2> QED
    BY <1>2, <2>4 DEF Deals
<1>4. PICK inline \in SUBSET kept : /\ review.inline = {findings[p].id : p \in inline}
                                    /\ review.summary = {findings[p].id : p \in kept \ inline}
  BY DEF IInv, Composed
<1>5. review.inline \intersect review.summary = {}
  BY <1>3, <1>4
<1>6. Published = {findings[p].id : p \in kept}
  BY <1>4 DEF Published
<1>7. \A p \in 1..Len(findings) : findings[p].id \in Published <=> p \in kept
  BY <1>3, <1>6
<1> QED
  BY <1>1, <1>3, <1>5, <1>7

(* No finding goes missing, and no issue is published twice.               *)
LEMMA AllAccounted == IInv => EveryFindingAccounted
<1> SUFFICES ASSUME IInv, stage = "composed"
             PROVE  /\ {f.id : f \in ToSet(findings)} = {f.id : f \in ToSet(Raw)}
                    /\ review.inline \intersect review.summary = {}
                    /\ \A f \in ToSet(findings) :
                          \/ f.id \in Published /\ f.state = "confirmed"
                          \/ f.id \notin Published /\ f.state = "rejected"
                          \/ /\ f.id \notin Published /\ f.state = "duplicate"
                             /\ \E g \in ToSet(findings) :
                                   g.fingerprint = f.fingerprint /\ g.state \in {"confirmed", "rejected"}
                    /\ \A f, g \in PublishedFindings : f.fingerprint = g.fingerprint => f = g
  BY DEF EveryFindingAccounted
<1>1. IsReported(Raw) /\ DOMAIN Raw = 1..Len(Raw)
  BY ReportedFacts DEF IInv
<1>2. PICK of \in [1..Len(findings) -> 1..Len(Raw)] : Deals(of)
  BY DEF IInv, Verified, Gathered
<1>3. \A i \in 1..Len(Raw) : \E p \in 1..Len(findings) : of[p] = i
  BY <1>2 DEF Deals
<1>4. \A f : f \in ToSet(findings) <=> \E p \in 1..Len(findings) : f = findings[p]
  BY PublishedFacts DEF ToSet
<1>5. \A p \in 1..Len(findings) :
          /\ of[p] \in DOMAIN Raw
          /\ findings[p].id = Raw[of[p]].id /\ findings[p].fingerprint = Raw[of[p]].fingerprint
          /\ IF of[p] # Survivor(Raw, of[p]) THEN findings[p].state = "duplicate"
             ELSE findings[p].state \in {"confirmed", "rejected"}
  BY <1>2, DealtFacts
<1>6. {f.id : f \in ToSet(findings)} = {f.id : f \in ToSet(Raw)}
  <2>1. ASSUME NEW f \in ToSet(findings) PROVE \E g \in ToSet(Raw) : f.id = g.id
    BY <1>4, <1>5 DEF ToSet
  <2>2. ASSUME NEW g \in ToSet(Raw) PROVE \E f \in ToSet(findings) : f.id = g.id
    <3>1. PICK i \in 1..Len(Raw) : g = Raw[i]
      BY <1>1 DEF ToSet
    <3>2. PICK p \in 1..Len(findings) : of[p] = i
      BY <1>3
    <3> QED
      BY <1>4, <1>5, <3>1, <3>2
  <2> QED
    BY <2>1, <2>2
<1>7. ASSUME NEW p \in 1..Len(findings), findings[p].state = "duplicate"
      PROVE  \E g \in ToSet(findings) :
                g.fingerprint = findings[p].fingerprint /\ g.state \in {"confirmed", "rejected"}
  <2> DEFINE k == Survivor(Raw, of[p])
  <2>1. k \in Peers(Raw, of[p])
    BY <1>1, <1>5, SurvivorIsBest DEF Survivor
  <2>2. k \in 1..Len(Raw) /\ Raw[k].fingerprint = Raw[of[p]].fingerprint
    BY <1>1, <2>1 DEF Peers
  <2>3. Survivor(Raw, k) = k
    <3>1. Peers(Raw, k) = Peers(Raw, of[p])
      BY <1>1, <1>5, <2>1, PeersShare
    <3> QED
      BY <3>1 DEF Survivor
  <2>4. PICK q \in 1..Len(findings) : of[q] = k
    BY <1>3, <2>2
  <2> HIDE DEF k
  <2>5. findings[q].fingerprint = findings[p].fingerprint /\ findings[q].state \in {"confirmed", "rejected"}
    BY <1>5, <2>2, <2>3, <2>4
  <2> QED
    BY <1>4, <2>5
<1>8. ASSUME NEW f \in ToSet(findings)
      PROVE  \/ f.id \in Published /\ f.state = "confirmed"
             \/ f.id \notin Published /\ f.state = "rejected"
             \/ /\ f.id \notin Published /\ f.state = "duplicate"
                /\ \E g \in ToSet(findings) :
                      g.fingerprint = f.fingerprint /\ g.state \in {"confirmed", "rejected"}
  <2>1. PICK p \in 1..Len(findings) : f = findings[p]
    BY <1>4
  <2>2. f.id \in Published <=> f.state = "confirmed"
    BY <2>1, PublishedFacts
  <2>3. f.state \in {"duplicate", "confirmed", "rejected"}
    BY <1>5, <2>1
  <2> QED
    BY <1>7, <2>1, <2>2, <2>3
<1>9. ASSUME NEW f \in PublishedFindings, NEW g \in PublishedFindings, f.fingerprint = g.fingerprint
      PROVE  f = g
  <2>1. f \in ToSet(findings) /\ f.id \in Published /\ g \in ToSet(findings) /\ g.id \in Published
    BY DEF PublishedFindings
  <2>2. PICK p \in 1..Len(findings) : f = findings[p]
    BY <1>4, <2>1
  <2>3. PICK q \in 1..Len(findings) : g = findings[q]
    BY <1>4, <2>1
  <2>4. findings[p].state = "confirmed" /\ findings[q].state = "confirmed"
    BY <2>1, <2>2, <2>3, PublishedFacts
  <2>5. of[p] = Survivor(Raw, of[p]) /\ of[q] = Survivor(Raw, of[q])
    BY <1>5, <2>4
  <2>6. Peers(Raw, of[p]) = Peers(Raw, of[q])
    BY <1>5, <1>9, <2>2, <2>3 DEF Peers
  <2>7. of[p] = of[q]
    BY <2>5, <2>6 DEF Survivor
  <2>8. p = q
    BY <1>2, <2>7 DEF Deals
  <2> QED
    BY <2>2, <2>3, <2>8
<1> QED
  BY <1>6, <1>8, <1>9, PublishedFacts

(* The event follows from the reports.                                     *)
LEMMA EventFollows == IInv => EventFollowsReports
<1> SUFFICES ASSUME IInv, stage = "composed"
             PROVE  review.event = "REQUEST_CHANGES" <=>
                       \E f \in ToSet(Raw) :
                           /\ f.severity >= HIGH
                           /\ \E g \in PublishedFindings : g.fingerprint = f.fingerprint
  BY DEF EventFollowsReports
<1>1. IsReported(Raw) /\ DOMAIN Raw = 1..Len(Raw)
  BY ReportedFacts DEF IInv
<1>2. PICK of \in [1..Len(findings) -> 1..Len(Raw)] : Deals(of)
  BY DEF IInv, Verified, Gathered
<1>3. \A f : f \in PublishedFindings <=>
             \E p \in 1..Len(findings) : f = findings[p] /\ findings[p].state = "confirmed"
  BY PublishedFacts DEF PublishedFindings, ToSet
<1>4. \A p \in 1..Len(findings) :
          /\ of[p] \in DOMAIN Raw
          /\ findings[p].severity = Raw[of[p]].severity /\ findings[p].fingerprint = Raw[of[p]].fingerprint
          /\ findings[p].state = "confirmed" => of[p] = Survivor(Raw, of[p])
  BY <1>2, DealtFacts
<1>5. \A i \in 1..Len(Raw) : Raw[i].severity \in 0..4
  BY <1>1 DEF IsReported, IsFinding, Severities
<1>6. review.event = "REQUEST_CHANGES" <=>
         \E p \in 1..Len(findings) : findings[p].state = "confirmed" /\ findings[p].severity \in {HIGH, CRITICAL}
  BY DEF IInv, Composed
<1>7. ASSUME NEW p \in 1..Len(findings),
             findings[p].state = "confirmed", findings[p].severity \in {HIGH, CRITICAL}
      PROVE  \E f \in ToSet(Raw) :
                /\ f.severity >= HIGH
                /\ \E g \in PublishedFindings : g.fingerprint = f.fingerprint
  <2>1. Raw[of[p]] \in ToSet(Raw)
    BY <1>4 DEF ToSet
  <2>2. Raw[of[p]].severity >= HIGH
    BY <1>4, <1>7 DEF HIGH, CRITICAL
  <2>3. findings[p] \in PublishedFindings /\ findings[p].fingerprint = Raw[of[p]].fingerprint
    BY <1>3, <1>4, <1>7
  <2> QED
    BY <2>1, <2>2, <2>3
<1>8. ASSUME NEW f \in ToSet(Raw), f.severity >= HIGH,
             NEW g \in PublishedFindings, g.fingerprint = f.fingerprint
      PROVE  \E p \in 1..Len(findings) :
                findings[p].state = "confirmed" /\ findings[p].severity \in {HIGH, CRITICAL}
  <2>1. PICK i \in 1..Len(Raw) : f = Raw[i]
    BY <1>1 DEF ToSet
  <2>2. PICK p \in 1..Len(findings) : g = findings[p] /\ findings[p].state = "confirmed"
    BY <1>3
  <2>3. of[p] = Survivor(Raw, of[p]) /\ of[p] \in 1..Len(Raw) /\ i \in Peers(Raw, of[p])
    BY <1>1, <1>4, <1>8, <2>1, <2>2 DEF Peers
  <2>4. i = of[p] \/ Before(Raw[of[p]], Raw[i])
    BY <1>1, <2>3, SurvivorIsBest DEF Survivor
  <2>5. Raw[of[p]].severity >= Raw[i].severity
    <3>1. Raw[of[p]].severity \in 0..4 /\ Raw[i].severity \in 0..4
      BY <1>5, <2>3
    <3> QED
      BY <2>4, <3>1 DEF Before
  <2>6. findings[p].severity \in 3..4
    <3>1. Raw[of[p]].severity \in 0..4 /\ Raw[i].severity \in 0..4 /\ Raw[i].severity >= 3
      BY <1>5, <1>8, <2>1, <2>3 DEF HIGH
    <3>2. Raw[of[p]].severity \in 3..4
      BY <2>5, <3>1
    <3> QED
      BY <1>4, <3>2
  <2> QED
    BY <2>2, <2>6 DEF HIGH, CRITICAL
<1> QED
  BY <1>6, <1>7, <1>8

-----------------------------------------------------------------------------
(* What the analyzers return.                                              *)

(* The findings of an outcome after n others: numbered on, or before them. *)
IsFresh(found, n) ==
    /\ found \in Seq(ToSet(found))
    /\ \A i \in DOMAIN found :
          IsFinding(found[i]) /\ found[i].state = "candidate" /\ found[i].id \in {n + i, -(n + i)}

(* An outcome's findings go on the list of what was reported.              *)
LEMMA ReportedGrows ==
    ASSUME NEW s, IsReported(s), NEW found, IsFresh(found, Len(s))
    PROVE  IsReported(s \o found)
<1> DEFINE T == ToSet(s) \union ToSet(found)
           n == Len(s)
<1>1. s \in Seq(T) /\ found \in Seq(T)
  <2>1. s \in Seq(ToSet(s)) /\ found \in Seq(ToSet(found)) /\ ToSet(s) \subseteq T /\ ToSet(found) \subseteq T
    BY DEF IsReported, IsFresh
  <2> HIDE DEF T
  <2> QED
    BY <2>1, SeqMonotonic
<1> HIDE DEF T
<1>2. /\ n \in Nat /\ DOMAIN s = 1..n
      /\ Len(found) \in Nat /\ DOMAIN found = 1..Len(found)
  BY <1>1, LenProperties
<1>3. PICK r : r = s \o found
  OBVIOUS
<1>4. /\ r \in Seq(T) /\ Len(r) = n + Len(found)
      /\ \A i \in 1..n : r[i] = s[i]
      /\ \A i \in 1..Len(found) : r[n + i] = found[i]
  BY <1>1, <1>2, <1>3
<1>5. r \in Seq(ToSet(r)) /\ DOMAIN r = 1..(n + Len(found))
  BY <1>4, ListOfItself
<1>6. \A i \in DOMAIN r : IsFinding(r[i]) /\ r[i].state = "candidate" /\ r[i].id \in {i, -i}
  <2> SUFFICES ASSUME NEW i \in 1..(n + Len(found))
               PROVE  IsFinding(r[i]) /\ r[i].state = "candidate" /\ r[i].id \in {i, -i}
    BY <1>5
  <2>1. CASE i \in 1..n
    BY <2>1, <1>2, <1>4 DEF IsReported
  <2>2. CASE i \in (n + 1)..(n + Len(found))
    <3>1. i - n \in DOMAIN found /\ n + (i - n) = i
      BY <2>2, <1>2
    <3>2. r[i] = found[i - n]
      BY <1>2, <1>4, <3>1
    <3> QED
      BY <3>1, <3>2 DEF IsFresh
  <2> QED
    BY <2>1, <2>2, <1>2
<1> QED
  BY <1>3, <1>5, <1>6 DEF IsReported

(* The findings of a list of outcomes, one after the other.                *)
FoundIn(os) == FlattenSeq([k \in DOMAIN os |-> os[k].findings])

(* A new outcome adds its findings at the end.                             *)
LEMMA FoundInGrows ==
    ASSUME NEW U, NEW os \in Seq(U), \A k \in DOMAIN os : os[k].findings \in Seq(ToSet(os[k].findings)),
           NEW o, o.findings \in Seq(ToSet(o.findings))
    PROVE  FoundIn(Append(os, o)) = FoundIn(os) \o o.findings
<1> DEFINE T == (UNION {ToSet(os[k].findings) : k \in DOMAIN os}) \union ToSet(o.findings)
           n == Len(os)
<1>1. n \in Nat /\ DOMAIN os = 1..n
  BY LenProperties
<1>2. o.findings \in Seq(T) /\ \A k \in 1..n : os[k].findings \in Seq(T)
  <2>1. ToSet(o.findings) \subseteq T /\ \A k \in 1..n : ToSet(os[k].findings) \subseteq T
    <3>1. ToSet(o.findings) \subseteq T
      OBVIOUS
    <3>2. ASSUME NEW k \in DOMAIN os PROVE ToSet(os[k].findings) \subseteq T
      OBVIOUS
    <3> HIDE DEF T
    <3> QED
      BY <1>1, <3>1, <3>2
  <2> HIDE DEF T
  <2>2. \A k \in 1..n : os[k].findings \in Seq(ToSet(os[k].findings))
    BY <1>1
  <2> QED
    BY <2>1, <2>2, SeqMonotonic
<1> HIDE DEF T
<1>3. PICK ss : ss = [k \in DOMAIN os |-> os[k].findings]
  OBVIOUS
<1>4. ss \in Seq(Seq(T)) /\ Len(ss) = n /\ \A k \in 1..n : ss[k] = os[k].findings
  <2>1. ss \in [1..n -> Seq(T)] /\ \A k \in 1..n : ss[k] = os[k].findings
    BY ONLY <1>1, <1>2, <1>3
  <2> HIDE DEF n
  <2> QED
    BY <1>1, <2>1, FunctionList
<1>5. PICK ps : ps = Append(os, o)
  OBVIOUS
<1>6. /\ Len(ps) = n + 1 /\ DOMAIN ps = 1..(n + 1) /\ ps[n + 1] = o
      /\ \A k \in 1..n : ps[k] = os[k]
  <2>1. os \in Seq(U \union {o}) /\ o \in U \union {o}
    BY SeqMonotonic
  <2> QED
    BY <1>1, <1>5, <2>1, AppendProperties, LenProperties
<1>7. PICK ts : ts = [k \in DOMAIN ps |-> ps[k].findings]
  OBVIOUS
<1>8. /\ ts \in Seq(Seq(T)) /\ Len(ts) = n + 1 /\ ts[n + 1] = o.findings
      /\ \A k \in 1..n : ts[k] = ss[k]
  <2>1. \A k \in 1..(n + 1) : ts[k] = ps[k].findings /\ (k \in 1..n \/ k = n + 1)
    BY <1>1, <1>6, <1>7
  <2>2. ts[n + 1] = o.findings /\ \A k \in 1..n : ts[k] = ss[k] /\ ts[k] \in Seq(T)
    <3>1. n + 1 \in 1..(n + 1) /\ \A k \in 1..n : k \in 1..(n + 1)
      BY ONLY <1>1
    <3>2. ts[n + 1] = o.findings
      BY ONLY <1>6, <2>1, <3>1
    <3>3. ASSUME NEW k \in 1..n PROVE ts[k] = ss[k] /\ ts[k] \in Seq(T)
      <4>1. ts[k] = os[k].findings
        BY ONLY <1>6, <2>1, <3>1, <3>3
      <4> QED
        BY <1>2, <1>4, <4>1
    <3> QED
      BY ONLY <3>2, <3>3
  <2>3. ts \in [1..(n + 1) -> Seq(T)]
    BY <1>2, <1>6, <1>7, <2>1, <2>2
  <2>4. n + 1 \in Nat
    BY <1>1
  <2>5. ts \in Seq(Seq(T)) /\ Len(ts) = n + 1
    BY <2>3, <2>4, FunctionList
  <2> QED
    BY <2>2, <2>5
<1>9. PICK us : us = Append(ss, o.findings)
  OBVIOUS
<1>10. /\ us \in Seq(Seq(T)) /\ Len(us) = n + 1 /\ us[n + 1] = o.findings
       /\ \A k \in 1..n : us[k] = ss[k]
  BY <1>1, <1>2, <1>4, <1>9, AppendProperties
<1>11. us = ts
  <2>1. \A k \in 1..(n + 1) : us[k] = ts[k]
    <3> SUFFICES ASSUME NEW k \in 1..(n + 1) PROVE us[k] = ts[k]
      OBVIOUS
    <3>1. k \in 1..n \/ k = n + 1
      BY <1>1
    <3> QED
      BY <3>1, <1>8, <1>10
  <2> QED
    BY <1>8, <1>10, <2>1, SeqEqual
<1>12. FlattenSeq(us) = FlattenSeq(ss) \o o.findings
  BY <1>2, <1>4, <1>9, FlattenAppend
<1> QED
  BY <1>3, <1>5, <1>7, <1>11, <1>12 DEF FoundIn

(* Findings numbered on from n, one for each raw finding.                  *)
LEMMA FoundAreFresh ==
    ASSUME NEW n \in Nat, NEW m \in Nat, NEW found, found = [i \in 1..m |-> found[i]],
           \A i \in 1..m : IsFinding(found[i]) /\ found[i].state = "candidate" /\ found[i].id = n + i
    PROVE  IsFresh(found, n)
<1>1. found \in Seq(ToSet(found)) /\ DOMAIN found = 1..m
  <2> DEFINE U == {found[i] : i \in 1..m}
  <2>1. found \in [1..m -> U]
    OBVIOUS
  <2> HIDE DEF U
  <2>2. found \in Seq(U) /\ Len(found) = m
    BY <2>1, FunctionList
  <2> QED
    BY <2>2, ListOfItself
<1> QED
  BY <1>1 DEF IsFresh

(* Each _to_finding makes a candidate with the id it is given.             *)
IsMade(f, id) == IsFinding(f) /\ f.state = "candidate" /\ f.id = id

(* A finding is well made of what is reported, whatever is reported:       *)
LEMMA FindingIsMade ==
    ASSUME NEW id \in Int, NEW fingerprint, NEW severity \in Severities,
           NEW confidence \in Confidences, NEW kind \in Kinds, NEW raw
    PROVE  IsMade(Finding(id, fingerprint, severity, confidence, kind, raw), id)
BY DEF IsMade, Finding, IsFinding, States

(* by the model;                                                           *)
LEMMA MadeFromModel ==
    ASSUME NEW id \in Int, NEW raw, NEW category, NEW symbol,
           raw.severity \in Severities, raw.confidence \in Confidences
    PROVE  IsMade(FromModel(id, category, raw, symbol), id)
<1>1. "llm_analyzer" \in Kinds
  BY DEF Kinds
<1> QED
  BY <1>1, FindingIsMade DEF FromModel

(* by semgrep;                                                             *)
LEMMA MadeFromSemgrep ==
    ASSUME NEW id \in Int, NEW raw, raw.severity \in Severities
    PROVE  IsMade(FromSemgrep(id, raw), id)
<1>1. "semgrep" \in Kinds /\ HighConfidence \in Confidences
  BY DEF Kinds, HighConfidence, Confidences
<1> QED
  BY <1>1, FindingIsMade DEF FromSemgrep

(* by pip-audit.                                                           *)
LEMMA MadeFromPipAudit ==
    ASSUME NEW id \in Int, NEW raw
    PROVE  IsMade(FromPipAudit(id, raw), id)
<1>1. "pip_audit" \in Kinds /\ HighConfidence \in Confidences /\ HIGH \in Severities
  BY DEF Kinds, HighConfidence, Confidences, HIGH, Severities
<1> QED
  BY <1>1, FindingIsMade DEF FromPipAudit

(* An outcome for n findings before it.                                    *)
Fits(o, source, n) == o.source = source /\ IsOutcome(o) /\ IsFresh(o.findings, n)

(* A failed analyzer's outcome fits, with no finding,                      *)
LEMMA DegradedFits ==
    ASSUME NEW n \in Nat, NEW source, NEW status \in {"error", "timeout"}
    PROVE  Fits(Degraded(source, status), source, n)
<1>1. <<>> \in Seq(ToSet(<<>>)) /\ DOMAIN <<>> = {}
  OBVIOUS
<1> QED
  BY <1>1 DEF Fits, Degraded, Outcome, IsOutcome, IsFresh

(* and a completed one with fresh findings.                                *)
LEMMA CompletedFits ==
    ASSUME NEW n \in Nat, NEW source, NEW found, IsFresh(found, n)
    PROVE  Fits(Completed(source, found), source, n)
<1>1. found \in Seq(ToSet(found))
  BY DEF IsFresh
<1>2. PICK status \in {"ok", "zero_findings"} : Completed(source, found) = Outcome(source, status, found, {})
  BY DEF Completed
<1> QED
  BY <1>1, <1>2 DEF Fits, Outcome, IsOutcome

(* So do the outcomes of the model's analyzers.                            *)
LEMMA ModelFits ==
    ASSUME Len(Raw) \in Nat, NEW role, NEW o \in ModelOutcomes(role)
    PROVE  Fits(o, role, Len(Raw))
<1>1. CASE o = Degraded(role, "error")
  BY <1>1, DegradedFits
<1>2. ASSUME NEW raws \in ModelReports,
             o = Completed(role, [i \in DOMAIN raws |-> FromModel(FreshId(i), role, raws[i], Symbol(raws[i]))])
      PROVE  Fits(o, role, Len(Raw))
  <2> DEFINE found == [i \in DOMAIN raws |-> FromModel(FreshId(i), role, raws[i], Symbol(raws[i]))]
  <2>1. /\ raws \in Seq(ToSet(raws))
        /\ \A i \in DOMAIN raws : raws[i].severity \in Severities /\ raws[i].confidence \in Confidences
    BY ReportsAssumption
  <2>2. DOMAIN raws = 1..Len(raws) /\ Len(raws) \in Nat
    BY <2>1, LenProperties
  <2>3. \A i \in 1..Len(raws) :
          IsFinding(found[i]) /\ found[i].state = "candidate" /\ found[i].id = Len(Raw) + i
    <3> SUFFICES ASSUME NEW i \in 1..Len(raws)
                 PROVE  IsFinding(found[i]) /\ found[i].state = "candidate" /\ found[i].id = Len(Raw) + i
      OBVIOUS
    <3>1. PICK id \in Int : id = Len(Raw) + i
      OBVIOUS
    <3>2. found[i] = FromModel(id, role, raws[i], Symbol(raws[i]))
      BY <2>2, <3>1 DEF FreshId
    <3>3. raws[i].severity \in Severities /\ raws[i].confidence \in Confidences
      BY <2>1, <2>2
    <3> HIDE DEF found
    <3>4. IsMade(found[i], id)
      BY <3>2, <3>3, MadeFromModel
    <3> QED
      BY <3>1, <3>4 DEF IsMade
  <2>4. found = [i \in 1..Len(raws) |-> found[i]]
    BY <2>2
  <2> HIDE DEF found
  <2>5. IsFresh(found, Len(Raw))
    BY <2>2, <2>3, <2>4, FoundAreFresh
  <2>6. o = Completed(role, found)
    BY <1>2 DEF found
  <2> QED
    BY <2>5, <2>6, CompletedFits
<1> QED
  BY <1>1, <1>2 DEF ModelOutcomes

(* And those of semgrep.                                                   *)
LEMMA SemgrepFits ==
    ASSUME Len(Raw) \in Nat, NEW o \in SemgrepOutcomes
    PROVE  Fits(o, "semgrep", Len(Raw))
<1>1. CASE o \in {Degraded("semgrep", "error"), Degraded("semgrep", "timeout")}
  BY <1>1, DegradedFits
<1>2. CASE o = Completed("semgrep", <<>>)
  <2>1. IsFresh(<<>>, Len(Raw))
    BY DEF IsFresh
  <2> QED
    BY <1>2, <2>1, CompletedFits
<1>3. ASSUME NEW raws \in SemgrepReports,
             o = Completed("semgrep", [i \in DOMAIN raws |-> FromSemgrep(FreshId(i), raws[i])])
      PROVE  Fits(o, "semgrep", Len(Raw))
  <2> DEFINE found == [i \in DOMAIN raws |-> FromSemgrep(FreshId(i), raws[i])]
  <2>1. raws \in Seq(ToSet(raws)) /\ \A i \in DOMAIN raws : raws[i].severity \in Severities
    BY ReportsAssumption
  <2>2. DOMAIN raws = 1..Len(raws) /\ Len(raws) \in Nat
    BY <2>1, LenProperties
  <2>3. \A i \in 1..Len(raws) :
          IsFinding(found[i]) /\ found[i].state = "candidate" /\ found[i].id = Len(Raw) + i
    <3> SUFFICES ASSUME NEW i \in 1..Len(raws)
                 PROVE  IsFinding(found[i]) /\ found[i].state = "candidate" /\ found[i].id = Len(Raw) + i
      OBVIOUS
    <3>1. PICK id \in Int : id = Len(Raw) + i
      OBVIOUS
    <3>2. found[i] = FromSemgrep(id, raws[i])
      BY <2>2, <3>1 DEF FreshId
    <3>3. raws[i].severity \in Severities
      BY <2>1, <2>2
    <3> HIDE DEF found
    <3>4. IsMade(found[i], id)
      BY <3>2, <3>3, MadeFromSemgrep
    <3> QED
      BY <3>1, <3>4 DEF IsMade
  <2>4. found = [i \in 1..Len(raws) |-> found[i]]
    BY <2>2
  <2> HIDE DEF found
  <2>5. IsFresh(found, Len(Raw))
    BY <2>2, <2>3, <2>4, FoundAreFresh
  <2>6. o = Completed("semgrep", found)
    BY <1>3 DEF found
  <2> QED
    BY <2>5, <2>6, CompletedFits
<1> QED
  BY <1>1, <1>2, <1>3 DEF SemgrepOutcomes

(* And those of pip-audit, which may have failures beside findings.        *)
LEMMA PipAuditFits ==
    ASSUME Len(Raw) \in Nat, NEW T, contents \in Seq(T), NEW o \in PipAuditOutcomes
    PROVE  Fits(o, "pip-audit", Len(Raw))
<1> DEFINE manifests == {i \in DOMAIN contents : contents[i].kind = "requirements"}
<1>1. PICK results : /\ results \in [manifests -> UNION {AuditResults(contents[i]) : i \in manifests}]
                     /\ \A i \in manifests : results[i] \in AuditResults(contents[i])
                     /\ o = PipAuditOutcome(results)
  BY DEF PipAuditOutcomes
<1>2. DOMAIN results = manifests /\ manifests \subseteq DOMAIN contents
  BY <1>1
<1> DEFINE lists == [i \in DOMAIN contents |-> IF i \in DOMAIN results THEN results[i].vulns ELSE <<>>]
           raws == FlattenSeq(lists)
           found == [i \in DOMAIN raws |-> FromPipAudit(FreshId(i), raws[i])]
           failures == {m \in DOMAIN results : results[m].status # "ok"}
           first == CHOOSE m \in failures : \A n \in failures : m <= n
           status == IF found # <<>> THEN "ok"
                     ELSE IF failures = {} THEN "zero_findings" ELSE results[first].status
           diagnostics == {results[m].status : m \in failures}
<1>3. o = Outcome("pip-audit", status, found, diagnostics)
  BY <1>1 DEF PipAuditOutcome
<1>4. \A i \in manifests :
          results[i].status \in {"ok", "error", "timeout"} /\ results[i].vulns \in Seq(ToSet(results[i].vulns))
  <2> SUFFICES ASSUME NEW i \in manifests
               PROVE  /\ results[i].status \in {"ok", "error", "timeout"}
                      /\ results[i].vulns \in Seq(ToSet(results[i].vulns))
    OBVIOUS
  <2> DEFINE f == contents[i]
  <2>1. results[i] \in AuditResults(f)
    BY <1>1
  <2>2. CASE results[i] \in [status: {"error", "timeout"}, vulns: {<<>>}]
    <3>1. results[i].status \in {"error", "timeout"} /\ results[i].vulns = <<>>
      BY <2>2
    <3>2. <<>> \in Seq(ToSet(<<>>))
      OBVIOUS
    <3> QED
      BY <3>1, <3>2, Zenon
  <2>3. ASSUME NEW vulns \in Audits, results[i] = [status |-> "ok", vulns |-> AuditOf(f, vulns)]
        PROVE  /\ results[i].status \in {"ok", "error", "timeout"}
               /\ results[i].vulns \in Seq(ToSet(results[i].vulns))
    <3>1. vulns \in Seq(ToSet(vulns))
      BY ReportsAssumption
    <3>2. DOMAIN vulns = 1..Len(vulns) /\ Len(vulns) \in Nat
      BY <3>1, LenProperties
    <3> DEFINE U == {AuditOf(f, vulns)[k] : k \in DOMAIN vulns}
    <3>3. AuditOf(f, vulns) \in [1..Len(vulns) -> U]
      BY <3>2 DEF AuditOf
    <3> HIDE DEF U
    <3>4. AuditOf(f, vulns) \in Seq(U)
      BY <3>2, <3>3, FunctionList
    <3>5. AuditOf(f, vulns) \in Seq(ToSet(AuditOf(f, vulns)))
      BY <3>4, ListOfItself
    <3> QED
      BY <2>3, <3>5
  <2> QED
    BY <2>1, <2>2, <2>3 DEF AuditResults
<1>5. DOMAIN contents = 1..Len(contents) /\ Len(contents) \in Nat
  BY LenProperties
<1> DEFINE V == UNION {ToSet(results[i].vulns) : i \in manifests}
<1>6. lists \in Seq(Seq(V))
  <2>1. ASSUME NEW i \in DOMAIN contents PROVE lists[i] \in Seq(V)
    <3>1. CASE i \in manifests
      <4>1. ToSet(results[i].vulns) \subseteq V /\ results[i].vulns \in Seq(ToSet(results[i].vulns))
        BY <1>4, <3>1
      <4>2. lists[i] = results[i].vulns
        BY <1>2, <3>1
      <4> HIDE DEF V, lists
      <4> QED
        BY <4>1, <4>2, SeqMonotonic
    <3>2. CASE i \notin manifests
      BY <1>2, <3>2
    <3> QED
      BY <3>1, <3>2
  <2>2. lists = [i \in 1..Len(contents) |-> lists[i]]
    BY <1>5
  <2> HIDE DEF V, lists
  <2>3. lists \in [1..Len(contents) -> Seq(V)]
    BY <1>5, <2>1, <2>2
  <2> QED
    BY <1>5, <2>3, FunctionList
<1> HIDE DEF V, lists
<1>7. DOMAIN raws = 1..Len(raws) /\ Len(raws) \in Nat
  <2>1. raws \in Seq(V)
    BY <1>6, FlattenType
  <2> QED
    BY <2>1, LenProperties
<1> HIDE DEF raws
<1>8. IsFresh(found, Len(Raw))
  <2>1. \A i \in 1..Len(raws) :
          IsFinding(found[i]) /\ found[i].state = "candidate" /\ found[i].id = Len(Raw) + i
    <3> SUFFICES ASSUME NEW i \in 1..Len(raws)
                 PROVE  IsFinding(found[i]) /\ found[i].state = "candidate" /\ found[i].id = Len(Raw) + i
      OBVIOUS
    <3>1. PICK id \in Int : id = Len(Raw) + i
      OBVIOUS
    <3>2. found[i] = FromPipAudit(id, raws[i])
      BY <1>7, <3>1 DEF FreshId
    <3> HIDE DEF found
    <3>3. IsMade(found[i], id)
      BY <3>2, MadeFromPipAudit
    <3> QED
      BY <3>1, <3>3 DEF IsMade
  <2>2. found = [i \in 1..Len(raws) |-> found[i]]
    BY <1>7
  <2> HIDE DEF found
  <2> QED
    BY <1>7, <2>1, <2>2, FoundAreFresh
<1> HIDE DEF found
<1>9. \A m \in failures : results[m].status \in {"error", "timeout"}
  BY <1>2, <1>4
<1>10. failures # {} => first \in failures
  <2> SUFFICES ASSUME failures # {} PROVE first \in failures
    OBVIOUS
  <2>1. PICK l \in failures : \A n \in failures : l <= n
    <3> DEFINE S == {-m : m \in failures}
    <3>1. \A m \in failures : m \in Nat
      BY <1>2, <1>5
    <3>2. S # {} /\ S \subseteq Int /\ (\A x \in S : x <= 0) /\ 0 \in Int
      BY <3>1
    <3>3. PICK g \in S : \A x \in S : x <= g
      <4> HIDE DEF S
      <4> QED
        BY <3>2, Greatest
    <3>4. PICK l \in failures : g = -l
      OBVIOUS
    <3>5. ASSUME NEW m \in failures PROVE l <= m
      <4>1. -m \in S /\ -m <= -l
        BY <3>3, <3>4
      <4>2. m \in Nat /\ l \in Nat
        BY <3>1
      <4> QED
        BY ONLY <4>1, <4>2
    <3> QED
      BY <3>5
  <2> HIDE DEF failures
  <2> QED
    BY <2>1
<1>11. /\ status \in {"ok", "zero_findings", "error", "timeout"}
       /\ diagnostics \in SUBSET {"error", "timeout"}
       /\ IF status \in {"error", "timeout"} THEN status \in diagnostics
          ELSE found = <<>> => diagnostics = {}
  <2> HIDE DEF failures, first
  <2>1. CASE found # <<>>
    BY <2>1, <1>9
  <2>2. CASE found = <<>> /\ failures = {}
    BY <2>2
  <2>3. CASE found = <<>> /\ failures # {}
    BY <2>3, <1>9, <1>10
  <2> QED
    BY <2>1, <2>2, <2>3
<1> HIDE DEF status, diagnostics
<1> QED
  BY <1>3, <1>8, <1>11 DEF Fits, Outcome, IsOutcome, IsFresh

(* New ids may also sort before all others.                                *)
LEMMA SortedFirstFits ==
    ASSUME NEW n \in Nat, NEW source, NEW o, Fits(o, source, n)
    PROVE  Fits(SortedFirst(o), source, n)
<1> DEFINE found == o.findings
           sorted == [i \in DOMAIN found |-> [found[i] EXCEPT !.id = -@]]
<1>1. SortedFirst(o) = [o EXCEPT !.findings = sorted]
  BY DEF SortedFirst
<1>2. found \in Seq(ToSet(found)) /\ DOMAIN found = 1..Len(found) /\ Len(found) \in Nat
  BY LenProperties DEF Fits, IsFresh
<1>3. \A i \in 1..Len(found) : IsFinding(found[i]) /\ found[i].state = "candidate" /\ found[i].id \in {n + i, -(n + i)}
  BY <1>2 DEF Fits, IsFresh
<1>4. \A i \in 1..Len(found) :
          IsFinding(sorted[i]) /\ sorted[i].state = "candidate" /\ sorted[i].id \in {n + i, -(n + i)}
  <2> SUFFICES ASSUME NEW i \in 1..Len(found)
               PROVE  IsFinding(sorted[i]) /\ sorted[i].state = "candidate" /\ sorted[i].id \in {n + i, -(n + i)}
    OBVIOUS
  <2> DEFINE f == found[i]
  <2>1. sorted[i] = [f EXCEPT !.id = -f.id]
    BY <1>2
  <2>2. IsFinding(f) /\ f.state = "candidate" /\ f.id \in {n + i, -(n + i)}
    BY <1>3
  <2> HIDE DEF f, sorted
  <2>3. -f.id \in Int /\ -f.id \in {n + i, -(n + i)}
    BY <2>2
  <2> QED
    BY <2>1, <2>2, <2>3 DEF IsFinding
<1>5. sorted = [i \in 1..Len(found) |-> sorted[i]]
  BY <1>2
<1>6. found = <<>> <=> sorted = <<>>
  BY <1>2
<1> HIDE DEF sorted
<1>7. IsFresh(sorted, n)
  <2> DEFINE U == {sorted[i] : i \in 1..Len(found)}
  <2>1. sorted \in [1..Len(found) -> U]
    BY <1>5
  <2> HIDE DEF U
  <2>2. sorted \in Seq(U) /\ DOMAIN sorted = 1..Len(found)
    BY <1>2, <2>1, FunctionList
  <2>3. sorted \in Seq(ToSet(sorted))
    BY <2>2, ListOfItself
  <2> QED
    BY <1>4, <2>2, <2>3 DEF IsFresh
<1> QED
  BY <1>1, <1>6, <1>7 DEF Fits, IsOutcome, IsFresh

-----------------------------------------------------------------------------
(* Each step keeps the invariant.                                          *)

(* No outcomes, no findings.                                               *)
LEMMA NothingFound == FoundIn(<<>>) = <<>>
<1> DEFINE ss == [k \in DOMAIN <<>> |-> <<>>[k].findings]
<1>1. DOMAIN <<>> = {}
  OBVIOUS
<1>2. ss \in [1..0 -> {}]
  BY <1>1
<1>3. FoundIn(<<>>) = FlattenSeq(ss)
  BY DEF FoundIn
<1> HIDE DEF ss
<1>4. ss \in Seq({}) /\ Len(ss) = 0
  BY <1>2, FunctionList
<1>5. ss = <<>>
  BY <1>4, EmptySeq
<1> QED
  BY <1>3, <1>5, FlattenEmpty

LEMMA NothingReported ==
    /\ outcomes = <<>> => Raw = <<>>
    /\ outcomes' = <<>> => Raw' = <<>>
<1>1. Raw = FoundIn(outcomes) /\ Raw' = FoundIn(outcomes')
  BY DEF Raw, FoundIn
<1> QED
  BY <1>1, NothingFound

(* A run starts with nothing reported.                                     *)
LEMMA InitInvariant == Init => IInv
<1> SUFFICES ASSUME Init PROVE IInv
  OBVIOUS
<1>1. <<>> \in Seq(ToSet(changed)) /\ <<>> \in Seq(ToSet(<<>>)) /\ DOMAIN <<>> = {}
  OBVIOUS
<1>2. Fetching
  BY <1>1, PullRequestsAssumption DEF Init, Fetching
<1>3. Reported = {}
  BY <1>1 DEF Init, Reported
<1>4. Answered
  BY <1>1, <1>3 DEF Init, Answered, Gathered
<1>5. Raw = <<>>
  BY NothingReported DEF Init
<1>6. IsReported(Raw)
  BY <1>1, <1>5 DEF IsReported
<1>7. Verified /\ Composed
  BY <1>1 DEF Init, Verified, Gathered, Composed
<1> QED
  BY <1>2, <1>4, <1>6, <1>7 DEF IInv

(* Until the analyzers run, only files are looked at.                      *)
LEMMA FetchingStep ==
    ASSUME IInv, DetectLanguage \/ GatherFileContents \/ SelectAnalyzers
    PROVE  IInv'
<1>1. /\ UNCHANGED <<changed, outcomes, findings, review>>
      /\ ~Gathered /\ ~Gathered' /\ stage' # "composed"
      /\ stage' \in {"gather_file_contents", "analyze", "raised"}
  BY DEF DetectLanguage, GatherFileContents, SelectAnalyzers, OutOfScope, FetchContent,
         FetchNothing, FetchRaises, NextFile, Gathered
<1>2. Raw' = Raw /\ Reported' = Reported
  BY <1>1 DEF Raw, Reported
<1>3. Fetching'
  <2>1. CASE DetectLanguage
    BY <2>1 DEF IInv, Fetching, DetectLanguage, Select
  <2>2. CASE SelectAnalyzers
    BY <2>2 DEF IInv, Fetching, SelectAnalyzers
  <2>3. CASE GatherFileContents
    <3>1. /\ toFetch # <<>> /\ toFetch' = Tail(toFetch)
          /\ contents' \in {contents, Append(contents, Head(toFetch))}
          /\ UNCHANGED <<changed, adapter>>
      BY <2>3 DEF GatherFileContents, OutOfScope, FetchContent, FetchNothing, FetchRaises, NextFile
    <3>2. toFetch \in Seq(ToSet(changed)) /\ contents \in Seq(ToSet(changed))
      BY DEF IInv, Fetching
    <3>3. PICK F : F = ToSet(changed)
      OBVIOUS
    <3>4. Head(toFetch) \in F /\ Tail(toFetch) \in Seq(F)
      BY <3>1, <3>2, <3>3, HeadTailProperties
    <3>5. contents' \in Seq(F)
      <4>1. contents \in Seq(F)
        BY ONLY <3>2, <3>3
      <4>2. Append(contents, Head(toFetch)) \in Seq(F)
        BY ONLY <3>4, <4>1, AppendProperties
      <4> QED
        BY ONLY <3>1, <4>1, <4>2
    <3>6. ToSet(changed)' = F
      BY <3>1, <3>3
    <3> QED
      BY <3>1, <3>4, <3>5, <3>6 DEF IInv, Fetching
  <2> QED
    BY <2>1, <2>2, <2>3
<1>4. Answered'
  <2>1. selected' \subseteq Available /\ Reported \subseteq selected'
    <3>1. selected' = selected \/ SelectAnalyzers
      BY DEF DetectLanguage, GatherFileContents, OutOfScope, FetchContent, FetchNothing, FetchRaises, NextFile
    <3>2. CASE SelectAnalyzers
      BY <3>2, AvailableAssumption DEF IInv, Answered, SelectAnalyzers
    <3> QED
      BY <3>1, <3>2 DEF IInv, Answered
  <2> QED
    BY <1>1, <1>2, <2>1 DEF IInv, Answered
<1>5. Verified' /\ Composed'
  <2>1. Verified'
    BY <1>1 DEF IInv, Verified
  <2>2. Composed'
    BY <1>1 DEF IInv, Composed, Gathered, NoReview
  <2> QED
    BY <2>1, <2>2
<1>6. IsReported(Raw)'
  BY <1>2 DEF IInv
<1> QED
  BY <1>3, <1>4, <1>5, <1>6 DEF IInv

(* What an outcome reports goes on the list.                               *)
LEMMA RawGrows ==
    ASSUME IInv, NEW source, NEW o, Fits(o, source, Len(Raw)), Report(o)
    PROVE  Raw' = Raw \o o.findings
<1>1. outcomes \in Seq(ToSet(outcomes)) /\ \A k \in DOMAIN outcomes : IsOutcome(outcomes[k])
  BY DEF IInv, Answered
<1>2. o.findings \in Seq(ToSet(o.findings)) /\ \A k \in DOMAIN outcomes : outcomes[k].findings \in Seq(ToSet(outcomes[k].findings))
  BY <1>1 DEF Fits, IsOutcome
<1>3. FoundIn(Append(outcomes, o)) = FoundIn(outcomes) \o o.findings
  BY <1>1, <1>2, FoundInGrows
<1>4. Raw' = FoundIn(outcomes') /\ Raw = FoundIn(outcomes)
  BY DEF Raw, FoundIn
<1> QED
  BY <1>3, <1>4 DEF Report

(* An outcome is added for an analyzer that had none.                      *)
LEMMA ReportStep ==
    ASSUME IInv, NEW source \in selected \ Reported, NEW o, Fits(o, source, Len(Raw)), Report(o)
    PROVE  IInv'
<1>1. /\ stage = "analyze" /\ outcomes' = Append(outcomes, o)
      /\ UNCHANGED <<stage, changed, adapter, contents, toFetch, selected, findings, review>>
  BY DEF Report, input
<1>2. /\ outcomes \in Seq(ToSet(outcomes)) /\ \A k \in DOMAIN outcomes : IsOutcome(outcomes[k])
      /\ \A k, l \in DOMAIN outcomes : outcomes[k].source = outcomes[l].source => k = l
      /\ Reported \subseteq selected
  BY DEF IInv, Answered
<1>3. o.source = source /\ IsOutcome(o) /\ IsFresh(o.findings, Len(Raw))
  BY DEF Fits
<1> DEFINE n == Len(outcomes)
           U == ToSet(outcomes) \union {o}
<1>4. n \in Nat /\ DOMAIN outcomes = 1..n
  BY <1>2, LenProperties
<1>5. /\ outcomes' \in Seq(U) /\ Len(outcomes') = n + 1 /\ outcomes'[n + 1] = o
      /\ \A k \in 1..n : outcomes'[k] = outcomes[k]
  <2>1. outcomes \in Seq(U) /\ o \in U
    <3>1. ToSet(outcomes) \subseteq U /\ o \in U
      OBVIOUS
    <3> HIDE DEF U
    <3> QED
      BY <1>2, <3>1, SeqMonotonic
  <2> HIDE DEF U
  <2> QED
    BY <1>1, <2>1, AppendProperties
<1> HIDE DEF U
<1>6. outcomes' \in Seq(ToSet(outcomes')) /\ DOMAIN outcomes' = 1..(n + 1)
  BY <1>5, ListOfItself
<1>7. \A k \in 1..(n + 1) : k \in 1..n \/ k = n + 1
  BY <1>4
<1> HIDE DEF n
<1>8. \A k \in DOMAIN outcomes' : IsOutcome(outcomes'[k])
  BY <1>2, <1>3, <1>4, <1>5, <1>6, <1>7
<1>9. Reported' = Reported \union {source}
  <2>1. Reported' = {outcomes'[k].source : k \in 1..(n + 1)} /\ Reported = {outcomes[k].source : k \in 1..n}
    BY <1>4, <1>6 DEF Reported
  <2>2. n + 1 \in 1..(n + 1) /\ 1..n \subseteq 1..(n + 1)
    BY <1>4
  <2> QED
    BY <1>3, <1>5, <1>7, <2>1, <2>2
<1>10. \A k, l \in DOMAIN outcomes' : outcomes'[k].source = outcomes'[l].source => k = l
  <2>1. \A k \in 1..n : outcomes[k].source # source
    BY <1>4 DEF Reported
  <2>2. \A k \in 1..n : outcomes'[k].source = outcomes[k].source /\ outcomes'[k].source # source
    BY <1>5, <2>1
  <2>3. outcomes'[n + 1].source = source
    BY <1>3, <1>5
  <2>4. \A k, l \in 1..n : outcomes[k].source = outcomes[l].source => k = l
    BY <1>2, <1>4
  <2> SUFFICES ASSUME NEW k \in 1..(n + 1), NEW l \in 1..(n + 1), outcomes'[k].source = outcomes'[l].source
               PROVE  k = l
    BY <1>6
  <2> QED
    BY <1>7, <2>2, <2>3, <2>4
<1>11. Answered'
  <2>1. ~Gathered'
    BY <1>1 DEF Gathered
  <2> QED
    BY <1>1, <1>2, <1>6, <1>8, <1>9, <1>10, <2>1 DEF IInv, Answered
<1>12. IsReported(Raw)'
  <2>4. Raw' = Raw \o o.findings
    BY RawGrows
  <2>5. IsReported(Raw \o o.findings)
    BY <1>3, ReportedGrows DEF IInv
  <2>6. IsReported(Raw')
    BY <2>4, <2>5
  <2> QED
    BY <2>6 DEF IsReported, IsFinding
<1>13. Fetching'
  BY <1>1 DEF IInv, Fetching
<1>14. Verified' /\ Composed'
  BY <1>1 DEF IInv, Verified, Composed, Gathered, NoReview
<1> QED
  BY <1>11, <1>12, <1>13, <1>14 DEF IInv

(* Whatever an analyzer returns, or if it raises, one fitting outcome is   *)
(* reported.                                                               *)
LEMMA OutcomeFits ==
    ASSUME IInv, NEW source \in selected, AnalyzerReturns(source) \/ AnalyzerRaises(source)
    PROVE  /\ source \in selected \ Reported
           /\ \E o \in OutcomesOf(source) \union {Degraded(source, "error")} :
                 /\ Fits(o, source, Len(Raw))
                 /\ \E p \in {o, SortedFirst(o)} : Fits(p, source, Len(Raw)) /\ Report(p)
<1>1. Len(Raw) \in Nat /\ contents \in Seq(ToSet(changed))
  BY ReportedFacts DEF IInv, Fetching
<1>2. source \in selected \ Reported
  BY DEF AnalyzerReturns, AnalyzerRaises
<1>3. CASE AnalyzerRaises(source)
  <2>1. Report(Degraded(source, "error"))
    BY <1>3 DEF AnalyzerRaises
  <2>2. Fits(Degraded(source, "error"), source, Len(Raw))
    BY <1>1, DegradedFits
  <2> QED
    BY <1>2, <2>1, <2>2
<1>4. CASE AnalyzerReturns(source)
  <2>1. PICK o \in OutcomesOf(source) : Report(o) \/ Report(SortedFirst(o))
    BY <1>4 DEF AnalyzerReturns
  <2>2. Fits(o, source, Len(Raw))
    <3>1. CASE source = "semgrep"
      BY <1>1, <2>1, <3>1, SemgrepFits DEF OutcomesOf
    <3>2. CASE source = "pip-audit"
      <4>1. o \in PipAuditOutcomes
        BY <2>1, <3>2 DEF OutcomesOf
      <4> QED
        BY <1>1, <3>2, <4>1, PipAuditFits
    <3>3. CASE source \notin {"semgrep", "pip-audit"}
      BY <1>1, <2>1, <3>3, ModelFits DEF OutcomesOf
    <3> QED
      BY <3>1, <3>2, <3>3
  <2>3. Fits(SortedFirst(o), source, Len(Raw))
    BY <1>1, <2>2, SortedFirstFits
  <2> QED
    BY <1>2, <2>1, <2>2, <2>3
<1> QED
  BY <1>3, <1>4

(* So it is one more.                                                      *)
LEMMA AnalyzerStep ==
    ASSUME IInv, NEW source \in selected, AnalyzerReturns(source) \/ AnalyzerRaises(source)
    PROVE  IInv'
BY OutcomeFits, ReportStep

(* Collecting merges what was reported.                                    *)
LEMMA CollectStep == ASSUME IInv, CollectFindings PROVE IInv'
<1>1. /\ stage = "analyze" /\ stage' = "verify_findings" /\ Reported = selected
      /\ findings' = Deduplicate(Raw)
      /\ UNCHANGED <<changed, adapter, contents, toFetch, selected, outcomes, review>>
  BY DEF CollectFindings, input
<1>2. Raw' = Raw /\ Reported' = Reported /\ IsReported(Raw)
  BY <1>1 DEF Raw, Reported, IInv
<1>3. PICK D : D = Deduplicate(Raw)
  OBVIOUS
<1>4. D \in Seq(MergedOf(Raw)) /\ D \in Seq(ToSet(D))
  BY <1>2, <1>3, DeduplicateShows, ListOfItself
<1>5. PICK of : Shows(of, D, Raw, 1..Len(Raw))
  BY <1>2, <1>3, DeduplicateShows
<1>6. /\ of \in [1..Len(D) -> 1..Len(Raw)]
      /\ \A p, q \in 1..Len(D) : of[p] = of[q] => p = q
      /\ \A i \in 1..Len(Raw) : \E p \in 1..Len(D) : of[p] = i
      /\ \A p \in 1..Len(D) : D[p] = Merged(Raw, of[p])
  BY <1>5 DEF Shows
<1>7. \A p \in 1..Len(D) : LET m == Merged(Raw, of[p])
                           IN  /\ D[p] = [m EXCEPT !.state = D[p].state]
                               /\ IF m.state = "duplicate" THEN D[p].state = "duplicate"
                                  ELSE D[p].state = "candidate"
  <2> SUFFICES ASSUME NEW p \in 1..Len(D)
               PROVE  LET m == Merged(Raw, of[p])
                      IN  /\ m = [m EXCEPT !.state = m.state]
                          /\ IF m.state = "duplicate" THEN m.state = "duplicate"
                             ELSE m.state = "candidate"
    BY <1>6
  <2>1. of[p] \in DOMAIN Raw
    <3>1. DOMAIN Raw = 1..Len(Raw)
      BY ONLY <1>2, ReportedFacts
    <3> QED
      BY <1>6, <3>1
  <2> DEFINE m == Merged(Raw, of[p])
  <2>2. IsFinding(m) /\ m.state \in {"candidate", "duplicate"}
    BY <1>2, <2>1, MergedFacts
  <2> HIDE DEF m
  <2>3. m = [m EXCEPT !.state = m.state]
    BY <2>2 DEF IsFinding
  <2> QED
    BY <2>2, <2>3 DEF m
<1>8. Deals(of)'
  BY <1>1, <1>2, <1>3, <1>6, <1>7 DEF Deals
<1>9. Verified'
  BY <1>1, <1>2, <1>3, <1>4, <1>6, <1>8 DEF Verified, Gathered
<1>10. Fetching' /\ Answered' /\ Composed' /\ IsReported(Raw)'
  <2>1. Fetching'
    BY <1>1 DEF IInv, Fetching
  <2>2. Answered'
    BY <1>1, <1>2 DEF IInv, Answered
  <2>3. Composed'
    BY <1>1 DEF IInv, Composed, NoReview
  <2>4. IsReported(Raw)'
    BY <1>2
  <2> QED
    BY <2>1, <2>2, <2>3, <2>4
<1> QED
  BY <1>9, <1>10 DEF IInv

(* Both verifiers judge the candidates, and nothing else.                  *)
LEMMA VerifyStep ==
    ASSUME IInv, VerifyByPolicy \/ \E verdicts \in Verdicts : VerifyByModel(verdicts)
    PROVE  IInv'
<1>1. /\ stage = "verify_findings" /\ stage' = "compose_review"
      /\ UNCHANGED <<changed, adapter, contents, toFetch, selected, outcomes, review>>
  BY DEF VerifyByPolicy, VerifyByModel, input
<1>2. Raw' = Raw /\ Reported' = Reported /\ IsReported(Raw)
  BY <1>1 DEF Raw, Reported, IInv
<1>3. /\ findings' = [i \in DOMAIN findings |-> findings'[i]]
      /\ \A i \in DOMAIN findings :
            IF findings[i].state = "candidate"
            THEN findings'[i] \in {Judge(findings[i], TRUE), Judge(findings[i], FALSE)}
            ELSE findings'[i] = findings[i]
  <2>1. CASE VerifyByPolicy
    BY <2>1 DEF VerifyByPolicy, PolicyVerify, Judge
  <2>2. ASSUME NEW verdicts \in Verdicts, VerifyByModel(verdicts)
        PROVE  /\ findings' = [i \in DOMAIN findings |-> findings'[i]]
               /\ \A i \in DOMAIN findings :
                     IF findings[i].state = "candidate"
                     THEN findings'[i] \in {Judge(findings[i], TRUE), Judge(findings[i], FALSE)}
                     ELSE findings'[i] = findings[i]
    BY <2>2 DEF VerifyByModel, ApplyVerdict, PolicyVerify, Judge
  <2> QED
    BY <2>1, <2>2
<1>4. findings \in Seq(ToSet(findings)) /\ DOMAIN findings = 1..Len(findings) /\ Len(findings) \in Nat
  BY LenProperties DEF IInv, Verified
<1>5. findings' \in Seq(ToSet(findings')) /\ Len(findings') = Len(findings)
  <2> DEFINE U == {findings'[i] : i \in DOMAIN findings}
  <2>1. findings' \in [1..Len(findings) -> U]
    BY <1>3, <1>4
  <2> HIDE DEF U
  <2> QED
    BY <1>4, <2>1, FunctionList, ListOfItself
<1>6. PICK of \in [1..Len(findings) -> 1..Len(Raw)] : Deals(of)
  BY <1>1 DEF IInv, Verified, Gathered
<1>7. ASSUME NEW p \in 1..Len(findings)
      PROVE  LET m == Merged(Raw, of[p])
             IN  /\ findings'[p] = [m EXCEPT !.state = findings'[p].state]
                 /\ IF m.state = "duplicate" THEN findings'[p].state = "duplicate"
                    ELSE findings'[p].state \in {"confirmed", "rejected"}
  <2> DEFINE m == Merged(Raw, of[p])
             f == findings[p]
  <2>1. of[p] \in DOMAIN Raw
    BY <1>2, <1>6, ReportedFacts
  <2>2. IsFinding(m)
    BY <1>2, <2>1, MergedFacts
  <2>3. /\ f = [m EXCEPT !.state = f.state]
        /\ IF m.state = "duplicate" THEN f.state = "duplicate" ELSE f.state = "candidate"
    BY <1>1, <1>6 DEF Deals
  <2>4. IF f.state = "candidate"
        THEN findings'[p] \in {Judge(f, TRUE), Judge(f, FALSE)}
        ELSE findings'[p] = f
    BY <1>3, <1>4
  <2> HIDE DEF m, f
  <2>5. CASE m.state = "duplicate"
    BY <2>3, <2>4, <2>5 DEF m
  <2>6. CASE m.state # "duplicate"
    <3>1. f.state = "candidate"
      BY <2>3, <2>6
    <3>2. PICK st \in {"confirmed", "rejected"} : findings'[p] = [f EXCEPT !.state = st]
      BY <2>4, <3>1 DEF Judge
    <3>3. findings'[p] = [m EXCEPT !.state = st] /\ findings'[p].state = st
      BY <2>2, <2>3, <3>1, <3>2 DEF IsFinding
    <3> QED
      BY <2>6, <3>3 DEF m
  <2> QED
    BY <2>5, <2>6
<1>8. Deals(of)'
  BY <1>1, <1>2, <1>5, <1>6, <1>7 DEF Deals
<1>9. Verified'
  BY <1>1, <1>2, <1>5, <1>6, <1>8 DEF Verified, Gathered
<1>10. Fetching' /\ Answered' /\ Composed' /\ IsReported(Raw)'
  <2>1. Fetching'
    BY <1>1 DEF IInv, Fetching
  <2>2. Answered'
    BY <1>1, <1>2 DEF IInv, Answered, Gathered
  <2>3. Composed'
    BY <1>1 DEF IInv, Composed, NoReview
  <2>4. IsReported(Raw)'
    BY <1>2
  <2> QED
    BY <2>1, <2>2, <2>3, <2>4
<1> QED
  BY <1>9, <1>10 DEF IInv

(* The review is made of the confirmed findings.                           *)
LEMMA ComposeStep == ASSUME IInv, ComposeReview PROVE IInv'
<1> DEFINE kept == {i \in DOMAIN findings : IsConfirmed(findings[i])}
           confirmed == [i \in kept |-> Anchor(findings[i], HunksOf(findings[i].path))]
           inline == {k \in kept : confirmed[k].inline}
<1>1. /\ stage = "compose_review" /\ stage' = "composed"
      /\ review' = [inline |-> {confirmed[i].id : i \in {k \in kept : confirmed[k].inline}},
                    summary |-> {confirmed[i].id : i \in {k \in kept : ~confirmed[k].inline}},
                    notes |-> UNION {Diagnostics(outcomes[k]) :
                                       k \in {k \in DOMAIN outcomes : IsDegraded(outcomes[k])}},
                    event |-> ReviewEvent(confirmed)]
      /\ UNCHANGED <<changed, adapter, contents, toFetch, selected, outcomes, findings>>
  BY DEF ComposeReview, input
<1>2. Raw' = Raw /\ Reported' = Reported
  BY <1>1 DEF Raw, Reported
<1>3. DOMAIN findings = 1..Len(findings)
  BY LenProperties DEF IInv, Verified
<1>4. PICK of \in [1..Len(findings) -> 1..Len(Raw)] : Deals(of)
  BY <1>1 DEF IInv, Verified, Gathered
<1>5. \A i \in kept : confirmed[i].id = findings[i].id /\ confirmed[i].severity = findings[i].severity
  <2> SUFFICES ASSUME NEW i \in kept
               PROVE  confirmed[i].id = findings[i].id /\ confirmed[i].severity = findings[i].severity
    OBVIOUS
  <2>1. IsFinding(findings[i])
    BY <1>3, <1>4, DealtFacts
  <2> QED
    BY <2>1 DEF Anchor, IsFinding
<1>6. kept = {p \in 1..Len(findings) : findings[p].state = "confirmed"}
  BY <1>3 DEF IsConfirmed
<1>7. DOMAIN confirmed = kept
  OBVIOUS
<1> HIDE DEF kept, confirmed
<1>8. /\ inline \in SUBSET kept
      /\ review'.inline = {findings[p].id : p \in inline}
      /\ review'.summary = {findings[p].id : p \in kept \ inline}
  <2>1. inline \in SUBSET kept /\ kept \ inline = {k \in kept : ~confirmed[k].inline}
    OBVIOUS
  <2>2. review'.inline = {confirmed[i].id : i \in inline} /\ review'.summary = {confirmed[i].id : i \in kept \ inline}
    BY <1>1, <2>1
  <2> HIDE DEF inline
  <2> QED
    BY <1>5, <2>1, <2>2
<1>9. review'.event = IF \E p \in kept : findings[p].severity \in {HIGH, CRITICAL}
                      THEN "REQUEST_CHANGES" ELSE "COMMENT"
  BY <1>1, <1>5, <1>7 DEF ReviewEvent
<1>10. Composed'
  <2>1. review'.notes = UNION {Diagnostics(outcomes[k]) :
                                 k \in {k \in DOMAIN outcomes : IsDegraded(outcomes[k])}}
    BY <1>1
  <2> HIDE DEF inline
  <2>2. kept = {p \in 1..Len(findings') : findings'[p].state = "confirmed"} /\ findings' = findings
    BY <1>1, <1>6
  <2>3. \E shown \in SUBSET kept :
           /\ review'.inline = {findings'[p].id : p \in shown}
           /\ review'.summary = {findings'[p].id : p \in kept \ shown}
    <3>1. inline \in SUBSET kept
      BY <1>8
    <3>2. review'.inline = {findings'[p].id : p \in inline}
      BY <1>8, <2>2
    <3>3. review'.summary = {findings'[p].id : p \in kept \ inline}
      BY <1>8, <2>2
    <3> QED
      BY <3>1, <3>2, <3>3
  <2>4. review'.notes = UNION {Diagnostics(outcomes'[k]) :
                                 k \in {k \in DOMAIN outcomes' : IsDegraded(outcomes'[k])}}
    BY <1>1, <2>1
  <2>5. review'.event = IF \E p \in kept : findings'[p].severity \in {HIGH, CRITICAL}
                        THEN "REQUEST_CHANGES" ELSE "COMMENT"
    BY <1>9, <2>2
  <2>6. stage' = "composed"
    BY <1>1
  <2> QED
    BY <2>2, <2>3, <2>4, <2>5, <2>6 DEF Composed, Diagnostics, IsDegraded
<1>11. Verified'
  <2>1. Deals(of)'
    BY <1>1, <1>2, <1>4 DEF Deals
  <2> QED
    BY <1>1, <1>2, <2>1 DEF IInv, Verified, Gathered
<1>12. Fetching' /\ Answered' /\ IsReported(Raw)'
  BY <1>1, <1>2 DEF IInv, Fetching, Answered, Gathered
<1> QED
  BY <1>10, <1>11, <1>12 DEF IInv

(* The deadline leaves nothing reported.                                   *)
LEMMA TimeoutStep == ASSUME IInv, Timeout PROVE IInv'
<1>1. /\ stage' = "failed" /\ stage # "composed" /\ outcomes' = <<>> /\ findings' = <<>>
      /\ UNCHANGED <<changed, adapter, contents, toFetch, selected, review>>
  BY DEF Timeout, input
<1>2. <<>> \in Seq(ToSet(<<>>)) /\ DOMAIN <<>> = {}
  OBVIOUS
<1>3. Fetching'
  BY <1>1 DEF IInv, Fetching
<1>4. Answered'
  <2>1. Reported' = {}
    BY <1>1, <1>2 DEF Reported
  <2> QED
    BY <1>1, <1>2, <2>1 DEF IInv, Answered, Gathered
<1>5. IsReported(Raw)'
  <2>1. Raw' = <<>>
    BY <1>1, NothingReported
  <2> QED
    BY <1>2, <2>1 DEF IsReported
<1>6. Verified' /\ Composed'
  BY <1>1, <1>2 DEF IInv, Verified, Gathered, Composed, NoReview
<1> QED
  BY <1>3, <1>4, <1>5, <1>6 DEF IInv

(* The invariant is inductive.                                             *)
LEMMA NextInvariant == IInv /\ [Next]_vars => IInv'
<1> SUFFICES ASSUME IInv, [Next]_vars PROVE IInv'
  OBVIOUS
<1>1. CASE DetectLanguage \/ GatherFileContents \/ SelectAnalyzers
  BY <1>1, FetchingStep
<1>2. CASE \E source \in selected : AnalyzerReturns(source) \/ AnalyzerRaises(source)
  BY <1>2, AnalyzerStep
<1>3. CASE CollectFindings
  BY <1>3, CollectStep
<1>4. CASE VerifyByPolicy \/ \E verdicts \in Verdicts : VerifyByModel(verdicts)
  BY <1>4, VerifyStep
<1>5. CASE ComposeReview
  BY <1>5, ComposeStep
<1>6. CASE UNCHANGED vars
  <2>1. UNCHANGED <<stage, changed, adapter, contents, toFetch, selected, outcomes, findings, review>>
    BY <1>6 DEF vars, input
  <2>2. Raw' = Raw /\ Reported' = Reported
    BY <2>1 DEF Raw, Reported
  <2>3. Fetching' /\ Answered' /\ IsReported(Raw)'
    BY <2>1, <2>2 DEF IInv, Fetching, Answered, Gathered
  <2>4. Verified'
    <3>1. ASSUME NEW of, Deals(of) PROVE Deals(of)'
      BY <2>1, <2>2, <3>1 DEF Deals
    <3> QED
      BY <2>1, <2>2, <3>1 DEF IInv, Verified, Gathered
  <2>5. Composed'
    BY <2>1 DEF IInv, Composed, NoReview, Diagnostics, IsDegraded
  <2> QED
    BY <2>3, <2>4, <2>5 DEF IInv
<1>7. CASE Timeout
  BY <1>7, TimeoutStep
<1> QED
  BY <1>1, <1>2, <1>3, <1>4, <1>5, <1>6, <1>7 DEF Next, Advance

(* Every reachable state satisfies the invariant.                          *)
LEMMA Invariant == Spec => []IInv
BY InitInvariant, NextInvariant, PTL DEF Spec

-----------------------------------------------------------------------------
(* Which definition the model's findings are about.                        *)

(* A model's finding is fingerprinted with the definition around its start.*)
IsLocated(f) ==
    f.kind = "llm_analyzer" =>
        /\ f.where[1] \in Int
        /\ f.fingerprint[1] = NormalizePath(f.path) /\ f.fingerprint[4] = Symbol(f)

Located ==
    /\ stage \notin {"detect_language", "failed"} => adapter = Select(changed)
    /\ stage \in {"detect_language", "gather_file_contents"} => outcomes = <<>>
    /\ \A i \in DOMAIN Raw : IsLocated(Raw[i])

(* Definitions around one line are nested, so the one that spans the       *)
(* fewest lines is the last visited, and Innermost.                        *)
LEMMA InnermostIsVisitedLast ==
    ASSUME NEW files \in PullRequests, NEW f \in ToSet(files), f.kind = "python", NEW line \in Int
    PROVE  Innermost(f, line) = LET name == EnclosingSymbol("python", f, line)
                                IN  IF name = NoSymbol THEN {} ELSE {name}
<1> DEFINE A == Around(f, line)
           S == {d.last - d.first : d \in A}
<1>1. /\ \A d \in f.definitions :
            d.first \in Int /\ d.last \in Int /\ d.depth \in Int /\ d.name # NoSymbol
      /\ \A d \in f.definitions : \A e \in f.definitions \ {d} : WellNested(d, e)
  BY FilesAssumption
<1>2. \A d \in A : d \in f.definitions /\ d.first <= line /\ line <= d.last
  BY DEF Around, Encloses
<1>3. Innermost(f, line) = {d.name : d \in {d \in A : \A e \in A : e.first <= d.first}}
  BY DEF Innermost, Around
<1> HIDE DEF A
<1>4. CASE A = {}
  <2>1. EnclosingSymbol("python", f, line) = NoSymbol
    BY <1>4 DEF EnclosingSymbol, A
  <2> QED
    BY <1>3, <1>4, <2>1
<1>5. CASE A # {}
  <2>1. \A d \in A : d.last - d.first \in Nat
    BY <1>1, <1>2
  <2>2. PICK m \in S : \A n \in S : m <= n
    <3>1. S \subseteq Nat /\ S # {}
      BY <1>5, <2>1
    <3>2. IsWellFoundedOn({p \in Nat \X Nat : p[1] < p[2]}, Nat)
      BY NatLess
    <3> HIDE DEF S
    <3>3. PICK m \in S : \A n \in S : ~(<<n, m>> \in {p \in Nat \X Nat : p[1] < p[2]})
      BY <3>1, <3>2, WFMin
    <3>4. ASSUME NEW n \in S PROVE m <= n
      <4>1. n \in Nat /\ m \in Nat
        BY <3>1
      <4>2. ~(n < m)
        <5>1. ASSUME n < m PROVE <<n, m>> \in {p \in Nat \X Nat : p[1] < p[2]}
          BY <4>1, <5>1
        <5> QED
          BY <3>3, <5>1
      <4> QED
        BY <4>1, <4>2
    <3> QED
      BY <3>4
  <2>3. PICK d \in A : m = d.last - d.first
    OBVIOUS
  <2>4. ASSUME NEW e \in A \ {d}
        PROVE  e.first < d.first /\ Visited(e, d) /\ ~Visited(d, e)
    <3>1. WellNested(d, e)
      BY <1>1, <1>2
    <3>2. /\ d.first \in Int /\ d.last \in Int /\ e.first \in Int /\ e.last \in Int
          /\ d.first <= line /\ line <= d.last /\ e.first <= line /\ line <= e.last
      BY <1>1, <1>2
    <3>3. d.last - d.first <= e.last - e.first
      BY <2>2, <2>3
    <3>4. e.first < d.first /\ d.last <= e.last /\ e.depth < d.depth
      BY <3>1, <3>2, <3>3 DEF WellNested
    <3>5. d.depth \in Int /\ e.depth \in Int
      BY <1>1, <1>2
    <3> QED
      BY <3>2, <3>4, <3>5 DEF Visited
  <2>5. {d} = {x \in A : \A e \in A : e.first <= x.first}
    <3>1. \A e \in A : e.first \in Int
      BY <1>1, <1>2
    <3>2. \A e \in A : e.first <= d.first
      BY <2>4, <3>1
    <3>3. \A x \in A : (\A e \in A : e.first <= x.first) => x = d
      BY <2>4, <3>1
    <3> QED
      BY <3>2, <3>3
  <2>6. d = CHOOSE x \in A : \A e \in A \ {x} : Visited(e, x)
    <3>1. \A e \in A \ {d} : Visited(e, d)
      BY <2>4
    <3>2. \A x \in A : (\A e \in A \ {x} : Visited(e, x)) => x = d
      BY <2>4
    <3> QED
      BY <3>1, <3>2
  <2>7. EnclosingSymbol("python", f, line) = d.name
    BY <1>5, <2>6 DEF EnclosingSymbol, A
  <2>8. d.name # NoSymbol
    BY <1>1, <1>2
  <2> QED
    BY <1>3, <2>5, <2>7, <2>8
<1> QED
  BY <1>4, <1>5

(* One file of the contents has the path of a finding, so its symbol names *)
(* the innermost definition; no file has a path that is spelled otherwise. *)
LEMMA SymbolIsInnermost ==
    ASSUME IInv, Located, stage = "composed",
           NEW x, x.where[1] \in Int,
           NEW f \in ToSet(contents), f.kind = "python", SamePath(f, x)
    PROVE  Scope(f, x) = IF Symbol(x) = NoSymbol THEN {} ELSE {Symbol(x)}
<1>1. changed \in PullRequests /\ contents \in Seq(ToSet(changed))
  BY DEF IInv, Fetching
<1>2. \A g \in ToSet(contents) : g \in ToSet(changed)
  <2> DEFINE F == ToSet(changed)
  <2>1. contents \in Seq(F)
    BY <1>1
  <2> HIDE DEF F
  <2>2. \A g \in ToSet(contents) : g \in F
    BY <2>1 DEF ToSet
  <2> QED
    BY <2>2 DEF F
<1>3. f \in ToSet(changed)
  BY <1>2
<1>4. adapter = "python"
  BY <1>3 DEF Located, Select
<1>5. \A g \in ToSet(contents) : g.path = Plain(g.path.text) /\ (g.path = f.path => g = f)
  BY <1>1, <1>2, <1>3, PullRequestsAssumption
<1>6. CASE x.path = f.path
  <2>1. {g \in ToSet(contents) : g.path = x.path} = {f}
    BY <1>5, <1>6
  <2>2. Symbol(x) = EnclosingSymbol("python", f, x.where[1])
    <3>1. (CHOOSE g \in {f} : TRUE) = f
      OBVIOUS
    <3> QED
      BY <1>4, <2>1, <3>1 DEF Symbol
  <2> QED
    BY <1>1, <1>3, <1>6, <2>2, InnermostIsVisitedLast DEF Scope
<1>7. CASE x.path # f.path
  <2>1. ASSUME NEW g \in ToSet(contents), g.path = x.path PROVE FALSE
    <3>1. g.path.text = f.path.text
      BY <2>1 DEF SamePath, NormalizePath
    <3> QED
      BY <1>5, <1>7, <2>1, <3>1
  <2>2. {g \in ToSet(contents) : g.path = x.path} = {}
    BY <2>1
  <2> QED
    BY <1>7, <2>2 DEF Scope, Symbol
<1> QED
  BY <1>6, <1>7

(* The findings of an analyzer's outcome are located ...                   *)
LEMMA OutcomeIsLocated ==
    ASSUME NEW source, NEW o \in OutcomesOf(source) \union {Degraded(source, "error")}
    PROVE  \A i \in DOMAIN o.findings : IsLocated(o.findings[i])
<1>1. \A status : Degraded(source, status).findings = <<>>
  BY DEF Degraded, Outcome
<1>2. \A id, raw : FromSemgrep(id, raw).kind = "semgrep" /\ FromPipAudit(id, raw).kind = "pip_audit"
  BY DEF FromSemgrep, FromPipAudit, Finding
<1>3. CASE o \in SemgrepOutcomes
  <2>1. CASE \E status : o = Degraded("semgrep", status)
    BY <2>1 DEF Degraded, Outcome
  <2>2. CASE o = Completed("semgrep", <<>>)
    BY <2>2 DEF Completed, Outcome
  <2>3. CASE \E raws : o = Completed("semgrep", [i \in DOMAIN raws |-> FromSemgrep(FreshId(i), raws[i])])
    <3>1. PICK raws : o = Completed("semgrep", [i \in DOMAIN raws |-> FromSemgrep(FreshId(i), raws[i])])
      BY <2>3
    <3>2. o.findings = [i \in DOMAIN raws |-> FromSemgrep(FreshId(i), raws[i])]
      BY <3>1 DEF Completed, Outcome
    <3>3. \A i \in DOMAIN o.findings : o.findings[i].kind = "semgrep"
      BY <1>2, <3>2
    <3> QED
      BY <3>3 DEF IsLocated
  <2> QED
    BY <1>3, <2>1, <2>2, <2>3 DEF SemgrepOutcomes
<1>4. CASE o \in PipAuditOutcomes
  <2>1. PICK results : o = PipAuditOutcome(results)
    BY <1>4 DEF PipAuditOutcomes
  <2>2. PICK raws : o.findings = [i \in DOMAIN raws |-> FromPipAudit(FreshId(i), raws[i])]
    BY <2>1 DEF PipAuditOutcome, Outcome
  <2>3. \A i \in DOMAIN o.findings : o.findings[i].kind = "pip_audit"
    BY <1>2, <2>2
  <2> QED
    BY <2>3 DEF IsLocated
<1>5. CASE o \in ModelOutcomes(source)
  <2>1. ASSUME NEW raws \in ModelReports,
               o = Completed(source, [i \in DOMAIN raws |-> FromModel(FreshId(i), source, raws[i], Symbol(raws[i]))])
        PROVE  \A i \in DOMAIN o.findings : IsLocated(o.findings[i])
    <3>1. o.findings = [i \in DOMAIN raws |-> FromModel(FreshId(i), source, raws[i], Symbol(raws[i]))]
      BY <2>1 DEF Completed, Outcome
    <3> SUFFICES ASSUME NEW i \in DOMAIN raws PROVE IsLocated(o.findings[i])
      BY <3>1
    <3> DEFINE f == o.findings[i]
    <3>2. f = FromModel(FreshId(i), source, raws[i], Symbol(raws[i]))
      BY <3>1
    <3> HIDE DEF f
    <3>3. /\ f.path = raws[i].path /\ f.where = Clamp(raws[i].where)
          /\ f.fingerprint[1] = NormalizePath(raws[i].path)
      BY <3>2 DEF FromModel, Finding, ComputeFingerprint
    <3>4. f.fingerprint[4] = Symbol(raws[i])
      BY <3>2 DEF FromModel, Finding, ComputeFingerprint
    <3>5. raws[i].where \in Int \X Int
      BY ReportsAssumption
    <3>6. f.where[1] = raws[i].where[1] /\ f.where[1] \in Int
      BY <3>3, <3>5 DEF Clamp
    <3>7. Symbol(f) = Symbol(raws[i])
      BY <3>3, <3>6 DEF Symbol
    <3> QED
      BY <3>3, <3>4, <3>6, <3>7 DEF IsLocated, f
  <2>2. CASE o = Degraded(source, "error")
    BY <1>1, <2>2
  <2> QED
    BY <1>5, <2>1, <2>2 DEF ModelOutcomes
<1> QED
  BY <1>1, <1>3, <1>4, <1>5 DEF OutcomesOf

(* ... also when their ids sort first.                                     *)
LEMMA SortedFirstIsLocated ==
    ASSUME NEW o, \A i \in DOMAIN o.findings : IsLocated(o.findings[i]),
           NEW source, NEW n, Fits(o, source, n)
    PROVE  \A i \in DOMAIN SortedFirst(o).findings : IsLocated(SortedFirst(o).findings[i])
<1> DEFINE found == o.findings
           sorted == [i \in DOMAIN found |-> [found[i] EXCEPT !.id = -@]]
<1>1. SortedFirst(o).findings = sorted
  BY DEF SortedFirst, Fits, IsOutcome
<1>2. \A i \in DOMAIN found : IsFinding(found[i])
  BY DEF Fits, IsFresh
<1> SUFFICES ASSUME NEW i \in DOMAIN found PROVE IsLocated(sorted[i])
  BY <1>1
<1>3. sorted[i] = [found[i] EXCEPT !.id = -found[i].id]
  OBVIOUS
<1>4. IsFinding(found[i]) /\ IsLocated(found[i])
  BY <1>2
<1> DEFINE f == found[i]
           g == sorted[i]
<1>5. g = [f EXCEPT !.id = -f.id] /\ IsFinding(f) /\ IsLocated(f)
  BY <1>3, <1>4
<1> HIDE DEF f, g, found, sorted
<1>6. g.kind = f.kind /\ g.where = f.where /\ g.path = f.path /\ g.fingerprint = f.fingerprint
  BY <1>5 DEF IsFinding
<1>7. Symbol(g) = Symbol(f)
  BY <1>6 DEF Symbol
<1>8. IsLocated(g)
  BY <1>5, <1>6, <1>7 DEF IsLocated
<1> QED
  BY <1>8 DEF g

(* What is located stays so: the contents are those gathered.              *)
LEMMA StaysLocated ==
    ASSUME UNCHANGED <<adapter, contents>>, NEW R, Raw' = R, \A i \in DOMAIN R : IsLocated(R[i])
    PROVE  \A i \in DOMAIN Raw' : IsLocated(Raw[i])'
<1>1. ASSUME NEW i \in DOMAIN R PROVE IsLocated(R[i])'
  BY <1>1 DEF IsLocated, Symbol
<1> QED
  BY <1>1 DEF IsLocated, Symbol

(* So the findings are located in every reachable state.                   *)
LEMMA InitLocated == Init => Located
<1> SUFFICES ASSUME Init PROVE Located
  OBVIOUS
<1>1. Raw = <<>> /\ DOMAIN <<>> = {}
  BY NothingReported DEF Init
<1> QED
  BY <1>1 DEF Init, Located

LEMMA NextLocated == IInv /\ Located /\ [Next]_vars => Located'
<1> SUFFICES ASSUME IInv, Located, [Next]_vars PROVE Located'
  OBVIOUS
<1>1. CASE DetectLanguage \/ GatherFileContents \/ SelectAnalyzers
  <2>1. /\ outcomes' = outcomes /\ outcomes = <<>> /\ stage' # "detect_language"
        /\ adapter' = Select(changed) /\ changed' = changed
    BY <1>1 DEF Located, DetectLanguage, GatherFileContents, SelectAnalyzers, OutOfScope,
                FetchContent, FetchNothing, FetchRaises, NextFile
  <2>2. Raw' = <<>> /\ DOMAIN <<>> = {}
    <3>1. Raw' = Raw
      BY <2>1 DEF Raw
    <3> QED
      BY <2>1, <3>1, NothingReported
  <2>3. \A i \in DOMAIN Raw' : IsLocated(Raw[i])'
    BY <2>2
  <2> QED
    BY <2>1, <2>3 DEF Located
<1>2. CASE \E source \in selected : AnalyzerReturns(source) \/ AnalyzerRaises(source)
  <2>1. PICK source \in selected : AnalyzerReturns(source) \/ AnalyzerRaises(source)
    BY <1>2
  <2>2. PICK o \in OutcomesOf(source) \union {Degraded(source, "error")} :
           /\ Fits(o, source, Len(Raw))
           /\ \E p \in {o, SortedFirst(o)} : Fits(p, source, Len(Raw)) /\ Report(p)
    BY <2>1, OutcomeFits
  <2> PICK p \in {o, SortedFirst(o)} : Fits(p, source, Len(Raw)) /\ Report(p)
    BY <2>2
  <2>3. \A i \in DOMAIN p.findings : IsLocated(p.findings[i])
    <3>1. \A i \in DOMAIN o.findings : IsLocated(o.findings[i])
      BY OutcomeIsLocated
    <3>2. CASE p = SortedFirst(o)
      BY <2>2, <3>1, <3>2, SortedFirstIsLocated
    <3> QED
      BY <2>2, <3>1, <3>2
  <2>4. PICK R : R = Raw \o p.findings
    OBVIOUS
  <2>5. Raw' = R
    BY <2>2, <2>4, RawGrows
  <2>6. \A i \in DOMAIN R : IsLocated(R[i])
    BY <2>3, <2>4 DEF Located
  <2>7. stage = "analyze" /\ UNCHANGED <<stage, changed, adapter, contents>>
    BY <2>2 DEF Report, input
  <2>8. \A i \in DOMAIN Raw' : IsLocated(Raw[i])'
    BY <2>5, <2>6, <2>7, StaysLocated
  <2> QED
    BY <2>7, <2>8 DEF Located
<1>3. CASE CollectFindings \/ VerifyByPolicy \/ (\E verdicts \in Verdicts : VerifyByModel(verdicts))
           \/ ComposeReview \/ UNCHANGED vars
  <2>1. /\ UNCHANGED <<changed, adapter, contents, outcomes>>
        /\ UNCHANGED stage \/ stage \notin {"detect_language", "gather_file_contents", "failed"}
        /\ UNCHANGED stage \/ stage' \notin {"detect_language", "gather_file_contents"}
    BY <1>3 DEF CollectFindings, VerifyByPolicy, VerifyByModel, ComposeReview, vars, input
  <2>2. PICK R : R = Raw
    OBVIOUS
  <2>3. Raw' = R /\ \A i \in DOMAIN R : IsLocated(R[i])
    BY <2>1, <2>2 DEF Raw, Located
  <2>4. \A i \in DOMAIN Raw' : IsLocated(Raw[i])'
    BY <2>1, <2>3, StaysLocated
  <2> QED
    BY <2>1, <2>4 DEF Located
<1>4. CASE Timeout
  <2>1. Raw' = <<>> /\ DOMAIN <<>> = {}
    BY <1>4, NothingReported DEF Timeout
  <2>2. \A i \in DOMAIN Raw' : IsLocated(Raw[i])'
    BY <2>1
  <2>3. outcomes' = <<>> /\ stage' = "failed"
    BY <1>4 DEF Timeout
  <2> QED
    BY <2>2, <2>3 DEF Located
<1> QED
  BY <1>1, <1>2, <1>3, <1>4 DEF Next, Advance

(* A duplicate and the survivor of its group start in one definition.      *)
LEMMA DefinitionShared == IInv /\ Located => DuplicatesShareDefinition
<1> SUFFICES ASSUME IInv, Located, stage = "composed",
                    NEW dup \in ToSet(findings), dup.state = "duplicate", dup.kind = "llm_analyzer"
             PROVE  \E kept \in ToSet(findings) :
                      /\ kept.state # "duplicate" /\ kept.fingerprint = dup.fingerprint
                      /\ \A f \in ToSet(contents) :
                            f.kind = "python" /\ SamePath(f, dup) /\ kept.kind = dup.kind =>
                                Scope(f, kept) = Scope(f, dup)
  BY DEF DuplicatesShareDefinition
<1>1. IsReported(Raw) /\ DOMAIN Raw = 1..Len(Raw)
  BY ReportedFacts DEF IInv
<1>2. PICK of \in [1..Len(findings) -> 1..Len(Raw)] : Deals(of)
  BY DEF IInv, Verified, Gathered
<1>3. \A i \in 1..Len(Raw) : \E p \in 1..Len(findings) : of[p] = i
  BY <1>2 DEF Deals
<1>4. \A f : f \in ToSet(findings) <=> \E p \in 1..Len(findings) : f = findings[p]
  BY PublishedFacts DEF ToSet
<1>5. PICK p \in 1..Len(findings) : dup = findings[p]
  BY <1>4
<1> DEFINE k == Survivor(Raw, of[p])
<1>6. of[p] \in DOMAIN Raw
  BY <1>2, DealtFacts
<1>7. k \in Peers(Raw, of[p]) /\ k \in 1..Len(Raw)
  BY <1>1, <1>6, SurvivorIsBest DEF Survivor, Peers
<1>8. Survivor(Raw, k) = k
  <2>1. Peers(Raw, k) = Peers(Raw, of[p])
    BY <1>1, <1>6, <1>7, PeersShare
  <2> QED
    BY <2>1 DEF Survivor
<1>9. Raw[k].fingerprint = Raw[of[p]].fingerprint
  BY <1>7 DEF Peers
<1> HIDE DEF k
<1>10. PICK q \in 1..Len(findings) : of[q] = k
  BY <1>3, <1>7
<1> DEFINE kept == findings[q]
           a == Raw[of[p]]
           b == Raw[k]
<1>11. /\ dup.fingerprint = a.fingerprint /\ dup.path = a.path /\ dup.where = a.where /\ dup.kind = a.kind
       /\ kept.fingerprint = b.fingerprint /\ kept.path = b.path /\ kept.where = b.where /\ kept.kind = b.kind
  BY <1>2, <1>5, <1>10, DealtFacts
<1>12. kept \in ToSet(findings) /\ kept.state # "duplicate"
  <2>1. kept.state \in {"confirmed", "rejected"}
    BY <1>2, <1>8, <1>10, DealtFacts
  <2> QED
    BY <1>4, <2>1
<1>13. IsLocated(a) /\ IsLocated(b)
  BY <1>1, <1>6, <1>7 DEF Located
<1>14. ASSUME NEW f \in ToSet(contents), f.kind = "python", SamePath(f, dup), kept.kind = dup.kind
       PROVE  Scope(f, kept) = Scope(f, dup)
  <2> HIDE DEF a, b, kept
  <2>1. /\ a.where[1] \in Int /\ b.where[1] \in Int
        /\ a.fingerprint[1] = NormalizePath(a.path) /\ a.fingerprint[4] = Symbol(a)
        /\ b.fingerprint[1] = NormalizePath(b.path) /\ b.fingerprint[4] = Symbol(b)
    BY <1>11, <1>13, <1>14 DEF IsLocated
  <2>2. a.fingerprint = b.fingerprint
    BY <1>9 DEF a, b
  <2>3. SamePath(f, a) /\ SamePath(f, b) /\ Symbol(a) = Symbol(b)
    BY <1>11, <1>14, <2>1, <2>2 DEF SamePath
  <2>4. /\ Scope(f, a) = IF Symbol(a) = NoSymbol THEN {} ELSE {Symbol(a)}
        /\ Scope(f, b) = IF Symbol(b) = NoSymbol THEN {} ELSE {Symbol(b)}
    BY <1>14, <2>1, <2>3, SymbolIsInnermost
  <2>5. Scope(f, kept) = Scope(f, b) /\ Scope(f, dup) = Scope(f, a)
    BY <1>11 DEF Scope
  <2> QED
    BY <2>3, <2>4, <2>5
<1>15. kept.fingerprint = dup.fingerprint
  BY <1>9, <1>11
<1> HIDE DEF kept
<1> QED
  BY <1>12, <1>14, <1>15

-----------------------------------------------------------------------------
(* The variables keep their types: no merge leaves the range of the        *)
(* enums, whatever is reported.                                            *)
THEOREM TypeCorrect == Spec => []TypeOK
BY Invariant, TypesHold, PTL

(* deduplicate is deterministic regardless of input order: what it returns *)
(* is a function of the set of findings, none of them lost or repeated.    *)
THEOREM DedupIsOrderFree == Spec => []DedupIgnoresOrder
BY Invariant, OrderIgnored, PTL

(* Every finding of every analyzer is in the review, rejected, or a        *)
(* duplicate of one that is; no issue is published twice.                  *)
THEOREM FindingsAreAccounted == Spec => []EveryFindingAccounted
BY Invariant, AllAccounted, PTL

(* Changes are requested exactly when a report of a published issue was    *)
(* high or critical: deduplication never loses the worst severity.         *)
THEOREM EventIsJustified == Spec => []EventFollowsReports
BY Invariant, EventFollows, PTL

(* No analyzer fails silently.                                             *)
THEOREM FailuresAreNoted == Spec => []DegradedIsNoted
BY Invariant, FailuresNoted, PTL

(* Two reports of a model are taken for one issue only in one definition:  *)
(* the breadth-first walk finds the innermost, and lines never count.  A   *)
(* path in another spelling finds no file, hence no definition.            *)
THEOREM DuplicatesAreOfOneDefinition == Spec => []DuplicatesShareDefinition
<1>1. Spec => []Located
  BY Invariant, InitLocated, NextLocated, PTL DEF Spec
<1> QED
  BY <1>1, Invariant, DefinitionShared, PTL

=============================================================================
