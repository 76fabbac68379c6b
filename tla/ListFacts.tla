----------------------------- MODULE ListFacts -----------------------------
(***************************************************************************)
(* Facts about lists: induction over them, which entries of its arguments  *)
(* FlattenSeq joins, in which order and at which place, how many of those  *)
(* asleep in a queue a wake-up reaches, and what is left when one leaves   *)
(* it.                                                                     *)
(***************************************************************************)
EXTENDS Integers, Sequences, FiniteSets, SequencesExt, FiniteSetTheorems, SequenceTheorems, TLAPS

(* Induction over numbers and over lists, stated of sets, so that no       *)
(* operator is a parameter.                                                *)
LEMMA NatLess == IsWellFoundedOn({p \in Nat \X Nat : p[1] < p[2]}, Nat)
BY NatLessThanWellFounded DEF OpToRel

LEMMA NumberInduction ==
    ASSUME NEW S, 0 \in S, \A n \in Nat : n \in S => n + 1 \in S
    PROVE  Nat \subseteq S
<1> DEFINE T == Nat \ S
           R == {p \in Nat \X Nat : p[1] < p[2]}
<1> SUFFICES ASSUME T # {} PROVE FALSE
  OBVIOUS
<1>1. IsWellFoundedOn(R, Nat)
  BY NatLess
<1>2. T \subseteq Nat
  OBVIOUS
<1>3. \E x \in T : \A y \in T : ~(<<y, x>> \in R)
  <2> HIDE DEF T, R
  <2> QED BY <1>1, <1>2, WFMin
<1>4. PICK x \in T : \A y \in T : ~(<<y, x>> \in R)
  BY <1>3
<1>5. x # 0 /\ x \in Nat
  OBVIOUS
<1>6. x - 1 \in Nat /\ x - 1 < x
  BY <1>5
<1>7. x - 1 \in S
  BY <1>4, <1>6
<1> QED BY <1>6, <1>7, <1>4

LEMMA ListInduction ==
    ASSUME NEW T, NEW S, <<>> \in S,
           \A s \in Seq(T), e \in T : s \in S => Append(s, e) \in S
    PROVE  Seq(T) \subseteq S
<1> DEFINE N == {n \in Nat : \A s \in Seq(T) : Len(s) = n => s \in S}
<1>1. 0 \in N
  <2> SUFFICES ASSUME NEW s \in Seq(T), Len(s) = 0 PROVE s \in S
    OBVIOUS
  <2>1. s = <<>>
    BY EmptySeq
  <2> QED
    BY <2>1, Zenon
<1>2. ASSUME NEW n \in Nat, n \in N PROVE n + 1 \in N
  <2> SUFFICES ASSUME NEW s \in Seq(T), Len(s) = n + 1 PROVE s \in S
    OBVIOUS
  <2>1. s # <<>>
    BY EmptySeq
  <2>2. PICK r \in Seq(T), e \in T : s = Append(r, e)
    BY <2>1, SequenceEmptyOrAppend
  <2>3. Len(r) = n
    BY <2>2, AppendProperties, LenProperties
  <2>4. r \in S
    BY <2>3, <1>2
  <2> QED
    BY <2>2, <2>4
<1>3. Nat \subseteq N
  <2> HIDE DEF N
  <2> QED
    BY <1>1, <1>2, NumberInduction
<1> QED
  BY <1>3, LenProperties

(* A list all of whose entries are in U is a list over U.                  *)
LEMMA ListOver ==
    ASSUME NEW T, NEW s \in Seq(T), NEW U, \A p \in 1..Len(s) : s[p] \in U
    PROVE  s \in Seq(U)
<1>1. Len(s) \in Nat /\ s \in [1..Len(s) -> T]
  BY LenProperties
<1>2. s \in [1..Len(s) -> U]
  BY <1>1
<1> QED
  BY <1>1, <1>2, SeqDef

(* The entries of a function on 1..n form a list.                          *)
LEMMA FunctionList ==
    ASSUME NEW U, NEW n \in Nat, NEW s \in [1..n -> U]
    PROVE  s \in Seq(U) /\ Len(s) = n /\ DOMAIN s = 1..n
<1>1. s \in Seq(U)
  BY SeqDef
<1> QED
  BY <1>1, LenProperties

(* And so over its own entries.                                            *)
LEMMA ListOfItself ==
    ASSUME NEW T, NEW s \in Seq(T)
    PROVE  s \in Seq(ToSet(s)) /\ DOMAIN s = 1..Len(s) /\ Len(s) \in Nat
<1>1. DOMAIN s = 1..Len(s) /\ Len(s) \in Nat
  BY LenProperties
<1>2. \A p \in 1..Len(s) : s[p] \in ToSet(s)
  BY <1>1 DEF ToSet
<1> QED
  BY <1>1, <1>2, ListOver

(* g is the recursive function of FlattenSeq on the first n lists of ss.   *)
Flattens(g, ss, n) ==
    g = [i \in 1..n |-> IF i = 1 THEN ss[i] ELSE g[i-1] \o ss[i]]

(* Such a g exists for every list of lists ...                             *)
LEMMA FlattensExists ==
    ASSUME NEW T, NEW ss \in Seq(Seq(T)), NEW n \in 0..Len(ss)
    PROVE  \E g \in [1..n -> Seq(T)] : Flattens(g, ss, n)
<1> DEFINE N == {m \in Nat : m <= Len(ss) => \E g \in [1..m -> Seq(T)] : Flattens(g, ss, m)}
<1>0. Len(ss) \in Nat /\ \A i \in 1..Len(ss) : ss[i] \in Seq(T)
  BY LenProperties
<1>1. 0 \in N
  <2> DEFINE g == [i \in 1..0 |-> <<>>]
  <2>1. g \in [1..0 -> Seq(T)] /\ Flattens(g, ss, 0)
    BY DEF Flattens
  <2> QED
    BY <2>1
<1>2. ASSUME NEW m \in Nat, m \in N PROVE m + 1 \in N
  <2> SUFFICES ASSUME m + 1 <= Len(ss)
               PROVE  \E g \in [1..(m+1) -> Seq(T)] : Flattens(g, ss, m + 1)
    OBVIOUS
  <2>1. PICK f \in [1..m -> Seq(T)] : Flattens(f, ss, m)
    BY <1>2, <1>0
  <2> DEFINE g == [i \in 1..(m+1) |-> IF i = m + 1 THEN IF m = 0 THEN ss[i] ELSE f[m] \o ss[i] ELSE f[i]]
  <2>2. g \in [1..(m+1) -> Seq(T)]
    BY <1>0
  <2>3. ASSUME NEW i \in 1..(m+1)
        PROVE  g[i] = IF i = 1 THEN ss[i] ELSE g[i-1] \o ss[i]
    <3>1. CASE i = m + 1
      BY <3>1
    <3>2. CASE i \in 1..m
      <4>1. f[i] = IF i = 1 THEN ss[i] ELSE f[i-1] \o ss[i]
        BY <2>1, <3>2 DEF Flattens
      <4>2. i # m + 1 /\ i - 1 # m + 1 /\ (i # 1 => i - 1 \in 1..(m+1))
        BY <3>2
      <4>3. g[i] = f[i] /\ (i # 1 => g[i-1] = f[i-1])
        BY <4>2
      <4> QED
        BY <4>1, <4>3
    <3> QED
      BY <3>1, <3>2
  <2>4. Flattens(g, ss, m + 1)
    <3> HIDE DEF g
    <3> QED
      BY <2>2, <2>3 DEF Flattens
  <2> HIDE DEF g
  <2> QED
    BY <2>2, <2>4
<1>3. Nat \subseteq N
  <2> HIDE DEF N
  <2> QED
    BY <1>1, <1>2, NumberInduction
<1> QED
  BY <1>3, <1>0

Continues(tt, ss) == Len(ss) <= Len(tt) /\ \A i \in 1..Len(ss) : ss[i] = tt[i]

(* ... it is unique, and begins that of every list that continues ss ...   *)
LEMMA FlattensUnique ==
    ASSUME NEW T, NEW ss \in Seq(Seq(T)), NEW tt \in Seq(Seq(T)),
           Continues(tt, ss), NEW g, Flattens(g, ss, Len(ss)), NEW h, Flattens(h, tt, Len(tt))
    PROVE  \A i \in 1..Len(ss) : g[i] = h[i]
<1> DEFINE N == {j \in Nat : j \in 1..Len(ss) => g[j] = h[j]}
<1>0. /\ Len(ss) \in Nat /\ Len(tt) \in Nat
      /\ Len(ss) <= Len(tt) /\ \A i \in 1..Len(ss) : ss[i] = tt[i]
  BY LenProperties DEF Continues
<1>1. 0 \in N
  OBVIOUS
<1>2. ASSUME NEW j \in Nat, j \in N PROVE j + 1 \in N
  <2> SUFFICES ASSUME j + 1 \in 1..Len(ss) PROVE g[j+1] = h[j+1]
    OBVIOUS
  <2>1. j + 1 \in 1..Len(ss) /\ j + 1 \in 1..Len(tt) /\ (j + 1) - 1 = j
    BY <1>0
  <2>2. g[j+1] = IF j + 1 = 1 THEN ss[j+1] ELSE g[j] \o ss[j+1]
    BY <2>1 DEF Flattens
  <2>3. h[j+1] = IF j + 1 = 1 THEN tt[j+1] ELSE h[j] \o tt[j+1]
    BY <2>1 DEF Flattens
  <2>4. ss[j+1] = tt[j+1]
    BY <1>0
  <2>5. j + 1 = 1 \/ g[j] = h[j]
    BY <1>2
  <2> QED
    BY ONLY <2>2, <2>3, <2>4, <2>5, Zenon
<1>3. Nat \subseteq N
  <2> HIDE DEF N
  <2> QED
    BY <1>1, <1>2, NumberInduction
<1> QED
  BY <1>3

(* ... so its last entry is what FlattenSeq returns.                       *)
LEMMA FlattenLast ==
    ASSUME NEW T, NEW ss \in Seq(Seq(T)), ss # <<>>
    PROVE  \E g \in [1..Len(ss) -> Seq(T)] : Flattens(g, ss, Len(ss)) /\ FlattenSeq(ss) = g[Len(ss)]
<1> DEFINE f == CHOOSE g : Flattens(g, ss, Len(ss))
<1>1. Len(ss) \in Nat /\ Len(ss) # 0
  BY EmptySeq, LenProperties
<1>2. PICK g \in [1..Len(ss) -> Seq(T)] : Flattens(g, ss, Len(ss))
  <2>1. Len(ss) \in 0..Len(ss)
    BY ONLY <1>1
  <2> QED
    BY <2>1, FlattensExists
<1>3. Flattens(f, ss, Len(ss))
  BY <1>2
<1>4. FlattenSeq(ss) = f[Len(ss)]
  BY <1>1 DEF FlattenSeq, Flattens
<1> HIDE DEF f
<1>5. \A i \in 1..Len(ss) : f[i] = g[i]
  <2>1. Continues(ss, ss)
    BY <1>1 DEF Continues
  <2>2. Flattens(g, ss, Len(ss))
    BY <1>2
  <2> QED
    BY ONLY ss \in Seq(Seq(T)), <2>1, <2>2, <1>3, FlattensUnique
<1>6. g[Len(ss)] = f[Len(ss)]
  BY <1>1, <1>5
<1> QED
  BY <1>2, <1>4, <1>6, Zenon

(* Nothing is joined of no lists.                                          *)
LEMMA FlattenEmpty == FlattenSeq(<<>>) = <<>>
BY DEF FlattenSeq

(* The joined list has the entries' type.                                  *)
LEMMA FlattenType == ASSUME NEW T, NEW ss \in Seq(Seq(T)) PROVE FlattenSeq(ss) \in Seq(T)
<1>1. CASE ss = <<>>
  <2>1. FlattenSeq(ss) = <<>>
    BY <1>1, FlattenEmpty, Zenon
  <2> QED
    BY <2>1
<1>2. CASE ss # <<>>
  <2>1. PICK g \in [1..Len(ss) -> Seq(T)] : FlattenSeq(ss) = g[Len(ss)]
    BY <1>2, FlattenLast
  <2>2. Len(ss) \in 1..Len(ss)
    BY <1>2, EmptySeq, LenProperties
  <2> QED
    BY <2>1, <2>2
<1> QED BY <1>1, <1>2

(* One more list is joined at the end.                                     *)
LEMMA FlattenAppend ==
    ASSUME NEW T, NEW ss \in Seq(Seq(T)), NEW s \in Seq(T)
    PROVE  FlattenSeq(Append(ss, s)) = FlattenSeq(ss) \o s
<1>0. PICK tt \in Seq(Seq(T)) : tt = Append(ss, s)
  BY AppendProperties
<1>1. /\ tt \in Seq(Seq(T)) /\ tt # <<>> /\ Len(tt) = Len(ss) + 1 /\ Len(ss) \in Nat
      /\ \A i \in 1..Len(ss) : tt[i] = ss[i]
      /\ tt[Len(ss) + 1] = s
  BY <1>0, AppendProperties, LenProperties
<1>2. PICK h \in [1..Len(tt) -> Seq(T)] : Flattens(h, tt, Len(tt)) /\ FlattenSeq(tt) = h[Len(tt)]
  BY <1>1, FlattenLast
<1>3. h[Len(tt)] = IF Len(tt) = 1 THEN s ELSE h[Len(ss)] \o s
  <2>1. Len(tt) \in 1..Len(tt) /\ Len(tt) - 1 = Len(ss) /\ tt[Len(tt)] = s
    BY <1>1
  <2>2. h = [i \in 1..Len(tt) |-> IF i = 1 THEN tt[i] ELSE h[i-1] \o tt[i]]
    BY <1>2 DEF Flattens
  <2>3. h[Len(tt)] = IF Len(tt) = 1 THEN tt[Len(tt)] ELSE h[Len(tt)-1] \o tt[Len(tt)]
    BY <2>1, <2>2, Zenon
  <2> QED
    BY <2>1, <2>3, Zenon
<1>4. CASE ss = <<>>
  <2>1. Len(ss) = 0 /\ FlattenSeq(ss) = <<>>
    BY <1>4, FlattenEmpty
  <2>2. <<>> \o s = s
    BY ConcatEmptySeq
  <2> QED
    BY <1>1, <1>2, <1>3, <2>1, <2>2, <1>0
<1>5. CASE ss # <<>>
  <2>1. PICK g \in [1..Len(ss) -> Seq(T)] : Flattens(g, ss, Len(ss)) /\ FlattenSeq(ss) = g[Len(ss)]
    BY <1>5, FlattenLast
  <2>2. Len(ss) # 0
    BY <1>5, EmptySeq
  <2>3. \A i \in 1..Len(ss) : g[i] = h[i]
    <3>1. Continues(tt, ss)
      BY <1>1 DEF Continues
    <3>2. \A a, b : Flattens(a, ss, Len(ss)) /\ Flattens(b, tt, Len(tt)) => \A i \in 1..Len(ss) : a[i] = b[i]
      <4> SUFFICES ASSUME NEW a, NEW b, Flattens(a, ss, Len(ss)), Flattens(b, tt, Len(tt))
                   PROVE \A i \in 1..Len(ss) : a[i] = b[i]
        OBVIOUS
      <4> QED BY <3>1, FlattensUnique
    <3> QED
      BY <1>2, <2>1, <3>2
  <2>4. Len(tt) # 1 /\ h[Len(ss)] = g[Len(ss)]
    BY <1>1, <2>2, <2>3
  <2>5. FlattenSeq(tt) = FlattenSeq(ss) \o s
    BY <1>2, <1>3, <2>1, <2>4, Zenon
  <2> QED
    BY <2>5, <1>0, Zenon
<1> QED
  BY <1>4, <1>5

Places(ss) == UNION {{k} \X (1..Len(ss[k])) : k \in 1..Len(ss)}

(* at tells for each place of the list F where in ss it comes from.        *)
Traces(at, F, ss) ==
    /\ at \in [1..Len(F) -> Places(ss)]
    /\ \A p \in 1..Len(F) : F[p] = ss[at[p][1]][at[p][2]]
    /\ \A p, q \in 1..Len(F) :
           p < q => at[p][1] < at[q][1] \/ (at[p][1] = at[q][1] /\ at[p][2] < at[q][2])
    /\ \A c \in Places(ss) : \E p \in 1..Len(F) : at[p] = c

(* A trace of the first lists extends to one more ...                      *)
LEMMA TracesAppend ==
    ASSUME NEW T, NEW ss \in Seq(Seq(T)), NEW s \in Seq(T), NEW F \in Seq(T),
           NEW at, Traces(at, F, ss)
    PROVE  \E bt : Traces(bt, F \o s, Append(ss, s))
<1> DEFINE n == Len(ss)
           bt == [p \in 1..(Len(F) + Len(s)) |-> IF p <= Len(F) THEN at[p] ELSE <<n + 1, p - Len(F)>>]
<1>1. PICK tt : tt = Append(ss, s)
  OBVIOUS
<1>2. PICK G : G = F \o s
  OBVIOUS
<1>3. /\ Len(tt) = n + 1 /\ n \in Nat /\ tt[n + 1] = s
      /\ \A k \in 1..n : tt[k] = ss[k]
  BY <1>1, AppendProperties, LenProperties
<1>4. /\ G \in Seq(T) /\ Len(G) = Len(F) + Len(s) /\ Len(F) \in Nat /\ Len(s) \in Nat
      /\ \A p \in 1..Len(F) : G[p] = F[p]
      /\ \A j \in 1..Len(s) : G[Len(F) + j] = s[j]
  BY <1>2, ConcatProperties, LenProperties
<1>5. /\ at \in [1..Len(F) -> Places(ss)]
      /\ \A p \in 1..Len(F) : F[p] = ss[at[p][1]][at[p][2]]
      /\ \A p, q \in 1..Len(F) :
           p < q => at[p][1] < at[q][1] \/ (at[p][1] = at[q][1] /\ at[p][2] < at[q][2])
      /\ \A c \in Places(ss) : \E p \in 1..Len(F) : at[p] = c
  BY DEF Traces
<1>6. \A c : c \in Places(ss) <=> \E k \in 1..n : \E j \in 1..Len(ss[k]) : c = <<k, j>>
  BY DEF Places
<1>7. \A c : c \in Places(tt) <=> c \in Places(ss) \/ \E j \in 1..Len(s) : c = <<n + 1, j>>
  <2>1. \A c : c \in Places(tt) <=> \E k \in 1..(n+1) : \E j \in 1..Len(tt[k]) : c = <<k, j>>
    BY <1>3 DEF Places
  <2>2. ASSUME NEW c, c \in Places(tt)
        PROVE  c \in Places(ss) \/ \E j \in 1..Len(s) : c = <<n + 1, j>>
    <3>0. PICK k \in 1..(n+1) : \E j \in 1..Len(tt[k]) : c = <<k, j>>
      BY <2>1, <2>2
    <3>1. PICK j \in 1..Len(tt[k]) : c = <<k, j>>
      BY <3>0
    <3>2. CASE k = n + 1
      BY <3>1, <3>2, <1>3
    <3>3. CASE k \in 1..n
      BY <3>1, <3>3, <1>3, <1>6
    <3> QED
      BY <3>2, <3>3, <1>3
  <2>3. ASSUME NEW c, c \in Places(ss) PROVE c \in Places(tt)
    <3>0. PICK k \in 1..n : \E j \in 1..Len(ss[k]) : c = <<k, j>>
      BY <1>6, <2>3
    <3>1. PICK j \in 1..Len(ss[k]) : c = <<k, j>>
      BY <3>0
    <3>2. k \in 1..(n+1) /\ tt[k] = ss[k]
      BY <1>3
    <3> QED
      BY <3>1, <3>2, <2>1
  <2>4. ASSUME NEW j \in 1..Len(s) PROVE <<n + 1, j>> \in Places(tt)
    <3>1. n + 1 \in 1..(n+1) /\ tt[n + 1] = s
      BY <1>3
    <3> QED
      BY <3>1, <2>1
  <2> QED
    BY <2>2, <2>3, <2>4
<1>8. \A p \in 1..Len(F) : bt[p] = at[p] /\ bt[p] \in Places(ss) /\ p \in 1..Len(G)
  <2> SUFFICES ASSUME NEW p \in 1..Len(F)
               PROVE  bt[p] = at[p] /\ at[p] \in Places(ss) /\ p \in 1..Len(G)
    OBVIOUS
  <2>1. p \in 1..(Len(F) + Len(s)) /\ p <= Len(F) /\ p \in 1..Len(G)
    BY <1>4
  <2>2. bt[p] = at[p]
    BY <2>1
  <2> QED
    BY <2>1, <2>2, <1>5
<1>9. \A p \in (Len(F) + 1)..Len(G) : bt[p] = <<n + 1, p - Len(F)>> /\ p - Len(F) \in 1..Len(s)
  BY <1>4
<1>10. bt \in [1..Len(G) -> Places(tt)]
  <2>1. \A p \in 1..Len(G) : bt[p] \in Places(tt)
    <3> HIDE DEF bt
    <3> SUFFICES ASSUME NEW p \in 1..Len(G) PROVE bt[p] \in Places(tt)
      OBVIOUS
    <3>1. p \in 1..Len(F) \/ p \in (Len(F) + 1)..Len(G)
      BY <1>4
    <3> QED
      BY <3>1, <1>7, <1>8, <1>9
  <2> QED
    BY <2>1, <1>4
<1>11. \A p \in 1..Len(G) : G[p] = tt[bt[p][1]][bt[p][2]]
  <2> SUFFICES ASSUME NEW p \in 1..Len(G) PROVE G[p] = tt[bt[p][1]][bt[p][2]]
    OBVIOUS
  <2> HIDE DEF bt
  <2>1. CASE p \in 1..Len(F)
    <3>1. bt[p] = at[p] /\ at[p] \in Places(ss)
      BY <2>1, <1>8
    <3>2. at[p][1] \in 1..n
      BY <3>1, <1>6
    <3>3. tt[at[p][1]] = ss[at[p][1]]
      BY <3>2, <1>3
    <3>4. G[p] = F[p] /\ F[p] = ss[at[p][1]][at[p][2]]
      BY <2>1, <1>4, <1>5
    <3> QED
      BY <3>1, <3>3, <3>4, Zenon
  <2>2. CASE p \in (Len(F) + 1)..Len(G)
    <3>1. bt[p][1] = n + 1 /\ bt[p][2] = p - Len(F) /\ p - Len(F) \in 1..Len(s) /\ Len(F) + (p - Len(F)) = p
      BY <2>2, <1>9, <1>4
    <3>2. G[p] = s[p - Len(F)]
      BY <3>1, <1>4
    <3> QED
      BY <3>1, <3>2, <1>3
  <2> QED
    BY <2>1, <2>2, <1>4
<1>12. \A p, q \in 1..Len(G) :
           p < q => bt[p][1] < bt[q][1] \/ (bt[p][1] = bt[q][1] /\ bt[p][2] < bt[q][2])
  <2> SUFFICES ASSUME NEW p \in 1..Len(G), NEW q \in 1..Len(G), p < q
               PROVE  bt[p][1] < bt[q][1] \/ (bt[p][1] = bt[q][1] /\ bt[p][2] < bt[q][2])
    OBVIOUS
  <2> HIDE DEF bt
  <2>1. CASE q \in 1..Len(F)
    <3>1. p \in 1..Len(F)
      BY <2>1, <1>4
    <3> QED
      BY <2>1, <3>1, <1>5, <1>8
  <2>2. CASE q \in (Len(F) + 1)..Len(G) /\ p \in 1..Len(F)
    <3>1. bt[p][1] \in 1..n
      BY <2>2, <1>6, <1>8
    <3>2. bt[q][1] = n + 1
      BY <2>2, <1>9
    <3> QED
      BY <3>1, <3>2, <1>3
  <2>3. CASE q \in (Len(F) + 1)..Len(G) /\ p \in (Len(F) + 1)..Len(G)
    <3>1. bt[p] = <<n + 1, p - Len(F)>> /\ bt[q] = <<n + 1, q - Len(F)>>
      BY <2>3, <1>9
    <3> QED
      BY <3>1, <1>4
  <2> QED
    BY <2>1, <2>2, <2>3, <1>4
<1>13. \A c \in Places(tt) : \E p \in 1..Len(G) : bt[p] = c
  <2> SUFFICES ASSUME NEW c \in Places(tt) PROVE \E p \in 1..Len(G) : bt[p] = c
    OBVIOUS
  <2> HIDE DEF bt
  <2>1. CASE c \in Places(ss)
    BY <2>1, <1>5, <1>8
  <2>2. CASE \E j \in 1..Len(s) : c = <<n + 1, j>>
    <3>1. PICK j \in 1..Len(s) : c = <<n + 1, j>>
      BY <2>2
    <3>2. Len(F) + j \in (Len(F) + 1)..Len(G) /\ (Len(F) + j) - Len(F) = j /\ Len(F) + j \in 1..Len(G)
      BY <1>4
    <3> QED
      BY <3>1, <3>2, <1>9
  <2> QED
    BY <2>1, <2>2, <1>7
<1>14. Traces(bt, G, tt)
  <2> HIDE DEF bt
  <2> QED
    BY <1>10, <1>11, <1>12, <1>13 DEF Traces
<1> HIDE DEF bt
<1> QED
  BY <1>1, <1>2, <1>14

(* ... so every joined list can be traced to the lists it is made of.      *)
LEMMA FlattenTraces ==
    ASSUME NEW T, NEW ss \in Seq(Seq(T))
    PROVE  \E at : Traces(at, FlattenSeq(ss), ss)
<1> DEFINE S == {r \in Seq(Seq(T)) : \E at : Traces(at, FlattenSeq(r), r)}
<1>1. <<>> \in S
  <2>1. FlattenSeq(<<>>) = <<>> /\ <<>> \in Seq(Seq(T)) /\ Len(<<>>) = 0
    BY FlattenEmpty, EmptySeq
  <2>2. Places(<<>>) = {}
    BY <2>1 DEF Places
  <2>3. Traces([p \in 1..0 |-> 0], <<>>, <<>>)
    BY <2>1, <2>2 DEF Traces
  <2> QED
    BY <2>1, <2>3
<1>2. ASSUME NEW r \in Seq(Seq(T)), NEW s \in Seq(T), r \in S
      PROVE  Append(r, s) \in S
  <2>1. PICK at : Traces(at, FlattenSeq(r), r)
    BY <1>2
  <2>2. FlattenSeq(r) \in Seq(T)
    BY FlattenType
  <2>3. \E bt : Traces(bt, FlattenSeq(r) \o s, Append(r, s))
    BY <2>1, <2>2, TracesAppend
  <2>4. FlattenSeq(Append(r, s)) = FlattenSeq(r) \o s
    BY FlattenAppend
  <2>5. Append(r, s) \in Seq(Seq(T))
    BY AppendProperties
  <2> QED
    BY <2>3, <2>4, <2>5
<1>3. Seq(Seq(T)) \subseteq S
  <2> HIDE DEF S
  <2> QED
    BY <1>1, <1>2, ListInduction
<1> QED
  BY <1>3

(* from tells for each place of the list R which place of s it is.         *)
Selects(from, R, s, places) ==
    /\ from \in [1..Len(R) -> 1..Len(s)]
    /\ \A p \in 1..Len(R) : from[p] \in places /\ R[p] = s[from[p]]
    /\ \A p, q \in 1..Len(R) : p < q => from[p] < from[q]
    /\ \A i \in 1..Len(s) : i \in places => \E p \in 1..Len(R) : from[p] = i

(* A list of at most one entry for each place of s, joined, keeps the      *)
(* entries at the given places, in their order.                            *)
LEMMA SingletonsSelect ==
    ASSUME NEW T, NEW s \in Seq(T), NEW places, NEW ss \in Seq(Seq(T)),
           Len(ss) = Len(s),
           \A i \in 1..Len(s) : ss[i] = IF i \in places THEN <<s[i]>> ELSE <<>>
    PROVE  /\ FlattenSeq(ss) \in Seq(T)
           /\ \E from : Selects(from, FlattenSeq(ss), s, places)
<1>1. DOMAIN s = 1..Len(s) /\ Len(s) \in Nat /\ \A i \in 1..Len(s) : s[i] \in T
  BY LenProperties, ElementOfSeq
<1>2. ss \in Seq(Seq(T)) /\ Len(ss) = Len(s)
  OBVIOUS
<1>3. PICK R : R = FlattenSeq(ss)
  OBVIOUS
<1>4. R \in Seq(T)
  BY <1>2, <1>3, FlattenType
<1>5. PICK at : Traces(at, R, ss)
  BY <1>2, <1>3, FlattenTraces
<1>6. \A i \in 1..Len(s) : /\ i \in places => Len(ss[i]) = 1 /\ ss[i][1] = s[i]
                           /\ i \notin places => Len(ss[i]) = 0
  <2> SUFFICES ASSUME NEW i \in 1..Len(s)
               PROVE  /\ i \in places => Len(ss[i]) = 1 /\ ss[i][1] = s[i]
                      /\ i \notin places => Len(ss[i]) = 0
    OBVIOUS
  <2>1. ss[i] = IF i \in places THEN <<s[i]>> ELSE <<>>
    OBVIOUS
  <2> QED
    BY ONLY <2>1
<1>7. \A c : c \in Places(ss) <=> \E i \in 1..Len(s) : i \in places /\ c = <<i, 1>>
  <2>1. \A c : c \in Places(ss) <=> \E i \in 1..Len(s) : \E j \in 1..Len(ss[i]) : c = <<i, j>>
    BY <1>2 DEF Places
  <2>2. ASSUME NEW i \in 1..Len(s), NEW j \in 1..Len(ss[i]) PROVE i \in places /\ j = 1
    <3>1. CASE i \in places
      <4>1. Len(ss[i]) = 1
        BY <3>1, <1>6
      <4> QED
        BY <3>1, <4>1
    <3>2. CASE i \notin places
      <4>1. Len(ss[i]) = 0
        BY <3>2, <1>6
      <4> QED
        BY <4>1
    <3> QED
      BY <3>1, <3>2
  <2>3. \A i \in 1..Len(s) : i \in places => 1 \in 1..Len(ss[i])
    BY <1>6
  <2> QED
    BY <2>1, <2>2, <2>3
<1> DEFINE from == [p \in 1..Len(R) |-> at[p][1]]
<1>8. \A p \in 1..Len(R) : from[p] = at[p][1] /\ from[p] \in 1..Len(s) /\ from[p] \in places /\ at[p] = <<from[p], 1>>
  <2> SUFFICES ASSUME NEW p \in 1..Len(R)
               PROVE  at[p][1] \in 1..Len(s) /\ at[p][1] \in places /\ at[p] = <<at[p][1], 1>>
    OBVIOUS
  <2>1. at[p] \in Places(ss)
    BY <1>5 DEF Traces
  <2> QED
    BY <2>1, <1>7
<1> HIDE DEF from
<1>9. \A p \in 1..Len(R) : R[p] = s[from[p]]
  <2> SUFFICES ASSUME NEW p \in 1..Len(R) PROVE R[p] = s[from[p]]
    OBVIOUS
  <2>1. R[p] = ss[at[p][1]][at[p][2]]
    BY <1>5 DEF Traces
  <2>2. at[p][1] = from[p] /\ at[p][2] = 1
    BY <1>8
  <2>3. R[p] = ss[from[p]][1]
    BY ONLY <2>1, <2>2, Zenon
  <2> QED
    BY <2>3, <1>6, <1>8
<1>10. \A p, q \in 1..Len(R) : p < q => from[p] < from[q]
  <2> SUFFICES ASSUME NEW p \in 1..Len(R), NEW q \in 1..Len(R), p < q PROVE from[p] < from[q]
    OBVIOUS
  <2>1. at[p][1] < at[q][1] \/ (at[p][1] = at[q][1] /\ at[p][2] < at[q][2])
    BY <1>5 DEF Traces
  <2>2. at[p][2] = 1 /\ at[q][2] = 1 /\ at[p][1] = from[p] /\ at[q][1] = from[q]
    BY <1>8
  <2> QED
    BY <2>1, <2>2
<1>11. ASSUME NEW i \in 1..Len(s), i \in places PROVE \E p \in 1..Len(R) : from[p] = i
  <2>1. <<i, 1>> \in Places(ss)
    BY <1>7, <1>11
  <2>2. PICK p \in 1..Len(R) : at[p] = <<i, 1>>
    BY <2>1, <1>5 DEF Traces
  <2>3. at[p] = <<from[p], 1>>
    BY <1>8
  <2>4. from[p] = i
    BY ONLY <2>2, <2>3
  <2> QED
    BY <2>4
<1>12. from \in [1..Len(R) -> 1..Len(s)]
  BY <1>8 DEF from
<1>13. Selects(from, R, s, places)
  BY <1>8, <1>9, <1>10, <1>11, <1>12 DEF Selects
<1> QED
  BY <1>3, <1>4, <1>13

(* A list is the one before it with one more entry.                        *)
LEMMA AppendIs ==
    ASSUME NEW T, NEW s \in Seq(T), NEW t \in Seq(T), Len(t) = Len(s) + 1, Continues(t, s)
    PROVE  t = Append(s, t[Len(t)])
<1>0. Len(s) \in Nat /\ Len(t) \in 1..Len(t)
  BY LenProperties
<1>1. t[Len(t)] \in T
  BY <1>0, ElementOfSeq
<1>2. PICK u : u = Append(s, t[Len(t)])
  OBVIOUS
<1>3. /\ u \in Seq(T) /\ Len(u) = Len(s) + 1
      /\ \A i \in 1..Len(s) : u[i] = s[i]
      /\ u[Len(s) + 1] = t[Len(t)]
  BY <1>1, <1>2, AppendProperties
<1>4. \A i \in 1..Len(t) : t[i] = u[i]
  BY <1>0, <1>3 DEF Continues
<1>5. t = u
  BY <1>3, <1>4, SeqEqual
<1> QED
  BY <1>2, <1>5

(* One list more is joined at the end.                                     *)
LEMMA FlattenGrows ==
    ASSUME NEW T, NEW ss \in Seq(Seq(T)), NEW tt \in Seq(Seq(T)),
           Len(tt) = Len(ss) + 1, Continues(tt, ss)
    PROVE  FlattenSeq(tt) = FlattenSeq(ss) \o tt[Len(tt)]
<1>0. Len(ss) \in Nat /\ Len(tt) \in 1..Len(tt)
  BY LenProperties
<1>1. tt[Len(tt)] \in Seq(T)
  BY <1>0, ElementOfSeq
<1>2. tt = Append(ss, tt[Len(tt)])
  BY AppendIs
<1>3. FlattenSeq(Append(ss, tt[Len(tt)])) = FlattenSeq(ss) \o tt[Len(tt)]
  BY <1>1, FlattenAppend
<1> QED
  BY <1>2, <1>3

(* What the first n lists of ss join to.                                   *)
Joined(ss, n) == FlattenSeq(SubSeq(ss, 1, n))

LEMMA JoinedSteps ==
    ASSUME NEW T, NEW ss \in Seq(Seq(T))
    PROVE  /\ \A n \in 0..Len(ss) : Joined(ss, n) \in Seq(T)
           /\ Joined(ss, 0) = <<>>
           /\ \A n \in 1..Len(ss) : Joined(ss, n) = Joined(ss, n - 1) \o ss[n]
           /\ Joined(ss, Len(ss)) = FlattenSeq(ss)
<1>0. Len(ss) \in Nat /\ \A i \in 1..Len(ss) : ss[i] \in Seq(T)
  BY LenProperties, ElementOfSeq
<1>1. ASSUME NEW n \in 0..Len(ss)
      PROVE  /\ SubSeq(ss, 1, n) \in Seq(Seq(T))
             /\ Len(SubSeq(ss, 1, n)) = n
             /\ \A i \in 1..n : SubSeq(ss, 1, n)[i] = ss[i]
  <2>1. \A i \in 1..n : ss[i] \in Seq(T)
    BY <1>0
  <2>2. 1 \in Int /\ n \in Int /\ n - 1 + 1 = n /\ \A i \in 1..n : 1 + i - 1 = i
    BY <1>0
  <2> QED
    BY <1>0, <2>1, <2>2, SubSeqProperties
<1>2. \A n \in 0..Len(ss) : Joined(ss, n) \in Seq(T)
  BY <1>1, FlattenType DEF Joined
<1>3. Joined(ss, 0) = <<>>
  <2>1. SubSeq(ss, 1, 0) = <<>>
    BY SubSeqEmpty
  <2> QED
    BY <2>1, FlattenEmpty DEF Joined
<1>4. ASSUME NEW n \in 1..Len(ss) PROVE Joined(ss, n) = Joined(ss, n - 1) \o ss[n]
  <2>0. n - 1 \in 0..Len(ss) /\ n \in 0..Len(ss) /\ n = (n - 1) + 1 /\ n \in 1..n
        /\ \A i \in 1..(n-1) : i \in 1..n
    BY <1>0
  <2>1. PICK rr : rr = SubSeq(ss, 1, n - 1)
    OBVIOUS
  <2>2. PICK tt : tt = SubSeq(ss, 1, n)
    OBVIOUS
  <2>3. rr \in Seq(Seq(T)) /\ Len(rr) = n - 1 /\ \A i \in 1..(n-1) : rr[i] = ss[i]
    BY <2>0, <2>1, <1>1
  <2>4. tt \in Seq(Seq(T)) /\ Len(tt) = n /\ \A i \in 1..n : tt[i] = ss[i]
    BY <2>0, <2>2, <1>1
  <2>5. Continues(tt, rr)
    <3>1. n - 1 <= n
      BY <1>0
    <3>2. \A i \in 1..(n-1) : rr[i] = tt[i]
      BY <2>0, <2>3, <2>4
    <3> QED
      BY <2>3, <2>4, <3>1, <3>2 DEF Continues
  <2>6. FlattenSeq(tt) = FlattenSeq(rr) \o tt[n]
    BY <2>0, <2>3, <2>4, <2>5, FlattenGrows
  <2> QED
    BY <2>0, <2>1, <2>2, <2>4, <2>6 DEF Joined
<1>5. Joined(ss, Len(ss)) = FlattenSeq(ss)
  BY SubSeqFull DEF Joined
<1> QED
  BY <1>2, <1>3, <1>4, <1>5

(* More lists join to a list that continues.                               *)
LEMMA JoinedContinues ==
    ASSUME NEW T, NEW ss \in Seq(Seq(T)), NEW m \in 0..Len(ss), NEW n \in m..Len(ss)
    PROVE  Continues(Joined(ss, n), Joined(ss, m))
<1> DEFINE S == {k \in Nat : m + k <= Len(ss) => Continues(Joined(ss, m + k), Joined(ss, m))}
<1>0. Len(ss) \in Nat /\ m \in Nat /\ \A k \in 0..Len(ss) : Joined(ss, k) \in Seq(T)
  <2>1. Len(ss) \in Nat
    BY LenProperties
  <2>2. \A k \in 0..Len(ss) : Joined(ss, k) \in Seq(T)
    BY JoinedSteps
  <2>3. m \in Nat
    BY <2>1
  <2> QED
    BY <2>1, <2>2, <2>3
<1>1. 0 \in S
  BY <1>0, LenProperties DEF Continues
<1>2. ASSUME NEW k \in Nat, k \in S PROVE k + 1 \in S
  <2> SUFFICES ASSUME m + (k + 1) <= Len(ss)
               PROVE  Continues(Joined(ss, m + (k + 1)), Joined(ss, m))
    OBVIOUS
  <2>1. m + (k + 1) \in 1..Len(ss) /\ (m + (k + 1)) - 1 = m + k /\ m + k \in 0..Len(ss)
    BY <1>0
  <2>2. PICK A \in Seq(T) : A = Joined(ss, m)
    BY <1>0
  <2>3. PICK B \in Seq(T) : B = Joined(ss, m + k)
    BY <1>0, <2>1
  <2>4. PICK c \in Seq(T) : c = ss[m + (k + 1)]
    BY <2>1, ElementOfSeq
  <2>5. Joined(ss, m + (k + 1)) = B \o c
    BY <2>1, <2>3, <2>4, JoinedSteps
  <2>6. Continues(B, A)
    BY <1>2, <2>1, <2>2, <2>3
  <2>7. Len(A) \in Nat /\ Len(B) \in Nat /\ Len(c) \in Nat
    BY LenProperties
  <2>8. Len(B \o c) = Len(B) + Len(c) /\ \A i \in 1..Len(B) : (B \o c)[i] = B[i]
    BY <2>7, ConcatProperties
  <2>9. Continues(B \o c, A)
    BY <2>6, <2>7, <2>8 DEF Continues
  <2> QED
    BY <2>2, <2>5, <2>9
<1>3. Nat \subseteq S
  <2> HIDE DEF S
  <2> QED
    BY <1>1, <1>2, NumberInduction
<1>4. n - m \in Nat /\ m + (n - m) = n /\ n <= Len(ss)
  BY <1>0
<1> QED
  BY <1>3, <1>4

(* Where the entries of the n-th list are in the joined list, and what     *)
(* comes before them.                                                      *)
LEMMA JoinedPlaces ==
    ASSUME NEW T, NEW ss \in Seq(Seq(T)), NEW n \in 1..Len(ss)
    PROVE  LET F == FlattenSeq(ss)
               d == Len(Joined(ss, n - 1))
           IN  /\ d \in Nat /\ Len(ss[n]) \in Nat /\ Len(F) \in Nat
               /\ Len(Joined(ss, n)) = d + Len(ss[n])
               /\ d + Len(ss[n]) <= Len(F)
               /\ \A i \in 1..d : F[i] = Joined(ss, n - 1)[i]
               /\ \A i \in 1..Len(ss[n]) : F[d + i] = ss[n][i]
<1>0. Len(ss) \in Nat /\ n - 1 \in 0..Len(ss) /\ n \in 0..Len(ss) /\ Len(ss) \in 0..Len(ss)
      /\ n - 1 \in 0..n /\ n \in n..Len(ss) /\ Len(ss) \in n..Len(ss)
  BY LenProperties
<1>1. PICK A \in Seq(T) : A = Joined(ss, n - 1)
  BY <1>0, JoinedSteps
<1>2. PICK B \in Seq(T) : B = Joined(ss, n)
  BY <1>0, JoinedSteps
<1>3. PICK F \in Seq(T) : F = FlattenSeq(ss)
  BY FlattenType
<1>4. PICK c \in Seq(T) : c = ss[n]
  BY ElementOfSeq
<1>5. B = A \o c
  BY <1>1, <1>2, <1>4, JoinedSteps
<1>6. Continues(F, B)
  BY <1>0, <1>2, <1>3, JoinedSteps, JoinedContinues
<1>7. Len(A) \in Nat /\ Len(B) \in Nat /\ Len(c) \in Nat /\ Len(F) \in Nat
  BY LenProperties
<1>8. /\ Len(B) = Len(A) + Len(c)
      /\ \A i \in 1..Len(A) : B[i] = A[i]
      /\ \A i \in 1..Len(c) : B[Len(A) + i] = c[i]
  <2>1. /\ Len(B) = Len(A) + Len(c)
        /\ \A i \in 1..(Len(A) + Len(c)) : B[i] = IF i <= Len(A) THEN A[i] ELSE c[i - Len(A)]
    BY <1>5, ConcatProperties
  <2>2. \A i \in 1..Len(c) : Len(A) + i \in 1..(Len(A) + Len(c)) /\ ~(Len(A) + i <= Len(A))
                             /\ (Len(A) + i) - Len(A) = i
    BY <1>7
  <2> QED
    BY <1>7, <2>1, <2>2
<1>9. /\ Len(B) <= Len(F)
      /\ \A i \in 1..Len(A) : F[i] = A[i]
      /\ \A i \in 1..Len(c) : F[Len(A) + i] = c[i]
  <2>1. Len(B) <= Len(F) /\ \A i \in 1..Len(B) : F[i] = B[i]
    BY ONLY <1>6 DEF Continues
  <2>2. \A i \in 1..Len(A) : i \in 1..Len(B)
    BY ONLY <1>7, <1>8
  <2>3. \A i \in 1..Len(c) : Len(A) + i \in 1..Len(B)
    BY ONLY <1>7, <1>8
  <2> QED
    BY ONLY <1>8, <2>1, <2>2, <2>3
<1> QED
  BY <1>1, <1>2, <1>3, <1>4, <1>7, <1>8, <1>9

(* Every entry of the joined list is an entry of one of the lists.         *)
LEMMA JoinedCovers ==
    ASSUME NEW T, NEW ss \in Seq(Seq(T)), NEW p \in 1..Len(FlattenSeq(ss))
    PROVE  \E n \in 1..Len(ss) : \E i \in 1..Len(ss[n]) : p = Len(Joined(ss, n - 1)) + i
<1> DEFINE Covered(k) == \A q \in 1..Len(Joined(ss, k)) :
                           \E n \in 1..k : \E i \in 1..Len(ss[n]) : q = Len(Joined(ss, n - 1)) + i
           S == {k \in Nat : k <= Len(ss) => Covered(k)}
<1>0. Len(ss) \in Nat
  BY LenProperties
<1>1. 0 \in S
  <2>1. Joined(ss, 0) = <<>>
    BY JoinedSteps
  <2>2. Len(Joined(ss, 0)) = 0
    BY <2>1, EmptySeq
  <2> QED
    BY <2>2
<1>2. ASSUME NEW k \in Nat, k \in S PROVE k + 1 \in S
  <2> SUFFICES ASSUME k + 1 <= Len(ss), NEW q \in 1..Len(Joined(ss, k + 1))
               PROVE  \E n \in 1..(k+1) : \E i \in 1..Len(ss[n]) : q = Len(Joined(ss, n - 1)) + i
    OBVIOUS
  <2>1. k + 1 \in 1..Len(ss) /\ (k + 1) - 1 = k
    BY <1>0
  <2>2. /\ Len(Joined(ss, k)) \in Nat /\ Len(ss[k + 1]) \in Nat
        /\ Len(Joined(ss, k + 1)) = Len(Joined(ss, k)) + Len(ss[k + 1])
    <3>1. PICK m \in 1..Len(ss) : m = k + 1 /\ m - 1 = k
      BY ONLY <2>1
    <3>2. /\ Len(Joined(ss, m - 1)) \in Nat /\ Len(ss[m]) \in Nat
          /\ Len(Joined(ss, m)) = Len(Joined(ss, m - 1)) + Len(ss[m])
      BY JoinedPlaces
    <3> QED
      BY ONLY <3>1, <3>2
  <2>3. CASE q <= Len(Joined(ss, k))
    <3>0. Covered(k)
      <4> HIDE DEF Covered
      <4> QED
        BY <1>2, <2>1
    <3>1. q \in 1..Len(Joined(ss, k))
      BY <2>2, <2>3
    <3>2. PICK n \in 1..k : \E i \in 1..Len(ss[n]) : q = Len(Joined(ss, n - 1)) + i
      BY <3>0, <3>1
    <3>3. n \in 1..(k + 1)
      OBVIOUS
    <3> QED
      BY <3>2, <3>3
  <2>4. CASE ~(q <= Len(Joined(ss, k)))
    <3>1. q - Len(Joined(ss, k)) \in 1..Len(ss[k + 1])
          /\ q = Len(Joined(ss, k)) + (q - Len(Joined(ss, k)))
      BY <2>2, <2>4
    <3>2. k + 1 \in 1..(k + 1)
      OBVIOUS
    <3> QED
      BY <2>1, <3>1, <3>2
  <2> QED
    BY <2>3, <2>4
<1>3. Nat \subseteq S
  <2> HIDE DEF S
  <2> QED
    BY <1>1, <1>2, NumberInduction
<1>4. Covered(Len(ss))
  <2> HIDE DEF Covered
  <2>1. Len(ss) \in S
    BY <1>0, <1>3
  <2>2. Len(ss) <= Len(ss)
    BY <1>0
  <2> QED
    BY <2>1, <2>2
<1>5. Joined(ss, Len(ss)) = FlattenSeq(ss)
  BY JoinedSteps
<1> QED
  BY <1>4, <1>5

(* Two increasing lists of the same numbers are the same list.             *)
Increasing(s) == \A i, j \in 1..Len(s) : i < j => s[i] < s[j]
Covers(s, t) == \A i \in 1..Len(t) : \E j \in 1..Len(s) : s[j] = t[i]

LEMMA IncreasingShorter ==
    ASSUME NEW s \in Seq(Nat), NEW t \in Seq(Nat), Increasing(s), Increasing(t),
           Covers(t, s), Covers(s, t)
    PROVE  \A i \in 1..Len(s) : i <= Len(t) /\ s[i] = t[i]
<1> DEFINE Same(k) == \A i \in 1..k : i <= Len(s) => i <= Len(t) /\ s[i] = t[i]
           S == {k \in Nat : Same(k)}
<1>0. /\ Len(s) \in Nat /\ Len(t) \in Nat
      /\ \A i \in 1..Len(s) : s[i] \in Nat
      /\ \A i \in 1..Len(t) : t[i] \in Nat
  BY LenProperties, ElementOfSeq
<1>1. 0 \in S
  OBVIOUS
<1>2. ASSUME NEW k \in Nat, Same(k) PROVE Same(k + 1)
  <2>1. ASSUME k + 1 <= Len(s) PROVE k + 1 <= Len(t) /\ s[k + 1] = t[k + 1]
    <3>0. \A i \in 1..k : i \in 1..Len(s) /\ i \in 1..Len(t) /\ s[i] = t[i]
      BY <1>0, <1>2, <2>1
    <3>1. k + 1 \in 1..Len(s)
      BY <1>0, <2>1
    <3>2. PICK j \in 1..Len(t) : t[j] = s[k + 1]
      BY <3>1 DEF Covers
    <3>3. j > k
      <4> SUFFICES ASSUME j \in 1..k PROVE FALSE
        BY <1>0
      <4>1. s[j] = s[k + 1] /\ j < k + 1 /\ j \in 1..Len(s)
        BY <3>0, <3>2
      <4>2. s[j] < s[k + 1]
        BY <3>1, <4>1 DEF Increasing
      <4>3. s[k + 1] \in Nat
        BY <3>1, <1>0
      <4> QED
        BY <4>1, <4>2, <4>3
    <3>4. k + 1 \in 1..Len(t)
      BY <3>3, <1>0
    <3>5. PICK i \in 1..Len(s) : s[i] = t[k + 1]
      BY <3>4 DEF Covers
    <3>6. i > k
      <4> SUFFICES ASSUME i \in 1..k PROVE FALSE
        BY <1>0
      <4>1. t[i] = t[k + 1] /\ i < k + 1 /\ i \in 1..Len(t)
        BY <3>0, <3>5
      <4>2. t[i] < t[k + 1]
        BY <3>4, <4>1 DEF Increasing
      <4>3. t[k + 1] \in Nat
        BY <3>4, <1>0
      <4> QED
        BY <4>1, <4>2, <4>3
    <3>7. s[k + 1] \in Nat /\ t[k + 1] \in Nat /\ i \in Nat /\ j \in Nat
      BY <3>1, <3>4, <1>0
    <3>8. s[k + 1] <= t[k + 1]
      <4>1. CASE i = k + 1
        BY <4>1, <3>5, <3>7
      <4>2. CASE i > k + 1
        <5>1. s[k + 1] < s[i]
          BY <4>2, <3>1 DEF Increasing
        <5> QED
          BY <5>1, <3>5, <3>7
      <4> QED
        BY <4>1, <4>2, <3>6, <3>7
    <3>9. t[k + 1] <= s[k + 1]
      <4>1. CASE j = k + 1
        BY <4>1, <3>2, <3>7
      <4>2. CASE j > k + 1
        <5>1. t[k + 1] < t[j]
          BY <4>2, <3>4 DEF Increasing
        <5> QED
          BY <5>1, <3>2, <3>7
      <4> QED
        BY <4>1, <4>2, <3>3, <3>7
    <3> QED
      BY <3>4, <3>7, <3>8, <3>9, <1>0
  <2>2. \A i \in 1..(k+1) : i \in 1..k \/ i = k + 1
    OBVIOUS
  <2> QED
    BY <1>2, <2>1, <2>2
<1>3. Nat \subseteq S
  <2> HIDE DEF Same
  <2>1. \A k \in Nat : k \in S => k + 1 \in S
    BY <1>2
  <2> HIDE DEF S
  <2> QED
    BY <1>1, <2>1, NumberInduction
<1>4. Same(Len(s))
  <2> HIDE DEF Same
  <2> QED
    BY <1>0, <1>3
<1> QED
  BY <1>0, <1>4

LEMMA SameIncreasing ==
    ASSUME NEW s \in Seq(Nat), NEW t \in Seq(Nat), Increasing(s), Increasing(t),
           Covers(t, s), Covers(s, t)
    PROVE  s = t
<1>1. \A i \in 1..Len(s) : i <= Len(t) /\ s[i] = t[i]
  BY IncreasingShorter
<1>2. \A i \in 1..Len(t) : i <= Len(s) /\ t[i] = s[i]
  BY IncreasingShorter
<1>3. Len(s) \in Nat /\ Len(t) \in Nat
  BY LenProperties
<1>4. Len(s) = Len(t)
  BY <1>1, <1>2, <1>3
<1> QED
  BY <1>1, <1>4, SeqEqual

(* A non-empty bounded set of numbers has a greatest.                      *)
LEMMA Greatest ==
    ASSUME NEW S, S # {}, S \subseteq Int, NEW n \in Int, \A i \in S : i <= n
    PROVE  \E m \in S : \A i \in S : i <= m
<1> DEFINE R == {p \in Nat \X Nat : p[1] < p[2]}
           D == {n - i : i \in S}
<1>1. D \subseteq Nat /\ D # {}
  <2>1. \A i \in S : i \in Int /\ i <= n
    OBVIOUS
  <2>2. \A i \in S : n - i \in Nat
    BY <2>1
  <2> QED
    BY <2>2
<1>2. \E d \in D : \A e \in D : ~(<<e, d>> \in R)
  <2> HIDE DEF D, R
  <2>1. IsWellFoundedOn(R, Nat)
    BY NatLess DEF R
  <2> QED
    BY <1>1, <2>1, WFMin
<1>3. PICK d \in D : \A e \in D : ~(e < d)
  BY <1>1, <1>2
<1>4. PICK m \in S : d = n - m
  OBVIOUS
<1>5. \A i \in S : ~(n - i < n - m)
  BY <1>3, <1>4
<1>6. m \in Int /\ n \in Int /\ \A i \in S : i \in Int
  OBVIOUS
<1>7. \A i \in S : i <= m
  BY ONLY <1>5, <1>6
<1> QED
  BY <1>7

-----------------------------------------------------------------------------
(* The members of A before i.                                              *)
Below(A, i) == {j \in A : j < i}

(* The first k members of A.                                               *)
First(A, k) == {i \in A : Cardinality(Below(A, i)) < k}

(* There are n numbers below n.                                            *)
LEMMA CountUpTo ==
    ASSUME NEW n \in Nat
    PROVE  IsFiniteSet(0..(n-1)) /\ Cardinality(0..(n-1)) = n
<1>1. 0 \in Int /\ n - 1 \in Int
  OBVIOUS
<1>2. /\ IsFiniteSet(0..(n-1))
      /\ Cardinality(0..(n-1)) = IF 0 > n - 1 THEN 0 ELSE n - 1 - 0 + 1
  BY <1>1, FS_Interval, Zenon
<1> QED
  BY <1>2

(* And n from 1 to n.                                                      *)
LEMMA CountFirst ==
    ASSUME NEW n \in Nat
    PROVE  IsFiniteSet(1..n) /\ Cardinality(1..n) = n
<1>1. 1 \in Int /\ n \in Int
  OBVIOUS
<1>2. /\ IsFiniteSet(1..n)
      /\ Cardinality(1..n) = IF 1 > n THEN 0 ELSE n - 1 + 1
  BY <1>1, FS_Interval, Zenon
<1> QED
  BY <1>2

(* The first k members of a finite set of numbers are k, or all.           *)
LEMMA FirstOnes ==
    ASSUME NEW A, IsFiniteSet(A), A \subseteq Int, NEW k \in Nat
    PROVE  /\ IsFiniteSet(First(A, k))
           /\ Cardinality(First(A, k)) = IF k < Cardinality(A) THEN k ELSE Cardinality(A)
<1> DEFINE S == {i \in A : Cardinality(Below(A, i)) < k}
           m == Cardinality(A)
           low == IF k < m THEN k ELSE m
           rank == [i \in A |-> Cardinality(Below(A, i))]
<1>1. m \in Nat /\ IsFiniteSet(S) /\ Cardinality(S) \in Nat
  <2>1. m \in Nat
    BY FS_CardinalityType
  <2>2. S \in SUBSET A
    OBVIOUS
  <2>3. IsFiniteSet(S)
    BY <2>2, FS_Subset
  <2> QED
    BY <2>1, <2>3, FS_CardinalityType
<1>2. \A i \in A : IsFiniteSet(Below(A, i)) /\ Cardinality(Below(A, i)) \in 0..(m-1)
  <2> SUFFICES ASSUME NEW i \in A
               PROVE  IsFiniteSet(Below(A, i)) /\ Cardinality(Below(A, i)) \in 0..(m-1)
    OBVIOUS
  <2>1. Below(A, i) \in SUBSET A /\ i \notin Below(A, i)
    BY DEF Below
  <2>2. IsFiniteSet(Below(A, i)) /\ Cardinality(Below(A, i)) <= m
    BY <2>1, FS_Subset
  <2>3. Cardinality(Below(A, i)) # m
    BY <2>1, FS_Subset
  <2>4. Cardinality(Below(A, i)) \in Nat
    BY <2>2, FS_CardinalityType
  <2> QED
    BY <2>2, <2>3, <2>4, <1>1
<1>3. \A i, j \in A : i < j => Cardinality(Below(A, i)) < Cardinality(Below(A, j))
  <2> SUFFICES ASSUME NEW i \in A, NEW j \in A, i < j
               PROVE  Cardinality(Below(A, i)) < Cardinality(Below(A, j))
    OBVIOUS
  <2>1. /\ \A h \in A : h < i => h < j
        /\ ~(i < i)
    OBVIOUS
  <2>2. Below(A, i) \in SUBSET Below(A, j) /\ i \in Below(A, j) /\ i \notin Below(A, i)
    BY <2>1 DEF Below
  <2>3. IsFiniteSet(Below(A, j)) /\ IsFiniteSet(Below(A, i))
    BY <1>2
  <2>4. Cardinality(Below(A, i)) <= Cardinality(Below(A, j))
    BY <2>2, <2>3, FS_Subset
  <2>5. Cardinality(Below(A, i)) # Cardinality(Below(A, j))
    BY <2>2, <2>3, FS_Subset
  <2> QED
    BY <2>4, <2>5, <1>2
<1>4. rank \in Injection(A, 0..(m-1))
  <2>1. rank \in [A -> 0..(m-1)]
    BY <1>2
  <2>2. \A i, j \in A : rank[i] = rank[j] => i = j
    <3> SUFFICES ASSUME NEW i \in A, NEW j \in A, rank[i] = rank[j], i # j PROVE FALSE
      OBVIOUS
    <3>1. i < j \/ j < i
      OBVIOUS
    <3> QED
      BY <3>1, <1>2, <1>3
  <2> QED
    BY <2>1, <2>2 DEF Injection, IsInjective
<1>5. rank \in Surjection(A, 0..(m-1))
  <2>1. IsFiniteSet(0..(m-1)) /\ Cardinality(0..(m-1)) = m
    BY <1>1, CountUpTo
  <2> QED
    BY <2>1, <1>4, FS_Injection
<1>6. ExistsBijection(S, 0..(low-1))
  <2> DEFINE f == [i \in S |-> rank[i]]
  <2>1. f \in [S -> 0..(low-1)]
    <3> SUFFICES ASSUME NEW i \in S PROVE rank[i] \in 0..(low-1)
      OBVIOUS
    <3>1. rank[i] \in 0..(m-1) /\ rank[i] < k
      BY <1>2
    <3> HIDE DEF rank, S, m
    <3> QED
      BY <3>1, <1>1
  <2>2. \A i, j \in S : f[i] = f[j] => i = j
    BY <1>4 DEF Injection, IsInjective
  <2>3. \A n \in 0..(low-1) : \E i \in S : f[i] = n
    <3> SUFFICES ASSUME NEW n \in 0..(low-1) PROVE \E i \in S : f[i] = n
      OBVIOUS
    <3>1. n \in 0..(m-1) /\ n < k
      BY <1>1
    <3>2. PICK i \in A : rank[i] = n
      BY <3>1, <1>5 DEF Surjection
    <3>3. i \in S
      BY <3>1, <3>2
    <3> QED
      BY <3>2, <3>3
  <2>4. f \in Bijection(S, 0..(low-1))
    BY <2>1, <2>2, <2>3 DEF Bijection, Injection, IsInjective, Surjection
  <2> QED
    BY <2>4 DEF ExistsBijection
<1>7. Cardinality(S) = low
  <2>1. Cardinality(0..(low-1)) = low
    BY <1>1, CountUpTo
  <2> QED
    BY <2>1, <1>1, <1>6, FS_Bijection
<1> QED
  BY <1>1, <1>7 DEF First

(* Nobody stands twice in a queue.                                         *)
Distinct(queue) == \A i, j \in 1..Len(queue) : queue[i] = queue[j] => i = j

(* Who stands in the given places of a queue.                              *)
Owners(queue, places) == {queue[i] : i \in places}
Everyone(queue) == Owners(queue, 1..Len(queue))

(* The owners of the first k places of A in a queue are k, or those of     *)
(* every place of A.                                                       *)
LEMMA FirstInQueue ==
    ASSUME NEW T, NEW queue \in Seq(T), Distinct(queue),
           NEW A \in SUBSET (1..Len(queue)), NEW k \in Nat
    PROVE  LET W == Owners(queue, First(A, k))
           IN  /\ IsFiniteSet(W) /\ Cardinality(W) \in Nat /\ Cardinality(W) <= k
               /\ Cardinality(W) = Cardinality(First(A, k))
               /\ \A w \in W : \E i \in A : queue[i] = w
               /\ Cardinality(W) < k => \A i \in A : queue[i] \in W
<1> DEFINE first == First(A, k)
           W == Owners(queue, first)
<1>1. IsFiniteSet(A) /\ A \subseteq Int
  <2>1. 1 \in Int /\ Len(queue) \in Int
    OBVIOUS
  <2>2. IsFiniteSet(1..Len(queue))
    BY <2>1, FS_Interval, Zenon
  <2>3. IsFiniteSet(A)
    BY <2>2, FS_Subset
  <2> QED
    BY <2>3
<1>2. /\ IsFiniteSet(first)
      /\ Cardinality(first) = IF k < Cardinality(A) THEN k ELSE Cardinality(A)
  BY <1>1, FirstOnes
<1>3. first \in SUBSET A
  BY DEF First
<1>4. Cardinality(A) \in Nat
  BY <1>1, FS_CardinalityType
<1>5. W = {queue[i] : i \in first}
  BY DEF Owners
<1> HIDE DEF first, W
<1>6. Cardinality(first) \in Nat /\ Cardinality(first) <= k
  BY <1>2, <1>4
<1>7. Cardinality(first) < k => first = A
  <2> SUFFICES ASSUME Cardinality(first) < k PROVE first = A
    OBVIOUS
  <2>1. Cardinality(first) = Cardinality(A)
    BY <1>2, <1>4
  <2> QED
    BY <2>1, <1>1, <1>3, FS_Subset
<1>8. IsFiniteSet(W) /\ Cardinality(W) = Cardinality(first)
  <2> DEFINE f == [i \in first |-> queue[i]]
  <2>1. \A i, j \in first : queue[i] = queue[j] => i = j
    BY <1>3 DEF Distinct
  <2>2. f \in Bijection(first, W)
    BY <1>5, <2>1 DEF Bijection, Injection, IsInjective, Surjection
  <2>3. ExistsBijection(first, W)
    BY <2>2 DEF ExistsBijection
  <2> QED
    BY <2>3, <1>2, FS_Bijection
<1>9. \A w \in W : \E i \in A : queue[i] = w
  BY <1>5, <1>3
<1>10. Cardinality(W) < k => \A i \in A : queue[i] \in W
  BY <1>5, <1>7, <1>8
<1> QED
  BY <1>6, <1>8, <1>9, <1>10 DEF first, W

(* The queue without its place i.                                          *)
Without(queue, i) == SubSeq(queue, 1, i - 1) \o SubSeq(queue, i + 1, Len(queue))

(* Leaving a queue from any place keeps the others, once each.             *)
LEMMA Leaving ==
    ASSUME NEW T, NEW queue \in Seq(T), Distinct(queue), NEW i \in 1..Len(queue)
    PROVE  LET rest == Without(queue, i)
           IN  /\ rest \in Seq(T) /\ Distinct(rest)
               /\ Everyone(rest) = Everyone(queue) \ {queue[i]}
<1> DEFINE n == Len(queue)
           front == SubSeq(queue, 1, i - 1)
           back == SubSeq(queue, i + 1, n)
           rest == front \o back
           old == [j \in 1..(n-1) |-> IF j < i THEN j ELSE j + 1]
<1>1. n \in Nat /\ i \in Nat /\ i >= 1 /\ i <= n
  OBVIOUS
<1>2. /\ front \in Seq(T) /\ Len(front) = i - 1
      /\ \A j \in 1..(i - 1) : front[j] = queue[j]
  OBVIOUS
<1>3. /\ back \in Seq(T) /\ Len(back) = n - i
      /\ \A j \in 1..(n - i) : back[j] = queue[i + j]
  OBVIOUS
<1> HIDE DEF front, back
<1>4. rest \in Seq(T) /\ Len(rest) = n - 1
  <2>1. rest \in Seq(T)
    BY <1>2, <1>3
  <2>2. front \in Seq(T) /\ back \in Seq(T)
    BY <1>2, <1>3
  <2>3. Len(rest) = Len(front) + Len(back)
    BY ONLY <2>2
  <2> QED
    BY <1>1, <1>2, <1>3, <2>1, <2>3
<1>5. \A j \in 1..(n - 1) : rest[j] = queue[old[j]] /\ old[j] \in 1..n /\ old[j] # i
  <2> SUFFICES ASSUME NEW j \in 1..(n - 1)
               PROVE  rest[j] = queue[old[j]] /\ old[j] \in 1..n /\ old[j] # i
    OBVIOUS
  <2>1. CASE j < i
    <3>1. old[j] = j /\ rest[j] = front[j] /\ j \in 1..(i - 1)
      BY <1>1, <1>2, <1>3, <2>1
    <3> QED
      BY <1>1, <1>2, <3>1
  <2>2. CASE ~(j < i)
    <3>1. old[j] = j + 1 /\ j - (i - 1) \in 1..(n - i) /\ i + (j - (i - 1)) = j + 1
      BY <1>1, <2>2
    <3>2. rest[j] = back[j - (i - 1)]
      BY <1>1, <1>2, <1>3, <2>2
    <3> QED
      BY <1>1, <1>3, <3>1, <3>2
  <2> QED
    BY <2>1, <2>2
<1> HIDE DEF rest
<1>6. Distinct(rest)
  <2> SUFFICES ASSUME NEW j \in 1..(n - 1), NEW h \in 1..(n - 1), rest[j] = rest[h]
               PROVE  j = h
    BY <1>4 DEF Distinct
  <2>1. old[j] = old[h]
    BY <1>5 DEF Distinct
  <2> QED
    BY <1>1, <2>1
<1>7. ASSUME NEW j \in 1..(n - 1)
      PROVE  (\E h \in 1..n : queue[h] = rest[j]) /\ rest[j] # queue[i]
  BY <1>5 DEF Distinct
<1>8. ASSUME NEW h \in 1..n, queue[h] # queue[i]
      PROVE  \E j \in 1..(n - 1) : rest[j] = queue[h]
  <2>1. CASE h < i
    <3>1. h \in 1..(n - 1) /\ old[h] = h
      BY <1>1, <2>1
    <3> QED
      BY <1>5, <3>1
  <2>2. CASE h > i
    <3>1. h - 1 \in 1..(n - 1) /\ old[h - 1] = h
      BY <1>1, <2>2
    <3> QED
      BY <1>5, <3>1
  <2> QED
    BY <1>1, <1>8, <2>1, <2>2
<1>9. Everyone(rest) = Everyone(queue) \ {queue[i]}
  BY <1>4, <1>7, <1>8 DEF Everyone, Owners
<1> QED
  BY <1>4, <1>6, <1>9 DEF rest, front, back, Without
=============================================================================
