------------------------ MODULE InlineCommentsProofs ------------------------
(***************************************************************************)
(* Theorems about HunkParser and InlineComments, for any patches whatever  *)
(* separators their lines hold, and any findings.                          *)
(***************************************************************************)
EXTENDS InlineComments, ListFacts

-----------------------------------------------------------------------------
(* The raw lines of a patch, as SplitLines puts them together.             *)
PlaceOrNone == (Numbers \X Numbers) \union {NoLine}
RawType == [kind: RawKinds, at: PlaceOrNone, old: Nat, new: Nat]
LineType == [kind: Kinds \union {"marker"}, strays: Seq(RawKinds)]
PatchHunk == [old: Nat, new: Nat, strays: Seq(RawKinds), lines: Seq(LineType)]

Strays(line) == StrayRaws(line.strays)
RawsOfLines(h, n) == [j \in DOMAIN h.lines |-> RawsOfLine(h.lines[j], <<n, j>>)]
RawsOfHunks(p) == [n \in DOMAIN p.hunks |-> RawsOfHunk(p.hunks[n], n)]
Inside(h, n) == StrayRaws(h.strays) \o FlattenSeq(RawsOfLines(h, n))
Preamble(p) == [i \in 1..p.preamble |-> Raw("context", NoLine, 0, 0)]

LEMMA RawTyped ==
    ASSUME NEW kind \in RawKinds, NEW at \in PlaceOrNone, NEW old \in Nat, NEW new \in Nat
    PROVE  Raw(kind, at, old, new) \in RawType
BY DEF Raw, RawType

LEMMA StraysAre ==
    ASSUME NEW strays \in Seq(RawKinds)
    PROVE  /\ StrayRaws(strays) \in Seq(RawType)
           /\ Len(StrayRaws(strays)) = Len(strays) /\ Len(strays) \in Nat
           /\ \A q \in 1..Len(strays) :
                 /\ StrayRaws(strays)[q] = Raw(strays[q], NoLine, Elsewhere, Elsewhere)
                 /\ StrayRaws(strays)[q] \in RawType
<1>1. /\ Len(strays) \in Nat /\ DOMAIN strays = 1..Len(strays)
      /\ \A q \in 1..Len(strays) : strays[q] \in RawKinds
  BY LenProperties, ElementOfSeq
<1>2. NoLine \in PlaceOrNone /\ Elsewhere \in Nat
  BY DEF PlaceOrNone, Elsewhere
<1>3. \A q \in 1..Len(strays) : Raw(strays[q], NoLine, Elsewhere, Elsewhere) \in RawType
  BY <1>1, <1>2, RawTyped
<1>4. PICK st : st = StrayRaws(strays)
  OBVIOUS
<1>5. /\ st \in [1..Len(strays) -> RawType]
      /\ \A q \in 1..Len(strays) : st[q] = Raw(strays[q], NoLine, Elsewhere, Elsewhere)
  BY <1>1, <1>3, <1>4 DEF StrayRaws
<1>6. st \in Seq(RawType) /\ Len(st) = Len(strays)
  BY <1>1, <1>5, FunctionList
<1> QED
  BY <1>1, <1>3, <1>4, <1>5, <1>6

LEMMA LineRaws ==
    ASSUME NEW line \in LineType, NEW at \in PlaceOrNone
    PROVE  /\ RawsOfLine(line, at) \in Seq(RawType)
           /\ Strays(line) \in Seq(RawType)
           /\ Len(RawsOfLine(line, at)) = 1 + Len(line.strays)
           /\ Len(Strays(line)) = Len(line.strays)
           /\ Len(line.strays) \in Nat
           /\ RawsOfLine(line, at)[1] = Raw(line.kind, at, 0, 0)
           /\ \A q \in 1..Len(line.strays) :
                 /\ RawsOfLine(line, at)[1 + q] = Strays(line)[q]
                 /\ Strays(line)[q] = Raw(line.strays[q], NoLine, Elsewhere, Elsewhere)
<1>1. line.kind \in RawKinds /\ line.strays \in Seq(RawKinds)
  BY DEF LineType, RawKinds
<1>2. PICK st : st = Strays(line)
  OBVIOUS
<1>3. /\ st \in Seq(RawType) /\ Len(st) = Len(line.strays) /\ Len(line.strays) \in Nat
      /\ \A q \in 1..Len(line.strays) : st[q] = Raw(line.strays[q], NoLine, Elsewhere, Elsewhere)
  BY <1>1, <1>2, StraysAre DEF Strays
<1>4. PICK first : first = Raw(line.kind, at, 0, 0)
  OBVIOUS
<1>5. first \in RawType
  BY <1>1, <1>4, RawTyped
<1>6. <<first>> \in Seq(RawType) /\ Len(<<first>>) = 1 /\ <<first>>[1] = first
  BY <1>5
<1>7. RawsOfLine(line, at) = <<first>> \o st
  BY <1>2, <1>4 DEF RawsOfLine, Strays
<1>8. PICK u : u = <<first>> \o st
  OBVIOUS
<1>9. /\ u \in Seq(RawType) /\ Len(u) = 1 + Len(line.strays)
       /\ \A i \in 1..(1 + Len(line.strays)) : u[i] = IF i <= 1 THEN <<first>>[i] ELSE st[i - 1]
  BY <1>3, <1>6, <1>8, ConcatProperties
<1>10. u[1] = first /\ \A q \in 1..Len(line.strays) : u[1 + q] = st[q]
  <2>1. 1 \in 1..(1 + Len(line.strays))
    BY <1>3
  <2>2. \A q \in 1..Len(line.strays) : 1 + q \in 1..(1 + Len(line.strays)) /\ ~(1 + q <= 1)
                                       /\ (1 + q) - 1 = q
    BY <1>3
  <2> QED
    BY <2>1, <2>2, <1>6, <1>9
<1> QED
  BY <1>2, <1>3, <1>4, <1>7, <1>8, <1>9, <1>10

LEMMA LinesRaws ==
    ASSUME NEW h \in PatchHunk, NEW n \in Numbers
    PROVE  /\ h.lines \in Seq(LineType) /\ Len(h.lines) \in Nat /\ DOMAIN h.lines = 1..Len(h.lines)
           /\ \A j \in 1..Len(h.lines) : h.lines[j] \in LineType /\ <<n, j>> \in PlaceOrNone
           /\ RawsOfLines(h, n) \in Seq(Seq(RawType))
           /\ Len(RawsOfLines(h, n)) = Len(h.lines)
           /\ \A j \in 1..Len(h.lines) :
                 RawsOfLines(h, n)[j] = RawsOfLine(h.lines[j], <<n, j>>)
<1>1. h.lines \in Seq(LineType)
  BY DEF PatchHunk
<1>2. /\ Len(h.lines) \in Nat /\ DOMAIN h.lines = 1..Len(h.lines)
      /\ \A j \in 1..Len(h.lines) : h.lines[j] \in LineType
  BY <1>1, LenProperties, ElementOfSeq
<1>3. \A j \in 1..Len(h.lines) : <<n, j>> \in PlaceOrNone
  BY <1>2 DEF PlaceOrNone, Numbers
<1>4. \A j \in 1..Len(h.lines) : RawsOfLine(h.lines[j], <<n, j>>) \in Seq(RawType)
  BY <1>2, <1>3, LineRaws
<1>5. PICK ss : ss = RawsOfLines(h, n)
  OBVIOUS
<1>6. /\ ss \in [1..Len(h.lines) -> Seq(RawType)]
      /\ \A j \in 1..Len(h.lines) : ss[j] = RawsOfLine(h.lines[j], <<n, j>>)
  BY <1>2, <1>4, <1>5 DEF RawsOfLines
<1>7. ss \in Seq(Seq(RawType)) /\ Len(ss) = Len(h.lines)
  BY <1>2, <1>6, FunctionList
<1> QED
  BY <1>1, <1>2, <1>3, <1>5, <1>6, <1>7

LEMMA InsideIs ==
    ASSUME NEW h \in PatchHunk, NEW n \in Numbers
    PROVE  LET heading == StrayRaws(h.strays)
               body == FlattenSeq(RawsOfLines(h, n))
           IN  /\ heading \in Seq(RawType) /\ Len(heading) = Len(h.strays) /\ Len(heading) \in Nat
               /\ \A q \in 1..Len(heading) :
                     heading[q] = Raw(h.strays[q], NoLine, Elsewhere, Elsewhere)
               /\ body \in Seq(RawType) /\ Len(body) \in Nat
               /\ Inside(h, n) \in Seq(RawType) /\ Len(Inside(h, n)) = Len(heading) + Len(body)
               /\ Len(Inside(h, n)) \in Nat
               /\ \A q \in 1..Len(heading) : Inside(h, n)[q] = heading[q]
               /\ \A q \in 1..Len(body) : Inside(h, n)[Len(heading) + q] = body[q]
<1>1. PICK heading : heading = StrayRaws(h.strays)
  OBVIOUS
<1>2. PICK body : body = FlattenSeq(RawsOfLines(h, n))
  OBVIOUS
<1>3. /\ heading \in Seq(RawType) /\ Len(heading) = Len(h.strays) /\ Len(heading) \in Nat
      /\ \A q \in 1..Len(heading) : heading[q] = Raw(h.strays[q], NoLine, Elsewhere, Elsewhere)
  <2>1. h.strays \in Seq(RawKinds)
    BY DEF PatchHunk
  <2> QED
    BY <1>1, <2>1, StraysAre
<1>4. body \in Seq(RawType) /\ Len(body) \in Nat
  <2>1. body \in Seq(RawType)
    BY <1>2, LinesRaws, FlattenType
  <2> QED
    BY <2>1, LenProperties
<1>5. PICK u : u = heading \o body
  OBVIOUS
<1>6. /\ u \in Seq(RawType) /\ Len(u) = Len(heading) + Len(body)
      /\ \A i \in 1..(Len(heading) + Len(body)) :
            u[i] = IF i <= Len(heading) THEN heading[i] ELSE body[i - Len(heading)]
  BY <1>3, <1>4, <1>5, ConcatProperties
<1>7. \A q \in 1..Len(heading) : u[q] = heading[q]
  <2>1. \A q \in 1..Len(heading) : q \in 1..(Len(heading) + Len(body)) /\ q <= Len(heading)
    BY <1>3, <1>4
  <2> QED
    BY <1>6, <2>1
<1>8. \A q \in 1..Len(body) : u[Len(heading) + q] = body[q]
  <2>1. \A q \in 1..Len(body) : /\ Len(heading) + q \in 1..(Len(heading) + Len(body))
                                /\ ~(Len(heading) + q <= Len(heading))
                                /\ (Len(heading) + q) - Len(heading) = q
    BY <1>3, <1>4
  <2> QED
    BY <1>6, <2>1
<1>9. Inside(h, n) = u
  BY <1>1, <1>2, <1>5 DEF Inside
<1>10. Len(u) \in Nat
  BY <1>3, <1>4, <1>6
<1> QED
  BY <1>1, <1>2, <1>3, <1>4, <1>6, <1>7, <1>8, <1>9, <1>10

LEMMA HunkRaws ==
    ASSUME NEW h \in PatchHunk, NEW n \in Numbers
    PROVE  LET inside == Inside(h, n)
           IN  /\ h.old \in Nat /\ h.new \in Nat
               /\ RawsOfHunk(h, n) \in Seq(RawType)
               /\ Len(inside) \in Nat
               /\ Len(RawsOfHunk(h, n)) = 1 + Len(inside)
               /\ RawsOfHunk(h, n)[1] = Raw("header", NoLine, h.old, h.new)
               /\ \A q \in 1..Len(inside) : RawsOfHunk(h, n)[1 + q] = inside[q]
<1>1. h.old \in Nat /\ h.new \in Nat
  BY DEF PatchHunk
<1>2. PICK first : first = Raw("header", NoLine, h.old, h.new)
  OBVIOUS
<1>3. first \in RawType
  BY <1>1, <1>2, RawTyped DEF RawKinds, PlaceOrNone
<1>4. PICK inside : inside = Inside(h, n)
  OBVIOUS
<1>5. inside \in Seq(RawType) /\ Len(inside) \in Nat
  BY <1>4, InsideIs
<1>6. PICK u : u = <<first>> \o inside
  OBVIOUS
<1>7. <<first>> \in Seq(RawType) /\ Len(<<first>>) = 1 /\ <<first>>[1] = first
  BY <1>3
<1>8. /\ u \in Seq(RawType) /\ Len(u) = 1 + Len(inside)
      /\ \A i \in 1..(1 + Len(inside)) : u[i] = IF i <= 1 THEN <<first>>[i] ELSE inside[i - 1]
  BY <1>5, <1>6, <1>7, ConcatProperties
<1>9. u[1] = first /\ \A q \in 1..Len(inside) : u[1 + q] = inside[q]
  <2>1. 1 \in 1..(1 + Len(inside))
    BY <1>5
  <2>2. \A q \in 1..Len(inside) : 1 + q \in 1..(1 + Len(inside)) /\ ~(1 + q <= 1) /\ (1 + q) - 1 = q
    BY <1>5
  <2> QED
    BY <2>1, <2>2, <1>7, <1>8
<1>10. RawsOfHunk(h, n) = u
  BY <1>2, <1>4, <1>6 DEF RawsOfHunk, RawsOfLines, Inside
<1> QED
  BY <1>1, <1>2, <1>4, <1>5, <1>8, <1>9, <1>10

LEMMA HunksRaws ==
    ASSUME NEW p \in PatchType
    PROVE  /\ p.preamble \in Nat
           /\ Len(p.hunks) \in Nat /\ DOMAIN p.hunks = 1..Len(p.hunks)
           /\ \A n \in 1..Len(p.hunks) : p.hunks[n] \in PatchHunk /\ n \in Numbers
           /\ RawsOfHunks(p) \in Seq(Seq(RawType))
           /\ Len(RawsOfHunks(p)) = Len(p.hunks)
           /\ \A n \in 1..Len(p.hunks) : RawsOfHunks(p)[n] = RawsOfHunk(p.hunks[n], n)
<1>1. p.preamble \in Nat /\ p.hunks \in Seq(PatchHunk)
  BY DEF PatchType, PatchHunk, LineType
<1>2. /\ Len(p.hunks) \in Nat /\ DOMAIN p.hunks = 1..Len(p.hunks)
      /\ \A n \in 1..Len(p.hunks) : p.hunks[n] \in PatchHunk
  BY <1>1, LenProperties, ElementOfSeq
<1>3. \A n \in 1..Len(p.hunks) : n \in Numbers
  BY <1>2 DEF Numbers
<1>4. \A n \in 1..Len(p.hunks) : RawsOfHunk(p.hunks[n], n) \in Seq(RawType)
  BY <1>2, <1>3, HunkRaws
<1>5. PICK ss : ss = RawsOfHunks(p)
  OBVIOUS
<1>6. /\ ss \in [1..Len(p.hunks) -> Seq(RawType)]
      /\ \A n \in 1..Len(p.hunks) : ss[n] = RawsOfHunk(p.hunks[n], n)
  BY <1>2, <1>4, <1>5 DEF RawsOfHunks
<1>7. ss \in Seq(Seq(RawType)) /\ Len(ss) = Len(p.hunks)
  BY <1>2, <1>6, FunctionList
<1> QED
  BY <1>1, <1>2, <1>3, <1>5, <1>6, <1>7

LEMMA SplitRaws ==
    ASSUME NEW p \in PatchType
    PROVE  LET body == FlattenSeq(RawsOfHunks(p))
               r == SplitLines(p)
           IN  /\ r \in Seq(RawType) /\ Len(r) \in Nat
               /\ \A k \in 1..Len(r) : r[k] \in RawType
               /\ Len(body) \in Nat
               /\ Len(r) = p.preamble + Len(body)
               /\ \A k \in 1..p.preamble : r[k] = Raw("context", NoLine, 0, 0)
               /\ \A q \in 1..Len(body) : r[p.preamble + q] = body[q]
<1>0. p.preamble \in Nat
  BY HunksRaws
<1>1. PICK pre : pre = Preamble(p)
  OBVIOUS
<1>2. PICK body : body = FlattenSeq(RawsOfHunks(p))
  OBVIOUS
<1>3. Raw("context", NoLine, 0, 0) \in RawType
  BY RawTyped DEF RawKinds, Kinds, PlaceOrNone
<1>4. pre \in [1..p.preamble -> RawType] /\ \A k \in 1..p.preamble : pre[k] = Raw("context", NoLine, 0, 0)
  BY <1>1, <1>3 DEF Preamble
<1>5. pre \in Seq(RawType) /\ Len(pre) = p.preamble
  BY <1>0, <1>4, FunctionList
<1>6. body \in Seq(RawType) /\ Len(body) \in Nat
  <2>1. body \in Seq(RawType)
    BY <1>2, HunksRaws, FlattenType
  <2> QED
    BY <2>1, LenProperties
<1>7. PICK r : r = pre \o body
  OBVIOUS
<1>8. /\ r \in Seq(RawType) /\ Len(r) = p.preamble + Len(body)
      /\ \A k \in 1..(p.preamble + Len(body)) : r[k] = IF k <= p.preamble THEN pre[k] ELSE body[k - p.preamble]
  <2>1. /\ r \in Seq(RawType) /\ Len(r) = Len(pre) + Len(body)
        /\ \A k \in 1..(Len(pre) + Len(body)) : r[k] = IF k <= Len(pre) THEN pre[k] ELSE body[k - Len(pre)]
    BY <1>5, <1>6, <1>7, ConcatProperties
  <2> QED
    BY ONLY <2>1, <1>5, Zenon
<1>9. \A k \in 1..p.preamble : r[k] = pre[k]
  <2>1. \A k \in 1..p.preamble : k \in 1..(p.preamble + Len(body)) /\ k <= p.preamble
    BY <1>0, <1>6
  <2> QED
    BY <2>1, <1>8
<1>10. \A q \in 1..Len(body) : r[p.preamble + q] = body[q]
  <2>1. \A q \in 1..Len(body) : p.preamble + q \in 1..(p.preamble + Len(body))
                                /\ ~(p.preamble + q <= p.preamble) /\ (p.preamble + q) - p.preamble = q
    BY <1>0, <1>6
  <2> QED
    BY <2>1, <1>8
<1>11. SplitLines(p) = r
  BY <1>1, <1>2, <1>7 DEF SplitLines, Preamble, RawsOfHunks
<1>12. Len(r) \in Nat /\ \A k \in 1..Len(r) : r[k] \in RawType
  BY <1>8, LenProperties, ElementOfSeq
<1> QED
  BY <1>2, <1>4, <1>6, <1>8, <1>9, <1>10, <1>11, <1>12

-----------------------------------------------------------------------------
(* Where the header of the n-th hunk is among the raw lines, and where its *)
(* j-th line begins, after the raw lines of its heading and of the lines   *)
(* before it.                                                              *)
HeadPlace(p, n) == p.preamble + Len(Joined(RawsOfHunks(p), n - 1)) + 1
Leading(h, n, m) == StrayRaws(h.strays) \o Joined(RawsOfLines(h, n), m)
RawsBefore(p, n, j) == Leading(p.hunks[n], n, j - 1)
LinePlace(p, n, j) == HeadPlace(p, n) + Len(RawsBefore(p, n, j)) + 1

LEMMA HeadIs ==
    ASSUME NEW p \in PatchType, NEW n \in 1..Len(p.hunks)
    PROVE  LET r == SplitLines(p)
               h == p.hunks[n]
               inside == Inside(h, n)
           IN  /\ HeadPlace(p, n) \in (p.preamble + 1)..Len(r)
               /\ r[HeadPlace(p, n)] = Raw("header", NoLine, h.old, h.new)
               /\ HeadPlace(p, n) + Len(inside) <= Len(r)
               /\ p.preamble + Len(Joined(RawsOfHunks(p), n)) = HeadPlace(p, n) + Len(inside)
               /\ \A q \in 1..Len(inside) : r[HeadPlace(p, n) + q] = inside[q]
<1>1. PICK h : h = p.hunks[n]
  OBVIOUS
<1>2. PICK inside : inside = Inside(h, n)
  OBVIOUS
<1>3. PICK r : r = SplitLines(p)
  OBVIOUS
<1>4. PICK ss : ss = RawsOfHunks(p)
  OBVIOUS
<1>5. PICK body : body = FlattenSeq(ss)
  OBVIOUS
<1>6. PICK d : d = Len(Joined(ss, n - 1))
  OBVIOUS
<1>7. /\ h \in PatchHunk /\ n \in Numbers /\ p.preamble \in Nat
      /\ ss \in Seq(Seq(RawType)) /\ Len(ss) = Len(p.hunks) /\ ss[n] = RawsOfHunk(h, n)
  BY <1>1, <1>4, HunksRaws
<1>8. /\ Len(inside) \in Nat
      /\ Len(ss[n]) = 1 + Len(inside)
      /\ ss[n][1] = Raw("header", NoLine, h.old, h.new)
      /\ \A q \in 1..Len(inside) : ss[n][1 + q] = inside[q]
  BY <1>2, <1>7, HunkRaws
<1>9. /\ d \in Nat /\ Len(body) \in Nat
      /\ Len(Joined(ss, n)) = d + Len(ss[n])
      /\ d + Len(ss[n]) <= Len(body)
      /\ \A i \in 1..Len(ss[n]) : body[d + i] = ss[n][i]
  <2>1. n \in 1..Len(ss)
    BY <1>7
  <2> QED
    BY <1>5, <1>6, <1>7, <2>1, JoinedPlaces
<1>10. /\ Len(r) = p.preamble + Len(body)
       /\ \A q \in 1..Len(body) : r[p.preamble + q] = body[q]
  BY <1>3, <1>4, <1>5, SplitRaws
<1>11. HeadPlace(p, n) = p.preamble + d + 1
  BY <1>4, <1>6 DEF HeadPlace
<1>12. HeadPlace(p, n) \in (p.preamble + 1)..Len(r) /\ HeadPlace(p, n) + Len(inside) <= Len(r)
  <2>1. p.preamble \in Nat /\ d \in Nat /\ Len(body) \in Nat /\ Len(inside) \in Nat
    BY <1>7, <1>8, <1>9
  <2>2. d + (1 + Len(inside)) <= Len(body) /\ Len(r) = p.preamble + Len(body)
    BY <1>8, <1>9, <1>10
  <2> QED
    BY ONLY <1>11, <2>1, <2>2
<1>13. \A i \in 1..Len(ss[n]) : r[p.preamble + (d + i)] = ss[n][i]
  <2> SUFFICES ASSUME NEW i \in 1..Len(ss[n]) PROVE r[p.preamble + (d + i)] = ss[n][i]
    OBVIOUS
  <2>1. d + i \in 1..Len(body)
    BY <1>8, <1>9
  <2> QED
    BY <2>1, <1>9, <1>10
<1>14. r[HeadPlace(p, n)] = Raw("header", NoLine, h.old, h.new)
  <2>1. 1 \in 1..Len(ss[n])
    BY <1>8
  <2>2. PICK pre \in Nat : pre = p.preamble
    BY <1>7
  <2>3. p.preamble + (d + 1) = HeadPlace(p, n)
    <3>1. pre + (d + 1) = pre + d + 1
      BY <1>9
    <3> QED
      BY <1>11, <2>2, <3>1
  <2>4. r[p.preamble + (d + 1)] = ss[n][1]
    BY ONLY <2>1, <1>13
  <2> QED
    BY ONLY <2>3, <2>4, <1>8
<1>15. \A q \in 1..Len(inside) : r[HeadPlace(p, n) + q] = inside[q]
  <2> SUFFICES ASSUME NEW q \in 1..Len(inside) PROVE r[HeadPlace(p, n) + q] = inside[q]
    OBVIOUS
  <2>1. 1 + q \in 1..Len(ss[n]) /\ p.preamble + (d + (1 + q)) = HeadPlace(p, n) + q
    <3>1. PICK pre \in Nat : pre = p.preamble
      BY <1>7
    <3>2. PICK w \in Nat : w = Len(inside)
      BY <1>8
    <3>3. q \in 1..w /\ d \in Nat /\ HeadPlace(p, n) = pre + d + 1
      BY <1>9, <1>11, <3>1, <3>2
    <3>4. 1 + q \in 1..(1 + w) /\ pre + (d + (1 + q)) = HeadPlace(p, n) + q
      BY ONLY <3>3, pre \in Nat, w \in Nat
    <3> QED
      BY <1>8, <3>1, <3>2, <3>4
  <2> QED
    BY <2>1, <1>8, <1>13
<1>16. p.preamble + Len(Joined(ss, n)) = HeadPlace(p, n) + Len(inside)
  BY <1>7, <1>8, <1>9, <1>11
<1> QED
  BY <1>1, <1>2, <1>3, <1>4, <1>12, <1>14, <1>15, <1>16

(* The raw lines of a hunk before the (m+1)-th line, and those of that.    *)
LEMMA LeadingIs ==
    ASSUME NEW h \in PatchHunk, NEW n \in Numbers, NEW m \in 0..Len(h.lines)
    PROVE  /\ Leading(h, n, m) \in Seq(RawType)
           /\ Len(Leading(h, n, m)) = Len(h.strays) + Len(Joined(RawsOfLines(h, n), m))
           /\ Joined(RawsOfLines(h, n), m) \in Seq(RawType)
           /\ Len(Joined(RawsOfLines(h, n), m)) \in Nat
           /\ Len(Leading(h, n, m)) \in Nat
           /\ \A i \in 1..Len(h.strays) : Leading(h, n, m)[i] = StrayRaws(h.strays)[i]
           /\ \A i \in 1..Len(Joined(RawsOfLines(h, n), m)) :
                 Leading(h, n, m)[Len(h.strays) + i] = Joined(RawsOfLines(h, n), m)[i]
<1>1. PICK heading : heading = StrayRaws(h.strays)
  OBVIOUS
<1>2. PICK body : body = Joined(RawsOfLines(h, n), m)
  OBVIOUS
<1>3. heading \in Seq(RawType) /\ Len(heading) = Len(h.strays) /\ Len(heading) \in Nat
  BY <1>1, InsideIs
<1>4. body \in Seq(RawType) /\ Len(body) \in Nat
  <2>1. body \in Seq(RawType)
    BY <1>2, LinesRaws, JoinedSteps
  <2> QED
    BY <2>1, LenProperties
<1>5. PICK u : u = heading \o body
  OBVIOUS
<1>6. /\ u \in Seq(RawType) /\ Len(u) = Len(heading) + Len(body)
      /\ \A i \in 1..(Len(heading) + Len(body)) :
            u[i] = IF i <= Len(heading) THEN heading[i] ELSE body[i - Len(heading)]
  BY <1>3, <1>4, <1>5, ConcatProperties
<1>7. \A q \in 1..Len(heading) : u[q] = heading[q]
  <2>1. \A q \in 1..Len(heading) : q \in 1..(Len(heading) + Len(body)) /\ q <= Len(heading)
    BY <1>3, <1>4
  <2> QED
    BY <1>6, <2>1
<1>8. \A q \in 1..Len(body) : u[Len(heading) + q] = body[q]
  <2>1. \A q \in 1..Len(body) : /\ Len(heading) + q \in 1..(Len(heading) + Len(body))
                                /\ ~(Len(heading) + q <= Len(heading))
                                /\ (Len(heading) + q) - Len(heading) = q
    BY <1>3, <1>4
  <2> QED
    BY <1>6, <2>1
<1>9. Leading(h, n, m) = u
  BY <1>1, <1>2, <1>5 DEF Leading
<1>10. Len(u) \in Nat
  BY <1>3, <1>4, <1>6
<1> QED
  BY <1>1, <1>2, <1>3, <1>4, <1>6, <1>7, <1>8, <1>9, <1>10

LEMMA InsidePlaces ==
    ASSUME NEW h \in PatchHunk, NEW n \in Numbers, NEW j \in 1..Len(h.lines)
    PROVE  LET before == Leading(h, n, j - 1)
               own == RawsOfLines(h, n)[j]
           IN  /\ Len(before) + Len(own) <= Len(Inside(h, n))
               /\ \A i \in 1..Len(before) : Inside(h, n)[i] = before[i]
               /\ \A i \in 1..Len(own) : Inside(h, n)[Len(before) + i] = own[i]
<1>1. PICK ss : ss = RawsOfLines(h, n)
  OBVIOUS
<1>2. PICK body : body = FlattenSeq(ss)
  OBVIOUS
<1>3. PICK first : first = Joined(ss, j - 1)
  OBVIOUS
<1>4. PICK own : own = ss[j]
  OBVIOUS
<1>5. PICK g \in Nat : g = Len(h.strays)
  BY InsideIs
<1>6. PICK inside : inside = Inside(h, n)
  OBVIOUS
<1>7. PICK before : before = Leading(h, n, j - 1)
  OBVIOUS
<1>8. ss \in Seq(Seq(RawType)) /\ j \in 1..Len(ss) /\ j - 1 \in 0..Len(h.lines)
  BY <1>1, LinesRaws
<1>9. PICK d \in Nat : d = Len(first)
  BY <1>3, <1>8, JoinedPlaces
<1>10. PICK w \in Nat : w = Len(own)
  BY <1>4, <1>8, JoinedPlaces
<1>11. PICK z \in Nat : z = Len(body)
  BY <1>2, <1>8, JoinedPlaces
<1>12. /\ d + w <= z
       /\ \A i \in 1..d : body[i] = first[i]
       /\ \A i \in 1..w : body[d + i] = own[i]
  <2>1. /\ Len(first) + Len(own) <= Len(body)
        /\ \A i \in 1..Len(first) : body[i] = first[i]
        /\ \A i \in 1..Len(own) : body[Len(first) + i] = own[i]
    BY <1>2, <1>3, <1>4, <1>8, JoinedPlaces
  <2> QED
    BY <2>1, <1>9, <1>10, <1>11
<1>13. /\ Len(inside) = g + z
       /\ \A q \in 1..g : inside[q] = StrayRaws(h.strays)[q]
       /\ \A q \in 1..z : inside[g + q] = body[q]
  <2>1. /\ Len(inside) = Len(StrayRaws(h.strays)) + Len(body)
        /\ \A q \in 1..Len(StrayRaws(h.strays)) : inside[q] = StrayRaws(h.strays)[q]
        /\ \A q \in 1..Len(body) : inside[Len(StrayRaws(h.strays)) + q] = body[q]
    BY <1>1, <1>2, <1>6, InsideIs
  <2>2. Len(StrayRaws(h.strays)) = g
    BY <1>5, InsideIs
  <2> QED
    BY ONLY <2>1, <2>2, <1>11, Zenon
<1>14. /\ Len(before) = g + d
       /\ \A q \in 1..g : before[q] = StrayRaws(h.strays)[q]
       /\ \A q \in 1..d : before[g + q] = first[q]
  BY <1>1, <1>3, <1>5, <1>7, <1>8, <1>9, LeadingIs
<1>15. Len(before) + w <= Len(inside)
  BY ONLY <1>12, <1>13, <1>14, d \in Nat, w \in Nat, z \in Nat, g \in Nat
<1>16. ASSUME NEW i \in 1..Len(before) PROVE inside[i] = before[i]
  <2>1. CASE i <= g
    <3>1. i \in 1..g
      BY <1>14, <2>1
    <3> QED
      BY <1>13, <1>14, <3>1
  <2>2. CASE ~(i <= g)
    <3>1. PICK q : q = i - g
      OBVIOUS
    <3>2. q \in 1..d /\ q \in 1..z /\ g + q = i
      BY <1>12, <1>14, <2>2, <3>1
    <3> QED
      BY <1>12, <1>13, <1>14, <3>2
  <2> QED
    BY <2>1, <2>2
<1>17. ASSUME NEW i \in 1..w PROVE inside[Len(before) + i] = own[i]
  <2>1. d + i \in 1..z /\ g + (d + i) = Len(before) + i
    BY <1>12, <1>14
  <2> QED
    BY <1>12, <1>13, <2>1
<1> QED
  BY <1>1, <1>4, <1>6, <1>7, <1>10, <1>15, <1>16, <1>17

LEMMA LineIs ==
    ASSUME NEW p \in PatchType, NEW n \in 1..Len(p.hunks), NEW j \in 1..Len(p.hunks[n].lines)
    PROVE  LET r == SplitLines(p)
               line == p.hunks[n].lines[j]
               before == RawsBefore(p, n, j)
               k == LinePlace(p, n, j)
               rest == Len(line.strays)
           IN  /\ before \in Seq(RawType) /\ Len(before) \in Nat /\ rest \in Nat
               /\ HeadPlace(p, n) \in 1..Len(r) /\ k \in 1..Len(r)
               /\ k = HeadPlace(p, n) + Len(before) + 1
               /\ k + rest <= Len(r)
               /\ r[k] = Raw(line.kind, <<n, j>>, 0, 0)
               /\ \A q \in 1..Len(before) : r[HeadPlace(p, n) + q] = before[q]
               /\ \A q \in 1..rest : r[k + q] = Raw(line.strays[q], NoLine, Elsewhere, Elsewhere)
<1>1. PICK h : h = p.hunks[n]
  OBVIOUS
<1>2. PICK ss : ss = RawsOfLines(h, n)
  OBVIOUS
<1>3. PICK inside : inside = Inside(h, n)
  OBVIOUS
<1>4. PICK r : r = SplitLines(p)
  OBVIOUS
<1>5. PICK before : before = RawsBefore(p, n, j)
  OBVIOUS
<1>6. PICK line : line = h.lines[j]
  OBVIOUS
<1>7. h \in PatchHunk /\ n \in Numbers /\ p.preamble \in Nat
  BY <1>1, HunksRaws
<1>8. /\ line \in LineType /\ <<n, j>> \in PlaceOrNone
      /\ ss \in Seq(Seq(RawType)) /\ j \in 1..Len(ss)
      /\ ss[j] = RawsOfLine(line, <<n, j>>)
  BY <1>1, <1>2, <1>6, <1>7, LinesRaws
<1>9. /\ Len(line.strays) \in Nat
      /\ Len(ss[j]) = 1 + Len(line.strays)
      /\ ss[j][1] = Raw(line.kind, <<n, j>>, 0, 0)
      /\ \A q \in 1..Len(line.strays) : ss[j][1 + q] = Raw(line.strays[q], NoLine, Elsewhere, Elsewhere)
  BY <1>8, LineRaws
<1>10. before = Leading(h, n, j - 1) /\ j - 1 \in 0..Len(h.lines)
  BY <1>1, <1>5, <1>7, LinesRaws DEF RawsBefore
<1>11. before \in Seq(RawType) /\ Len(before) \in Nat
  BY <1>7, <1>10, LeadingIs
<1>12. /\ Len(before) + Len(ss[j]) <= Len(inside) /\ Len(inside) \in Nat
       /\ \A i \in 1..Len(before) : inside[i] = before[i]
       /\ \A i \in 1..Len(ss[j]) : inside[Len(before) + i] = ss[j][i]
  <2>1. j \in 1..Len(h.lines)
    BY <1>1
  <2>2. Len(inside) \in Nat
    BY <1>3, <1>7, InsideIs
  <2> QED
    BY <1>2, <1>3, <1>7, <1>10, <2>1, <2>2, InsidePlaces
<1>13. /\ HeadPlace(p, n) \in (p.preamble + 1)..Len(r)
       /\ HeadPlace(p, n) + Len(inside) <= Len(r)
       /\ \A q \in 1..Len(inside) : r[HeadPlace(p, n) + q] = inside[q]
       /\ Len(r) \in Nat
  BY <1>1, <1>2, <1>3, <1>4, HeadIs, SplitRaws
<1>14. PICK b : b = HeadPlace(p, n)
  OBVIOUS
<1>15. PICK k : k = LinePlace(p, n, j)
  OBVIOUS
<1>16. k = b + Len(before) + 1
  BY <1>5, <1>14, <1>15 DEF LinePlace
<1>17. b \in 1..Len(r) /\ k \in 1..Len(r) /\ k + Len(line.strays) <= Len(r) /\ b \in Nat /\ k \in Nat
  <2>1. /\ p.preamble \in Nat /\ Len(before) \in Nat /\ Len(inside) \in Nat
        /\ Len(line.strays) \in Nat /\ Len(r) \in Nat
    BY <1>7, <1>9, <1>11, <1>12, <1>13
  <2>2. Len(before) + (1 + Len(line.strays)) <= Len(inside)
    BY <1>9, <1>12
  <2>3. b \in (p.preamble + 1)..Len(r) /\ b + Len(inside) <= Len(r)
    BY <1>13, <1>14
  <2>4. b \in Nat /\ b >= 1 /\ b <= Len(r)
    BY ONLY <2>1, <2>3
  <2>5. k \in Nat /\ k >= 1
    BY ONLY <1>16, <2>1, <2>4
  <2>6. k + Len(line.strays) <= b + Len(inside)
    <3>1. PICK w \in Nat : w = Len(line.strays)
      BY <2>1
    <3>2. PICK d \in Nat : d = Len(before)
      BY <2>1
    <3>3. PICK m \in Nat : m = Len(inside)
      BY <2>1
    <3>4. k = b + d + 1 /\ d + (1 + w) <= m
      BY <1>16, <2>2, <3>1, <3>2, <3>3
    <3>5. k + w <= b + m
      BY ONLY <2>4, <3>4, w \in Nat, d \in Nat, m \in Nat
    <3> QED
      BY <3>1, <3>3, <3>5
  <2>7. k + Len(line.strays) <= Len(r)
    BY ONLY <2>1, <2>3, <2>4, <2>5, <2>6
  <2>8. k <= Len(r)
    BY ONLY <2>1, <2>5, <2>7
  <2> QED
    BY ONLY <2>1, <2>4, <2>5, <2>7, <2>8
<1>18. r[k] = Raw(line.kind, <<n, j>>, 0, 0)
  <2>1. 1 \in 1..Len(ss[j]) /\ Len(before) + 1 \in 1..Len(inside) /\ b + (Len(before) + 1) = k
    BY <1>9, <1>11, <1>12, <1>16, <1>17
  <2> QED
    BY <2>1, <1>9, <1>12, <1>13, <1>14
<1>19. ASSUME NEW q \in 1..Len(before) PROVE r[b + q] = before[q]
  <2>1. q \in 1..Len(inside)
    BY <1>9, <1>11, <1>12
  <2> QED
    BY <2>1, <1>12, <1>13, <1>14
<1>20. ASSUME NEW q \in 1..Len(line.strays)
       PROVE  r[k + q] = Raw(line.strays[q], NoLine, Elsewhere, Elsewhere)
  <2>1. 1 + q \in 1..Len(ss[j]) /\ Len(before) + (1 + q) \in 1..Len(inside)
        /\ b + (Len(before) + (1 + q)) = k + q
    <3>1. /\ Len(before) \in Nat /\ Len(inside) \in Nat /\ Len(line.strays) \in Nat
          /\ Len(ss[j]) = 1 + Len(line.strays) /\ Len(before) + Len(ss[j]) <= Len(inside)
          /\ q \in 1..Len(line.strays)
      BY <1>9, <1>11, <1>12
    <3> QED
      BY ONLY <3>1, <1>16, <1>17
  <2> QED
    BY <2>1, <1>9, <1>12, <1>13, <1>14
<1> QED
  BY <1>1, <1>4, <1>5, <1>6, <1>9, <1>11, <1>14, <1>15, <1>16, <1>17, <1>18, <1>19, <1>20

(* Every raw line is one of the preamble, the beginning of a hunk's header *)
(* or of a line, or a piece of one after the first.                        *)
LEMMA Origin ==
    ASSUME NEW p \in PatchType, NEW k \in 1..Len(SplitLines(p))
    PROVE  \/ k <= p.preamble
           \/ \E n \in 1..Len(p.hunks) : k = HeadPlace(p, n)
           \/ \E n \in 1..Len(p.hunks) : \E q \in 1..Len(p.hunks[n].strays) :
                 /\ k = HeadPlace(p, n) + q
                 /\ SplitLines(p)[k] = Raw(p.hunks[n].strays[q], NoLine, Elsewhere, Elsewhere)
           \/ \E n \in 1..Len(p.hunks) : \E j \in 1..Len(p.hunks[n].lines) : k = LinePlace(p, n, j)
           \/ \E n \in 1..Len(p.hunks) : \E j \in 1..Len(p.hunks[n].lines) :
                 \E q \in 1..Len(p.hunks[n].lines[j].strays) : k = LinePlace(p, n, j) + q
<1> SUFFICES ASSUME ~(k <= p.preamble)
             PROVE  \E n \in 1..Len(p.hunks) :
                       \/ k = HeadPlace(p, n)
                       \/ \E q \in 1..Len(p.hunks[n].strays) :
                             /\ k = HeadPlace(p, n) + q
                             /\ SplitLines(p)[k] = Raw(p.hunks[n].strays[q], NoLine, Elsewhere, Elsewhere)
                       \/ \E j \in 1..Len(p.hunks[n].lines) :
                             \/ k = LinePlace(p, n, j)
                             \/ \E q \in 1..Len(p.hunks[n].lines[j].strays) : k = LinePlace(p, n, j) + q
  OBVIOUS
<1>1. PICK ss : ss = RawsOfHunks(p)
  OBVIOUS
<1>2. /\ ss \in Seq(Seq(RawType)) /\ Len(ss) = Len(p.hunks) /\ p.preamble \in Nat
      /\ \A n \in 1..Len(p.hunks) : p.hunks[n] \in PatchHunk /\ n \in Numbers
                                    /\ ss[n] = RawsOfHunk(p.hunks[n], n)
  BY <1>1, HunksRaws
<1>3. /\ Len(FlattenSeq(ss)) \in Nat
      /\ Len(SplitLines(p)) = p.preamble + Len(FlattenSeq(ss))
  BY <1>1, SplitRaws
<1>4. k - p.preamble \in 1..Len(FlattenSeq(ss))
  BY <1>2, <1>3
<1>5. PICK n \in 1..Len(ss) : \E i \in 1..Len(ss[n]) : k - p.preamble = Len(Joined(ss, n - 1)) + i
  BY <1>2, <1>4, JoinedCovers
<1>6. PICK i \in 1..Len(ss[n]) : k - p.preamble = Len(Joined(ss, n - 1)) + i
  BY <1>5
<1>7. n \in 1..Len(p.hunks)
  BY <1>2
<1>8. Len(Joined(ss, n - 1)) \in Nat
  BY <1>2, JoinedPlaces
<1>9. PICK h : h = p.hunks[n]
  OBVIOUS
<1>10. h \in PatchHunk /\ n \in Numbers /\ ss[n] = RawsOfHunk(h, n)
  BY <1>2, <1>7, <1>9
<1>11. PICK tt : tt = RawsOfLines(h, n)
  OBVIOUS
<1>12. PICK g \in Nat : g = Len(h.strays)
  BY <1>10, InsideIs
<1>13. PICK z \in Nat : z = Len(FlattenSeq(tt))
  BY <1>10, <1>11, InsideIs
<1>14. PICK inside : inside = Inside(h, n)
  OBVIOUS
<1>15. /\ Len(inside) = g + z /\ Len(ss[n]) = 1 + (g + z)
       /\ \A q \in 1..g : inside[q] = Raw(h.strays[q], NoLine, Elsewhere, Elsewhere)
  <2>1. \A q \in 1..g : inside[q] = StrayRaws(h.strays)[q]
    BY <1>10, <1>12, <1>14, InsideIs
  <2>2. \A q \in 1..g : StrayRaws(h.strays)[q] = Raw(h.strays[q], NoLine, Elsewhere, Elsewhere)
    BY <1>10, <1>12, InsideIs
  <2>3. Len(inside) = g + z
    BY <1>10, <1>11, <1>12, <1>13, <1>14, InsideIs
  <2> QED
    BY <1>10, <1>14, <2>1, <2>2, <2>3, HunkRaws
<1>16. k = HeadPlace(p, n) + (i - 1) /\ HeadPlace(p, n) \in Nat /\ i \in Nat
  <2>1. HeadPlace(p, n) = p.preamble + Len(Joined(ss, n - 1)) + 1
    BY <1>1 DEF HeadPlace
  <2>2. p.preamble \in Nat /\ k \in Nat /\ i \in Nat
    BY <1>2, <1>3, <1>15
  <2>3. HeadPlace(p, n) \in Nat
    BY ONLY <1>8, <2>1, <2>2
  <2>4. k = p.preamble + (Len(Joined(ss, n - 1)) + i)
    BY ONLY <1>6, <1>8, <2>2
  <2>5. k = HeadPlace(p, n) + (i - 1)
    BY ONLY <1>8, <2>1, <2>2, <2>4
  <2> QED
    BY <2>2, <2>3, <2>5
<1>17. CASE i = 1
  BY <1>7, <1>16, <1>17
<1>18. CASE i # 1 /\ i - 1 <= g
  <2>1. i - 1 \in 1..g /\ k = HeadPlace(p, n) + (i - 1)
    BY <1>16, <1>18
  <2>2. i - 1 \in 1..Len(inside)
    BY <1>15, <2>1
  <2>3. SplitLines(p)[HeadPlace(p, n) + (i - 1)] = inside[i - 1]
    BY <1>7, <1>9, <1>14, <2>2, HeadIs
  <2>4. SplitLines(p)[k] = Raw(h.strays[i - 1], NoLine, Elsewhere, Elsewhere)
    BY <1>15, <2>1, <2>3
  <2> QED
    BY <1>7, <1>9, <1>12, <2>1, <2>4
<1>19. CASE i # 1 /\ ~(i - 1 <= g)
  <2>0. PICK y : y = (i - 1) - g
    OBVIOUS
  <2>1. y \in 1..z /\ y \in 1..Len(FlattenSeq(tt)) /\ i - 1 = g + y
    <3>1. i \in 1..(1 + (g + z))
      BY <1>15
    <3>2. y \in 1..z /\ i - 1 = g + y
      BY ONLY <1>19, <2>0, <3>1, g \in Nat, z \in Nat
    <3> QED
      BY <1>13, <3>2
  <2>2. tt \in Seq(Seq(RawType)) /\ Len(tt) = Len(h.lines)
        /\ \A j \in 1..Len(h.lines) : h.lines[j] \in LineType /\ <<n, j>> \in PlaceOrNone
                                     /\ tt[j] = RawsOfLine(h.lines[j], <<n, j>>)
    BY <1>10, <1>11, LinesRaws
  <2>3. PICK j \in 1..Len(tt) : \E q \in 1..Len(tt[j]) : y = Len(Joined(tt, j - 1)) + q
    BY <2>1, <2>2, JoinedCovers
  <2>4. PICK q \in 1..Len(tt[j]) : y = Len(Joined(tt, j - 1)) + q
    BY <2>3
  <2>5. j \in 1..Len(h.lines)
    BY <2>2
  <2>6. Len(Joined(tt, j - 1)) \in Nat
    BY <2>2, JoinedPlaces
  <2>7. Len(h.lines[j].strays) \in Nat /\ Len(tt[j]) = 1 + Len(h.lines[j].strays)
    BY <2>2, <2>5, LineRaws
  <2>8. LinePlace(p, n, j) = HeadPlace(p, n) + (g + Len(Joined(tt, j - 1))) + 1
    <3>1. j - 1 \in 0..Len(h.lines)
      BY <2>5
    <3>2. Len(Leading(h, n, j - 1)) = g + Len(Joined(tt, j - 1))
      BY <1>10, <1>11, <1>12, <3>1, LeadingIs
    <3> QED
      BY <1>9, <3>2 DEF LinePlace, RawsBefore
  <2>9. k = LinePlace(p, n, j) + (q - 1) /\ q \in Nat /\ LinePlace(p, n, j) \in Nat
    <3>1. PICK d \in Nat : d = Len(Joined(tt, j - 1))
      BY <2>6
    <3>2. PICK b \in Nat : b = HeadPlace(p, n)
      BY <1>16
    <3>3. k = b + (g + y) /\ y = d + q /\ LinePlace(p, n, j) = b + (g + d) + 1
      BY <1>16, <2>1, <2>4, <2>8, <3>1, <3>2
    <3>4. q \in Nat
      BY <2>7
    <3> QED
      BY ONLY <3>3, <3>4, b \in Nat, d \in Nat, g \in Nat
  <2>10. CASE q = 1
    <3>1. k = LinePlace(p, n, j)
      BY ONLY <2>9, <2>10
    <3> QED
      BY <1>7, <1>9, <2>5, <3>1
  <2>11. CASE q # 1
    <3>1. q - 1 \in 1..Len(h.lines[j].strays)
      BY <2>7, <2>11
    <3>2. k = LinePlace(p, n, j) + (q - 1)
      BY <2>9
    <3> QED
      BY <1>7, <1>9, <2>5, <3>1, <3>2
  <2> QED
    BY <2>10, <2>11
<1> QED
  BY <1>17, <1>18, <1>19

-----------------------------------------------------------------------------
(* What the parser has made of the first e raw lines.                      *)

(* The number that line k gets in the hunk that begins at b.               *)
NumberFrom(r, b, k, side, start) ==
    IF r[k].kind \in side THEN start + CountIn(SubSeq(r, b + 1, k - 1), side) ELSE NoNumber

Numbered(r, b, k) ==
    [kind |-> r[k].kind, at |-> r[k].at,
     old |-> NumberFrom(r, b, k, OnOld, r[b].old), new |-> NumberFrom(r, b, k, OnNew, r[b].new)]

LinesIn(r, b, e) ==
    FlattenSeq([i \in 1..(e - b) |-> IF r[b + i].kind \in Kinds THEN <<Numbered(r, b, b + i)>> ELSE <<>>])

HunkIn(r, b, e) == [old |-> r[b].old, new |-> r[b].new, lines |-> LinesIn(r, b, e)]

(* b is the last header up to k.                                           *)
IsHeadOf(r, b, k) ==
    /\ b \in 1..k
    /\ r[b].kind = "header"
    /\ \A c \in (b + 1)..k : r[c].kind # "header"

(* heads lists the headers up to e.                                        *)
HeadsOf(heads, r, e) ==
    /\ heads \in Seq(Nat)
    /\ Increasing(heads)
    /\ \A m \in 1..Len(heads) : heads[m] \in 1..e /\ r[heads[m]].kind = "header"
    /\ \A b \in 1..e : r[b].kind = "header" => \E m \in 1..Len(heads) : heads[m] = b

ReadBy(heads, r, e) ==
    IF heads = <<>> THEN header = NoHeader /\ hunks = <<>>
    ELSE LET b == heads[Len(heads)]
         IN  /\ header = [old |-> r[b].old, new |-> r[b].new, lines |-> <<>>]
             /\ lines = LinesIn(r, b, e)
             /\ old_line = r[b].old + CountIn(SubSeq(r, b + 1, e), OnOld)
             /\ new_line = r[b].new + CountIn(SubSeq(r, b + 1, e), OnNew)
             /\ Len(hunks) = Len(heads) - 1
             /\ \A m \in 1..Len(hunks) : hunks[m] = HunkIn(r, heads[m], heads[m + 1] - 1)

HunksRead ==
    \E heads : /\ HeadsOf(heads, SplitLines(patch), next - 1)
               /\ ReadBy(heads, SplitLines(patch), next - 1)

(* All lines in all hunks, in one list.                                    *)
HeadOf(r, k) == CHOOSE b \in 1..k : IsHeadOf(r, b, k)

OwnLine(r, k) ==
    IF r[k].kind \in Kinds /\ \E b \in 1..k : IsHeadOf(r, b, k)
    THEN <<Numbered(r, HeadOf(r, k), k)>> ELSE <<>>

LinesUpTo(r, e) == FlattenSeq([k \in 1..e |-> OwnLine(r, k)])

LinesRead == ParsedLines = LinesUpTo(SplitLines(patch), next - 1)

-----------------------------------------------------------------------------
(* Counting the entries of a list that are of some kinds.                  *)
LEMMA CountEmpty == ASSUME NEW kinds PROVE CountIn(<<>>, kinds) = 0
<1>1. {i \in DOMAIN <<>> : <<>>[i].kind \in kinds} = {}
  OBVIOUS
<1> QED
  BY <1>1, FS_EmptySet DEF CountIn

LEMMA CountOne == ASSUME NEW e, NEW kinds PROVE CountIn(<<e>>, kinds) = IF e.kind \in kinds THEN 1 ELSE 0
<1>1. PICK A : A = {i \in DOMAIN <<e>> : <<e>>[i].kind \in kinds}
  OBVIOUS
<1>2. DOMAIN <<e>> = {1} /\ <<e>>[1] = e
  OBVIOUS
<1>3. A = IF e.kind \in kinds THEN {1} ELSE {}
  BY <1>1, <1>2
<1>4. CountIn(<<e>>, kinds) = Cardinality(A)
  BY <1>1 DEF CountIn
<1> QED
  BY <1>3, <1>4, FS_EmptySet, FS_Singleton

LEMMA CountStep ==
    ASSUME NEW T, NEW s \in Seq(T), NEW e \in T, NEW kinds
    PROVE  /\ CountIn(s, kinds) \in Nat
           /\ CountIn(Append(s, e), kinds) = CountIn(s, kinds) + (IF e.kind \in kinds THEN 1 ELSE 0)
<1>1. Len(s) \in Nat /\ DOMAIN s = 1..Len(s)
  BY LenProperties
<1>2. PICK u : u = Append(s, e)
  OBVIOUS
<1>3. /\ DOMAIN u = 1..(Len(s) + 1)
      /\ \A i \in 1..Len(s) : u[i] = s[i]
      /\ u[Len(s) + 1] = e
  <2>1. u \in Seq(T) /\ Len(u) = Len(s) + 1
    BY <1>2, AppendProperties
  <2>2. DOMAIN u = 1..Len(u)
    BY <2>1, LenProperties
  <2> QED
    BY <1>2, <2>1, <2>2, AppendProperties
<1>4. PICK A : A = {i \in 1..Len(s) : s[i].kind \in kinds}
  OBVIOUS
<1>5. PICK B : B = {i \in 1..(Len(s) + 1) : u[i].kind \in kinds}
  OBVIOUS
<1>6. IsFiniteSet(A) /\ Cardinality(A) \in Nat /\ Len(s) + 1 \notin A
  <2>1. IsFiniteSet(1..Len(s))
    BY <1>1, CountFirst
  <2>2. A \in SUBSET (1..Len(s))
    BY <1>4
  <2>3. IsFiniteSet(A)
    BY <2>1, <2>2, FS_Subset
  <2>4. Len(s) + 1 \notin 1..Len(s)
    BY <1>1
  <2> QED
    BY <2>2, <2>3, <2>4, FS_CardinalityType
<1>7. \A i \in 1..(Len(s) + 1) : i \in 1..Len(s) \/ i = Len(s) + 1
  BY <1>1
<1>8. CountIn(s, kinds) = Cardinality(A) /\ CountIn(u, kinds) = Cardinality(B)
  BY <1>1, <1>3, <1>4, <1>5 DEF CountIn
<1>9. \A i \in 1..Len(s) : i \in 1..(Len(s) + 1)
  BY <1>1
<1>10. CASE e.kind \in kinds
  <2>1. Len(s) + 1 \in 1..(Len(s) + 1)
    BY <1>1
  <2>2. B = A \union {Len(s) + 1}
    BY <1>3, <1>4, <1>5, <1>7, <1>9, <1>10, <2>1
  <2>3. Cardinality(B) = Cardinality(A) + 1
    BY <1>6, <2>2, FS_AddElement
  <2> QED
    BY <1>2, <1>6, <1>8, <1>10, <2>3
<1>11. CASE ~(e.kind \in kinds)
  <2>1. B = A
    BY <1>3, <1>4, <1>5, <1>7, <1>9, <1>11
  <2> QED
    BY <1>2, <1>6, <1>8, <1>11, <2>1
<1> QED
  BY <1>10, <1>11

LEMMA CountType == ASSUME NEW T, NEW s \in Seq(T), NEW kinds PROVE CountIn(s, kinds) \in Nat
<1>1. Len(s) \in Nat /\ DOMAIN s = 1..Len(s)
  BY LenProperties
<1>2. PICK A : A = {i \in DOMAIN s : s[i].kind \in kinds}
  OBVIOUS
<1>3. IsFiniteSet(1..Len(s)) /\ A \in SUBSET (1..Len(s))
  BY <1>1, <1>2, CountFirst
<1>4. Cardinality(A) \in Nat
  BY <1>3, FS_Subset, FS_CardinalityType
<1> QED
  BY <1>2, <1>4 DEF CountIn

(* One raw line more is counted.                                           *)
LEMMA CountRead ==
    ASSUME NEW r \in Seq(RawType), NEW b \in 1..Len(r), NEW e \in b..Len(r), NEW kinds
    PROVE  /\ SubSeq(r, b + 1, e) \in Seq(RawType)
           /\ CountIn(SubSeq(r, b + 1, e), kinds) \in Nat
           /\ e = b => CountIn(SubSeq(r, b + 1, e), kinds) = 0
           /\ e < Len(r) =>
                CountIn(SubSeq(r, b + 1, e + 1), kinds) =
                    CountIn(SubSeq(r, b + 1, e), kinds) + (IF r[e + 1].kind \in kinds THEN 1 ELSE 0)
<1>0. Len(r) \in Nat /\ b \in Nat /\ e \in Nat /\ b <= e /\ \A i \in 1..Len(r) : r[i] \in RawType
  BY LenProperties, ElementOfSeq
<1>1. \A f \in b..Len(r) : SubSeq(r, b + 1, f) \in Seq(RawType)
  <2> SUFFICES ASSUME NEW f \in b..Len(r) PROVE SubSeq(r, b + 1, f) \in Seq(RawType)
    OBVIOUS
  <2>1. \A i \in (b + 1)..f : r[i] \in RawType
    BY <1>0
  <2>2. b + 1 \in Int /\ f \in Int
    BY <1>0
  <2> QED
    BY <2>1, <2>2, SubSeqProperties
<1>2. PICK s : s = SubSeq(r, b + 1, e)
  OBVIOUS
<1>3. s \in Seq(RawType) /\ CountIn(s, kinds) \in Nat
  BY <1>1, <1>2, CountType
<1>4. e = b => CountIn(s, kinds) = 0
  <2> SUFFICES ASSUME e = b PROVE CountIn(s, kinds) = 0
    OBVIOUS
  <2>1. b + 1 \in Int /\ e \in Int /\ e < b + 1
    BY <1>0
  <2>2. s = <<>>
    BY <1>2, <2>1, SubSeqEmpty
  <2> QED
    BY <2>2, CountEmpty
<1>5. ASSUME e < Len(r)
      PROVE  CountIn(SubSeq(r, b + 1, e + 1), kinds) = CountIn(s, kinds) + (IF r[e + 1].kind \in kinds THEN 1 ELSE 0)
  <2>1. b + 1 \in 1..Len(r) /\ e + 1 \in (b + 1)..Len(r) /\ (e + 1) - 1 = e /\ e + 1 \in 1..Len(r)
    BY <1>0, <1>5
  <2>2. SubSeq(r, b + 1, e + 1) = s \o <<r[e + 1]>>
    BY <1>2, <2>1, SubSeqRecursiveSecond
  <2>3. r[e + 1] \in RawType
    BY <1>0, <2>1
  <2>4. SubSeq(r, b + 1, e + 1) = Append(s, r[e + 1])
    BY <1>3, <2>2, <2>3, AppendIsConcat
  <2>5. CountIn(Append(s, r[e + 1]), kinds) = CountIn(s, kinds) + (IF r[e + 1].kind \in kinds THEN 1 ELSE 0)
    BY <1>3, <2>3, CountStep
  <2> QED
    BY ONLY <2>4, <2>5
<1> QED
  BY <1>2, <1>3, <1>4, <1>5

-----------------------------------------------------------------------------
(* One raw line more is read.                                              *)
NumberedSoFar(r, k, old, new) ==
    [kind |-> r[k].kind, at |-> r[k].at,
     old |-> IF r[k].kind \in OnOld THEN old ELSE NoNumber,
     new |-> IF r[k].kind \in OnNew THEN new ELSE NoNumber]

LEMMA NumberedType ==
    ASSUME NEW r \in Seq(RawType), NEW b \in 1..Len(r), NEW k \in (b + 1)..Len(r), r[k].kind \in Kinds
    PROVE  Numbered(r, b, k) \in DiffLine
<1>0. Len(r) \in Nat /\ b \in Nat /\ k \in 1..Len(r) /\ k - 1 \in b..Len(r)
  BY LenProperties
<1>1. r[b] \in RawType /\ r[k] \in RawType
  BY <1>0, ElementOfSeq
<1>2. \A kinds : CountIn(SubSeq(r, b + 1, k - 1), kinds) \in Nat
  BY <1>0, CountRead
<1>3. r[b].old \in Nat /\ r[b].new \in Nat /\ r[k].at \in PlaceOrNone
  BY <1>1 DEF RawType
<1>4. /\ r[b].old + CountIn(SubSeq(r, b + 1, k - 1), OnOld) \in Nat
      /\ r[b].new + CountIn(SubSeq(r, b + 1, k - 1), OnNew) \in Nat
  BY <1>2, <1>3
<1>5. /\ NumberFrom(r, b, k, OnOld, r[b].old) \in Nat \union {NoNumber}
      /\ NumberFrom(r, b, k, OnNew, r[b].new) \in Nat \union {NoNumber}
  BY <1>4 DEF NumberFrom
<1> QED
  BY <1>3, <1>5 DEF Numbered, DiffLine, PlaceOrNone

LEMMA LinesInStep ==
    ASSUME NEW r \in Seq(RawType), NEW b \in 1..Len(r), NEW e \in b..Len(r)
    PROVE  /\ LinesIn(r, b, e) \in Seq(DiffLine)
           /\ e = b => LinesIn(r, b, e) = <<>>
           /\ e < Len(r) =>
                LinesIn(r, b, e + 1) = IF r[e + 1].kind \in Kinds
                                       THEN Append(LinesIn(r, b, e), Numbered(r, b, e + 1))
                                       ELSE LinesIn(r, b, e)
<1> DEFINE Of(f) == [i \in 1..(f - b) |-> IF r[b + i].kind \in Kinds THEN <<Numbered(r, b, b + i)>> ELSE <<>>]
<1>0. Len(r) \in Nat /\ b \in Nat /\ e \in Nat /\ b <= e
  BY LenProperties
<1>1. ASSUME NEW f \in b..Len(r)
      PROVE  /\ Of(f) \in Seq(Seq(DiffLine)) /\ Len(Of(f)) = f - b
             /\ \A i \in 1..(f - b) :
                   Of(f)[i] = IF r[b + i].kind \in Kinds THEN <<Numbered(r, b, b + i)>> ELSE <<>>
  <2>1. f - b \in Nat
    BY <1>0
  <2>2. ASSUME NEW i \in 1..(f - b), r[b + i].kind \in Kinds PROVE <<Numbered(r, b, b + i)>> \in Seq(DiffLine)
    <3>1. b + i \in (b + 1)..Len(r)
      BY <1>0
    <3>2. Numbered(r, b, b + i) \in DiffLine
      BY <2>2, <3>1, NumberedType
    <3> QED
      BY <3>2
  <2>3. <<>> \in Seq(DiffLine)
    OBVIOUS
  <2>4. Of(f) \in [1..(f - b) -> Seq(DiffLine)]
    BY <2>2, <2>3
  <2> QED
    BY <2>1, <2>4, FunctionList
<1>2. \A f : LinesIn(r, b, f) = FlattenSeq(Of(f))
  BY DEF LinesIn
<1> HIDE DEF Of
<1>3. LinesIn(r, b, e) \in Seq(DiffLine)
  BY <1>1, <1>2, FlattenType
<1>4. e = b => LinesIn(r, b, e) = <<>>
  <2> SUFFICES ASSUME e = b PROVE LinesIn(r, b, e) = <<>>
    OBVIOUS
  <2>1. Of(e) \in Seq(Seq(DiffLine)) /\ Len(Of(e)) = 0
    BY <1>0, <1>1
  <2>2. Of(e) = <<>>
    BY <2>1, EmptySeq
  <2> QED
    BY <1>2, <2>2, FlattenEmpty
<1>5. ASSUME e < Len(r)
      PROVE  LinesIn(r, b, e + 1) = IF r[e + 1].kind \in Kinds
                                    THEN Append(LinesIn(r, b, e), Numbered(r, b, e + 1))
                                    ELSE LinesIn(r, b, e)
  <2>0. e + 1 \in b..Len(r) /\ (e + 1) - b = (e - b) + 1 /\ b + ((e - b) + 1) = e + 1 /\ e - b \in Nat
        /\ (e - b) + 1 \in 1..((e - b) + 1) /\ \A i \in 1..(e - b) : i \in 1..((e - b) + 1)
    BY <1>0, <1>5
  <2>1. PICK ss : ss = Of(e)
    OBVIOUS
  <2>2. PICK tt : tt = Of(e + 1)
    OBVIOUS
  <2>3. /\ ss \in Seq(Seq(DiffLine)) /\ Len(ss) = e - b
        /\ \A i \in 1..(e - b) : ss[i] = IF r[b + i].kind \in Kinds THEN <<Numbered(r, b, b + i)>> ELSE <<>>
    BY <1>1, <2>1
  <2>4. /\ tt \in Seq(Seq(DiffLine)) /\ Len(tt) = (e - b) + 1
        /\ \A i \in 1..((e - b) + 1) :
              tt[i] = IF r[b + i].kind \in Kinds THEN <<Numbered(r, b, b + i)>> ELSE <<>>
    BY <1>1, <2>0, <2>2
  <2>5. Continues(tt, ss)
    <3>1. \A i \in 1..(e - b) : ss[i] = tt[i]
      BY <2>0, <2>3, <2>4
    <3>2. e - b <= (e - b) + 1
      BY <2>0
    <3> QED
      BY <2>3, <2>4, <3>1, <3>2 DEF Continues
  <2>6. FlattenSeq(tt) = FlattenSeq(ss) \o tt[(e - b) + 1]
    BY <2>3, <2>4, <2>5, FlattenGrows
  <2>7. tt[(e - b) + 1] = IF r[e + 1].kind \in Kinds THEN <<Numbered(r, b, e + 1)>> ELSE <<>>
    BY <2>0, <2>4
  <2>8. LinesIn(r, b, e + 1) = FlattenSeq(tt) /\ LinesIn(r, b, e) = FlattenSeq(ss)
    BY <1>2, <2>1, <2>2
  <2>9. CASE r[e + 1].kind \in Kinds
    <3>1. e + 1 \in (b + 1)..Len(r)
      BY <1>0, <1>5
    <3>2. Numbered(r, b, e + 1) \in DiffLine
      BY <2>9, <3>1, NumberedType
    <3>3. Append(LinesIn(r, b, e), Numbered(r, b, e + 1)) = LinesIn(r, b, e) \o <<Numbered(r, b, e + 1)>>
      BY <1>3, <3>2, AppendIsConcat
    <3> QED
      BY <2>6, <2>7, <2>8, <2>9, <3>3
  <2>10. CASE ~(r[e + 1].kind \in Kinds)
    <3>1. LinesIn(r, b, e) \o <<>> = LinesIn(r, b, e)
      BY <1>3, ConcatEmptySeq
    <3> QED
      BY <2>6, <2>7, <2>8, <2>10, <3>1
  <2> QED
    BY <2>9, <2>10
<1> QED
  BY <1>3, <1>4, <1>5

LEMMA HeadUnique ==
    ASSUME NEW r, NEW k \in Nat, NEW b, NEW c, IsHeadOf(r, b, k), IsHeadOf(r, c, k)
    PROVE  b = c
BY DEF IsHeadOf

LEMMA OwnLineIs ==
    ASSUME NEW r \in Seq(RawType), NEW k \in 1..Len(r)
    PROVE  /\ OwnLine(r, k) \in Seq(DiffLine)
           /\ r[k].kind \in Kinds =>
                \A b : IsHeadOf(r, b, k) =>
                    b \in 1..Len(r) /\ k \in (b + 1)..Len(r) /\ OwnLine(r, k) = <<Numbered(r, b, k)>>
           /\ r[k].kind \in Kinds /\ (\A b \in 1..k : ~IsHeadOf(r, b, k)) => OwnLine(r, k) = <<>>
           /\ r[k].kind \notin Kinds => OwnLine(r, k) = <<>>
<1>0. Len(r) \in Nat /\ k \in Nat
  BY LenProperties
<1>1. ASSUME r[k].kind \in Kinds, NEW b, IsHeadOf(r, b, k)
      PROVE  /\ b \in 1..Len(r) /\ k \in (b + 1)..Len(r)
             /\ OwnLine(r, k) = <<Numbered(r, b, k)>>
             /\ Numbered(r, b, k) \in DiffLine
  <2>1. b \in 1..k /\ r[b].kind = "header"
    BY <1>1 DEF IsHeadOf
  <2>2. b # k
    BY <1>1, <2>1 DEF Kinds
  <2>3. b \in 1..Len(r) /\ k \in (b + 1)..Len(r)
    BY <1>0, <2>1, <2>2
  <2>4. IsHeadOf(r, HeadOf(r, k), k)
    BY <1>1, <2>1 DEF HeadOf
  <2>5. HeadOf(r, k) = b
    BY <1>0, <1>1, <2>4, HeadUnique
  <2>6. OwnLine(r, k) = <<Numbered(r, b, k)>>
    BY <1>1, <2>1, <2>5 DEF OwnLine
  <2>7. Numbered(r, b, k) \in DiffLine
    BY <1>1, <2>3, NumberedType
  <2> QED
    BY <2>3, <2>6, <2>7
<1>2. ASSUME r[k].kind \notin Kinds \/ \A b \in 1..k : ~IsHeadOf(r, b, k)
      PROVE  OwnLine(r, k) = <<>>
  BY <1>2 DEF OwnLine
<1>3. OwnLine(r, k) \in Seq(DiffLine)
  <2>1. CASE r[k].kind \in Kinds /\ \E b \in 1..k : IsHeadOf(r, b, k)
    <3>1. PICK b \in 1..k : IsHeadOf(r, b, k)
      BY <2>1
    <3>2. OwnLine(r, k) = <<Numbered(r, b, k)>> /\ Numbered(r, b, k) \in DiffLine
      BY <1>1, <2>1, <3>1
    <3> QED
      BY <3>2
  <2>2. CASE r[k].kind \notin Kinds \/ \A b \in 1..k : ~IsHeadOf(r, b, k)
    <3>1. OwnLine(r, k) = <<>>
      BY <1>2, <2>2
    <3> QED
      BY <3>1
  <2> QED
    BY <2>1, <2>2
<1> QED
  BY <1>1, <1>2, <1>3

LEMMA LinesUpToStep ==
    ASSUME NEW r \in Seq(RawType), NEW e \in 0..Len(r)
    PROVE  /\ LinesUpTo(r, e) \in Seq(DiffLine)
           /\ e = 0 => LinesUpTo(r, e) = <<>>
           /\ e < Len(r) => LinesUpTo(r, e + 1) = LinesUpTo(r, e) \o OwnLine(r, e + 1)
<1> DEFINE Of(f) == [k \in 1..f |-> OwnLine(r, k)]
<1>0. Len(r) \in Nat /\ e \in Nat /\ e <= Len(r)
  BY LenProperties
<1>1. ASSUME NEW f \in 0..Len(r)
      PROVE  /\ Of(f) \in Seq(Seq(DiffLine)) /\ Len(Of(f)) = f
             /\ \A k \in 1..f : Of(f)[k] = OwnLine(r, k)
  <2>1. f \in Nat /\ \A k \in 1..f : k \in 1..Len(r)
    BY <1>0
  <2>2. \A k \in 1..f : OwnLine(r, k) \in Seq(DiffLine)
    BY <2>1, OwnLineIs
  <2>3. Of(f) \in [1..f -> Seq(DiffLine)]
    BY <2>2
  <2> QED
    BY <2>1, <2>3, FunctionList
<1>2. \A f : LinesUpTo(r, f) = FlattenSeq(Of(f))
  BY DEF LinesUpTo
<1> HIDE DEF Of
<1>3. LinesUpTo(r, e) \in Seq(DiffLine)
  BY <1>1, <1>2, FlattenType
<1>4. e = 0 => LinesUpTo(r, e) = <<>>
  <2> SUFFICES ASSUME e = 0 PROVE LinesUpTo(r, e) = <<>>
    OBVIOUS
  <2>1. Of(e) \in Seq(Seq(DiffLine)) /\ Len(Of(e)) = 0
    BY <1>0, <1>1
  <2>2. Of(e) = <<>>
    BY <2>1, EmptySeq
  <2> QED
    BY <1>2, <2>2, FlattenEmpty
<1>5. ASSUME e < Len(r) PROVE LinesUpTo(r, e + 1) = LinesUpTo(r, e) \o OwnLine(r, e + 1)
  <2>0. e + 1 \in 0..Len(r) /\ e + 1 \in 1..(e + 1) /\ e <= e + 1 /\ \A i \in 1..e : i \in 1..(e + 1)
    BY <1>0, <1>5
  <2>1. PICK ss : ss = Of(e)
    OBVIOUS
  <2>2. PICK tt : tt = Of(e + 1)
    OBVIOUS
  <2>3. ss \in Seq(Seq(DiffLine)) /\ Len(ss) = e /\ \A k \in 1..e : ss[k] = OwnLine(r, k)
    BY <1>1, <2>1
  <2>4. tt \in Seq(Seq(DiffLine)) /\ Len(tt) = e + 1 /\ \A k \in 1..(e + 1) : tt[k] = OwnLine(r, k)
    BY <1>1, <2>0, <2>2
  <2>5. Continues(tt, ss)
    BY <2>0, <2>3, <2>4 DEF Continues
  <2>6. FlattenSeq(tt) = FlattenSeq(ss) \o tt[e + 1]
    BY <2>3, <2>4, <2>5, FlattenGrows
  <2>7. LinesUpTo(r, e + 1) = FlattenSeq(tt) /\ LinesUpTo(r, e) = FlattenSeq(ss)
    BY <1>2, <2>1, <2>2
  <2> QED
    BY <2>0, <2>4, <2>6, <2>7
<1> QED
  BY <1>3, <1>4, <1>5

LEMMA HeadsKeep ==
    ASSUME NEW heads, NEW r, NEW e \in Nat, HeadsOf(heads, r, e), r[e + 1].kind # "header"
    PROVE  HeadsOf(heads, r, e + 1)
<1>1. \A b \in 1..(e + 1) : b \in 1..e \/ b = e + 1
  OBVIOUS
<1>2. \A b \in 1..e : b \in 1..(e + 1)
  OBVIOUS
<1> QED
  BY <1>1, <1>2 DEF HeadsOf

LEMMA HeadsAdd ==
    ASSUME NEW heads, NEW r, NEW e \in Nat, HeadsOf(heads, r, e), r[e + 1].kind = "header"
    PROVE  /\ HeadsOf(Append(heads, e + 1), r, e + 1)
           /\ Len(Append(heads, e + 1)) = Len(heads) + 1
           /\ Append(heads, e + 1)[Len(heads) + 1] = e + 1
           /\ Append(heads, e + 1) # <<>>
           /\ \A m \in 1..Len(heads) : Append(heads, e + 1)[m] = heads[m]
<1>1. /\ heads \in Seq(Nat) /\ Increasing(heads) /\ Len(heads) \in Nat
      /\ \A m \in 1..Len(heads) : heads[m] \in 1..e /\ r[heads[m]].kind = "header"
      /\ \A b \in 1..e : r[b].kind = "header" => \E m \in 1..Len(heads) : heads[m] = b
  BY LenProperties DEF HeadsOf
<1>2. PICK hh : hh = Append(heads, e + 1)
  OBVIOUS
<1>3. /\ hh \in Seq(Nat) /\ Len(hh) = Len(heads) + 1 /\ hh # <<>>
      /\ \A m \in 1..Len(heads) : hh[m] = heads[m]
      /\ hh[Len(heads) + 1] = e + 1
  BY <1>1, <1>2, AppendProperties
<1>4. \A m \in 1..Len(hh) : m \in 1..Len(heads) \/ m = Len(heads) + 1
  BY <1>1, <1>3
<1>5. Increasing(hh)
  <2> SUFFICES ASSUME NEW i \in 1..Len(hh), NEW j \in 1..Len(hh), i < j PROVE hh[i] < hh[j]
    BY DEF Increasing
  <2>1. i \in 1..Len(heads)
    BY <1>1, <1>3
  <2>2. CASE j \in 1..Len(heads)
    BY <1>1, <1>3, <2>1, <2>2 DEF Increasing
  <2>3. CASE j = Len(heads) + 1
    <3>1. heads[i] \in 1..e
      BY <1>1, <2>1
    <3> QED
      BY <1>3, <2>1, <2>3, <3>1
  <2> QED
    BY <1>4, <2>2, <2>3
<1>6. ASSUME NEW m \in 1..Len(hh) PROVE hh[m] \in 1..(e + 1) /\ r[hh[m]].kind = "header"
  <2>1. CASE m \in 1..Len(heads)
    <3>1. heads[m] \in 1..e /\ r[heads[m]].kind = "header" /\ hh[m] = heads[m]
      BY <1>1, <1>3, <2>1
    <3> QED
      BY <3>1
  <2>2. CASE m = Len(heads) + 1
    BY <1>3, <2>2
  <2> QED
    BY <1>4, <2>1, <2>2
<1>7. ASSUME NEW b \in 1..(e + 1), r[b].kind = "header" PROVE \E m \in 1..Len(hh) : hh[m] = b
  <2>1. CASE b \in 1..e
    <3>1. PICK m \in 1..Len(heads) : heads[m] = b
      BY <1>1, <1>7, <2>1
    <3>2. m \in 1..Len(hh)
      BY <1>1, <1>3
    <3> QED
      BY <1>3, <3>1, <3>2
  <2>2. CASE b = e + 1
    <3>1. Len(heads) + 1 \in 1..Len(hh)
      BY <1>1, <1>3
    <3> QED
      BY <1>3, <2>2, <3>1
  <2> QED
    BY <2>1, <2>2
<1>8. HeadsOf(hh, r, e + 1)
  BY <1>3, <1>5, <1>6, <1>7 DEF HeadsOf
<1> QED
  BY <1>2, <1>3, <1>8

LEMMA HeadsLast ==
    ASSUME NEW heads, NEW r, NEW e \in Nat, HeadsOf(heads, r, e)
    PROVE  /\ heads = <<>> => \A b \in 1..e : r[b].kind # "header"
           /\ heads # <<>> => Len(heads) \in 1..Len(heads) /\ IsHeadOf(r, heads[Len(heads)], e)
<1>1. /\ heads \in Seq(Nat) /\ Increasing(heads) /\ Len(heads) \in Nat
      /\ \A m \in 1..Len(heads) : heads[m] \in 1..e /\ r[heads[m]].kind = "header"
      /\ \A b \in 1..e : r[b].kind = "header" => \E m \in 1..Len(heads) : heads[m] = b
  BY LenProperties DEF HeadsOf
<1>2. ASSUME heads = <<>>, NEW b \in 1..e PROVE r[b].kind # "header"
  <2>1. Len(heads) = 0
    BY <1>2, EmptySeq
  <2> QED
    BY <1>1, <2>1
<1>3. ASSUME heads # <<>> PROVE Len(heads) \in 1..Len(heads) /\ IsHeadOf(r, heads[Len(heads)], e)
  <2>1. Len(heads) \in 1..Len(heads)
    BY <1>1, <1>3, EmptySeq
  <2>2. PICK last : last = heads[Len(heads)]
    OBVIOUS
  <2>3. last \in 1..e /\ r[last].kind = "header"
    BY <1>1, <2>1, <2>2
  <2>4. ASSUME NEW c \in (last + 1)..e, r[c].kind = "header" PROVE FALSE
    <3>1. c \in 1..e /\ c > last
      BY <2>3
    <3>2. PICK m \in 1..Len(heads) : heads[m] = c
      BY <1>1, <2>4, <3>1
    <3>3. m = Len(heads) \/ m < Len(heads)
      BY <1>1
    <3>4. m < Len(heads) => heads[m] < last
      BY <2>1, <2>2, <1>1 DEF Increasing
    <3> QED
      BY <2>2, <2>3, <3>1, <3>2, <3>3, <3>4
  <2>5. IsHeadOf(r, last, e)
    BY <2>3, <2>4 DEF IsHeadOf
  <2> QED
    BY <2>1, <2>2, <2>5
<1> QED
  BY <1>2, <1>3

-----------------------------------------------------------------------------
(* The lines of a list of hunks, in one list.                              *)
HunkType == Hunk(Seq(DiffLine))
AllLines(hs) == FlattenSeq([m \in DOMAIN hs |-> hs[m].lines])

LEMMA AllLinesAppend ==
    ASSUME NEW hs \in Seq(HunkType)
    PROVE  /\ AllLines(hs) \in Seq(DiffLine)
           /\ \A h \in HunkType : AllLines(Append(hs, h)) = AllLines(hs) \o h.lines
           /\ hs = <<>> => AllLines(hs) = <<>>
<1> DEFINE Of(xs) == [m \in DOMAIN xs |-> xs[m].lines]
<1>1. ASSUME NEW xs \in Seq(HunkType)
      PROVE  /\ Of(xs) \in Seq(Seq(DiffLine)) /\ Len(Of(xs)) = Len(xs) /\ Len(xs) \in Nat
             /\ \A m \in 1..Len(xs) : Of(xs)[m] = xs[m].lines
  <2>1. Len(xs) \in Nat /\ DOMAIN xs = 1..Len(xs) /\ \A m \in 1..Len(xs) : xs[m] \in HunkType
    BY LenProperties, ElementOfSeq
  <2>2. \A m \in 1..Len(xs) : xs[m].lines \in Seq(DiffLine)
    BY <2>1 DEF HunkType, Hunk
  <2>3. Of(xs) \in [1..Len(xs) -> Seq(DiffLine)] /\ \A m \in 1..Len(xs) : Of(xs)[m] = xs[m].lines
    BY <2>1, <2>2
  <2> HIDE DEF Of
  <2> QED
    BY <2>1, <2>3, FunctionList
<1>2. \A xs : AllLines(xs) = FlattenSeq(Of(xs))
  BY DEF AllLines
<1> HIDE DEF Of
<1>3. AllLines(hs) \in Seq(DiffLine)
  BY <1>1, <1>2, FlattenType
<1>4. ASSUME NEW h \in HunkType PROVE AllLines(Append(hs, h)) = AllLines(hs) \o h.lines
  <2>1. PICK gs : gs = Append(hs, h)
    OBVIOUS
  <2>2. /\ gs \in Seq(HunkType) /\ Len(gs) = Len(hs) + 1
        /\ \A i \in 1..Len(hs) : gs[i] = hs[i]
        /\ gs[Len(hs) + 1] = h
    BY <2>1, AppendProperties
  <2>3. PICK ss : ss = Of(hs)
    OBVIOUS
  <2>4. PICK tt : tt = Of(gs)
    OBVIOUS
  <2>5. ss \in Seq(Seq(DiffLine)) /\ Len(ss) = Len(hs) /\ Len(hs) \in Nat
        /\ \A m \in 1..Len(hs) : ss[m] = hs[m].lines
    BY <1>1, <2>3
  <2>6. tt \in Seq(Seq(DiffLine)) /\ Len(tt) = Len(hs) + 1
        /\ \A m \in 1..(Len(hs) + 1) : tt[m] = gs[m].lines
    BY <1>1, <2>2, <2>4
  <2>7. Continues(tt, ss)
    <3>1. \A m \in 1..Len(hs) : m \in 1..(Len(hs) + 1)
      BY <2>5
    <3>2. \A m \in 1..Len(hs) : ss[m] = tt[m]
      BY <2>2, <2>5, <2>6, <3>1
    <3> QED
      BY <2>5, <2>6, <3>2 DEF Continues
  <2>8. FlattenSeq(tt) = FlattenSeq(ss) \o tt[Len(hs) + 1]
    BY <2>5, <2>6, <2>7, FlattenGrows
  <2>9. tt[Len(hs) + 1] = h.lines
    BY <2>2, <2>5, <2>6
  <2> QED
    BY <1>2, <2>1, <2>3, <2>4, <2>8, <2>9
<1>5. hs = <<>> => AllLines(hs) = <<>>
  <2> SUFFICES ASSUME hs = <<>> PROVE AllLines(hs) = <<>>
    OBVIOUS
  <2>1. Of(hs) \in Seq(Seq(DiffLine)) /\ Len(Of(hs)) = 0
    BY <1>1, EmptySeq
  <2>2. Of(hs) = <<>>
    BY <2>1, EmptySeq
  <2> QED
    BY <1>2, <2>2, FlattenEmpty
<1> QED
  BY <1>3, <1>4, <1>5

-----------------------------------------------------------------------------
(* The inductive invariant: what has been parsed is what HunkIn and        *)
(* LinesUpTo say of the raw lines that were read.                          *)
Typed ==
    /\ patch \in PatchType
    /\ next \in 1..(Len(SplitLines(patch)) + 1)
    /\ header = NoHeader \/ header \in Hunk({<<>>})
    /\ lines \in Seq(DiffLine)
    /\ old_line \in Nat /\ new_line \in Nat
    /\ hunks \in Seq(HunkType)

IInv == Typed /\ HunksRead /\ LinesRead

(* What Added, Removed and Context have in common.                         *)
ReadsLine(r) ==
    /\ next \in 1..Len(r) /\ r[next].kind \in Kinds /\ header # NoHeader
    /\ next' = next + 1
    /\ lines' = Append(lines, NumberedSoFar(r, next, old_line, new_line))
    /\ old_line' = old_line + (IF r[next].kind \in OnOld THEN 1 ELSE 0)
    /\ new_line' = new_line + (IF r[next].kind \in OnNew THEN 1 ELSE 0)
    /\ UNCHANGED <<patch, header, hunks>>

LEMMA LineActions ==
    ASSUME Typed, Added \/ Removed \/ Context
    PROVE  ReadsLine(SplitLines(patch))
<1>1. PICK r : r = SplitLines(patch)
  OBVIOUS
<1>2. r \in Seq(RawType) /\ Len(r) \in Nat /\ next \in 1..(Len(r) + 1)
  BY <1>1, SplitRaws DEF Typed
<1>3. ASSUME NEW kinds, Read(kinds) PROVE next \in 1..Len(r) /\ r[next].kind \in kinds /\ next' = next + 1 /\ patch' = patch
  BY <1>1, <1>2, <1>3 DEF Read
<1>4. old_line \in Nat /\ new_line \in Nat
  BY DEF Typed
<1>5. CASE Added
  <2>1. next \in 1..Len(r) /\ r[next].kind = "added" /\ next' = next + 1 /\ patch' = patch
    BY <1>3, <1>5 DEF Added
  <2>2. r[next].kind \in Kinds /\ r[next].kind \notin OnOld /\ r[next].kind \in OnNew
    BY <2>1 DEF Kinds, OnOld, OnNew
  <2> QED
    BY <1>1, <1>4, <1>5, <2>1, <2>2 DEF Added, AddLine, Current, ReadsLine, NumberedSoFar
<1>6. CASE Removed
  <2>1. next \in 1..Len(r) /\ r[next].kind = "removed" /\ next' = next + 1 /\ patch' = patch
    BY <1>3, <1>6 DEF Removed
  <2>2. r[next].kind \in Kinds /\ r[next].kind \in OnOld /\ r[next].kind \notin OnNew
    BY <2>1 DEF Kinds, OnOld, OnNew
  <2> QED
    BY <1>1, <1>4, <1>6, <2>1, <2>2 DEF Removed, AddLine, Current, ReadsLine, NumberedSoFar
<1>7. CASE Context
  <2>1. next \in 1..Len(r) /\ r[next].kind = "context" /\ next' = next + 1 /\ patch' = patch
    BY <1>3, <1>7 DEF Context
  <2>2. r[next].kind \in Kinds /\ r[next].kind \in OnOld /\ r[next].kind \in OnNew
    BY <2>1 DEF Kinds, OnOld, OnNew
  <2> QED
    BY <1>1, <1>4, <1>7, <2>1, <2>2 DEF Context, AddLine, Current, ReadsLine, NumberedSoFar
<1> QED
  BY <1>5, <1>6, <1>7

(* The hunk being read, with its lines so far.                             *)
IsBuilding ==
    /\ HunksSoFar \in Seq(HunkType)
    /\ ParsedLines = AllLines(HunksSoFar)
    /\ header = NoHeader => HunksSoFar = hunks
    /\ header # NoHeader =>
          /\ HunksSoFar = Append(hunks, [old |-> header.old, new |-> header.new, lines |-> lines])
          /\ [old |-> header.old, new |-> header.new, lines |-> lines] \in HunkType
          /\ ParsedLines = AllLines(hunks) \o lines

LEMMA Building == Typed => IsBuilding
<1> SUFFICES ASSUME Typed PROVE IsBuilding
  OBVIOUS
<1> USE DEF IsBuilding
<1>1. ParsedLines = AllLines(HunksSoFar)
  BY DEF ParsedLines, Parsed, AllLines
<1>2. hunks \in Seq(HunkType) /\ lines \in Seq(DiffLine)
  BY DEF Typed
<1>3. CASE header = NoHeader
  BY <1>1, <1>2, <1>3 DEF HunksSoFar
<1>4. CASE header # NoHeader
  <2>1. PICK h : h = [old |-> header.old, new |-> header.new, lines |-> lines]
    OBVIOUS
  <2>2. header \in Hunk({<<>>})
    BY <1>4 DEF Typed
  <2>3. BuildHunk = h /\ h \in HunkType /\ h.lines = lines
    BY <1>2, <2>1, <2>2 DEF BuildHunk, HunkType, Hunk
  <2>4. HunksSoFar = Append(hunks, h)
    BY <1>4, <2>3 DEF HunksSoFar
  <2>5. Append(hunks, h) \in Seq(HunkType) /\ AllLines(Append(hunks, h)) = AllLines(hunks) \o h.lines
    BY <1>2, <2>3, AppendProperties, AllLinesAppend
  <2> QED
    BY <1>1, <1>4, <2>1, <2>3, <2>4, <2>5
<1> QED
  BY <1>3, <1>4

LEMMA BuildingNext == Typed' => IsBuilding'
BY Building, PTL

(* Every kind of step reads one raw line more.                             *)
LEMMA LineKeeps ==
    ASSUME Typed, HunksRead, LinesRead, ReadsLine(SplitLines(patch))
    PROVE  Typed' /\ HunksRead' /\ LinesRead'
<1>1. PICK r : r = SplitLines(patch)
  OBVIOUS
<1>2. PICK e : e = next - 1
  OBVIOUS
<1>3. /\ r \in Seq(RawType) /\ Len(r) \in Nat /\ next \in 1..Len(r)
      /\ e \in Nat /\ e < Len(r) /\ e + 1 = next /\ next' - 1 = e + 1 /\ e \in 0..Len(r)
      /\ SplitLines(patch') = r
  <2>1. r \in Seq(RawType) /\ Len(r) \in Nat
    BY <1>1, SplitRaws DEF Typed
  <2>2. next \in 1..Len(r) /\ next' = next + 1 /\ patch' = patch
    BY <1>1 DEF ReadsLine
  <2> QED
    BY <1>1, <1>2, <2>1, <2>2
<1>4. PICK heads : HeadsOf(heads, r, e) /\ ReadBy(heads, r, e)
  BY <1>1, <1>2 DEF HunksRead
<1>5. header # NoHeader /\ heads # <<>>
  BY <1>1, <1>4 DEF ReadsLine, ReadBy
<1>6. PICK b : b = heads[Len(heads)]
  OBVIOUS
<1>7. Len(heads) \in 1..Len(heads) /\ IsHeadOf(r, b, e)
  BY <1>3, <1>4, <1>5, <1>6, HeadsLast
<1>8. b \in 1..e /\ b \in 1..Len(r) /\ e \in b..Len(r)
  BY <1>3, <1>7 DEF IsHeadOf
<1>9. r[e + 1].kind \in Kinds /\ r[e + 1].kind # "header"
  BY <1>1, <1>3 DEF ReadsLine, Kinds
<1>10. HeadsOf(heads, r, e + 1)
  BY <1>3, <1>4, <1>9, HeadsKeep
<1>11. IsHeadOf(r, b, e + 1)
  BY <1>3, <1>5, <1>6, <1>10, HeadsLast
<1>12. PICK x : x = Numbered(r, b, e + 1)
  OBVIOUS
<1>13. /\ header = [old |-> r[b].old, new |-> r[b].new, lines |-> <<>>]
       /\ lines = LinesIn(r, b, e)
       /\ old_line = r[b].old + CountIn(SubSeq(r, b + 1, e), OnOld)
       /\ new_line = r[b].new + CountIn(SubSeq(r, b + 1, e), OnNew)
       /\ Len(hunks) = Len(heads) - 1
       /\ \A m \in 1..Len(hunks) : hunks[m] = HunkIn(r, heads[m], heads[m + 1] - 1)
  BY <1>4, <1>5, <1>6 DEF ReadBy
<1>14. x = NumberedSoFar(r, next, old_line, new_line)
  <2>1. (e + 1) - 1 = e
    BY <1>3
  <2> QED
    BY <1>3, <1>12, <1>13, <2>1 DEF Numbered, NumberFrom, NumberedSoFar
<1>15. lines' = Append(lines, x)
  BY <1>1, <1>3, <1>14 DEF ReadsLine
<1>16. x \in DiffLine
  <2>1. e + 1 \in (b + 1)..Len(r)
    BY <1>3, <1>8
  <2> QED
    BY <1>3, <1>8, <1>9, <1>12, <2>1, NumberedType
<1>17. lines' = LinesIn(r, b, e + 1)
  BY <1>3, <1>8, <1>9, <1>12, <1>13, <1>15, LinesInStep
<1>18. ASSUME NEW kinds
       PROVE  /\ CountIn(SubSeq(r, b + 1, e), kinds) \in Nat
              /\ CountIn(SubSeq(r, b + 1, e + 1), kinds) =
                     CountIn(SubSeq(r, b + 1, e), kinds) + (IF r[e + 1].kind \in kinds THEN 1 ELSE 0)
  <2>1. r \in Seq(RawType) /\ b \in 1..Len(r) /\ e \in b..Len(r) /\ e < Len(r)
    BY <1>3, <1>8
  <2> QED
    BY ONLY <2>1, CountRead
<1>19. r[b] \in RawType
  BY <1>3, <1>8, ElementOfSeq
<1>20. r[b].old \in Nat /\ r[b].new \in Nat
  BY <1>19 DEF RawType
<1>21. /\ old_line' = old_line + (IF r[e + 1].kind \in OnOld THEN 1 ELSE 0)
       /\ new_line' = new_line + (IF r[e + 1].kind \in OnNew THEN 1 ELSE 0)
       /\ patch' = patch /\ header' = header /\ hunks' = hunks /\ next' = next + 1
  BY <1>1, <1>3 DEF ReadsLine
<1>22. /\ old_line' = r[b].old + CountIn(SubSeq(r, b + 1, e + 1), OnOld)
       /\ new_line' = r[b].new + CountIn(SubSeq(r, b + 1, e + 1), OnNew)
  <2>1. PICK i \in Nat : i = CountIn(SubSeq(r, b + 1, e), OnOld)
    BY <1>18
  <2>2. PICK j \in Nat : j = CountIn(SubSeq(r, b + 1, e), OnNew)
    BY <1>18
  <2>3. /\ CountIn(SubSeq(r, b + 1, e + 1), OnOld) = i + (IF r[e + 1].kind \in OnOld THEN 1 ELSE 0)
        /\ CountIn(SubSeq(r, b + 1, e + 1), OnNew) = j + (IF r[e + 1].kind \in OnNew THEN 1 ELSE 0)
    BY <1>18, <2>1, <2>2
  <2>4. old_line = r[b].old + i /\ new_line = r[b].new + j
    BY <1>13, <2>1, <2>2
  <2> QED
    BY <1>20, <1>21, <2>3, <2>4
<1>23. Typed'
  <2>1. lines' \in Seq(DiffLine)
    BY <1>15, <1>16, AppendProperties DEF Typed
  <2>2. old_line' \in Nat /\ new_line' \in Nat
    BY <1>21 DEF Typed
  <2>3. next' \in 1..(Len(r) + 1)
    BY <1>3, <1>21
  <2> QED
    BY <1>3, <1>21, <2>1, <2>2, <2>3 DEF Typed
<1>24. HunksRead'
  <2>1. ReadBy(heads, r, e + 1)'
    BY <1>5, <1>6, <1>13, <1>17, <1>21, <1>22 DEF ReadBy
  <2>2. HeadsOf(heads, r, e + 1)'
    BY <1>10 DEF HeadsOf
  <2> QED
    BY <1>3, <1>10, <2>1 DEF HunksRead
<1>25. LinesRead'
  <2>1. ParsedLines = AllLines(hunks) \o lines /\ ParsedLines' = AllLines(hunks') \o lines'
    BY <1>5, <1>21, <1>23, Building, BuildingNext DEF IsBuilding, AllLines
  <2>2. AllLines(hunks) \in Seq(DiffLine) /\ lines \in Seq(DiffLine) /\ <<x>> \in Seq(DiffLine)
    BY <1>16, AllLinesAppend DEF Typed
  <2>3. lines' = lines \o <<x>>
    BY <1>15, <1>16, <2>2, AppendIsConcat
  <2>4. ParsedLines' = ParsedLines \o <<x>>
    BY <1>21, <2>1, <2>2, <2>3, ConcatAssociative
  <2>5. ParsedLines = LinesUpTo(r, e)
    BY <1>1, <1>2 DEF LinesRead
  <2>6. OwnLine(r, e + 1) = <<x>>
    BY <1>3, <1>9, <1>11, <1>12, OwnLineIs
  <2>7. LinesUpTo(r, e + 1) = LinesUpTo(r, e) \o <<x>>
    BY <1>3, <2>6, LinesUpToStep
  <2> QED
    BY <1>3, <2>4, <2>5, <2>7 DEF LinesRead
<1> QED
  BY <1>23, <1>24, <1>25

LEMMA HeaderKeeps ==
    ASSUME Typed, HunksRead, LinesRead, Header
    PROVE  Typed' /\ HunksRead' /\ LinesRead'
<1>1. PICK r : r = SplitLines(patch)
  OBVIOUS
<1>2. PICK e : e = next - 1
  OBVIOUS
<1>3. /\ r \in Seq(RawType) /\ Len(r) \in Nat /\ next \in 1..Len(r) /\ r[next].kind = "header"
      /\ e \in Nat /\ e < Len(r) /\ e + 1 = next /\ next' = next + 1 /\ next' - 1 = e + 1 /\ e \in 0..Len(r)
      /\ e + 1 \in 1..Len(r) /\ e + 1 \in (e + 1)..Len(r)
      /\ patch' = patch /\ SplitLines(patch') = r
  <2>1. r \in Seq(RawType) /\ Len(r) \in Nat
    BY <1>1, SplitRaws DEF Typed
  <2>2. next \in 1..(Len(r) + 1) /\ next <= Len(r) /\ r[next].kind = "header" /\ next' = next + 1 /\ patch' = patch
    BY <1>1 DEF Header, Read, Typed
  <2> QED
    BY <1>1, <1>2, <2>1, <2>2
<1>4. r[e + 1] \in RawType
  BY <1>3, ElementOfSeq
<1>5. PICK new : new = [old |-> r[e + 1].old, new |-> r[e + 1].new, lines |-> <<>>]
  OBVIOUS
<1>6. /\ header' = new /\ hunks' = HunksSoFar /\ lines' = <<>>
      /\ old_line' = r[e + 1].old /\ new_line' = r[e + 1].new
  BY <1>1, <1>3, <1>5 DEF Header, Current
<1>7. r[e + 1].old \in Nat /\ r[e + 1].new \in Nat
  BY <1>4 DEF RawType
<1>8. new \in Hunk({<<>>})
  BY <1>5, <1>7 DEF Hunk
<1>9. new # NoHeader
  BY <1>8, NoneAssumption
<1>10. IsBuilding
  BY Building
<1>11. Typed'
  <2>1. next' \in 1..(Len(r) + 1)
    BY <1>3
  <2>2. hunks' \in Seq(HunkType) /\ lines' \in Seq(DiffLine)
    BY <1>6, <1>10 DEF IsBuilding
  <2> QED
    BY <1>3, <1>6, <1>7, <1>8, <2>1, <2>2 DEF Typed
<1>12. PICK heads : HeadsOf(heads, r, e) /\ ReadBy(heads, r, e)
  BY <1>1, <1>2 DEF HunksRead
<1>13. PICK hh : hh = Append(heads, e + 1)
  OBVIOUS
<1>14. /\ HeadsOf(hh, r, e + 1) /\ Len(hh) = Len(heads) + 1 /\ hh[Len(heads) + 1] = e + 1 /\ hh # <<>>
       /\ \A m \in 1..Len(heads) : hh[m] = heads[m]
       /\ Len(heads) \in Nat
  <2>1. r[e + 1].kind = "header"
    BY <1>3
  <2>2. Len(heads) \in Nat
    BY <1>12, LenProperties DEF HeadsOf
  <2> QED
    BY <1>3, <1>12, <1>13, <2>1, <2>2, HeadsAdd
<1>15. /\ LinesIn(r, e + 1, e + 1) = <<>>
       /\ \A kinds : CountIn(SubSeq(r, e + 2, e + 1), kinds) = 0
  <2>1. (e + 1) + 1 = e + 2
    BY <1>3
  <2> QED
    BY <1>3, <2>1, LinesInStep, CountRead
<1>16. Len(hunks') = Len(heads) /\ \A m \in 1..Len(heads) : hunks'[m] = HunkIn(r, hh[m], hh[m + 1] - 1)
  <2>1. CASE heads = <<>>
    <3>1. header = NoHeader /\ hunks = <<>>
      BY <1>12, <2>1 DEF ReadBy
    <3>2. hunks' = <<>>
      BY <1>6, <1>10, <3>1 DEF IsBuilding
    <3>3. Len(heads) = 0 /\ Len(hunks') = 0
      BY <2>1, <3>2
    <3> QED
      BY <3>3
  <2>2. CASE heads # <<>>
    <3>1. PICK b : b = heads[Len(heads)]
      OBVIOUS
    <3>2. /\ header = [old |-> r[b].old, new |-> r[b].new, lines |-> <<>>]
          /\ lines = LinesIn(r, b, e)
          /\ Len(hunks) = Len(heads) - 1
          /\ \A m \in 1..Len(hunks) : hunks[m] = HunkIn(r, heads[m], heads[m + 1] - 1)
      BY <1>12, <2>2, <3>1 DEF ReadBy
    <3>3. PICK h : h = [old |-> header.old, new |-> header.new, lines |-> lines]
      OBVIOUS
    <3>4. header # NoHeader
      <4>1. IsHeadOf(r, b, e)
        BY <1>3, <1>12, <2>2, <3>1, HeadsLast
      <4>2. b \in 1..Len(r)
        BY <1>3, <4>1 DEF IsHeadOf
      <4>3. r[b] \in RawType
        BY <1>3, <4>2, ElementOfSeq
      <4>4. header \in Hunk({<<>>})
        BY <3>2, <4>3 DEF RawType, Hunk
      <4> QED
        BY <4>4, NoneAssumption
    <3>5. hunks' = Append(hunks, h) /\ h \in HunkType /\ hunks \in Seq(HunkType)
      BY <1>6, <1>10, <3>3, <3>4 DEF IsBuilding, Typed
    <3>6. /\ Len(hunks') = Len(hunks) + 1
          /\ \A m \in 1..Len(hunks) : hunks'[m] = hunks[m]
          /\ hunks'[Len(hunks) + 1] = h
      BY <3>5, AppendProperties
    <3>7. h = HunkIn(r, b, e)
      BY <3>2, <3>3 DEF HunkIn
    <3>8. Len(hunks') = Len(heads) /\ Len(hunks) + 1 = Len(heads)
      BY <1>14, <3>2, <3>6
    <3>9. ASSUME NEW m \in 1..Len(heads) PROVE hunks'[m] = HunkIn(r, hh[m], hh[m + 1] - 1)
      <4>1. CASE m = Len(heads)
        <5>1. hunks'[m] = h /\ hh[m] = b /\ hh[m + 1] - 1 = e
          BY <1>3, <1>14, <3>1, <3>6, <3>8, <4>1
        <5> QED
          BY <3>7, <5>1
      <4>2. CASE m # Len(heads)
        <5>1. m \in 1..Len(hunks) /\ m + 1 \in 1..Len(heads)
          BY <1>14, <3>8, <4>2
        <5>2. hunks'[m] = hunks[m] /\ hh[m] = heads[m] /\ hh[m + 1] = heads[m + 1]
          BY <1>14, <3>6, <5>1
        <5>3. hunks[m] = HunkIn(r, heads[m], heads[m + 1] - 1)
          BY <3>2, <5>1
        <5> QED
          BY <5>2, <5>3
      <4> QED
        BY <4>1, <4>2
    <3> QED
      BY <3>8, <3>9
  <2> QED
    BY <2>1, <2>2
<1>17. HunksRead'
  <2>1. PICK b : b = hh[Len(hh)]
    OBVIOUS
  <2>2. b = e + 1 /\ b + 1 = e + 2
    BY <1>3, <1>14, <2>1
  <2>3. Len(hunks') = Len(hh) - 1
    BY <1>14, <1>16
  <2>4. /\ header' = [old |-> r[b].old, new |-> r[b].new, lines |-> <<>>]
        /\ lines' = LinesIn(r, b, e + 1)
        /\ old_line' = r[b].old + CountIn(SubSeq(r, b + 1, e + 1), OnOld)
        /\ new_line' = r[b].new + CountIn(SubSeq(r, b + 1, e + 1), OnNew)
    BY <1>5, <1>6, <1>7, <1>15, <2>2
  <2>5. \A m \in 1..Len(hunks') : hunks'[m] = HunkIn(r, hh[m], hh[m + 1] - 1)
    BY <1>16
  <2>6. ReadBy(hh, r, e + 1)'
    BY <1>14, <2>1, <2>3, <2>4, <2>5 DEF ReadBy
  <2> QED
    BY <1>3, <1>14, <2>6 DEF HunksRead
<1>18. LinesRead'
  <2>1. ParsedLines' = AllLines(hunks') \o lines'
    BY <1>6, <1>9, <1>11, BuildingNext DEF IsBuilding, AllLines
  <2>2. AllLines(HunksSoFar) \in Seq(DiffLine)
    BY <1>10, AllLinesAppend DEF IsBuilding
  <2>3. ParsedLines' = ParsedLines /\ ParsedLines \in Seq(DiffLine)
    BY <1>6, <1>10, <2>1, <2>2, ConcatEmptySeq DEF IsBuilding
  <2>4. OwnLine(r, e + 1) = <<>>
    <3>1. r[e + 1].kind \notin Kinds
      BY <1>3 DEF Kinds
    <3> QED
      BY <1>3, <3>1, OwnLineIs
  <2>5. LinesUpTo(r, e + 1) = LinesUpTo(r, e) /\ ParsedLines = LinesUpTo(r, e)
    BY <1>1, <1>2, <1>3, <2>3, <2>4, LinesUpToStep, ConcatEmptySeq DEF LinesRead
  <2> QED
    BY <1>3, <2>3, <2>5 DEF LinesRead
<1> QED
  BY <1>11, <1>17, <1>18

LEMMA IgnoreKeeps ==
    ASSUME Typed, HunksRead, LinesRead, Ignore
    PROVE  Typed' /\ HunksRead' /\ LinesRead'
<1>1. PICK r : r = SplitLines(patch)
  OBVIOUS
<1>2. PICK e : e = next - 1
  OBVIOUS
<1>3. /\ r \in Seq(RawType) /\ Len(r) \in Nat /\ next \in 1..Len(r)
      /\ e \in Nat /\ e < Len(r) /\ e + 1 = next /\ next' = next + 1 /\ next' - 1 = e + 1 /\ e \in 0..Len(r)
      /\ e + 1 \in 1..Len(r)
      /\ patch' = patch /\ SplitLines(patch') = r
  <2>1. r \in Seq(RawType) /\ Len(r) \in Nat
    BY <1>1, SplitRaws DEF Typed
  <2>2. next \in 1..(Len(r) + 1) /\ next <= Len(r) /\ next' = next + 1 /\ patch' = patch
    BY <1>1 DEF Ignore, Read, Typed
  <2> QED
    BY <1>1, <1>2, <2>1, <2>2
<1>4. r[e + 1].kind # "header" /\ (header = NoHeader \/ r[e + 1].kind \notin Kinds)
  BY <1>1, <1>3 DEF Ignore, Read, RawKinds, Kinds
<1>5. /\ header' = header /\ lines' = lines /\ hunks' = hunks
      /\ old_line' = old_line /\ new_line' = new_line
  BY DEF Ignore
<1>6. Typed'
  <2>1. next' \in 1..(Len(r) + 1)
    BY <1>3
  <2> QED
    BY <1>3, <1>5, <2>1 DEF Typed
<1>7. PICK heads : HeadsOf(heads, r, e) /\ ReadBy(heads, r, e)
  BY <1>1, <1>2 DEF HunksRead
<1>8. HeadsOf(heads, r, e + 1)
  BY <1>3, <1>4, <1>7, HeadsKeep
<1>9. ParsedLines' = ParsedLines
  BY <1>5 DEF ParsedLines, Parsed, HunksSoFar, BuildHunk
<1>10. OwnLine(r, e + 1) = <<>> => LinesRead'
  <2> SUFFICES ASSUME OwnLine(r, e + 1) = <<>> PROVE LinesRead'
    OBVIOUS
  <2>1. LinesUpTo(r, e) \in Seq(DiffLine)
    BY <1>3, LinesUpToStep
  <2>2. LinesUpTo(r, e + 1) = LinesUpTo(r, e) \o <<>>
    BY <1>3, LinesUpToStep
  <2>3. LinesUpTo(r, e + 1) = LinesUpTo(r, e) /\ ParsedLines = LinesUpTo(r, e)
    BY <1>1, <1>2, <2>1, <2>2, ConcatEmptySeq DEF LinesRead
  <2> QED
    BY <1>3, <1>9, <2>3 DEF LinesRead
<1>11. CASE heads = <<>>
  <2>1. header = NoHeader /\ hunks = <<>>
    BY <1>7, <1>11 DEF ReadBy
  <2>2. ReadBy(heads, r, e + 1)'
    BY <1>5, <1>11, <2>1 DEF ReadBy
  <2>3. HunksRead'
    BY <1>3, <1>8, <2>2 DEF HunksRead
  <2>4. \A b \in 1..(e + 1) : ~IsHeadOf(r, b, e + 1)
    <3>1. \A b \in 1..(e + 1) : r[b].kind # "header"
      BY <1>3, <1>8, <1>11, HeadsLast
    <3> QED
      BY <3>1 DEF IsHeadOf
  <2>5. OwnLine(r, e + 1) = <<>>
    BY <1>3, <2>4, OwnLineIs
  <2> QED
    BY <1>6, <1>10, <2>3, <2>5
<1>12. CASE heads # <<>>
  <2>1. PICK b : b = heads[Len(heads)]
    OBVIOUS
  <2>2. b \in 1..Len(r) /\ e \in b..Len(r)
    <3>1. IsHeadOf(r, b, e)
      BY <1>3, <1>7, <1>12, <2>1, HeadsLast
    <3> QED
      BY <1>3, <3>1 DEF IsHeadOf
  <2>3. /\ header = [old |-> r[b].old, new |-> r[b].new, lines |-> <<>>]
        /\ lines = LinesIn(r, b, e)
        /\ old_line = r[b].old + CountIn(SubSeq(r, b + 1, e), OnOld)
        /\ new_line = r[b].new + CountIn(SubSeq(r, b + 1, e), OnNew)
        /\ Len(hunks) = Len(heads) - 1
        /\ \A m \in 1..Len(hunks) : hunks[m] = HunkIn(r, heads[m], heads[m + 1] - 1)
    BY <1>7, <1>12, <2>1 DEF ReadBy
  <2>4. header # NoHeader
    <3>1. r[b] \in RawType
      BY <1>3, <2>2, ElementOfSeq
    <3>2. header \in Hunk({<<>>})
      BY <2>3, <3>1 DEF RawType, Hunk
    <3> QED
      BY <3>2, NoneAssumption
  <2>5. r[e + 1].kind \notin Kinds
    BY <1>4, <2>4
  <2>6. LinesIn(r, b, e + 1) = LinesIn(r, b, e)
    BY <1>3, <2>2, <2>5, LinesInStep
  <2>7. ASSUME NEW kinds, kinds \subseteq Kinds
        PROVE  CountIn(SubSeq(r, b + 1, e + 1), kinds) = CountIn(SubSeq(r, b + 1, e), kinds)
    <3>1. /\ CountIn(SubSeq(r, b + 1, e), kinds) \in Nat
          /\ CountIn(SubSeq(r, b + 1, e + 1), kinds) =
                 CountIn(SubSeq(r, b + 1, e), kinds) + (IF r[e + 1].kind \in kinds THEN 1 ELSE 0)
      <4>1. r \in Seq(RawType) /\ b \in 1..Len(r) /\ e \in b..Len(r) /\ e < Len(r)
        BY <1>3, <2>2
      <4> QED
        BY ONLY <4>1, CountRead
    <3>2. r[e + 1].kind \notin kinds
      BY <2>5, <2>7
    <3> QED
      BY <3>1, <3>2
  <2>8. OnOld \subseteq Kinds /\ OnNew \subseteq Kinds
    BY DEF OnOld, OnNew, Kinds
  <2>9. ReadBy(heads, r, e + 1)'
    BY <1>5, <1>12, <2>1, <2>3, <2>6, <2>7, <2>8 DEF ReadBy
  <2>10. HunksRead'
    BY <1>3, <1>8, <2>9 DEF HunksRead
  <2>11. OwnLine(r, e + 1) = <<>>
    BY <1>3, <2>5, OwnLineIs
  <2> QED
    BY <1>6, <1>10, <2>10, <2>11
<1> QED
  BY <1>11, <1>12

(* The invariant holds at first and is kept by every step.                 *)
LEMMA IInvInit == Init => IInv
<1> SUFFICES ASSUME Init PROVE IInv
  OBVIOUS
<1>1. PICK r : r = SplitLines(patch)
  OBVIOUS
<1>2. patch \in PatchType /\ r \in Seq(RawType) /\ Len(r) \in Nat /\ next - 1 = 0
  BY <1>1, PatchesAssumption, SplitRaws DEF Init
<1>3. Typed
  BY <1>1, <1>2 DEF Typed, Init
<1>4. HunksRead
  <2>1. HeadsOf(<<>>, r, 0)
    BY DEF HeadsOf, Increasing
  <2>2. ReadBy(<<>>, r, 0)
    BY DEF ReadBy, Init
  <2> QED
    BY <1>1, <1>2, <2>1, <2>2 DEF HunksRead
<1>5. LinesRead
  <2>1. HunksSoFar = <<>>
    BY DEF HunksSoFar, Init
  <2>2. ParsedLines = <<>>
    BY <1>3, <2>1, Building, AllLinesAppend DEF IsBuilding
  <2>3. LinesUpTo(r, 0) = <<>>
    BY <1>2, LinesUpToStep
  <2> QED
    BY <1>1, <1>2, <2>2, <2>3 DEF LinesRead
<1> QED
  BY <1>3, <1>4, <1>5 DEF IInv

LEMMA IInvStep == IInv /\ [Next]_vars => IInv'
<1> SUFFICES ASSUME IInv, [Next]_vars PROVE IInv'
  OBVIOUS
<1>1. Typed /\ HunksRead /\ LinesRead
  BY DEF IInv
<1>2. CASE Header
  BY <1>1, <1>2, HeaderKeeps DEF IInv
<1>3. CASE Ignore
  BY <1>1, <1>3, IgnoreKeeps DEF IInv
<1>4. CASE Added \/ Removed \/ Context
  BY <1>1, <1>4, LineActions, LineKeeps DEF IInv
<1>5. CASE UNCHANGED vars
  BY <1>1, <1>5 DEF vars, IInv, Typed, HunksRead, ReadBy, LinesRead, ParsedLines, Parsed, HunksSoFar, BuildHunk
<1> QED
  BY <1>2, <1>3, <1>4, <1>5 DEF Next

LEMMA Invariant == Spec => []IInv
BY IInvInit, IInvStep, PTL DEF Spec

(* The variables of the parser keep their types.                           *)
THEOREM ParserIsTyped == Spec => []TypeOK
<1>1. IInv => TypeOK
  <2> SUFFICES ASSUME IInv PROVE TypeOK
    OBVIOUS
  <2>1. Typed
    BY DEF IInv
  <2>2. \A i \in DOMAIN lines : lines[i] \in DiffLine
    BY <2>1, LenProperties, ElementOfSeq DEF Typed
  <2>3. \A n \in DOMAIN hunks : hunks[n].lines \in Seq(DiffLine)
    <3>1. hunks \in Seq(HunkType)
      BY <2>1 DEF Typed
    <3>2. \A n \in DOMAIN hunks : hunks[n] \in HunkType
      BY <3>1, LenProperties, ElementOfSeq
    <3> QED
      BY <3>2 DEF HunkType, Hunk
  <2> QED
    BY <2>1, <2>2, <2>3 DEF Typed, TypeOK
<1> QED
  BY <1>1, Invariant, PTL

-----------------------------------------------------------------------------
(* When the patch has been read: the lines of all hunks are, in order, the *)
(* raw lines that count and come after a header.                           *)
Counts(r, k) == r[k].kind \in Kinds /\ \E b \in 1..k : IsHeadOf(r, b, k)

LinesFrom(from, ls, r) ==
    /\ from \in [1..Len(ls) -> 1..Len(r)]
    /\ \A i \in 1..Len(ls) : Counts(r, from[i]) /\ ls[i] = Numbered(r, HeadOf(r, from[i]), from[i])
    /\ \A i, j \in 1..Len(ls) : i < j => from[i] < from[j]
    /\ \A k \in 1..Len(r) : Counts(r, k) => \E i \in 1..Len(ls) : from[i] = k

LEMMA LinesSelected ==
    ASSUME NEW r \in Seq(RawType)
    PROVE  \E from : LinesFrom(from, LinesUpTo(r, Len(r)), r)
<1> DEFINE each == [k \in 1..Len(r) |-> Numbered(r, HeadOf(r, k), k)]
           T == {each[k] : k \in 1..Len(r)}
           places == {k \in 1..Len(r) : Counts(r, k)}
           own == [k \in 1..Len(r) |-> OwnLine(r, k)]
<1>1. Len(r) \in Nat
  BY LenProperties
<1>2. PICK s : s = each
  OBVIOUS
<1>3. PICK ss : ss = own
  OBVIOUS
<1>4. \A k \in 1..Len(r) : s[k] = Numbered(r, HeadOf(r, k), k) /\ s[k] \in T
  BY <1>2
<1>5. s \in Seq(T) /\ Len(s) = Len(r)
  <2>1. s \in [1..Len(r) -> T]
    BY <1>2
  <2> HIDE DEF T
  <2> QED
    BY <1>1, <2>1, FunctionList
<1>6. \A k \in 1..Len(r) : ss[k] = IF k \in places THEN <<s[k]>> ELSE <<>>
  BY <1>3, <1>4 DEF OwnLine, Counts
<1>7. ss \in Seq(Seq(T)) /\ Len(ss) = Len(r)
  <2>1. \A k \in 1..Len(r) : <<s[k]>> \in Seq(T) /\ <<>> \in Seq(T)
    BY <1>4
  <2>2. ss = [k \in 1..Len(r) |-> ss[k]]
    BY <1>3
  <2> HIDE DEF T, places, own
  <2>3. \A k \in 1..Len(r) : ss[k] \in Seq(T)
    BY <1>6, <2>1
  <2>4. ss \in [1..Len(r) -> Seq(T)]
    BY <2>2, <2>3
  <2> QED
    BY <1>1, <2>4, FunctionList
<1>8. LinesUpTo(r, Len(r)) = FlattenSeq(ss)
  BY <1>3 DEF LinesUpTo
<1> HIDE DEF T, own
<1>9. PICK ls : ls = FlattenSeq(ss)
  OBVIOUS
<1>10. PICK from : Selects(from, ls, s, places)
  <2> HIDE DEF places
  <2> QED
    BY <1>5, <1>6, <1>7, <1>9, SingletonsSelect
<1>11. /\ from \in [1..Len(ls) -> 1..Len(r)]
       /\ \A i \in 1..Len(ls) : from[i] \in places /\ ls[i] = s[from[i]]
       /\ \A i, j \in 1..Len(ls) : i < j => from[i] < from[j]
       /\ \A k \in 1..Len(r) : k \in places => \E i \in 1..Len(ls) : from[i] = k
  BY <1>5, <1>10 DEF Selects
<1>12. \A i \in 1..Len(ls) : Counts(r, from[i]) /\ ls[i] = Numbered(r, HeadOf(r, from[i]), from[i])
  <2> SUFFICES ASSUME NEW i \in 1..Len(ls)
               PROVE  Counts(r, from[i]) /\ ls[i] = Numbered(r, HeadOf(r, from[i]), from[i])
    OBVIOUS
  <2>1. from[i] \in 1..Len(r) /\ Counts(r, from[i]) /\ ls[i] = s[from[i]]
    BY <1>11
  <2> QED
    BY <1>4, <2>1
<1>13. LinesFrom(from, ls, r)
  BY <1>11, <1>12 DEF LinesFrom
<1> QED
  BY <1>8, <1>9, <1>13

(* A raw line that names the line it begins is where that line begins.     *)
LEMMA AtIs ==
    ASSUME NEW p \in PatchType, NEW k \in 1..Len(SplitLines(p)), SplitLines(p)[k].at # NoLine
    PROVE  \E n \in 1..Len(p.hunks) : \E j \in 1..Len(p.hunks[n].lines) :
              k = LinePlace(p, n, j) /\ SplitLines(p)[k].at = <<n, j>>
<1>1. PICK r : r = SplitLines(p)
  OBVIOUS
<1>2. ASSUME k <= p.preamble PROVE FALSE
  <2>1. k \in 1..p.preamble
    BY <1>2, HunksRaws
  <2>2. SplitLines(p)[k] = Raw("context", NoLine, 0, 0)
    BY <2>1, SplitRaws
  <2> QED
    BY <2>2 DEF Raw
<1>3. ASSUME NEW n \in 1..Len(p.hunks), k = HeadPlace(p, n) PROVE FALSE
  <2>1. SplitLines(p)[k] = Raw("header", NoLine, p.hunks[n].old, p.hunks[n].new)
    BY <1>3, HeadIs
  <2> QED
    BY <2>1 DEF Raw
<1>4. ASSUME NEW n \in 1..Len(p.hunks), NEW j \in 1..Len(p.hunks[n].lines), k = LinePlace(p, n, j)
      PROVE  SplitLines(p)[k].at = <<n, j>>
  <2>1. SplitLines(p)[k] = Raw(p.hunks[n].lines[j].kind, <<n, j>>, 0, 0)
    BY <1>4, LineIs
  <2> QED
    BY <2>1 DEF Raw
<1>5. ASSUME NEW n \in 1..Len(p.hunks), NEW j \in 1..Len(p.hunks[n].lines),
             NEW q \in 1..Len(p.hunks[n].lines[j].strays), k = LinePlace(p, n, j) + q
      PROVE  FALSE
  <2>1. SplitLines(p)[k] = Raw(p.hunks[n].lines[j].strays[q], NoLine, Elsewhere, Elsewhere)
    BY <1>5, LineIs
  <2> QED
    BY <2>1 DEF Raw
<1>6. ASSUME NEW n \in 1..Len(p.hunks), NEW q \in 1..Len(p.hunks[n].strays),
             SplitLines(p)[k] = Raw(p.hunks[n].strays[q], NoLine, Elsewhere, Elsewhere)
      PROVE  FALSE
  BY <1>6 DEF Raw
<1>7. \E n \in 1..Len(p.hunks) : \E j \in 1..Len(p.hunks[n].lines) : k = LinePlace(p, n, j)
  <2>1. ~(k <= p.preamble)
    BY <1>2
  <2>2. ~\E n \in 1..Len(p.hunks) : k = HeadPlace(p, n)
    BY <1>3
  <2>3. ~\E n \in 1..Len(p.hunks) : \E q \in 1..Len(p.hunks[n].strays) :
            /\ k = HeadPlace(p, n) + q
            /\ SplitLines(p)[k] = Raw(p.hunks[n].strays[q], NoLine, Elsewhere, Elsewhere)
    BY <1>6
  <2>4. ~\E n \in 1..Len(p.hunks) : \E j \in 1..Len(p.hunks[n].lines) :
            \E q \in 1..Len(p.hunks[n].lines[j].strays) : k = LinePlace(p, n, j) + q
    BY <1>5
  <2> QED
    BY <2>1, <2>2, <2>3, <2>4, Origin, Zenon
<1>8. PICK n \in 1..Len(p.hunks) : \E j \in 1..Len(p.hunks[n].lines) : k = LinePlace(p, n, j)
  BY <1>7
<1>9. PICK j \in 1..Len(p.hunks[n].lines) : k = LinePlace(p, n, j)
  BY <1>8
<1> QED
  BY <1>4, <1>9

(* There is a header before every line of a hunk.                          *)
LEMMA HasHead ==
    ASSUME NEW r \in Seq(RawType), NEW k \in 1..Len(r), NEW c \in 1..k, r[c].kind = "header"
    PROVE  \E b \in c..k : IsHeadOf(r, b, k)
<1>1. Len(r) \in Nat /\ k \in Nat
  BY LenProperties
<1>2. PICK S : S = {b \in c..k : r[b].kind = "header"}
  OBVIOUS
<1>3. c \in S /\ S \subseteq Int /\ \A b \in S : b <= k
  BY <1>1, <1>2
<1>4. PICK b \in S : \A d \in S : d <= b
  <2>1. S # {} /\ S \subseteq Int /\ k \in Int
    BY <1>1, <1>3
  <2> QED
    BY ONLY <1>3, <2>1, Greatest
<1>5. b \in c..k /\ b \in 1..k /\ r[b].kind = "header"
  BY <1>1, <1>2, <1>4
<1>6. ASSUME NEW d \in (b + 1)..k, r[d].kind = "header" PROVE FALSE
  <2>1. d \in S
    BY <1>1, <1>2, <1>5, <1>6
  <2> QED
    BY <1>1, <1>4, <1>5, <2>1
<1> QED
  BY <1>5, <1>6 DEF IsHeadOf

LEMMA LineCounts ==
    ASSUME NEW p \in PatchType, NEW n \in 1..Len(p.hunks), NEW j \in 1..Len(p.hunks[n].lines),
           p.hunks[n].lines[j].kind # "marker"
    PROVE  Counts(SplitLines(p), LinePlace(p, n, j))
<1>1. PICK r : r = SplitLines(p)
  OBVIOUS
<1>2. PICK k : k = LinePlace(p, n, j)
  OBVIOUS
<1>3. PICK c : c = HeadPlace(p, n)
  OBVIOUS
<1>4. r \in Seq(RawType) /\ Len(r) \in Nat
  BY <1>1, SplitRaws
<1>5. /\ c \in 1..Len(r) /\ k \in 1..Len(r)
      /\ Len(RawsBefore(p, n, j)) \in Nat /\ k = c + Len(RawsBefore(p, n, j)) + 1
      /\ r[k] = Raw(p.hunks[n].lines[j].kind, <<n, j>>, 0, 0)
  BY <1>1, <1>2, <1>3, LineIs
<1>6. c \in 1..k
  BY <1>4, <1>5
<1>7. r[c].kind = "header"
  <2>1. SplitLines(p)[HeadPlace(p, n)] = Raw("header", NoLine, p.hunks[n].old, p.hunks[n].new)
    BY HeadIs
  <2> QED
    BY <1>1, <1>3, <2>1 DEF Raw
<1>8. \E b \in 1..k : IsHeadOf(r, b, k)
  <2>1. PICK b \in c..k : IsHeadOf(r, b, k)
    BY <1>4, <1>5, <1>6, <1>7, HasHead
  <2> QED
    BY <2>1 DEF IsHeadOf
<1>9. r[k].kind \in Kinds
  <2>1. p.hunks[n].lines[j] \in LineType
    BY HunksRaws, LinesRaws
  <2> QED
    BY <1>5, <2>1 DEF LineType, Raw
<1> QED
  BY <1>1, <1>2, <1>8, <1>9 DEF Counts

(* Each line of the patch is in the result once, as the kind it is.        *)
THEOREM LinesAreKept == Spec => []EveryLineOnce
<1>1. IInv => EveryLineOnce
  <2> SUFFICES ASSUME IInv, Ended,
                      NEW n \in DOMAIN patch.hunks, NEW j \in DOMAIN patch.hunks[n].lines
               PROVE  LET kind == patch.hunks[n].lines[j].kind
                          found == {i \in DOMAIN ParsedLines : ParsedLines[i].at = <<n, j>>}
                      IN  /\ Cardinality(found) = (IF kind = "marker" THEN 0 ELSE 1)
                          /\ \A i \in found : ParsedLines[i].kind = kind
    BY DEF EveryLineOnce
  <2>1. PICK p : p = patch
    OBVIOUS
  <2>2. PICK r : r = SplitLines(p)
    OBVIOUS
  <2>3. PICK ls : ls = ParsedLines
    OBVIOUS
  <2>4. PICK line : line = p.hunks[n].lines[j]
    OBVIOUS
  <2>5. p \in PatchType /\ r \in Seq(RawType) /\ Len(r) \in Nat
    BY <2>1, <2>2, SplitRaws DEF IInv, Typed
  <2>6. ls = LinesUpTo(r, Len(r))
    BY <2>1, <2>2, <2>3, <2>5 DEF IInv, LinesRead, Ended
  <2>7. ls \in Seq(DiffLine) /\ DOMAIN ls = 1..Len(ls) /\ Len(ls) \in Nat
    <3>1. Len(r) \in 0..Len(r)
      BY <2>5
    <3>2. ls \in Seq(DiffLine)
      BY <2>5, <2>6, <3>1, LinesUpToStep
    <3> QED
      BY <3>2, LenProperties
  <2>8. PICK from : LinesFrom(from, ls, r)
    BY <2>5, <2>6, LinesSelected
  <2>9. n \in 1..Len(p.hunks) /\ n \in Numbers /\ p.hunks[n] \in PatchHunk
    BY <2>1, <2>5, HunksRaws
  <2>10. j \in 1..Len(p.hunks[n].lines) /\ line \in LineType
    BY <2>1, <2>4, <2>9, LinesRaws
  <2>11. PICK k : k = LinePlace(p, n, j)
    OBVIOUS
  <2>12. k \in 1..Len(r) /\ r[k] = Raw(line.kind, <<n, j>>, 0, 0)
    BY <2>2, <2>4, <2>5, <2>9, <2>10, <2>11, LineIs
  <2>13. <<n, j>> # NoLine
    <3>1. j \in Numbers
      BY <2>9, <2>10, LinesRaws DEF Numbers
    <3> QED
      BY <2>9, <3>1, NoneAssumption
  <2>14. ASSUME NEW i \in 1..Len(ls)
         PROVE  /\ Counts(r, from[i]) /\ from[i] \in 1..Len(r)
                /\ ls[i].at = r[from[i]].at /\ ls[i].kind = r[from[i]].kind
                /\ ls[i].at = <<n, j>> <=> from[i] = k
    <3>1. /\ Counts(r, from[i]) /\ from[i] \in 1..Len(r)
          /\ ls[i].at = r[from[i]].at /\ ls[i].kind = r[from[i]].kind
      <4>1. PICK m : m = from[i]
        OBVIOUS
      <4>2. Counts(r, m) /\ m \in 1..Len(r) /\ ls[i] = Numbered(r, HeadOf(r, m), m)
        BY <2>8, <4>1 DEF LinesFrom
      <4>3. ls[i].at = r[m].at /\ ls[i].kind = r[m].kind
        BY <4>2 DEF Numbered
      <4> QED
        BY <4>1, <4>2, <4>3
    <3>2. ASSUME r[from[i]].at = <<n, j>> PROVE from[i] = k
      <4>1. PICK m \in 1..Len(p.hunks) : \E h \in 1..Len(p.hunks[m].lines) :
                  from[i] = LinePlace(p, m, h) /\ r[from[i]].at = <<m, h>>
        BY <2>2, <2>5, <2>13, <3>1, <3>2, AtIs
      <4>2. PICK h \in 1..Len(p.hunks[m].lines) : from[i] = LinePlace(p, m, h) /\ r[from[i]].at = <<m, h>>
        BY <4>1
      <4>3. m = n /\ h = j
        BY <3>2, <4>2
      <4> QED
        BY <2>11, <4>2, <4>3
    <3>3. r[k].at = <<n, j>>
      BY <2>12 DEF Raw
    <3> QED
      BY <3>1, <3>2, <3>3
  <2>15. PICK found : found = {i \in 1..Len(ls) : ls[i].at = <<n, j>>}
    OBVIOUS
  <2>16. \A i \in found : ls[i].kind = line.kind
    <3>1. r[k].kind = line.kind
      BY <2>12 DEF Raw
    <3> QED
      BY <2>14, <2>15, <3>1
  <2>17. CASE line.kind = "marker"
    <3>1. ~Counts(r, k)
      BY <2>12, <2>17 DEF Counts, Raw, Kinds
    <3>2. found = {}
      BY <2>14, <2>15, <3>1
    <3> QED
      BY <2>1, <2>3, <2>4, <2>7, <2>15, <2>16, <2>17, <3>2, FS_EmptySet
  <2>18. CASE line.kind # "marker"
    <3>1. Counts(r, k)
      BY <2>2, <2>4, <2>5, <2>9, <2>10, <2>11, <2>18, LineCounts
    <3>2. PICK i \in 1..Len(ls) : from[i] = k
      BY <2>8, <2>12, <3>1 DEF LinesFrom
    <3>3. ASSUME NEW h \in 1..Len(ls), from[h] = k PROVE h = i
      <4>1. ~(h < i) /\ ~(i < h)
        BY <2>8, <2>12, <3>2, <3>3 DEF LinesFrom
      <4> QED
        BY <2>7, <4>1
    <3>4. found = {i}
      BY <2>14, <2>15, <3>2, <3>3
    <3>5. Cardinality(found) = 1
      BY <3>4, FS_Singleton
    <3> QED
      BY <2>1, <2>3, <2>4, <2>7, <2>15, <2>16, <2>18, <3>5
  <2> QED
    BY <2>17, <2>18
<1> QED
  BY <1>1, Invariant, PTL

-----------------------------------------------------------------------------
(* What is counted before a line of a hunk: the lines before it, and their *)
(* stray pieces.                                                           *)
LEMMA CountConcat ==
    ASSUME NEW T, NEW s \in Seq(T), NEW t \in Seq(T), NEW kinds
    PROVE  CountIn(s \o t, kinds) = CountIn(s, kinds) + CountIn(t, kinds)
<1> DEFINE S == {u \in Seq(T) : CountIn(s \o u, kinds) = CountIn(s, kinds) + CountIn(u, kinds)}
<1>1. <<>> \in S
  <2>1. s \o <<>> = s /\ CountIn(<<>>, kinds) = 0 /\ CountIn(s, kinds) \in Nat
    BY ConcatEmptySeq, CountEmpty, CountType
  <2>2. CountIn(s \o <<>>, kinds) = CountIn(s, kinds) + CountIn(<<>>, kinds)
    BY ONLY <2>1
  <2>3. <<>> \in Seq(T)
    BY EmptySeq
  <2> QED
    BY <2>2, <2>3
<1>2. \A u \in Seq(T), e \in T : u \in S => Append(u, e) \in S
  <2> SUFFICES ASSUME NEW u \in Seq(T), NEW e \in T, u \in S PROVE Append(u, e) \in S
    OBVIOUS
  <2>1. PICK v : v = s \o u
    OBVIOUS
  <2>2. v \in Seq(T)
    BY <2>1, ConcatProperties
  <2>3. s \o Append(u, e) = Append(v, e)
    <3>1. <<e>> \in Seq(T)
      OBVIOUS
    <3>2. s \o (u \o <<e>>) = v \o <<e>>
      BY <2>1, <3>1, ConcatAssociative
    <3>3. Append(u, e) = u \o <<e>> /\ Append(v, e) = v \o <<e>>
      BY <2>2, AppendIsConcat
    <3> QED
      BY <3>2, <3>3
  <2>4. PICK one \in {0, 1} : one = IF e.kind \in kinds THEN 1 ELSE 0
    OBVIOUS
  <2>5. /\ CountIn(Append(u, e), kinds) = CountIn(u, kinds) + one
        /\ CountIn(Append(v, e), kinds) = CountIn(v, kinds) + one
    BY <2>2, <2>4, CountStep
  <2>6. CountIn(v, kinds) = CountIn(s, kinds) + CountIn(u, kinds)
    BY <2>1
  <2>7. CountIn(s, kinds) \in Nat /\ CountIn(u, kinds) \in Nat
    BY CountType
  <2>8. CountIn(Append(v, e), kinds) = CountIn(s, kinds) + CountIn(Append(u, e), kinds)
    BY ONLY <2>5, <2>6, <2>7, one \in {0, 1}
  <2>9. Append(u, e) \in Seq(T)
    BY AppendProperties
  <2> QED
    BY <2>3, <2>8, <2>9
<1>3. Seq(T) \subseteq S
  <2> HIDE DEF S
  <2> QED
    BY <1>1, <1>2, ListInduction
<1> QED
  BY <1>3

LEMMA CountNone ==
    ASSUME NEW T, NEW s \in Seq(T), NEW kinds
    PROVE  CountIn(s, kinds) = 0 <=> \A i \in 1..Len(s) : s[i].kind \notin kinds
<1>1. Len(s) \in Nat /\ DOMAIN s = 1..Len(s)
  BY LenProperties
<1>2. PICK A : A = {i \in 1..Len(s) : s[i].kind \in kinds}
  OBVIOUS
<1>3. IsFiniteSet(1..Len(s)) /\ A \in SUBSET (1..Len(s))
  BY <1>1, <1>2, CountFirst
<1>4. IsFiniteSet(A)
  BY <1>3, FS_Subset
<1>5. Cardinality(A) = 0 <=> A = {}
  BY <1>4, FS_EmptySet
<1>6. CountIn(s, kinds) = Cardinality(A)
  BY <1>1, <1>2 DEF CountIn
<1> QED
  BY <1>2, <1>5, <1>6

(* The stray pieces of the first m lines, and with those of the header.    *)
LineStrays(h, m) == FlattenSeq([i \in 1..m |-> Strays(h.lines[i])])
StraysOf(h, m) == StrayRaws(h.strays) \o LineStrays(h, m)

LEMMA LineStraysStep ==
    ASSUME NEW h \in PatchHunk, NEW m \in 0..Len(h.lines)
    PROVE  /\ LineStrays(h, m) \in Seq(RawType)
           /\ m = 0 => LineStrays(h, m) = <<>>
           /\ m < Len(h.lines) => LineStrays(h, m + 1) = LineStrays(h, m) \o Strays(h.lines[m + 1])
<1> DEFINE Of(f) == [i \in 1..f |-> Strays(h.lines[i])]
<1>0. Len(h.lines) \in Nat /\ m \in Nat /\ m <= Len(h.lines) /\ 1 \in Numbers
  BY LinesRaws DEF Numbers
<1>1. ASSUME NEW f \in 0..Len(h.lines)
      PROVE  Of(f) \in Seq(Seq(RawType)) /\ Len(Of(f)) = f /\ \A i \in 1..f : Of(f)[i] = Strays(h.lines[i])
  <2>1. f \in Nat /\ \A i \in 1..f : h.lines[i] \in LineType
    BY <1>0, LinesRaws
  <2>2. NoLine \in PlaceOrNone
    BY DEF PlaceOrNone
  <2>3. \A i \in 1..f : Strays(h.lines[i]) \in Seq(RawType)
    BY <2>1, <2>2, LineRaws
  <2>4. Of(f) \in [1..f -> Seq(RawType)]
    BY <2>3
  <2> QED
    BY <2>1, <2>4, FunctionList
<1>2. \A f : LineStrays(h, f) = FlattenSeq(Of(f))
  BY DEF LineStrays
<1> HIDE DEF Of
<1>3. LineStrays(h, m) \in Seq(RawType)
  BY <1>1, <1>2, FlattenType
<1>4. m = 0 => LineStrays(h, m) = <<>>
  <2> SUFFICES ASSUME m = 0 PROVE LineStrays(h, m) = <<>>
    OBVIOUS
  <2>1. Of(m) \in Seq(Seq(RawType)) /\ Len(Of(m)) = 0
    BY <1>0, <1>1
  <2>2. Of(m) = <<>>
    BY <2>1, EmptySeq
  <2> QED
    BY <1>2, <2>2, FlattenEmpty
<1>5. ASSUME m < Len(h.lines) PROVE LineStrays(h, m + 1) = LineStrays(h, m) \o Strays(h.lines[m + 1])
  <2>0. m + 1 \in 0..Len(h.lines) /\ m + 1 \in 1..(m + 1) /\ m <= m + 1 /\ \A i \in 1..m : i \in 1..(m + 1)
    BY <1>0, <1>5
  <2>1. PICK ss : ss = Of(m)
    OBVIOUS
  <2>2. PICK tt : tt = Of(m + 1)
    OBVIOUS
  <2>3. ss \in Seq(Seq(RawType)) /\ Len(ss) = m /\ \A i \in 1..m : ss[i] = Strays(h.lines[i])
    BY <1>1, <2>1
  <2>4. tt \in Seq(Seq(RawType)) /\ Len(tt) = m + 1 /\ \A i \in 1..(m + 1) : tt[i] = Strays(h.lines[i])
    BY <1>1, <2>0, <2>2
  <2>5. Continues(tt, ss)
    BY <2>0, <2>3, <2>4 DEF Continues
  <2>6. FlattenSeq(tt) = FlattenSeq(ss) \o tt[m + 1]
    BY <2>3, <2>4, <2>5, FlattenGrows
  <2>7. LineStrays(h, m + 1) = FlattenSeq(tt) /\ LineStrays(h, m) = FlattenSeq(ss)
    BY <1>2, <2>1, <2>2
  <2> QED
    BY <2>0, <2>4, <2>6, <2>7
<1> QED
  BY <1>3, <1>4, <1>5

LEMMA StraysStep ==
    ASSUME NEW h \in PatchHunk, NEW m \in 0..Len(h.lines)
    PROVE  StraysOf(h, m) \in Seq(RawType)
<1>1. StrayRaws(h.strays) \in Seq(RawType)
  <2>1. 1 \in Numbers
    BY DEF Numbers
  <2> QED
    BY <2>1, InsideIs
<1>2. LineStrays(h, m) \in Seq(RawType)
  BY LineStraysStep
<1> QED
  BY <1>1, <1>2, ConcatProperties DEF StraysOf

LEMMA StraysBeforeAre ==
    ASSUME NEW h \in PatchHunk, NEW j \in 1..Len(h.lines)
    PROVE  StraysBefore(h, j) = StraysOf(h, j - 1)
BY DEF StraysBefore, StraysOf, LineStrays, Strays

(* The first m lines of a hunk, and one more.                              *)
LEMMA PrefixStep ==
    ASSUME NEW h \in PatchHunk, NEW m \in 0..Len(h.lines), NEW kinds
    PROVE  LET first == SubSeq(h.lines, 1, m)
           IN  /\ first \in Seq(LineType) /\ Len(first) = m
               /\ \A i \in 1..m : first[i] = h.lines[i]
               /\ CountIn(first, kinds) \in Nat
               /\ m = 0 => CountIn(first, kinds) = 0
               /\ m < Len(h.lines) =>
                    CountIn(SubSeq(h.lines, 1, m + 1), kinds) =
                        CountIn(first, kinds) + (IF h.lines[m + 1].kind \in kinds THEN 1 ELSE 0)
<1>1. h.lines \in Seq(LineType) /\ Len(h.lines) \in Nat /\ m \in Nat /\ m <= Len(h.lines) /\ 1 \in Numbers
  BY LinesRaws DEF Numbers
<1>2. PICK s : s = h.lines
  OBVIOUS
<1>3. s \in Seq(LineType) /\ \A i \in 1..Len(s) : s[i] \in LineType
  BY <1>1, <1>2, ElementOfSeq
<1>4. PICK first : first = SubSeq(s, 1, m)
  OBVIOUS
<1>5. first \in Seq(LineType) /\ Len(first) = m /\ \A i \in 1..m : first[i] = s[i]
  <2>1. \A i \in 1..m : s[i] \in LineType
    BY <1>1, <1>2, <1>3
  <2>2. 1 \in Int /\ m \in Int
    BY <1>1
  <2> QED
    BY <1>1, <1>4, <2>1, <2>2, SubSeqProperties
<1>6. CountIn(first, kinds) \in Nat
  BY <1>5, CountType
<1>7. m = 0 => CountIn(first, kinds) = 0
  <2> SUFFICES ASSUME m = 0 PROVE CountIn(first, kinds) = 0
    OBVIOUS
  <2>1. Len(first) = 0
    BY <1>5
  <2>2. first = <<>>
    BY <1>5, <2>1, EmptySeq
  <2> QED
    BY <2>2, CountEmpty
<1>8. ASSUME m < Len(s)
      PROVE  CountIn(SubSeq(s, 1, m + 1), kinds) = CountIn(first, kinds) + (IF s[m + 1].kind \in kinds THEN 1 ELSE 0)
  <2>1. 1 \in 1..Len(s) /\ m + 1 \in 1..Len(s) /\ (m + 1) - 1 = m
    BY <1>1, <1>2, <1>8
  <2>2. SubSeq(s, 1, m + 1) = first \o <<s[m + 1]>>
    BY <1>3, <1>4, <2>1, SubSeqRecursiveSecond
  <2>3. s[m + 1] \in LineType
    BY <1>3, <2>1
  <2>4. SubSeq(s, 1, m + 1) = Append(first, s[m + 1])
    BY <1>5, <2>2, <2>3, AppendIsConcat
  <2>5. CountIn(Append(first, s[m + 1]), kinds) = CountIn(first, kinds) + (IF s[m + 1].kind \in kinds THEN 1 ELSE 0)
    BY <1>5, <2>3, CountStep
  <2> QED
    BY ONLY <2>4, <2>5
<1> QED
  BY <1>2, <1>4, <1>5, <1>6, <1>7, <1>8

LEMMA LinesCountBefore ==
    ASSUME NEW h \in PatchHunk, NEW n \in Numbers, NEW kinds
    PROVE  \A m \in 0..Len(h.lines) :
              CountIn(Joined(RawsOfLines(h, n), m), kinds) =
                  CountIn(SubSeq(h.lines, 1, m), kinds) + CountIn(LineStrays(h, m), kinds)
<1> DEFINE Equal(m) == CountIn(Joined(RawsOfLines(h, n), m), kinds) =
                           CountIn(SubSeq(h.lines, 1, m), kinds) + CountIn(LineStrays(h, m), kinds)
           S == {m \in Nat : m <= Len(h.lines) => Equal(m)}
<1>0. PICK ss : ss = RawsOfLines(h, n)
  OBVIOUS
<1>1. ss \in Seq(Seq(RawType)) /\ Len(ss) = Len(h.lines) /\ Len(h.lines) \in Nat
  BY <1>0, LinesRaws
<1>2. 0 \in S
  <2>1. 0 \in 0..Len(h.lines) /\ 0 \in Nat
    BY <1>1
  <2>2. Joined(ss, 0) = <<>> /\ LineStrays(h, 0) = <<>> /\ CountIn(SubSeq(h.lines, 1, 0), kinds) = 0
    <3>1. Joined(ss, 0) = <<>>
      BY <1>1, JoinedSteps
    <3>2. LineStrays(h, 0) = <<>>
      BY <2>1, LineStraysStep
    <3>3. CountIn(SubSeq(h.lines, 1, 0), kinds) = 0
      <4>1. 1 \in Int /\ 0 \in Int /\ 0 < 1
        OBVIOUS
      <4>2. SubSeq(h.lines, 1, 0) = <<>>
        BY <4>1, SubSeqEmpty
      <4> QED
        BY <4>2, CountEmpty
    <3> QED
      BY <3>1, <3>2, <3>3
  <2>3. CountIn(<<>>, kinds) = 0
    BY CountEmpty
  <2>4. Equal(0)
    BY <1>0, <2>2, <2>3
  <2> QED
    BY <2>1, <2>4
<1>3. \A m \in Nat : m \in S => m + 1 \in S
  <2> SUFFICES ASSUME NEW m \in Nat, m \in S, m + 1 <= Len(h.lines) PROVE Equal(m + 1)
    OBVIOUS
  <2>1. m \in 0..Len(h.lines) /\ m < Len(h.lines) /\ m + 1 \in 1..Len(ss) /\ (m + 1) - 1 = m /\ m <= Len(h.lines)
        /\ m \in 0..Len(ss) /\ m + 1 \in 1..Len(h.lines)
    BY <1>1
  <2>2. PICK line : line = h.lines[m + 1]
    OBVIOUS
  <2>3. line \in LineType /\ <<n, m + 1>> \in PlaceOrNone /\ ss[m + 1] = RawsOfLine(line, <<n, m + 1>>)
    BY <1>0, <2>1, <2>2, LinesRaws
  <2>4. PICK first : first = Raw(line.kind, <<n, m + 1>>, 0, 0)
    OBVIOUS
  <2>5. PICK st : st = Strays(line)
    OBVIOUS
  <2>6. first \in RawType /\ st \in Seq(RawType) /\ first.kind = line.kind
    <3>1. line.kind \in RawKinds
      BY <2>3 DEF LineType, RawKinds
    <3>2. first \in RawType
      BY <2>3, <2>4, <3>1, RawTyped
    <3>3. st \in Seq(RawType)
      BY <2>3, <2>5, LineRaws
    <3> QED
      BY <2>4, <3>2, <3>3 DEF Raw
  <2>7. ss[m + 1] = <<first>> \o st
    BY <2>3, <2>4, <2>5 DEF RawsOfLine, Strays
  <2>8. PICK A : A = Joined(ss, m)
    OBVIOUS
  <2>9. A \in Seq(RawType) /\ Joined(ss, m + 1) = A \o ss[m + 1]
    BY <1>1, <2>1, <2>8, JoinedSteps
  <2>10. PICK one \in {0, 1} : one = IF line.kind \in kinds THEN 1 ELSE 0
    OBVIOUS
  <2>11. CountIn(<<first>>, kinds) = one /\ <<first>> \in Seq(RawType)
    <3>1. CountIn(<<first>>, kinds) = IF first.kind \in kinds THEN 1 ELSE 0
      BY CountOne
    <3>2. <<first>> \in Seq(RawType)
      BY <2>6
    <3> QED
      BY <2>6, <2>10, <3>1, <3>2
  <2>12. PICK a \in Nat : a = CountIn(A, kinds)
    BY <2>9, CountType
  <2>13. PICK c \in Nat : c = CountIn(st, kinds)
    BY <2>6, CountType
  <2>14. CountIn(ss[m + 1], kinds) = one + c /\ ss[m + 1] \in Seq(RawType)
    <3>1. CountIn(<<first>> \o st, kinds) = CountIn(<<first>>, kinds) + CountIn(st, kinds)
      BY ONLY <2>6, <2>11, CountConcat
    <3>2. <<first>> \o st \in Seq(RawType)
      BY <2>6, <2>11, ConcatProperties
    <3> QED
      BY ONLY <2>7, <2>11, <2>13, <3>1, <3>2
  <2>15. CountIn(Joined(ss, m + 1), kinds) = a + (one + c)
    <3>1. CountIn(A \o ss[m + 1], kinds) = CountIn(A, kinds) + CountIn(ss[m + 1], kinds)
      BY ONLY <2>9, <2>14, CountConcat
    <3> QED
      BY ONLY <2>9, <2>12, <2>14, <3>1
  <2>16. PICK B : B = LineStrays(h, m)
    OBVIOUS
  <2>17. B \in Seq(RawType) /\ LineStrays(h, m + 1) = B \o st
    BY <2>1, <2>2, <2>5, <2>16, LineStraysStep
  <2>18. PICK d \in Nat : d = CountIn(B, kinds)
    BY <2>17, CountType
  <2>19. CountIn(LineStrays(h, m + 1), kinds) = d + c
    <3>1. CountIn(B \o st, kinds) = CountIn(B, kinds) + CountIn(st, kinds)
      BY ONLY <2>6, <2>17, CountConcat
    <3> QED
      BY ONLY <2>13, <2>17, <2>18, <3>1
  <2>20. PICK f \in Nat : f = CountIn(SubSeq(h.lines, 1, m), kinds)
    BY <2>1, PrefixStep
  <2>21. CountIn(SubSeq(h.lines, 1, m + 1), kinds) = f + one
    BY <2>1, <2>2, <2>10, <2>20, PrefixStep
  <2>22. a = f + d
    BY <1>0, <2>1, <2>8, <2>12, <2>16, <2>18, <2>20
  <2>23. a + (one + c) = (f + one) + (d + c)
    BY ONLY <2>22, a \in Nat, one \in {0, 1}, c \in Nat, d \in Nat, f \in Nat
  <2> QED
    BY <1>0, <2>15, <2>19, <2>21, <2>23
<1>4. Nat \subseteq S
  <2> HIDE DEF S
  <2> QED
    BY <1>2, <1>3, NumberInduction
<1> QED
  BY <1>1, <1>4

LEMMA CountBefore ==
    ASSUME NEW h \in PatchHunk, NEW n \in Numbers, NEW m \in 0..Len(h.lines), NEW kinds
    PROVE  CountIn(Leading(h, n, m), kinds) =
               CountIn(SubSeq(h.lines, 1, m), kinds) + CountIn(StraysOf(h, m), kinds)
<1>1. PICK heading : heading = StrayRaws(h.strays)
  OBVIOUS
<1>2. PICK body : body = Joined(RawsOfLines(h, n), m)
  OBVIOUS
<1>3. PICK own : own = LineStrays(h, m)
  OBVIOUS
<1>4. heading \in Seq(RawType) /\ body \in Seq(RawType) /\ own \in Seq(RawType)
  BY <1>1, <1>2, <1>3, InsideIs, LeadingIs, LineStraysStep
<1>5. CountIn(heading \o body, kinds) = CountIn(heading, kinds) + CountIn(body, kinds)
  BY ONLY <1>4, CountConcat
<1>6. CountIn(heading \o own, kinds) = CountIn(heading, kinds) + CountIn(own, kinds)
  BY ONLY <1>4, CountConcat
<1>7. CountIn(body, kinds) = CountIn(SubSeq(h.lines, 1, m), kinds) + CountIn(own, kinds)
  BY <1>2, <1>3, LinesCountBefore
<1>8. PICK a \in Nat : a = CountIn(heading, kinds)
  BY <1>4, CountType
<1>9. PICK b \in Nat : b = CountIn(SubSeq(h.lines, 1, m), kinds)
  BY PrefixStep
<1>10. PICK c \in Nat : c = CountIn(own, kinds)
  BY <1>4, CountType
<1>11. a + (b + c) = b + (a + c)
  OBVIOUS
<1>12. CountIn(heading \o body, kinds) = CountIn(SubSeq(h.lines, 1, m), kinds) + CountIn(heading \o own, kinds)
  BY ONLY <1>5, <1>6, <1>7, <1>8, <1>9, <1>10, <1>11
<1> QED
  BY <1>1, <1>2, <1>3, <1>12 DEF Leading, StraysOf

(* A line after no piece that looks like a header: its hunk's header is    *)
(* the last one, and it is numbered from there.                            *)
Moved(h, j, side, start) == Place(h, j, side, start + CountIn(StraysOf(h, j - 1), side))

LEMMA BeforeLine ==
    ASSUME NEW p \in PatchType, NEW n \in 1..Len(p.hunks), NEW j \in 1..Len(p.hunks[n].lines), NEW kinds
    PROVE  LET r == SplitLines(p)
               h == p.hunks[n]
           IN  /\ SubSeq(r, HeadPlace(p, n) + 1, LinePlace(p, n, j) - 1) = RawsBefore(p, n, j)
               /\ CountIn(RawsBefore(p, n, j), kinds) =
                      CountIn(SubSeq(h.lines, 1, j - 1), kinds) + CountIn(StraysOf(h, j - 1), kinds)
               /\ CountIn(SubSeq(h.lines, 1, j - 1), kinds) \in Nat
               /\ CountIn(StraysOf(h, j - 1), kinds) \in Nat
<1>1. PICK r : r = SplitLines(p)
  OBVIOUS
<1>2. PICK h : h = p.hunks[n]
  OBVIOUS
<1>3. PICK before : before = RawsBefore(p, n, j)
  OBVIOUS
<1>4. PICK b : b = HeadPlace(p, n)
  OBVIOUS
<1>5. PICK k : k = LinePlace(p, n, j)
  OBVIOUS
<1>6. r \in Seq(RawType) /\ Len(r) \in Nat /\ \A i \in 1..Len(r) : r[i] \in RawType
  BY <1>1, SplitRaws
<1>7. h \in PatchHunk /\ n \in Numbers
  BY <1>2, HunksRaws
<1>8. Len(h.lines) \in Nat /\ j \in 1..Len(h.lines)
  BY <1>2, <1>7, LinesRaws
<1>9. j - 1 \in 0..Len(h.lines)
  BY <1>8
<1>10. /\ before \in Seq(RawType) /\ Len(before) \in Nat
       /\ b \in 1..Len(r) /\ k \in 1..Len(r) /\ k = b + Len(before) + 1
       /\ \A q \in 1..Len(before) : r[b + q] = before[q]
  BY <1>1, <1>2, <1>3, <1>4, <1>5, <1>8, LineIs
<1>11. SubSeq(r, b + 1, k - 1) = before
  <2>1. PICK u : u = SubSeq(r, b + 1, k - 1)
    OBVIOUS
  <2>2. PICK w \in Nat : w = Len(before)
    BY <1>10
  <2>3. /\ b \in Nat /\ k \in Nat /\ b + 1 \in Int /\ k - 1 \in Int /\ k = b + w + 1
        /\ \A i \in (b + 1)..(k - 1) : i \in 1..Len(r)
        /\ (IF b + 1 <= k - 1 THEN (k - 1) - (b + 1) + 1 ELSE 0) = w
        /\ (k - 1) - (b + 1) + 1 = w
        /\ \A i \in 1..w : b + 1 + i - 1 = b + i
    <3>1. PICK top \in Nat : top = Len(r)
      BY <1>6
    <3>2. b \in 1..top /\ k \in 1..top /\ k = b + w + 1
      BY <1>10, <2>2, <3>1
    <3>3. /\ b \in Nat /\ k \in Nat /\ b + 1 \in Int /\ k - 1 \in Int
          /\ \A i \in (b + 1)..(k - 1) : i \in 1..top
          /\ (IF b + 1 <= k - 1 THEN (k - 1) - (b + 1) + 1 ELSE 0) = w
          /\ (k - 1) - (b + 1) + 1 = w
          /\ \A i \in 1..w : b + 1 + i - 1 = b + i
      BY ONLY <3>2, top \in Nat, w \in Nat
    <3> QED
      BY <3>1, <3>2, <3>3
  <2>4. \A i \in (b + 1)..(k - 1) : r[i] \in RawType
    BY <1>6, <2>3
  <2>5. /\ u \in Seq(RawType) /\ Len(u) = IF b + 1 <= k - 1 THEN (k - 1) - (b + 1) + 1 ELSE 0
        /\ \A i \in 1..((k - 1) - (b + 1) + 1) : u[i] = r[b + 1 + i - 1]
    <3>1. PICK c \in Int : c = b + 1
      BY <2>3
    <3>2. PICK d \in Int : d = k - 1
      BY <2>3
    <3>3. u = SubSeq(r, c, d) /\ \A i \in c..d : r[i] \in RawType
      BY <2>1, <2>4, <3>1, <3>2
    <3>4. /\ u \in Seq(RawType) /\ Len(u) = IF c <= d THEN d - c + 1 ELSE 0
          /\ \A i \in 1..(d - c + 1) : u[i] = r[c + i - 1]
      BY ONLY <3>3, c \in Int, d \in Int, SubSeqProperties
    <3> QED
      BY ONLY <3>1, <3>2, <3>4, Zenon
  <2>6. Len(u) = w /\ \A i \in 1..w : u[i] = r[b + i]
    BY ONLY <2>3, <2>5, Zenon
  <2>7. \A i \in 1..w : u[i] = before[i]
    BY <1>10, <2>2, <2>6
  <2>8. u = before
    BY <1>10, <2>2, <2>5, <2>6, <2>7, SeqEqual
  <2> QED
    BY <2>1, <2>8
<1>12. CountIn(before, kinds) = CountIn(SubSeq(h.lines, 1, j - 1), kinds) + CountIn(StraysOf(h, j - 1), kinds)
  <2>1. before = Leading(h, n, j - 1)
    BY <1>2, <1>3 DEF RawsBefore
  <2> QED
    BY <1>7, <1>9, <2>1, CountBefore
<1>13. CountIn(SubSeq(h.lines, 1, j - 1), kinds) \in Nat /\ CountIn(StraysOf(h, j - 1), kinds) \in Nat
  <2>1. StraysOf(h, j - 1) \in Seq(RawType)
    BY <1>7, <1>9, StraysStep
  <2>2. CountIn(StraysOf(h, j - 1), kinds) \in Nat
    BY <2>1, CountType
  <2>3. CountIn(SubSeq(h.lines, 1, j - 1), kinds) \in Nat
    BY <1>7, <1>9, PrefixStep
  <2> QED
    BY <2>2, <2>3
<1> QED
  BY <1>1, <1>2, <1>3, <1>4, <1>5, <1>11, <1>12, <1>13

LEMMA NumberedInPlace ==
    ASSUME NEW p \in PatchType, NEW n \in 1..Len(p.hunks), NEW j \in 1..Len(p.hunks[n].lines),
           CountIn(StraysOf(p.hunks[n], j - 1), {"header"}) = 0
    PROVE  LET r == SplitLines(p)
               h == p.hunks[n]
           IN  /\ IsHeadOf(r, HeadPlace(p, n), LinePlace(p, n, j))
               /\ Numbered(r, HeadPlace(p, n), LinePlace(p, n, j)) =
                      [kind |-> h.lines[j].kind, at |-> <<n, j>>,
                       old |-> Moved(h, j, OnOld, h.old), new |-> Moved(h, j, OnNew, h.new)]
<1>1. PICK r : r = SplitLines(p)
  OBVIOUS
<1>2. PICK h : h = p.hunks[n]
  OBVIOUS
<1>3. PICK before : before = RawsBefore(p, n, j)
  OBVIOUS
<1>4. PICK b : b = HeadPlace(p, n)
  OBVIOUS
<1>5. PICK k : k = LinePlace(p, n, j)
  OBVIOUS
<1>6. PICK line : line = h.lines[j]
  OBVIOUS
<1>7. r \in Seq(RawType) /\ Len(r) \in Nat
  BY <1>1, SplitRaws
<1>8. h \in PatchHunk /\ n \in Numbers /\ h.old \in Nat /\ h.new \in Nat
  BY <1>2, HunksRaws, HunkRaws
<1>9. Len(h.lines) \in Nat /\ j \in 1..Len(h.lines) /\ line \in LineType
  BY <1>2, <1>6, <1>8, LinesRaws
<1>10. /\ before \in Seq(RawType) /\ Len(before) \in Nat
       /\ b \in 1..Len(r) /\ k \in 1..Len(r) /\ k = b + Len(before) + 1
       /\ r[k] = Raw(line.kind, <<n, j>>, 0, 0)
       /\ \A q \in 1..Len(before) : r[b + q] = before[q]
  BY <1>1, <1>2, <1>3, <1>4, <1>5, <1>6, <1>9, LineIs
<1>11. r[b] = Raw("header", NoLine, h.old, h.new)
  BY <1>1, <1>2, <1>4, HeadIs
<1>12. ASSUME NEW kinds
       PROVE  /\ SubSeq(r, b + 1, k - 1) = before
              /\ CountIn(before, kinds) =
                     CountIn(SubSeq(h.lines, 1, j - 1), kinds) + CountIn(StraysOf(h, j - 1), kinds)
              /\ CountIn(SubSeq(h.lines, 1, j - 1), kinds) \in Nat
              /\ CountIn(StraysOf(h, j - 1), kinds) \in Nat
  BY <1>1, <1>2, <1>3, <1>4, <1>5, BeforeLine
<1>13. \A q \in 1..Len(before) : before[q].kind # "header"
  <2>1. CountIn(SubSeq(h.lines, 1, j - 1), {"header"}) = 0
    <3>1. j - 1 \in 0..Len(h.lines)
      BY <1>9
    <3>2. PICK s : s = SubSeq(h.lines, 1, j - 1)
      OBVIOUS
    <3>3. s \in Seq(LineType) /\ Len(s) = j - 1
      BY <1>8, <3>1, <3>2, PrefixStep
    <3>4. \A i \in 1..Len(s) : s[i] \in LineType
      BY <3>3, ElementOfSeq
    <3>5. \A i \in 1..Len(s) : s[i].kind \notin {"header"}
      BY <3>4 DEF LineType, Kinds
    <3>6. CountIn(s, {"header"}) = 0
      BY <3>3, <3>5, CountNone
    <3> QED
      BY <3>2, <3>6
  <2>2. CountIn(before, {"header"}) = 0
    BY <1>2, <1>12, <2>1
  <2>3. \A q \in 1..Len(before) : before[q].kind \notin {"header"}
    BY <1>10, <2>2, CountNone
  <2> QED
    BY <2>3
<1>14. r[b].kind = "header" /\ r[b].old = h.old /\ r[b].new = h.new /\ r[k].kind = line.kind /\ r[k].at = <<n, j>>
  BY <1>10, <1>11 DEF Raw
<1>15. IsHeadOf(r, b, k)
  <2>1. b \in 1..k
    BY <1>7, <1>10
  <2>2. ASSUME NEW c \in (b + 1)..k, c # k PROVE r[c].kind # "header"
    <3>1. c - b \in 1..Len(before) /\ b + (c - b) = c
      <4>1. PICK w \in Nat : w = Len(before)
        BY <1>10
      <4>2. b \in Nat /\ k = b + w + 1
        BY <1>7, <1>10, <4>1
      <4>3. c - b \in 1..w /\ b + (c - b) = c
        BY ONLY <2>2, <4>2, w \in Nat, c \in (b + 1)..k
      <4> QED
        BY <4>1, <4>3
    <3> QED
      BY <1>10, <1>13, <3>1
  <2>3. r[k].kind # "header"
    BY <1>9, <1>14 DEF LineType, Kinds
  <2> QED
    BY <1>14, <2>1, <2>2, <2>3 DEF IsHeadOf
<1>16. ASSUME NEW side, NEW start \in Nat
       PROVE  NumberFrom(r, b, k, side, start) = Moved(h, j, side, start)
  <2>1. PICK a \in Nat : a = CountIn(SubSeq(h.lines, 1, j - 1), side)
    BY <1>12
  <2>2. PICK c \in Nat : c = CountIn(StraysOf(h, j - 1), side)
    BY <1>12
  <2>3. CountIn(SubSeq(r, b + 1, k - 1), side) = a + c
    BY <1>12, <2>1, <2>2
  <2>4. start + (a + c) = (start + c) + a
    OBVIOUS
  <2> QED
    BY <1>6, <1>14, <2>1, <2>2, <2>3, <2>4 DEF NumberFrom, Moved, Place
<1>17. Numbered(r, b, k) =
           [kind |-> line.kind, at |-> <<n, j>>,
            old |-> Moved(h, j, OnOld, h.old), new |-> Moved(h, j, OnNew, h.new)]
  BY <1>8, <1>14, <1>16 DEF Numbered
<1> QED
  BY <1>1, <1>2, <1>4, <1>5, <1>6, <1>15, <1>17

(* A line with no stray piece before it in its own hunk has its place in   *)
(* both files: the stray pieces of the hunks before do not move it.        *)
THEOREM StraysMoveOnlyWhatFollows == Spec => []StraysStayInHunk
<1>1. IInv => StraysStayInHunk
  <2> SUFFICES ASSUME IInv, Ended, NEW i \in DOMAIN ParsedLines, ParsedLines[i].at # NoLine,
                      StraysBefore(patch.hunks[ParsedLines[i].at[1]], ParsedLines[i].at[2]) = <<>>
               PROVE  IsInPlace(ParsedLines[i])
    BY DEF StraysStayInHunk
  <2>1. PICK p : p = patch
    OBVIOUS
  <2>2. PICK r : r = SplitLines(p)
    OBVIOUS
  <2>3. PICK ls : ls = ParsedLines
    OBVIOUS
  <2>4. p \in PatchType /\ r \in Seq(RawType) /\ Len(r) \in Nat
    BY <2>1, <2>2, SplitRaws DEF IInv, Typed
  <2>5. ls = LinesUpTo(r, Len(r))
    BY <2>1, <2>2, <2>3, <2>4 DEF IInv, LinesRead, Ended
  <2>6. i \in 1..Len(ls)
    <3>1. Len(r) \in 0..Len(r)
      BY <2>4
    <3>2. ls \in Seq(DiffLine)
      BY <2>4, <2>5, <3>1, LinesUpToStep
    <3> QED
      BY <2>3, <3>2, LenProperties
  <2>7. PICK from : LinesFrom(from, ls, r)
    BY <2>4, <2>5, LinesSelected
  <2>8. PICK k : k = from[i]
    OBVIOUS
  <2>9. k \in 1..Len(r) /\ Counts(r, k) /\ ls[i] = Numbered(r, HeadOf(r, k), k)
    BY <2>6, <2>7, <2>8 DEF LinesFrom
  <2>10. ls[i].at = r[k].at
    BY <2>9 DEF Numbered
  <2>11. PICK n \in 1..Len(p.hunks) : \E j \in 1..Len(p.hunks[n].lines) :
             k = LinePlace(p, n, j) /\ r[k].at = <<n, j>>
    BY <2>2, <2>3, <2>4, <2>9, <2>10, AtIs
  <2>12. PICK j \in 1..Len(p.hunks[n].lines) : k = LinePlace(p, n, j) /\ r[k].at = <<n, j>>
    BY <2>11
  <2>13. PICK h : h = p.hunks[n]
    OBVIOUS
  <2>14. h \in PatchHunk
    BY <2>4, <2>13, HunksRaws
  <2>15. StraysOf(h, j - 1) = <<>>
    <3>1. ls[i].at[1] = n /\ ls[i].at[2] = j
      BY <2>10, <2>12
    <3>2. StraysBefore(h, j) = <<>>
      BY <2>1, <2>3, <2>13, <3>1
    <3> QED
      BY <2>13, <2>14, <3>2, StraysBeforeAre
  <2>16. ls[i].old = Place(h, j, OnOld, h.old) /\ ls[i].new = Place(h, j, OnNew, h.new)
    <3>1. PICK b : b = HeadPlace(p, n)
      OBVIOUS
    <3>2. \A kinds : CountIn(StraysOf(h, j - 1), kinds) = 0
      BY <2>15, CountEmpty
    <3>3. /\ IsHeadOf(r, b, k)
          /\ Numbered(r, b, k) = [kind |-> h.lines[j].kind, at |-> <<n, j>>,
                                  old |-> Moved(h, j, OnOld, h.old), new |-> Moved(h, j, OnNew, h.new)]
      <4>1. CountIn(StraysOf(p.hunks[n], j - 1), {"header"}) = 0
        BY <2>13, <3>2
      <4> QED
        BY <2>2, <2>4, <2>12, <2>13, <3>1, <4>1, NumberedInPlace
    <3>4. HeadOf(r, k) = b
      <4>1. b \in 1..k
        BY <3>3 DEF IsHeadOf
      <4>2. IsHeadOf(r, HeadOf(r, k), k)
        BY <3>3, <4>1 DEF HeadOf
      <4> QED
        BY <2>4, <2>9, <3>3, <4>2, HeadUnique
    <3>5. /\ ls[i].old = Moved(h, j, OnOld, h.old)
          /\ ls[i].new = Moved(h, j, OnNew, h.new)
      BY <2>9, <3>3, <3>4
    <3>6. h.old + 0 = h.old /\ h.new + 0 = h.new
      BY <2>14 DEF PatchHunk
    <3>7. Moved(h, j, OnOld, h.old) = Place(h, j, OnOld, h.old)
      BY <3>2, <3>6 DEF Moved
    <3>8. Moved(h, j, OnNew, h.new) = Place(h, j, OnNew, h.new)
      BY <3>2, <3>6 DEF Moved
    <3> QED
      BY <3>5, <3>7, <3>8
  <2>17. ls[i].at[1] = n /\ ls[i].at[2] = j
    BY <2>10, <2>12
  <2> QED
    BY <2>1, <2>3, <2>13, <2>16, <2>17 DEF IsInPlace
<1> QED
  BY <1>1, Invariant, PTL

-----------------------------------------------------------------------------
(* A patch without other separators: every raw line is a line, and the     *)
(* only headers are those of the hunks.                                    *)
LEMMA CleanLineRaws ==
    ASSUME NEW h \in PatchHunk, NEW n \in Numbers,
           \A j \in 1..Len(h.lines) : h.lines[j].strays = <<>>
    PROVE  \A m \in 0..Len(h.lines) : Len(Joined(RawsOfLines(h, n), m)) = m /\ LineStrays(h, m) = <<>>
<1> DEFINE Good(m) == Len(Joined(RawsOfLines(h, n), m)) = m /\ LineStrays(h, m) = <<>>
           S == {m \in Nat : m <= Len(h.lines) => Good(m)}
<1>0. PICK ss : ss = RawsOfLines(h, n)
  OBVIOUS
<1>1. ss \in Seq(Seq(RawType)) /\ Len(ss) = Len(h.lines) /\ Len(h.lines) \in Nat
  BY <1>0, LinesRaws
<1>2. 0 \in S
  <2>1. Joined(ss, 0) = <<>>
    BY <1>1, JoinedSteps
  <2>2. LineStrays(h, 0) = <<>>
    <3>1. 0 \in 0..Len(h.lines)
      BY <1>1
    <3> QED
      BY <3>1, LineStraysStep
  <2>3. Len(<<>>) = 0
    OBVIOUS
  <2>4. Good(0)
    BY <1>0, <2>1, <2>2, <2>3
  <2> QED
    BY <2>4
<1>3. \A m \in Nat : m \in S => m + 1 \in S
  <2> SUFFICES ASSUME NEW m \in Nat, m \in S, m + 1 <= Len(h.lines) PROVE Good(m + 1)
    OBVIOUS
  <2>1. m \in 0..Len(h.lines) /\ m < Len(h.lines) /\ m + 1 \in 1..Len(ss) /\ (m + 1) - 1 = m /\ m <= Len(h.lines)
        /\ m \in 0..Len(ss) /\ m + 1 \in 1..Len(h.lines)
    BY <1>1
  <2>2. PICK line : line = h.lines[m + 1]
    OBVIOUS
  <2>3. line \in LineType /\ <<n, m + 1>> \in PlaceOrNone /\ ss[m + 1] = RawsOfLine(line, <<n, m + 1>>)
        /\ line.strays = <<>>
    BY <1>0, <2>1, <2>2, LinesRaws
  <2>4. Len(line.strays) = 0
    BY <2>3
  <2>5. Len(ss[m + 1]) = 1 /\ Strays(line) \in Seq(RawType) /\ Len(Strays(line)) = 0 /\ ss[m + 1] \in Seq(RawType)
    <3>1. PICK at \in PlaceOrNone : at = <<n, m + 1>>
      BY <2>3
    <3>2. /\ RawsOfLine(line, at) \in Seq(RawType) /\ Strays(line) \in Seq(RawType)
          /\ Len(RawsOfLine(line, at)) = 1 + Len(line.strays) /\ Len(Strays(line)) = Len(line.strays)
      BY <2>3, LineRaws
    <3> QED
      BY <2>3, <2>4, <3>1, <3>2
  <2>6. Strays(line) = <<>>
    BY <2>5, EmptySeq
  <2>7. PICK A : A = Joined(ss, m)
    OBVIOUS
  <2>8. A \in Seq(RawType) /\ Joined(ss, m + 1) = A \o ss[m + 1]
    BY <1>1, <2>1, <2>7, JoinedSteps
  <2>9. Good(m)
    BY <2>1
  <2>10. Len(A) = m
    BY <1>0, <2>7, <2>9
  <2>11. Len(Joined(ss, m + 1)) = m + 1
    <3>1. Len(A \o ss[m + 1]) = Len(A) + Len(ss[m + 1])
      <4>1. PICK c \in Seq(RawType) : c = ss[m + 1]
        BY <2>5
      <4>2. A \in Seq(RawType)
        BY <2>8
      <4>3. Len(A \o c) = Len(A) + Len(c)
        BY ONLY <4>2, c \in Seq(RawType), ConcatProperties
      <4> QED
        BY <4>1, <4>3
    <3> QED
      BY ONLY <2>5, <2>8, <2>10, <3>1
  <2>12. LineStrays(h, m + 1) = LineStrays(h, m) \o Strays(line)
    BY <2>1, <2>2, LineStraysStep
  <2>13. LineStrays(h, m + 1) = <<>>
    <3>1. <<>> \o <<>> = <<>>
      OBVIOUS
    <3> QED
      BY <2>6, <2>9, <2>12, <3>1
  <2> QED
    BY <1>0, <2>11, <2>13
<1>4. Nat \subseteq S
  <2> HIDE DEF S
  <2> QED
    BY <1>2, <1>3, NumberInduction
<1> QED
  BY <1>1, <1>4

LEMMA CleanHunk ==
    ASSUME NEW h \in PatchHunk, NEW n \in Numbers, h.strays = <<>>,
           \A j \in 1..Len(h.lines) : h.lines[j].strays = <<>>
    PROVE  /\ \A m \in 0..Len(h.lines) : Len(Leading(h, n, m)) = m /\ StraysOf(h, m) = <<>>
           /\ Len(Inside(h, n)) = Len(h.lines)
<1>1. PICK w \in Nat : w = Len(h.lines)
  BY LinesRaws
<1>2. Len(h.strays) = 0 /\ StrayRaws(h.strays) = <<>>
  <2>1. Len(h.strays) = 0
    OBVIOUS
  <2>2. StrayRaws(h.strays) \in Seq(RawType) /\ Len(StrayRaws(h.strays)) = 0
    BY <2>1, InsideIs
  <2> QED
    BY <2>1, <2>2, EmptySeq
<1>3. ASSUME NEW m \in 0..w PROVE Len(Leading(h, n, m)) = m /\ StraysOf(h, m) = <<>>
  <2>1. m \in 0..Len(h.lines) /\ 0 + m = m
    BY <1>1
  <2>2. Len(Joined(RawsOfLines(h, n), m)) = m /\ LineStrays(h, m) = <<>>
    BY <2>1, CleanLineRaws
  <2>3. Len(Leading(h, n, m)) = m
    BY <1>2, <2>1, <2>2, LeadingIs
  <2>4. <<>> \o <<>> = <<>>
    OBVIOUS
  <2> QED
    BY <1>2, <2>2, <2>3, <2>4 DEF StraysOf
<1>4. Len(Inside(h, n)) = w
  <2>1. RawsOfLines(h, n) \in Seq(Seq(RawType)) /\ Len(RawsOfLines(h, n)) = w
    BY <1>1, LinesRaws
  <2>2. Joined(RawsOfLines(h, n), w) = FlattenSeq(RawsOfLines(h, n))
    BY <2>1, JoinedSteps
  <2>3. w \in 0..Len(h.lines)
    BY <1>1
  <2>4. Len(FlattenSeq(RawsOfLines(h, n))) = w
    BY <2>2, <2>3, CleanLineRaws
  <2>5. Len(Inside(h, n)) = 0 + w
    BY <1>2, <2>4, InsideIs
  <2> QED
    BY ONLY <2>5, w \in Nat
<1> QED
  BY <1>1, <1>3, <1>4

(* Where the n-th hunk ends.                                               *)
EndOf(p, n) == HeadPlace(p, n) + Len(Inside(p.hunks[n], n))

LEMMA EndsAre ==
    ASSUME NEW p \in PatchType, NEW n \in 1..Len(p.hunks)
    PROVE  /\ HeadPlace(p, n) \in 1..Len(SplitLines(p)) /\ EndOf(p, n) \in HeadPlace(p, n)..Len(SplitLines(p))
           /\ \A m \in 1..Len(p.hunks) : n < m => EndOf(p, n) < HeadPlace(p, m)
           /\ n + 1 \in 1..Len(p.hunks) => EndOf(p, n) = HeadPlace(p, n + 1) - 1
           /\ n = Len(p.hunks) => EndOf(p, n) = Len(SplitLines(p))
<1>1. PICK ss : ss = RawsOfHunks(p)
  OBVIOUS
<1>2. PICK r : r = SplitLines(p)
  OBVIOUS
<1>3. PICK h : h = p.hunks[n]
  OBVIOUS
<1>4. ss \in Seq(Seq(RawType)) /\ Len(ss) = Len(p.hunks) /\ Len(ss) \in Nat /\ p.preamble \in Nat
      /\ h \in PatchHunk /\ n \in Numbers
  BY <1>1, <1>3, HunksRaws
<1>5. PICK w \in Nat : w = Len(Inside(h, n))
  BY <1>4, HunkRaws
<1>6. /\ HeadPlace(p, n) \in (p.preamble + 1)..Len(r)
      /\ HeadPlace(p, n) + w <= Len(r)
      /\ p.preamble + Len(Joined(ss, n)) = HeadPlace(p, n) + w
  BY <1>1, <1>2, <1>3, <1>5, HeadIs
<1>7. Len(r) \in Nat /\ Len(r) = p.preamble + Len(FlattenSeq(ss))
  BY <1>1, <1>2, SplitRaws
<1>8. EndOf(p, n) = HeadPlace(p, n) + w
  BY <1>3, <1>5 DEF EndOf
<1>9. HeadPlace(p, n) \in 1..Len(r) /\ EndOf(p, n) \in HeadPlace(p, n)..Len(r) /\ HeadPlace(p, n) \in Nat
  <2>1. PICK top \in Nat : top = Len(r)
    BY <1>7
  <2>2. PICK pre \in Nat : pre = p.preamble
    BY <1>4
  <2>3. PICK b : b = HeadPlace(p, n)
    OBVIOUS
  <2>4. b \in (pre + 1)..top /\ b + w <= top
    BY <1>6, <2>1, <2>2, <2>3
  <2>5. b \in 1..top /\ b + w \in b..top /\ b \in Nat
    BY ONLY <2>4, top \in Nat, pre \in Nat, w \in Nat
  <2> QED
    BY <1>8, <2>1, <2>3, <2>5
<1>10. ASSUME NEW m \in 1..Len(p.hunks), n < m PROVE EndOf(p, n) < HeadPlace(p, m)
  <2>1. n \in 0..Len(ss) /\ m - 1 \in n..Len(ss) /\ m - 1 \in 0..Len(ss)
    BY <1>4, <1>10
  <2>2. PICK A : A = Joined(ss, n)
    OBVIOUS
  <2>3. PICK B : B = Joined(ss, m - 1)
    OBVIOUS
  <2>4. A \in Seq(RawType) /\ B \in Seq(RawType)
    BY <1>4, <2>1, <2>2, <2>3, JoinedSteps
  <2>5. Continues(B, A)
    BY <1>4, <2>1, <2>2, <2>3, JoinedContinues
  <2>6. Len(A) <= Len(B) /\ Len(A) \in Nat /\ Len(B) \in Nat
    BY <2>4, <2>5, LenProperties DEF Continues
  <2>7. HeadPlace(p, m) = p.preamble + Len(B) + 1
    BY <1>1, <2>3 DEF HeadPlace
  <2>8. EndOf(p, n) = p.preamble + Len(A)
    BY <1>6, <1>8, <2>2
  <2> QED
    BY ONLY <1>4, <2>6, <2>7, <2>8
<1>11. ASSUME n + 1 \in 1..Len(p.hunks) PROVE EndOf(p, n) = HeadPlace(p, n + 1) - 1
  <2>1. (n + 1) - 1 = n /\ n \in 0..Len(ss)
    BY <1>4
  <2>2. Len(Joined(ss, n)) \in Nat
    BY <1>4, <2>1, JoinedSteps, LenProperties
  <2>3. HeadPlace(p, n + 1) = p.preamble + Len(Joined(ss, n)) + 1
    BY <1>1, <2>1 DEF HeadPlace
  <2>4. EndOf(p, n) = p.preamble + Len(Joined(ss, n))
    BY <1>6, <1>8
  <2> QED
    BY ONLY <1>4, <2>2, <2>3, <2>4
<1>12. n = Len(p.hunks) => EndOf(p, n) = Len(r)
  BY <1>4, <1>6, <1>7, <1>8, JoinedSteps
<1> QED
  BY <1>2, <1>9, <1>10, <1>11, <1>12

LEMMA CleanHeads ==
    ASSUME NEW p \in PatchType, IsClean(p), NEW k \in 1..Len(SplitLines(p)),
           SplitLines(p)[k].kind = "header"
    PROVE  \E n \in 1..Len(p.hunks) : k = HeadPlace(p, n)
<1>1. CASE k <= p.preamble
  <2>1. k \in 1..p.preamble
    BY <1>1, HunksRaws
  <2>2. SplitLines(p)[k] = Raw("context", NoLine, 0, 0)
    BY <2>1, SplitRaws
  <2> QED
    BY <2>2 DEF Raw
<1>2. ASSUME NEW n \in 1..Len(p.hunks), NEW j \in 1..Len(p.hunks[n].lines)
      PROVE  k # LinePlace(p, n, j) /\ ~(1..Len(p.hunks[n].lines[j].strays) # {})
  <2>1. p.hunks[n].lines[j] \in LineType /\ DOMAIN p.hunks = 1..Len(p.hunks)
        /\ DOMAIN p.hunks[n].lines = 1..Len(p.hunks[n].lines)
    BY HunksRaws, LinesRaws
  <2>2. p.hunks[n].lines[j].strays = <<>>
    BY <2>1 DEF IsClean
  <2>3. Len(p.hunks[n].lines[j].strays) = 0
    BY <2>2
  <2>4. ASSUME k = LinePlace(p, n, j) PROVE FALSE
    <3>1. SplitLines(p)[k] = Raw(p.hunks[n].lines[j].kind, <<n, j>>, 0, 0)
      BY <2>4, LineIs
    <3> QED
      BY <2>1, <3>1 DEF Raw, LineType, Kinds
  <2> QED
    BY <2>3, <2>4
<1>3. ASSUME NEW n \in 1..Len(p.hunks) PROVE ~(1..Len(p.hunks[n].strays) # {})
  <2>1. DOMAIN p.hunks = 1..Len(p.hunks)
    BY HunksRaws
  <2>2. p.hunks[n].strays = <<>>
    BY <2>1 DEF IsClean
  <2>3. Len(p.hunks[n].strays) = 0
    BY <2>2
  <2> QED
    BY <2>3
<1> QED
  BY <1>1, <1>2, <1>3, Origin

LEMMA HunkWritten ==
    ASSUME NEW p \in PatchType, IsClean(p), NEW n \in 1..Len(p.hunks)
    PROVE  HunkIn(SplitLines(p), HeadPlace(p, n), EndOf(p, n)) = Written(p.hunks[n], n)
<1>1. PICK r : r = SplitLines(p)
  OBVIOUS
<1>2. PICK h : h = p.hunks[n]
  OBVIOUS
<1>3. PICK b : b = HeadPlace(p, n)
  OBVIOUS
<1>4. PICK w : w = Len(h.lines)
  OBVIOUS
<1>5. h \in PatchHunk /\ n \in Numbers /\ DOMAIN p.hunks = 1..Len(p.hunks)
  BY <1>2, HunksRaws
<1>6. w \in Nat /\ DOMAIN h.lines = 1..w /\ h.old \in Nat /\ h.new \in Nat
  BY <1>4, <1>5, LinesRaws, HunkRaws
<1>7. h.strays = <<>> /\ \A j \in 1..Len(h.lines) : h.lines[j].strays = <<>>
  BY <1>2, <1>4, <1>5, <1>6 DEF IsClean
<1>8. Len(Inside(h, n)) = w /\ \A m \in 0..w : Len(Leading(h, n, m)) = m /\ StraysOf(h, m) = <<>>
  BY <1>4, <1>5, <1>7, CleanHunk
<1>9. b \in 1..Len(r) /\ b \in Nat /\ r[b] = Raw("header", NoLine, h.old, h.new)
  <2>1. b \in 1..Len(r)
    BY <1>1, <1>3, EndsAre
  <2>2. r[b] = Raw("header", NoLine, h.old, h.new)
    BY <1>1, <1>2, <1>3, HeadIs
  <2> QED
    BY <2>1, <2>2
<1>10. EndOf(p, n) = b + w /\ (b + w) - b = w
  BY <1>2, <1>3, <1>6, <1>8, <1>9 DEF EndOf
<1>11. ASSUME NEW j \in 1..w
       PROVE  (IF r[b + j].kind \in Kinds THEN <<Numbered(r, b, b + j)>> ELSE <<>>) =
              (IF h.lines[j].kind = "marker" THEN <<>>
               ELSE <<[kind |-> h.lines[j].kind, at |-> <<n, j>>,
                       old |-> Place(h, j, OnOld, h.old), new |-> Place(h, j, OnNew, h.new)]>>)
  <2>1. j \in 1..Len(p.hunks[n].lines) /\ j - 1 \in 0..w
    BY <1>2, <1>4, <1>6
  <2>2. StraysOf(h, j - 1) = <<>> /\ Len(Leading(h, n, j - 1)) = j - 1
    BY <1>8, <2>1
  <2>3. \A kinds : CountIn(StraysOf(h, j - 1), kinds) = 0
    BY <2>2, CountEmpty
  <2>4. LinePlace(p, n, j) = b + j
    <3>1. LinePlace(p, n, j) = b + (j - 1) + 1
      BY <1>2, <1>3, <2>2 DEF LinePlace, RawsBefore
    <3> QED
      BY <1>6, <1>9, <3>1
  <2>5. r[b + j] = Raw(h.lines[j].kind, <<n, j>>, 0, 0)
    <3>1. SplitLines(p)[LinePlace(p, n, j)] = Raw(p.hunks[n].lines[j].kind, <<n, j>>, 0, 0)
      BY <2>1, LineIs
    <3> QED
      BY <1>1, <1>2, <2>4, <3>1
  <2>6. CountIn(StraysOf(p.hunks[n], j - 1), {"header"}) = 0
    BY <1>2, <2>3
  <2>7. Numbered(r, b, b + j) =
            [kind |-> h.lines[j].kind, at |-> <<n, j>>,
             old |-> Moved(h, j, OnOld, h.old), new |-> Moved(h, j, OnNew, h.new)]
    <3>1. Numbered(SplitLines(p), HeadPlace(p, n), LinePlace(p, n, j)) =
            [kind |-> p.hunks[n].lines[j].kind, at |-> <<n, j>>,
             old |-> Moved(p.hunks[n], j, OnOld, p.hunks[n].old),
             new |-> Moved(p.hunks[n], j, OnNew, p.hunks[n].new)]
      BY <2>1, <2>6, NumberedInPlace
    <3> QED
      BY <1>1, <1>2, <1>3, <2>4, <3>1
  <2>8. ASSUME NEW side, NEW start \in Nat PROVE Moved(h, j, side, start) = Place(h, j, side, start)
    <3>1. start + 0 = start
      OBVIOUS
    <3> QED
      BY <2>3, <3>1 DEF Moved
  <2>9. Numbered(r, b, b + j) =
            [kind |-> h.lines[j].kind, at |-> <<n, j>>,
             old |-> Place(h, j, OnOld, h.old), new |-> Place(h, j, OnNew, h.new)]
    BY <1>6, <2>7, <2>8
  <2>10. r[b + j].kind \in Kinds <=> h.lines[j].kind # "marker"
    <3>1. h.lines[j] \in LineType
      BY <1>4, <1>5, LinesRaws
    <3>2. r[b + j].kind = h.lines[j].kind
      BY <2>5 DEF Raw
    <3> QED
      BY <3>1, <3>2 DEF LineType, Kinds
  <2> QED
    BY <2>9, <2>10
<1>12. LinesIn(r, b, b + w) = Written(h, n).lines
  <2>1. LinesIn(r, b, b + w) = FlattenSeq([j \in 1..w |->
            IF r[b + j].kind \in Kinds THEN <<Numbered(r, b, b + j)>> ELSE <<>>])
    BY <1>10 DEF LinesIn
  <2>2. Written(h, n).lines = FlattenSeq([j \in 1..w |->
            IF h.lines[j].kind = "marker" THEN <<>>
            ELSE <<[kind |-> h.lines[j].kind, at |-> <<n, j>>,
                    old |-> Place(h, j, OnOld, h.old), new |-> Place(h, j, OnNew, h.new)]>>])
    BY <1>5, <1>6 DEF Written
  <2>3. [j \in 1..w |-> IF r[b + j].kind \in Kinds THEN <<Numbered(r, b, b + j)>> ELSE <<>>] =
        [j \in 1..w |-> IF h.lines[j].kind = "marker" THEN <<>>
            ELSE <<[kind |-> h.lines[j].kind, at |-> <<n, j>>,
                    old |-> Place(h, j, OnOld, h.old), new |-> Place(h, j, OnNew, h.new)]>>]
    BY ONLY <1>11, Zenon
  <2> QED
    BY ONLY <2>1, <2>2, <2>3
<1>13. Written(h, n) = [old |-> h.old, new |-> h.new, lines |-> Written(h, n).lines]
  BY <1>5 DEF Written
<1>14. r[b].old = h.old /\ r[b].new = h.new
  BY <1>9 DEF Raw
<1>15. HunkIn(r, b, b + w) = Written(h, n)
  BY <1>12, <1>13, <1>14 DEF HunkIn
<1> QED
  BY <1>1, <1>2, <1>3, <1>10, <1>15

(* A clean patch is parsed as it was written.                              *)
LEMMA CleanPatch == IInv => ParsedAsWritten
<1> SUFFICES ASSUME IInv, Ended, IsClean(patch)
             PROVE  Parsed = [n \in DOMAIN patch.hunks |-> Written(patch.hunks[n], n)]
  BY DEF ParsedAsWritten
<1>1. PICK p : p = patch
  OBVIOUS
<1>2. PICK r : r = SplitLines(p)
  OBVIOUS
<1>3. PICK w : w = Len(p.hunks)
  OBVIOUS
<1>4. p \in PatchType /\ IsClean(p) /\ r \in Seq(RawType) /\ Len(r) \in Nat
  BY <1>1, <1>2, SplitRaws DEF IInv, Typed
<1>5. w \in Nat /\ DOMAIN p.hunks = 1..w
  BY <1>3, <1>4, HunksRaws
<1>6. PICK heads : HeadsOf(heads, r, Len(r)) /\ ReadBy(heads, r, Len(r))
  <2>1. next - 1 = Len(r)
    BY <1>1, <1>2, <1>4 DEF Ended
  <2> QED
    BY <1>1, <1>2, <2>1 DEF IInv, HunksRead
<1>7. PICK places : places = [n \in 1..w |-> HeadPlace(p, n)]
  OBVIOUS
<1>8. /\ places \in Seq(Nat) /\ Len(places) = w
      /\ \A n \in 1..w : places[n] = HeadPlace(p, n)
  <2>1. \A n \in 1..w : HeadPlace(p, n) \in Nat
    <3>1. \A n \in 1..w : HeadPlace(p, n) \in 1..Len(r)
      BY <1>2, <1>3, <1>4, EndsAre
    <3> QED
      BY <1>4, <3>1
  <2>2. places \in [1..w -> Nat]
    BY <1>7, <2>1
  <2>3. \A n \in 1..w : places[n] = HeadPlace(p, n)
    BY <1>7
  <2> QED
    BY <1>5, <2>2, <2>3, FunctionList
<1>9. heads = places
  <2>1. Increasing(places)
    <3> SUFFICES ASSUME NEW m \in 1..Len(places), NEW n \in 1..Len(places), m < n
                 PROVE  places[m] < places[n]
      BY DEF Increasing
    <3>1. /\ EndOf(p, m) < HeadPlace(p, n)
          /\ EndOf(p, m) \in HeadPlace(p, m)..Len(r)
          /\ HeadPlace(p, m) \in 1..Len(r) /\ HeadPlace(p, n) \in 1..Len(r)
      BY <1>2, <1>3, <1>4, <1>8, EndsAre
    <3>2. HeadPlace(p, m) < HeadPlace(p, n)
      BY ONLY <1>4, <3>1
    <3> QED
      BY <1>8, <3>2
  <2>2. heads \in Seq(Nat) /\ Increasing(heads)
    BY <1>6 DEF HeadsOf
  <2>3. Covers(heads, places)
    <3> SUFFICES ASSUME NEW n \in 1..Len(places) PROVE \E m \in 1..Len(heads) : heads[m] = places[n]
      BY DEF Covers
    <3>1. places[n] \in 1..Len(r)
      BY <1>2, <1>3, <1>4, <1>8, EndsAre
    <3>2. SplitLines(p)[HeadPlace(p, n)] = Raw("header", NoLine, p.hunks[n].old, p.hunks[n].new)
      BY <1>3, <1>4, <1>8, HeadIs
    <3>3. r[places[n]].kind = "header"
      BY <1>2, <1>8, <3>2 DEF Raw
    <3> QED
      BY <1>6, <3>1, <3>3 DEF HeadsOf
  <2>4. Covers(places, heads)
    <3> SUFFICES ASSUME NEW m \in 1..Len(heads) PROVE \E n \in 1..Len(places) : places[n] = heads[m]
      BY DEF Covers
    <3>1. PICK k : k = heads[m]
      OBVIOUS
    <3>2. k \in 1..Len(r) /\ r[k].kind = "header"
      BY <1>6, <3>1 DEF HeadsOf
    <3>3. \E n \in 1..Len(p.hunks) : k = HeadPlace(p, n)
      BY <1>2, <1>4, <3>2, CleanHeads
    <3> QED
      BY <1>3, <1>8, <3>1, <3>3
  <2> QED
    BY <1>8, <2>1, <2>2, <2>3, <2>4, SameIncreasing
<1>10. /\ Parsed \in Seq(HunkType) /\ Len(Parsed) = w
       /\ \A n \in 1..w : Parsed[n] = HunkIn(r, HeadPlace(p, n), EndOf(p, n))
  <2>1. IsBuilding /\ hunks \in Seq(HunkType)
    BY Building DEF IInv, Typed
  <2>2. Parsed \in Seq(HunkType)
    BY <2>1 DEF IsBuilding, Parsed
  <2>3. CASE w = 0
    <3>1. heads = <<>>
      BY <1>8, <1>9, <2>3, EmptySeq
    <3>2. header = NoHeader /\ hunks = <<>>
      BY <1>6, <3>1 DEF ReadBy
    <3>3. Parsed = <<>>
      BY <2>1, <3>2 DEF IsBuilding, Parsed
    <3>4. Len(Parsed) = 0
      BY <3>3
    <3> QED
      BY <2>2, <2>3, <3>4
  <2>4. CASE w # 0
    <3>1. heads # <<>> /\ Len(heads) = w /\ w \in 1..w
      BY <1>5, <1>8, <1>9, <2>4
    <3>2. PICK b : b = heads[w]
      OBVIOUS
    <3>3. /\ header = [old |-> r[b].old, new |-> r[b].new, lines |-> <<>>]
          /\ lines = LinesIn(r, b, Len(r))
          /\ Len(hunks) = w - 1
          /\ \A m \in 1..Len(hunks) : hunks[m] = HunkIn(r, heads[m], heads[m + 1] - 1)
      BY <1>6, <3>1, <3>2 DEF ReadBy
    <3>4. b = HeadPlace(p, w) /\ b \in 1..Len(r) /\ EndOf(p, w) = Len(r)
      BY <1>2, <1>3, <1>4, <1>8, <1>9, <3>1, <3>2, EndsAre
    <3>5. header # NoHeader
      <4>1. r[b] \in RawType
        BY <1>4, <3>4, ElementOfSeq
      <4>2. header \in Hunk({<<>>})
        BY <3>3, <4>1 DEF RawType, Hunk
      <4> QED
        BY <4>2, NoneAssumption
    <3>6. PICK h : h = [old |-> header.old, new |-> header.new, lines |-> lines]
      OBVIOUS
    <3>7. Parsed = Append(hunks, h) /\ h \in HunkType
      BY <2>1, <3>5, <3>6 DEF IsBuilding, Parsed
    <3>8. /\ Len(Parsed) = Len(hunks) + 1
          /\ \A m \in 1..Len(hunks) : Parsed[m] = hunks[m]
          /\ Parsed[Len(hunks) + 1] = h
      BY <2>1, <3>7, AppendProperties
    <3>9. h = HunkIn(r, b, Len(r))
      BY <3>3, <3>6 DEF HunkIn
    <3>10. Len(Parsed) = w /\ Len(hunks) + 1 = w
      BY <1>5, <3>3, <3>8
    <3>11. ASSUME NEW n \in 1..w PROVE Parsed[n] = HunkIn(r, HeadPlace(p, n), EndOf(p, n))
      <4>1. CASE n = w
        BY <3>4, <3>8, <3>9, <3>10, <4>1
      <4>2. CASE n # w
        <5>1. n \in 1..Len(hunks) /\ n + 1 \in 1..w
          BY <1>5, <3>3, <4>2
        <5>2. Parsed[n] = HunkIn(r, heads[n], heads[n + 1] - 1)
          BY <3>3, <3>8, <5>1
        <5>3. heads[n] = HeadPlace(p, n) /\ heads[n + 1] = HeadPlace(p, n + 1)
          BY <1>8, <1>9, <5>1
        <5>4. EndOf(p, n) = HeadPlace(p, n + 1) - 1
          BY <1>3, <1>4, <5>1, EndsAre
        <5> QED
          BY <5>2, <5>3, <5>4
      <4> QED
        BY <4>1, <4>2
    <3> QED
      BY <2>2, <3>10, <3>11
  <2> QED
    BY <2>3, <2>4
<1>11. PICK as : as = [n \in 1..w |-> Written(p.hunks[n], n)]
  OBVIOUS
<1>12. \A n \in 1..w : as[n] = Written(p.hunks[n], n)
  BY <1>11
<1>13. \A n \in 1..w : as[n] = Parsed[n]
  <2> SUFFICES ASSUME NEW n \in 1..w PROVE as[n] = Parsed[n]
    OBVIOUS
  <2>1. HunkIn(r, HeadPlace(p, n), EndOf(p, n)) = Written(p.hunks[n], n)
    BY <1>2, <1>3, <1>4, HunkWritten
  <2> QED
    BY <1>10, <1>12, <2>1
<1>14. as \in Seq(HunkType) /\ Len(as) = w
  <2>1. \A n \in 1..w : as[n] \in HunkType
    BY <1>10, <1>13, ElementOfSeq
  <2>2. as \in [1..w -> HunkType]
    BY <1>11, <1>12, <2>1
  <2> QED
    BY <1>5, <2>2, FunctionList
<1>15. Parsed = as
  BY <1>10, <1>13, <1>14, SeqEqual
<1> QED
  BY <1>1, <1>5, <1>11, <1>15

(* A patch without other separators has its hunks, lines and numbers       *)
(* parsed as the format defines them.                                      *)
THEOREM CleanPatchesParse == Spec => []ParsedAsWritten
BY CleanPatch, Invariant, PTL

-----------------------------------------------------------------------------
(* The review of a clean patch.  A line of a hunk on the new side has a    *)
(* number from the hunk's own range, so hunks share none.                  *)
LEMMA WrittenRange ==
    ASSUME NEW h \in PatchHunk, NEW n \in Numbers, NEW x \in RightLines(Written(h, n).lines)
    PROVE  x \in Nat /\ h.new <= x /\ x < h.new + CountIn(h.lines, OnNew)
<1> DEFINE each == [j \in DOMAIN h.lines |->
                       [kind |-> h.lines[j].kind, at |-> <<n, j>>,
                        old |-> Place(h, j, OnOld, h.old), new |-> Place(h, j, OnNew, h.new)]]
           T == {each[j] : j \in DOMAIN h.lines}
           places == {j \in DOMAIN h.lines : h.lines[j].kind # "marker"}
           own == [j \in DOMAIN h.lines |-> IF h.lines[j].kind = "marker" THEN <<>> ELSE <<each[j]>>]
<1>1. PICK w : w = Len(h.lines)
  OBVIOUS
<1>2. w \in Nat /\ DOMAIN h.lines = 1..w /\ h.new \in Nat
  BY <1>1, LinesRaws, HunkRaws
<1>3. PICK s : s = each
  OBVIOUS
<1>4. PICK ss : ss = own
  OBVIOUS
<1>5. \A j \in 1..w : s[j] \in T /\ s[j].new = Place(h, j, OnNew, h.new)
  BY <1>2, <1>3
<1>6. s \in Seq(T) /\ Len(s) = w
  <2>1. s \in [1..w -> T]
    BY <1>2, <1>3
  <2> HIDE DEF T
  <2> QED
    BY <1>2, <2>1, FunctionList
<1>7. \A j \in 1..w : ss[j] = IF j \in places THEN <<s[j]>> ELSE <<>>
  BY <1>2, <1>3, <1>4
<1>8. ss \in Seq(Seq(T)) /\ Len(ss) = w
  <2>1. \A j \in 1..w : <<s[j]>> \in Seq(T) /\ <<>> \in Seq(T)
    BY <1>5
  <2>2. ss = [j \in 1..w |-> ss[j]]
    BY <1>2, <1>4
  <2> HIDE DEF T, places, own
  <2>3. \A j \in 1..w : ss[j] \in Seq(T)
    BY <1>7, <2>1
  <2>4. ss \in [1..w -> Seq(T)]
    BY <2>2, <2>3
  <2> QED
    BY <1>2, <2>4, FunctionList
<1>9. PICK ls : ls = FlattenSeq(ss)
  OBVIOUS
<1>10. Written(h, n).lines = ls
  BY <1>4, <1>9 DEF Written
<1> HIDE DEF T, own, places, each
<1>11. ls \in Seq(T) /\ \E from : Selects(from, ls, s, places)
  BY <1>6, <1>7, <1>8, <1>9, SingletonsSelect
<1>12. PICK from : Selects(from, ls, s, places)
  BY <1>11
<1>13. DOMAIN ls = 1..Len(ls)
  BY <1>11, LenProperties
<1>14. PICK i \in 1..Len(ls) : x = ls[i].new /\ x # NoNumber
  BY <1>10, <1>13 DEF RightLines
<1>15. PICK j : j = from[i]
  OBVIOUS
<1>16. j \in 1..w /\ ls[i] = s[j]
  BY <1>6, <1>12, <1>15 DEF Selects
<1>17. x = Place(h, j, OnNew, h.new)
  BY <1>5, <1>14, <1>16
<1>18. h.lines[j].kind \in OnNew /\ x = h.new + CountIn(SubSeq(h.lines, 1, j - 1), OnNew)
  BY <1>14, <1>17 DEF Place
<1>19. PICK a \in Nat : a = CountIn(SubSeq(h.lines, 1, j - 1), OnNew)
  <2>1. j - 1 \in 0..Len(h.lines)
    BY <1>1, <1>2, <1>16
  <2> QED
    BY <2>1, PrefixStep
<1>20. CountIn(SubSeq(h.lines, 1, j), OnNew) = a + 1
  <2>1. PICK m : m = j - 1
    OBVIOUS
  <2>2. m \in 0..Len(h.lines) /\ m < Len(h.lines) /\ m + 1 = j
    BY <1>1, <1>2, <1>16, <2>1
  <2>3. CountIn(SubSeq(h.lines, 1, m + 1), OnNew) =
            CountIn(SubSeq(h.lines, 1, m), OnNew) + (IF h.lines[m + 1].kind \in OnNew THEN 1 ELSE 0)
    BY <2>2, PrefixStep
  <2> QED
    BY <1>18, <1>19, <2>1, <2>2, <2>3
<1>21. PICK c \in Nat : CountIn(h.lines, OnNew) = (a + 1) + c
  <2>1. PICK t : t = h.lines
    OBVIOUS
  <2>2. t \in Seq(LineType) /\ Len(t) = w /\ \A q \in 1..w : t[q] \in LineType
    BY <1>1, <2>1, LinesRaws
  <2>3. PICK u : u = SubSeq(t, 1, j)
    OBVIOUS
  <2>4. PICK v : v = SubSeq(t, j + 1, w)
    OBVIOUS
  <2>5. u \in Seq(LineType)
    <3>1. \A q \in 1..j : t[q] \in LineType
      BY <1>2, <1>16, <2>2
    <3>2. 1 \in Int /\ j \in Int
      BY <1>16
    <3> QED
      BY <2>3, <3>1, <3>2, SubSeqProperties
  <2>6. v \in Seq(LineType)
    <3>1. \A q \in (j + 1)..w : t[q] \in LineType
      BY <1>2, <1>16, <2>2
    <3>2. j + 1 \in Int /\ w \in Int
      BY <1>2, <1>16
    <3> QED
      BY <2>4, <3>1, <3>2, SubSeqProperties
  <2>7. u \o v = t
    <3>1. 1 \in 1..(Len(t) + 1) /\ j \in (1 - 1)..Len(t) /\ w \in j..Len(t)
      BY <1>2, <1>16, <2>2
    <3>2. u \o v = SubSeq(t, 1, w)
      BY <2>2, <2>3, <2>4, <3>1, ConcatAdjacentSubSeq
    <3> QED
      BY <2>2, <3>2, SubSeqFull
  <2>8. CountIn(t, OnNew) = CountIn(u, OnNew) + CountIn(v, OnNew) /\ CountIn(v, OnNew) \in Nat
    BY <2>5, <2>6, <2>7, CountConcat, CountType
  <2> QED
    BY <1>20, <2>1, <2>3, <2>8
<1>22. PICK start \in Nat : start = h.new
  BY <1>2
<1>23. x = start + a
  BY <1>18, <1>19, <1>22
<1>24. x \in Nat /\ start <= x /\ x < start + ((a + 1) + c)
  BY ONLY <1>23, start \in Nat, a \in Nat, c \in Nat
<1> QED
  BY <1>21, <1>22, <1>24

LEMMA HunksApart ==
    ASSUME NEW p \in Patches, NEW m \in DOMAIN p.hunks, NEW n \in DOMAIN p.hunks, m < n,
           NEW x \in RightLines(Written(p.hunks[m], m).lines),
           NEW y \in RightLines(Written(p.hunks[n], n).lines)
    PROVE  x \in Nat /\ y \in Nat /\ x < y
<1>1. p \in PatchType
  BY PatchesAssumption
<1>2. m \in Numbers /\ n \in Numbers /\ p.hunks[m] \in PatchHunk /\ p.hunks[n] \in PatchHunk
  BY <1>1, HunksRaws
<1>3. x \in Nat /\ x < p.hunks[m].new + CountIn(p.hunks[m].lines, OnNew)
  BY <1>2, WrittenRange
<1>4. y \in Nat /\ p.hunks[n].new <= y
  BY <1>2, WrittenRange
<1>5. p.hunks[m].new + CountIn(p.hunks[m].lines, OnNew) <= p.hunks[n].new
  BY HunksAssumption
<1>6. p.hunks[m].new \in Nat /\ p.hunks[n].new \in Nat /\ CountIn(p.hunks[m].lines, OnNew) \in Nat
  <2>1. p.hunks[m].new \in Nat /\ p.hunks[n].new \in Nat
    BY <1>2, HunkRaws
  <2>2. p.hunks[m].lines \in Seq(LineType)
    BY <1>2, LinesRaws
  <2> QED
    BY <2>1, <2>2, CountType
<1> QED
  BY <1>3, <1>4, <1>5, <1>6

(* Composing and publishing leave the parser alone.                        *)
THEOREM ReviewsParse == SpecReview => Spec
<1>1. InitReview => Init
  BY DEF InitReview
<1>2. [NextReview]_all => [Next]_vars
  BY DEF NextReview, Parse, ComposeDraft, Publish, all
<1> QED
  BY <1>1, <1>2, PTL DEF SpecReview, Spec

(* What a composed draft consists of, and when it was refused.             *)
DraftOf(found) ==
    [inline |-> {ToComment(r) : r \in {r \in found : CanAnchor(r)}},
     summary |-> {r \in found : ~CanAnchor(r)}]

RInv ==
    /\ patch \in Patches
    /\ draft = NoDraft => post = "none"
    /\ draft # NoDraft =>
          /\ Ended
          /\ \E found \in SUBSET Ranges : draft = DraftOf(found)
          /\ post = "refused" => \E comment \in draft.inline : ~GitHubAccepts(comment)
          /\ post = "accepted" => \A comment \in draft.inline : GitHubAccepts(comment)

LEMMA RInvStep ==
    ASSUME Typed, RInv, [NextReview]_all
    PROVE  RInv'
<1>1. CASE Parse
  <2>1. Next /\ draft' = draft /\ post' = post
    BY <1>1 DEF Parse
  <2>2. patch' = patch /\ next <= Len(SplitLines(patch))
    BY <2>1 DEF Next, Header, Ignore, Added, Removed, Context, Read
  <2>3. ~Ended
    <3>1. Len(SplitLines(patch)) \in Nat
      BY SplitRaws DEF Typed
    <3> QED
      BY <2>2, <3>1 DEF Ended
  <2>4. draft = NoDraft
    BY <2>3 DEF RInv
  <2> QED
    BY <2>1, <2>2, <2>4 DEF RInv
<1>2. ASSUME NEW found \in {S \in SUBSET Ranges : Cardinality(S) <= MaxFindings}, ComposeDraft(found)
      PROVE  RInv'
  <2>1. /\ Ended /\ draft = NoDraft /\ draft' = DraftOf(found) /\ post' = post
        /\ patch' = patch /\ next' = next /\ header' = header /\ lines' = lines /\ hunks' = hunks
    BY <1>2 DEF ComposeDraft, DraftOf, vars
  <2>2. post' = "none" /\ patch' \in Patches
    BY <2>1 DEF RInv
  <2>3. Ended' /\ DraftOf(found)' = DraftOf(found)
    BY <2>1 DEF Ended, DraftOf, CanAnchor, Parsed, HunksSoFar, BuildHunk
  <2> QED
    BY <2>1, <2>2, <2>3 DEF RInv
<1>3. CASE Publish
  <2>1. /\ draft # NoDraft /\ draft' = draft
        /\ patch' = patch /\ next' = next /\ header' = header /\ lines' = lines /\ hunks' = hunks
        /\ post' = IF \A comment \in draft.inline : GitHubAccepts(comment) THEN "accepted" ELSE "refused"
    BY <1>3 DEF Publish, vars
  <2>2. PICK found \in SUBSET Ranges : Ended /\ draft = DraftOf(found)
    BY <2>1 DEF RInv
  <2>3. Ended' /\ DraftOf(found)' = DraftOf(found)
    BY <2>1, <2>2 DEF Ended, DraftOf, CanAnchor, Parsed, HunksSoFar, BuildHunk
  <2>4. \A comment : GitHubAccepts(comment)' <=> GitHubAccepts(comment)
    BY <2>1 DEF GitHubAccepts, WrittenLines
  <2>5. patch' \in Patches
    BY <2>1 DEF RInv
  <2> QED
    BY <2>1, <2>2, <2>3, <2>4, <2>5 DEF RInv
<1>4. CASE UNCHANGED all
  <2>1. /\ draft' = draft /\ post' = post
        /\ patch' = patch /\ next' = next /\ header' = header /\ lines' = lines /\ hunks' = hunks
    BY <1>4 DEF all, vars
  <2>2. Ended' <=> Ended
    BY <2>1 DEF Ended
  <2>3. \A found : DraftOf(found)' = DraftOf(found)
    BY <2>1 DEF DraftOf, CanAnchor, Parsed, HunksSoFar, BuildHunk
  <2>4. \A comment : GitHubAccepts(comment)' <=> GitHubAccepts(comment)
    BY <2>1 DEF GitHubAccepts, WrittenLines
  <2> QED
    BY <2>1, <2>2, <2>3, <2>4 DEF RInv
<1> QED
  BY <1>1, <1>2, <1>3, <1>4 DEF NextReview

(* What can be anchored in a clean patch: both ends are in some hunk.      *)
LEMMA AnchoredAsWritten ==
    ASSUME IInv, Ended, IsClean(patch), NEW r
    PROVE  CanAnchor(r) <=> /\ \E n \in DOMAIN patch.hunks : r[1] \in WrittenLines(n)
                            /\ \E n \in DOMAIN patch.hunks : r[2] \in WrittenLines(n)
<1>1. Parsed = [n \in DOMAIN patch.hunks |-> Written(patch.hunks[n], n)]
  BY CleanPatch DEF ParsedAsWritten
<1>2. {RightLines(Parsed[m].lines) : m \in DOMAIN Parsed} = {WrittenLines(n) : n \in DOMAIN patch.hunks}
  BY <1>1 DEF WrittenLines
<1> QED
  BY <1>2 DEF CanAnchor, F!CanAnchor, F!CommentableLines

(* A review of a clean patch is refused only for a comment across hunks,   *)
(* and is refused for every such comment; nothing that would be accepted   *)
(* is left to the summary.                                                 *)
LEMMA Prevalidated == IInv /\ RInv => PrevalidatedLikeGitHub
<1> SUFFICES ASSUME IInv, RInv, draft # NoDraft, IsClean(patch)
             PROVE  /\ post = "refused" => \E comment \in draft.inline : IsAcrossHunks(comment)
                    /\ post = "accepted" => \A comment \in draft.inline : ~IsAcrossHunks(comment)
                    /\ \A r \in draft.summary : ~GitHubAccepts(ToComment(r))
  BY DEF PrevalidatedLikeGitHub
<1>1. /\ Ended
      /\ post = "refused" => \E comment \in draft.inline : ~GitHubAccepts(comment)
      /\ post = "accepted" => \A comment \in draft.inline : GitHubAccepts(comment)
      /\ patch \in Patches
  BY DEF RInv
<1>2. PICK found \in SUBSET Ranges : draft = DraftOf(found)
  BY DEF RInv
<1>3. /\ draft.inline = {ToComment(r) : r \in {r \in found : CanAnchor(r)}}
      /\ draft.summary = {r \in found : ~CanAnchor(r)}
  BY <1>2 DEF DraftOf
<1>4. ASSUME NEW r \in found
      PROVE  /\ r[1] \in Nat /\ r[2] \in Nat /\ r[1] <= r[2] /\ r[1] # NoNumber
             /\ ToComment(r).line = r[2]
             /\ ToComment(r).start = IF r[1] = r[2] THEN NoNumber ELSE r[1]
             /\ CanAnchor(r) <=> /\ \E n \in DOMAIN patch.hunks : r[1] \in WrittenLines(n)
                                 /\ \E n \in DOMAIN patch.hunks : r[2] \in WrittenLines(n)
  <2>1. r[1] \in Nat /\ r[2] \in Nat /\ r[1] <= r[2]
    BY RangesAssumption DEF Numbers
  <2>2. r[1] # NoNumber
    BY <2>1, NoneAssumption
  <2>3. ToComment(r).line = r[2] /\ ToComment(r).start = IF r[1] = r[2] THEN NoNumber ELSE r[1]
    BY DEF ToComment
  <2> QED
    BY <1>1, <2>1, <2>2, <2>3, AnchoredAsWritten
<1>5. ASSUME NEW m \in DOMAIN patch.hunks, NEW n \in DOMAIN patch.hunks, m < n,
             NEW x \in WrittenLines(m), NEW y \in WrittenLines(n)
      PROVE  x \in Nat /\ y \in Nat /\ x < y
  BY <1>1, <1>5, HunksApart DEF WrittenLines
<1>6. \A m, n \in DOMAIN patch.hunks : m < n \/ n < m \/ m = n
  <2>1. DOMAIN patch.hunks = 1..Len(patch.hunks) /\ Len(patch.hunks) \in Nat
    BY HunksRaws DEF IInv, Typed
  <2> QED
    BY <2>1
<1>7. ASSUME NEW r \in found, CanAnchor(r), ~GitHubAccepts(ToComment(r)) PROVE IsAcrossHunks(ToComment(r))
  <2>1. PICK m \in DOMAIN patch.hunks : r[1] \in WrittenLines(m)
    BY <1>4, <1>7
  <2>2. PICK n \in DOMAIN patch.hunks : r[2] \in WrittenLines(n)
    BY <1>4, <1>7
  <2>3. r[1] # r[2] /\ r[1] \notin WrittenLines(n) /\ ToComment(r).start = r[1]
    BY <1>4, <1>7, <2>2 DEF GitHubAccepts
  <2>4. m # n /\ r[1] < r[2]
    BY <1>4, <2>1, <2>3
  <2>5. ~(n < m)
    <3>1. n < m => r[2] < r[1]
      BY <1>5, <2>1, <2>2
    <3> QED
      BY <1>4, <2>4, <3>1
  <2>6. m < n
    BY <1>6, <2>4, <2>5
  <2> QED
    BY <1>4, <2>1, <2>2, <2>3, <2>6 DEF IsAcrossHunks
<1>8. ASSUME NEW r \in found, GitHubAccepts(ToComment(r)), IsAcrossHunks(ToComment(r)) PROVE FALSE
  <2>1. PICK start : start = ToComment(r).start
    OBVIOUS
  <2>2. PICK line : line = ToComment(r).line
    OBVIOUS
  <2>3. PICK m \in DOMAIN patch.hunks, n \in DOMAIN patch.hunks :
            m < n /\ start \in WrittenLines(m) /\ line \in WrittenLines(n)
    BY <1>8, <2>1, <2>2 DEF IsAcrossHunks
  <2>4. start # NoNumber
    BY <2>3 DEF WrittenLines, RightLines
  <2>5. PICK k \in DOMAIN patch.hunks : line \in WrittenLines(k) /\ start \in WrittenLines(k)
    BY <1>8, <2>1, <2>2, <2>4 DEF GitHubAccepts
  <2>6. start \in Nat /\ line \in Nat /\ start < line
    BY <1>5, <2>3
  <2>7. k = n
    <3>1. ~(k < n)
      <4>1. k < n => line < line
        BY <1>5, <2>3, <2>5
      <4> QED
        BY <2>6, <4>1
    <3>2. ~(n < k)
      <4>1. n < k => line < line
        BY <1>5, <2>3, <2>5
      <4> QED
        BY <2>6, <4>1
    <3> QED
      BY <1>6, <3>1, <3>2
  <2>8. start < start
    BY <1>5, <2>3, <2>5, <2>7
  <2> QED
    BY <2>6, <2>8
<1>9. ASSUME NEW r \in found, ~CanAnchor(r) PROVE ~GitHubAccepts(ToComment(r))
  <2> SUFFICES ASSUME GitHubAccepts(ToComment(r)) PROVE FALSE
    OBVIOUS
  <2>1. PICK n \in DOMAIN patch.hunks :
            /\ ToComment(r).line \in WrittenLines(n)
            /\ ToComment(r).start # NoNumber => ToComment(r).start \in WrittenLines(n)
    BY DEF GitHubAccepts
  <2>2. r[2] \in WrittenLines(n) /\ r[1] \in WrittenLines(n)
    BY <1>4, <2>1
  <2> QED
    BY <1>4, <1>9, <2>2
<1>10. post = "refused" => \E comment \in draft.inline : IsAcrossHunks(comment)
  BY <1>1, <1>3, <1>7
<1>11. post = "accepted" => \A comment \in draft.inline : ~IsAcrossHunks(comment)
  BY <1>1, <1>3, <1>8
<1>12. \A r \in draft.summary : ~GitHubAccepts(ToComment(r))
  BY <1>3, <1>9
<1> QED
  BY <1>10, <1>11, <1>12

(* Pre-validation and GitHub disagree on a clean patch only about ranges   *)
(* across hunks.                                                           *)
THEOREM PrevalidationAgrees == SpecReview => []PrevalidatedLikeGitHub
<1>1. InitReview => RInv
  BY DEF InitReview, Init, RInv
<1>2. Typed /\ RInv /\ [NextReview]_all => RInv'
  BY RInvStep
<1>3. IInv => Typed
  BY DEF IInv
<1> QED
  BY <1>1, <1>2, <1>3, Prevalidated, Invariant, ReviewsParse, PTL DEF SpecReview

(* So a review holds what the parser promises as well.                     *)
COROLLARY ReviewedAsParsed == SpecReview => [](TypeOK /\ ParsedAsWritten /\ StraysStayInHunk /\ EveryLineOnce)
BY ReviewsParse, ParserIsTyped, CleanPatchesParse, StraysMoveOnlyWhatFollows, LinesAreKept, PTL

=============================================================================
