----------------------------- MODULE HunkParser -----------------------------
(***************************************************************************)
(* DiffParser.parse_hunks: the loop that numbers the lines of a file's     *)
(* patch, so that comments can be anchored to them.                        *)
(*                                                                         *)
(* GitHub writes a patch as hunks of prefixed lines.  The parser cuts it   *)
(* with str.splitlines, which also cuts at form feeds, lone carriage       *)
(* returns, NEL and the like inside a line, and inside the line of the     *)
(* file that a hunk's header quotes as its section heading: the pieces     *)
(* after the first have no prefix of their own and are read by whatever    *)
(* they begin with.                                                        *)
(***************************************************************************)
EXTENDS Integers, Sequences, FiniteSets, SequencesExt

CONSTANTS
    Patches,  \* [preamble: number of lines before the first hunk, hunks],
              \* a hunk being [old, new: where it starts, strays, lines],
              \* a line [kind, strays]; strays: the kinds of the pieces of
              \* the line, or of the header, after the first
    NoHeader, \* header None
    NoNumber, \* DiffLine.old_line or new_line None
    NoLine    \* a piece that is not the beginning of a line

(* What a raw line is taken for: "marker" begins with a backslash.         *)
Kinds == {"context", "added", "removed"}
RawKinds == Kinds \union {"header", "marker"}

Numbers == Nat \ {0}
Hunk(lines) == [old: Nat, new: Nat, lines: lines]
PatchType ==
    [preamble: Nat,
     hunks: Seq([old: Nat, new: Nat, strays: Seq(RawKinds),
                 lines: Seq([kind: Kinds \union {"marker"}, strays: Seq(RawKinds)])])]

ASSUME PatchesAssumption == Patches \subseteq PatchType
ASSUME NoneAssumption ==
    /\ NoHeader \notin Hunk({<<>>})
    /\ NoNumber \notin Nat
    /\ NoLine \notin Numbers \X Numbers

VARIABLES
    patch,  \* the patch being parsed
    next,   \* index of the next raw line
    header, \* the current hunk's header: a hunk without lines, or none yet
    lines,  \* its lines so far
    old_line, new_line,
    hunks   \* the hunks that are complete

vars == <<patch, next, header, lines, old_line, new_line, hunks>>

-----------------------------------------------------------------------------
(* The raw lines.  `at' says which line of which hunk one begins.          *)
Raw(kind, at, old, new) == [kind |-> kind, at |-> at, old |-> old, new |-> new]

(* The line a stray piece names when it looks like a header.               *)
Elsewhere == 100

StrayRaws(strays) == [i \in DOMAIN strays |-> Raw(strays[i], NoLine, Elsewhere, Elsewhere)]

RawsOfLine(line, at) == <<Raw(line.kind, at, 0, 0)>> \o StrayRaws(line.strays)

RawsOfHunk(h, n) ==
    <<Raw("header", NoLine, h.old, h.new)>> \o
    (StrayRaws(h.strays) \o
     FlattenSeq([j \in DOMAIN h.lines |-> RawsOfLine(h.lines[j], <<n, j>>)]))

SplitLines(p) ==
    [i \in 1..p.preamble |-> Raw("context", NoLine, 0, 0)] \o
    FlattenSeq([n \in DOMAIN p.hunks |-> RawsOfHunk(p.hunks[n], n)])

Init ==
    /\ patch \in Patches
    /\ next = 1
    /\ header = NoHeader
    /\ lines = <<>>
    /\ old_line = 0 /\ new_line = 0
    /\ hunks = <<>>

-----------------------------------------------------------------------------
(* One turn of the loop.                                                   *)
Ended == next = Len(SplitLines(patch)) + 1

Read(kinds) ==
    /\ next <= Len(SplitLines(patch))
    /\ SplitLines(patch)[next].kind \in kinds
    /\ next' = next + 1
    /\ UNCHANGED patch

Current == SplitLines(patch)[next]

BuildHunk == [header EXCEPT !.lines = lines]

HunksSoFar == IF header = NoHeader THEN hunks ELSE Append(hunks, BuildHunk)

(* Seeded fault: the lines of the hunk before are not forgotten.           *)
HeaderKeepingLines ==
    /\ Read({"header"})
    /\ hunks' = HunksSoFar
    /\ header' = [old |-> Current.old, new |-> Current.new, lines |-> <<>>]
    /\ old_line' = Current.old
    /\ new_line' = Current.new
    /\ UNCHANGED lines

(* Seeded fault: only the first header sets the line counters.             *)
HeaderCountingOn ==
    /\ Read({"header"})
    /\ hunks' = HunksSoFar
    /\ header' = [old |-> Current.old, new |-> Current.new, lines |-> <<>>]
    /\ old_line' = (IF header = NoHeader THEN Current.old ELSE old_line)
    /\ new_line' = (IF header = NoHeader THEN Current.new ELSE new_line)
    /\ lines' = <<>>

Header ==
    /\ Read({"header"})
    /\ hunks' = HunksSoFar
    /\ header' = [old |-> Current.old, new |-> Current.new, lines |-> <<>>]
    /\ old_line' = Current.old
    /\ new_line' = Current.new
    /\ lines' = <<>>

(* Before the first header; "\ No newline at end of file".                 *)
Ignore ==
    /\ \/ Read(RawKinds \ {"header"}) /\ header = NoHeader
       \/ Read({"marker"}) /\ header # NoHeader
    /\ UNCHANGED <<header, lines, old_line, new_line, hunks>>

AddLine(old, new) ==
    /\ header # NoHeader
    /\ lines' = Append(lines, [kind |-> Current.kind, at |-> Current.at, old |-> old, new |-> new])
    /\ UNCHANGED <<header, hunks>>

Added ==
    /\ Read({"added"})
    /\ AddLine(NoNumber, new_line)
    /\ new_line' = new_line + 1
    /\ UNCHANGED old_line

(* Seeded fault: a removed line counts on the new side too.                *)
RemovedOnBothSides ==
    /\ Read({"removed"})
    /\ AddLine(old_line, NoNumber)
    /\ old_line' = old_line + 1
    /\ new_line' = new_line + 1

(* Seeded fault: a removed line counts backwards.                          *)
RemovedBackwards ==
    /\ Read({"removed"})
    /\ AddLine(old_line, NoNumber)
    /\ old_line' = old_line - 1
    /\ UNCHANGED new_line

Removed ==
    /\ Read({"removed"})
    /\ AddLine(old_line, NoNumber)
    /\ old_line' = old_line + 1
    /\ UNCHANGED new_line

Context ==
    /\ Read({"context"})
    /\ AddLine(old_line, new_line)
    /\ old_line' = old_line + 1
    /\ new_line' = new_line + 1

Next == Header \/ Ignore \/ Added \/ Removed \/ Context

Spec == Init /\ [][Next]_vars

(* What parse_hunks returns.                                               *)
Parsed == HunksSoFar

-----------------------------------------------------------------------------
(* The types of the variables.                                             *)
DiffLine ==
    [kind: Kinds, at: (Numbers \X Numbers) \union {NoLine},
     old: Nat \union {NoNumber}, new: Nat \union {NoNumber}]

TypeOK ==
    /\ patch \in PatchType
    /\ next \in 1..(Len(SplitLines(patch)) + 1)
    /\ header = NoHeader \/ header \in Hunk({<<>>})
    /\ \A i \in DOMAIN lines : lines[i] \in DiffLine
    /\ old_line \in Nat /\ new_line \in Nat
    /\ \A n \in DOMAIN hunks : hunks[n].lines \in Seq(DiffLine)

(* The number line j of hunk h has in the old or the new file: the header  *)
(* names the first, and each line the file has counts one.                 *)
OnOld == {"context", "removed"}
OnNew == {"context", "added"}
CountIn(s, kinds) == Cardinality({i \in DOMAIN s : s[i].kind \in kinds})
Place(h, j, side, start) ==
    IF h.lines[j].kind \in side THEN start + CountIn(SubSeq(h.lines, 1, j - 1), side) ELSE NoNumber

(* A patch without other separators is parsed as it was written: the same  *)
(* hunks, and in each the same lines at their places in both files,        *)
(* whatever additions, removals and markers come before (parse_hunks; what *)
(* a comment is anchored by).                                              *)
IsClean(p) ==
    \A n \in DOMAIN p.hunks :
        /\ p.hunks[n].strays = <<>>
        /\ \A j \in DOMAIN p.hunks[n].lines : p.hunks[n].lines[j].strays = <<>>

Written(h, n) ==
    [old |-> h.old, new |-> h.new,
     lines |-> FlattenSeq([j \in DOMAIN h.lines |->
        IF h.lines[j].kind = "marker" THEN <<>>
        ELSE <<[kind |-> h.lines[j].kind, at |-> <<n, j>>,
                old |-> Place(h, j, OnOld, h.old), new |-> Place(h, j, OnNew, h.new)]>>])]

ParsedAsWritten ==
    Ended /\ IsClean(patch) =>
        Parsed = [n \in DOMAIN patch.hunks |-> Written(patch.hunks[n], n)]

ParsedLines == FlattenSeq([m \in DOMAIN Parsed |-> Parsed[m].lines])

IsInPlace(line) ==
    LET h == patch.hunks[line.at[1]]
    IN  /\ line.old = Place(h, line.at[2], OnOld, h.old)
        /\ line.new = Place(h, line.at[2], OnNew, h.new)

(* hunk_parser.py:4, the parser is "tracking each line's old- and new-file *)
(* number so inline comments can be anchored precisely": each line of the  *)
(* patch has the numbers it has in the two files.                          *)
AnchoredPrecisely ==
    Ended => \A i \in DOMAIN ParsedLines : ParsedLines[i].at # NoLine => IsInPlace(ParsedLines[i])

(* A stray piece puts out of place only what follows it in its own hunk,   *)
(* whatever it is taken for, a header included: a line is in its place in  *)
(* both files when none comes before it in its hunk, however many there    *)
(* are in the hunks before (the counters that each header sets anew).      *)
StraysBefore(h, j) ==
    StrayRaws(h.strays) \o FlattenSeq([i \in 1..(j-1) |-> StrayRaws(h.lines[i].strays)])

StraysStayInHunk ==
    Ended =>
        \A i \in DOMAIN ParsedLines :
            LET line == ParsedLines[i]
            IN  line.at # NoLine /\ StraysBefore(patch.hunks[line.at[1]], line.at[2]) = <<>> =>
                    IsInPlace(line)

(* Whatever its pieces are taken for, each line of the patch is in the     *)
(* result exactly once, and as the kind of line it is.                     *)
EveryLineOnce ==
    Ended =>
        \A n \in DOMAIN patch.hunks : \A j \in DOMAIN patch.hunks[n].lines :
            LET kind == patch.hunks[n].lines[j].kind
                found == {i \in DOMAIN ParsedLines : ParsedLines[i].at = <<n, j>>}
            IN  /\ Cardinality(found) = (IF kind = "marker" THEN 0 ELSE 1)
                /\ \A i \in found : ParsedLines[i].kind = kind
=============================================================================
