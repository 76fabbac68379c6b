------------------------------ MODULE Findings ------------------------------
(***************************************************************************)
(* The pure part of the review pipeline: how analyzer output becomes       *)
(* findings, and how findings are deduplicated, verified and anchored      *)
(* (domain/services, application/verifier, the analyzers' _to_finding).    *)
(*                                                                         *)
(* A finding is about a path; `where' is its <<start, end>> line on the    *)
(* RIGHT side, the only side a producer uses.  No producer sets evidence   *)
(* or summary_only, so findings do not carry them.  Paths and snippets are *)
(* as reported, a text and its spelling: a leading "./", backslashes and   *)
(* blanks of a path, white space of a snippet.                             *)
(***************************************************************************)
EXTENDS Integers, Sequences, FiniteSets, SequencesExt

(* Severity.rank and _CONFIDENCE_RANK.                                     *)
Severities == 0..4
HIGH == 3
CRITICAL == 4
Confidences == 0..2
LowConfidence == 0
HighConfidence == 2

Kinds == {"llm_analyzer", "pip_audit", "semgrep"}
SourcePriority(kind) ==
    CASE kind = "semgrep" -> 2 [] kind = "pip_audit" -> 1 [] kind = "llm_analyzer" -> 0

(* Ranges that end before they start are cut to their first line.          *)
Clamp(where) == <<where[1], IF where[2] < where[1] THEN where[1] ELSE where[2]>>

Finding(id, fingerprint, severity, confidence, kind, raw) ==
    [id |-> id, fingerprint |-> fingerprint, severity |-> severity,
     confidence |-> confidence, kind |-> kind, path |-> raw.path, where |-> Clamp(raw.where),
     state |-> "candidate", inline |-> TRUE]

-----------------------------------------------------------------------------
Spelled(text, spelling) == [text |-> text, spelling |-> spelling]
Plain(text) == Spelled(text, "")

NormalizePath(path) == path.text
NormalizeSnippet(snippet) == snippet.text

(* compute_fingerprint: whose code it is and what is wrong, never a line   *)
(* and never how it is spelled.                                            *)
ComputeFingerprint(path, category, rule, symbol, snippet) ==
    <<NormalizePath(path), category, rule, symbol, NormalizeSnippet(snippet)>>

(* LLMAnalyzer._to_finding, for the role of one category; `symbol' is the  *)
(* definition around the line where the finding starts.                    *)
FromModel(id, category, raw, symbol) ==
    Finding(id, ComputeFingerprint(raw.path, category, raw.rule, symbol, raw.snippet),
            raw.severity, raw.confidence, "llm_analyzer", raw)

(* SemgrepScanner._to_finding: no symbol and no snippet, and a path that   *)
(* is rid of its "./".                                                     *)
RemovePrefix(path) == IF path.spelling = "./" THEN Plain(path.text) ELSE path

FromSemgrep(id, raw) ==
    LET match == [raw EXCEPT !.path = RemovePrefix(@)]
    IN  Finding(id, ComputeFingerprint(match.path, "security", match.rule, "", Plain("")),
                raw.severity, HighConfidence, "semgrep", match)

(* DependencyAuditScanner._to_finding: the package is the snippet.         *)
FromPipAudit(id, raw) ==
    Finding(id, ComputeFingerprint(raw.path, "dependency", raw.rule, "", raw.snippet),
            HIGH, HighConfidence, "pip_audit", raw)

-----------------------------------------------------------------------------
(* deduplicate.                                                            *)

(* _select_survivor's sort key, compared lexicographically.                *)
Before(f, g) ==
    \/ f.severity > g.severity
    \/ f.severity = g.severity /\ f.confidence > g.confidence
    \/ /\ f.severity = g.severity /\ f.confidence = g.confidence
       /\ \/ SourcePriority(f.kind) > SourcePriority(g.kind)
          \/ SourcePriority(f.kind) = SourcePriority(g.kind) /\ f.id < g.id

(* The places of the findings that share a fingerprint with the i-th.      *)
Peers(findings, i) == {j \in DOMAIN findings : findings[j].fingerprint = findings[i].fingerprint}

(* Seeded fault: the first finding reported survives.                      *)
SelectFirst(findings, group) == CHOOSE i \in group : \A j \in group : i <= j

SelectSurvivor(findings, group) ==
    CHOOSE i \in group : \A j \in group \ {i} : Before(findings[i], findings[j])

(* Seeded fault: raised past "high".                                       *)
RaiseUnbounded(confidence) == confidence + 1

RaiseConfidence(confidence) ==
    IF confidence < HighConfidence THEN confidence + 1 ELSE HighConfidence

(* A loser of another kind corroborates; the worst severity is kept.       *)
Enrich(survivor, losers) ==
    [survivor EXCEPT
        !.severity = Max({f.severity : f \in losers \union {survivor}}),
        !.confidence = IF \E f \in losers : f.kind # survivor.kind THEN RaiseConfidence(@) ELSE @]

MarkDuplicate(f) == [f EXCEPT !.state = "duplicate"]

(* The entries of s at the given places, in their order.                   *)
Picked(s, places) ==
    FlattenSeq([i \in DOMAIN s |-> IF i \in places THEN <<s[i]>> ELSE <<>>])

(* The survivor, then the others in their order.                           *)
Merge(findings, group) ==
    LET survivor == SelectSurvivor(findings, group)
        losers == group \ {survivor}
        duplicates == [i \in DOMAIN findings |-> MarkDuplicate(findings[i])]
    IN  IF Cardinality(group) = 1 THEN <<findings[survivor]>>
        ELSE <<Enrich(findings[survivor], {findings[i] : i \in losers})>> \o Picked(duplicates, losers)

(* The groups come in the order in which their fingerprints first appear.  *)
Deduplicate(findings) ==
    LET leads(i) == \A j \in Peers(findings, i) : i <= j
    IN  FlattenSeq([i \in DOMAIN findings |->
            IF leads(i) THEN Merge(findings, Peers(findings, i)) ELSE <<>>])

-----------------------------------------------------------------------------
(* Verification: only candidates are judged.                               *)
Judge(f, keep) == [f EXCEPT !.state = IF keep THEN "confirmed" ELSE "rejected"]

PolicyVerify(f) ==
    IF f.state = "candidate" THEN Judge(f, f.confidence # LowConfidence) ELSE f

(* Seeded fault: verdicts on duplicates are applied too.                   *)
ApplyToAny(f, index, verdicts) ==
    IF index \in DOMAIN verdicts THEN Judge(f, verdicts[index]) ELSE PolicyVerify(f)

(* _apply: the model's verdicts are a partial map from indices.            *)
ApplyVerdict(f, index, verdicts) ==
    IF f.state = "candidate" /\ index \in DOMAIN verdicts
    THEN Judge(f, verdicts[index])
    ELSE PolicyVerify(f)

-----------------------------------------------------------------------------
(* Anchoring and publication.                                              *)
(* A file's hunks are the RIGHT line numbers of each.                      *)
CommentableLines(hunks) == UNION hunks

(* Seeded fault: only the line that the comment is put on is looked up.    *)
CanAnchorByEnd(f, hunks) == f.where[2] \in CommentableLines(hunks)

CanAnchor(f, hunks) ==
    f.where[1] \in CommentableLines(hunks) /\ f.where[2] \in CommentableLines(hunks)

Anchor(f, hunks) == [f EXCEPT !.inline = CanAnchor(f, hunks)]

IsConfirmed(f) == f.state = "confirmed"

(* Seeded fault: high findings no longer request changes.                  *)
CriticalOnly(findings) ==
    IF \E i \in DOMAIN findings : findings[i].severity = CRITICAL
    THEN "REQUEST_CHANGES" ELSE "COMMENT"

ReviewEvent(findings) ==
    IF \E i \in DOMAIN findings : findings[i].severity \in {HIGH, CRITICAL}
    THEN "REQUEST_CHANGES" ELSE "COMMENT"
=============================================================================
