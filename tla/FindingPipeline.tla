-------------------------- MODULE FindingPipeline --------------------------
(***************************************************************************)
(* From the changed files to the composed review: each node of             *)
(* graph/nodes.py between normalize_diff and idempotency_guard is an       *)
(* action, the loop over file contents one per file.  The analyzers of the *)
(* superstep answer in any order, and any of them may fail, time out or    *)
(* raise; the reducer that concatenates their outcomes is LangGraph's, and *)
(* the model leaves its order open.  The deadline of the whole run may end *)
(* it before any node.                                                     *)
(***************************************************************************)
EXTENDS Findings, LanguageAdapter

CONSTANTS
    PullRequests,   \* sequences of changed files
    Available,      \* the analyzers of the container, scanners switched on
    ModelReports,   \* what the model may return: sequences of raw findings
    SemgrepReports, \* what semgrep may match in the files it is given
    Audits,         \* what pip-audit may say of one manifest's dependencies
    VerifierEnabled \* settings.verifier_enabled: LLM verifier or policy

(* default_analyzers, the same for both adapters.                          *)
DefaultAnalyzers ==
    {"correctness", "security", "performance", "maintainability", "tests",
     "contracts", "semgrep", "pip-audit"}

ASSUME AvailableAssumption == Available \subseteq DefaultAnalyzers
ASSUME SwitchAssumption == VerifierEnabled \in BOOLEAN

(* ast gives nested definitions: apart, or the inner one deeper.           *)
WellNested(d, e) ==
    \/ d.last < e.first \/ e.last < d.first
    \/ d.first < e.first /\ e.last <= d.last /\ d.depth < e.depth
    \/ e.first < d.first /\ d.last <= e.last /\ e.depth < d.depth

ASSUME FilesAssumption ==
    \A files \in PullRequests : \A f \in ToSet(files) :
        /\ f.kind \in FileKinds
        /\ \A d \in f.definitions :
              d.first \in Int /\ d.last \in Int /\ d.depth \in Int /\ d.name # NoSymbol
        /\ \A d \in f.definitions : \A e \in f.definitions \ {d} : WellNested(d, e)

(* GitHub lists a changed file once, and spells its path one way.          *)
ASSUME PullRequestsAssumption ==
    \A files \in PullRequests :
        /\ files \in Seq(ToSet(files))
        /\ \A f, g \in ToSet(files) : f.path = g.path => f = g
        /\ \A f \in ToSet(files) : f.path = Plain(f.path.text)

(* What is reported is a list, its levels are those of the enums, and its  *)
(* lines are numbers.                                                      *)
ASSUME ReportsAssumption ==
    /\ \A raws \in ModelReports \union SemgrepReports :
           /\ raws \in Seq(ToSet(raws))
           /\ \A i \in DOMAIN raws : raws[i].severity \in Severities
    /\ \A raws \in ModelReports : \A i \in DOMAIN raws :
           raws[i].confidence \in Confidences /\ raws[i].where \in Int \X Int
    /\ \A vulns \in Audits : vulns \in Seq(ToSet(vulns))

VARIABLES
    stage,     \* the next node of the spine
    changed,   \* the changed files
    adapter,   \* the language adapter
    contents,  \* the files of file_contents, in their order
    toFetch,   \* changed files the loop over contents has yet to look at
    selected,  \* the analyzers to run
    outcomes,  \* the AnalyzerOutcomes so far, the reducer key of the state
    findings,  \* the findings of the state
    review     \* the composed draft

input == <<changed, adapter, contents, toFetch, selected>>
vars == <<stage, input, outcomes, findings, review>>

NoReview == [inline |-> {}, summary |-> {}, notes |-> {}, event |-> "none"]

Reported == {outcomes[k].source : k \in DOMAIN outcomes}
Raw == FlattenSeq([k \in DOMAIN outcomes |-> outcomes[k].findings])

(* Ids are random UUIDs, unique in a run; only their order is looked at,   *)
(* and a new one may sort after or before those of other outcomes.         *)
FreshId(i) == Len(Raw) + i
SortedFirst(outcome) ==
    LET found == outcome.findings
    IN  [outcome EXCEPT !.findings =
            [i \in DOMAIN found |-> [found[i] EXCEPT !.id = -@]]]

Init ==
    /\ stage = "detect_language"
    /\ changed \in PullRequests
    /\ adapter = "none"
    /\ contents = <<>>
    /\ toFetch = changed
    /\ selected = {}
    /\ outcomes = <<>>
    /\ findings = <<>>
    /\ review = NoReview

-----------------------------------------------------------------------------
(* Before the analyzers.                                                   *)
DetectLanguage ==
    /\ stage = "detect_language"
    /\ adapter' = Select(changed)
    /\ stage' = "gather_file_contents"
    /\ UNCHANGED <<changed, contents, toFetch, selected, outcomes, findings, review>>

NextFile ==
    /\ stage = "gather_file_contents"
    /\ toFetch # <<>>
    /\ toFetch' = Tail(toFetch)
    /\ UNCHANGED <<changed, adapter, selected, outcomes, findings, review>>

OutOfScope == NextFile /\ ~InScope(adapter, Head(toFetch)) /\ UNCHANGED <<stage, contents>>

(* fetch_file_content returns the text, or None: no such file, too large,  *)
(* binary, not UTF-8; or raises on any other answer, and the run with it.  *)
FetchContent ==
    /\ NextFile
    /\ InScope(adapter, Head(toFetch))
    /\ contents' = Append(contents, Head(toFetch))
    /\ UNCHANGED stage

FetchNothing == NextFile /\ InScope(adapter, Head(toFetch)) /\ UNCHANGED <<stage, contents>>

FetchRaises ==
    /\ NextFile
    /\ InScope(adapter, Head(toFetch))
    /\ stage' = "raised"
    /\ UNCHANGED contents

GatherFileContents == OutOfScope \/ FetchContent \/ FetchNothing \/ FetchRaises

SelectAnalyzers ==
    /\ stage = "gather_file_contents"
    /\ toFetch = <<>>
    /\ selected' = DefaultAnalyzers \intersect Available
    /\ stage' = "analyze"
    /\ UNCHANGED <<changed, adapter, contents, toFetch, outcomes, findings, review>>

-----------------------------------------------------------------------------
(* The outcomes an analyzer may produce.                                   *)
Outcome(source, status, found, diagnostics) ==
    [source |-> source, status |-> status, findings |-> found, diagnostics |-> diagnostics]

Degraded(source, status) == Outcome(source, status, <<>>, {status})

Completed(source, found) ==
    Outcome(source, IF found = <<>> THEN "zero_findings" ELSE "ok", found, {})

(* The contents are looked up by the path as the model spells it.          *)
Symbol(raw) ==
    LET files == {f \in ToSet(contents) : f.path = raw.path}
    IN  IF files = {} THEN NoSymbol
        ELSE EnclosingSymbol(adapter, CHOOSE f \in files : TRUE, raw.where[1])

ModelOutcomes(role) ==
    {Degraded(role, "error")} \union
    {Completed(role, [i \in DOMAIN raws |-> FromModel(FreshId(i), role, raws[i], Symbol(raws[i]))]) :
        raws \in ModelReports}

(* Semgrep is run on the contents, if there are any.                       *)
Scannable(raws) ==
    \A i \in DOMAIN raws : \E f \in ToSet(contents) : f.path = RemovePrefix(raws[i].path)

SemgrepOutcomes ==
    IF contents = <<>> THEN {Completed("semgrep", <<>>)}
    ELSE {Degraded("semgrep", "error"), Degraded("semgrep", "timeout")} \union
         {Completed("semgrep", [i \in DOMAIN raws |-> FromSemgrep(FreshId(i), raws[i])]) :
             raws \in {raws \in SemgrepReports : Scannable(raws)}}

(* One pip-audit run per manifest, `results' by its place; a failed one    *)
(* leaves a diagnostic and the loop goes on (_consume).  The status looks  *)
(* at findings first.                                                      *)
PipAuditOutcome(results) ==
    LET vulns(i) == IF i \in DOMAIN results THEN results[i].vulns ELSE <<>>
        raws == FlattenSeq([i \in DOMAIN contents |-> vulns(i)])
        found == [i \in DOMAIN raws |-> FromPipAudit(FreshId(i), raws[i])]
        failures == {m \in DOMAIN results : results[m].status # "ok"}
        status == IF found # <<>> THEN "ok"
                  ELSE IF failures = {} THEN "zero_findings"
                  ELSE results[CHOOSE m \in failures : \A n \in failures : m <= n].status
    IN  Outcome("pip-audit", status, found, {results[m].status : m \in failures})

AuditOf(file, vulns) ==
    [i \in DOMAIN vulns |->
        [path |-> file.path, rule |-> vulns[i].rule, snippet |-> Plain(vulns[i].package),
         where |-> vulns[i].where]]

AuditResults(file) ==
    {[status |-> "ok", vulns |-> AuditOf(file, vulns)] : vulns \in Audits} \union
    [status: {"error", "timeout"}, vulns: {<<>>}]

PipAuditOutcomes ==
    LET manifests == {i \in DOMAIN contents : contents[i].kind = "requirements"}
        results == {r \in [manifests -> UNION {AuditResults(contents[i]) : i \in manifests}] :
                       \A i \in manifests : r[i] \in AuditResults(contents[i])}
    IN  {PipAuditOutcome(r) : r \in results}

OutcomesOf(source) ==
    CASE source = "semgrep" -> SemgrepOutcomes
      [] source = "pip-audit" -> PipAuditOutcomes
      [] OTHER -> ModelOutcomes(source)

Report(outcome) ==
    /\ stage = "analyze"
    /\ outcomes' = Append(outcomes, outcome)
    /\ UNCHANGED <<stage, input, findings, review>>

AnalyzerReturns(source) ==
    /\ source \in selected \ Reported
    /\ \E outcome \in OutcomesOf(source) : Report(outcome) \/ Report(SortedFirst(outcome))

(* Seeded fault: the exception ends the graph.                             *)
AnalyzerEscapes(source) ==
    /\ source \in selected \ Reported
    /\ stage = "analyze"
    /\ stage' = "raised"
    /\ UNCHANGED <<input, outcomes, findings, review>>

(* resilient_analyzer_node turns an exception into an ERROR outcome.       *)
AnalyzerRaises(source) ==
    /\ source \in selected \ Reported
    /\ Report(Degraded(source, "error"))

-----------------------------------------------------------------------------
(* The spine.                                                              *)
(* (`reported' names the value of Raw, once.)                              *)
CollectFindings ==
    /\ stage = "analyze"
    /\ Reported = selected
    /\ \E reported \in {Raw} : findings' = Deduplicate(reported)
    /\ stage' = "verify_findings"
    /\ UNCHANGED <<input, outcomes, review>>

Candidates == {i \in DOMAIN findings : findings[i].state = "candidate"}

(* PolicyVerifier, and what LLMFindingVerifier falls back to.              *)
VerifyByPolicy ==
    /\ stage = "verify_findings"
    /\ findings' = [i \in DOMAIN findings |-> PolicyVerify(findings[i])]
    /\ stage' = "compose_review"
    /\ UNCHANGED <<input, outcomes, review>>

(* The model may judge any indices, those of duplicates included.          *)
VerifyByModel(verdicts) ==
    /\ VerifierEnabled
    /\ stage = "verify_findings"
    /\ Candidates # {}
    /\ findings' = [i \in DOMAIN findings |-> ApplyVerdict(findings[i], i, verdicts)]
    /\ stage' = "compose_review"
    /\ UNCHANGED <<input, outcomes, review>>

Verdicts == UNION {[judged -> BOOLEAN] : judged \in SUBSET DOMAIN findings}

Diagnostics(outcome) == {<<outcome.source, d>> : d \in outcome.diagnostics}

(* Seeded fault: a timeout does not count as degraded.                     *)
IsFailed(outcome) == outcome.status \in {"error", "skipped"}

IsDegraded(outcome) == outcome.status \in {"error", "timeout", "skipped"}

HunksOf(path) == UNION {f.hunks : f \in {f \in ToSet(changed) : f.path = path}}

(* What is left is anchored in the diff, or goes into the summary.         *)
ComposeReview ==
    LET kept == {i \in DOMAIN findings : IsConfirmed(findings[i])}
        confirmed == [i \in kept |-> Anchor(findings[i], HunksOf(findings[i].path))]
    IN  /\ stage = "compose_review"
        /\ review' =
             [inline |-> {confirmed[i].id : i \in {k \in kept : confirmed[k].inline}},
              summary |-> {confirmed[i].id : i \in {k \in kept : ~confirmed[k].inline}},
              notes |-> UNION {Diagnostics(outcomes[k]) :
                                 k \in {k \in DOMAIN outcomes : IsDegraded(outcomes[k])}},
              event |-> ReviewEvent(confirmed)]
        /\ stage' = "composed"
        /\ UNCHANGED <<input, outcomes, findings>>

(* The run's deadline cancels the graph wherever it awaits, and drops its  *)
(* state: the result is FAILED, without a draft, and counts no findings.   *)
Timeout ==
    /\ stage \notin {"composed", "raised", "failed"}
    /\ stage' = "failed"
    /\ outcomes' = <<>>
    /\ findings' = <<>>
    /\ UNCHANGED <<input, review>>

(* What the graph does next.                                               *)
Advance ==
    \/ DetectLanguage \/ GatherFileContents \/ SelectAnalyzers
    \/ \E source \in selected : AnalyzerReturns(source) \/ AnalyzerRaises(source)
    \/ CollectFindings
    \/ VerifyByPolicy
    \/ stage = "verify_findings" /\ \E verdicts \in Verdicts : VerifyByModel(verdicts)
    \/ ComposeReview

Next == Advance \/ Timeout

Spec == Init /\ [][Next]_vars

(* Analyzers return or raise (every call they make has a timeout), and the *)
(* graph runs its nodes; the deadline need not come.                       *)
FairSpec == Spec /\ WF_vars(Advance)

-----------------------------------------------------------------------------
(* The types of the variables.                                             *)
FindingType(f) ==
    /\ f.id \in Int /\ f.severity \in Severities /\ f.confidence \in Confidences
    /\ f.kind \in Kinds /\ f.inline \in BOOLEAN
    /\ f.state \in {"candidate", "confirmed", "rejected", "duplicate"}

TypeOK ==
    /\ stage \in {"detect_language", "gather_file_contents", "analyze", "verify_findings",
                 "compose_review", "composed", "raised", "failed"}
    /\ adapter \in {"none", "python", "generic"}
    /\ ToSet(contents) \union ToSet(toFetch) \subseteq ToSet(changed)
    /\ selected \subseteq Available
    /\ Reported \subseteq selected
    /\ \A f \in ToSet(Raw) \union ToSet(findings) : FindingType(f)
    /\ review.event \in {"none", "COMMENT", "REQUEST_CHANGES"}

(* deduplicate, defined on the set of findings it is given: in each group  *)
(* of equal fingerprints the best finding survives, more confident when a  *)
(* finding of another kind corroborates it, and the others are marked.     *)
Score(f) == ((f.severity * 3 + f.confidence) * 3 + SourcePriority(f.kind)) * (2 * Len(Raw) + 1) - f.id
Rivals(f) == {g \in ToSet(Raw) : g.fingerprint = f.fingerprint}
Reference(f) ==
    IF \E g \in Rivals(f) : Score(g) > Score(f)
    THEN [f EXCEPT !.state = "duplicate"]
    ELSE [f EXCEPT !.confidence =
            IF (\E g \in Rivals(f) : g.kind # f.kind) /\ @ < HighConfidence THEN @ + 1 ELSE @]

(* The outcome of deduplication does not depend on the order in which the  *)
(* analyzers answered: it is the one defined on the set of findings, with  *)
(* no finding lost or repeated.                                            *)
DedupIgnoresOrder ==
    stage = "verify_findings" =>
        /\ Len(findings) = Len(Raw)
        /\ ToSet(findings) = {Reference(f) : f \in ToSet(Raw)}

Published == review.inline \union review.summary
PublishedFindings == {f \in ToSet(findings) : f.id \in Published}

(* From analyzer to review no finding goes missing or is shown twice: what *)
(* was reported is inline, in the summary, rejected, or a duplicate of a   *)
(* finding that is not; and an issue is published at most once, whatever   *)
(* verdicts the model returns, on duplicates too.                          *)
EveryFindingAccounted ==
    stage = "composed" =>
        /\ {f.id : f \in ToSet(findings)} = {f.id : f \in ToSet(Raw)}
        /\ review.inline \intersect review.summary = {}
        /\ \A f \in ToSet(findings) :
               \/ f.id \in Published /\ f.state = "confirmed"
               \/ f.id \notin Published /\ f.state = "rejected"
               \/ /\ f.id \notin Published /\ f.state = "duplicate"
                  /\ \E g \in ToSet(findings) :
                        g.fingerprint = f.fingerprint /\ g.state \in {"confirmed", "rejected"}
        /\ \A f, g \in PublishedFindings : f.fingerprint = g.fingerprint => f = g

(* The event of the review follows from what was reported, although        *)
(* duplicates and rejections come in between: REQUEST_CHANGES exactly when *)
(* some report of a published issue was high or critical.                  *)
EventFollowsReports ==
    stage = "composed" =>
        (review.event = "REQUEST_CHANGES" <=>
            \E f \in ToSet(Raw) :
                /\ f.severity >= HIGH
                /\ \E g \in PublishedFindings : g.fingerprint = f.fingerprint)

(* A degraded analyzer is visible to the reader, and silence means that    *)
(* every selected analyzer completed; what failed in an analyzer is hidden *)
(* only by findings of that analyzer (one manifest's failed audit by the   *)
(* findings in another's).                                                 *)
DegradedIsNoted ==
    stage = "composed" =>
        /\ Reported = selected /\ Len(outcomes) = Cardinality(selected)
        /\ \A k \in DOMAIN outcomes :
               outcomes[k].status \notin {"ok", "zero_findings"} =>
                   \E d \in {"error", "timeout"} : <<outcomes[k].source, d>> \in review.notes
        /\ \A k \in DOMAIN outcomes :
               outcomes[k].findings = <<>> => Diagnostics(outcomes[k]) \subseteq review.notes

(* However the analyzers fail, a run that comes to its analyzers ends with *)
(* a composed review, unless its deadline ends it: no failure of an        *)
(* analyzer, alone or beside others, raises out of the graph or leaves it  *)
(* waiting.                                                                *)
ComposedUnlessTimeout == stage = "analyze" ~> stage \in {"composed", "failed"}

(* Two reports of a model are taken for one issue only in one definition:  *)
(* a finding dropped as a duplicate of another starts in the innermost     *)
(* definition of the same name (enclosing_symbol, "the last node that      *)
(* still contains the line is therefore the innermost"), when the adapter  *)
(* could read the file.  Its loss would leave the other issue unreported.  *)
(* Paths count as they are spelled, though fingerprints do not: a report   *)
(* on "./app.py" is taken for one outside of every definition of app.py,   *)
(* wherever it starts, and is merged with such ones only.                  *)
Innermost(f, line) ==
    LET around == {d \in f.definitions : Encloses(d, line)}
    IN  {d.name : d \in {d \in around : \A e \in around : e.first <= d.first}}

Scope(f, finding) == IF finding.path = f.path THEN Innermost(f, finding.where[1]) ELSE {}

SamePath(f, finding) == NormalizePath(f.path) = NormalizePath(finding.path)

DuplicatesShareDefinition ==
    stage = "composed" =>
        \A dup \in {f \in ToSet(findings) : f.state = "duplicate" /\ f.kind = "llm_analyzer"} :
            \E kept \in ToSet(findings) :
                /\ kept.state # "duplicate" /\ kept.fingerprint = dup.fingerprint
                /\ \A f \in ToSet(contents) :
                       f.kind = "python" /\ SamePath(f, dup) /\ kept.kind = dup.kind =>
                           Scope(f, kept) = Scope(f, dup)

=============================================================================
