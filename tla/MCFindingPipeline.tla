------------------------- MODULE MCFindingPipeline -------------------------
(* FindingPipeline for TLC: a Python module with two methods in a class,   *)
(* a manifest and files out of scope, and a pull request without Python;   *)
(* small sets of raw findings, chosen so that equal fingerprints, every    *)
(* confidence, both sides of the REQUEST_CHANGES threshold, and lines and  *)
(* paths off the diff occur, and a path and a snippet in two spellings.    *)
EXTENDS FindingPipeline

File(path, kind, definitions) ==
    [path |-> Plain(path), kind |-> kind, patched |-> TRUE, skipped |-> FALSE,
     hunks |-> {1..3, 7..9}, definitions |-> definitions]

Def(name, first, last, depth) == [name |-> name, first |-> first, last |-> last, depth |-> depth]

App == File("app.py", "python", {Def("Job", 2, 9, 1), Def("start", 3, 4, 2), Def("stop", 6, 8, 2)})
Vendored == [File("vendor/lib.py", "python", {}) EXCEPT !.skipped = TRUE]
Requirements == File("requirements.txt", "requirements", {})
DevRequirements == File("requirements-dev.txt", "requirements", {})
Logo == [File("logo.png", "other", {}) EXCEPT !.patched = FALSE, !.hunks = {}]
Main == File("main.go", "other", {})

MCPullRequests ==
    {<<App, Vendored, Main, Requirements>>, <<Requirements, DevRequirements, Main, Logo>>}
MCAvailable == {"security", "semgrep", "pip-audit"}

Raws(paths, snippets, severities, confidences, wheres) ==
    [path: paths, rule: {"eval"}, snippet: snippets, severity: severities,
     confidence: confidences, where: wheres]

UpTo(n, S) == UNION {[1..k -> S] : k \in 0..n}

AppPy == Plain("app.py")
DotAppPy == Spelled("app.py", "./")
NoText == Plain("")
Line == Plain("x = 1")
SpacedLine == Spelled("x = 1", "blanks")

About(path, snippet, line) ==
    [path |-> path, rule |-> "eval", snippet |-> snippet, severity |-> 2, confidence |-> 1,
     where |-> <<line, line>>]

MCModelReports ==
    UpTo(1, Raws({AppPy}, {NoText}, {2, 3}, 0..2, {<<1, 2>>})) \union
    UpTo(2, Raws({AppPy}, {NoText}, {2, 3}, {0}, {<<1, 2>>})) \union
    UpTo(1, Raws({AppPy}, {NoText}, {2}, {1}, {<<5, 1>>})) \union
    {<<About(AppPy, Line, 3), About(AppPy, Line, 7)>>,
     <<About(AppPy, Line, 3), About(AppPy, SpacedLine, 4)>>,
     <<About(DotAppPy, Line, 3), About(AppPy, Line, 7)>>,
     <<About(DotAppPy, Line, 7), About(DotAppPy, SpacedLine, 3)>>,
     <<About(AppPy, Line, 1), About(DotAppPy, Line, 3)>>}

(* A rule has one severity.                                                *)
Matches(paths, severity) == [path: paths, rule: {"eval"}, severity: {severity}, where: {<<1, 1>>}]
MCSemgrepReports ==
    UpTo(1, Matches({DotAppPy}, 1)) \union UpTo(2, Matches({AppPy}, 3))
MCAudits == UpTo(1, [rule: {"cve"}, package: {"pkg"}, where: {<<8, 8>>}])
=============================================================================
