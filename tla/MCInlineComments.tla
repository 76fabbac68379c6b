-------------------------- MODULE MCInlineComments --------------------------
(* InlineComments for TLC: patches of at most two hunks, three lines, and  *)
(* one other separator in the first hunk's header or in each of its lines; *)
(* findings in the hunks, off them, and from one into the other.           *)
EXTENDS InlineComments, TLC

Line(kind, strays) == [kind |-> kind, strays |-> strays]

CleanLines == {Line(kind, <<>>) : kind \in Kinds \union {"marker"}}
StrayLines == {Line(kind, <<stray>>) : kind \in Kinds, stray \in RawKinds}

FirstHunks ==
    {[old |-> 1, new |-> 1, strays |-> <<>>, lines |-> ls] :
        ls \in SeqOf(CleanLines \union StrayLines, 2) \union TupleOf(CleanLines, 3)} \union
    {[old |-> 1, new |-> 1, strays |-> <<stray>>, lines |-> ls] :
        stray \in RawKinds, ls \in SeqOf(CleanLines, 2)}

SecondHunks ==
    {[old |-> 10, new |-> 12, strays |-> <<>>, lines |-> <<Line("removed", <<>>), Line("added", <<>>)>>],
     [old |-> 10, new |-> 12, strays |-> <<>>, lines |-> <<Line("context", <<>>)>>]}

MCPatches ==
    {[preamble |-> n, hunks |-> <<>>] : n \in 0..1} \union
    {[preamble |-> n, hunks |-> <<h>>] : n \in 0..1, h \in FirstHunks} \union
    {[preamble |-> 0, hunks |-> <<h, k>>] : h \in FirstHunks, k \in SecondHunks}

MCRanges == {<<1, 1>>, <<1, 2>>, <<2, 3>>, <<2, 12>>, <<3, 4>>, <<12, 12>>}
=============================================================================
