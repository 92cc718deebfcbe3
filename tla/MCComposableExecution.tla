----------------------- MODULE MCComposableExecution -----------------------
EXTENDS ComposableExecution
CONSTANTS a1, a2, g1, s1

Raw(w)        == [type |-> "TARGET", fetch |-> "RAW_BYTES", data |-> <<w>>, constraints |-> <<>>]
Arg(f, d, cs) == [type |-> "CALL_DATA", fetch |-> f, data |-> d, constraints |-> cs]
LTE(w)        == [type |-> "LTE", ref |-> w]
Out(f, n)     == [fetch |-> f, source |-> g1, slot |-> s1, count |-> n]

\* A call whose result is captured; a call to whatever g1 answers with a captured
\* argument, and the answer of g1 captured over it. The first bounds a balance.
Call    == [inputs |-> <<Raw(1), Arg("BALANCE", g1, <<LTE(1)>>)>>,
            outputs |-> <<Out("EXEC_RESULT", MaxWords)>>]
UseIt   == [inputs |-> <<[Raw(1) EXCEPT !.fetch = "STATIC_CALL", !.data = g1],
                         Arg("STATIC_CALL", <<s1, 1>>, <<>>)>>,
            outputs |-> <<Out("STATIC_CALL", 1)>>]

CaptureBatches == {<<Call, UseIt>>, <<UseIt>>}
NestedReturns == {<<1>>, <<0>>}
ShortReturns  == {<<0, 1>>, <<2>>}
=============================================================================
