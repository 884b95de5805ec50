------------------------------- MODULE MCKeyValue -------------------------------
(* TLC instance of KeyValue: every text of up to four characters out of a    *)
(* letter, a space, a line end, a comma, '=', a quote, '$' and NUL, and      *)
(* lists of up to two items with values that need quotes.                  *)
EXTENDS KeyValue

CONSTANTS a, b, sp, nl, comma, eq, quote, dollar

MCChar == {NUL, a, b, sp, nl, comma, eq, quote, dollar}
MCSpaces == {sp, nl}
MCQuotes == {quote}
MCLineEnds == {nl}
MCMarkers == {dollar}
MCDelimiters == {comma, nl, sp}
MCKvDelimiters == {eq}
MCTexts == UNION {[1 .. n -> MCChar \ {b}] : n \in 0 .. 4}

MCItem ==
    [key : {<<a>>, <<b>>, <<a, b>>}, val : {<<a>>, <<b, a>>}, quote : {<< >>}] \cup
    [key : {<<a>>, <<b>>}, val : {<< >>, <<comma>>, <<nl, eq>>, <<sp>>}, quote : {<<quote>>}]

MCItems == UNION {[1 .. n -> MCItem] : n \in 0 .. 2}
MCMaxPairs == {1, 3}
=============================================================================
