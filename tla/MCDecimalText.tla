------------------------------ MODULE MCDecimalText ------------------------------
(* TLC instance of DecimalText: floating-point numbers of ten bits' precision *)
(* between 2^-14 and 2^14, single ones of five; fixed-point numbers of six    *)
(* bits, in every format, and of twelve; two places where the code has ten;   *)
(* texts made of every sign, whole part, fraction and exponent below, and of  *)
(* every three characters.                                                    *)
EXTENDS DecimalText

Wholes == {<< >>, <<0>>, <<3>>, <<3, 1>>, <<3, 2>>, <<6, 4>>, <<9, 9, 9>>, <<9, 9, 9, 9, 9>>}
Fractions == {<< >>, <<Dot>>, <<Dot, 5>>, <<Dot, 9, 6, 9>>, <<Dot, 0, 4>>}
Exponents == {<<LetterE>> \o e :
                 e \in {<< >>, <<Minus>>, <<Plus, 1>>, <<Minus, 1>>, <<Minus, 0, 3>>, <<5>>, <<Minus, 5>>}}

MCTexts ==
    UNION {[1 .. n -> {0, 7, Dot, LetterE, Minus, Plus, Space, Other, 29}] : n \in 0 .. 3}
    \cup {sign \o whole \o fraction \o end :
            sign \in {<< >>, <<Space, Plus>>, <<Minus>>}, whole \in Wholes,
            fraction \in Fractions, end \in {<< >>, <<Other>>}}
    \cup {whole \o fraction \o e : whole \in {w \in Wholes : Len(w) < 3}, fraction \in Fractions, e \in Exponents}
    \cup {<<3, LetterE, 3, 2>>, <<0, LetterE, Minus, 9, 9>>, <<2, 2, LetterE>>}
    \cup {sign \o word : sign \in {<< >>, <<Plus>>, <<Space, Minus>>},
             word \in {WordNaN, WordInf, WordInf \o WordInity, <<18, 23>>,
                       WordInf \o <<18, 23, 18, Other>>}}
    \cup {<<Space>> \o word \o <<Space>> : word \in {<<29, 27, 30, 14>>, <<34, 14, 28>>, <<15>>}}
    \cup {<<29, 27, 30, 14, 15, 30, 21, 0>>, <<0, 0, 0, 0, 0, 0, 0, 0, 0, 0, 1, 2>>}

Positive ==
    {1, 700, One \div 2, One - 16, One, 3 * One + 64, 9 * One + One \div 2, 10 * One - 256,
     31 * One + One \div 2, 499 * One + One \div 2, 513 * One, 2048 * One, 4096 * One,
     Infinity - 2 ^ 18, Infinity}

MCDoubles == Positive \cup {-x : x \in Positive} \cup {0, NaN}
MCFracBits == 0 .. 4
MCDecimalCounts == {0, 1, 2, 4}
MCBufSizes == {3, 6, 12}
==================================================================================
