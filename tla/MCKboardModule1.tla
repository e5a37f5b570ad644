--------------------------- MODULE MCKboardModule1 ---------------------------
(* KboardModule1 for TLC: two items that can be told apart, and one input  *)
(* for each check of KboardWriter_Write.                                   *)
EXTENDS KboardModule1

Input(text) == [length |-> 4, readable |-> TRUE, text |-> text, ended |-> TRUE]

(* Lines as echo writes them, an empty write, and every reason to refuse   *)
(* one.                                                                    *)
MCInputs == {Input(<<1>>), Input(<<-1>>),
             [Input(<< >>) EXCEPT !.length = 0, !.ended = FALSE],
             [Input(<<1>>) EXCEPT !.length = WRITER_BUFFER_SIZE + 1],
             [Input(<<1>>) EXCEPT !.readable = FALSE]}

MCOneItem == {Input(<<1>>)}

MCUnendedItems == {[Input(<<1>>) EXCEPT !.ended = FALSE]}
=============================================================================
