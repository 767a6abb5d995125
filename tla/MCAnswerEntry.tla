---------------------------- MODULE MCAnswerEntry ----------------------------
(* Papers of two questions, every type once beside another; keys and pastes *)
(* that reach the limits of the numeric controls; authored answers that     *)
(* round to even, and zero.                                                 *)
EXTENDS AnswerEntry

Decimal(neg, int, frac) == [neg |-> neg, int |-> int, dot |-> frac # <<>>, frac |-> frac]

Choice(type) == [type |-> type, options |-> 3]
Match2 == [type |-> "MAT-COL", rows |-> 2, picks |-> 2]
Whole(min, max, n) ==
    [type |-> "NUM-INT", min |-> min, max |-> max, answer |-> Decimal(n < 0, <<IF n < 0 THEN -n ELSE n>>, <<>>)]
Real(p, answer) == [type |-> "NUM-DEC", precision |-> p, answer |-> answer]

MCTests == {
    <<Choice("MCQ-SC"), Whole(-9, 49, 5)>>,
    <<Match2, Choice("MCQ-MC")>>,
    <<Real(1, Decimal(FALSE, <<0>>, <<4, 5>>)), Real(1, Decimal(TRUE, <<>>, <<0, 5>>))>>,
    <<Real(0, Decimal(FALSE, <<4>>, <<5>>))>> }

MCPastes == { <<Minus, 4, Point, 4, 5>>, <<Letter, 5, Minus, 4, Point, 0, Point, 5>>, <<Minus, Point>> }
==============================================================================
