-------------------------------- MODULE Loops --------------------------------
(***************************************************************************)
(* For loops of the Python programs as operators.  Loop(op, base, seq) is  *)
(* the value of SequencesExt's FoldLeft(op, base, seq); the set maps make  *)
(* TLC compute the state after each iteration once, and not each time the  *)
(* body of the loop mentions it.                                           *)
(***************************************************************************)
EXTENDS Integers, Sequences

\* op applied to values that are computed before
Let(op(_), value) == CHOOSE y \in {op(x) : x \in {value}} : TRUE

\* for x in seq: s = op(s, x)
Loop(op(_, _), base, seq) ==
    LET after[i \in 0 .. Len(seq)] ==
            IF i = 0 THEN base
            ELSE CHOOSE y \in {op(s, seq[i]) : s \in {after[i - 1]}} : TRUE
    IN  after[Len(seq)]
=============================================================================
