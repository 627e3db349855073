-------------------------------- MODULE Loops --------------------------------
(***************************************************************************)
(* Loops of the code.                                                      *)
(***************************************************************************)
EXTENDS Integers

(* What becomes of x when Step is taken as long as Again holds; n rounds   *)
(* are enough, each loop says why.                                         *)
While(Again(_), Step(_), x, n) ==
  LET round[i \in 0..n] ==
        IF i = 0 THEN x
        ELSE LET y == round[i - 1] IN IF Again(y) THEN Step(y) ELSE y
  IN  round[n]
=============================================================================
