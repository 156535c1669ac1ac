---------------------------- MODULE MCDivergence ----------------------------
(* The refinement on a module that uses one of the constructs on which the  *)
(* engine departs from the standard.                                        *)
EXTENDS InterpreterRefinement, Divergences

MCValType == {"i32", "i64"}
MCArity == {<<>>, <<"i32">>}
=============================================================================
