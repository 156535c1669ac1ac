---------------------------- MODULE MCFrameStack ----------------------------
(* FrameStack on a small instance: two value types, one payload, one       *)
(* continuation; blocks and functions with no result or one i32; an        *)
(* activation with no locals or one i64.                                    *)
EXTENDS FrameStack

MCValType == {"i32", "i64"}
MCArity == {<<>>, <<"i32">>}
MCLocals == {<<>>, <<[type |-> "i64", val |-> 0]>>}
=============================================================================
