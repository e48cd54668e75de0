---------------------------- MODULE MCFlexBarrier ----------------------------
(***************************************************************************)
(* FlexBarrier as the constructor without a completion function makes it.  *)
(***************************************************************************)
EXTENDS FlexBarrier

\* The completion function of that constructor.
DefaultCompletion == {-1}
==============================================================================
