---------------------------- MODULE MCStackTask ----------------------------
(***************************************************************************)
(* StackTask for TLC; the configurations choose the instance.              *)
(***************************************************************************)
EXTENDS StackTask

=============================================================================
