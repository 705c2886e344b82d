----------------------------- MODULE MCIpcRelay -----------------------------
(***************************************************************************)
(* Instances of IpcRelay for TLC.  The two calls are of different kinds,   *)
(* so that an answer that goes astray is seen.                             *)
(***************************************************************************)
EXTENDS IpcRelay

CONSTANTS c1, c2

MCCallKinds == [c \in Caller |-> IF c = c1 THEN {"AddRoute"} ELSE {"GetIfaceStats"}]

=============================================================================
