---------------------------- MODULE DatagramQueue ----------------------------
(***************************************************************************)
(* What one direction of a UDP socket promises.  Datagrams are numbered in *)
(* the order they are put in.  Each comes out at most once, in order; any  *)
(* of them may be lost.                                                    *)
(***************************************************************************)
EXTENDS Naturals, Sequences

VARIABLES
  put,    \* how many datagrams went in
  got     \* the numbers of those that came out, in order

Init == put = 0 /\ got = <<>>

Put ==
  /\ put' = put + 1
  /\ UNCHANGED got

\* One that came in later than everything that came out.
Get ==
  /\ \E d \in 1..put :
       /\ \A i \in 1..Len(got) : got[i] < d
       /\ got' = Append(got, d)
  /\ UNCHANGED put

Next == Put \/ Get

Spec == Init /\ [][Next]_<<put, got>>

=============================================================================
