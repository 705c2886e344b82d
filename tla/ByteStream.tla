----------------------------- MODULE ByteStream -----------------------------
(***************************************************************************)
(* What one direction of a TCP connection promises: the bytes that come    *)
(* out are the bytes that went in, in order, each at most once and with no *)
(* gap.  The stream may end at any point.                                  *)
(***************************************************************************)
EXTENDS Naturals, Sequences

VARIABLES
  input,    \* every byte accepted from the sender so far
  output    \* every byte given to the receiver so far

\* One sequence is the beginning of another.
Begins(s, t) == Len(s) =< Len(t) /\ s = SubSeq(t, 1, Len(s))

\* The sender may have begun before the receiver exists.
Init == output = <<>>

\* A write is accepted.
Put ==
  /\ Begins(input, input') /\ input # input'
  /\ UNCHANGED output

\* Some of the bytes on the way arrive.
Get ==
  /\ Begins(output, output') /\ output # output'
  /\ Begins(output', input)
  /\ UNCHANGED input

Next == Put \/ Get

Spec == Init /\ [][Next]_<<input, output>>

=============================================================================
