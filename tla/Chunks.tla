------------------------------- MODULE Chunks -------------------------------
(***************************************************************************)
(* What the chunks of a channel hold, end to end.  It is FlattenSeq of     *)
(* SequencesExt, defined here because a module that extends SequencesExt   *)
(* puts that whole library into the context of every proof about it.       *)
(***************************************************************************)
EXTENDS Naturals, Sequences

Flatten(chunks) ==
  IF chunks = <<>> THEN <<>>
  ELSE LET upTo[i \in 1..Len(chunks)] ==
             IF i = 1 THEN chunks[i] ELSE upTo[i - 1] \o chunks[i]
       IN  upTo[Len(chunks)]

=============================================================================
