-------------------------------- MODULE Sieve --------------------------------
(***************************************************************************)
(* What is left of a sequence when only the elements of a set are kept.    *)
(***************************************************************************)
EXTENDS SequencesExt

Only(q, S) == FlattenSeq([i \in DOMAIN q |-> IF q[i] \in S THEN <<q[i]>> ELSE <<>>])
==============================================================================
