----------------------------- MODULE StreamRelay -----------------------------
(***************************************************************************)
(* What the proxy promises about order, without sessions, messages or      *)
(* gates: in each direction and on each channel (a stream of HTTP/2, or    *)
(* what HTTP/1 sessions and tunnels carry) it takes items from one peer    *)
(* and gives them to the other as a FIFO.  It may hold items back and give *)
(* several at a time; it may not reorder, lose, repeat or invent any.      *)
(***************************************************************************)
EXTENDS Integers, SequencesExt

CONSTANTS Dirs, Channels, Items

VARIABLES
    taken,  \* taken[d][t]: what was taken in direction d on channel t
    given   \* given[d][t]: what was given to the far peer

vars == <<taken, given>>

Queues == [Dirs -> [Channels -> Seq(Items)]]

Init == /\ taken \in Queues
        /\ given = [d \in Dirs |-> [t \in Channels |-> <<>>]]

\* Whatever is taken comes behind what was taken before; whatever is given
\* continues what was given, in the order in which it was taken.
Relay ==
    /\ taken' \in Queues /\ given' \in Queues
    /\ \A d \in Dirs, t \in Channels :
         /\ IsPrefix(taken[d][t], taken'[d][t])
         /\ IsPrefix(given[d][t], given'[d][t])
         /\ IsPrefix(given'[d][t], taken'[d][t])

Spec == Init /\ [][Relay]_vars
=============================================================================
