----------------------------- MODULE EventRings -----------------------------
(***************************************************************************)
(* What process_hook.h promises of its rings: queues of bounded size whose *)
(* readers get the events in the order in which they were captured, each   *)
(* once, except those that were pushed out because their queue was full,   *)
(* and those are counted.                                                  *)
(***************************************************************************)
EXTENDS Integers, Sequences

CONSTANTS Events, Names, Size

VARIABLES queue, lost

Init == queue = [n \in Names |-> <<>>] /\ lost = 0

Put(n, e) ==
  IF Len(queue[n]) < Size
    THEN queue' = [queue EXCEPT ![n] = Append(@, e)] /\ lost' = lost
    ELSE queue' = [queue EXCEPT ![n] = Append(Tail(@), e)] /\ lost' = lost + 1

Take(n) ==
  /\ queue[n] # <<>>
  /\ queue' = [queue EXCEPT ![n] = Tail(@)]
  /\ lost' = lost

(* ghost_process_hook_init and _shutdown leave the rings empty.            *)
Discard == queue' = [n \in Names |-> <<>>] /\ lost' = lost

Next ==
  \/ \E n \in Names, e \in Events : Put(n, e)
  \/ \E n \in Names : Take(n)
  \/ Discard

Spec == Init /\ [][Next]_<<queue, lost>>
=============================================================================
