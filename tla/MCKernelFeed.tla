---------------------------- MODULE MCKernelFeed ----------------------------
(* Instances of KernelFeed for TLC: two processes and a path of each kind  *)
(* that matters.  The assumptions of EventChecks are evaluated with it.    *)
EXTENDS KernelFeed, EventChecks, TLC

CONSTANTS t1, t2, t3, tmp, plain, hidden

TwoAndOne == t1 :> "A" @@ t2 :> "A" @@ t3 :> "B"
KindOf == tmp :> "tmp" @@ plain :> "plain" @@ hidden :> "shm"
RingSizes == [r \in Rings |-> 1]
ChannelSizes == [c \in Channels |-> 1]
=============================================================================
