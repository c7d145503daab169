---------------------------- MODULE ProcessHook ----------------------------
(***************************************************************************)
(* windows-agent/src/process_hook.c: the poll thread moves the events of   *)
(* two kernel maps into two rings in memory and hands each to a callback;  *)
(* other threads may read the rings; ghost_process_hook_init and           *)
(* ghost_process_hook_shutdown make and free all this.  What               *)
(* classify_event writes into an event is in module HostRules.             *)
(***************************************************************************)
EXTENDS HookRing, FiniteSets

CONSTANTS
  MaxEvents,    \* bound: events the kernel puts into a map
  MaxInits,     \* bound: calls of ghost_process_hook_init
  MaxTimeouts   \* bound: waits for the poll thread that end after 3000 ms

Names == {"critical", "standard"}   \* the two maps, and the ring of each

ASSUME HookAssumption ==
  MaxEvents \in Nat /\ MaxInits \in Nat /\ MaxTimeouts \in Nat

VARIABLES
  ring,       \* g_hook.critical_ring and standard_ring
  freed,      \* ring_destroy was called and ring_init was not since
  map,        \* the events in the kernel's maps
  running,    \* g_hook.running
  poll,       \* where poll_thread_func is; "off" if there is no thread
  owner,      \* where the thread is that initialises and shuts down
  links,      \* programs attached to kernel tracepoints
  captured, critical, dropped,   \* g_hook.events_...
  emitted, inits, timeouts,      \* what the bounds count
  read,       \* history: events returned by ghost_process_hook_read_...
  discarded,  \* history: events in a ring that was destroyed
  stray       \* history: ring_write on a destroyed ring

counters == <<captured, critical, dropped>>
vars == <<ring, freed, map, running, poll, owner, links, counters, emitted,
          inits, timeouts, read, discarded, stray>>

(* poll_thread_func: the test of running, the two inner loops, and for an  *)
(* event of each map the call of the callback and the counters.            *)
PollStates == {"off", "check", "drain critical", "drain standard",
               "dispatch critical", "dispatch standard"}
Drain(n) == IF n = "critical" THEN "drain critical" ELSE "drain standard"
Dispatch(n) == IF n = "critical" THEN "dispatch critical" ELSE "dispatch standard"

-----------------------------------------------------------------------------
Init ==
  /\ ring = [n \in Names |-> RingInit]
  /\ freed = TRUE
  /\ map = [n \in Names |-> <<>>]
  /\ running = FALSE /\ poll = "off" /\ owner = "down" /\ links = 0
  /\ captured = 0 /\ critical = 0 /\ dropped = 0
  /\ emitted = 0 /\ inits = 0 /\ timeouts = 0
  /\ read = 0 /\ discarded = 0 /\ stray = FALSE

(* ghost_process_hook_init.  Of the failures the last, of CreateThread,    *)
(* comes after the programs were attached and running was set; nothing     *)
(* keeps the links, so nothing destroys them.                              *)
MayInit == owner = "down" /\ poll = "off" /\ inits < MaxInits

HookInit ==
  /\ MayInit
  /\ ring' = [n \in Names |-> RingInit] /\ freed' = FALSE
  /\ map' = [n \in Names |-> <<>>]
  /\ links' = links + 2
  /\ running' = TRUE /\ poll' = "check" /\ owner' = "up"
  /\ inits' = inits + 1
  /\ UNCHANGED <<counters, emitted, timeouts, read, discarded, stray>>

HookInitFails ==
  /\ MayInit
  /\ \E attached \in 0..2 :
       /\ links' = links + attached
       /\ running' \in IF attached = 2 THEN {TRUE} ELSE {running}
  /\ ring' = [n \in Names |-> RingInit]
  /\ inits' = inits + 1
  /\ UNCHANGED <<freed, map, poll, owner, counters, emitted, timeouts, read,
                 discarded, stray>>

(* ghost_on_process_create and _exit, in the kernel.                       *)
Emit(n, e) ==
  /\ owner # "down" /\ emitted < MaxEvents
  /\ map' = [map EXCEPT ![n] = Append(@, e)]
  /\ emitted' = emitted + 1
  /\ UNCHANGED <<ring, freed, running, poll, owner, links, counters, inits,
                 timeouts, read, discarded, stray>>

(* while (g_hook.running)                                                  *)
PollChecks ==
  /\ poll = "check"
  /\ poll' = IF running THEN "drain critical" ELSE "off"
  /\ UNCHANGED <<ring, freed, map, running, owner, links, counters, emitted,
                 inits, timeouts, read, discarded, stray>>

(* bpf_map_lookup_and_delete_elem, classify_event, ring_write.             *)
PollTakes(n) ==
  /\ poll = Drain(n) /\ map[n] # <<>>
  /\ map' = [map EXCEPT ![n] = Tail(@)]
  /\ IF freed
       THEN stray' = TRUE /\ UNCHANGED <<ring, dropped>>
       ELSE /\ ring' = [ring EXCEPT ![n] = RingWrite(@, Head(map[n]))]
            /\ dropped' = dropped + (IF IsFull(ring[n]) THEN 1 ELSE 0)
            /\ UNCHANGED stray
  /\ poll' = Dispatch(n)
  /\ UNCHANGED <<freed, running, owner, links, captured, critical, emitted,
                 inits, timeouts, read, discarded>>

(* dispatch_event, the counters, and back to the head of the inner loop.   *)
PollDispatches(n) ==
  /\ poll = Dispatch(n)
  /\ captured' = captured + 1
  /\ critical' = critical + (IF n = "critical" THEN 1 ELSE 0)
  /\ poll' = Drain(n)
  /\ UNCHANGED <<ring, freed, map, running, owner, links, dropped, emitted,
                 inits, timeouts, read, discarded, stray>>

(* An empty map ends its inner loop; Sleep(1) is a pause.                  *)
PollFindsEmpty(n) ==
  /\ poll = Drain(n) /\ map[n] = <<>>
  /\ poll' = IF n = "critical" THEN "drain standard" ELSE "check"
  /\ UNCHANGED <<ring, freed, map, running, owner, links, counters, emitted,
                 inits, timeouts, read, discarded, stray>>

(* ghost_process_hook_read_critical, _read_standard.                       *)
Read(n) ==
  /\ owner # "down" /\ Used(ring[n]) >= 1
  /\ ring' = [ring EXCEPT ![n] = RingRead(@)]
  /\ read' = read + 1
  /\ UNCHANGED <<freed, map, running, poll, owner, links, counters, emitted,
                 inits, timeouts, discarded, stray>>

(* ghost_process_hook_shutdown: running, the wait of 3000 ms for the       *)
(* thread, bpf_object__close, ring_destroy twice.                          *)
ShutdownBegins ==
  /\ owner = "up"
  /\ running' = FALSE /\ owner' = "waits"
  /\ UNCHANGED <<ring, freed, map, poll, links, counters, emitted, inits,
                 timeouts, read, discarded, stray>>

WaitsForNobody == UNCHANGED timeouts   \* mutant: no wait for the thread
Waited ==
  \/ poll = "off" /\ UNCHANGED timeouts
  \/ poll # "off" /\ timeouts < MaxTimeouts /\ timeouts' = timeouts + 1

ShutdownEnds ==
  /\ owner = "waits" /\ Waited
  /\ discarded' = discarded + Used(ring["critical"]) + Used(ring["standard"])
  /\ ring' = [n \in Names |-> RingInit] /\ freed' = TRUE
  /\ owner' = "down"
  /\ UNCHANGED <<map, running, poll, links, counters, emitted, inits, read,
                 stray>>

Poll == PollChecks \/ \E n \in Names : PollTakes(n) \/ PollDispatches(n)
                                         \/ PollFindsEmpty(n)

Next ==
  \/ HookInit \/ HookInitFails \/ ShutdownBegins \/ ShutdownEnds
  \/ \E n \in Names, e \in Events : Emit(n, e)
  \/ Poll
  \/ \E n \in Names : Read(n)

Spec == Init /\ [][Next]_vars

-----------------------------------------------------------------------------
TypeOK ==
  /\ ring \in [Names -> Rings] /\ map \in [Names -> Seq(Events)]
  /\ freed \in BOOLEAN /\ running \in BOOLEAN /\ stray \in BOOLEAN
  /\ poll \in PollStates /\ owner \in {"down", "up", "waits"}
  /\ captured \in Nat /\ critical \in Nat /\ dropped \in Nat
  /\ emitted \in Nat /\ inits \in Nat /\ timeouts \in Nat /\ links \in Nat
  /\ read \in Nat /\ discarded \in Nat

(* The two counters, which only grow by wrapping additions, and the slots  *)
(* they select are two bounded queues that lose their oldest event when    *)
(* they are full, and count it: process_hook.c implements EventRings.      *)
Queues == INSTANCE EventRings WITH
  Size <- Slots,
  queue <- [n \in Names |-> Contents(ring[n])],
  lost <- dropped

RingsAreQueues == Queues!Spec

(* While the poll thread is let finish before the rings are freed, every   *)
(* event that was captured was read, pushed out, thrown away with its ring *)
(* or is still in one: the three places that count agree.                  *)
InFlight == IF \E n \in Names : poll = Dispatch(n) THEN 1 ELSE 0
AllCounted ==
  timeouts = 0 =>
    captured + InFlight = read + dropped + discarded
                          + Used(ring["critical"]) + Used(ring["standard"])

(* A ring that was destroyed is not written any more, unless the wait for  *)
(* the poll thread timed out.                                              *)
NoStrayWrite == timeouts = 0 => ~stray

(* The same without the exception, which the code does not have: the inner *)
(* loops of the poll thread do not look at running.                        *)
NeverStray == ~stray

(* process_hook.h:21, "Detaches eBPF programs": the code does not, since   *)
(* it keeps no link.                                                        *)
Detached == owner = "down" /\ poll = "off" => links = 0
=============================================================================
