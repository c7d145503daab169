------------------------------ MODULE HookRing ------------------------------
(***************************************************************************)
(* ghost_ring_t of windows-agent/src/process_hook.c: ring_init, ring_write *)
(* and ring_read, each one critical section of the ring's lock, as         *)
(* operators on the value of a ring.                                       *)
(*                                                                         *)
(* head and tail are 32-bit counters of bytes that are never reduced by    *)
(* the capacity.  Everything in a ring is a multiple of sizeof             *)
(* (ghost_event_t), so positions are counted in events here, and the       *)
(* branch that splits an event at the end of the ring is never taken.      *)
(***************************************************************************)
EXTENDS Integers, Sequences

CONSTANTS
  Events,   \* the values of a ghost_event_t
  Blank,    \* what malloc returns
  Slots,    \* capacity / sizeof(ghost_event_t)
  Laps      \* how often the capacity goes into 2^32

Wrap == Laps * Slots   \* 2^32 / sizeof(ghost_event_t)

(* Both capacities are powers of two smaller than 2^32.                    *)
ASSUME RingAssumption ==
  /\ Slots \in Nat \ {0}
  /\ Laps \in Nat \ {0, 1}
  /\ Blank \notin Events

Rings == [head: 0..(Wrap - 1), tail: 0..(Wrap - 1),
          data: [0..(Slots - 1) -> Events \cup {Blank}]]

RingInit == [head |-> 0, tail |-> 0, data |-> [i \in 0..(Slots - 1) |-> Blank]]

Used(r) == (r.head - r.tail) % Wrap
LateFull(r) == Used(r) > Slots   \* mutant: one event too many
IsFull(r) == Used(r) + 1 > Slots

(* Mutant: the oldest event of a full ring is counted as lost, not removed. *)
KeepsTail(r, e) ==
  [r EXCEPT !.head = (@ + 1) % Wrap, !.data = [@ EXCEPT ![r.head % Slots] = e]]

(* ring_write: a full ring gives up its oldest event.                      *)
RingWrite(r, e) ==
  [head |-> (r.head + 1) % Wrap,
   tail |-> IF IsFull(r) THEN (r.tail + 1) % Wrap ELSE r.tail,
   data |-> [r.data EXCEPT ![r.head % Slots] = e]]

(* ring_read: the event it returns, and the ring it leaves.                *)
Oldest(r) == r.data[r.tail % Slots]
RingRead(r) == [r EXCEPT !.tail = (@ + 1) % Wrap]

(* The events between tail and head, oldest first.                         *)
Contents(r) == [i \in 1..Used(r) |-> r.data[(r.tail + i - 1) % Slots]]
=============================================================================
