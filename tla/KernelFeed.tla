----------------------------- MODULE KernelFeed -----------------------------
(***************************************************************************)
(* run_event_loop of agent/rust/src/events.rs on top of KernelProbes: one  *)
(* thread loads the programs and empties the three rings into two bounded  *)
(* channels, blocking on the critical one and dropping on the other; the   *)
(* event loop empties the channels into PipelineForwarder::forward.  That  *)
(* never fails, but need not come back: it waits for the stream's mutex,   *)
(* which is held over writes that have no timeout (module AgentOutbox).    *)
(***************************************************************************)
EXTENDS KernelProbes

CONSTANTS Capacity   \* sync_channel's bound of each channel: 50000, 10000

Channels == {"critical", "standard"}

ASSUME FeedAssumption == Capacity \in [Channels -> Nat \ {0}]

VARIABLES
  chan,     \* events in rx_critical and rx_standard
  reader,   \* the thread: loading, gone, in rb.poll, consuming a
            \* ring, or in t.send of a critical event
  fwd,      \* the channel that the event loop is draining
  calling   \* whether it is inside forward

loop == <<fwd, calling>>
vars == <<kernel, chan, reader, loop>>

FeedInit ==
  /\ ProbesInit
  /\ chan = [c \in Channels |-> 0]
  /\ reader = "loading" /\ fwd = "critical" /\ calling = FALSE

(* open_file, load and attach; an error ends the thread and nothing else.  *)
Load == reader = "loading" /\ reader' = "poll" /\ UNCHANGED <<kernel, chan, loop>>
LoadFails == reader = "loading" /\ reader' = "gone" /\ UNCHANGED <<kernel, chan, loop>>

(* rb.poll finds a ring with data, calls back for each event and leaves    *)
(* the ring when it is empty.                                              *)
ReaderBegins(r) ==
  /\ reader = "poll" /\ used[r] > 0
  /\ reader' = r
  /\ UNCHANGED <<kernel, chan, loop>>

(* The callbacks: from_raw hides an event of the agent itself; t.send      *)
(* waits for room, t.try_send does not.  TLS events go through tx_standard.*)
HasRoom(c) == chan[c] < Capacity[c]
Consumed(r) == used' = [used EXCEPT ![r] = @ - 1] /\ UNCHANGED <<maps, loop>>
Put(c) == chan' = [chan EXCEPT ![c] = IF HasRoom(c) THEN @ + 1 ELSE @]

ReaderHides(r) == reader = r /\ used[r] > 0 /\ Consumed(r) /\ UNCHANGED <<chan, reader>>

ReaderTries(r) ==
  /\ r # "critical" /\ reader = r /\ used[r] > 0
  /\ Put("standard") /\ Consumed(r) /\ UNCHANGED reader

ReaderSends ==
  /\ reader = "critical" /\ used["critical"] > 0
  /\ reader' = "sending" /\ UNCHANGED <<kernel, chan, loop>>

ReaderSent ==
  /\ reader = "sending" /\ HasRoom("critical")
  /\ Put("critical") /\ Consumed("critical") /\ reader' = "critical"

ReaderLeaves(r) ==
  /\ reader = r /\ used[r] = 0
  /\ reader' = "poll"
  /\ UNCHANGED <<kernel, chan, loop>>

(* rx_critical.try_recv and rx_standard.try_recv, each until Empty.  The   *)
(* loop keeps tx_critical and tx_standard, so neither says Disconnected.   *)
Forward(c) ==
  /\ fwd = c /\ ~calling /\ chan[c] > 0
  /\ chan' = [chan EXCEPT ![c] = @ - 1] /\ calling' = TRUE
  /\ UNCHANGED <<kernel, reader, fwd>>

ForwardReturns == calling /\ calling' = FALSE /\ UNCHANGED <<kernel, chan, reader, fwd>>

(* Mutant: rx_standard.recv, which waits for an event.                     *)
TurnFromCritical(c) ==
  /\ fwd = c /\ ~calling /\ chan[c] = 0 /\ c = "critical"
  /\ fwd' = "standard"
  /\ UNCHANGED <<kernel, chan, reader, calling>>

Turn(c) ==
  /\ fwd = c /\ ~calling /\ chan[c] = 0
  /\ fwd' = IF c = "critical" THEN "standard" ELSE "critical"
  /\ UNCHANGED <<kernel, chan, reader, calling>>

Kernel == reader \notin {"loading", "gone"} /\ ProbesNext /\ UNCHANGED <<chan, reader, loop>>
Reader == Load \/ LoadFails \/ ReaderSends \/ ReaderSent
            \/ \E r \in Rings : ReaderBegins(r) \/ ReaderHides(r)
                                 \/ ReaderTries(r) \/ ReaderLeaves(r)
EventLoop == \E c \in Channels : Forward(c) \/ Turn(c)

FeedNext == Kernel \/ Reader \/ EventLoop \/ ForwardReturns

(* A thread of the agent that can run does; nothing is asked of the        *)
(* processes that it watches, nor of the connection inside forward.        *)
FeedSpec == FeedInit /\ [][FeedNext]_vars /\ WF_vars(Reader) /\ WF_vars(EventLoop)

-----------------------------------------------------------------------------
FeedTypeOK ==
  /\ ProbesTypeOK
  /\ chan \in [Channels -> Nat] /\ \A c \in Channels : chan[c] <= Capacity[c]
  /\ reader \in {"loading", "gone", "poll", "sending"} \cup Rings
  /\ fwd \in Channels /\ calling \in BOOLEAN

(* The thread that waits for room for a critical event gets it, however    *)
(* the programs flood the standard ring, unless a call of forward never    *)
(* returns: while it waits nobody fills the standard channel, so the event *)
(* loop comes back to the critical one.                                    *)
Blocked == reader = "sending" /\ ~HasRoom("critical")
ReaderUnblocked == (Blocked ~> HasRoom("critical")) \/ <>[]calling

(* The same without the exception: a peer that stops reading while forward *)
(* writes (pipeline.rs:176) stops the reader of all three rings for good.  *)
ReaderNeverStuck == Blocked ~> HasRoom("critical")

(* events.rs:335, "Drain critical channel first - always": a flood of      *)
(* standard events keeps the loop in its second half for ever.             *)
CriticalServed == chan["critical"] > 0 ~> fwd = "critical"

(* ghost_agent.h, "zero risk to the existing, currently-live production    *)
(* event path": a ClientHello takes the last place of the standard channel.*)
TlsSparesStandard ==
  [][ReaderTries("tls") => chan'["standard"] = chan["standard"]]_vars
=============================================================================
