---------------------------- MODULE AgentOutbox ----------------------------
(***************************************************************************)
(* The Linux agent's forwarder (agent/rust/src/pipeline.rs): the batch in  *)
(* memory, the outbox file, the TLS stream, and the two tasks that share   *)
(* them: the timer task of start_timer and the event loop, which calls     *)
(* forward and, when the batch is full, send_payload.  A step is what a    *)
(* task does between two awaits.  A write to the outbox is handed to       *)
(* tokio's blocking threads: File::write_all returns before the file has   *)
(* the bytes, append never flushes, and two writes land in either order.   *)
(*                                                                         *)
(* The network is seen from the agent: a connection is the list of items   *)
(* written to it and whether they can still arrive.  An item is the API    *)
(* key or a payload line, the list of the events of one batch.             *)
(***************************************************************************)
EXTENDS Integers, Sequences, FiniteSets, Functions

CONSTANTS
  MaxEvents,    \* bound: events 1..MaxEvents come from the kernel, in order
  BatchSize,    \* GHOST_BATCH_SIZE
  MaxConns,     \* bound: connections the agent opens
  MaxForced,    \* bound: periodic forced reconnects
  MaxBreaks,    \* bound: connections that break
  MaxCrashes,   \* bound: deaths of the agent
  MaxFaults,    \* bound: file errors, failed and timed-out writes
  MaxTroubles   \* bound: all of these together

ASSUME OutboxAssumption ==
  /\ MaxEvents \in Nat /\ BatchSize \in Nat \ {0}
  /\ MaxConns \in Nat /\ MaxForced \in Nat /\ MaxBreaks \in Nat
  /\ MaxCrashes \in Nat /\ MaxFaults \in Nat /\ MaxTroubles \in Nat

Timer == "timer"
Loop  == "loop"
Tasks == {Timer, Loop}
Key   == <<0>>            \* the API-key line: no event is 0
NoLine == <<>>
NoConn == 0

VARIABLES
  batch,      \* Arc<Mutex<Vec<Value>>>: events not yet in a payload
  outbox,     \* the lines of outbox.jsonl
  stream,     \* Arc<Mutex<Option<TlsStream>>>: a connection or NoConn
  owner,      \* the task that holds the stream's mutex, or "none"
  pc,         \* where each task is
  payload,    \* the line each task is about to append, or NoLine
  flight,     \* the writes on their way to the file: [line, gone: has clear
              \* removed the file that append opened?]
  pend,       \* what each task's read_all returned
  conns,      \* the connections: [sent: items written, open: can they arrive]
  forced, breaks, crashes, faults,   \* what the bounds count
  forwarded,  \* history: the events 1..forwarded were given to forward
  dropped,    \* history: events in memory when the agent died, or whose
              \* append failed
  late,       \* history: events whose append was under way since a task that
              \* now sends called read_all
  overtaken   \* history: late events that the task's clear removed

agentVars == <<batch, outbox, stream, owner, pc, payload, flight, pend>>
counters == <<forced, breaks, crashes, faults>>
history == <<forwarded, dropped, late, overtaken>>
vars == <<agentVars, conns, counters, history>>

EventsIn(lines) == UNION {Range(lines[i]) : i \in 1..Len(lines)}

Room == forced + breaks + crashes + faults < MaxTroubles
Fault == faults < MaxFaults /\ Room /\ faults' = faults + 1
Goto(t, p) == pc' = [pc EXCEPT ![t] = p]

Opened(items) == Append(conns, [sent |-> items, open |-> TRUE])

InFlight == UNION {Range(w.line) : w \in flight}
InHand == UNION {Range(payload[t]) : t \in Tasks}
InMemory == Range(batch) \cup InHand \cup InFlight

-----------------------------------------------------------------------------
(* PipelineForwarder::new: connect sends the API key, or the agent starts  *)
(* without a connection.                                                   *)
Connected ==
  \/ stream = NoConn /\ conns = <<>>
  \/ stream = 1 /\ conns = <<[sent |-> <<Key>>, open |-> TRUE]>>

Init ==
  /\ Connected
  /\ batch = <<>> /\ outbox = <<>> /\ owner = "none"
  /\ pc = [t \in Tasks |-> "idle"]
  /\ payload = [t \in Tasks |-> NoLine] /\ flight = {}
  /\ pend = [t \in Tasks |-> <<>>]
  /\ forced = 0 /\ breaks = 0 /\ crashes = 0 /\ faults = 0
  /\ forwarded = 0 /\ dropped = {}
  /\ late = [t \in Tasks |-> {}] /\ overtaken = {}

(* A task takes the batch as a payload for DurableOutbox::append: whoever  *)
(* is between read_all and clear has not read it.                          *)
Sending(t) == pc[t] \in {"lock", "write", "clear"}

Take(t, l) ==
  /\ payload' = [payload EXCEPT ![t] = l]
  /\ late' = [u \in Tasks |-> IF Sending(u) THEN late[u] \cup Range(l)
                                           ELSE late[u]]
  /\ Goto(t, "append")

(* forward: the event loop pushes an event, and sends a full batch.        *)
LineBeforePush(e) == batch   \* mutant: the payload is made before the push
FullLine(e) == Append(batch, e)

Forward ==
  /\ pc[Loop] = "idle" /\ forwarded < MaxEvents
  /\ forwarded' = forwarded + 1
  /\ IF Len(batch) + 1 >= BatchSize
       THEN batch' = <<>> /\ Take(Loop, FullLine(forwarded + 1))
       ELSE /\ batch' = Append(batch, forwarded + 1)
            /\ UNCHANGED <<payload, late, pc>>
  /\ UNCHANGED <<outbox, stream, owner, flight, pend, conns, counters, dropped,
                 overtaken>>

(* A tick of the timer.                                                    *)
Tick ==
  /\ pc[Timer] = "idle"
  /\ IF batch = <<>>
       THEN Goto(Timer, "read") /\ UNCHANGED <<batch, payload, late>>
       ELSE batch' = <<>> /\ Take(Timer, batch)
  /\ UNCHANGED <<outbox, stream, owner, flight, pend, conns, counters,
                 forwarded, dropped, overtaken>>

(* Every 60th tick the timer first drops the stream.                       *)
ForcedDrop ==
  /\ pc[Timer] = "idle" /\ owner = "none" /\ forced < MaxForced /\ Room
  /\ stream # NoConn
  /\ stream' = NoConn
  /\ forced' = forced + 1
  /\ UNCHANGED <<batch, outbox, owner, pc, payload, flight, pend, conns,
                 breaks, crashes, faults, history>>

(* append opens the file and hands the write over.                         *)
AppendLine(t) ==
  /\ pc[t] = "append"
  /\ flight' = flight \cup {[line |-> payload[t], gone |-> FALSE]}
  /\ payload' = [payload EXCEPT ![t] = NoLine]
  /\ Goto(t, "read")
  /\ UNCHANGED <<batch, outbox, stream, owner, pend, conns, counters, history>>

(* append fails: "this batch may be lost".                                 *)
AppendFails(t) ==
  /\ pc[t] = "append" /\ Fault
  /\ dropped' = dropped \cup Range(payload[t])
  /\ payload' = [payload EXCEPT ![t] = NoLine]
  /\ Goto(t, "read")
  /\ UNCHANGED <<batch, outbox, stream, owner, flight, pend, conns, forced,
                 breaks, crashes, forwarded, late, overtaken>>

(* The bytes reach the file that append opened, unlinked or not.           *)
Land(w) ==
  /\ outbox' = IF w.gone THEN outbox ELSE Append(outbox, w.line)
  /\ flight' = flight \ {w}
  /\ UNCHANGED <<batch, stream, owner, pc, payload, pend, conns, counters,
                 history>>

(* A write fails after append has returned: nobody hears of it.            *)
WriteFails(w) ==
  /\ Fault
  /\ dropped' = dropped \cup Range(w.line)
  /\ flight' = flight \ {w}
  /\ UNCHANGED <<batch, outbox, stream, owner, pc, payload, pend, conns,
                 forced, breaks, crashes, forwarded, late, overtaken>>

(* read_all; an empty outbox, or an error, ends the round.                 *)
Read(t) ==
  /\ pc[t] = "read"
  /\ pend' = [pend EXCEPT ![t] = outbox]
  /\ IF outbox = <<>>
       THEN Goto(t, "idle") /\ UNCHANGED late
       ELSE /\ Goto(t, "lock")
            /\ late' = [late EXCEPT ![t] = InHand \cup InFlight]
  /\ UNCHANGED <<batch, outbox, stream, owner, payload, flight, conns,
                 counters, forwarded, dropped, overtaken>>

ReadFails(t) ==
  /\ pc[t] = "read" /\ Fault
  /\ Goto(t, "idle")
  /\ UNCHANGED <<batch, outbox, stream, owner, payload, flight, pend, conns,
                 forced, breaks, crashes, history>>

Lock(t) ==
  /\ pc[t] = "lock" /\ owner = "none"
  /\ owner' = t
  /\ Goto(t, "write")
  /\ UNCHANGED <<batch, outbox, stream, payload, flight, pend, conns, counters,
                 history>>

(* The end of the critical section: clear after a send, or give up.        *)
KeepsGuard(t, next) == owner' = owner /\ Goto(t, next)    \* mutant
Unlock(t, next) == owner' = "none" /\ Goto(t, next)

EndRound(t) == late' = [late EXCEPT ![t] = {}]

ClearAnyway(t) == Unlock(t, "clear") /\ UNCHANGED late   \* mutant: send_ok
                                                       \* is not looked at
GiveUp(t) == Unlock(t, "idle") /\ EndRound(t)

Write(c, items) == conns' = [conns EXCEPT ![c].sent = @ \o items]

(* write_all returns Ok: the kernel took the bytes.  It may do so even     *)
(* though the peer is gone.                                                *)
SendOk(t) ==
  /\ pc[t] = "write" /\ stream # NoConn
  /\ Write(stream, pend[t])
  /\ Unlock(t, "clear")
  /\ UNCHANGED <<batch, outbox, stream, payload, flight, pend, counters,
                 history>>

(* write_all fails, or 30 s pass: some lines may have gone.  The stream is *)
(* given up.                                                               *)
SendFails(t) ==
  /\ pc[t] = "write" /\ stream # NoConn
  /\ \/ ~conns[stream].open /\ UNCHANGED faults
     \/ Fault
  /\ \E k \in 0..Len(pend[t]) : Write(stream, SubSeq(pend[t], 1, k))
  /\ stream' = NoConn
  /\ GiveUp(t)
  /\ UNCHANGED <<batch, outbox, payload, flight, pend, forced, breaks, crashes,
                 forwarded, dropped, overtaken>>

(* send_payload does not reconnect: it leaves that to the timer.           *)
NoStream ==
  /\ pc[Loop] = "write" /\ stream = NoConn
  /\ GiveUp(Loop)
  /\ UNCHANGED <<batch, outbox, stream, payload, flight, pend, conns, counters,
                 forwarded, dropped, overtaken>>

(* The timer reconnects, and writes the pending lines: no API key first.   *)
FirstItems == pend[Timer]

Reconnect ==
  /\ pc[Timer] = "write" /\ stream = NoConn /\ Len(conns) < MaxConns
  /\ conns' = Opened(FirstItems)
  /\ stream' = Len(conns) + 1
  /\ Unlock(Timer, "clear")
  /\ UNCHANGED <<batch, outbox, payload, flight, pend, counters, history>>

ReconnectFails ==
  /\ pc[Timer] = "write" /\ stream = NoConn
  /\ GiveUp(Timer)
  /\ UNCHANGED <<batch, outbox, stream, payload, flight, pend, conns, counters,
                 forwarded, dropped, overtaken>>

(* The reconnect succeeds, the write fails: some lines may have gone, the  *)
(* new connection is dropped.                                              *)
FirstWriteFails ==
  /\ pc[Timer] = "write" /\ stream = NoConn /\ Len(conns) < MaxConns /\ Fault
  /\ \E k \in 0..Len(FirstItems) : conns' = Opened(SubSeq(FirstItems, 1, k))
  /\ GiveUp(Timer)
  /\ UNCHANGED <<batch, outbox, stream, payload, flight, pend, forced, breaks,
                 crashes, forwarded, dropped, overtaken>>

(* clear removes the file, whatever was appended since read_all.           *)
NotRemoved(t) == outbox      \* mutant: clear forgotten
AfterClear(t) == <<>>

Attached == \* in a write whose file clear has not removed
  UNION {Range(w.line) : w \in {v \in flight : ~v.gone}}

Clear(t) ==
  /\ pc[t] = "clear"
  /\ outbox' = AfterClear(t)
  /\ flight' = {[w EXCEPT !.gone = TRUE] : w \in flight}
  /\ overtaken' =
       overtaken \cup (late[t] \cap (EventsIn(outbox) \cup Attached))
  /\ Goto(t, "idle") /\ EndRound(t)
  /\ UNCHANGED <<batch, stream, owner, payload, pend, conns, counters,
                 forwarded, dropped>>

ClearFails(t) ==
  /\ pc[t] = "clear" /\ Fault
  /\ Goto(t, "idle") /\ EndRound(t)
  /\ UNCHANGED <<batch, outbox, stream, owner, payload, flight, pend, conns,
                 forced, breaks, crashes, forwarded, dropped, overtaken>>

-----------------------------------------------------------------------------
(* The network, or the peer, cuts a connection.                            *)
Break(c) ==
  /\ breaks < MaxBreaks /\ Room /\ conns[c].open
  /\ conns' = [conns EXCEPT ![c].open = FALSE]
  /\ breaks' = breaks + 1
  /\ UNCHANGED <<agentVars, forced, crashes, faults, history>>

(* The agent dies and systemd restarts it: new() connects, or fails to.    *)
CrashAndRestart ==
  /\ crashes < MaxCrashes /\ Room
  /\ crashes' = crashes + 1
  /\ dropped' = dropped \cup InMemory
  /\ batch' = <<>> /\ owner' = "none"
  /\ pc' = [t \in Tasks |-> "idle"]
  /\ payload' = [t \in Tasks |-> NoLine] /\ flight' = {}
  /\ pend' = [t \in Tasks |-> <<>>] /\ late' = [t \in Tasks |-> {}]
  /\ \/ stream' = NoConn /\ UNCHANGED conns
     \/ /\ Len(conns) < MaxConns
        /\ conns' = Opened(<<Key>>)
        /\ stream' = Len(conns) + 1
  /\ UNCHANGED <<outbox, forced, breaks, faults, forwarded, overtaken>>

-----------------------------------------------------------------------------
Step(t) ==
  \/ AppendLine(t) \/ Read(t) \/ Lock(t) \/ SendOk(t) \/ Clear(t)

TimerStep == Step(Timer) \/ Tick
LoopStep == Step(Loop) \/ NoStream
DiskStep == \E w \in flight : Land(w)

AgentNext ==
  \/ Forward \/ TimerStep \/ LoopStep \/ DiskStep
  \/ ForcedDrop \/ Reconnect \/ ReconnectFails \/ FirstWriteFails
  \/ \E w \in flight : WriteFails(w)
  \/ \E t \in Tasks : \/ AppendFails(t) \/ ReadFails(t)
                      \/ SendFails(t) \/ ClearFails(t)
  \/ CrashAndRestart

Next == AgentNext \/ \E c \in 1..Len(conns) : Break(c)

Spec == Init /\ [][Next]_vars

-----------------------------------------------------------------------------
Line == Seq(1..MaxEvents) \ {<<>>}

(* Every variable keeps the shape the code gives it; the task that writes  *)
(* is the one that holds the stream's mutex.                               *)
TypeOK ==
  /\ batch \in Seq(1..MaxEvents)
  /\ outbox \in Seq(Line)
  /\ stream \in 0..Len(conns)
  /\ owner \in Tasks \cup {"none"}
  /\ pc \in [Tasks -> {"idle", "append", "read", "lock", "write", "clear"}]
  /\ \A t \in Tasks : pc[t] = "write" <=> owner = t
  /\ payload \in [Tasks -> Line \cup {NoLine}]
  /\ \A t \in Tasks : payload[t] # NoLine <=> pc[t] = "append"
  /\ flight \subseteq [line : Line, gone : BOOLEAN]
  /\ pend \in [Tasks -> Seq(Line)]
  /\ conns \in Seq([sent : Seq(Line \cup {Key}), open : BOOLEAN])
  /\ forced \in 0..MaxForced /\ breaks \in 0..MaxBreaks
  /\ crashes \in 0..MaxCrashes /\ faults \in 0..MaxFaults
  /\ forwarded \in 0..MaxEvents /\ dropped \subseteq 1..MaxEvents
  /\ late \in [Tasks -> SUBSET (1..MaxEvents)]
  /\ overtaken \subseteq 1..MaxEvents

Held == Range(batch) \cup InHand \cup Attached \cup EventsIn(outbox)

Written == UNION {EventsIn(conns[c].sent) : c \in 1..Len(conns)}

Accounted == Held \cup Written \cup dropped

(* "Data remains safely queued in durable outbox": an event given to       *)
(* forward stays in the batch, in an append or in the outbox until some    *)
(* connection has taken it, unless the agent died with it in memory or its *)
(* write to the file failed.  The code does not keep this.                 *)
QueuedUntilWritten == 1..forwarded \subseteq Accounted

(* What it keeps: the only events that leave the outbox unwritten are those *)
(* whose append was under way between read_all and the clear of a task     *)
(* that sent.                                                              *)
NothingClearedUnsent == 1..forwarded \subseteq Accounted \cup overtaken

(* clear is the only step that can lose an event: no crash, failed or      *)
(* timed-out write, reconnect or overlap of the two tasks' appends, reads  *)
(* and writes does, and every event given to forward is taken up.          *)
OnlyClearLoses ==
  [][(\A t \in Tasks : pc[t] = "clear" => pc'[t] = "clear") =>
       Accounted \cup (forwarded + 1)..forwarded' \subseteq Accounted']_vars

(* The tasks that send: forward does so only when it fills a batch.        *)
Senders == IF BatchSize > MaxEvents THEN {Timer} ELSE Tasks

Count(e) ==
  Cardinality({p \in (1..Len(conns)) \X (1..(2 * (forwarded + 1))) :
                 LET sent == conns[p[1]].sent IN
                 p[2] <= Len(sent) /\ e \in Range(sent[p[2]])})

(* Without a crash, a broken connection or an error, each task writes an   *)
(* event at most once: whoever sent it also removes it, and a task that    *)
(* read it before sends it once more at most.                              *)
NoDuplicateWithoutFailure ==
  (crashes = 0 /\ breaks = 0 /\ faults = 0) =>
    \A e \in 1..forwarded : Count(e) <= Cardinality(Senders)
=============================================================================
