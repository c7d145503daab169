-------------------------- MODULE AgentToPipeline --------------------------
(***************************************************************************)
(* The agent's forwarder of AgentOutbox joined to the pipeline's end of    *)
(* its connections: handle_client of pipeline/server_v2.py, one thread per *)
(* connection.  What is stored after insert_batch is PipelineStore.        *)
(***************************************************************************)
EXTENDS AgentOutbox, SequencesExt

VARIABLES
  srv,     \* each connection's thread: [state, read, pending: the payload
           \* lines whose events are in its pending list]
  stored   \* for each connection, the lines whose events its thread handed to
           \* insert_batch, in order

linkVars == <<vars, srv, stored>>

Numbers == 1..(MaxConns + 1)
Live == {c \in Numbers : c <= Len(conns) /\ srv[c].state # "closed"}

Fresh == [state |-> "key", read |-> 0, pending |-> <<>>]

LinkInit ==
  /\ Init
  /\ srv = [c \in Numbers |-> Fresh] /\ stored = [c \in Numbers |-> <<>>]

(* The first line is the API key; any other first line is rejected.  What  *)
(* arrived behind the key stays in the buffer.                             *)
Accepted(first) == first = Key

BufferDropped(c) == Len(conns[c].sent)   \* mutant: only the key line is kept
ReadSoFar(c) == 1

ReadKey(c) ==
  /\ srv[c].state = "key" /\ conns[c].sent # <<>>
  /\ IF Accepted(Head(conns[c].sent))
       THEN /\ srv' = [srv EXCEPT ![c].state = "reading",
                                  ![c].read = ReadSoFar(c)]
            /\ UNCHANGED conns
       ELSE /\ srv' = [srv EXCEPT ![c].state = "closed"]
            /\ conns' = [conns EXCEPT ![c].open = FALSE]
  /\ UNCHANGED <<agentVars, counters, history, stored>>

(* A payload line that arrived goes to pending.                            *)
ReadLine(c) ==
  /\ srv[c].state = "reading" /\ srv[c].read < Len(conns[c].sent)
  /\ LET line == conns[c].sent[srv[c].read + 1]
     IN  srv' = [srv EXCEPT ![c].read = @ + 1, ![c].pending = Append(@, line)]
  /\ UNCHANGED <<vars, stored>>

(* flush: pending is full, or 100 ms have passed.                          *)
KeepsPending(c) == srv[c].pending     \* mutant: pending.clear() forgotten
AfterFlush(c) == <<>>

Flush(c) ==
  /\ srv[c].state = "reading" /\ srv[c].pending # <<>>
  /\ stored' = [stored EXCEPT ![c] = @ \o srv[c].pending]
  /\ srv' = [srv EXCEPT ![c].pending = AfterFlush(c)]
  /\ UNCHANGED vars

(* insert_batch raises: the error is logged, pending is cleared all the    *)
(* same.                                                                   *)
FlushRaises(c) ==
  /\ srv[c].state = "reading" /\ srv[c].pending # <<>> /\ Fault
  /\ dropped' = dropped \cup EventsIn(srv[c].pending)
  /\ srv' = [srv EXCEPT ![c].pending = AfterFlush(c)]
  /\ UNCHANGED <<agentVars, conns, forced, breaks, crashes, forwarded,
                 late, overtaken, stored>>

(* recv returns EOF, after all the agent wrote if it closed the stream,    *)
(* earlier if the connection broke: the rest is flushed.                   *)
AllRead(c) == srv[c].read = Len(conns[c].sent)

Eof(c) ==
  /\ srv[c].state # "closed"
  /\ \/ ~conns[c].open
     \/ c # stream /\ AllRead(c)
  /\ stored' = [stored EXCEPT ![c] = @ \o srv[c].pending]
  /\ srv' = [srv EXCEPT ![c].state = "closed", ![c].pending = <<>>]
  /\ conns' = [conns EXCEPT ![c].open = FALSE]
  /\ UNCHANGED <<agentVars, counters, history>>

(* The pipeline dies: every connection breaks, and every thread's pending  *)
(* events are gone.  It restarts at once: that a connect fails meanwhile   *)
(* is ReconnectFails.                                                      *)
PipelineCrash ==
  /\ crashes < MaxCrashes /\ Room
  /\ crashes' = crashes + 1
  /\ srv' = [c \in Numbers |->
               IF c <= Len(conns) THEN [Fresh EXCEPT !.state = "closed"]
                                  ELSE srv[c]]
  /\ conns' = [c \in 1..Len(conns) |-> [conns[c] EXCEPT !.open = FALSE]]
  /\ UNCHANGED <<agentVars, forced, breaks, faults, history, stored>>

ServerStep(c) == ReadKey(c) \/ ReadLine(c) \/ Flush(c) \/ Eof(c)

LinkNext ==
  \/ Next /\ UNCHANGED <<srv, stored>>
  \/ \E c \in Live : ServerStep(c) \/ FlushRaises(c)
  \/ PipelineCrash

(* tokio runs a task that can run and its blocking threads end a write,    *)
(* and each connection has its thread.  Not the reconnect: it writes the   *)
(* pending lines without a timeout, and may never return.                  *)
LinkSpec ==
  /\ LinkInit /\ [][LinkNext]_linkVars
  /\ WF_linkVars(TimerStep /\ UNCHANGED <<srv, stored>>)
  /\ WF_linkVars(LoopStep /\ UNCHANGED <<srv, stored>>)
  /\ WF_linkVars(DiskStep /\ UNCHANGED <<srv, stored>>)
  /\ \A c \in Numbers : WF_linkVars(c \in Live /\ ServerStep(c))

-----------------------------------------------------------------------------
Keyed(c) ==
  /\ c <= Len(conns)
  /\ conns[c].sent # <<>> /\ Head(conns[c].sent) = Key

(* On the way: written to a connection whose thread will still read it.    *)
OnTheWay(c) ==
  LET s == conns[c].sent
  IN  EventsIn(SubSeq(s, srv[c].read + 1, Len(s)))
        \cup EventsIn(srv[c].pending)

InTransit == UNION {OnTheWay(c) : c \in {d \in Live : Keyed(d)}}

Stored == UNION {EventsIn(stored[c]) : c \in Numbers}

Safe == Held \cup InTransit \cup Stored \cup dropped \cup overtaken

(* What the outbox is for: once the agent has got through to the pipeline, *)
(* an event stays in its hands until the pipeline has it or is about to    *)
(* read it, unless a clear overtook it.                                    *)
QueuedUntilDelivered == Keyed(1) => 1..forwarded \subseteq Safe

(* As long as the agent's first connection, which alone starts with the    *)
(* API key, holds, nothing else is lost, whichever of the two tasks sends. *)
NothingLostWhileConnected ==
  crashes + breaks + faults + forced = 0 => QueuedUntilDelivered

(* What a connection's thread has stored or parsed is what either task     *)
(* wrote behind the API key, line by line, in its order and once, however  *)
(* the connection ends; all of it once the thread is done, unless the      *)
(* connection broke or someone died.  A connection that does not begin     *)
(* with the key stores nothing.                                            *)
StoredAsSent ==
  \A c \in Numbers :
    /\ ~Keyed(c) => stored[c] = <<>>
    /\ Keyed(c) /\ faults = 0 =>
         IsPrefix(stored[c] \o srv[c].pending, Tail(conns[c].sent))
    /\ Keyed(c) /\ crashes + breaks + faults = 0 /\ srv[c].state = "closed" =>
         stored[c] = Tail(conns[c].sent)

(* Connected at the start, and unless something goes wrong or a clear      *)
(* overtakes it, every event the kernel reports is stored in the end.      *)
EventuallyStored ==
  Keyed(1) =>
    \A e \in 1..MaxEvents :
      forwarded >= e ~>
        \/ e \in Stored \cup overtaken
        \/ crashes + breaks + faults + forced > 0
=============================================================================
