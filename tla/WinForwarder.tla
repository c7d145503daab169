---------------------------- MODULE WinForwarder ----------------------------
(***************************************************************************)
(* The Windows agent's forwarder (windows-agent/src/pipeline_forwarder):   *)
(* one socket, an offline buffer on disk, and two threads that use them:   *)
(* the worker, which calls send_event, and the heartbeat thread.  A step   *)
(* is what a thread does under one lock or between two system calls.       *)
(* start() runs before the heartbeat thread exists, and is modelled as     *)
(* that thread's first round.                                              *)
(*                                                                         *)
(* The network is seen from the agent: a socket is the list of the items   *)
(* written to it.                                                          *)
(***************************************************************************)
EXTENDS Integers, Sequences, FiniteSets, Functions

CONSTANTS
  MaxEvents,   \* bound: events 1..MaxEvents are sent, in order
  DiskMax,     \* events that fit in the offline buffer
  MaxSocks,    \* bound: connections that open
  MaxTroubles  \* bound: connections that break, sends that time out half
               \* way, file errors and deaths of the agent, together

ASSUME ForwarderAssumption ==
  /\ MaxEvents \in Nat /\ DiskMax \in Nat /\ MaxSocks \in Nat
  /\ MaxTroubles \in Nat

Worker == "worker"
Heart  == "heart"
Threads == {Worker, Heart}
Key  == 0     \* items that are not events: the API key, a heartbeat and
Beat == -1    \* the first part of a line
Torn == -2
NoSock == 0

VARIABLES
  life,       \* "starting", "running" (running_), "stopping", "stopped"
  connected,  \* connected_
  fd,         \* socket_fd_: a socket or NoSock
  reconnect,  \* the thread that holds reconnect_mutex_, or "none"
  buffer,     \* the thread that holds buffer_mutex_, or "none"
  pc, item,   \* where each thread is, and what it has to send
  work,       \* flush_offline_buffer: the lines still to send, and the
  failed,     \* lines that failed
  disk,       \* the offline buffer
  socks,      \* the sockets: [sent, up: is the peer there?, open]
  breaks, faults, crashes,  \* what the bounds count
  taken,      \* history: send_event was called for 1..taken
  dropped     \* history: events the code says it drops, and those that
              \* were in memory when the agent died

net == <<socks, breaks>>
vars == <<life, connected, fd, reconnect, buffer, pc, item, work, failed, disk,
          socks, breaks, faults, crashes, taken, dropped>>

Goto(t, p) == pc' = [pc EXCEPT ![t] = p]
Trouble == breaks + faults + crashes < MaxTroubles
Fault == Trouble /\ faults' = faults + 1

(* PipelineForwarder(), and start() about to connect.                      *)
Init ==
  /\ life = "starting" /\ connected = FALSE /\ fd = NoSock
  /\ reconnect = "none" /\ buffer = "none"
  /\ pc = [t \in Threads |-> IF t = Heart THEN "reconnect" ELSE "idle"]
  /\ item = [t \in Threads |-> Beat]
  /\ work = <<>> /\ failed = <<>> /\ disk = <<>> /\ socks = <<>>
  /\ breaks = 0 /\ faults = 0 /\ crashes = 0 /\ taken = 0 /\ dropped = {}

-----------------------------------------------------------------------------
(* tcp_send, under socket_mutex_.  A send to a peer that is gone may still *)
(* succeed; one that fails half way leaves a torn line.  Heartbeats with   *)
(* nothing between them count as one.                                      *)
Put(s, x) ==
  LET q == socks[s].sent
  IN  IF x = Beat /\ q # <<>> /\ q[Len(q)] = Beat
        THEN UNCHANGED socks
        ELSE socks' = [socks EXCEPT ![s].sent = Append(@, x)]

Usable == fd # NoSock /\ socks[fd].open

Sent(x) == Usable /\ Put(fd, x) /\ UNCHANGED faults

NotSent ==
  \/ (IF Usable THEN ~socks[fd].up ELSE TRUE) /\ UNCHANGED <<socks, faults>>
  \/ Usable /\ Fault /\ Put(fd, Torn)

(* Where a thread goes after a failed heartbeat, or a flush.               *)
Continue(t, workerGoes) ==
  /\ Goto(t, IF t = Heart THEN "idle" ELSE workerGoes)
  /\ life' = IF t = Heart /\ life = "starting" THEN "running" ELSE life

(* send_event is called; send_heartbeat is due.                            *)
FirstStep(t) == Goto(t, IF connected THEN "send" ELSE "reconnect")

SendEvent ==
  /\ pc[Worker] = "idle" /\ life = "running" /\ taken < MaxEvents
  /\ taken' = taken + 1
  /\ item' = [item EXCEPT ![Worker] = taken + 1]
  /\ FirstStep(Worker)
  /\ UNCHANGED <<life, connected, fd, reconnect, buffer, work, failed, disk,
                 net, faults, crashes, dropped>>

SendHeartbeat ==
  /\ pc[Heart] = "idle" /\ life = "running"
  /\ FirstStep(Heart)
  /\ UNCHANGED <<life, connected, fd, reconnect, buffer, item, work, failed,
                 disk, net, faults, crashes, taken, dropped>>

Send(t) ==
  /\ pc[t] = "send"
  /\ \/ Sent(item[t]) /\ Goto(t, "idle")
     \/ NotSent /\ Goto(t, "mark")
  /\ UNCHANGED <<life, connected, fd, reconnect, buffer, item, work, failed,
                 disk, breaks, crashes, taken, dropped>>

(* connected_ = false, some time after the failed send.                    *)
Mark(t) ==
  /\ pc[t] = "mark"
  /\ connected' = FALSE
  /\ Continue(t, "reconnect")
  /\ UNCHANGED <<fd, reconnect, buffer, item, work, failed, disk, net, faults,
                 crashes, taken, dropped>>

-----------------------------------------------------------------------------
(* connect_with_backoff, under reconnect_mutex_.                           *)
NotHeld == TRUE                \* mutant: the mutex is declared, not locked
CanLock == reconnect = "none"

Reconnect(t) ==
  /\ pc[t] = "reconnect" /\ CanLock
  /\ IF connected
       THEN Goto(t, "flush") /\ UNCHANGED reconnect
       ELSE Goto(t, "drop") /\ reconnect' = t
  /\ UNCHANGED <<life, connected, fd, buffer, item, work, failed, disk, net,
                 faults, crashes, taken, dropped>>

(* tcp_disconnect.                                                         *)
Closed ==
  /\ socks' = [s \in 1..Len(socks) |->
                 IF s = fd THEN [socks[s] EXCEPT !.open = FALSE] ELSE socks[s]]
  /\ fd' = NoSock
  /\ connected' = FALSE

(* tcp_connect: the old socket is closed first.                            *)
Drop(t) ==
  /\ pc[t] = "drop"
  /\ Closed
  /\ Goto(t, "dial")
  /\ UNCHANGED <<life, reconnect, buffer, item, work, failed, disk, breaks,
                 faults, crashes, taken, dropped>>

(* connect() succeeds: socket_fd_ is set, the API key is still to be sent. *)
Dial(t) ==
  /\ pc[t] = "dial" /\ Len(socks) < MaxSocks
  /\ socks' = Append(socks, [sent |-> <<>>, up |-> TRUE, open |-> TRUE])
  /\ fd' = Len(socks) + 1
  /\ Goto(t, "auth")
  /\ UNCHANGED <<life, connected, reconnect, buffer, item, work, failed, disk,
                 breaks, faults, crashes, taken, dropped>>

DialFails(t) ==
  /\ pc[t] = "dial"
  /\ Goto(t, "retry")
  /\ UNCHANGED <<life, connected, fd, reconnect, buffer, item, work, failed,
                 disk, net, faults, crashes, taken, dropped>>

Mine == Len(socks)   \* the socket that the thread in tcp_connect opened

Auth(t) ==
  /\ pc[t] = "auth"
  /\ \/ socks[Mine].open /\ Put(Mine, Key) /\ Goto(t, "up") /\ UNCHANGED faults
     \/ /\ ~socks[Mine].up \/ ~socks[Mine].open
        /\ socks' = [socks EXCEPT ![Mine].open = FALSE]
        /\ Goto(t, "retry") /\ UNCHANGED faults
  /\ UNCHANGED <<life, connected, fd, reconnect, buffer, item, work, failed,
                 disk, breaks, crashes, taken, dropped>>

Up(t) ==
  /\ pc[t] = "up"
  /\ connected' = TRUE
  /\ reconnect' = "none"
  /\ Goto(t, "flush")
  /\ UNCHANGED <<life, fd, buffer, item, work, failed, disk, net, faults,
                 crashes, taken, dropped>>

(* After the back-off: again, as long as the forwarder runs.               *)
RetryForever(t) ==   \* mutant: running_ is not looked at again
  /\ pc[t] = "retry"
  /\ Goto(t, "drop")
  /\ UNCHANGED <<life, connected, fd, reconnect, buffer, item, work, failed,
                 disk, net, faults, crashes, taken, dropped>>

Retry(t) ==
  /\ pc[t] = "retry"
  /\ IF life = "running"
       THEN Goto(t, "drop") /\ UNCHANGED <<life, reconnect>>
       ELSE /\ reconnect' = "none"
            /\ IF connected THEN Goto(t, "flush") /\ UNCHANGED life
                            ELSE Continue(t, "store")
  /\ UNCHANGED <<connected, fd, buffer, item, work, failed, disk, net, faults,
                 crashes, taken, dropped>>

-----------------------------------------------------------------------------
(* flush_offline_buffer, under buffer_mutex_.                              *)
Flush(t) ==
  /\ pc[t] = "flush" /\ buffer = "none"
  /\ IF disk = <<>>
       THEN Continue(t, "resend") /\ UNCHANGED <<buffer, work, failed>>
       ELSE /\ buffer' = t /\ work' = disk /\ failed' = <<>>
            /\ Goto(t, "flushing") /\ UNCHANGED life
  /\ UNCHANGED <<connected, fd, reconnect, item, disk, net, faults, crashes,
                 taken, dropped>>

FlushLine(t) ==
  /\ pc[t] = "flushing" /\ work # <<>>
  /\ \/ Sent(Head(work)) /\ UNCHANGED failed
     \/ NotSent /\ failed' = Append(failed, Head(work))
  /\ work' = Tail(work)
  /\ UNCHANGED <<life, connected, fd, reconnect, buffer, pc, item, disk,
                 breaks, crashes, taken, dropped>>

(* The file is removed, or written anew with the lines that failed.        *)
Removed == <<>>     \* mutant: removed even so
AlsoSent == disk    \* mutant: left as it was
Remaining == failed

FlushEnds(t) ==
  /\ pc[t] = "flushing" /\ work = <<>>
  /\ disk' = Remaining
  /\ failed' = <<>>
  /\ buffer' = "none"
  /\ Continue(t, "resend")
  /\ UNCHANGED <<connected, fd, reconnect, item, work, net, faults, crashes,
                 taken, dropped>>

Resend ==
  /\ pc[Worker] = "resend"
  /\ \/ Sent(item[Worker]) /\ Goto(Worker, "idle")
     \/ NotSent /\ Goto(Worker, "store")
  /\ UNCHANGED <<life, connected, fd, reconnect, buffer, item, work, failed,
                 disk, breaks, crashes, taken, dropped>>

(* buffer_to_disk: a full buffer drops the event.                          *)
Store ==
  /\ pc[Worker] = "store" /\ buffer = "none"
  /\ IF Len(disk) < DiskMax
       THEN disk' = Append(disk, item[Worker]) /\ UNCHANGED dropped
       ELSE dropped' = dropped \cup {item[Worker]} /\ UNCHANGED disk
  /\ Goto(Worker, "idle")
  /\ UNCHANGED <<life, connected, fd, reconnect, buffer, item, work, failed,
                 net, faults, crashes, taken>>

(* The file cannot be opened, or written: the event is given up.  A part   *)
(* of the line that a failed write leaves in the file is left out.         *)
StoreFails ==
  /\ pc[Worker] = "store" /\ buffer = "none" /\ Len(disk) < DiskMax /\ Fault
  /\ dropped' = dropped \cup {item[Worker]}
  /\ Goto(Worker, "idle")
  /\ UNCHANGED <<life, connected, fd, reconnect, buffer, item, work, failed,
                 disk, net, crashes, taken>>

-----------------------------------------------------------------------------
(* stop(): running_ = false; the heartbeat thread is joined, and the       *)
(* socket closed.                                                          *)
Stop ==
  /\ life = "running"
  /\ life' = "stopping"
  /\ UNCHANGED <<connected, fd, reconnect, buffer, pc, item, work, failed,
                 disk, net, faults, crashes, taken, dropped>>

Stopped ==
  /\ life = "stopping" /\ pc[Heart] = "idle"
  /\ life' = "stopped"
  /\ Closed
  /\ UNCHANGED <<reconnect, buffer, pc, item, work, failed, disk, breaks,
                 faults, crashes, taken, dropped>>

Break(s) ==
  /\ Trouble /\ socks[s].up /\ socks[s].open
  /\ breaks' = breaks + 1
  /\ socks' = [socks EXCEPT ![s].up = FALSE]
  /\ UNCHANGED <<life, connected, fd, reconnect, buffer, pc, item, work,
                 failed, disk, faults, crashes, taken, dropped>>

InHand == IF pc[Worker] = "idle" THEN {} ELSE {item[Worker]}

(* The agent dies and is started again.  A file that was being written     *)
(* anew may keep nothing but what was already sent.                        *)
Crash ==
  /\ Trouble
  /\ crashes' = crashes + 1
  /\ \/ UNCHANGED disk /\ dropped' = dropped \cup InHand
     \/ /\ buffer # "none" /\ work = <<>> /\ failed # <<>>
        /\ disk' = <<>>
        /\ dropped' = dropped \cup InHand \cup Range(failed)
  /\ life' = "starting" /\ connected' = FALSE /\ fd' = NoSock
  /\ reconnect' = "none" /\ buffer' = "none"
  /\ pc' = [t \in Threads |-> IF t = Heart THEN "reconnect" ELSE "idle"]
  /\ work' = <<>> /\ failed' = <<>>
  /\ socks' = [s \in 1..Len(socks) |-> [socks[s] EXCEPT !.open = FALSE]]
  /\ UNCHANGED <<item, breaks, faults, taken>>

Step(t) ==
  \/ Send(t) \/ Mark(t) \/ Reconnect(t) \/ Drop(t) \/ Dial(t) \/ DialFails(t)
  \/ Auth(t) \/ Up(t) \/ Retry(t) \/ Flush(t) \/ FlushLine(t) \/ FlushEnds(t)

WorkerStep == Step(Worker) \/ Resend \/ Store
HeartStep == Step(Heart) \/ SendHeartbeat

Next ==
  \/ SendEvent \/ WorkerStep \/ HeartStep \/ StoreFails
  \/ Stop \/ Stopped \/ Crash
  \/ \E s \in 1..Len(socks) : Break(s)

Spec == Init /\ [][Next]_vars

(* Threads run, the one in stop() too, and a system call returns:          *)
(* connect() fails or succeeds.                                            *)
FairSpec ==
  Spec /\ WF_vars(WorkerStep) /\ WF_vars(HeartStep) /\ WF_vars(Stopped)

(* What the code cannot count on: that the pipeline can be reached again   *)
(* and again, and a send to a peer that is gone does not succeed for ever. *)
ReachableSpec ==
  /\ FairSpec
  /\ \A t \in Threads :
       SF_vars(Dial(t)) /\ SF_vars(Send(t) /\ pc'[t] = "mark")

-----------------------------------------------------------------------------
Line == {Torn, Beat, Key} \cup 1..MaxEvents

(* Every variable keeps the shape the code gives it; a mutex is held by a  *)
(* thread that is in its critical section.                                 *)
TypeOK ==
  /\ life \in {"starting", "running", "stopping", "stopped"}
  /\ connected \in BOOLEAN /\ fd \in 0..Len(socks)
  /\ reconnect \in Threads \cup {"none"} /\ buffer \in Threads \cup {"none"}
  /\ pc \in [Threads -> {"idle", "send", "mark", "reconnect", "drop", "dial",
                         "auth", "up", "retry", "flush", "flushing", "resend",
                         "store"}]
  /\ \A t \in Threads :
       /\ pc[t] \in {"drop", "dial", "auth", "up", "retry"} <=> reconnect = t
       /\ pc[t] = "flushing" <=> buffer = t
  /\ item \in [Threads -> Line]
  /\ {work, failed, disk} \subseteq Seq(1..MaxEvents)
  /\ socks \in Seq([sent : Seq(Line), up : BOOLEAN, open : BOOLEAN])
  /\ taken \in 0..MaxEvents /\ dropped \subseteq 1..MaxEvents

(* "12 simultaneous ESTABLISHED connections": reconnect_mutex_ lets the    *)
(* agent have one connection at most.                                      *)
OneConnection == Cardinality({s \in 1..Len(socks) : socks[s].open}) <= 1

(* An event that send_event was called for is in the thread's hands, in    *)
(* the offline buffer or written to a socket, unless the code said it      *)
(* dropped it or the agent died.                                           *)
Written == UNION {Range(socks[s].sent) : s \in 1..Len(socks)}
NothingVanishes ==
  1..taken \subseteq
    InHand \cup Range(disk) \cup Range(work) \cup Range(failed) \cup Written
      \cup dropped

(* Without a crash or a torn line, no event is sent twice: what the        *)
(* offline buffer sent it does not keep.                                   *)
Times(e) ==
  Cardinality(UNION {{s} \X {i \in 1..Len(socks[s].sent) : socks[s].sent[i] = e} :
                       s \in 1..Len(socks)})
NoDuplicate == crashes + faults = 0 => \A e \in 1..taken : Times(e) <= 1

(* The pipeline takes a connection's first line for the API key, so that   *)
(* line must be the key.                                                   *)
KeyFirst ==
  \A s \in 1..Len(socks) :
    socks[s].sent # <<>> => Head(socks[s].sent) = Key

(* stop() returns: it joins the heartbeat thread, which may be waiting for *)
(* the worker's retries or flush to end or be in the retry loop itself     *)
(* with the pipeline down for good.                                        *)
StopReturns ==
  life = "stopping" ~> life = "stopped" \/ crashes > 0

(* "Pipeline unreachable -- events buffered offline": an event does not    *)
(* stay in the thread's hands for ever, it is sent or put on disk, unless  *)
(* the agent dies.  The code does not have this: while it runs and the     *)
(* pipeline is down, send_event stays in the retry loop.                   *)
EventuallyBuffered ==
  \A e \in 1..MaxEvents :
    taken = e ~> \/ e \in Range(disk) \cup Written \cup dropped
                 \/ crashes > 0

(* "reconnect flush": if the pipeline can be reached again and again, an   *)
(* event is written to a connection in the end, through the offline buffer *)
(* or not, unless the forwarder is stopped first, or the event dropped.    *)
EventuallySent ==
  \A e \in 1..MaxEvents :
    taken = e ~> \/ e \in Written \cup dropped
                 \/ life \in {"stopping", "stopped"}
=============================================================================
