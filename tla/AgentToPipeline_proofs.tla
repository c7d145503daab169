---------------------- MODULE AgentToPipeline_proofs ----------------------
(***************************************************************************)
(* Proofs about AgentOutbox and AgentToPipeline, for any numbers of        *)
(* events, connections, forced reconnects, breaks, crashes and errors, any *)
(* size of a batch, both tasks, and writes that reach the file late.       *)
(* First the outbox alone, then what clear removes, how often an event is  *)
(* written, the pipeline's threads and what they store, and the agent's    *)
(* first connection.                                                       *)
(***************************************************************************)
EXTENDS AgentToPipeline, SequenceTheorems, FiniteSetTheorems, TLAPS

-----------------------------------------------------------------------------
(***************************************************************************)
(* The outbox.                                                             *)
(***************************************************************************)
Places == {"idle", "append", "read", "lock", "write", "clear"}
Conns == [sent : Seq(Line \cup {Key}), open : BOOLEAN]

LEMMA TwoTasks ==
  /\ Tasks = {Timer, Loop} /\ Timer # Loop /\ "none" \notin Tasks
BY DEF Tasks, Timer, Loop

(* What an appended line, or items written, add to the events.             *)
LEMMA RangeAppend ==
  ASSUME NEW S, NEW q \in Seq(S), NEW x \in S
  PROVE  /\ Append(q, x) \in Seq(S) /\ Append(q, x) # <<>>
         /\ Range(Append(q, x)) = Range(q) \cup {x}
<1>1. /\ Append(q, x) \in Seq(S) /\ Len(q) \in Nat /\ Len(Append(q, x)) = Len(q) + 1
      /\ \A i \in 1..Len(q) : Append(q, x)[i] = q[i]
      /\ Append(q, x)[Len(q) + 1] = x /\ Append(q, x) # <<>>
  BY AppendProperties, LenProperties
<1>2. /\ Range(q) = {q[i] : i \in 1..Len(q)}
      /\ Range(Append(q, x)) = {Append(q, x)[i] : i \in 1..Len(Append(q, x))}
  BY <1>1, RangeEquality
<1> QED
  BY <1>1, <1>2

LEMMA EventsConcat ==
  ASSUME NEW S, NEW q \in Seq(S), NEW r \in Seq(S)
  PROVE  q \o r \in Seq(S) /\ EventsIn(q) \subseteq EventsIn(q \o r)
<1>1. /\ q \o r \in Seq(S) /\ Len(q) \in Nat /\ Len(r) \in Nat
      /\ Len(q \o r) = Len(q) + Len(r) /\ \A i \in 1..Len(q) : (q \o r)[i] = q[i]
  BY ConcatProperties, LenProperties
<1> QED
  BY <1>1 DEF EventsIn

LEMMA EventsAppend ==
  ASSUME NEW S, NEW q \in Seq(S), NEW x \in S
  PROVE  EventsIn(Append(q, x)) = EventsIn(q) \cup Range(x)
<1>1. /\ Len(q) \in Nat /\ Len(Append(q, x)) = Len(q) + 1
      /\ \A i \in 1..Len(q) : Append(q, x)[i] = q[i]
      /\ Append(q, x)[Len(q) + 1] = x
  BY AppendProperties, LenProperties
<1> QED
  BY <1>1 DEF EventsIn

(* The connections after one more, and after items written to one.         *)
LEMMA OpenedGrows ==
  ASSUME conns \in Seq(Conns), NEW items \in Seq(Line \cup {Key}), conns' = Opened(items)
  PROVE  /\ conns' \in Seq(Conns) /\ Len(conns') = Len(conns) + 1 /\ Len(conns) \in Nat
         /\ Written \subseteq Written'
<1> DEFINE c == [sent |-> items, open |-> TRUE]
<1>1. c \in Conns /\ conns' = Append(conns, c)
  BY DEF Conns, Opened
<1>2. /\ conns' \in Seq(Conns) /\ Len(conns) \in Nat /\ Len(conns') = Len(conns) + 1
      /\ \A i \in 1..Len(conns) : conns'[i] = conns[i]
  BY <1>1, AppendProperties, LenProperties
<1> QED
  BY <1>2 DEF Written

LEMMA WriteGrows ==
  ASSUME conns \in Seq(Conns), NEW c \in 1..Len(conns), NEW items \in Seq(Line \cup {Key}),
         Write(c, items)
  PROVE  conns' \in Seq(Conns) /\ Len(conns') = Len(conns) /\ Written \subseteq Written'
<1>1. conns[c] \in Conns /\ \A i \in 1..Len(conns) : conns[i] \in Conns
  BY ElementOfSeq
<1> DEFINE d == [conns[c] EXCEPT !.sent = @ \o items]
<1>2. conns[c].sent \in Seq(Line \cup {Key})
  BY <1>1 DEF Conns
<1>3. /\ conns[c].sent \o items \in Seq(Line \cup {Key})
      /\ EventsIn(conns[c].sent) \subseteq EventsIn(conns[c].sent \o items)
  BY <1>2, EventsConcat
<1>4. d \in Conns /\ d.sent = conns[c].sent \o items
  BY <1>1, <1>3 DEF Conns
<1>5. conns' = [conns EXCEPT ![c] = d]
  BY DEF Write
<1> HIDE DEF d
<1>6. /\ conns' \in Seq(Conns) /\ Len(conns') = Len(conns)
      /\ \A i \in 1..Len(conns) : conns'[i] = IF i = c THEN d ELSE conns[i]
  BY <1>4, <1>5, ExceptSeq
<1> QED
  BY <1>3, <1>4, <1>6 DEF Written

LEMMA PrefixTyped ==
  ASSUME NEW q \in Seq(Line), NEW k \in 0..Len(q)
  PROVE  SubSeq(q, 1, k) \in Seq(Line)
<1>1. Len(q) \in Nat /\ \A i \in 1..Len(q) : q[i] \in Line
  BY LenProperties, ElementOfSeq
<1>2. \A i \in 1..k : q[i] \in Line
  BY <1>1
<1> QED
  BY <1>1, <1>2, SubSeqProperties

-----------------------------------------------------------------------------
(***************************************************************************)
(* The types.                                                              *)
(***************************************************************************)
Flights == [line : Line, gone : BOOLEAN]

(* Where the tasks are, who holds the mutex, and who has a line in hand.   *)
Placed ==
  /\ pc \in [Tasks -> Places] /\ owner \in Tasks \cup {"none"}
  /\ \A u \in Tasks : pc[u] = "write" <=> owner = u
  /\ payload \in [Tasks -> Line \cup {NoLine}]
  /\ \A u \in Tasks : payload[u] # NoLine <=> pc[u] = "append"

LEMMA TypeMeans == TypeOK => Placed
BY DEF TypeOK, Placed, Places

LEMMA LinesInside == \A line \in Line : Range(line) \subseteq 1..MaxEvents
BY RangeEquality, ElementOfSeq, RangeOfSeq DEF Line

LEMMA NoLineEmpty == Range(NoLine) = {}
BY DEF NoLine, Range

(* Every event an append has in hand or under way is an event.             *)
LEMMA MemoryInside == TypeOK => InMemory \subseteq 1..MaxEvents
<1> SUFFICES ASSUME TypeOK PROVE InMemory \subseteq 1..MaxEvents
  OBVIOUS
<1>1. Range(batch) \subseteq 1..MaxEvents
  BY RangeOfSeq DEF TypeOK
<1>2. ASSUME NEW t \in Tasks PROVE Range(payload[t]) \subseteq 1..MaxEvents
  BY LinesInside, NoLineEmpty DEF TypeOK
<1>3. ASSUME NEW w \in flight PROVE Range(w.line) \subseteq 1..MaxEvents
  BY LinesInside DEF TypeOK
<1> QED
  BY <1>1, <1>2, <1>3 DEF InMemory, InHand, InFlight

LEMMA TakeTyped ==
  ASSUME TypeOK, NEW t \in Tasks, NEW line \in Line, Take(t, line), pc[t] = "idle",
         owner' = owner
  PROVE  Placed' /\ late' \in [Tasks -> SUBSET (1..MaxEvents)]
<1>1. line # NoLine
  BY DEF Line, NoLine
<1>2. Placed'
  BY <1>1 DEF TypeOK, Take, Goto, Placed, Places
<1>3. Range(line) \subseteq 1..MaxEvents
  BY LinesInside
<1> QED
  BY <1>2, <1>3 DEF TypeOK, Take

LEMMA GotoTyped ==
  ASSUME TypeOK, NEW t \in Tasks, NEW p \in Places \ {"write", "append"}, Goto(t, p),
         pc[t] # "write", owner' = owner,
         \/ payload' = [payload EXCEPT ![t] = NoLine]
         \/ payload' = payload /\ pc[t] # "append"
  PROVE  Placed'
<1>1. CASE payload' = [payload EXCEPT ![t] = NoLine]
  BY <1>1 DEF TypeOK, Goto, Placed, Places
<1>2. CASE payload' = payload /\ pc[t] # "append"
  BY <1>2 DEF TypeOK, Goto, Placed, Places
<1> QED
  BY <1>1, <1>2

LEMMA UnlockTyped ==
  ASSUME TypeOK, NEW t \in Tasks, NEW p \in Places \ {"write", "append"}, Unlock(t, p),
         pc[t] = "write", payload' = payload
  PROVE  Placed'
<1>1. owner' = "none" /\ pc' = [pc EXCEPT ![t] = p] /\ owner = t
  BY DEF TypeOK, Unlock, Goto
<1>2. \A u \in Tasks : pc'[u] # "write"
  BY <1>1 DEF TypeOK
<1> QED
  BY <1>1, <1>2, TwoTasks DEF TypeOK, Placed, Places

LEMMA EndTyped ==
  ASSUME TypeOK, NEW t \in Tasks, EndRound(t)
  PROVE  late' \in [Tasks -> SUBSET (1..MaxEvents)]
BY DEF TypeOK, EndRound

LEMMA GiveUpTyped ==
  ASSUME TypeOK, NEW t \in Tasks, GiveUp(t), pc[t] = "write", payload' = payload
  PROVE  Placed' /\ late' \in [Tasks -> SUBSET (1..MaxEvents)]
BY UnlockTyped, EndTyped DEF GiveUp, Places

LEMMA FaultCounted == TypeOK /\ Fault => faults' \in 0..MaxFaults
BY OutboxAssumption DEF TypeOK, Fault

LEMMA ForwardTyped ==
  ASSUME TypeOK, Forward
  PROVE  TypeOK'
<1> DEFINE e == forwarded + 1
<1>1. e \in 1..MaxEvents /\ forwarded' = e /\ Loop \in Tasks
  BY OutboxAssumption, TwoTasks DEF TypeOK, Forward
<1>2. Append(batch, e) \in Line
  <2> DEFINE Known == 1..MaxEvents
  <2>1. batch \in Seq(Known) /\ e \in Known
    BY <1>1 DEF TypeOK
  <2>2. Line = Seq(Known) \ {<<>>}
    BY DEF Line
  <2> HIDE DEF Known, e
  <2> QED
    BY <2>1, <2>2, RangeAppend
<1>3. forwarded' \in 0..MaxEvents
  BY <1>1, OutboxAssumption
<1> HIDE DEF e
<1>4. UNCHANGED <<outbox, stream, owner, flight, pend, conns, forced, breaks, crashes, faults,
                  dropped, overtaken>>
  BY DEF Forward, counters
<1>5. CASE batch' = <<>> /\ Take(Loop, FullLine(e))
  <2>1. batch' \in Seq(1..MaxEvents)
    BY <1>5, EmptySeq
  <2>2. Placed' /\ late' \in [Tasks -> SUBSET (1..MaxEvents)]
    BY <1>1, <1>2, <1>4, <1>5, TakeTyped DEF Forward, FullLine
  <2> QED
    BY <1>3, <1>4, <2>1, <2>2 DEF TypeOK, Placed, Places
<1>6. CASE batch' = Append(batch, e) /\ UNCHANGED <<payload, late, pc>>
  <2>1. batch' \in Seq(1..MaxEvents)
    BY <1>2, <1>6 DEF Line
  <2> QED
    BY <1>3, <1>4, <1>6, <2>1 DEF TypeOK
<1> QED
  BY <1>5, <1>6 DEF Forward, e

LEMMA TickTyped ==
  ASSUME TypeOK, Tick
  PROVE  TypeOK'
<1>1. CASE batch = <<>>
  <2>1. Placed'
    BY <1>1, TwoTasks, GotoTyped DEF Tick, Places
  <2> QED
    BY <1>1, <2>1 DEF Tick, TypeOK, Placed, Places, counters
<1>2. CASE batch # <<>>
  <2>1. batch \in Line /\ batch' = <<>> /\ batch' \in Seq(1..MaxEvents)
    BY <1>2, EmptySeq DEF TypeOK, Line, Tick
  <2>2. Placed' /\ late' \in [Tasks -> SUBSET (1..MaxEvents)]
    BY <1>2, <2>1, TwoTasks, TakeTyped DEF Tick
  <2> QED
    BY <2>1, <2>2 DEF Tick, TypeOK, Placed, Places, counters
<1> QED
  BY <1>1, <1>2

LEMMA LandTyped ==
  ASSUME TypeOK, NEW w \in flight, Land(w) \/ WriteFails(w)
  PROVE  TypeOK'
<1>1. w \in Flights /\ flight' \subseteq Flights
  BY DEF TypeOK, Land, WriteFails, Flights
<1>2. Range(w.line) \subseteq 1..MaxEvents
  BY <1>1, LinesInside DEF Flights
<1>3. CASE Land(w)
  <2>1. outbox' \in Seq(Line)
    BY <1>1, <1>3, AppendProperties DEF TypeOK, Land, Flights
  <2> QED
    BY <1>1, <1>3, <2>1 DEF TypeOK, Land, counters, history, Flights
<1>4. CASE WriteFails(w)
  BY <1>1, <1>2, <1>4, FaultCounted DEF TypeOK, WriteFails, Flights
<1> QED
  BY <1>3, <1>4

LEMMA LocalTyped ==
  ASSUME TypeOK, NEW t \in Tasks,
         AppendLine(t) \/ AppendFails(t) \/ Read(t) \/ ReadFails(t) \/ ClearFails(t)
  PROVE  TypeOK'
<1>1. CASE AppendLine(t)
  <2>1. Placed'
    BY <1>1, GotoTyped DEF AppendLine, Places
  <2>2. payload[t] \in Line
    BY <1>1 DEF AppendLine, TypeOK
  <2>3. [line |-> payload[t], gone |-> FALSE] \in Flights
    BY <2>2 DEF Flights
  <2>4. flight' \subseteq Flights
    BY <1>1, <2>3 DEF AppendLine, TypeOK, Flights
  <2> QED
    BY <1>1, <2>1, <2>4 DEF AppendLine, TypeOK, Placed, Places, counters, history, Flights
<1>2. CASE AppendFails(t)
  <2>1. Range(payload[t]) \subseteq 1..MaxEvents
    BY <1>2, LinesInside, NoLineEmpty DEF TypeOK
  <2>2. Placed'
    BY <1>2, GotoTyped DEF AppendFails, Places
  <2> QED
    BY <1>2, <2>1, <2>2, FaultCounted DEF AppendFails, TypeOK, Placed, Places
<1>3. CASE Read(t)
  <2>1. Placed'
    BY <1>3, GotoTyped DEF Read, Places
  <2>2. InHand \cup InFlight \subseteq 1..MaxEvents
    BY MemoryInside DEF InMemory
  <2>3. late' \in [Tasks -> SUBSET (1..MaxEvents)]
    BY <1>3, <2>2 DEF Read, TypeOK
  <2> QED
    BY <1>3, <2>1, <2>3 DEF Read, TypeOK, Placed, Places, counters
<1>4. CASE ReadFails(t)
  <2>1. Placed'
    BY <1>4, GotoTyped DEF ReadFails, Places
  <2> QED
    BY <1>4, <2>1, FaultCounted DEF ReadFails, TypeOK, Placed, Places, history
<1>5. CASE ClearFails(t)
  <2>1. Placed'
    BY <1>5, GotoTyped DEF ClearFails, Places
  <2> QED
    BY <1>5, <2>1, FaultCounted, EndTyped DEF ClearFails, TypeOK, Placed, Places
<1> QED
  BY <1>1, <1>2, <1>3, <1>4, <1>5

LEMMA LockTyped ==
  ASSUME TypeOK, NEW t \in Tasks, Lock(t)
  PROVE  TypeOK'
<1>1. owner' = t /\ pc' = [pc EXCEPT ![t] = "write"] /\ \A u \in Tasks : pc[u] # "write"
  BY TwoTasks DEF TypeOK, Lock, Goto
<1>2. Placed'
  BY <1>1 DEF TypeOK, Placed, Places, Lock
<1> QED
  BY <1>2 DEF TypeOK, Lock, counters, history, Placed, Places

LEMMA ClearTyped ==
  ASSUME TypeOK, NEW t \in Tasks, Clear(t)
  PROVE  TypeOK'
<1>1. outbox' \in Seq(Line)
  BY EmptySeq DEF Clear, AfterClear
<1>2. flight' \subseteq Flights
  BY DEF TypeOK, Clear, Flights
<1>3. overtaken' \subseteq 1..MaxEvents
  BY DEF TypeOK, Clear
<1>4. Placed'
  BY GotoTyped DEF Clear, Places
<1> QED
  BY <1>1, <1>2, <1>3, <1>4, EndTyped DEF TypeOK, Clear, counters, Placed, Places, Flights

(* What read_all returned may be written to a connection.                  *)
LEMMA PendingItems ==
  ASSUME TypeOK, NEW t \in Tasks
  PROVE  /\ pend[t] \in Seq(Line) /\ pend[t] \in Seq(Line \cup {Key})
         /\ \A k \in 0..Len(pend[t]) : SubSeq(pend[t], 1, k) \in Seq(Line \cup {Key})
BY PrefixTyped, SeqMonotonic DEF TypeOK

LEMMA SendTyped ==
  ASSUME TypeOK, NEW t \in Tasks, SendOk(t) \/ SendFails(t)
  PROVE  TypeOK' /\ Written \subseteq Written'
<1>1. /\ pc[t] = "write" /\ stream \in 1..Len(conns) /\ conns \in Seq(Conns)
      /\ Len(conns) \in Nat
  BY LenProperties DEF SendOk, SendFails, TypeOK, Conns, NoConn
<1>2. PICK items \in Seq(Line \cup {Key}) : Write(stream, items)
  BY PendingItems DEF SendOk, SendFails
<1>3. conns' \in Seq(Conns) /\ Len(conns') = Len(conns) /\ Written \subseteq Written'
  BY <1>1, <1>2, WriteGrows
<1>4. CASE SendOk(t)
  <2>1. Placed'
    BY <1>1, <1>4, UnlockTyped DEF SendOk, Places
  <2> QED
    BY <1>1, <1>3, <1>4, <2>1 DEF SendOk, TypeOK, counters, history, Placed, Places, Conns
<1>5. CASE SendFails(t)
  <2>1. Placed' /\ late' \in [Tasks -> SUBSET (1..MaxEvents)]
    BY <1>1, <1>5, GiveUpTyped DEF SendFails
  <2>2. faults' \in 0..MaxFaults
    BY <1>5, FaultCounted DEF SendFails, TypeOK
  <2>3. /\ stream' = 0
        /\ UNCHANGED <<batch, outbox, flight, pend, forced, breaks, crashes, forwarded, dropped,
                       overtaken>>
    BY <1>5 DEF SendFails, NoConn
  <2>4. stream' \in 0..Len(conns')
    BY <1>1, <1>3, <2>3
  <2>5. TypeOK'
    BY <1>3, <2>1, <2>2, <2>3, <2>4 DEF TypeOK, Placed, Places, Conns
  <2> QED
    BY <1>3, <2>5
<1> QED
  BY <1>3, <1>4, <1>5

LEMMA StreamTyped ==
  ASSUME TypeOK, NoStream \/ Reconnect \/ ReconnectFails \/ FirstWriteFails \/ ForcedDrop
  PROVE  TypeOK' /\ Written \subseteq Written'
<1>1. conns \in Seq(Conns) /\ Len(conns) \in Nat
  BY LenProperties DEF TypeOK, Conns
<1>2. CASE NoStream
  <2>1. Placed' /\ late' \in [Tasks -> SUBSET (1..MaxEvents)]
    BY <1>2, TwoTasks, GiveUpTyped DEF NoStream
  <2> QED
    BY <1>2, <2>1 DEF NoStream, TypeOK, counters, Placed, Places, Written
<1>3. CASE ReconnectFails
  <2>1. Placed' /\ late' \in [Tasks -> SUBSET (1..MaxEvents)]
    BY <1>3, TwoTasks, GiveUpTyped DEF ReconnectFails
  <2> QED
    BY <1>3, <2>1 DEF ReconnectFails, TypeOK, counters, Placed, Places, Written
<1>4. CASE ForcedDrop
  BY <1>1, <1>4, OutboxAssumption DEF ForcedDrop, TypeOK, history, Written, NoConn
<1>5. CASE Reconnect
  <2>1. /\ conns' \in Seq(Conns) /\ Len(conns') = Len(conns) + 1 /\ Written \subseteq Written'
    BY <1>1, <1>5, TwoTasks, PendingItems, OpenedGrows DEF Reconnect, FirstItems
  <2>2. stream' \in 0..Len(conns')
    BY <1>1, <1>5, <2>1 DEF Reconnect
  <2>3. Placed'
    BY <1>5, TwoTasks, UnlockTyped DEF Reconnect, Places
  <2> QED
    BY <1>5, <2>1, <2>2, <2>3 DEF Reconnect, TypeOK, counters, history, Placed, Places, Conns
<1>6. CASE FirstWriteFails
  <2>1. PICK items \in Seq(Line \cup {Key}) : conns' = Opened(items)
    BY <1>6, TwoTasks, PendingItems DEF FirstWriteFails, FirstItems
  <2>2. /\ conns' \in Seq(Conns) /\ Len(conns') = Len(conns) + 1 /\ Written \subseteq Written'
    BY <1>1, <2>1, OpenedGrows
  <2>3. Placed' /\ late' \in [Tasks -> SUBSET (1..MaxEvents)]
    BY <1>6, TwoTasks, GiveUpTyped DEF FirstWriteFails
  <2>4. faults' \in 0..MaxFaults
    BY <1>6, FaultCounted DEF FirstWriteFails
  <2>5. stream' = 0 /\ stream' \in 0..Len(conns')
    BY <1>1, <1>6, <2>2 DEF FirstWriteFails, NoConn
  <2> QED
    BY <1>6, <2>2, <2>3, <2>4, <2>5 DEF FirstWriteFails, TypeOK, Placed, Places, Conns
<1> QED
  BY <1>2, <1>3, <1>4, <1>5, <1>6

LEMMA BreakTyped ==
  ASSUME TypeOK, NEW c \in 1..Len(conns), Break(c)
  PROVE  TypeOK' /\ Written \subseteq Written'
<1> DEFINE d == [conns[c] EXCEPT !.open = FALSE]
<1>1. conns \in Seq(Conns) /\ conns[c] \in Conns /\ Len(conns) \in Nat
  BY ElementOfSeq, LenProperties DEF TypeOK, Conns
<1>2. d \in Conns /\ d.sent = conns[c].sent /\ conns' = [conns EXCEPT ![c] = d]
  BY <1>1 DEF Conns, Break
<1> HIDE DEF d
<1>3. /\ conns' \in Seq(Conns) /\ Len(conns') = Len(conns)
      /\ \A i \in 1..Len(conns) : conns'[i] = IF i = c THEN d ELSE conns[i]
  BY <1>1, <1>2, ExceptSeq
<1>4. Written' = Written
  BY <1>2, <1>3 DEF Written
<1>5. breaks' \in 0..MaxBreaks /\ stream' \in 0..Len(conns')
  <2>1. /\ breaks < MaxBreaks /\ breaks' = breaks + 1 /\ UNCHANGED agentVars
        /\ UNCHANGED <<forced, crashes, faults, history>>
    BY DEF Break
  <2> QED
    BY <1>1, <1>3, <2>1, OutboxAssumption DEF TypeOK, agentVars
<1>6. UNCHANGED agentVars /\ UNCHANGED <<forced, crashes, faults, history>>
  BY DEF Break
<1> QED
  BY <1>3, <1>4, <1>5, <1>6 DEF TypeOK, agentVars, history, Conns

LEMMA CrashTyped ==
  ASSUME TypeOK, CrashAndRestart
  PROVE  TypeOK' /\ Written \subseteq Written'
<1>1. conns \in Seq(Conns) /\ Len(conns) \in Nat
  BY LenProperties DEF TypeOK, Conns
<1>2. <<Key>> \in Seq(Line \cup {Key})
  OBVIOUS
<1>3. /\ conns' \in Seq(Conns) /\ stream' \in 0..Len(conns') /\ Written \subseteq Written'
  <2>1. CASE stream' = NoConn /\ UNCHANGED conns
    BY <1>1, <2>1 DEF Written, NoConn
  <2>2. CASE conns' = Opened(<<Key>>) /\ stream' = Len(conns) + 1
    <3>1. Len(conns') = Len(conns) + 1 /\ conns' \in Seq(Conns) /\ Written \subseteq Written'
      BY <1>1, <1>2, <2>2, OpenedGrows
    <3> QED
      BY <1>1, <2>2, <3>1
  <2> QED
    BY <2>1, <2>2 DEF CrashAndRestart
<1>4. InMemory \subseteq 1..MaxEvents
  BY MemoryInside
<1>5. /\ batch' \in Seq(1..MaxEvents) /\ pend' \in [Tasks -> Seq(Line)]
      /\ flight' \subseteq Flights /\ late' \in [Tasks -> SUBSET (1..MaxEvents)]
  BY EmptySeq DEF CrashAndRestart
<1>6. Placed'
  BY TwoTasks DEF CrashAndRestart, Placed, Places
<1>7. crashes' \in 0..MaxCrashes
  BY OutboxAssumption DEF CrashAndRestart, TypeOK
<1> QED
  BY <1>3, <1>4, <1>5, <1>6, <1>7
     DEF CrashAndRestart, TypeOK, Conns, Placed, Places, Flights

LEMMA StepTyped == TypeOK /\ [Next]_vars => TypeOK'
<1> SUFFICES ASSUME TypeOK, [Next]_vars PROVE TypeOK'
  OBVIOUS
<1>1. CASE UNCHANGED vars
  BY <1>1 DEF vars, agentVars, counters, history, TypeOK
<1> QED
  BY <1>1, TwoTasks, ForwardTyped, TickTyped, LandTyped, LocalTyped, LockTyped, ClearTyped,
     SendTyped, StreamTyped, BreakTyped, CrashTyped
     DEF Next, AgentNext, TimerStep, LoopStep, DiskStep, Step

LEMMA InitTyped == Init => TypeOK
<1> SUFFICES ASSUME Init PROVE TypeOK
  OBVIOUS
<1>1. \A S : <<>> \in Seq(S)
  BY EmptySeq
<1>2. <<>> \in Seq(Line)
  BY <1>1
<1>3. /\ conns \in Seq([sent : Seq(Line \cup {Key}), open : BOOLEAN])
      /\ stream \in 0..Len(conns)
  <2>1. CASE stream = NoConn /\ conns = <<>>
    BY <1>1, <2>1, EmptySeq DEF NoConn
  <2>2. CASE stream = 1 /\ conns = <<[sent |-> <<Key>>, open |-> TRUE]>>
    <3>1. <<Key>> \in Seq(Line \cup {Key})
      OBVIOUS
    <3>2. [sent |-> <<Key>>, open |-> TRUE] \in [sent : Seq(Line \cup {Key}), open : BOOLEAN]
      BY <3>1
    <3> HIDE DEF Key
    <3> QED
      BY <2>2, <3>2
  <2> QED
    BY <2>1, <2>2 DEF Init, Connected
<1> QED
  BY <1>1, <1>2, <1>3, TwoTasks, OutboxAssumption DEF Init, TypeOK

(* The agent's state keeps its type; the task that writes is the one that  *)
(* holds the stream's mutex.                                               *)
THEOREM OutboxTypeCorrect == Spec => []TypeOK
BY InitTyped, StepTyped, PTL DEF Spec

-----------------------------------------------------------------------------
(***************************************************************************)
(* Only clear loses an event.                                              *)
(***************************************************************************)
Keeps == Accounted \cup (forwarded + 1)..forwarded' \subseteq Accounted'

LEMMA NothingNew == TypeOK /\ forwarded' = forwarded => (forwarded + 1)..forwarded' = {}
BY OutboxAssumption DEF TypeOK

LEMMA SameHeld ==
  ASSUME TypeOK, UNCHANGED <<batch, outbox, payload, flight, forwarded>>,
         Written \subseteq Written', dropped \subseteq dropped'
  PROVE  Keeps
<1>1. Held' = Held
  BY DEF Held, InHand, Attached
<1> QED
  BY <1>1, NothingNew DEF Keeps, Accounted

(* A task that takes a payload has the events of its line in hand.         *)
LEMMA Taken ==
  ASSUME TypeOK, NEW t \in Tasks, NEW line, Take(t, line), pc[t] = "idle"
  PROVE  InHand' = InHand \cup Range(line)
<1>1. payload[t] = NoLine /\ payload' = [payload EXCEPT ![t] = line]
  BY DEF Take, TypeOK
<1>2. payload'[t] = line /\ \A u \in Tasks \ {t} : payload'[u] = payload[u]
  BY <1>1 DEF TypeOK
<1> QED
  BY <1>1, <1>2, NoLineEmpty DEF InHand

(* A task that has its line no more in hand.                               *)
LEMMA LetGo ==
  ASSUME TypeOK, NEW t \in Tasks, payload' = [payload EXCEPT ![t] = NoLine]
  PROVE  InHand' \subseteq InHand /\ InHand \subseteq InHand' \cup Range(payload[t])
<1>1. payload'[t] = NoLine /\ \A u \in Tasks \ {t} : payload'[u] = payload[u]
  BY DEF TypeOK
<1> QED
  BY <1>1, NoLineEmpty DEF InHand

LEMMA ForwardKeeps ==
  ASSUME TypeOK, Forward
  PROVE  Keeps
<1> DEFINE e == forwarded + 1
<1>1. /\ e \in 1..MaxEvents /\ forwarded' = e /\ Loop \in Tasks
      /\ (forwarded + 1)..forwarded' = {e}
  BY OutboxAssumption, TwoTasks DEF TypeOK, Forward
<1> HIDE DEF e
<1>2. Range(Append(batch, e)) = Range(batch) \cup {e}
  <2> DEFINE Known == 1..MaxEvents
  <2>1. batch \in Seq(Known) /\ e \in Known
    BY <1>1 DEF TypeOK
  <2> HIDE DEF Known
  <2> QED
    BY <2>1, RangeAppend
<1>3. /\ outbox' = outbox /\ flight' = flight /\ Written' = Written /\ dropped' = dropped
  BY DEF Forward, Written
<1>4. Held \cup {e} \subseteq Held'
  <2>1. CASE Take(Loop, Append(batch, e))
    BY <1>1, <1>2, <1>3, <2>1, Taken DEF Held, Forward, Attached
  <2>2. CASE batch' = Append(batch, e) /\ UNCHANGED payload
    BY <1>2, <1>3, <2>2 DEF Held, InHand, Attached
  <2> QED
    BY <2>1, <2>2 DEF Forward, FullLine, e
<1> QED
  BY <1>1, <1>3, <1>4 DEF Keeps, Accounted

LEMMA TickKeeps ==
  ASSUME TypeOK, Tick
  PROVE  Keeps
<1>1. /\ outbox' = outbox /\ flight' = flight /\ Written' = Written /\ dropped' = dropped
      /\ forwarded' = forwarded
  BY DEF Tick, Written
<1>2. CASE batch = <<>>
  BY <1>1, <1>2, SameHeld DEF Tick
<1>3. CASE batch # <<>>
  <2>1. Held \subseteq Held'
    BY <1>1, <1>3, TwoTasks, Taken DEF Tick, Held, Attached
  <2> QED
    BY <1>1, <2>1, NothingNew DEF Keeps, Accounted
<1> QED
  BY <1>2, <1>3

LEMMA AppendKeeps ==
  ASSUME TypeOK, NEW t \in Tasks, AppendLine(t)
  PROVE  Keeps
<1> DEFINE w == [line |-> payload[t], gone |-> FALSE]
<1>1. /\ batch' = batch /\ outbox' = outbox /\ Written' = Written /\ dropped' = dropped
      /\ forwarded' = forwarded /\ flight' = flight \cup {w}
  BY DEF AppendLine, Written, history
<1>2. InHand \subseteq InHand' \cup Range(payload[t])
  BY LetGo DEF AppendLine
<1>3. Attached \cup Range(payload[t]) \subseteq Attached'
  <2>1. w.line = payload[t] /\ ~w.gone
    OBVIOUS
  <2> HIDE DEF w
  <2> QED
    BY <1>1, <2>1 DEF Attached
<1>4. Held \subseteq Held'
  BY <1>1, <1>2, <1>3 DEF Held
<1> QED
  BY <1>1, <1>4, NothingNew DEF Keeps, Accounted

LEMMA LandKeeps ==
  ASSUME TypeOK, NEW w \in flight, Land(w)
  PROVE  Keeps
<1>1. /\ batch' = batch /\ payload' = payload /\ Written' = Written /\ dropped' = dropped
      /\ forwarded' = forwarded /\ flight' = flight \ {w} /\ w.line \in Line
  BY DEF TypeOK, Land, Written, history
<1>2. EventsIn(outbox') =
        EventsIn(outbox) \cup (IF w.gone THEN {} ELSE Range(w.line))
  <2>1. EventsIn(Append(outbox, w.line)) = EventsIn(outbox) \cup Range(w.line)
    BY <1>1, EventsAppend DEF TypeOK
  <2> QED
    BY <2>1 DEF Land
<1>3. Attached \subseteq Attached' \cup (IF w.gone THEN {} ELSE Range(w.line))
  BY <1>1 DEF Attached
<1>4. EventsIn(outbox)' = EventsIn(outbox')
  BY DEF EventsIn
<1>5. Held \subseteq Held'
  BY <1>1, <1>2, <1>3, <1>4 DEF Held, InHand
<1> QED
  BY <1>1, <1>5, NothingNew DEF Keeps, Accounted

LEMMA FailedWriteKeeps ==
  ASSUME TypeOK, NEW w \in flight, WriteFails(w)
  PROVE  Keeps
<1>1. /\ batch' = batch /\ payload' = payload /\ Written' = Written /\ outbox' = outbox
      /\ forwarded' = forwarded /\ flight' = flight \ {w}
      /\ dropped' = dropped \cup Range(w.line)
  BY DEF TypeOK, WriteFails, Written
<1>2. Attached \subseteq Attached' \cup Range(w.line)
  BY <1>1 DEF Attached
<1>3. Held \subseteq Held' \cup dropped'
  BY <1>1, <1>2 DEF Held, InHand
<1> QED
  BY <1>1, <1>3, NothingNew DEF Keeps, Accounted

LEMMA AppendFailsKeeps ==
  ASSUME TypeOK, NEW t \in Tasks, AppendFails(t)
  PROVE  Keeps
<1>1. /\ batch' = batch /\ outbox' = outbox /\ flight' = flight /\ Written' = Written
      /\ dropped' = dropped \cup Range(payload[t]) /\ forwarded' = forwarded
  BY DEF TypeOK, AppendFails, Written
<1>2. InHand \subseteq InHand' \cup Range(payload[t])
  BY LetGo DEF AppendFails
<1>3. Held \subseteq Held' \cup dropped'
  BY <1>1, <1>2 DEF Held, Attached
<1> QED
  BY <1>1, <1>3, NothingNew DEF Keeps, Accounted

(* What a crash takes from memory is counted as dropped.                   *)
LEMMA CrashKeeps ==
  ASSUME TypeOK, CrashAndRestart
  PROVE  Keeps
<1>1. outbox' = outbox /\ forwarded' = forwarded /\ dropped' = dropped \cup InMemory
  BY DEF CrashAndRestart
<1>2. Range(batch) \cup InHand \cup Attached \subseteq InMemory
  BY DEF Attached, InFlight, InMemory
<1>3. Held \subseteq Held' \cup dropped'
  BY <1>1, <1>2 DEF Held
<1> QED
  BY <1>1, <1>3, CrashTyped, NothingNew DEF Keeps, Accounted

(* Every step but clear accounts for every event.                          *)
LEMMA OthersKeep ==
  ASSUME TypeOK, [Next]_vars, \A t \in Tasks : ~Clear(t)
  PROVE  Keeps
<1>1. CASE UNCHANGED vars
  BY <1>1, SameHeld DEF vars, agentVars, history, Written
<1>2. ASSUME NEW t \in Tasks, Read(t) \/ ReadFails(t) \/ Lock(t) \/ ClearFails(t)
      PROVE  Keeps
  BY <1>2, SameHeld DEF Read, ReadFails, Lock, ClearFails, counters, history, Written
<1>3. ASSUME NEW t \in Tasks, SendOk(t) \/ SendFails(t)
      PROVE  Keeps
  BY <1>3, SendTyped, SameHeld DEF SendOk, SendFails, history
<1>4. ASSUME NoStream \/ Reconnect \/ ReconnectFails \/ FirstWriteFails \/ ForcedDrop
      PROVE  Keeps
  BY <1>4, StreamTyped, SameHeld
     DEF NoStream, Reconnect, ReconnectFails, FirstWriteFails, ForcedDrop, history
<1>5. ASSUME NEW c \in 1..Len(conns), Break(c)
      PROVE  Keeps
  BY <1>5, BreakTyped, SameHeld DEF Break, agentVars, history
<1> QED
  BY <1>1, <1>2, <1>3, <1>4, <1>5, TwoTasks, ForwardKeeps, TickKeeps, AppendKeeps,
     LandKeeps, FailedWriteKeeps, AppendFailsKeeps, CrashKeeps
     DEF Next, AgentNext, TimerStep, LoopStep, DiskStep, Step

LEMMA StepKeeps ==
  ASSUME TypeOK, [Next]_vars, \A t \in Tasks : pc[t] = "clear" => pc'[t] = "clear"
  PROVE  Keeps
<1>1. \A t \in Tasks : ~Clear(t)
  BY DEF Clear, Goto, TypeOK
<1> QED
  BY <1>1, OthersKeep

(* Whatever the tasks, the connections, the errors and the crashes do, an  *)
(* event that forward was given leaves the agent's hands only onto a       *)
(* connection, into its log of losses, or by DurableOutbox::clear.         *)
THEOREM OnlyClearCanLose == Spec => OnlyClearLoses
<1>1. TypeOK /\ [Next]_vars =>
        [(\A t \in Tasks : pc[t] = "clear" => pc'[t] = "clear") =>
           Accounted \cup (forwarded + 1)..forwarded' \subseteq Accounted']_vars
  BY StepKeeps DEF Keeps
<1> QED
  BY <1>1, OutboxTypeCorrect, PTL DEF Spec, OnlyClearLoses

-----------------------------------------------------------------------------
(***************************************************************************)
(* What a step does to the connections, one by one.                        *)
(***************************************************************************)
LEMMA EventsConcatAre ==
  ASSUME NEW S, NEW q \in Seq(S), NEW r \in Seq(S)
  PROVE  EventsIn(q \o r) = EventsIn(q) \cup EventsIn(r)
<1>1. /\ Len(q) \in Nat /\ Len(r) \in Nat /\ Len(q \o r) = Len(q) + Len(r)
      /\ \A i \in 1..(Len(q) + Len(r)) :
           (q \o r)[i] = IF i <= Len(q) THEN q[i] ELSE r[i - Len(q)]
  BY ConcatProperties, LenProperties
<1>2. \A i \in 1..(Len(q) + Len(r)) : i <= Len(q) \/ i - Len(q) \in 1..Len(r)
  BY <1>1
<1>3. \A i \in 1..Len(r) : /\ i + Len(q) \in 1..(Len(q) + Len(r))
                           /\ (q \o r)[i + Len(q)] = r[i]
  BY <1>1
<1>4. EventsIn(q \o r) \subseteq EventsIn(q) \cup EventsIn(r)
  BY <1>1, <1>2 DEF EventsIn
<1>5. ASSUME NEW i \in 1..Len(r)
      PROVE  Range(r[i]) \subseteq EventsIn(q \o r)
  <2>1. /\ i + Len(q) \in 1..Len(q \o r)
        /\ (q \o r)[i + Len(q)] = r[i]
    BY <1>1, <1>3
  <2> QED
    BY <2>1 DEF EventsIn
<1>6. EventsIn(r) \subseteq EventsIn(q \o r)
  BY <1>5 DEF EventsIn
<1> QED
  BY <1>4, <1>6, EventsConcat
(* A prefix of lines: the first k of q.                                    *)
LEMMA PrefixLines ==
  ASSUME NEW q \in Seq(Line), NEW k \in 0..Len(q)
  PROVE  LET p == SubSeq(q, 1, k) IN
         /\ p \in Seq(Line) /\ Len(p) = k /\ \A i \in 1..k : p[i] = q[i]
<1>1. Len(q) \in Nat /\ \A i \in 1..Len(q) : q[i] \in Line
  BY LenProperties, ElementOfSeq
<1> QED
  BY <1>1, PrefixTyped, SubSeqProperties
(* What the steps of the agent do to the connections, one by one.          *)
LEMMA OpenedOne ==
  ASSUME conns \in Seq(Conns), NEW items \in Seq(Line \cup {Key}), conns' = Opened(items)
  PROVE  /\ Len(conns) \in Nat /\ Len(conns') = Len(conns) + 1
         /\ \A c \in 1..Len(conns) : conns'[c] = conns[c]
         /\ conns'[Len(conns) + 1].sent = items /\ conns'[Len(conns) + 1].open
<1> DEFINE new == [sent |-> items, open |-> TRUE]
<1>1. new \in Conns /\ conns' = Append(conns, new)
  BY DEF Conns, Opened
<1> HIDE DEF new
<1>2. /\ Len(conns) \in Nat /\ Len(conns') = Len(conns) + 1
      /\ \A c \in 1..Len(conns) : conns'[c] = conns[c]
      /\ conns'[Len(conns) + 1] = new
  BY <1>1, AppendProperties, LenProperties
<1> QED
  BY <1>2 DEF new

LEMMA WroteOne ==
  ASSUME conns \in Seq(Conns), NEW c \in 1..Len(conns), NEW items, Write(c, items)
  PROVE  /\ Len(conns) \in Nat /\ Len(conns') = Len(conns)
         /\ \A d \in 1..Len(conns) :
              /\ conns'[d].open = conns[d].open
              /\ conns'[d].sent = IF d = c THEN conns[d].sent \o items ELSE conns[d].sent
<1>1. conns[c] \in Conns /\ Len(conns) \in Nat /\ DOMAIN conns = 1..Len(conns)
  BY ElementOfSeq, LenProperties
<1> DEFINE new == [conns[c] EXCEPT !.sent = @ \o items]
<1>2. new.sent = conns[c].sent \o items /\ new.open = conns[c].open
  BY <1>1 DEF Conns
<1>3. conns' = [conns EXCEPT ![c] = new]
  BY DEF Write
<1> HIDE DEF new
<1>4. /\ DOMAIN conns' = 1..Len(conns)
      /\ \A d \in 1..Len(conns) : conns'[d] = IF d = c THEN new ELSE conns[d]
  BY <1>1, <1>3
<1>5. conns' \in Seq({conns'[d] : d \in 1..Len(conns)})
  <2>1. conns' \in [1..Len(conns) -> {conns'[d] : d \in 1..Len(conns)}]
    BY <1>1, <1>3, <1>4
  <2> QED
    BY <1>1, <2>1, SeqDef
<1>6. Len(conns') = Len(conns)
  BY <1>1, <1>4, <1>5, LenProperties
<1> QED
  BY <1>1, <1>2, <1>4, <1>6


(* What the network and the pipeline do: they close connections.           *)
Quiet ==
  /\ UNCHANGED <<agentVars, forwarded, late, overtaken>>
  /\ Len(conns') = Len(conns)
  /\ \A c \in 1..Len(conns) : conns'[c].sent = conns[c].sent

Closes(c) == conns' = [conns EXCEPT ![c].open = FALSE]

LEMMA ClosesOne ==
  ASSUME TypeOK, NEW c \in 1..Len(conns), Closes(c)
  PROVE  /\ conns' \in Seq(Conns) /\ Len(conns') = Len(conns)
         /\ \A d \in 1..Len(conns) :
              /\ conns'[d].sent = conns[d].sent
              /\ conns'[d].open = IF d = c THEN FALSE ELSE conns[d].open
<1> DEFINE new == [conns[c] EXCEPT !.open = FALSE]
<1>1. conns \in Seq(Conns) /\ conns[c] \in Conns /\ Len(conns) \in Nat
  BY ElementOfSeq, LenProperties DEF TypeOK, Conns
<1>2. new \in Conns /\ new.sent = conns[c].sent /\ new.open = FALSE
  BY <1>1 DEF Conns
<1>3. conns' = [conns EXCEPT ![c] = new]
  BY DEF Closes
<1> HIDE DEF new
<1>4. /\ conns' \in Seq(Conns) /\ Len(conns') = Len(conns)
      /\ \A d \in 1..Len(conns) : conns'[d] = IF d = c THEN new ELSE conns[d]
  BY <1>1, <1>2, <1>3, ExceptSeq
<1> QED
  BY <1>2, <1>4

(* An agent's step, step by step.                                          *)
AgentStep ==
  \/ Forward \/ Tick \/ NoStream \/ ForcedDrop
  \/ Reconnect \/ ReconnectFails \/ FirstWriteFails \/ CrashAndRestart
  \/ \E w \in flight : Land(w) \/ WriteFails(w)
  \/ \E t \in Tasks : \/ AppendLine(t) \/ AppendFails(t) \/ Read(t) \/ ReadFails(t)
                      \/ Lock(t) \/ SendOk(t) \/ SendFails(t) \/ Clear(t) \/ ClearFails(t)

LEMMA AgentSteps == AgentNext => AgentStep
BY TwoTasks DEF AgentNext, AgentStep, TimerStep, LoopStep, DiskStep, Step

LEMMA WrittenKept ==
  ASSUME TypeOK, [Next]_vars
  PROVE  Written \subseteq Written'
<1>1. CASE UNCHANGED conns
  BY <1>1 DEF Written
<1>2. CASE Next
  <2>1. ASSUME NEW w \in flight, Land(w) \/ WriteFails(w) PROVE UNCHANGED conns
    BY <2>1 DEF Land, WriteFails
  <2>2. ASSUME NEW t \in Tasks, AppendLine(t) \/ AppendFails(t) \/ Read(t) \/ ReadFails(t)
                                  \/ Lock(t) \/ Clear(t) \/ ClearFails(t)
        PROVE UNCHANGED conns
    BY <2>2 DEF AppendLine, AppendFails, Read, ReadFails, Lock, Clear, ClearFails
  <2>3. ASSUME Forward \/ Tick PROVE UNCHANGED conns
    BY <2>3 DEF Forward, Tick
  <2> QED
    BY <1>1, <1>2, <2>1, <2>2, <2>3, AgentSteps, SendTyped, StreamTyped, BreakTyped, CrashTyped
       DEF Next, AgentStep
<1> QED
  BY <1>1, <1>2 DEF vars

(* What a step of the agent does to the connections: it writes lines to    *)
(* its stream, or opens a connection, with a key line only when it starts. *)
Opens ==
  LET n == Len(conns) + 1 IN
  /\ Len(conns') = n /\ n <= MaxConns
  /\ stream' = n \/ (stream' = NoConn /\ faults' # 0)
  /\ conns'[n].open
  /\ conns'[n].sent \in Seq(Line) \/ (conns'[n].sent = <<Key>> /\ crashes' # 0)

Grown ==
  /\ (Len(conns') = Len(conns) /\ stream' \in {stream, NoConn}) \/ Opens
  /\ \A c \in 1..Len(conns) :
       /\ \/ conns'[c].sent = conns[c].sent
          \/ c = stream /\ \E items \in Seq(Line) : conns'[c].sent = conns[c].sent \o items
       /\ conns'[c].open = conns[c].open \/ breaks' # 0

LEMMA ConnsGrow ==
  ASSUME TypeOK, [Next]_vars
  PROVE  Grown
<1>1. conns \in Seq(Conns) /\ Len(conns) \in Nat
  BY LenProperties DEF TypeOK, Conns
<1>2. CASE UNCHANGED conns /\ stream' \in {stream, NoConn}
  BY <1>2 DEF Grown
<1>3. ASSUME NEW t \in Tasks, SendOk(t) \/ SendFails(t)
      PROVE  Grown
  <2>1. stream \in 1..Len(conns) /\ stream' \in {stream, NoConn}
    BY <1>1, <1>3 DEF SendOk, SendFails, TypeOK, NoConn
  <2>2. PICK items \in Seq(Line) : Write(stream, items)
    BY <1>3, PendingItems, PrefixTyped DEF SendOk, SendFails
  <2> QED
    BY <1>1, <2>1, <2>2, WroteOne DEF Grown
<1>4. CASE Reconnect
  <2>1. /\ conns' = Opened(pend[Timer]) /\ stream' = Len(conns) + 1 /\ Len(conns) < MaxConns
        /\ pend[Timer] \in Seq(Line) /\ pend[Timer] \in Seq(Line \cup {Key})
    BY <1>4, TwoTasks, PendingItems DEF Reconnect, FirstItems
  <2> QED
    BY <1>1, <2>1, OpenedOne, OutboxAssumption DEF Grown, Opens
<1>5. CASE CrashAndRestart
  <2>1. crashes' # 0
    BY <1>5, OutboxAssumption DEF CrashAndRestart, TypeOK
  <2>2. CASE conns' = Opened(<<Key>>) /\ stream' = Len(conns) + 1 /\ Len(conns) < MaxConns
    <3>1. <<Key>> \in Seq(Line \cup {Key})
      OBVIOUS
    <3>2. /\ Len(conns') = Len(conns) + 1
          /\ \A c \in 1..Len(conns) : conns'[c] = conns[c]
          /\ conns'[Len(conns) + 1].sent = <<Key>> /\ conns'[Len(conns) + 1].open
      BY <1>1, <2>2, <3>1, OpenedOne
    <3>3. Opens
      BY <1>1, <2>1, <2>2, <3>2, OutboxAssumption DEF Opens
    <3> QED
      BY <3>2, <3>3 DEF Grown
  <2> QED
    BY <1>2, <1>5, <2>2 DEF CrashAndRestart
<1>6. CASE FirstWriteFails
  <2>1. PICK k \in 0..Len(pend[Timer]) : conns' = Opened(SubSeq(pend[Timer], 1, k))
    BY <1>6 DEF FirstWriteFails, FirstItems
  <2>2. PICK items \in Seq(Line) : items = SubSeq(pend[Timer], 1, k)
    BY TwoTasks, PendingItems, PrefixTyped
  <2>3. items \in Seq(Line \cup {Key})
    BY SeqMonotonic
  <2>4. faults' # 0 /\ stream' = NoConn /\ Len(conns) < MaxConns
    BY <1>6, OutboxAssumption DEF FirstWriteFails, Fault, TypeOK
  <2>5. /\ Len(conns') = Len(conns) + 1
        /\ \A c \in 1..Len(conns) : conns'[c] = conns[c]
        /\ conns'[Len(conns) + 1].sent = items /\ conns'[Len(conns) + 1].open
    BY <1>1, <2>1, <2>2, <2>3, OpenedOne
  <2>6. Opens
    BY <1>1, <2>4, <2>5, OutboxAssumption DEF Opens
  <2> QED
    BY <2>5, <2>6 DEF Grown
<1>7. ASSUME NEW c \in 1..Len(conns), Break(c)
      PROVE  Grown
  <2>1. stream' = stream /\ breaks' # 0 /\ Closes(c)
    BY <1>7, OutboxAssumption DEF Break, agentVars, Closes, TypeOK
  <2> QED
    BY <2>1, ClosesOne DEF Grown
<1>8. CASE UNCHANGED vars
  BY <1>2, <1>8 DEF vars, agentVars
<1>9. CASE Forward \/ Tick \/ ForcedDrop \/ NoStream \/ ReconnectFails
  BY <1>2, <1>9 DEF Forward, Tick, ForcedDrop, NoStream, ReconnectFails
<1>10. ASSUME NEW t \in Tasks,
             \/ AppendLine(t) \/ AppendFails(t) \/ Read(t) \/ ReadFails(t)
             \/ Lock(t) \/ Clear(t) \/ ClearFails(t)
      PROVE  Grown
  BY <1>2, <1>10 DEF AppendLine, AppendFails, Read, ReadFails, Lock, Clear, ClearFails
<1>11. ASSUME NEW w \in flight, Land(w) \/ WriteFails(w)
       PROVE  Grown
  BY <1>2, <1>11 DEF Land, WriteFails
<1> QED
  BY <1>3, <1>4, <1>5, <1>6, <1>7, <1>8, <1>9, <1>10, <1>11, AgentSteps DEF Next, AgentStep

(* Errors, breaks, crashes and forced reconnects are only ever counted up. *)
NoTrouble == crashes + breaks + faults = 0

LEMMA TroubleGrows ==
  ASSUME TypeOK, [Next]_vars
  PROVE  /\ crashes' >= crashes /\ breaks' >= breaks /\ faults' >= faults /\ forced' >= forced
         /\ dropped \subseteq dropped'
<1>1. crashes \in Nat /\ breaks \in Nat /\ faults \in Nat /\ forced \in Nat
  BY OutboxAssumption DEF TypeOK
<1> QED
  BY <1>1
     DEF Next, AgentNext, TimerStep, LoopStep, DiskStep, Step, Forward, Tick, Land, WriteFails,
         AppendFails, ReadFails, ClearFails, AppendLine, Read, Lock, Clear, SendOk, SendFails,
         NoStream, Reconnect, ReconnectFails, FirstWriteFails, ForcedDrop, CrashAndRestart,
         Break, counters, history, Fault, vars

LEMMA KeyIsNoLine == Key \notin Line
BY DEF Key, Line

LEMMA NoTroubleMeans ==
  ASSUME TypeOK
  PROVE  NoTrouble <=> crashes = 0 /\ breaks = 0 /\ faults = 0
<1>1. crashes \in Nat /\ breaks \in Nat /\ faults \in Nat
  BY OutboxAssumption DEF TypeOK
<1> QED
  BY <1>1 DEF NoTrouble

LEMMA ZeroSum == \A a, b, d \in Nat : a + b + d = 0 => a = 0 /\ b = 0 /\ d = 0
OBVIOUS

LEMMA NoTroubleAfter ==
  ASSUME TypeOK', NoTrouble'
  PROVE  crashes' = 0 /\ breaks' = 0 /\ faults' = 0
<1>1. crashes' \in Nat /\ breaks' \in Nat /\ faults' \in Nat
  BY OutboxAssumption DEF TypeOK
<1>2. crashes' + breaks' + faults' = 0
  BY DEF NoTrouble
<1> QED
  BY <1>1, <1>2, ZeroSum

-----------------------------------------------------------------------------
(***************************************************************************)
(* What clear removes: the lines that the task read and sent, and those    *)
(* whose append it did not see end.                                        *)
(***************************************************************************)
LateInv ==
  \A t \in Tasks : Sending(t) =>
    /\ InHand \cup InFlight \subseteq late[t]
    /\ EventsIn(outbox) \subseteq EventsIn(pend[t]) \cup late[t]

SentInv == \A t \in Tasks : pc[t] = "clear" => EventsIn(pend[t]) \subseteq Written

ClearInv == LateInv /\ SentInv /\ NothingClearedUnsent

(* A task comes to send by read_all, and keeps what it read till it clears. *)
KeepsOn(t) == pc'[t] \in {"lock", "write", "clear"} =>
                Sending(t) /\ pend'[t] = pend[t] /\ late[t] \subseteq late'[t]
KeepsClear(t) == pc'[t] = "clear" => pc[t] = "clear" /\ pend'[t] = pend[t]

(* A step that only moves events on towards the outbox, or out of it.      *)
LEMMA LateStays ==
  ASSUME LateInv, InHand' \cup InFlight' \subseteq InHand \cup InFlight,
         EventsIn(outbox)' \subseteq EventsIn(outbox) \cup InFlight,
         \A t \in Tasks : KeepsOn(t)
  PROVE  LateInv'
BY DEF LateInv, KeepsOn, Sending

LEMMA SentStays ==
  ASSUME SentInv, Written \subseteq Written', \A t \in Tasks : KeepsClear(t)
  PROVE  SentInv'
<1> SUFFICES ASSUME NEW t \in Tasks, pc'[t] = "clear" PROVE EventsIn(pend[t])' \subseteq Written'
  BY DEF SentInv
<1>1. pc[t] = "clear" /\ pend'[t] = pend[t]
  BY DEF KeepsClear
<1> QED
  BY <1>1 DEF SentInv, EventsIn

(* A task that takes a payload: the others have not read it.               *)
LEMMA TakeLate ==
  ASSUME TypeOK, LateInv, NEW t \in Tasks, NEW line, Take(t, line), pc[t] = "idle",
         UNCHANGED <<flight, outbox, pend>>
  PROVE  LateInv' /\ \A u \in Tasks : KeepsClear(u)
<1>1. /\ pc'[t] = "append" /\ \A u \in Tasks \ {t} : pc'[u] = pc[u]
      /\ \A u \in Tasks : Sending(u) => late'[u] = late[u] \cup Range(line)
  BY DEF Take, Goto, TypeOK
<1>2. InHand' = InHand \cup Range(line)
  BY Taken
<1>3. InFlight' = InFlight /\ EventsIn(outbox)' = EventsIn(outbox)
  BY DEF InFlight, EventsIn
<1>4. ASSUME NEW u \in Tasks, Sending(u)'
      PROVE  /\ (InHand \cup InFlight)' \subseteq late'[u]
             /\ EventsIn(outbox)' \subseteq EventsIn(pend[u])' \cup late'[u]
  <2>1. u # t /\ Sending(u)
    BY <1>1, <1>4 DEF Sending
  <2>2. EventsIn(pend[u])' = EventsIn(pend[u])
    BY DEF EventsIn
  <2> QED
    BY <1>1, <1>2, <1>3, <2>1, <2>2 DEF LateInv
<1> QED
  BY <1>1, <1>4 DEF LateInv, KeepsClear

LEMMA ForwardLate ==
  ASSUME TypeOK, LateInv, Forward
  PROVE  LateInv' /\ \A u \in Tasks : KeepsClear(u)
<1>1. Loop \in Tasks /\ pc[Loop] = "idle" /\ UNCHANGED <<flight, outbox, pend>>
  BY TwoTasks DEF Forward
<1>2. CASE Take(Loop, FullLine(forwarded + 1))
  BY <1>1, <1>2, TakeLate
<1>3. CASE UNCHANGED <<payload, late, pc>>
  <2>1. InHand' = InHand /\ InFlight' = InFlight /\ EventsIn(outbox)' = EventsIn(outbox)
    BY <1>1, <1>3 DEF InHand, InFlight, EventsIn
  <2>2. \A u \in Tasks : KeepsOn(u) /\ KeepsClear(u)
    BY <1>1, <1>3 DEF KeepsOn, KeepsClear, Sending
  <2> QED
    BY <2>1, <2>2, LateStays
<1> QED
  BY <1>2, <1>3 DEF Forward

LEMMA TickLate ==
  ASSUME TypeOK, LateInv, Tick
  PROVE  LateInv' /\ \A u \in Tasks : KeepsClear(u)
<1>1. Timer \in Tasks /\ pc[Timer] = "idle" /\ UNCHANGED <<flight, outbox, pend>>
  BY TwoTasks DEF Tick
<1>2. CASE batch # <<>>
  BY <1>1, <1>2, TakeLate DEF Tick
<1>3. CASE batch = <<>>
  <2>1. UNCHANGED <<payload, late>> /\ Goto(Timer, "read")
    BY <1>3 DEF Tick
  <2>2. InHand' = InHand /\ InFlight' = InFlight /\ EventsIn(outbox)' = EventsIn(outbox)
    BY <1>1, <2>1 DEF InHand, InFlight, EventsIn
  <2>3. \A u \in Tasks : KeepsOn(u) /\ KeepsClear(u)
    BY <1>1, <2>1 DEF KeepsOn, KeepsClear, Sending, Goto, TypeOK
  <2> QED
    BY <2>2, <2>3, LateStays
<1> QED
  BY <1>2, <1>3

LEMMA ReadLate ==
  ASSUME TypeOK, LateInv, NEW t \in Tasks, Read(t)
  PROVE  LateInv' /\ \A u \in Tasks : KeepsClear(u)
<1>1. /\ UNCHANGED <<payload, flight, outbox>>
      /\ \A u \in Tasks \ {t} : pend'[u] = pend[u] /\ pc'[u] = pc[u] /\ late'[u] = late[u]
      /\ pend'[t] = outbox /\ pc'[t] \in {"idle", "lock"}
      /\ pc'[t] = "lock" => late'[t] = InHand \cup InFlight
  BY DEF Read, Goto, TypeOK
<1>2. InHand' = InHand /\ InFlight' = InFlight /\ EventsIn(outbox)' = EventsIn(outbox)
  BY <1>1 DEF InHand, InFlight, EventsIn
<1>3. ASSUME NEW u \in Tasks, Sending(u)'
      PROVE  /\ (InHand \cup InFlight)' \subseteq late'[u]
             /\ EventsIn(outbox)' \subseteq EventsIn(pend[u])' \cup late'[u]
  <2>1. CASE u = t
    <3>1. EventsIn(pend[u])' = EventsIn(outbox)
      BY <1>1, <2>1 DEF EventsIn
    <3> QED
      BY <1>1, <1>2, <1>3, <2>1, <3>1 DEF Sending
  <2>2. CASE u # t
    <3>1. Sending(u) /\ EventsIn(pend[u])' = EventsIn(pend[u])
      BY <1>1, <1>3, <2>2 DEF EventsIn, Sending
    <3> QED
      BY <1>1, <1>2, <2>2, <3>1 DEF LateInv
  <2> QED
    BY <2>1, <2>2
<1> QED
  BY <1>1, <1>3 DEF LateInv, KeepsClear

LEMMA AppendLate ==
  ASSUME TypeOK, LateInv, NEW t \in Tasks, AppendLine(t) \/ AppendFails(t)
  PROVE  LateInv' /\ \A u \in Tasks : KeepsClear(u)
<1>1. /\ payload' = [payload EXCEPT ![t] = NoLine] /\ UNCHANGED <<outbox, pend, late>>
      /\ pc'[t] = "read" /\ \A u \in Tasks \ {t} : pc'[u] = pc[u]
  BY DEF AppendLine, AppendFails, Goto, TypeOK, history
<1>2. InHand' \subseteq InHand /\ Range(payload[t]) \subseteq InHand
  BY <1>1, LetGo DEF InHand
<1>3. InFlight' \subseteq InFlight \cup Range(payload[t])
  <2>1. CASE AppendLine(t)
    BY <2>1 DEF AppendLine, InFlight
  <2>2. CASE AppendFails(t)
    BY <2>2 DEF AppendFails, InFlight
  <2> QED
    BY <2>1, <2>2
<1>4. EventsIn(outbox)' = EventsIn(outbox)
  BY <1>1 DEF EventsIn
<1>5. \A u \in Tasks : KeepsOn(u) /\ KeepsClear(u)
  BY <1>1 DEF KeepsOn, KeepsClear, Sending
<1> QED
  BY <1>2, <1>3, <1>4, <1>5, LateStays

LEMMA LandLate ==
  ASSUME TypeOK, LateInv, NEW w \in flight, Land(w) \/ WriteFails(w)
  PROVE  LateInv' /\ \A u \in Tasks : KeepsClear(u)
<1>1. /\ UNCHANGED <<payload, pc, pend, late>> /\ flight' = flight \ {w} /\ w.line \in Line
      /\ outbox' = outbox \/ outbox' = Append(outbox, w.line)
  BY DEF Land, WriteFails, history, TypeOK
<1>2. InHand' = InHand /\ InFlight' \subseteq InFlight /\ Range(w.line) \subseteq InFlight
  BY <1>1 DEF InHand, InFlight
<1>3. EventsIn(outbox)' \subseteq EventsIn(outbox) \cup Range(w.line)
  <2>1. EventsIn(Append(outbox, w.line)) = EventsIn(outbox) \cup Range(w.line)
    BY <1>1, EventsAppend DEF TypeOK
  <2>2. EventsIn(outbox)' = EventsIn(outbox')
    BY DEF EventsIn
  <2> QED
    BY <1>1, <2>1, <2>2
<1>4. \A u \in Tasks : KeepsOn(u) /\ KeepsClear(u)
  BY <1>1 DEF KeepsOn, KeepsClear, Sending
<1> QED
  BY <1>2, <1>3, <1>4, LateStays

(* A task that moves on in its round, or ends it, with the file untouched. *)
LEMMA RoundLate ==
  ASSUME TypeOK, LateInv, NEW t \in Tasks, UNCHANGED <<payload, flight, pend>>,
         outbox' = outbox \/ outbox' = <<>>,
         pc' = [pc EXCEPT ![t] = pc'[t]],
         \/ pc'[t] = "idle"
         \/ Sending(t) /\ pc'[t] # "clear" /\ late' = late,
         late' = late \/ late' = [late EXCEPT ![t] = {}]
  PROVE  LateInv' /\ \A u \in Tasks : KeepsClear(u)
<1>1. \A u \in Tasks \ {t} : pc'[u] = pc[u] /\ late'[u] = late[u]
  BY DEF TypeOK
<1>2. InHand' = InHand /\ InFlight' = InFlight /\ EventsIn(outbox)' \subseteq EventsIn(outbox)
  BY DEF InHand, InFlight, EventsIn
<1>3. \A u \in Tasks : KeepsOn(u) /\ KeepsClear(u)
  BY <1>1 DEF KeepsOn, KeepsClear, Sending
<1> QED
  BY <1>2, <1>3, LateStays

(* A send that succeeds: the task keeps what it read for its clear.        *)
LEMMA SentLate ==
  ASSUME TypeOK, LateInv, NEW t \in Tasks, pc[t] = "write",
         Goto(t, "clear"), UNCHANGED <<payload, flight, pend, outbox, late>>
  PROVE  LateInv' /\ \A u \in Tasks \ {t} : KeepsClear(u)
<1>1. pc'[t] = "clear" /\ \A u \in Tasks \ {t} : pc'[u] = pc[u]
  BY DEF TypeOK, Goto
<1>2. InHand' = InHand /\ InFlight' = InFlight /\ EventsIn(outbox)' = EventsIn(outbox)
  BY DEF InHand, InFlight, EventsIn
<1>3. \A u \in Tasks : KeepsOn(u)
  BY <1>1 DEF KeepsOn, Sending
<1>4. \A u \in Tasks \ {t} : KeepsClear(u)
  BY <1>1 DEF KeepsClear
<1> QED
  BY <1>2, <1>3, <1>4, LateStays

(* What is sent from the file is written, all of it.                       *)
LEMMA SentIsWritten ==
  ASSUME TypeOK, NEW t \in Tasks, SendOk(t) \/ (t = Timer /\ Reconnect)
  PROVE  EventsIn(pend[t]) \subseteq Written'
<1>1. /\ conns \in Seq(Conns) /\ Len(conns) \in Nat
      /\ pend[t] \in Seq(Line) /\ pend[t] \in Seq(Line \cup {Key})
  BY PendingItems, LenProperties DEF TypeOK, Conns
<1>2. CASE SendOk(t)
  <2>1. stream \in 1..Len(conns) /\ Write(stream, pend[t])
    BY <1>1, <1>2 DEF SendOk, TypeOK, NoConn
  <2>2. Len(conns') = Len(conns) /\ conns'[stream].sent = conns[stream].sent \o pend[t]
    BY <1>1, <2>1, WroteOne
  <2>3. conns[stream].sent \in Seq(Line \cup {Key})
    <3>1. conns[stream] \in Conns
      BY <1>1, <2>1, ElementOfSeq
    <3> QED
      BY <3>1 DEF Conns
  <2>4. EventsIn(pend[t]) \subseteq EventsIn(conns'[stream].sent)
    BY <1>1, <2>2, <2>3, EventsConcatAre
  <2> QED
    BY <2>1, <2>2, <2>4 DEF Written
<1>3. CASE t = Timer /\ Reconnect
  <2>1. conns' = Opened(pend[t])
    BY <1>3 DEF Reconnect, FirstItems
  <2>2. Len(conns') = Len(conns) + 1 /\ conns'[Len(conns) + 1].sent = pend[t]
    BY <1>1, <2>1, OpenedOne
  <2>3. Len(conns) + 1 \in 1..Len(conns')
    BY <1>1, <2>2
  <2> QED
    BY <2>2, <2>3 DEF Written
<1> QED
  BY <1>2, <1>3

LEMMA LateStep ==
  ASSUME TypeOK, LateInv, SentInv, [Next]_vars
  PROVE  LateInv' /\ SentInv'
<1>1. Written \subseteq Written'
  BY WrittenKept
<1> SUFFICES LateInv' /\ \A t \in Tasks : KeepsClear(t) \/ EventsIn(pend[t])' \subseteq Written'
  <2>1. ASSUME LateInv', \A t \in Tasks : KeepsClear(t) \/ EventsIn(pend[t])' \subseteq Written'
        PROVE  SentInv'
    <3> SUFFICES ASSUME NEW t \in Tasks, pc'[t] = "clear", KeepsClear(t)
                 PROVE  EventsIn(pend[t])' \subseteq Written'
      BY <2>1 DEF SentInv
    <3>1. pc[t] = "clear" /\ pend'[t] = pend[t]
      BY DEF KeepsClear
    <3>2. EventsIn(pend[t])' = EventsIn(pend[t])
      BY <3>1 DEF EventsIn
    <3> QED
      BY <1>1, <3>1, <3>2 DEF SentInv
  <2> QED
    BY <2>1
<1>2. CASE UNCHANGED agentVars /\ UNCHANGED late
  <2>1. InHand' = InHand /\ InFlight' = InFlight /\ EventsIn(outbox)' = EventsIn(outbox)
    BY <1>2 DEF InHand, InFlight, EventsIn, agentVars
  <2>2. \A u \in Tasks : KeepsOn(u) /\ KeepsClear(u)
    BY <1>2 DEF KeepsOn, KeepsClear, Sending, agentVars
  <2> QED
    BY <2>1, <2>2, LateStays
<1>3. CASE Forward
  BY <1>3, ForwardLate
<1>4. CASE Tick
  BY <1>4, TickLate
<1>5. ASSUME NEW t \in Tasks, Read(t) \/ AppendLine(t) \/ AppendFails(t)
      PROVE  LateInv' /\ \A u \in Tasks : KeepsClear(u)
  BY <1>5, ReadLate, AppendLate
<1>6. ASSUME NEW w \in flight, Land(w) \/ WriteFails(w)
      PROVE  LateInv' /\ \A u \in Tasks : KeepsClear(u)
  BY <1>6, LandLate
<1>7. ASSUME NEW t \in Tasks, ReadFails(t) \/ Lock(t) \/ SendFails(t) \/ Clear(t) \/ ClearFails(t)
      PROVE  LateInv' /\ \A u \in Tasks : KeepsClear(u)
  <2>1. /\ UNCHANGED <<payload, flight, pend>> \/ Clear(t)
        /\ outbox' = outbox \/ outbox' = <<>>
        /\ pc' = [pc EXCEPT ![t] = pc'[t]]
        /\ \/ pc'[t] = "idle"
           \/ Sending(t) /\ pc'[t] # "clear" /\ late' = late
        /\ late' = late \/ late' = [late EXCEPT ![t] = {}]
    <3>1. CASE ReadFails(t)
      BY <3>1 DEF ReadFails, Goto, TypeOK, history
    <3>2. CASE Lock(t)
      BY <3>2 DEF Lock, Goto, TypeOK, history, Sending
    <3>3. CASE SendFails(t)
      BY <3>3 DEF SendFails, GiveUp, Unlock, EndRound, Goto, TypeOK
    <3>4. CASE Clear(t) \/ ClearFails(t)
      BY <3>4 DEF Clear, ClearFails, EndRound, Goto, TypeOK, AfterClear
    <3> QED
      BY <1>7, <3>1, <3>2, <3>3, <3>4
  <2>2. CASE UNCHANGED <<payload, flight, pend>>
    BY <2>1, <2>2, RoundLate
  <2>3. CASE Clear(t)
    <3>1. /\ payload' = payload /\ pend' = pend /\ pc'[t] = "idle" /\ outbox' = <<>>
          /\ \A u \in Tasks \ {t} : pc'[u] = pc[u] /\ late'[u] = late[u]
      BY <2>3 DEF Clear, AfterClear, EndRound, Goto, TypeOK
    <3>2. InFlight' = InFlight
      <4>1. /\ flight' = {[w EXCEPT !.gone = TRUE] : w \in flight}
            /\ \A w \in flight : [w EXCEPT !.gone = TRUE].line = w.line
        BY <2>3 DEF Clear, TypeOK
      <4>2. \A v \in flight' : \E w \in flight : v.line = w.line
        BY <4>1
      <4>3. \A w \in flight : \E v \in flight' : v.line = w.line
        BY <4>1
      <4> QED
        BY <4>2, <4>3 DEF InFlight
    <3>3. InHand' = InHand /\ EventsIn(outbox)' \subseteq EventsIn(outbox)
      BY <3>1 DEF InHand, EventsIn
    <3>4. \A u \in Tasks : KeepsOn(u) /\ KeepsClear(u)
      BY <3>1 DEF KeepsOn, KeepsClear, Sending
    <3> QED
      BY <3>2, <3>3, <3>4, LateStays
  <2> QED
    BY <2>1, <2>2, <2>3
<1>8. ASSUME NoStream \/ ReconnectFails \/ FirstWriteFails \/ ForcedDrop
      PROVE  LateInv' /\ \A u \in Tasks : KeepsClear(u)
  <2>1. CASE ForcedDrop
    BY <2>1, TwoTasks, RoundLate DEF ForcedDrop, history, TypeOK
  <2>2. PICK t \in Tasks : ForcedDrop \/ GiveUp(t)
    BY <1>8, TwoTasks DEF NoStream, ReconnectFails, FirstWriteFails
  <2>3. CASE ~ForcedDrop
    <3>1. UNCHANGED <<payload, flight, pend, outbox>>
      BY <1>8, <2>3 DEF NoStream, ReconnectFails, FirstWriteFails
    <3>2. pc' = [pc EXCEPT ![t] = "idle"] /\ late' = [late EXCEPT ![t] = {}] /\ pc'[t] = "idle"
      BY <2>2, <2>3 DEF GiveUp, Unlock, EndRound, Goto, TypeOK
    <3> QED
      BY <3>1, <3>2, RoundLate
  <2> QED
    BY <2>1, <2>3
<1>9. ASSUME NEW t \in Tasks, SendOk(t) \/ (t = Timer /\ Reconnect)
      PROVE  LateInv' /\ \A u \in Tasks : KeepsClear(u) \/ EventsIn(pend[u])' \subseteq Written'
  <2>1. /\ pc[t] = "write" /\ Goto(t, "clear")
        /\ UNCHANGED <<payload, flight, pend, outbox, late>>
    BY <1>9 DEF SendOk, Reconnect, Unlock, history
  <2>2. EventsIn(pend[t])' \subseteq Written'
    <3>1. EventsIn(pend[t])' = EventsIn(pend[t])
      BY <2>1 DEF EventsIn
    <3> QED
      BY <1>9, <3>1, SentIsWritten
  <2> QED
    BY <2>1, <2>2, SentLate
<1>10. CASE CrashAndRestart
  <2>1. /\ \A t \in Tasks : pc'[t] = "idle"
    BY <1>10 DEF CrashAndRestart
  <2> QED
    BY <2>1 DEF LateInv, Sending, KeepsClear
<1>11. ASSUME NEW c \in 1..Len(conns), Break(c)
       PROVE  UNCHANGED agentVars /\ UNCHANGED late
  BY <1>11 DEF Break, history
<1> QED
  BY <1>2, <1>3, <1>4, <1>5, <1>6, <1>7, <1>8, <1>9, <1>10, <1>11, TwoTasks, AgentSteps
     DEF Next, AgentStep, vars, history

LEMMA ForwardedGrows == TypeOK /\ [Next]_vars => forwarded' >= forwarded
<1> SUFFICES ASSUME TypeOK, [Next]_vars PROVE forwarded' >= forwarded
  OBVIOUS
<1>1. CASE forwarded' = forwarded \/ forwarded' = forwarded + 1
  BY <1>1, OutboxAssumption DEF TypeOK
<1>2. ASSUME NEW w \in flight, Land(w) \/ WriteFails(w) PROVE forwarded' = forwarded
  BY <1>2 DEF Land, WriteFails, history
<1>3. ASSUME NEW t \in Tasks, AppendLine(t) \/ AppendFails(t) \/ Read(t) \/ ReadFails(t)
                                \/ Lock(t) \/ SendOk(t) \/ SendFails(t) \/ Clear(t) \/ ClearFails(t)
      PROVE forwarded' = forwarded
  BY <1>3 DEF AppendLine, AppendFails, Read, ReadFails, Lock, SendOk, SendFails, Clear, ClearFails,
              history
<1>4. ASSUME \/ Tick \/ NoStream \/ ForcedDrop \/ Reconnect \/ ReconnectFails
             \/ FirstWriteFails \/ CrashAndRestart \/ \E c \in 1..Len(conns) : Break(c)
      PROVE forwarded' = forwarded
  BY <1>4 DEF Tick, NoStream, ForcedDrop, Reconnect, ReconnectFails, FirstWriteFails,
              CrashAndRestart, Break, history
<1> QED
  BY <1>1, <1>2, <1>3, <1>4, AgentSteps DEF Next, AgentStep, Forward, vars, history

(* What was overtaken stays so.                                            *)
LEMMA OvertakenGrows == [Next]_vars => overtaken \subseteq overtaken'
<1> SUFFICES ASSUME [Next]_vars PROVE overtaken \subseteq overtaken'
  OBVIOUS
<1>2. ASSUME NEW w \in flight, Land(w) \/ WriteFails(w) PROVE overtaken' = overtaken
  BY <1>2 DEF Land, WriteFails, history
<1>3. ASSUME NEW t \in Tasks, AppendLine(t) \/ AppendFails(t) \/ Read(t) \/ ReadFails(t)
                                \/ Lock(t) \/ SendOk(t) \/ SendFails(t) \/ Clear(t) \/ ClearFails(t)
      PROVE overtaken \subseteq overtaken'
  BY <1>3 DEF AppendLine, AppendFails, Read, ReadFails, Lock, SendOk, SendFails, Clear, ClearFails,
              history
<1>4. ASSUME \/ Forward \/ Tick \/ NoStream \/ ForcedDrop \/ Reconnect \/ ReconnectFails
             \/ FirstWriteFails \/ CrashAndRestart \/ \E c \in 1..Len(conns) : Break(c)
      PROVE overtaken' = overtaken
  BY <1>4 DEF Forward, Tick, NoStream, ForcedDrop, Reconnect, ReconnectFails, FirstWriteFails,
              CrashAndRestart, Break, history
<1> QED
  BY <1>2, <1>3, <1>4, AgentSteps DEF Next, AgentStep, vars, history

LEMMA KeepsAccounted ==
  ASSUME TypeOK, Keeps, NothingClearedUnsent, forwarded' \in Nat, forwarded' >= forwarded,
         overtaken \subseteq overtaken'
  PROVE  NothingClearedUnsent'
<1>1. 1..forwarded' \subseteq 1..forwarded \cup (forwarded + 1)..forwarded'
  BY OutboxAssumption DEF TypeOK
<1> QED
  BY <1>1 DEF Keeps, NothingClearedUnsent

LEMMA ClearAccounts ==
  ASSUME TypeOK, ClearInv, NEW t \in Tasks, Clear(t)
  PROVE  NothingClearedUnsent'
<1>1. /\ UNCHANGED <<batch, payload, conns, forwarded, dropped>> /\ pc[t] = "clear"
      /\ overtaken' = overtaken \cup (late[t] \cap (EventsIn(outbox) \cup Attached))
  BY DEF Clear
<1>2. EventsIn(outbox) \cup Attached \subseteq Written \cup overtaken'
  <2>1. EventsIn(outbox) \subseteq EventsIn(pend[t]) \cup late[t] /\ InFlight \subseteq late[t]
    BY <1>1 DEF ClearInv, LateInv, Sending
  <2>2. Attached \subseteq InFlight
    BY DEF Attached, InFlight
  <2>3. EventsIn(pend[t]) \subseteq Written
    BY <1>1 DEF ClearInv, SentInv
  <2> QED
    BY <1>1, <2>1, <2>2, <2>3
<1>3. Written' = Written /\ InHand' = InHand
  BY <1>1 DEF Written, InHand
<1>4. Accounted \subseteq Accounted' \cup overtaken'
  BY <1>1, <1>2, <1>3 DEF Accounted, Held
<1> QED
  BY <1>1, <1>4 DEF ClearInv, NothingClearedUnsent

LEMMA ClearStep ==
  ASSUME TypeOK, ClearInv, [Next]_vars
  PROVE  ClearInv'
<1>1. LateInv' /\ SentInv'
  BY LateStep DEF ClearInv
<1>2. CASE \E t \in Tasks : Clear(t)
  BY <1>1, <1>2, ClearAccounts DEF ClearInv
<1>3. CASE ~\E t \in Tasks : Clear(t)
  <2>1. TypeOK' /\ Keeps
    BY <1>3, StepTyped, OthersKeep
  <2>2. forwarded' \in Nat
    BY <2>1, OutboxAssumption DEF TypeOK
  <2>3. forwarded' >= forwarded /\ overtaken \subseteq overtaken'
    BY ForwardedGrows, OvertakenGrows
  <2> QED
    BY <1>1, <2>1, <2>2, <2>3, KeepsAccounted DEF ClearInv
<1> QED
  BY <1>2, <1>3

LEMMA ClearStart == Init => ClearInv
<1> SUFFICES ASSUME Init PROVE ClearInv
  OBVIOUS
<1>1. forwarded = 0 /\ \A t \in Tasks : pc[t] = "idle"
  BY DEF Init
<1> QED
  BY <1>1 DEF ClearInv, LateInv, SentInv, Sending, NothingClearedUnsent

(* What the network or the pipeline does is not the outbox's affair.       *)
LEMMA QuietClear ==
  ASSUME TypeOK, ClearInv, Quiet, dropped \subseteq dropped'
  PROVE  ClearInv'
<1>1. UNCHANGED <<batch, outbox, payload, flight, pc, pend, forwarded, late, overtaken>>
  BY DEF Quiet, agentVars
<1>2. Written' = Written
  BY DEF Quiet, Written
<1>3. NothingClearedUnsent'
  <2>1. Keeps /\ forwarded' >= forwarded /\ forwarded' \in Nat
    BY <1>1, <1>2, SameHeld, OutboxAssumption DEF TypeOK
  <2> QED
    BY <1>1, <2>1, KeepsAccounted DEF ClearInv
<1>4. InHand' = InHand /\ InFlight' = InFlight
  BY <1>1 DEF InHand, InFlight
<1>5. LateInv' /\ SentInv'
  BY <1>1, <1>2, <1>4 DEF ClearInv, LateInv, SentInv, Sending, EventsIn
<1> QED
  BY <1>3, <1>5 DEF ClearInv

-----------------------------------------------------------------------------
(***************************************************************************)
(* How often an event is written.                                          *)
(***************************************************************************)
(* A batch that the events cannot fill is never sent by the event loop.    *)
LoopRests ==
  BatchSize > MaxEvents =>
    Len(batch) <= forwarded /\ pc[Loop] = "idle" /\ payload[Loop] = NoLine

LEMMA LoopRestsStep ==
  ASSUME TypeOK, LoopRests, [Next]_vars
  PROVE  LoopRests'
<1> SUFFICES ASSUME BatchSize > MaxEvents
             PROVE  Len(batch') <= forwarded' /\ pc'[Loop] = "idle" /\ payload'[Loop] = NoLine
  BY DEF LoopRests
<1> USE TwoTasks
<1>1. /\ Len(batch) <= forwarded /\ Len(batch) \in Nat /\ forwarded \in 0..MaxEvents
      /\ pc[Loop] = "idle" /\ payload[Loop] = NoLine /\ MaxEvents \in Nat /\ BatchSize \in Nat
  BY OutboxAssumption, LenProperties DEF LoopRests, TypeOK
<1>2. Len(<<>>) = 0
  OBVIOUS
<1>3. CASE Forward
  <2>1. forwarded < MaxEvents /\ forwarded' = forwarded + 1
    BY <1>3 DEF Forward
  <2>2. ~(Len(batch) + 1 >= BatchSize)
    BY <1>1, <2>1
  <2>3. batch' = Append(batch, forwarded + 1) /\ UNCHANGED <<payload, pc>>
    BY <1>3, <2>2 DEF Forward
  <2>4. Len(batch') = Len(batch) + 1
    BY <1>1, <2>1, <2>3, AppendProperties DEF TypeOK
  <2> QED
    BY <1>1, <2>1, <2>3, <2>4
<1>4. CASE CrashAndRestart
  BY <1>1, <1>2, <1>4 DEF CrashAndRestart
<1>5. CASE Tick
  BY <1>1, <1>2, <1>5 DEF Tick, Take, Goto, TypeOK
<1>6. ASSUME NEW t \in Tasks,
             \/ AppendLine(t) \/ AppendFails(t) \/ Read(t) \/ ReadFails(t)
             \/ Lock(t) \/ Clear(t) \/ ClearFails(t) \/ SendOk(t) \/ SendFails(t)
      PROVE  UNCHANGED <<batch, forwarded>> /\ pc'[Loop] = "idle" /\ payload'[Loop] = NoLine
  BY <1>1, <1>6
     DEF TypeOK, AppendLine, AppendFails, Read, ReadFails, Lock, Clear,
         ClearFails, SendOk, SendFails, GiveUp, Unlock, Goto, history
<1>7. CASE NoStream \/ Reconnect \/ ReconnectFails \/ FirstWriteFails \/ ForcedDrop
  BY <1>1, <1>7
     DEF TypeOK, NoStream, Reconnect, ReconnectFails, FirstWriteFails, ForcedDrop, GiveUp,
         Unlock, Goto, history
<1>8. CASE UNCHANGED vars
  BY <1>1, <1>8 DEF vars, agentVars, history
<1>9. ASSUME NEW c \in 1..Len(conns), Break(c)
      PROVE  Len(batch') <= forwarded' /\ pc'[Loop] = "idle" /\ payload'[Loop] = NoLine
  BY <1>1, <1>9 DEF Break, agentVars, history
<1>10. ASSUME NEW w \in flight, Land(w) \/ WriteFails(w)
       PROVE  UNCHANGED <<batch, forwarded>> /\ pc'[Loop] = "idle" /\ payload'[Loop] = NoLine
  BY <1>1, <1>10 DEF Land, WriteFails, history
<1> QED
  BY <1>1, <1>3, <1>4, <1>5, <1>6, <1>7, <1>8, <1>9, <1>10, AgentSteps DEF Next, AgentStep

AllOpen == breaks = 0 => \A c \in 1..Len(conns) : conns[c].open

LEMMA AllOpenStep ==
  ASSUME TypeOK, AllOpen, [Next]_vars
  PROVE  AllOpen'
<1> SUFFICES ASSUME breaks' = 0, NEW c \in 1..Len(conns') PROVE conns'[c].open
  BY DEF AllOpen
<1>1. breaks = 0
  BY TroubleGrows, OutboxAssumption DEF TypeOK
<1>2. Grown /\ Len(conns) \in Nat
  BY ConnsGrow, LenProperties DEF TypeOK
<1>3. CASE c \in 1..Len(conns)
  BY <1>1, <1>2, <1>3 DEF AllOpen, Grown
<1>4. CASE c \notin 1..Len(conns)
  <2>1. Opens /\ c = Len(conns) + 1
    BY <1>2, <1>4 DEF Grown, Opens
  <2> QED
    BY <2>1 DEF Opens
<1> QED
  BY <1>3, <1>4

(* What the agent does while nothing goes wrong.                           *)
LEMMA CalmNext ==
  ASSUME TypeOK, AllOpen, Next, NoTrouble'
  PROVE  /\ NoTrouble
         /\ \/ Forward \/ Tick \/ ForcedDrop \/ NoStream \/ Reconnect \/ ReconnectFails
            \/ \E w \in flight : Land(w)
            \/ \E t \in Tasks : AppendLine(t) \/ Read(t) \/ Lock(t) \/ SendOk(t) \/ Clear(t)
<1>1. crashes' = 0 /\ breaks' = 0 /\ faults' = 0
  BY StepTyped, NoTroubleAfter
<1>2. crashes = 0 /\ breaks = 0 /\ faults = 0
  BY <1>1, TroubleGrows, OutboxAssumption DEF TypeOK
<1>3. NoTrouble
  BY <1>2 DEF NoTrouble
<1>4. ~Fault /\ ~CrashAndRestart /\ \A c \in 1..Len(conns) : ~Break(c)
  BY <1>1, <1>2 DEF Fault, CrashAndRestart, Break
<1>5. \A t \in Tasks : ~AppendFails(t) /\ ~ReadFails(t) /\ ~ClearFails(t) /\ ~SendFails(t)
  <2>1. \A t \in Tasks : SendFails(t) => stream \in 1..Len(conns)
    BY LenProperties DEF SendFails, TypeOK, NoConn
  <2> QED
    BY <1>2, <1>4, <2>1 DEF AppendFails, ReadFails, ClearFails, SendFails, AllOpen
<1>6. ~FirstWriteFails /\ \A w \in flight : ~WriteFails(w)
  BY <1>4 DEF FirstWriteFails, WriteFails
<1> QED
  BY <1>3, <1>4, <1>5, <1>6, AgentSteps DEF Next, AgentStep

(* Where event e is, and where it was written.                             *)
AtMostOnce(e, q) ==
  \A i, j \in 1..Len(q) : e \in Range(q[i]) /\ e \in Range(q[j]) => i = j
PlacesIn(e, q) == {i \in 1..Len(q) : e \in Range(q[i])}
WrittenAt(e) ==
  {p \in (1..Len(conns)) \X Nat : p[2] \in PlacesIn(e, conns[p[1]].sent)}

(* The tasks that wrote e and have yet to clear, and those about to write. *)
Wrote(e) == {t \in Tasks : pc[t] = "clear" /\ e \in EventsIn(pend[t])}
Writes(e) == {t \in Tasks : pc[t] \in {"lock", "write"} /\ e \in EventsIn(pend[t])}

(* Who carries e: the batch, the tasks with it in hand, the writes.        *)
InBatch(e) == e \in Range(batch)
Hands(e) == {t \in Tasks : e \in Range(payload[t])}
Flying(e) == {w \in flight : e \in Range(w.line)}
Carried(e) == InBatch(e) \/ Hands(e) # {} \/ Flying(e) # {}
Waiting(e) == e > forwarded \/ Carried(e)

OneCarrier(e) ==
  /\ InBatch(e) => Hands(e) = {} /\ Flying(e) = {}
  /\ Hands(e) # {} => Flying(e) = {}
  /\ \A t, u \in Hands(e) : t = u
  /\ \A v, w \in Flying(e) : v = w

(* An event is in one place only; it was not read or written before it was *)
(* in the file.                                                            *)
OnePlace(e) ==
  /\ Carried(e) \/ e \in EventsIn(outbox) => e <= forwarded
  /\ OneCarrier(e)
  /\ Waiting(e) => /\ e \notin EventsIn(outbox) /\ WrittenAt(e) = {}
                   /\ \A t \in Tasks : e \notin EventsIn(pend[t])
  /\ AtMostOnce(e, outbox) /\ \A t \in Tasks : AtMostOnce(e, pend[t])

(* While e is in the file, those that wrote it have yet to clear; then the *)
(* tasks that still have it in hand are among those that did not write it. *)
Counted(e) ==
  /\ IsFiniteSet(WrittenAt(e))
  /\ IF e \in EventsIn(outbox)
       THEN Cardinality(WrittenAt(e)) <= Cardinality(Wrote(e))
       ELSE Cardinality(WrittenAt(e)) + Cardinality(Writes(e)) <= Cardinality(Senders)

LEMMA TasksFinite ==
  /\ \A S \in SUBSET Tasks : IsFiniteSet(S) /\ Cardinality(S) \in Nat
  /\ Cardinality({}) = 0
  /\ \A S, T \in SUBSET Tasks : S \subseteq T => Cardinality(S) <= Cardinality(T)
<1>1. IsFiniteSet(Tasks)
  <2>1. IsFiniteSet({Timer})
    BY FS_Singleton
  <2>2. IsFiniteSet({Timer} \cup {Loop})
    BY <2>1, FS_AddElement
  <2>3. Tasks = {Timer} \cup {Loop}
    BY TwoTasks
  <2> QED
    BY <2>2, <2>3
<1>2. \A S \in SUBSET Tasks : IsFiniteSet(S)
  BY <1>1, FS_Subset
<1>3. \A S \in SUBSET Tasks : Cardinality(S) \in Nat
  BY <1>2, FS_CardinalityType
<1>4. \A S, T \in SUBSET Tasks : S \subseteq T => Cardinality(S) <= Cardinality(T)
  BY <1>2, FS_Subset
<1> QED
  BY <1>2, <1>3, <1>4, FS_EmptySet

LEMMA SameWritten ==
  ASSUME NEW e, Len(conns') = Len(conns),
         \A c \in 1..Len(conns) : conns'[c].sent = conns[c].sent
  PROVE  WrittenAt(e)' = WrittenAt(e)
BY DEF WrittenAt

(* Where e is in items behind the items of q.                              *)
LEMMA PlacesConcat ==
  ASSUME NEW S, NEW q \in Seq(S), NEW items \in Seq(S), NEW e
  PROVE  PlacesIn(e, q \o items) =
           PlacesIn(e, q) \cup {i \in (Len(q) + 1)..(Len(q) + Len(items)) :
                                  i - Len(q) \in PlacesIn(e, items)}
<1>1. /\ Len(q) \in Nat /\ Len(items) \in Nat /\ Len(q \o items) = Len(q) + Len(items)
      /\ \A i \in 1..(Len(q) + Len(items)) :
           (q \o items)[i] = IF i <= Len(q) THEN q[i] ELSE items[i - Len(q)]
  BY ConcatProperties, LenProperties
<1>2. ASSUME NEW i \in 1..(Len(q) + Len(items)), i <= Len(q)
      PROVE  i \in PlacesIn(e, q \o items) <=> i \in PlacesIn(e, q)
  BY <1>1, <1>2 DEF PlacesIn
<1>3. ASSUME NEW i \in 1..(Len(q) + Len(items)), i > Len(q)
      PROVE  i \in PlacesIn(e, q \o items) <=> i - Len(q) \in PlacesIn(e, items)
  <2>1. i - Len(q) \in 1..Len(items)
    BY <1>1, <1>3
  <2> QED
    BY <1>1, <1>3, <2>1 DEF PlacesIn
<1>4. PlacesIn(e, q \o items) \subseteq 1..(Len(q) + Len(items)) /\ PlacesIn(e, q) \subseteq 1..Len(q)
  BY <1>1 DEF PlacesIn
<1> QED
  BY <1>1, <1>2, <1>3, <1>4

LEMMA PlacesOnce ==
  ASSUME NEW e, NEW q \in Seq(Line), AtMostOnce(e, q)
  PROVE  /\ e \in EventsIn(q) => \E i \in 1..Len(q) : PlacesIn(e, q) = {i}
         /\ e \notin EventsIn(q) => PlacesIn(e, q) = {}
BY DEF AtMostOnce, EventsIn, PlacesIn

LEMMA WriteAdds ==
  ASSUME TypeOK, NEW e, NEW t \in Tasks, AtMostOnce(e, pend[t]),
         SendOk(t) \/ (Reconnect /\ t = Timer)
  PROVE  /\ e \in EventsIn(pend[t]) =>
              \E x : x \notin WrittenAt(e) /\ WrittenAt(e)' = WrittenAt(e) \cup {x}
         /\ e \notin EventsIn(pend[t]) => WrittenAt(e)' = WrittenAt(e)
<1>1. /\ conns \in Seq(Conns) /\ Len(conns) \in Nat /\ pend[t] \in Seq(Line)
      /\ pend[t] \in Seq(Line \cup {Key}) /\ Len(pend[t]) \in Nat
      /\ \A c \in 1..Len(conns) : conns[c] \in Conns
  BY PendingItems, LenProperties, ElementOfSeq DEF TypeOK, Conns
<1>2. CASE SendOk(t)
  <2>1. stream \in 1..Len(conns) /\ Write(stream, pend[t])
    BY <1>1, <1>2 DEF SendOk, TypeOK, NoConn
  <2>2. PICK s \in 1..Len(conns) : s = stream
    BY <2>1
  <2>3. /\ Len(conns') = Len(conns)
        /\ \A d \in 1..Len(conns) :
             conns'[d].sent = IF d = s THEN conns[d].sent \o pend[t] ELSE conns[d].sent
    BY <1>1, <2>1, <2>2, WroteOne
  <2> DEFINE q == conns[s].sent
             m == Len(q)
             new == {i \in (m + 1)..(m + Len(pend[t])) : i - m \in PlacesIn(e, pend[t])}
  <2>4. q \in Seq(Line \cup {Key}) /\ m \in Nat
    BY <1>1, <2>2, LenProperties DEF Conns
  <2>5. PlacesIn(e, q \o pend[t]) = PlacesIn(e, q) \cup new
    <3>1. \A r \in Seq(Line \cup {Key}) :
            PlacesIn(e, r \o pend[t]) =
              PlacesIn(e, r) \cup {i \in (Len(r) + 1)..(Len(r) + Len(pend[t])) :
                                     i - Len(r) \in PlacesIn(e, pend[t])}
      BY <1>1, PlacesConcat
    <3> QED
      BY <2>4, <3>1
  <2>6. WrittenAt(e)' = WrittenAt(e) \cup {<<s, i>> : i \in new}
    <3>1. WrittenAt(e)' = {p \in (1..Len(conns)) \X Nat : p[2] \in PlacesIn(e, conns'[p[1]].sent)}
      BY <2>3 DEF WrittenAt
    <3>2. \A d \in 1..Len(conns), i \in Nat :
            i \in PlacesIn(e, conns'[d].sent) <=>
              i \in PlacesIn(e, conns[d].sent) \/ (d = s /\ i \in new)
      BY <2>3, <2>5
    <3>3. new \subseteq Nat
      <4> HIDE DEF m
      <4> QED
        BY <1>1, <2>4
    <3> HIDE DEF new
    <3> QED
      BY <3>1, <3>2, <3>3 DEF WrittenAt
  <2>7. \A i \in new : <<s, i>> \notin WrittenAt(e)
    BY <2>4, <1>1 DEF WrittenAt, PlacesIn
  <2>8. ASSUME e \in EventsIn(pend[t])
        PROVE  \E x : x \notin WrittenAt(e) /\ WrittenAt(e)' = WrittenAt(e) \cup {x}
    <3>1. PICK j \in 1..Len(pend[t]) : PlacesIn(e, pend[t]) = {j}
      BY <1>1, <2>8, PlacesOnce
    <3>2. new = {m + j}
      <4> HIDE DEF m
      <4>1. /\ m + j \in (m + 1)..(m + Len(pend[t])) /\ (m + j) - m = j
            /\ \A i \in (m + 1)..(m + Len(pend[t])) : i - m = j => i = m + j
        BY <1>1, <2>4
      <4> QED
        BY <3>1, <4>1
    <3> HIDE DEF new
    <3> QED
      BY <2>6, <2>7, <3>2
  <2>9. ASSUME e \notin EventsIn(pend[t])
        PROVE  WrittenAt(e)' = WrittenAt(e)
    <3>1. new = {}
      BY <1>1, <2>9, PlacesOnce
    <3> QED
      BY <2>6, <3>1
  <2> QED
    BY <2>8, <2>9
<1>3. CASE Reconnect /\ t = Timer
  <2>1. conns' = Opened(pend[t])
    BY <1>3 DEF Reconnect, FirstItems
  <2>2. PICK n \in Nat : n = Len(conns) + 1
    BY <1>1
  <2>3. /\ Len(conns') = n /\ \A d \in 1..Len(conns) : conns'[d].sent = conns[d].sent
        /\ conns'[n].sent = pend[t] /\ 1..n = 1..Len(conns) \cup {n} /\ n \notin 1..Len(conns)
    BY <1>1, <2>1, <2>2, OpenedOne
  <2>4. WrittenAt(e)' = WrittenAt(e) \cup {<<n, i>> : i \in PlacesIn(e, pend[t])}
    <3>1. WrittenAt(e)' = {p \in (1..n) \X Nat : p[2] \in PlacesIn(e, conns'[p[1]].sent)}
      BY <2>3 DEF WrittenAt
    <3>2. PlacesIn(e, pend[t]) \subseteq Nat
      BY <1>1 DEF PlacesIn
    <3> QED
      BY <2>3, <3>1, <3>2 DEF WrittenAt
  <2>5. \A i : <<n, i>> \notin WrittenAt(e)
    BY <2>3 DEF WrittenAt
  <2>6. ASSUME e \in EventsIn(pend[t])
        PROVE  \E x : x \notin WrittenAt(e) /\ WrittenAt(e)' = WrittenAt(e) \cup {x}
    <3>1. PICK j \in 1..Len(pend[t]) : PlacesIn(e, pend[t]) = {j}
      BY <1>1, <2>6, PlacesOnce
    <3>2. WrittenAt(e)' = WrittenAt(e) \cup {<<n, j>>}
      BY <2>4, <3>1
    <3> QED
      BY <2>5, <3>2
  <2>7. ASSUME e \notin EventsIn(pend[t])
        PROVE  WrittenAt(e)' = WrittenAt(e)
    <3>1. PlacesIn(e, pend[t]) = {}
      BY <1>1, <2>7, PlacesOnce
    <3> QED
      BY <2>4, <3>1
  <2> QED
    BY <2>6, <2>7
<1> QED
  BY <1>2, <1>3

(* The event stays where it is.                                            *)
LEMMA SameCount ==
  ASSUME NEW e, Counted(e), WrittenAt(e)' = WrittenAt(e),
         e \in EventsIn(outbox') <=> e \in EventsIn(outbox),
         e \in EventsIn(outbox) => Wrote(e) \subseteq Wrote(e)',
         e \notin EventsIn(outbox) => Writes(e)' \subseteq Writes(e)
  PROVE  Counted(e)'
<1>1. Cardinality(WrittenAt(e)) \in Nat
  BY FS_CardinalityType DEF Counted
<1>2. /\ Wrote(e) \in SUBSET Tasks /\ Writes(e) \in SUBSET Tasks
      /\ Wrote(e)' \in SUBSET Tasks /\ Writes(e)' \in SUBSET Tasks
  BY DEF Wrote, Writes
<1>3. Senders \in SUBSET Tasks
  BY TwoTasks DEF Senders
<1>4. CASE e \in EventsIn(outbox)
  <2>1. Cardinality(Wrote(e)) <= Cardinality(Wrote(e)')
    BY <1>2, <1>4, TasksFinite
  <2>2. Cardinality(WrittenAt(e)') <= Cardinality(Wrote(e)')
    BY <1>1, <1>2, <1>4, <2>1, TasksFinite DEF Counted
  <2> QED
    BY <1>4, <2>2 DEF Counted
<1>5. CASE e \notin EventsIn(outbox)
  <2>1. Cardinality(Writes(e)') <= Cardinality(Writes(e))
    BY <1>2, <1>5, TasksFinite
  <2>2. Cardinality(WrittenAt(e)') + Cardinality(Writes(e)') <= Cardinality(Senders)
    BY <1>1, <1>2, <1>3, <1>5, <2>1, TasksFinite DEF Counted
  <2> QED
    BY <1>5, <2>2 DEF Counted
<1> QED
  BY <1>4, <1>5

(* The event is not written and nobody is about to write it.               *)
LEMMA ZeroCount ==
  ASSUME NEW e, WrittenAt(e)' = {}, Writes(e)' = {}
  PROVE  Counted(e)'
<1>1. /\ IsFiniteSet({}) /\ Cardinality({}) = 0
      /\ Cardinality(Senders) \in Nat /\ Cardinality(Wrote(e)') \in Nat
  BY TasksFinite, TwoTasks, FS_EmptySet DEF Senders, Wrote
<1>2. IsFiniteSet(WrittenAt(e)')
  BY <1>1
<1>3. Cardinality(WrittenAt(e)') = 0 /\ Cardinality(Writes(e)') = 0
  BY <1>1
<1> QED
  BY <1>1, <1>2, <1>3 DEF Counted

(* Task t has the event in hand and writes it.                             *)
LEMMA OneMoreCount ==
  ASSUME NEW e, Counted(e), outbox' = outbox, NEW t \in Tasks,
         NEW x, x \notin WrittenAt(e), WrittenAt(e)' = WrittenAt(e) \cup {x},
         t \in Writes(e), Wrote(e)' = Wrote(e) \cup {t}, Writes(e)' = Writes(e) \ {t}
  PROVE  Counted(e)'
<1>1. /\ IsFiniteSet(WrittenAt(e)) /\ Cardinality(WrittenAt(e)) \in Nat
      /\ IsFiniteSet(Wrote(e)) /\ IsFiniteSet(Writes(e)) /\ t \notin Wrote(e)
      /\ Cardinality(Wrote(e)) \in Nat /\ Cardinality(Writes(e)) \in Nat
  BY FS_CardinalityType, TasksFinite DEF Counted, Wrote, Writes
<1>2. /\ IsFiniteSet(WrittenAt(e)')
      /\ Cardinality(WrittenAt(e)') = Cardinality(WrittenAt(e)) + 1
  BY <1>1, FS_AddElement
<1>3. Cardinality(Wrote(e)') = Cardinality(Wrote(e)) + 1
  BY <1>1, FS_AddElement
<1>4. Cardinality(Writes(e)') = Cardinality(Writes(e)) - 1
  BY <1>1, FS_RemoveElement
<1>5. Cardinality(Senders) \in Nat
  BY TasksFinite, TwoTasks DEF Senders
<1>6. CASE e \in EventsIn(outbox)
  <2>1. Cardinality(WrittenAt(e)') <= Cardinality(Wrote(e)')
    BY <1>1, <1>2, <1>3, <1>6 DEF Counted
  <2> QED
    BY <1>2, <1>6, <2>1 DEF Counted
<1>7. CASE e \notin EventsIn(outbox)
  <2>1. Cardinality(WrittenAt(e)') + Cardinality(Writes(e)') <= Cardinality(Senders)
    BY <1>1, <1>2, <1>4, <1>5, <1>7 DEF Counted
  <2> QED
    BY <1>2, <1>7, <2>1 DEF Counted
<1> QED
  BY <1>6, <1>7

(* The file goes: those that have yet to clear, and those about to write,  *)
(* are different tasks.                                                    *)
LEMMA ClearedCount ==
  ASSUME TypeOK, LoopRests, NEW e, Counted(e), OnePlace(e), NEW t \in Tasks, Clear(t)
  PROVE  Counted(e)'
<1>1. /\ outbox' = <<>> /\ pc' = [pc EXCEPT ![t] = "idle"] /\ pend' = pend /\ pc[t] = "clear"
      /\ UNCHANGED conns
  BY DEF Clear, AfterClear, Goto
<1>2. e \notin EventsIn(<<>>) /\ EventsIn(<<>>) = {}
  BY DEF EventsIn
<1>3. WrittenAt(e)' = WrittenAt(e) /\ Writes(e)' = Writes(e)
  <2>1. WrittenAt(e)' = WrittenAt(e)
    BY <1>1, SameWritten
  <2>2. \A u \in Tasks : pc'[u] \in {"lock", "write"} <=> pc[u] \in {"lock", "write"}
    BY <1>1 DEF TypeOK
  <2> QED
    BY <1>1, <2>1, <2>2 DEF Writes
<1>4. CASE e \notin EventsIn(outbox)
  BY <1>1, <1>2, <1>3, <1>4, SameCount
<1>5. CASE e \in EventsIn(outbox)
  <2>1. /\ Wrote(e) \in SUBSET Tasks /\ Writes(e) \in SUBSET Tasks
        /\ Wrote(e) \cap Writes(e) = {} /\ Wrote(e) \cup Writes(e) \subseteq Senders
        /\ Senders \in SUBSET Tasks
    BY TwoTasks DEF Wrote, Writes, Senders, LoopRests
  <2>2. /\ IsFiniteSet(Wrote(e)) /\ IsFiniteSet(Writes(e)) /\ Cardinality({}) = 0
        /\ Cardinality(Wrote(e)) \in Nat /\ Cardinality(Writes(e)) \in Nat
        /\ Cardinality(Wrote(e) \cup Writes(e)) <= Cardinality(Senders)
    BY <2>1, TasksFinite
  <2>3. Cardinality(Wrote(e) \cup Writes(e)) = Cardinality(Wrote(e)) + Cardinality(Writes(e))
    <3>1. Cardinality(Wrote(e) \cup Writes(e)) =
            Cardinality(Wrote(e)) + Cardinality(Writes(e)) - Cardinality(Wrote(e) \cap Writes(e))
      BY <2>2, FS_Union
    <3>2. Cardinality(Wrote(e) \cap Writes(e)) = 0
      BY <2>1, <2>2
    <3> QED
      BY <2>2, <3>1, <3>2
  <2>4. Cardinality(WrittenAt(e)) \in Nat /\ Cardinality(WrittenAt(e)) <= Cardinality(Wrote(e))
    BY <1>5, FS_CardinalityType DEF Counted
  <2>5. Cardinality(WrittenAt(e)) + Cardinality(Writes(e)) <= Cardinality(Senders)
    <3>1. Cardinality(Senders) \in Nat
      BY <2>1, TasksFinite
    <3> QED
      BY <2>2, <2>3, <2>4, <3>1
  <2> QED
    BY <1>1, <1>2, <1>3, <2>5 DEF Counted
<1> QED
  BY <1>4, <1>5

(* The event's carriers, and the events given to forward, are the same.    *)
SameCarriers(e) ==
  /\ InBatch(e)' = InBatch(e) /\ Hands(e)' = Hands(e) /\ Flying(e)' = Flying(e)
  /\ forwarded' = forwarded

LEMMA StillWaiting ==
  ASSUME NEW e, SameCarriers(e)
  PROVE  /\ Waiting(e)' <=> Waiting(e)
         /\ Carried(e)' <=> Carried(e)
         /\ OneCarrier(e)' <=> OneCarrier(e)
BY DEF SameCarriers, Waiting, Carried, OneCarrier

LEMMA StillThere ==
  ASSUME NEW e, OnePlace(e), Counted(e),
         UNCHANGED <<batch, payload, flight, forwarded, outbox, pend, pc, conns>>
  PROVE  OnePlace(e)' /\ Counted(e)'
<1>1. SameCarriers(e)
  BY DEF SameCarriers, InBatch, Hands, Flying
<1>2. WrittenAt(e)' = WrittenAt(e) /\ Wrote(e)' = Wrote(e) /\ Writes(e)' = Writes(e)
  BY DEF WrittenAt, Wrote, Writes
<1>3. OnePlace(e)'
  BY <1>1, <1>2, StillWaiting DEF OnePlace
<1> QED
  BY <1>2, <1>3, SameCount

(* Steps that leave file, connections and what the tasks read alone.       *)
LEMMA MoveEvent ==
  ASSUME TypeOK, NEW e \in 1..MaxEvents, OnePlace(e), Counted(e),
         UNCHANGED <<outbox, conns, pend>>, forwarded' \in Nat, forwarded' >= forwarded,
         Waiting(e)' => Waiting(e), Carried(e)' => e <= forwarded', OneCarrier(e)',
         \A t \in Tasks : /\ pc'[t] = "clear" <=> pc[t] = "clear"
                          /\ pc'[t] \in {"lock", "write"} => pc[t] \in {"lock", "write"}
  PROVE  OnePlace(e)' /\ Counted(e)'
<1>1. WrittenAt(e)' = WrittenAt(e)
  BY SameWritten
<1>2. Wrote(e)' = Wrote(e) /\ Writes(e)' \subseteq Writes(e)
  BY DEF Wrote, Writes
<1>3. Counted(e)'
  BY <1>1, <1>2, SameCount
<1>4. e \in EventsIn(outbox) => e <= forwarded'
  <2>1. forwarded \in Nat /\ MaxEvents \in Nat
    BY OutboxAssumption DEF TypeOK
  <2>2. e \in EventsIn(outbox) => e <= forwarded
    BY DEF OnePlace
  <2> QED
    BY <2>1, <2>2
<1>5. OnePlace(e)'
  BY <1>1, <1>4 DEF OnePlace
<1> QED
  BY <1>3, <1>5

(* A task takes the batch, and perhaps the event just given to forward.    *)
LEMMA TakeEvent ==
  ASSUME TypeOK, NEW e, OneCarrier(e), NEW t \in Tasks, NEW line, Take(t, line),
         pc[t] = "idle", batch' = <<>>, UNCHANGED flight,
         e \in Range(line) => InBatch(e) \/ ~Carried(e)
  PROVE  /\ OneCarrier(e)'
         /\ Carried(e)' => Carried(e) \/ e \in Range(line)
<1>1. /\ payload[t] = NoLine /\ payload'[t] = line
      /\ \A u \in Tasks \ {t} : payload'[u] = payload[u]
  BY DEF Take, TypeOK
<1>2. ~InBatch(e)' /\ Flying(e)' = Flying(e)
  BY DEF InBatch, Flying, Range
<1>3. Hands(e)' = Hands(e) \cup (IF e \in Range(line) THEN {t} ELSE {})
  BY <1>1, NoLineEmpty DEF Hands
<1> QED
  BY <1>2, <1>3 DEF OneCarrier, Carried

LEMMA ForwardEvent ==
  ASSUME TypeOK, NEW e \in 1..MaxEvents, OnePlace(e), Counted(e), Forward
  PROVE  OnePlace(e)' /\ Counted(e)'
<1> USE TwoTasks
<1> DEFINE n == forwarded + 1
           Known == 1..MaxEvents
<1>1. /\ n \in Known /\ forwarded' = n /\ batch \in Seq(Known) /\ forwarded \in Nat
      /\ pc[Loop] = "idle" /\ UNCHANGED <<outbox, conns, pend, flight>>
  BY OutboxAssumption DEF TypeOK, Forward
<1>2. Range(Append(batch, n)) = Range(batch) \cup {n}
  <2> HIDE DEF Known
  <2> QED
    BY <1>1, RangeAppend
<1>3. e = n => ~Carried(e) /\ e > forwarded
  BY <1>1 DEF OnePlace
<1>4. OneCarrier(e) /\ (Carried(e) => e <= forwarded)
  BY DEF OnePlace
<1>5. n \in Nat /\ n >= forwarded /\ (e <= forwarded => e <= n) /\ (e > n => e > forwarded)
  BY <1>1
<1> HIDE DEF n, Known
<1>6. CASE batch' = Append(batch, n) /\ UNCHANGED <<payload, pc>>
  <2>1. (InBatch(e)' <=> InBatch(e) \/ e = n) /\ Hands(e)' = Hands(e) /\ Flying(e)' = Flying(e)
    BY <1>1, <1>2, <1>6 DEF InBatch, Hands, Flying
  <2>2. OneCarrier(e)' /\ (Carried(e)' => Carried(e) \/ e = n)
    BY <1>3, <1>4, <2>1 DEF OneCarrier, Carried
  <2>3. (Waiting(e)' => Waiting(e)) /\ (Carried(e)' => e <= forwarded')
    BY <1>1, <1>3, <1>4, <1>5, <2>2 DEF Waiting
  <2> QED
    BY <1>1, <1>5, <1>6, <2>2, <2>3, MoveEvent
<1>7. CASE batch' = <<>> /\ Take(Loop, Append(batch, n))
  <2>1. OneCarrier(e)' /\ (Carried(e)' => Carried(e) \/ e \in Range(Append(batch, n)))
    <3>1. e \in Range(Append(batch, n)) => InBatch(e) \/ ~Carried(e)
      BY <1>2, <1>3 DEF InBatch
    <3> QED
      BY <1>1, <1>4, <1>7, <3>1, TakeEvent
  <2>2. Carried(e)' => Carried(e) \/ e = n
    BY <1>2, <2>1 DEF Carried, InBatch
  <2>3. (Waiting(e)' => Waiting(e)) /\ (Carried(e)' => e <= forwarded')
    BY <1>1, <1>3, <1>4, <1>5, <2>2 DEF Waiting
  <2>4. pc'[Loop] = "append" /\ pc'[Timer] = pc[Timer]
    BY <1>7 DEF Take, Goto, TypeOK
  <2> QED
    BY <1>1, <1>5, <2>1, <2>3, <2>4, MoveEvent
<1> QED
  BY <1>6, <1>7 DEF Forward, FullLine, n

LEMMA TickEvent ==
  ASSUME TypeOK, NEW e \in 1..MaxEvents, OnePlace(e), Counted(e), Tick
  PROVE  OnePlace(e)' /\ Counted(e)'
<1> USE TwoTasks
<1>1. /\ UNCHANGED <<outbox, conns, pend, forwarded, flight>> /\ pc[Timer] = "idle"
      /\ forwarded \in Nat
  BY OutboxAssumption DEF TypeOK, Tick
<1>2. OneCarrier(e) /\ (Carried(e) => e <= forwarded) /\ forwarded >= forwarded
  BY <1>1 DEF OnePlace
<1>3. CASE batch = <<>>
  <2>1. UNCHANGED <<batch, payload>> /\ pc'[Timer] = "read" /\ pc'[Loop] = pc[Loop]
    BY <1>3 DEF Tick, Goto, TypeOK
  <2>2. SameCarriers(e)
    BY <1>1, <2>1 DEF SameCarriers, InBatch, Hands, Flying
  <2> QED
    BY <1>1, <1>2, <2>1, <2>2, StillWaiting, MoveEvent
<1>4. CASE batch # <<>>
  <2>1. batch' = <<>> /\ Take(Timer, batch)
    BY <1>4 DEF Tick
  <2>2. OneCarrier(e)' /\ (Carried(e)' => Carried(e))
    BY <1>1, <1>2, <2>1, TakeEvent DEF InBatch, Carried
  <2>3. Waiting(e)' => Waiting(e)
    BY <1>1, <2>2 DEF Waiting
  <2>4. pc'[Timer] = "append" /\ pc'[Loop] = pc[Loop]
    BY <2>1 DEF Take, Goto, TypeOK
  <2> QED
    BY <1>1, <1>2, <2>2, <2>3, <2>4, MoveEvent
<1> QED
  BY <1>3, <1>4

(* append hands the write over: from the task's hand to the threads.       *)
LEMMA AppendEvent ==
  ASSUME TypeOK, NEW e \in 1..MaxEvents, OnePlace(e), Counted(e), NEW t \in Tasks, AppendLine(t)
  PROVE  OnePlace(e)' /\ Counted(e)'
<1>1. PICK w : w.line = payload[t] /\ flight' = flight \cup {w}
  <2> DEFINE v == [line |-> payload[t], gone |-> FALSE]
  <2>1. v.line = payload[t] /\ flight' = flight \cup {v}
    BY DEF AppendLine
  <2> HIDE DEF v
  <2> QED
    BY <2>1
<1>2. /\ UNCHANGED <<batch, outbox, conns, pend, forwarded>> /\ pc[t] = "append"
      /\ pc'[t] = "read" /\ payload'[t] = NoLine
      /\ \A u \in Tasks \ {t} : payload'[u] = payload[u] /\ pc'[u] = pc[u]
  BY DEF AppendLine, Goto, TypeOK, history
<1>3. InBatch(e)' = InBatch(e) /\ Hands(e)' = Hands(e) \ {t}
  BY <1>2, NoLineEmpty DEF InBatch, Hands
<1>4. Flying(e)' = Flying(e) \cup (IF t \in Hands(e) THEN {w} ELSE {})
  BY <1>1 DEF Flying, Hands
<1>5. OneCarrier(e)' /\ (Carried(e)' => Carried(e))
  BY <1>3, <1>4 DEF OneCarrier, Carried, OnePlace
<1>6. forwarded \in Nat /\ forwarded >= forwarded
  BY OutboxAssumption DEF TypeOK
<1>7. (Waiting(e)' => Waiting(e)) /\ (Carried(e)' => e <= forwarded')
  BY <1>2, <1>5 DEF Waiting, OnePlace
<1> QED
  BY <1>2, <1>5, <1>6, <1>7, MoveEvent

LEMMA LandEvent ==
  ASSUME TypeOK, NEW e \in 1..MaxEvents, OnePlace(e), Counted(e), NEW w \in flight, Land(w)
  PROVE  OnePlace(e)' /\ Counted(e)'
<1>1. /\ UNCHANGED <<batch, payload, pc, pend, conns, forwarded>> /\ w.line \in Line
      /\ flight' = flight \ {w}
      /\ outbox' = outbox \/ outbox' = Append(outbox, w.line)
      /\ outbox \in Seq(Line)
  BY DEF TypeOK, Land, history
<1>2. /\ Len(outbox) \in Nat /\ Len(Append(outbox, w.line)) = Len(outbox) + 1
      /\ \A i \in 1..Len(outbox) : Append(outbox, w.line)[i] = outbox[i]
      /\ Append(outbox, w.line)[Len(outbox) + 1] = w.line
      /\ EventsIn(Append(outbox, w.line)) = EventsIn(outbox) \cup Range(w.line)
  BY <1>1, AppendProperties, LenProperties, EventsAppend
<1>3. EventsIn(outbox') \in {EventsIn(outbox), EventsIn(outbox) \cup Range(w.line)}
  BY <1>1, <1>2
<1>4. e \in Range(w.line) => w \in Flying(e) /\ Carried(e) /\ Waiting(e)
  BY DEF Flying, Carried, Waiting
<1>5. InBatch(e)' = InBatch(e) /\ Hands(e)' = Hands(e) /\ Flying(e)' = Flying(e) \ {w}
  BY <1>1 DEF InBatch, Hands, Flying
<1>6. OneCarrier(e)' /\ (Carried(e)' => Carried(e) /\ e \notin Range(w.line))
  BY <1>4, <1>5 DEF OneCarrier, Carried, OnePlace, Flying
<1>7. WrittenAt(e)' = WrittenAt(e) /\ Wrote(e)' = Wrote(e) /\ Writes(e)' = Writes(e)
  BY <1>1, SameWritten DEF Wrote, Writes
<1>8. AtMostOnce(e, outbox')
  <2>1. CASE outbox' = outbox
    BY <2>1 DEF OnePlace
  <2>2. CASE outbox' = Append(outbox, w.line)
    <3>1. e \in Range(w.line) => \A i \in 1..Len(outbox) : e \notin Range(outbox[i])
      BY <1>4 DEF EventsIn, OnePlace
    <3>2. AtMostOnce(e, outbox)
      BY DEF OnePlace
    <3> QED
      BY <1>2, <2>2, <3>1, <3>2 DEF AtMostOnce
  <2> QED
    BY <1>1, <2>1, <2>2
<1>9. Waiting(e)' => Waiting(e) /\ e \notin Range(w.line)
  <2>1. e > forwarded => ~Carried(e)
    <3>1. forwarded \in Nat /\ e \in Nat
      BY OutboxAssumption DEF TypeOK
    <3> QED
      BY <3>1 DEF OnePlace
  <2> QED
    BY <1>1, <1>4, <1>6, <2>1 DEF Waiting
<1>10. OnePlace(e)'
  <2>1. Carried(e)' \/ e \in EventsIn(outbox') => e <= forwarded'
    BY <1>1, <1>3, <1>4, <1>6 DEF OnePlace
  <2>2. Waiting(e)' => /\ e \notin EventsIn(outbox') /\ WrittenAt(e)' = {}
                       /\ \A u \in Tasks : e \notin EventsIn(pend'[u])
    BY <1>1, <1>3, <1>7, <1>9 DEF OnePlace
  <2>3. \A u \in Tasks : AtMostOnce(e, pend'[u])
    BY <1>1 DEF OnePlace
  <2> QED
    BY <1>6, <1>8, <2>1, <2>2, <2>3 DEF OnePlace
<1>11. Counted(e)'
  <2>1. CASE e \in Range(w.line)
    <3>1. WrittenAt(e)' = {} /\ Writes(e)' = {}
      BY <1>4, <1>7, <2>1 DEF Writes, OnePlace
    <3> QED
      BY <3>1, ZeroCount
  <2>2. CASE e \notin Range(w.line)
    BY <1>3, <1>7, <2>2, SameCount
  <2> QED
    BY <2>1, <2>2
<1> QED
  BY <1>10, <1>11

LEMMA LocalEvent ==
  ASSUME TypeOK, NEW e \in 1..MaxEvents, OnePlace(e), Counted(e), NEW t \in Tasks,
         Lock(t) \/ NoStream \/ ReconnectFails \/ ForcedDrop
  PROVE  OnePlace(e)' /\ Counted(e)'
<1> USE TwoTasks
<1>1. /\ UNCHANGED <<outbox, conns, pend, batch, payload, flight, forwarded>>
      /\ forwarded \in Nat /\ forwarded >= forwarded
  BY OutboxAssumption DEF TypeOK, Lock, NoStream, ReconnectFails, ForcedDrop, history
<1>2. \A u \in Tasks : /\ pc'[u] = "clear" <=> pc[u] = "clear"
                       /\ pc'[u] \in {"lock", "write"} => pc[u] \in {"lock", "write"}
  BY DEF TypeOK, Lock, NoStream, ReconnectFails, ForcedDrop, GiveUp, Unlock, Goto
<1>3. SameCarriers(e)
  BY <1>1 DEF SameCarriers, InBatch, Hands, Flying
<1>4. (Waiting(e)' => Waiting(e)) /\ (Carried(e)' => e <= forwarded') /\ OneCarrier(e)'
  BY <1>1, <1>3, StillWaiting DEF OnePlace
<1> QED
  BY <1>1, <1>2, <1>4, MoveEvent

LEMMA ReadEvent ==
  ASSUME TypeOK, NEW e \in 1..MaxEvents, OnePlace(e), Counted(e), NEW t \in Tasks, Read(t)
  PROVE  OnePlace(e)' /\ Counted(e)'
<1>1. /\ UNCHANGED <<outbox, conns, batch, payload, flight, forwarded>>
      /\ pend'[t] = outbox /\ \A u \in Tasks \ {t} : pend'[u] = pend[u]
      /\ pc[t] = "read" /\ pc'[t] \in {"idle", "lock"} /\ \A u \in Tasks \ {t} : pc'[u] = pc[u]
  BY DEF TypeOK, Read, Goto
<1>2. WrittenAt(e)' = WrittenAt(e)
  BY <1>1, SameWritten
<1>3. Wrote(e) \subseteq Wrote(e)'
  BY <1>1 DEF Wrote
<1>4. e \notin EventsIn(outbox) => Writes(e)' \subseteq Writes(e)
  BY <1>1 DEF Writes
<1>5. Counted(e)'
  BY <1>1, <1>2, <1>3, <1>4, SameCount
<1>6. \A u \in Tasks : AtMostOnce(e, pend'[u])
  BY <1>1 DEF OnePlace
<1>7. Waiting(e) => \A u \in Tasks : e \notin EventsIn(pend'[u])
  BY <1>1 DEF OnePlace
<1>8. SameCarriers(e) /\ (AtMostOnce(e, outbox') <=> AtMostOnce(e, outbox))
  BY <1>1 DEF SameCarriers, InBatch, Hands, Flying
<1>9. OnePlace(e)'
  BY <1>1, <1>2, <1>6, <1>7, <1>8, StillWaiting DEF OnePlace
<1> QED
  BY <1>5, <1>9

LEMMA WriteEvent ==
  ASSUME TypeOK, NEW e \in 1..MaxEvents, OnePlace(e), Counted(e), NEW t \in Tasks,
         SendOk(t) \/ (Reconnect /\ t = Timer)
  PROVE  OnePlace(e)' /\ Counted(e)'
<1>1. /\ UNCHANGED <<outbox, pend, batch, payload, flight, forwarded>>
      /\ pc[t] = "write" /\ pc'[t] = "clear" /\ \A u \in Tasks \ {t} : pc'[u] = pc[u]
  BY DEF TypeOK, SendOk, Reconnect, Unlock, Goto, history
<1>2. AtMostOnce(e, pend[t])
  BY DEF OnePlace
<1>3. SameCarriers(e)
  BY <1>1 DEF SameCarriers, InBatch, Hands, Flying
<1>4. CASE e \in EventsIn(pend[t])
  <2>1. PICK x : x \notin WrittenAt(e) /\ WrittenAt(e)' = WrittenAt(e) \cup {x}
    BY <1>2, <1>4, WriteAdds
  <2>2. t \in Writes(e) /\ Wrote(e)' = Wrote(e) \cup {t} /\ Writes(e)' = Writes(e) \ {t}
    BY <1>1, <1>4 DEF Wrote, Writes
  <2>3. Counted(e)'
    BY <1>1, <2>1, <2>2, OneMoreCount
  <2>4. ~Waiting(e)
    BY <1>4 DEF OnePlace
  <2> QED
    BY <1>1, <1>3, <2>3, <2>4, StillWaiting DEF OnePlace
<1>5. CASE e \notin EventsIn(pend[t])
  <2>1. WrittenAt(e)' = WrittenAt(e)
    BY <1>2, <1>5, WriteAdds
  <2>2. Wrote(e)' = Wrote(e) /\ Writes(e)' = Writes(e)
    BY <1>1, <1>5 DEF Wrote, Writes
  <2>3. Counted(e)'
    BY <1>1, <2>1, <2>2, SameCount
  <2> QED
    BY <1>1, <1>3, <2>1, <2>3, StillWaiting DEF OnePlace
<1> QED
  BY <1>4, <1>5

LEMMA ClearEvent ==
  ASSUME TypeOK, LoopRests, NEW e \in 1..MaxEvents, OnePlace(e), Counted(e), NEW t \in Tasks,
         Clear(t)
  PROVE  OnePlace(e)' /\ Counted(e)'
<1>1. /\ UNCHANGED <<conns, pend, batch, payload, forwarded>> /\ outbox' = <<>>
      /\ flight' = {[w EXCEPT !.gone = TRUE] : w \in flight}
  BY DEF Clear, AfterClear
<1>2. EventsIn(<<>>) = {} /\ AtMostOnce(e, <<>>)
  BY DEF EventsIn, AtMostOnce
<1>3. WrittenAt(e)' = WrittenAt(e)
  BY <1>1, SameWritten
<1>4. InBatch(e)' = InBatch(e) /\ Hands(e)' = Hands(e)
  BY <1>1 DEF InBatch, Hands
<1>5. Flying(e)' = {[w EXCEPT !.gone = TRUE] : w \in Flying(e)}
  <2>1. \A w \in flight : [w EXCEPT !.gone = TRUE].line = w.line
    BY DEF TypeOK
  <2> QED
    BY <1>1, <2>1 DEF Flying
<1>6. (Carried(e)' <=> Carried(e)) /\ OneCarrier(e)'
  BY <1>4, <1>5 DEF Carried, OneCarrier, OnePlace
<1>7. Waiting(e)' <=> Waiting(e)
  BY <1>1, <1>6 DEF Waiting
<1>8. Counted(e)'
  BY ClearedCount
<1>9. OnePlace(e)'
  BY <1>1, <1>2, <1>3, <1>6, <1>7 DEF OnePlace
<1> QED
  BY <1>8, <1>9

(* Every event has one place, and its copies are accounted for.            *)
WritesInv ==
  /\ LoopRests /\ AllOpen
  /\ NoTrouble => \A e \in 1..MaxEvents : OnePlace(e) /\ Counted(e)

LEMMA WritesStep ==
  ASSUME TypeOK, WritesInv, [Next]_vars
  PROVE  WritesInv'
<1>1. LoopRests' /\ AllOpen'
  BY LoopRestsStep, AllOpenStep DEF WritesInv
<1>2. ASSUME NoTrouble', NEW e \in 1..MaxEvents
      PROVE  OnePlace(e)' /\ Counted(e)'
  <2>1. CASE UNCHANGED vars
    <3>1. NoTrouble /\ OnePlace(e) /\ Counted(e)
      BY <1>2, <2>1 DEF WritesInv, NoTrouble, vars, counters
    <3> QED
      BY <2>1, <3>1, StillThere DEF vars, agentVars, history
  <2>2. CASE Next
    <3>1. /\ NoTrouble
          /\ \/ Forward \/ Tick \/ ForcedDrop \/ NoStream \/ Reconnect \/ ReconnectFails
             \/ \E w \in flight : Land(w)
             \/ \E t \in Tasks : AppendLine(t) \/ Read(t) \/ Lock(t) \/ SendOk(t) \/ Clear(t)
      BY <1>2, <2>2, CalmNext DEF WritesInv
    <3>2. OnePlace(e) /\ Counted(e) /\ LoopRests
      BY <3>1 DEF WritesInv
    <3> QED
      BY <3>1, <3>2, ForwardEvent, TickEvent, LandEvent, AppendEvent, LocalEvent, ReadEvent, WriteEvent,
         ClearEvent, TwoTasks
  <2> QED
    BY <2>1, <2>2
<1> QED
  BY <1>1, <1>2 DEF WritesInv

LEMMA WritesStart == Init => WritesInv
<1> SUFFICES ASSUME Init PROVE WritesInv
  OBVIOUS
<1> USE TwoTasks
<1>1. /\ batch = <<>> /\ outbox = <<>> /\ forwarded = 0 /\ \A t \in Tasks : pend[t] = <<>>
      /\ \A t \in Tasks : payload[t] = <<>> /\ pc[t] = "idle"
      /\ flight = {}
  BY DEF Init, NoLine
<1>2. LoopRests
  BY <1>1 DEF LoopRests, NoLine
<1>3. /\ Len(conns) \in Nat
      /\ \A c \in 1..Len(conns) : conns[c].open /\ conns[c].sent = <<Key>>
  BY DEF Init, Connected
<1>4. AllOpen
  BY <1>3 DEF AllOpen
<1>5. Range(<<>>) = {} /\ EventsIn(<<>>) = {} /\ \A e : AtMostOnce(e, <<>>)
  BY DEF Range, EventsIn, AtMostOnce
<1>6. ASSUME NEW e \in 1..MaxEvents
      PROVE  OnePlace(e) /\ Counted(e)
  <2>1. WrittenAt(e) = {}
    <3>1. PlacesIn(e, <<Key>>) = {}
      BY OutboxAssumption DEF PlacesIn, Key, Range
    <3> QED
      BY <1>3, <3>1 DEF WrittenAt
  <2>2. Writes(e) = {}
    BY <1>1 DEF Writes
  <2>3. Cardinality(Senders) \in Nat /\ Cardinality({}) = 0 /\ IsFiniteSet({})
    BY TasksFinite, FS_EmptySet DEF Senders
  <2>4. Counted(e)
    BY <1>1, <1>5, <2>1, <2>2, <2>3 DEF Counted
  <2>5. ~Carried(e) /\ OneCarrier(e)
    BY <1>1, <1>5 DEF Carried, OneCarrier, InBatch, Hands, Flying
  <2>6. OnePlace(e)
    BY <1>1, <1>5, <2>1, <2>5 DEF OnePlace
  <2> QED
    BY <2>4, <2>6
<1> QED
  BY <1>2, <1>4, <1>6 DEF WritesInv

LEMMA FewCopies ==
  ASSUME TypeOK, WritesInv
  PROVE  NoDuplicateWithoutFailure
<1> SUFFICES ASSUME crashes = 0 /\ breaks = 0 /\ faults = 0, NEW e \in 1..forwarded
             PROVE  Count(e) <= Cardinality(Senders)
  BY DEF NoDuplicateWithoutFailure
<1>1. e \in 1..MaxEvents /\ NoTrouble
  BY OutboxAssumption DEF TypeOK, NoTrouble
<1>2. Counted(e) /\ LoopRests
  BY <1>1 DEF WritesInv
<1>3. /\ Senders \in SUBSET Tasks /\ Wrote(e) \in SUBSET Tasks /\ Writes(e) \in SUBSET Tasks
      /\ Wrote(e) \subseteq Senders
  BY <1>2, TwoTasks DEF Senders, Wrote, Writes, LoopRests
<1>4. /\ Cardinality(Senders) \in Nat /\ Cardinality(Wrote(e)) \in Nat
      /\ Cardinality(Writes(e)) \in Nat /\ Cardinality(Wrote(e)) <= Cardinality(Senders)
  BY <1>3, TasksFinite
<1>5. IsFiniteSet(WrittenAt(e)) /\ Cardinality(WrittenAt(e)) \in Nat
  BY <1>2, FS_CardinalityType DEF Counted
<1>6. Cardinality(WrittenAt(e)) <= Cardinality(Senders)
  BY <1>2, <1>4, <1>5 DEF Counted
<1> DEFINE seen == {p \in (1..Len(conns)) \X (1..(2 * (forwarded + 1))) :
                      LET sent == conns[p[1]].sent IN
                      p[2] <= Len(sent) /\ e \in Range(sent[p[2]])}
<1>7. seen \subseteq WrittenAt(e)
  <2>1. \A c \in 1..Len(conns) : Len(conns[c].sent) \in Nat
    <3>1. \A c \in 1..Len(conns) : conns[c] \in Conns
      BY ElementOfSeq DEF TypeOK, Conns
    <3> QED
      BY <3>1, LenProperties DEF Conns
  <2> QED
    BY <2>1, OutboxAssumption DEF WrittenAt, PlacesIn, TypeOK
<1>8. Cardinality(seen) \in Nat /\ Cardinality(seen) <= Cardinality(WrittenAt(e))
  <2> HIDE DEF seen
  <2> QED
    BY <1>5, <1>7, FS_Subset, FS_CardinalityType
<1>9. Count(e) = Cardinality(seen)
  BY DEF Count
<1> QED
  <2> HIDE DEF seen
  <2> QED
    BY <1>4, <1>5, <1>6, <1>8, <1>9

(* While no crash, broken connection or error occurs, whatever way the two *)
(* tasks' appends, reads, writes and clears interleave, the forwarder      *)
(* writes an event at most once for each task that sends (send_payload of  *)
(* pipeline.rs and the timer of start_timer): for every number of events   *)
(* and connections and every batch size, however late the file gets the    *)
(* bytes.                                                                  *)
THEOREM OnceForEachSender == Spec => []NoDuplicateWithoutFailure
<1>1. TypeOK /\ WritesInv /\ [Next]_vars => (TypeOK /\ WritesInv)'
  BY StepTyped, WritesStep
<1> QED
  BY <1>1, InitTyped, WritesStart, FewCopies, PTL DEF Spec

-----------------------------------------------------------------------------
(***************************************************************************)
(* The pipeline's threads.                                                 *)
(***************************************************************************)
Sent(c) == conns[c].sent
Got(c) == stored[c] \o srv[c].pending

Threads == [state : {"key", "reading", "closed"}, read : Nat, pending : Seq(Line)]
SrvTypeOK == srv \in [Numbers -> Threads] /\ stored \in [Numbers -> Seq(Line)]

(* A thread reads behind the key of its connection, and stores no line of  *)
(* one that has none.                                                      *)
Served(c) ==
  /\ \A i \in 2..Len(Sent(c)) : Sent(c)[i] \in Line
  /\ srv[c].state = "key" => srv[c].read = 0 /\ stored[c] = <<>>
  /\ srv[c].state # "reading" => srv[c].pending = <<>>
  /\ srv[c].state = "reading" => Keyed(c) /\ srv[c].read \in 1..Len(Sent(c))
  /\ ~Keyed(c) => stored[c] = <<>>

Unserved(c) == srv[c] = Fresh /\ stored[c] = <<>>

ServerInv ==
  /\ SrvTypeOK /\ Len(conns) <= MaxConns + 1
  /\ \A c \in Numbers : IF c <= Len(conns) THEN Served(c) ELSE Unserved(c)

LEMMA LiveOnes ==
  ASSUME TypeOK, ServerInv
  PROVE  /\ conns \in Seq(Conns) /\ Len(conns) \in Nat /\ 1..Len(conns) \subseteq Numbers
         /\ Live \subseteq 1..Len(conns)
         /\ \A c \in 1..Len(conns) : /\ Served(c) /\ srv[c] \in Threads
                                     /\ stored[c] \in Seq(Line)
                                     /\ Sent(c) \in Seq(Line \cup {Key})
<1>1. conns \in Seq(Conns) /\ Len(conns) \in Nat
  BY LenProperties DEF TypeOK, Conns
<1>2. 1..Len(conns) \subseteq Numbers /\ Live \subseteq 1..Len(conns)
  BY <1>1, OutboxAssumption DEF ServerInv, Numbers, Live
<1>3. \A c \in 1..Len(conns) : conns[c] \in Conns
  BY <1>1, ElementOfSeq
<1>4. \A c \in 1..Len(conns) : Sent(c) \in Seq(Line \cup {Key})
  BY <1>3 DEF Sent, Conns
<1>5. \A c \in 1..Len(conns) : c \in Numbers /\ c <= Len(conns)
  BY <1>1, <1>2
<1>6. \A c \in 1..Len(conns) : Served(c) /\ srv[c] \in Threads /\ stored[c] \in Seq(Line)
  BY <1>5 DEF ServerInv, SrvTypeOK
<1> QED
  BY <1>1, <1>2, <1>4, <1>6

KeyTaken(c) ==
  /\ Keyed(c) /\ srv[c].state = "key"
  /\ srv'[c] = [state |-> "reading", read |-> 1, pending |-> <<>>]
  /\ UNCHANGED <<conns, stored>>
KeyRejected(c) ==
  /\ ~Keyed(c) /\ srv[c].state = "key"
  /\ srv'[c] = [state |-> "closed", read |-> srv[c].read, pending |-> <<>>]
  /\ Closes(c) /\ stored' = stored
LineTaken(c) ==
  /\ srv[c].state = "reading" /\ srv[c].read + 1 \in 2..Len(Sent(c))
  /\ srv'[c] = [state |-> "reading", read |-> srv[c].read + 1,
                pending |-> Append(srv[c].pending, Sent(c)[srv[c].read + 1])]
  /\ UNCHANGED <<conns, stored>>
Flushed(c) ==
  /\ srv[c].state = "reading"
  /\ srv'[c] = [state |-> "reading", read |-> srv[c].read, pending |-> <<>>]
  /\ UNCHANGED conns
  /\ stored'[c] = Got(c) \/ (stored'[c] = stored[c] /\ faults' # 0)
Ended(c) ==
  /\ srv[c].state # "closed"
  /\ ~conns[c].open \/ (c # stream /\ AllRead(c))
  /\ srv'[c] = [state |-> "closed", read |-> srv[c].read, pending |-> <<>>]
  /\ Closes(c) /\ stored'[c] = Got(c)

Thread(c) ==
  KeyTaken(c) \/ KeyRejected(c) \/ LineTaken(c) \/ Flushed(c) \/ Ended(c)

(* What a thread's step does, value by value.                              *)
LEMMA ThreadStep ==
  ASSUME TypeOK, ServerInv, NEW c \in Live, ServerStep(c) \/ FlushRaises(c)
  PROVE  /\ Thread(c)
         /\ \A d \in Numbers \ {c} : srv'[d] = srv[d] /\ stored'[d] = stored[d]
<1>1. /\ c \in Numbers /\ c \in 1..Len(conns) /\ srv \in [Numbers -> Threads]
      /\ stored \in [Numbers -> Seq(Line)] /\ Served(c) /\ Len(Sent(c)) \in Nat
  BY LiveOnes, LenProperties DEF ServerInv, SrvTypeOK
<1>2. /\ srv[c].state \in {"key", "reading", "closed"} /\ srv[c].read \in Nat
      /\ srv[c] = [state |-> srv[c].state, read |-> srv[c].read, pending |-> srv[c].pending]
  BY <1>1 DEF Threads
<1>3. CASE ReadKey(c)
  <2>1. srv[c].state = "key" /\ srv[c].pending = <<>> /\ Sent(c) # <<>>
        /\ (Accepted(Head(Sent(c))) <=> Keyed(c))
    BY <1>1, <1>3 DEF ReadKey, Served, Sent, Keyed, Accepted
  <2> QED
    BY <1>1, <1>2, <1>3, <2>1
       DEF ReadKey, Sent, ReadSoFar, Threads, Thread, KeyTaken, KeyRejected, Closes
<1>4. CASE ReadLine(c)
  <2>1. srv[c].state = "reading" /\ srv[c].read + 1 \in 2..Len(Sent(c))
    BY <1>1, <1>2, <1>4 DEF ReadLine, Served, Sent
  <2> QED
    BY <1>1, <1>2, <1>4, <2>1 DEF ReadLine, Sent, Threads, Thread, LineTaken, vars
<1>5. CASE Flush(c)
  BY <1>1, <1>2, <1>5 DEF Flush, AfterFlush, Threads, Thread, Flushed, vars, Got
<1>6. CASE FlushRaises(c)
  <2>1. faults' # 0
    BY <1>6, OutboxAssumption DEF FlushRaises, Fault, TypeOK
  <2> QED
    BY <1>1, <1>2, <1>6, <2>1 DEF FlushRaises, AfterFlush, Threads, Thread, Flushed
<1>7. CASE Eof(c)
  BY <1>1, <1>2, <1>7 DEF Eof, Threads, Thread, Ended, Closes, Got
<1> QED
  BY <1>3, <1>4, <1>5, <1>6, <1>7 DEF ServerStep

(* It leaves the agent alone, but for the end of the connection.           *)
LEMMA ThreadQuiet ==
  ASSUME TypeOK, ServerInv, NEW c \in Live, ServerStep(c) \/ FlushRaises(c)
  PROVE  /\ TypeOK' /\ Quiet /\ conns' \in Seq(Conns)
         /\ \A d \in 1..Len(conns) : ~conns'[d].open =>
              ~conns[d].open \/ (d = c /\ srv'[c].state = "closed")
         /\ UNCHANGED <<forced, breaks, crashes>> /\ dropped \subseteq dropped'
         /\ faults' = faults \/ faults' # 0
<1>1. /\ c \in 1..Len(conns) /\ conns \in Seq(Conns) /\ Len(conns) \in Nat
      /\ srv[c] \in Threads
  BY LiveOnes
<1>2. /\ UNCHANGED <<agentVars, forced, breaks, crashes, forwarded, late, overtaken>>
      /\ faults' \in 0..MaxFaults /\ (faults' = faults \/ faults' # 0)
      /\ dropped \subseteq dropped' /\ dropped' \subseteq 1..MaxEvents
  <2>1. EventsIn(srv[c].pending) \subseteq 1..MaxEvents
    <3>1. srv[c].pending \in Seq(Line)
      BY <1>1 DEF Threads
    <3>2. \A i \in 1..Len(srv[c].pending) : srv[c].pending[i] \in Line
      BY <3>1, ElementOfSeq
    <3> QED
      BY <3>2, LinesInside DEF EventsIn
  <2>2. CASE ServerStep(c)
    BY <2>2 DEF ServerStep, ReadKey, ReadLine, Flush, Eof, vars, counters, history, TypeOK
  <2>3. CASE FlushRaises(c)
    <3>1. /\ UNCHANGED <<agentVars, forced, breaks, crashes, forwarded, late, overtaken>>
          /\ faults < MaxFaults /\ faults' = faults + 1
          /\ dropped' = dropped \cup EventsIn(srv[c].pending)
      BY <2>3 DEF FlushRaises, Fault
    <3>2. faults' \in 0..MaxFaults /\ faults' # 0
      BY <3>1, OutboxAssumption DEF TypeOK
    <3> QED
      BY <2>1, <3>1, <3>2 DEF TypeOK
  <2> QED
    BY <2>2, <2>3
<1>3. /\ conns' \in Seq(Conns) /\ Len(conns') = Len(conns)
      /\ \A d \in 1..Len(conns) :
           /\ conns'[d].sent = conns[d].sent
           /\ ~conns'[d].open => ~conns[d].open \/ (d = c /\ srv'[c].state = "closed")
  <2>1. CASE conns' = conns
    BY <1>1, <2>1
  <2>2. CASE Closes(c) /\ srv'[c].state = "closed"
    BY <1>1, <2>2, ClosesOne
  <2>3. conns' = conns \/ (Closes(c) /\ srv'[c].state = "closed")
    <3>1. Thread(c)
      BY ThreadStep
    <3> QED
      BY <3>1 DEF Thread, KeyTaken, KeyRejected, LineTaken, Flushed, Ended
  <2> QED
    BY <2>1, <2>2, <2>3
<1>4. Quiet
  BY <1>2, <1>3 DEF Quiet
<1>5. TypeOK'
  BY <1>2, <1>3, <1>4 DEF Quiet, TypeOK, agentVars, Conns
<1> QED
  BY <1>2, <1>3, <1>4, <1>5

LEMMA PipelineCrashQuiet ==
  ASSUME TypeOK, ServerInv, PipelineCrash
  PROVE  /\ TypeOK' /\ Quiet /\ conns' \in Seq(Conns)
         /\ UNCHANGED <<forced, breaks, faults, dropped, stored>> /\ crashes' = crashes + 1
         /\ \A c \in Numbers :
              srv'[c] = IF c <= Len(conns) THEN [Fresh EXCEPT !.state = "closed"] ELSE srv[c]
<1>1. conns \in Seq(Conns) /\ Len(conns) \in Nat /\ \A c \in 1..Len(conns) : conns[c] \in Conns
  BY LiveOnes, ElementOfSeq
<1> DEFINE f(c) == [conns[c] EXCEPT !.open = FALSE]
<1>2. conns' = [c \in 1..Len(conns) |-> f(c)]
  BY DEF PipelineCrash
<1>3. \A c \in 1..Len(conns) : f(c) \in Conns /\ f(c).sent = conns[c].sent
  BY <1>1 DEF Conns
<1> HIDE DEF f
<1>4. conns' \in [1..Len(conns) -> Conns]
  BY <1>2, <1>3
<1>5. conns' \in Seq(Conns) /\ Len(conns') = Len(conns)
  <2>1. conns' \in Seq(Conns)
    BY <1>1, <1>4, SeqDef
  <2> QED
    BY <1>1, <1>4, <2>1, LenProperties
<1>6. /\ UNCHANGED <<agentVars, forced, breaks, faults, history, stored>>
      /\ crashes' \in 0..MaxCrashes /\ crashes' = crashes + 1
  <2>1. /\ UNCHANGED <<agentVars, forced, breaks, faults, history, stored>>
        /\ crashes < MaxCrashes /\ crashes' = crashes + 1
    BY DEF PipelineCrash
  <2>2. crashes \in 0..MaxCrashes /\ MaxCrashes \in Nat
    BY OutboxAssumption DEF TypeOK
  <2> QED
    BY <2>1, <2>2
<1>7. Quiet
  BY <1>2, <1>3, <1>5, <1>6 DEF Quiet, history
<1>8. TypeOK'
  BY <1>5, <1>6 DEF TypeOK, agentVars, Conns, history
<1> QED
  BY <1>5, <1>6, <1>7, <1>8 DEF PipelineCrash, history

(* A connection that grows keeps its first items, and its key.             *)
LEMMA LinesAdded ==
  ASSUME NEW q \in Seq(Line \cup {Key}), NEW items \in Seq(Line),
         \A i \in 2..Len(q) : q[i] \in Line
  PROVE  LET r == q \o items IN
         /\ Len(r) >= Len(q) /\ \A i \in 1..Len(q) : r[i] = q[i]
         /\ \A i \in 2..Len(r) : r[i] \in Line
         /\ (r # <<>> /\ Head(r) = Key) <=> (q # <<>> /\ Head(q) = Key)
<1>1. /\ items \in Seq(Line \cup {Key}) /\ Len(q) \in Nat /\ Len(items) \in Nat
      /\ \A i \in 1..Len(items) : items[i] \in Line
  BY SeqMonotonic, LenProperties, ElementOfSeq
<1>2. /\ q \o items \in Seq(Line \cup {Key}) /\ Len(q \o items) = Len(q) + Len(items)
      /\ \A i \in 1..(Len(q) + Len(items)) :
           (q \o items)[i] = IF i <= Len(q) THEN q[i] ELSE items[i - Len(q)]
  BY <1>1, ConcatProperties
<1>3. \A i \in 2..Len(q \o items) : (q \o items)[i] \in Line
  BY <1>1, <1>2
<1>4. (q \o items # <<>> /\ Head(q \o items) = Key) <=> (q # <<>> /\ Head(q) = Key)
  <2>1. \A s \in Seq(Line \cup {Key}) : (s # <<>> <=> Len(s) > 0) /\ Head(s) = s[1]
    BY EmptySeq, LenProperties
  <2> QED
    BY <1>1, <1>2, <2>1, KeyIsNoLine
<1> QED
  BY <1>1, <1>2, <1>3, <1>4

LEMMA SentGrows ==
  ASSUME TypeOK, ServerInv, [Next]_vars
  PROVE  /\ Len(conns') \in Nat /\ Len(conns) <= Len(conns') /\ Len(conns') <= MaxConns + 1
         /\ \A c \in 1..Len(conns) :
              /\ Len(Sent(c)') >= Len(Sent(c)) /\ Len(Sent(c)') \in Nat
              /\ \A i \in 1..Len(Sent(c)) : Sent(c)'[i] = Sent(c)[i]
              /\ \A i \in 2..Len(Sent(c)') : Sent(c)'[i] \in Line
              /\ Keyed(c)' <=> Keyed(c)
              /\ c # stream => Sent(c)' = Sent(c)
<1>1. Grown /\ Len(conns) \in Nat /\ Len(conns) <= MaxConns + 1
  BY ConnsGrow, LiveOnes DEF ServerInv
<1>2. Len(conns') \in Nat /\ Len(conns) <= Len(conns') /\ Len(conns') <= MaxConns + 1
  BY <1>1, OutboxAssumption DEF Grown, Opens
<1>3. ASSUME NEW c \in 1..Len(conns)
      PROVE  /\ Len(Sent(c)') >= Len(Sent(c)) /\ Len(Sent(c)') \in Nat
             /\ \A i \in 1..Len(Sent(c)) : Sent(c)'[i] = Sent(c)[i]
             /\ \A i \in 2..Len(Sent(c)') : Sent(c)'[i] \in Line
             /\ Keyed(c)' <=> Keyed(c)
             /\ c # stream => Sent(c)' = Sent(c)
  <2>1. /\ Sent(c) \in Seq(Line \cup {Key}) /\ Len(Sent(c)) \in Nat
        /\ \A i \in 2..Len(Sent(c)) : Sent(c)[i] \in Line
    BY LiveOnes, LenProperties DEF Served
  <2>2. /\ Keyed(c) <=> (Sent(c) # <<>> /\ Head(Sent(c)) = Key)
        /\ Keyed(c)' <=> (Sent(c)' # <<>> /\ Head(Sent(c)') = Key)
    BY <1>1, <1>2 DEF Keyed, Sent
  <2>3. Len(Sent(c)') \in Nat
    <3>1. TypeOK'
      BY StepTyped
    <3>2. conns' \in Seq(Conns)
      BY <3>1 DEF TypeOK, Conns
    <3>3. c \in 1..Len(conns')
      BY <1>1, <1>2
    <3>4. conns'[c] \in Conns
      BY <3>2, <3>3, ElementOfSeq
    <3> QED
      BY <3>4, LenProperties DEF Sent, Conns
  <2>4. CASE Sent(c)' = Sent(c)
    BY <2>1, <2>2, <2>4
  <2>5. CASE c = stream /\ \E items \in Seq(Line) : Sent(c)' = Sent(c) \o items
    BY <2>1, <2>2, <2>3, <2>5, LinesAdded
  <2> QED
    BY <1>1, <2>4, <2>5 DEF Grown, Sent
<1> QED
  BY <1>2, <1>3

(* A connection just opened: at most a key or lines, and no thread yet.    *)
LEMMA NewServed ==
  ASSUME TypeOK, ServerInv, [Next]_vars, UNCHANGED <<srv, stored>>,
         NEW n \in Numbers, n = Len(conns) + 1, Len(conns') = n
  PROVE  Served(n)' /\ srv'[n] = Fresh /\ stored'[n] = <<>> /\ conns'[n].open
<1>1. Opens
  BY ConnsGrow, LiveOnes DEF Grown
<1>2. srv'[n] = Fresh /\ stored'[n] = <<>>
  <2>1. ~(n <= Len(conns))
    BY LiveOnes
  <2> QED
    BY <2>1 DEF ServerInv, Unserved
<1>3. \A i \in 2..Len(conns'[n].sent) : conns'[n].sent[i] \in Line
  <2>1. CASE conns'[n].sent \in Seq(Line)
    <3>1. \A i \in 1..Len(conns'[n].sent) : conns'[n].sent[i] \in Line
      BY <2>1, ElementOfSeq
    <3> QED
      BY <2>1, <3>1, LenProperties
  <2>2. CASE conns'[n].sent = <<Key>>
    <3>1. Len(<<Key>>) = 1
      OBVIOUS
    <3> QED
      BY <2>2, <3>1
  <2> QED
    BY <1>1, <2>1, <2>2 DEF Opens
<1>4. srv'[n].state = "key" /\ srv'[n].read = 0 /\ srv'[n].pending = <<>>
  BY <1>2 DEF Fresh
<1> QED
  BY <1>1, <1>2, <1>3, <1>4 DEF Served, Sent, Opens

LEMMA AgentServed ==
  ASSUME TypeOK, ServerInv, [Next]_vars, UNCHANGED <<srv, stored>>
  PROVE  ServerInv'
<1>1. /\ Len(conns') \in Nat /\ Len(conns) <= Len(conns') /\ Len(conns') <= MaxConns + 1
      /\ Len(conns) \in Nat /\ Grown
  BY SentGrows, LiveOnes, ConnsGrow
<1>2. ASSUME NEW c \in 1..Len(conns)
      PROVE  Served(c)'
  <2>1. Served(c) /\ srv[c] \in Threads /\ Len(Sent(c)) \in Nat
    BY LiveOnes, LenProperties
  <2>2. /\ Len(Sent(c)') >= Len(Sent(c)) /\ (Keyed(c)' <=> Keyed(c)) /\ Len(Sent(c)') \in Nat
        /\ \A i \in 2..Len(Sent(c)') : Sent(c)'[i] \in Line
    BY SentGrows
  <2> QED
    BY <2>1, <2>2 DEF Served, Threads
<1>3. \A c \in Numbers : IF c <= Len(conns') THEN Served(c)' ELSE Unserved(c)'
  <2> SUFFICES ASSUME NEW c \in Numbers
               PROVE  IF c <= Len(conns') THEN Served(c)' ELSE Unserved(c)'
    OBVIOUS
  <2>1. c \in Nat /\ c > 0
    BY DEF Numbers
  <2>2. Len(conns') \in {Len(conns), Len(conns) + 1}
    BY <1>1 DEF Grown, Opens
  <2>3. CASE c <= Len(conns)
    BY <1>1, <1>2, <2>1, <2>3
  <2>4. CASE c > Len(conns)
    <3>1. Unserved(c)'
      BY <1>1, <2>1, <2>4 DEF ServerInv, Unserved
    <3>2. c <= Len(conns') => c = Len(conns) + 1 /\ Len(conns') = c
      BY <1>1, <2>1, <2>2, <2>4
    <3> QED
      BY <3>1, <3>2, NewServed
  <2> QED
    BY <1>1, <2>1, <2>3, <2>4
<1> QED
  BY <1>1, <1>3 DEF ServerInv, SrvTypeOK

LEMMA ServedByThread ==
  ASSUME TypeOK, ServerInv, NEW c \in Live, ServerStep(c) \/ FlushRaises(c)
  PROVE  ServerInv'
<1>1. /\ Thread(c)
      /\ \A d \in Numbers \ {c} : srv'[d] = srv[d] /\ stored'[d] = stored[d]
  BY ThreadStep
<1>2. /\ Len(conns') = Len(conns) /\ \A d \in 1..Len(conns) : Sent(d)' = Sent(d)
  BY ThreadQuiet DEF Quiet, Sent
<1>3. /\ c \in 1..Len(conns) /\ Len(conns) \in Nat /\ Served(c) /\ srv[c] \in Threads
      /\ Sent(c) \in Seq(Line \cup {Key}) /\ Len(Sent(c)) \in Nat /\ c \in Numbers
      /\ stored[c] \in Seq(Line)
  BY LiveOnes, LenProperties
<1>4. \A d \in Numbers : Keyed(d)' <=> Keyed(d)
  <2>1. \A d \in Numbers : d <= Len(conns) => d \in 1..Len(conns)
    BY <1>3 DEF Numbers
  <2> QED
    BY <1>2, <2>1 DEF Keyed, Sent
<1>5. <<>> \in Seq(Line) /\ srv[c].pending \in Seq(Line) /\ srv[c].read \in Nat
  BY <1>3, EmptySeq DEF Threads
<1>6. stored[c] \o <<>> = stored[c] /\ Got(c) \in Seq(Line)
  BY <1>3, <1>5, ConcatEmptySeq, ConcatProperties DEF Got
<1>7. /\ stored'[c] = stored[c] \/ stored'[c] = Got(c)
      /\ srv[c].state = "reading" \/ srv[c].pending = <<>>
  BY <1>1, <1>3 DEF Thread, KeyTaken, KeyRejected, LineTaken, Flushed, Ended, Served
<1>8. stored'[c] \in Seq(Line) /\ (~Keyed(c)' => stored'[c] = <<>>)
  <2>1. CASE srv[c].state = "reading"
    BY <1>3, <1>4, <1>6, <1>7, <2>1 DEF Served
  <2>2. CASE srv[c].pending = <<>>
    BY <1>3, <1>4, <1>6, <1>7, <2>2 DEF Served, Got
  <2> QED
    BY <1>7, <2>1, <2>2
<1>9. srv'[c] \in Threads /\ Served(c)'
  <2>1. CASE KeyTaken(c)
    <3>1. Len(Sent(c)) > 0
      BY <1>3, <2>1, EmptySeq, LenProperties DEF KeyTaken, Keyed, Sent
    <3> QED
      BY <1>2, <1>3, <1>4, <1>5, <1>8, <2>1, <3>1 DEF KeyTaken, Threads, Served
  <2>2. CASE srv'[c] = [state |-> "closed", read |-> srv[c].read, pending |-> <<>>]
    <3>1. /\ srv'[c].state = "closed" /\ srv'[c].pending = <<>>
          /\ srv'[c].read = srv[c].read
      BY <2>2
    <3>2. srv'[c] \in Threads
      BY <1>5, <2>2 DEF Threads
    <3> QED
      BY <1>2, <1>3, <1>8, <3>1, <3>2 DEF Served
  <2>3. CASE LineTaken(c)
    <3>1. PICK line \in Line : line = Sent(c)[srv[c].read + 1]
      BY <1>3, <2>3 DEF LineTaken, Served
    <3>2. Append(srv[c].pending, line) \in Seq(Line)
      BY <1>5, <3>1, AppendProperties
    <3>3. srv'[c] = [state |-> "reading", read |-> srv[c].read + 1,
                     pending |-> Append(srv[c].pending, line)]
      BY <2>3, <3>1 DEF LineTaken
    <3>4. srv[c].read + 1 \in 1..Len(Sent(c)) /\ Keyed(c)
      BY <1>3, <1>5, <2>3 DEF LineTaken, Served
    <3>5. srv'[c] \in Threads
      BY <1>5, <3>2, <3>3 DEF Threads
    <3> QED
      BY <1>2, <1>3, <1>4, <1>8, <3>3, <3>4, <3>5 DEF Served
  <2>4. CASE Flushed(c)
    BY <1>2, <1>3, <1>4, <1>5, <1>8, <2>4 DEF Flushed, Threads, Served
  <2> QED
    BY <1>1, <2>1, <2>2, <2>3, <2>4 DEF Thread, KeyRejected, Ended
<1>10. ASSUME NEW d \in Numbers
       PROVE  IF d <= Len(conns') THEN Served(d)' ELSE Unserved(d)'
  <2>1. CASE d = c
    BY <1>2, <1>3, <1>9, <2>1
  <2>2. CASE d # c /\ d <= Len(conns)
    <3>1. d \in 1..Len(conns)
      BY <1>3, <2>2 DEF Numbers
    <3> QED
      BY <1>1, <1>2, <1>4, <2>2, <3>1 DEF ServerInv, Served
  <2>3. CASE d # c /\ ~(d <= Len(conns))
    BY <1>1, <1>2, <2>3 DEF ServerInv, Unserved
  <2> QED
    BY <2>1, <2>2, <2>3
<1>11. srv' \in [Numbers -> Threads] /\ stored' \in [Numbers -> Seq(Line)]
  <2>1. srv' = [d \in Numbers |-> srv'[d]] /\ stored' = [d \in Numbers |-> stored'[d]]
    BY DEF ServerStep, ReadKey, ReadLine, Flush, FlushRaises, Eof, ServerInv, SrvTypeOK
  <2>2. \A d \in Numbers : srv'[d] \in Threads /\ stored'[d] \in Seq(Line)
    BY <1>1, <1>8, <1>9 DEF ServerInv, SrvTypeOK
  <2> QED
    BY <2>1, <2>2
<1> QED
  BY <1>2, <1>10, <1>11 DEF ServerInv, SrvTypeOK

LEMMA ServedAfterCrash ==
  ASSUME TypeOK, ServerInv, PipelineCrash
  PROVE  ServerInv'
<1>1. /\ Len(conns') = Len(conns) /\ \A d \in 1..Len(conns) : Sent(d)' = Sent(d)
      /\ stored' = stored
      /\ \A c \in Numbers :
           srv'[c] = IF c <= Len(conns) THEN [Fresh EXCEPT !.state = "closed"] ELSE srv[c]
  BY PipelineCrashQuiet DEF Quiet, Sent
<1>2. Len(conns) \in Nat /\ \A c \in 1..Len(conns) : Served(c)
  BY LiveOnes
<1> DEFINE gone == [Fresh EXCEPT !.state = "closed"]
<1>3. gone.state = "closed" /\ gone.pending = <<>> /\ gone \in Threads
  <2>1. gone = [state |-> "closed", read |-> 0, pending |-> <<>>]
    BY DEF Fresh
  <2>2. <<>> \in Seq(Line)
    BY EmptySeq
  <2> HIDE DEF gone
  <2> QED
    BY <2>1, <2>2 DEF Threads
<1> HIDE DEF gone
<1>4. \A c \in Numbers : c <= Len(conns) => c \in 1..Len(conns) /\ srv'[c] = gone
  BY <1>1, <1>2 DEF Numbers, gone
<1>5. \A c \in Numbers : IF c <= Len(conns') THEN Served(c)' ELSE Unserved(c)'
  <2>1. ASSUME NEW c \in Numbers, c <= Len(conns)
        PROVE  Served(c)'
    <3>1. Keyed(c)' <=> Keyed(c)
      BY <1>1, <1>4, <2>1 DEF Keyed, Sent
    <3> QED
      BY <1>1, <1>2, <1>3, <1>4, <2>1, <3>1 DEF Served
  <2> QED
    BY <1>1, <2>1 DEF ServerInv, Unserved
<1>6. srv' \in [Numbers -> Threads]
  <2>1. srv' = [c \in Numbers |-> srv'[c]]
    BY DEF PipelineCrash
  <2>2. \A c \in Numbers : srv'[c] \in Threads
    BY <1>1, <1>3, <1>4 DEF ServerInv, SrvTypeOK
  <2> QED
    BY <2>1, <2>2
<1> QED
  BY <1>1, <1>5, <1>6 DEF ServerInv, SrvTypeOK

-----------------------------------------------------------------------------
(***************************************************************************)
(* What a thread has stored and parsed is what was written behind the key; *)
(* all of it when it is done, and nobody writes to the connection then.    *)
(***************************************************************************)
LEMMA GotLine ==
  ASSUME NEW s \in Seq(Line), NEW p \in Seq(Line), NEW line \in Line
  PROVE  LET q == s \o Append(p, line) IN
         /\ Len(s \o p) \in Nat /\ Len(q) = Len(s \o p) + 1
         /\ \A i \in 1..Len(s \o p) : q[i] = (s \o p)[i]
         /\ q[Len(s \o p) + 1] = line
<1>0. PICK r \in Seq(Line) : r = Append(p, line)
  BY AppendProperties
<1>1. /\ Len(s) \in Nat /\ Len(p) \in Nat
      /\ Len(r) = Len(p) + 1 /\ r[Len(p) + 1] = line
      /\ \A i \in 1..Len(p) : r[i] = p[i]
  BY <1>0, AppendProperties, LenProperties
<1>2. /\ Len(s \o p) = Len(s) + Len(p)
      /\ \A i \in 1..(Len(s) + Len(p)) :
           (s \o p)[i] = IF i <= Len(s) THEN s[i] ELSE p[i - Len(s)]
  BY <1>1, ConcatProperties
<1>3. /\ Len(s \o r) = Len(s) + Len(r)
      /\ \A i \in 1..(Len(s) + Len(r)) :
           (s \o r)[i] = IF i <= Len(s) THEN s[i] ELSE r[i - Len(s)]
  BY ConcatProperties
<1>4. \A i \in 1..(Len(s) + Len(p)) : i <= Len(s) \/ i - Len(s) \in 1..Len(p)
  BY <1>1
<1>5. \A i \in 1..(Len(s) + Len(p)) : (s \o r)[i] = (s \o p)[i]
  BY <1>1, <1>2, <1>3, <1>4
<1>6. (s \o r)[Len(s) + Len(p) + 1] = line
  <2>1. (Len(s) + Len(p) + 1) - Len(s) = Len(p) + 1 /\ ~(Len(s) + Len(p) + 1 <= Len(s))
        /\ Len(s) + Len(p) + 1 \in 1..(Len(s) + Len(r))
    BY <1>1
  <2> QED
    BY <1>1, <1>3, <2>1
<1> QED
  BY <1>0, <1>1, <1>2, <1>3, <1>5, <1>6

LEMMA GotNothing ==
  ASSUME NEW s \in Seq(Line), NEW p \in Seq(Line)
  PROVE  /\ s \o <<>> = s /\ (s \o p) \o <<>> = s \o p
         /\ s \o p \in Seq(Line) /\ Len(s \o p) \in Nat
         /\ Len(s) \in Nat /\ Len(s) <= Len(s \o p)
         /\ \A i \in 1..Len(s) : i \in 1..Len(s \o p) /\ (s \o p)[i] = s[i]
<1>1. PICK q \in Seq(Line) : q = s \o p
  BY ConcatProperties
<1>2. s \o <<>> = s /\ q \o <<>> = q /\ Len(q) \in Nat /\ Len(s) \in Nat /\ Len(p) \in Nat
  BY ConcatEmptySeq, LenProperties
<1>3. /\ Len(q) = Len(s) + Len(p)
      /\ \A i \in 1..(Len(s) + Len(p)) : q[i] = IF i <= Len(s) THEN s[i] ELSE p[i - Len(s)]
  BY <1>1, ConcatProperties
<1>4. \A i \in 1..Len(s) : i \in 1..(Len(s) + Len(p)) /\ i <= Len(s)
  BY <1>2
<1> QED
  BY <1>1, <1>2, <1>3, <1>4

(* The lines s were copied from behind the first item of q.                *)
CopiedFrom(s, q) ==
  Len(s) + 1 <= Len(q) /\ \A i \in 1..Len(s) : s[i] = q[i + 1]

LEMMA CopyGrows ==
  ASSUME NEW s \in Seq(Line), NEW q, NEW r, CopiedFrom(s, q), Len(q) \in Nat, Len(r) \in Nat,
         Len(q) <= Len(r), \A i \in 1..Len(q) : r[i] = q[i]
  PROVE  CopiedFrom(s, r)
<1>1. Len(s) \in Nat /\ \A i \in 1..Len(s) : i + 1 \in 1..Len(q)
  BY LenProperties DEF CopiedFrom
<1> QED
  BY <1>1 DEF CopiedFrom

Copies(c) ==
  faults = 0 /\ Keyed(c) =>
    /\ CopiedFrom(Got(c), Sent(c))
    /\ srv[c].state = "reading" => srv[c].read = Len(Got(c)) + 1

Finishes(c) ==
  NoTrouble =>
    /\ ~conns[c].open => srv[c].state = "closed"
    /\ Keyed(c) /\ srv[c].state = "closed" => c # stream /\ Len(Sent(c)) = Len(Got(c)) + 1

DeliveryInv == \A c \in 1..Len(conns) : Copies(c) /\ Finishes(c)

LEMMA NewDelivers ==
  ASSUME NEW n \in Nat, Served(n)', srv'[n] = Fresh, stored'[n] = <<>>, conns'[n].open,
         n <= Len(conns'), Len(Sent(n)') \in Nat
  PROVE  Copies(n)' /\ Finishes(n)'
<1>1. /\ srv'[n].state = "key" /\ srv'[n].pending = <<>>
  BY DEF Fresh
<1>2. Got(n)' = <<>> /\ Len(<<>>) = 0
  BY <1>1, ConcatEmptySeq DEF Got
<1>3. Keyed(n)' => Len(Sent(n)') > 0
  <2>1. Len(<<>>) = 0
    OBVIOUS
  <2> QED
    BY <2>1 DEF Keyed, Sent
<1> QED
  BY <1>1, <1>2, <1>3 DEF Copies, Finishes, CopiedFrom

LEMMA AgentDelivers ==
  ASSUME TypeOK, ServerInv, DeliveryInv, [Next]_vars, UNCHANGED <<srv, stored>>
  PROVE  DeliveryInv'
<1>1. /\ Len(conns') \in Nat /\ Len(conns) <= Len(conns') /\ Len(conns') <= MaxConns + 1
      /\ Len(conns) \in Nat /\ Grown
  BY SentGrows, LiveOnes, ConnsGrow
<1>0. TypeOK' /\ crashes' >= crashes /\ breaks' >= breaks /\ faults' >= faults
  BY StepTyped, TroubleGrows
<1>2. /\ TypeOK' /\ crashes' >= crashes /\ breaks' >= breaks /\ faults' >= faults
      /\ crashes \in Nat /\ breaks \in Nat /\ faults \in Nat
  <2>1. crashes \in Nat /\ breaks \in Nat /\ faults \in Nat
    BY OutboxAssumption DEF TypeOK
  <2> QED
    BY <1>0, <2>1
<1>3. (faults' = 0 => faults = 0) /\ (NoTrouble' => NoTrouble /\ breaks' = 0)
  <2>1. faults' = 0 => faults = 0
    BY <1>2
  <2>2. ASSUME NoTrouble' PROVE NoTrouble /\ breaks' = 0
    <3>1. crashes' = 0 /\ breaks' = 0 /\ faults' = 0
      BY <1>2, <2>2, NoTroubleAfter
    <3> QED
      BY <1>2, <3>1 DEF NoTrouble
  <2> QED
    BY <2>1, <2>2
<1>4. ASSUME NEW c \in 1..Len(conns)
      PROVE  Copies(c)' /\ Finishes(c)'
  <2>1. /\ Len(Sent(c)') >= Len(Sent(c)) /\ (Keyed(c)' <=> Keyed(c)) /\ Len(Sent(c)') \in Nat
        /\ \A i \in 1..Len(Sent(c)) : Sent(c)'[i] = Sent(c)[i]
        /\ c # stream => Sent(c)' = Sent(c)
    BY SentGrows
  <2>2. /\ Len(Sent(c)) \in Nat /\ Got(c) \in Seq(Line) /\ Got(c)' = Got(c)
        /\ srv'[c] = srv[c]
    BY LiveOnes, LenProperties, ConcatProperties DEF Threads, Got
  <2>3. Copies(c)'
    BY <1>3, <2>1, <2>2, CopyGrows DEF DeliveryInv, Copies
  <2>4. c # stream => c # stream'
    BY <1>1 DEF Grown, Opens, NoConn
  <2>5. conns'[c].open = conns[c].open \/ breaks' # 0
    BY <1>1 DEF Grown
  <2>6. Finishes(c)'
    BY <1>3, <2>1, <2>2, <2>4, <2>5 DEF DeliveryInv, Finishes
  <2> QED
    BY <2>3, <2>6
<1>5. ASSUME NEW n \in 1..Len(conns'), n \notin 1..Len(conns)
      PROVE  Copies(n)' /\ Finishes(n)'
  <2>1. n = Len(conns) + 1 /\ Len(conns') = n /\ n \in Numbers /\ n \in Nat /\ n <= Len(conns')
    BY <1>1, <1>5, OutboxAssumption DEF Grown, Opens, Numbers
  <2>2. Served(n)' /\ srv'[n] = Fresh /\ stored'[n] = <<>> /\ conns'[n].open
    BY <2>1, NewServed
  <2>3. Len(Sent(n)') \in Nat
    <3>1. conns' \in Seq(Conns)
      BY <1>2 DEF TypeOK, Conns
    <3>2. conns'[n] \in Conns
      BY <3>1, ElementOfSeq
    <3> QED
      BY <3>2, LenProperties DEF Sent, Conns
  <2> QED
    BY <2>1, <2>2, <2>3, NewDelivers
<1> QED
  BY <1>4, <1>5 DEF DeliveryInv

LEMMA ThreadDelivers ==
  ASSUME TypeOK, ServerInv, DeliveryInv, NEW c \in Live, ServerStep(c) \/ FlushRaises(c)
  PROVE  DeliveryInv'
<1>1. /\ Thread(c)
      /\ \A d \in Numbers \ {c} : srv'[d] = srv[d] /\ stored'[d] = stored[d]
  BY ThreadStep
<1>2. /\ Len(conns') = Len(conns) /\ (\A d \in 1..Len(conns) : Sent(d)' = Sent(d))
      /\ stream' = stream /\ TypeOK'
      /\ \A d \in 1..Len(conns) : ~conns'[d].open =>
           ~conns[d].open \/ (d = c /\ srv'[c].state = "closed")
      /\ UNCHANGED <<breaks, crashes>> /\ (faults' = faults \/ faults' # 0)
  BY ThreadQuiet DEF Quiet, Sent, agentVars
<1>3. /\ c \in 1..Len(conns) /\ Len(conns) \in Nat /\ Served(c) /\ srv[c] \in Threads
      /\ Sent(c) \in Seq(Line \cup {Key}) /\ Len(Sent(c)) \in Nat /\ c \in Numbers
      /\ stored[c] \in Seq(Line) /\ srv[c].pending \in Seq(Line)
      /\ 1..Len(conns) \subseteq Numbers
  BY LiveOnes, LenProperties DEF Threads
<1>4. \A d \in 1..Len(conns) : Keyed(d)' <=> Keyed(d)
  BY <1>2 DEF Keyed, Sent
<1>5. (faults' = 0 => faults = 0) /\ (NoTrouble' => NoTrouble /\ faults' = 0)
  <2>1. NoTrouble' => faults' = 0 /\ breaks' = 0 /\ crashes' = 0
    BY <1>2, NoTroubleAfter
  <2> QED
    BY <1>2, <2>1 DEF NoTrouble
<1>6. ASSUME NEW d \in 1..Len(conns), d # c
      PROVE  Copies(d)' /\ Finishes(d)'
  <2>1. srv'[d] = srv[d] /\ Got(d)' = Got(d) /\ Sent(d)' = Sent(d) /\ stream' = stream
    BY <1>1, <1>2, <1>3, <1>6 DEF Got
  <2>2. Copies(d) /\ Finishes(d)
    BY DEF DeliveryInv
  <2>3. Copies(d)'
    BY <1>4, <1>5, <2>1, <2>2 DEF Copies
  <2>4. Finishes(d)'
    BY <1>2, <1>4, <1>5, <1>6, <2>1, <2>2 DEF Finishes
  <2> QED
    BY <2>3, <2>4
<1>7. /\ stored[c] \o <<>> = stored[c] /\ Got(c) \o <<>> = Got(c)
      /\ Got(c) \in Seq(Line) /\ Len(Got(c)) \in Nat
  BY <1>3, GotNothing DEF Got
<1>8. Copies(c) /\ Finishes(c) /\ Sent(c)' = Sent(c) /\ (Keyed(c)' <=> Keyed(c))
  BY <1>2, <1>3, <1>4 DEF DeliveryInv
<1>9. ASSUME KeyTaken(c) PROVE Copies(c)' /\ Finishes(c)'
  <2>1. srv[c].pending = <<>> /\ stored[c] = <<>> /\ stored'[c] = <<>>
    BY <1>3, <1>9 DEF KeyTaken, Served
  <2>2. /\ srv'[c].state = "reading" /\ srv'[c].read = 1 /\ srv'[c].pending = <<>>
        /\ UNCHANGED conns
    BY <1>9 DEF KeyTaken
  <2>3. Got(c) = <<>> /\ Got(c)' = <<>> /\ Len(<<>>) = 0
    BY <2>1, <2>2, ConcatEmptySeq DEF Got
  <2>4. Finishes(c)'
    BY <1>5, <1>8, <1>9, <2>2 DEF Finishes, KeyTaken
  <2> QED
    BY <1>5, <1>8, <2>2, <2>3, <2>4 DEF Copies
<1>10. ASSUME KeyRejected(c) PROVE Copies(c)' /\ Finishes(c)'
  <2>1. ~Keyed(c)' /\ srv'[c].state = "closed"
    BY <1>8, <1>10 DEF KeyRejected
  <2> QED
    BY <2>1 DEF Copies, Finishes
<1>11. ASSUME LineTaken(c) PROVE Copies(c)' /\ Finishes(c)'
  <2>1. PICK line \in Line : line = Sent(c)[srv[c].read + 1]
    BY <1>3, <1>11 DEF LineTaken, Served
  <2>2. /\ srv'[c].state = "reading" /\ srv'[c].read = srv[c].read + 1
        /\ srv'[c].pending = Append(srv[c].pending, line) /\ UNCHANGED <<conns, stored>>
        /\ srv[c].read + 1 \in 2..Len(Sent(c)) /\ srv[c].state = "reading"
    BY <1>11, <2>1 DEF LineTaken
  <2>3. Got(c)' = stored[c] \o Append(srv[c].pending, line)
    BY <2>2 DEF Got
  <2>4. /\ Len(Got(c)') = Len(Got(c)) + 1
        /\ \A i \in 1..Len(Got(c)) : Got(c)'[i] = Got(c)[i]
        /\ Got(c)'[Len(Got(c)) + 1] = line
    <3>1. PICK got : got = stored[c] \o Append(srv[c].pending, line)
      OBVIOUS
    <3>2. /\ Len(got) = Len(Got(c)) + 1
          /\ \A i \in 1..Len(Got(c)) : got[i] = Got(c)[i]
          /\ got[Len(Got(c)) + 1] = line
      BY <1>3, <3>1, GotLine DEF Got
    <3> QED
      BY <2>3, <3>1, <3>2
  <2>5. Copies(c)'
    <3> SUFFICES ASSUME faults = 0, Keyed(c)
                 PROVE  /\ CopiedFrom(Got(c)', Sent(c)) /\ srv'[c].read = Len(Got(c)') + 1
      BY <1>5, <1>8 DEF Copies
    <3>1. CopiedFrom(Got(c), Sent(c)) /\ srv[c].read = Len(Got(c)) + 1
      BY <1>8, <2>2 DEF Copies
    <3>2. Len(Got(c)') + 1 <= Len(Sent(c)) /\ srv'[c].read = Len(Got(c)') + 1
      BY <1>3, <1>7, <2>2, <2>4, <3>1
    <3>3. ASSUME NEW i \in 1..Len(Got(c)')
          PROVE  Got(c)'[i] = Sent(c)[i + 1]
      <4>1. i \in 1..Len(Got(c)) \/ i = Len(Got(c)) + 1
        BY <1>7, <2>4
      <4> QED
        BY <2>1, <2>4, <3>1, <4>1 DEF CopiedFrom
    <3> QED
      BY <3>2, <3>3 DEF CopiedFrom
  <2>6. Finishes(c)'
    BY <1>5, <1>8, <2>2 DEF Finishes
  <2> QED
    BY <2>5, <2>6
<1>12. ASSUME Flushed(c) PROVE Copies(c)' /\ Finishes(c)'
  <2>1. /\ srv'[c].state = "reading" /\ srv'[c].read = srv[c].read /\ srv'[c].pending = <<>>
        /\ UNCHANGED conns /\ srv[c].state = "reading"
        /\ stored'[c] = Got(c) \/ faults' # 0
    BY <1>12 DEF Flushed
  <2>2. faults' = 0 => Got(c)' = Got(c)
    BY <1>7, <2>1 DEF Got
  <2>3. Finishes(c)'
    BY <1>5, <1>8, <2>1 DEF Finishes
  <2> QED
    BY <1>5, <1>8, <2>1, <2>2, <2>3 DEF Copies
<1>13. ASSUME Ended(c) PROVE Copies(c)' /\ Finishes(c)'
  <2>1. /\ srv'[c].state = "closed" /\ srv'[c].read = srv[c].read /\ srv'[c].pending = <<>>
        /\ stored'[c] = Got(c) /\ srv[c].state # "closed"
        /\ ~conns[c].open \/ (c # stream /\ AllRead(c))
    BY <1>13 DEF Ended
  <2>2. Got(c)' = Got(c)
    BY <1>7, <2>1 DEF Got
  <2>3. Copies(c)'
    BY <1>5, <1>8, <2>1, <2>2 DEF Copies
  <2>4. Finishes(c)'
    <3> SUFFICES ASSUME NoTrouble', Keyed(c)
                 PROVE  c # stream /\ Len(Sent(c)) = Len(Got(c)) + 1
      BY <1>2, <1>8, <2>1, <2>2 DEF Finishes
    <3>1. NoTrouble /\ faults = 0 /\ c # stream /\ AllRead(c)
      BY <1>5, <1>8, <2>1 DEF Finishes
    <3>2. srv[c].state = "reading"
      <4>1. srv[c].state \in {"key", "reading"}
        BY <1>3, <2>1 DEF Threads
      <4>2. srv[c].read = Len(Sent(c)) /\ Len(Sent(c)) > 0
        <5>1. srv[c].read = Len(Sent(c)) /\ Sent(c) # <<>>
          BY <1>8, <3>1 DEF AllRead, Keyed, Sent
        <5> QED
          BY <1>3, <5>1, EmptySeq
      <4> QED
        BY <1>3, <4>1, <4>2 DEF Served
    <3> QED
      BY <1>8, <3>1, <3>2 DEF Copies, AllRead, Sent
  <2> QED
    BY <2>3, <2>4
<1>14. Copies(c)' /\ Finishes(c)'
  BY <1>1, <1>9, <1>10, <1>11, <1>12, <1>13 DEF Thread
<1> QED
  BY <1>2, <1>6, <1>14 DEF DeliveryInv

LEMMA CrashDelivers ==
  ASSUME TypeOK, ServerInv, DeliveryInv, PipelineCrash
  PROVE  DeliveryInv'
<1>1. /\ Len(conns') = Len(conns) /\ (\A d \in 1..Len(conns) : Sent(d)' = Sent(d))
      /\ stored' = stored /\ faults' = faults /\ crashes' = crashes + 1 /\ TypeOK'
      /\ \A c \in Numbers :
           srv'[c] = IF c <= Len(conns) THEN [Fresh EXCEPT !.state = "closed"] ELSE srv[c]
  BY PipelineCrashQuiet DEF Quiet, Sent
<1>2. ~NoTrouble'
  <2>1. crashes \in Nat
    BY OutboxAssumption DEF TypeOK
  <2> QED
    BY <1>1, <2>1, NoTroubleAfter
<1>3. ASSUME NEW c \in 1..Len(conns)
      PROVE  Copies(c)' /\ Finishes(c)'
  <2>1. /\ stored[c] \in Seq(Line) /\ srv[c].pending \in Seq(Line) /\ c \in Numbers
        /\ c <= Len(conns) /\ Len(Sent(c)) \in Nat
    BY LiveOnes, LenProperties DEF Threads
  <2>2. srv'[c].state = "closed" /\ srv'[c].pending = <<>>
    BY <1>1, <2>1 DEF Fresh
  <2>3. Got(c)' = stored[c]
    BY <1>1, <2>1, <2>2, GotNothing DEF Got
  <2>4. PICK got \in Seq(Line), kept \in Seq(Line) : got = Got(c) /\ kept = stored[c]
    BY <2>1, GotNothing DEF Got
  <2>5. /\ Len(kept) \in Nat /\ Len(got) \in Nat /\ Len(kept) <= Len(got)
        /\ \A i \in 1..Len(kept) : i \in 1..Len(got) /\ got[i] = kept[i]
    BY <2>1, <2>4, GotNothing DEF Got
  <2>8. CopiedFrom(got, Sent(c)) => CopiedFrom(kept, Sent(c))
    BY <2>1, <2>5 DEF CopiedFrom
  <2>6. Keyed(c)' <=> Keyed(c)
    BY <1>1 DEF Keyed, Sent
  <2>7. Copies(c)'
    BY <1>1, <2>2, <2>3, <2>4, <2>6, <2>8 DEF DeliveryInv, Copies
  <2> QED
    BY <1>2, <2>7 DEF Finishes
<1> QED
  BY <1>1, <1>3 DEF DeliveryInv

LEMMA CopyIsPrefix ==
  ASSUME NEW q \in Seq(Line \cup {Key}), q # <<>>, NEW s \in Seq(Line), CopiedFrom(s, q)
  PROVE  IsPrefix(s, Tail(q)) /\ (Len(q) = Len(s) + 1 => s = Tail(q))
<1>1. PICK r \in Seq(Line \cup {Key}) :
        r = Tail(q) /\ Len(r) = Len(q) - 1 /\ \A i \in 1..Len(r) : r[i] = q[i + 1]
  BY HeadTailProperties
<1>2. s \in Seq(Line \cup {Key}) /\ Len(s) \in Nat /\ Len(q) \in Nat /\ Len(r) \in Nat
  BY SeqMonotonic, LenProperties
<1>3. Len(s) <= Len(r) /\ \A i \in 1..Len(s) : i \in 1..Len(r) /\ s[i] = r[i]
  BY <1>1, <1>2 DEF CopiedFrom
<1>4. \A i \in 1..Len(s) : r[i] \in Line \cup {Key} /\ s[i] \in Line \cup {Key}
  BY <1>2, <1>3, ElementOfSeq
<1>5. PICK p \in Seq(Line \cup {Key}) :
        p = SubSeq(r, 1, Len(s)) /\ Len(p) = Len(s) /\ \A i \in 1..Len(s) : p[i] = r[i]
  <2>1. /\ SubSeq(r, 1, Len(s)) \in Seq(Line \cup {Key})
        /\ Len(SubSeq(r, 1, Len(s))) = IF 1 <= Len(s) THEN Len(s) - 1 + 1 ELSE 0
        /\ \A i \in 1..(Len(s) - 1 + 1) : SubSeq(r, 1, Len(s))[i] = r[1 + i - 1]
    BY <1>2, <1>4, SubSeqProperties
  <2>2. PICK p : p = SubSeq(r, 1, Len(s))
    OBVIOUS
  <2>3. Len(p) = Len(s)
    BY <1>2, <2>1, <2>2
  <2>4. \A i \in 1..Len(s) : p[i] = r[i]
    BY <1>2, <2>1, <2>2
  <2> QED
    BY <2>1, <2>2, <2>3, <2>4
<1>6. s = p
  BY <1>2, <1>3, <1>5, SeqEqual
<1>7. SubSeq(s, 1, Len(s)) = s
  BY SubSeqFull
<1>8. Len(q) = Len(s) + 1 => Len(r) = Len(s)
  BY <1>1, <1>2
<1>9. Len(r) = Len(s) => s = r
  BY <1>2, <1>3, SeqEqual
<1> QED
  BY <1>1, <1>3, <1>5, <1>6, <1>7, <1>8, <1>9 DEF IsPrefix

-----------------------------------------------------------------------------
(***************************************************************************)
(* The invariant of the two programs together.                             *)
(***************************************************************************)
LinkInv == TypeOK /\ ServerInv /\ DeliveryInv /\ ClearInv

LEMMA LinkStep ==
  ASSUME LinkInv, [LinkNext]_linkVars
  PROVE  LinkInv'
<1>1. CASE [Next]_vars /\ UNCHANGED <<srv, stored>>
  BY <1>1, StepTyped, AgentServed, AgentDelivers, ClearStep DEF LinkInv
<1>2. ASSUME NEW c \in Live, ServerStep(c) \/ FlushRaises(c)
      PROVE  LinkInv'
  BY <1>2, ThreadQuiet, ServedByThread, ThreadDelivers, QuietClear DEF LinkInv
<1>3. CASE PipelineCrash
  BY <1>3, PipelineCrashQuiet, ServedAfterCrash, CrashDelivers, QuietClear DEF LinkInv
<1> QED
  BY <1>1, <1>2, <1>3 DEF LinkNext, linkVars

LEMMA LinkStart == LinkInit => LinkInv
<1> SUFFICES ASSUME LinkInit PROVE LinkInv
  OBVIOUS
<1>1. Init /\ TypeOK /\ ClearInv
  BY InitTyped, ClearStart DEF LinkInit
<1>2. srv = [c \in Numbers |-> Fresh] /\ stored = [c \in Numbers |-> <<>>]
  BY DEF LinkInit
<1>3. /\ Len(conns) \in {0, 1} /\ \A c \in 1..Len(conns) : Sent(c) = <<Key>> /\ conns[c].open
  <2>1. CASE stream = NoConn /\ conns = <<>>
    BY <2>1
  <2>2. CASE stream = 1 /\ conns = <<[sent |-> <<Key>>, open |-> TRUE]>>
    BY <2>2 DEF Sent
  <2> QED
    BY <1>1, <2>1, <2>2 DEF Init, Connected
<1>4. Fresh \in Threads /\ Fresh.state = "key" /\ Fresh.read = 0 /\ Fresh.pending = <<>>
  <2>1. <<>> \in Seq(Line)
    BY EmptySeq
  <2> QED
    BY <2>1 DEF Fresh, Threads
<1>5. Len(<<Key>>) = 1 /\ <<>> \in Seq(Line)
  BY EmptySeq
<1>6. \A c \in Numbers : srv[c] = Fresh /\ stored[c] = <<>> /\ c \in Nat
  BY <1>2 DEF Numbers
<1>7. ServerInv
  <2>1. SrvTypeOK /\ Len(conns) <= MaxConns + 1
    BY <1>2, <1>3, <1>4, <1>5, OutboxAssumption DEF SrvTypeOK
  <2>2. ASSUME NEW c \in Numbers, c <= Len(conns)
        PROVE  Served(c)
    <3>1. c \in 1..Len(conns)
      BY <1>3, <2>2 DEF Numbers
    <3> QED
      BY <1>3, <1>4, <1>5, <1>6, <3>1 DEF Served
  <2> QED
    BY <1>6, <2>1, <2>2 DEF ServerInv, Unserved
<1>8. ASSUME NEW c \in 1..Len(conns)
      PROVE  Copies(c) /\ Finishes(c)
  <2>1. c \in Numbers
    BY <1>3, OutboxAssumption DEF Numbers
  <2>2. Got(c) = <<>> /\ Len(<<>>) = 0
    BY <1>4, <1>5, <1>6, <2>1, ConcatEmptySeq DEF Got
  <2>3. srv[c].state = "key" /\ conns[c].open /\ Len(Sent(c)) = 1
    BY <1>3, <1>4, <1>5, <1>6, <2>1
  <2> QED
    BY <2>2, <2>3 DEF Copies, Finishes, CopiedFrom
<1> QED
  BY <1>1, <1>7, <1>8 DEF LinkInv, DeliveryInv

LEMMA LinkInvariant == LinkInit /\ [][LinkNext]_linkVars => []LinkInv
<1>1. LinkInv /\ [LinkNext]_linkVars => LinkInv'
  BY LinkStep
<1> QED
  BY <1>1, LinkStart, PTL

(* The only events that leave the outbox before a connection took them are *)
(* those whose append was under way while a task was between its read_all  *)
(* and its clear, whatever breaks or crashes, and whichever task sends.    *)
THEOREM OnlySentIsCleared == LinkSpec => []NothingClearedUnsent
BY LinkInvariant, PTL DEF LinkInv, ClearInv, LinkSpec

LEMMA CopyMeans == LinkInv => StoredAsSent
<1> SUFFICES ASSUME LinkInv, NEW c \in Numbers
             PROVE  /\ ~Keyed(c) => stored[c] = <<>>
                    /\ Keyed(c) /\ faults = 0 => IsPrefix(Got(c), Tail(Sent(c)))
                    /\ Keyed(c) /\ NoTrouble /\ srv[c].state = "closed" =>
                         stored[c] = Tail(Sent(c))
  BY DEF StoredAsSent, NoTrouble, Got, Sent
<1>1. ~Keyed(c) => stored[c] = <<>>
  BY DEF LinkInv, ServerInv, Served, Unserved
<1>2. ASSUME Keyed(c)
      PROVE  /\ faults = 0 => IsPrefix(Got(c), Tail(Sent(c)))
             /\ NoTrouble /\ srv[c].state = "closed" => stored[c] = Tail(Sent(c))
  <2>1. c \in 1..Len(conns)
    BY <1>2, LiveOnes DEF LinkInv, Keyed, Numbers
  <2>2. /\ Sent(c) \in Seq(Line \cup {Key}) /\ Sent(c) # <<>> /\ Served(c)
        /\ stored[c] \in Seq(Line) /\ srv[c].pending \in Seq(Line)
    BY <1>2, <2>1, LiveOnes DEF LinkInv, Keyed, Sent, Threads
  <2>3. Got(c) \in Seq(Line) /\ stored[c] \o <<>> = stored[c]
    BY <2>2, GotNothing DEF Got
  <2>4. Copies(c) /\ Finishes(c)
    BY <2>1 DEF LinkInv, DeliveryInv
  <2>5. faults = 0 => CopiedFrom(Got(c), Sent(c))
    BY <1>2, <2>4 DEF Copies
  <2>6. ASSUME NoTrouble, srv[c].state = "closed"
        PROVE  stored[c] = Tail(Sent(c))
    <3>1. faults = 0
      BY <2>6, NoTroubleMeans DEF LinkInv
    <3>2. Len(Sent(c)) = Len(Got(c)) + 1 /\ Got(c) = stored[c]
      BY <1>2, <2>2, <2>3, <2>4, <2>6 DEF Finishes, Served, Got
    <3>3. Got(c) = Tail(Sent(c))
      BY <2>2, <2>3, <2>5, <3>1, <3>2, CopyIsPrefix
    <3> QED
      BY <3>2, <3>3
  <2> QED
    BY <2>2, <2>3, <2>5, <2>6, CopyIsPrefix
<1> QED
  BY <1>1, <1>2

(* A connection's thread stores what was written behind the key, line by   *)
(* line and in order, all of it if nothing broke; and nothing of a         *)
(* connection that does not start with the key.                            *)
THEOREM StoresWhatWasSent == LinkSpec => []StoredAsSent
BY LinkInvariant, CopyMeans, PTL DEF LinkSpec

-----------------------------------------------------------------------------
(***************************************************************************)
(* The first connection, while nothing goes wrong and the timer is not     *)
(* told to reconnect.                                                      *)
(***************************************************************************)
StillFirst == crashes + breaks + faults + forced = 0
FirstInv == StillFirst /\ Keyed(1) => Len(conns) = 1 /\ stream = 1 /\ conns[1].open

LEMMA StillFirstBefore ==
  ASSUME TypeOK, TypeOK', StillFirst',
         crashes' >= crashes, breaks' >= breaks, faults' >= faults, forced' >= forced
  PROVE  /\ StillFirst
         /\ crashes' = 0 /\ breaks' = 0 /\ faults' = 0 /\ forced' = 0
<1>1. \A a, b, d, e \in Nat : a + b + d + e = 0 => a = 0 /\ b = 0 /\ d = 0 /\ e = 0
  OBVIOUS
<1>2. crashes' \in Nat /\ breaks' \in Nat /\ faults' \in Nat /\ forced' \in Nat
  BY OutboxAssumption DEF TypeOK
<1>3. crashes' + breaks' + faults' + forced' = 0
  BY DEF StillFirst
<1>4. crashes' = 0 /\ breaks' = 0 /\ faults' = 0 /\ forced' = 0
  BY <1>1, <1>2, <1>3
<1>5. crashes = 0 /\ breaks = 0 /\ faults = 0 /\ forced = 0
  BY <1>4, OutboxAssumption DEF TypeOK
<1> QED
  BY <1>4, <1>5 DEF StillFirst

LEMMA FirstAgentStep ==
  ASSUME LinkInv, FirstInv, [Next]_vars, StillFirst', Keyed(1)'
  PROVE  Len(conns') = 1 /\ stream' = 1 /\ conns'[1].open
<1>0. TypeOK /\ TypeOK'
  BY StepTyped DEF LinkInv
<1>1. /\ StillFirst
      /\ crashes' = 0 /\ breaks' = 0 /\ faults' = 0 /\ forced' = 0
  BY <1>0, TroubleGrows, StillFirstBefore
<1>2. Grown /\ Len(conns) \in Nat
  BY ConnsGrow, LiveOnes DEF LinkInv
<1>3. Keyed(1)
  <2>1. CASE Len(conns) = 0
    <3>1. Opens /\ Len(conns') = 1
      BY <1>2, <2>1 DEF Grown, Opens, Keyed
    <3>2. conns'[1].sent \in Seq(Line)
      BY <1>1, <2>1, <3>1 DEF Opens
    <3>3. conns'[1].sent # <<>> => Head(conns'[1].sent) \in Line
      BY <3>2, HeadTailProperties
    <3> QED
      BY <3>3, KeyIsNoLine DEF Keyed
  <2>2. CASE 1 \in 1..Len(conns)
    BY <2>2, SentGrows DEF LinkInv
  <2> QED
    BY <1>2, <2>1, <2>2
<1>4. Len(conns) = 1 /\ stream = 1 /\ conns[1].open /\ 1 \in 1..Len(conns)
  BY <1>1, <1>3 DEF FirstInv
<1>5. stream' = stream
  <2>1. CASE UNCHANGED vars
    BY <2>1 DEF vars, agentVars
  <2>2. ~Reconnect /\ ~ReconnectFails /\ ~NoStream /\ ~FirstWriteFails
    BY <1>4 DEF Reconnect, ReconnectFails, NoStream, FirstWriteFails, NoConn
  <2>3. ~ForcedDrop /\ ~CrashAndRestart /\ \A t \in Tasks : ~SendFails(t)
    <3>1. crashes \in Nat /\ forced \in Nat /\ faults \in Nat
      BY <1>0, OutboxAssumption DEF TypeOK
    <3> QED
      BY <1>1, <1>4, <3>1 DEF ForcedDrop, CrashAndRestart, SendFails, Fault
  <2>4. ASSUME NEW w \in flight, Land(w) \/ WriteFails(w) PROVE stream' = stream
    BY <2>4 DEF Land, WriteFails
  <2>5. ASSUME NEW t \in Tasks, \/ AppendLine(t) \/ AppendFails(t) \/ Read(t) \/ ReadFails(t)
                                \/ Lock(t) \/ SendOk(t) \/ Clear(t) \/ ClearFails(t)
        PROVE stream' = stream
    BY <2>5 DEF AppendLine, AppendFails, Read, ReadFails, Lock, SendOk, Clear, ClearFails
  <2>6. ASSUME NEW c \in 1..Len(conns), Break(c) PROVE stream' = stream
    BY <2>6 DEF Break, agentVars
  <2>7. CASE Forward \/ Tick
    BY <2>7 DEF Forward, Tick
  <2> QED
    BY <2>1, <2>2, <2>3, <2>4, <2>5, <2>6, <2>7, AgentSteps DEF Next, AgentStep
<1>6. Len(conns') = Len(conns) /\ conns'[1].open
  BY <1>1, <1>2, <1>4, <1>5 DEF Grown, Opens, NoConn
<1> QED
  BY <1>4, <1>5, <1>6

LEMMA FirstThreadStep ==
  ASSUME LinkInv, FirstInv, NEW c \in Live, ServerStep(c) \/ FlushRaises(c), StillFirst', Keyed(1)'
  PROVE  Len(conns') = 1 /\ stream' = 1 /\ conns'[1].open
<1>1. /\ TypeOK /\ TypeOK' /\ Quiet /\ UNCHANGED <<forced, breaks, crashes>>
  BY ThreadQuiet DEF LinkInv
<1>2. /\ crashes' >= crashes /\ breaks' >= breaks /\ faults' >= faults /\ forced' >= forced
  <2>1. crashes \in Nat /\ breaks \in Nat /\ faults \in Nat /\ forced \in Nat
    BY <1>1, OutboxAssumption DEF TypeOK
  <2>2. faults' = faults \/ faults' = faults + 1
    BY DEF ServerStep, ReadKey, ReadLine, Flush, Eof, FlushRaises, Fault, vars, counters
  <2> QED
    BY <1>1, <2>1, <2>2
<1>3. StillFirst
  BY <1>1, <1>2, StillFirstBefore
<1>4. Keyed(1)
  BY <1>1, LiveOnes DEF Quiet, Keyed, LinkInv
<1>5. Len(conns) = 1 /\ stream = 1 /\ conns[1].open /\ stream' = stream /\ Len(conns') = Len(conns)
  BY <1>1, <1>3, <1>4 DEF FirstInv, Quiet, agentVars
<1>6. c = 1
  BY <1>5, LiveOnes DEF LinkInv
<1>7. ~KeyRejected(c) /\ ~Ended(c)
  BY <1>4, <1>5, <1>6 DEF KeyRejected, Ended
<1>8. conns' = conns
  <2>1. Thread(c)
    BY ThreadStep DEF LinkInv
  <2> QED
    BY <1>7, <2>1 DEF Thread, KeyTaken, LineTaken, Flushed
<1> QED
  BY <1>5, <1>8

LEMMA FirstStep ==
  ASSUME LinkInv, FirstInv, [LinkNext]_linkVars
  PROVE  FirstInv'
<1> SUFFICES ASSUME StillFirst', Keyed(1)' PROVE Len(conns') = 1 /\ stream' = 1 /\ conns'[1].open
  BY DEF FirstInv
<1>1. ~PipelineCrash
  <2>1. LinkInv'
    BY LinkStep
  <2>2. /\ crashes \in Nat /\ crashes' \in Nat /\ breaks' \in Nat /\ faults' \in Nat
        /\ forced' \in Nat
    BY <2>1, OutboxAssumption DEF LinkInv, TypeOK
  <2>3. crashes' + breaks' + faults' + forced' = 0
    BY DEF StillFirst
  <2>4. \A a, b, d, e \in Nat : a + b + d + e = 0 => a = 0
    OBVIOUS
  <2>5. crashes' = 0
    BY <2>2, <2>3, <2>4
  <2> QED
    BY <2>2, <2>5 DEF PipelineCrash
<1> QED
  BY <1>1, FirstAgentStep, FirstThreadStep DEF LinkNext, linkVars

LEMMA FirstStart == LinkInit => FirstInv
<1> SUFFICES ASSUME LinkInit, Keyed(1) PROVE Len(conns) = 1 /\ stream = 1 /\ conns[1].open
  BY DEF FirstInv
<1>1. Len(<<>>) = 0
  OBVIOUS
<1>2. conns # <<>>
  BY <1>1 DEF Keyed
<1> QED
  BY <1>2 DEF LinkInit, Init, Connected

LEMMA FirstInvariant == LinkInit /\ [][LinkNext]_linkVars => []FirstInv
<1>1. LinkInv /\ FirstInv /\ [LinkNext]_linkVars => FirstInv'
  BY FirstStep
<1> QED
  BY <1>1, FirstStart, LinkInvariant, PTL

(* An event written to the first connection is stored, pending, or still   *)
(* to be read.                                                             *)
LEMMA RestLines ==
  ASSUME NEW q \in Seq(Line \cup {Key}), NEW k \in 0..Len(q), NEW i \in 1..Len(q), i > k
  PROVE  Range(q[i]) \subseteq EventsIn(SubSeq(q, k + 1, Len(q)))
<1>1. Len(q) \in Nat /\ \A j \in 1..Len(q) : q[j] \in Line \cup {Key}
  BY LenProperties, ElementOfSeq
<1>2. PICK m \in Nat : m = k + 1
  BY <1>1
<1>0. PICK r : r = SubSeq(q, m, Len(q))
  OBVIOUS
<1>3. \A j \in m..Len(q) : q[j] \in Line \cup {Key}
  BY <1>1, <1>2
<1>4. /\ Len(r) = IF m <= Len(q) THEN Len(q) - m + 1 ELSE 0
      /\ \A j \in 1..(Len(q) - m + 1) : r[j] = q[m + j - 1]
  BY <1>0, <1>1, <1>2, <1>3, SubSeqProperties
<1>5. PICK j \in 1..Len(r) : j = i - k
  BY <1>1, <1>2, <1>4
<1>6. r[j] = q[i]
  <2>1. j \in 1..(Len(q) - m + 1) /\ m + j - 1 = i
    BY <1>1, <1>2, <1>4, <1>5
  <2> QED
    BY <1>4, <2>1
<1> QED
  BY <1>0, <1>2, <1>5, <1>6 DEF EventsIn

LEMMA ConnectedLosesNothing ==
  LinkInv /\ FirstInv => NothingLostWhileConnected
<1> SUFFICES ASSUME LinkInv, FirstInv, StillFirst, Keyed(1), NEW e \in 1..forwarded
             PROVE  e \in Safe
  BY DEF NothingLostWhileConnected, QueuedUntilDelivered, StillFirst
<1>1. e \in Held \cup Written \cup dropped \cup overtaken
  BY DEF LinkInv, ClearInv, NothingClearedUnsent, Accounted
<1>2. ASSUME e \in Written
      PROVE  e \in Safe
  <2>1. Len(conns) = 1 /\ stream = 1 /\ 1 \in Numbers /\ NoTrouble /\ faults = 0
    <3>1. crashes \in Nat /\ breaks \in Nat /\ faults \in Nat /\ forced \in Nat
      BY OutboxAssumption DEF LinkInv, TypeOK
    <3>2. \A a, b, d, f \in Nat : a + b + d + f = 0 => a + b + d = 0 /\ d = 0
      OBVIOUS
    <3> QED
      BY <3>1, <3>2, OutboxAssumption DEF FirstInv, StillFirst, NoTrouble, Numbers
  <2>2. /\ Sent(1) \in Seq(Line \cup {Key}) /\ Len(Sent(1)) \in Nat /\ Sent(1) # <<>>
        /\ Head(Sent(1)) = Key /\ Served(1) /\ srv[1] \in Threads
        /\ stored[1] \in Seq(Line) /\ srv[1].pending \in Seq(Line)
        /\ Copies(1) /\ Finishes(1)
    BY <2>1, LiveOnes, LenProperties DEF LinkInv, DeliveryInv, Keyed, Sent, Threads
  <2>3. PICK i \in 1..Len(Sent(1)) : e \in Range(Sent(1)[i])
    <3>1. PICK c \in 1..Len(conns) : e \in EventsIn(conns[c].sent)
      BY <1>2 DEF Written
    <3>2. c = 1
      BY <2>1, <3>1
    <3> QED
      BY <3>1, <3>2 DEF Sent, EventsIn
  <2>4. i # 1
    <3>1. e \notin Range(Key) /\ Sent(1)[1] = Key
      BY <2>2 DEF Key, Range
    <3> QED
      BY <2>3, <3>1
  <2>5. 1 \in Live
    <3>1. srv[1].state # "closed"
      BY <2>1, <2>2 DEF Finishes
    <3> QED
      BY <2>1, <3>1 DEF Live
  <2>6. OnTheWay(1) \subseteq Safe /\ EventsIn(stored[1]) \subseteq Safe
    BY <2>1, <2>5 DEF Safe, InTransit, Stored
  <2>7. srv[1].read \in 0..Len(Sent(1))
    BY <2>2, <2>5 DEF Served, Threads, Live
  <2>8. CASE i > srv[1].read
    <3>1. e \in EventsIn(SubSeq(Sent(1), srv[1].read + 1, Len(Sent(1))))
      BY <2>2, <2>3, <2>7, <2>8, RestLines
    <3> QED
      BY <2>6, <3>1 DEF OnTheWay, Sent
  <2>9. CASE i <= srv[1].read
    <3>1. srv[1].state = "reading"
      BY <2>2, <2>5, <2>7, <2>9 DEF Served, Threads, Live
    <3>2. CopiedFrom(Got(1), Sent(1)) /\ srv[1].read = Len(Got(1)) + 1
      BY <2>1, <2>2, <3>1 DEF Copies
    <3>3. Len(Got(1)) \in Nat /\ Got(1) \in Seq(Line)
      BY <2>2, GotNothing DEF Got
    <3>4. PICK j \in 1..Len(Got(1)) : j + 1 = i
      <4>1. i - 1 \in 1..Len(Got(1)) /\ (i - 1) + 1 = i
        BY <2>2, <2>3, <2>4, <2>9, <3>2, <3>3
      <4> QED
        BY <4>1
    <3>5. Got(1)[j] = Sent(1)[i]
      BY <3>2, <3>4 DEF CopiedFrom
    <3>6. e \in EventsIn(Got(1))
      BY <2>3, <3>4, <3>5 DEF EventsIn
    <3>7. EventsIn(Got(1)) = EventsIn(stored[1]) \cup EventsIn(srv[1].pending)
      BY <2>2, EventsConcatAre DEF Got
    <3> QED
      BY <2>6, <3>6, <3>7 DEF OnTheWay
  <2> QED
    BY <2>2, <2>3, <2>7, <2>8, <2>9
<1> QED
  BY <1>1, <1>2 DEF Safe

(* As long as the agent's first connection holds, whichever task sends, an *)
(* event is in the agent's hands, on the way to a thread that will read    *)
(* it, or stored, unless a clear overtook its append.                      *)
THEOREM ConnectedKeepsAll == LinkSpec => []NothingLostWhileConnected
BY LinkInvariant, FirstInvariant, ConnectedLosesNothing, PTL DEF LinkSpec
=============================================================================
