------------------------ MODULE WinForwarder_proofs ------------------------
(***************************************************************************)
(* The Windows forwarder: one connection at most, no event lost between    *)
(* the lists it moves through, and none sent twice without a failure; for  *)
(* any number of events, connections, troubles and any size of the offline *)
(* buffer.                                                                 *)
(***************************************************************************)
EXTENDS WinForwarder, SequenceTheorems, FiniteSetTheorems, TLAPS

Event == 1..MaxEvents

(* The type invariant in three parts.                                      *)
Holding == {"drop", "dial", "auth", "up", "retry"}

Control ==
  /\ life \in {"starting", "running", "stopping", "stopped"}
  /\ connected \in BOOLEAN
  /\ reconnect \in Threads \cup {"none"} /\ buffer \in Threads \cup {"none"}
  /\ pc \in [Threads -> {"idle", "send", "mark", "reconnect", "drop", "dial",
                         "auth", "up", "retry", "flush", "flushing", "resend", "store"}]
  /\ \A t \in Threads : (pc[t] \in Holding <=> reconnect = t) /\ (pc[t] = "flushing" <=> buffer = t)

Lists ==
  /\ item \in [Threads -> Line]
  /\ work \in Seq(Event) /\ failed \in Seq(Event) /\ disk \in Seq(Event)
  /\ taken \in 0..MaxEvents /\ dropped \subseteq Event

Sock == [sent : Seq(Line), up : BOOLEAN, open : BOOLEAN]

Sockets ==
  /\ socks \in Seq(Sock)
  /\ fd \in 0..Len(socks)

(* What a thread has to send: a heartbeat, or an event that was taken.     *)
Items ==
  /\ item[Heart] = Beat
  /\ pc[Worker] # "idle" => item[Worker] \in 1..taken

(* Only the socket of socket_fd_ is open, and none is while a thread dials. *)
OpenIsFd ==
  /\ \A s \in 1..Len(socks) : socks[s].open => s = fd
  /\ \A t \in Threads : pc[t] = "dial" => \A s \in 1..Len(socks) : ~socks[s].open
  /\ \A t \in Threads : pc[t] = "auth" => Len(socks) > 0

(* During a flush the file holds what is still to send, what failed and    *)
(* what was sent; there is nothing of a flush outside of one.              *)
FlushKeeps ==
  /\ buffer = "none" => work = <<>> /\ failed = <<>>
  /\ Range(work) \cup Range(failed) \subseteq Range(disk)
  /\ buffer # "none" => Range(disk) \subseteq Range(work) \cup Range(failed) \cup Written

(* Without a crash or a torn line an event is in one place: written once,  *)
(* or on disk, in one of the lists of a flush, or in the worker's hands.   *)
Distinct(q) == \A i, j \in 1..Len(q) : q[i] = q[j] => i = j

OnceIn(ss) ==
  \A r, s \in 1..Len(ss) : \A i \in 1..Len(ss[r].sent), j \in 1..Len(ss[s].sent) :
    ss[r].sent[i] = ss[s].sent[j] /\ ss[r].sent[i] \in Event => r = s /\ i = j

OnePlace ==
  crashes + faults = 0 =>
    /\ OnceIn(socks)
    /\ Distinct(disk) /\ Distinct(work) /\ Distinct(failed)
    /\ Range(work) \cap Range(failed) = {}
    /\ (Range(work) \cup Range(failed)) \cap Written = {}
    /\ buffer = "none" => Range(disk) \cap Written = {}
    /\ InHand \cap (Written \cup Range(disk)) = {}

(* Nothing is anywhere before send_event was called for it.                *)
OnlyTaken ==
  /\ Range(disk) \subseteq 1..taken
  /\ Written \cap Event \subseteq 1..taken

Counts == crashes \in Nat /\ faults \in Nat /\ breaks \in Nat

ForwarderInv ==
  /\ TypeOK /\ Items /\ OpenIsFd /\ Counts
  /\ FlushKeeps /\ OnlyTaken /\ NothingVanishes /\ OnePlace

-----------------------------------------------------------------------------
(* Sequences.                                                              *)
LEMMA InRange ==
  ASSUME NEW S, NEW q \in Seq(S)
  PROVE  \A e : e \in Range(q) <=> \E i \in 1..Len(q) : q[i] = e
BY DEF Range

LEMMA IsASeqLen ==
  ASSUME NEW S, NEW n \in Nat, NEW q \in [1..n -> S]
  PROVE  q \in Seq(S) /\ Len(q) = n
BY IsASeq, LenProperties

LEMMA EmptyRange == Range(<<>>) = {} /\ Distinct(<<>>)
BY DEF Range, Distinct

LEMMA AppendRange ==
  ASSUME NEW S, NEW q \in Seq(S), NEW x \in S
  PROVE  /\ Append(q, x) \in Seq(S)
         /\ Range(Append(q, x)) = Range(q) \cup {x}
         /\ Distinct(q) /\ x \notin Range(q) => Distinct(Append(q, x))
<1> DEFINE p == Append(q, x)
<1>1. p \in Seq(S) /\ Len(p) = Len(q) + 1 /\ p[Len(q) + 1] = x
      /\ \A i \in 1..Len(q) : p[i] = q[i] /\ i \in 1..Len(p)
  OBVIOUS
<1>2. \A i \in 1..Len(p) : i \in 1..Len(q) \/ i = Len(q) + 1
  BY <1>1
<1>3. Len(q) + 1 \in 1..Len(p)
  BY <1>1
<1> HIDE DEF p
<1>4. Range(p) = Range(q) \cup {x}
  BY <1>1, <1>2, <1>3, InRange
<1>5. Distinct(q) /\ x \notin Range(q) => Distinct(p)
  BY <1>1, <1>2, InRange DEF Distinct
<1> QED
  BY <1>1, <1>4, <1>5 DEF p

LEMMA TailRange ==
  ASSUME NEW S, NEW q \in Seq(S), q # <<>>
  PROVE  /\ Head(q) \in S /\ Tail(q) \in Seq(S)
         /\ Range(q) = {Head(q)} \cup Range(Tail(q))
         /\ Distinct(q) => Distinct(Tail(q)) /\ Head(q) \notin Range(Tail(q))
<1> DEFINE p == Tail(q)
<1>1. p \in Seq(S) /\ Len(q) = Len(p) + 1 /\ Head(q) = q[1] /\ Head(q) \in S
      /\ Len(p) \in Nat /\ \A i \in 1..Len(p) : p[i] = q[i + 1]
  OBVIOUS
<1>2. 1 \in 1..Len(q) /\ \A i \in 1..Len(p) : i + 1 \in 1..Len(q) /\ i + 1 # 1
  BY <1>1
<1>3. \A i \in 1..Len(q) : i = 1 \/ (i - 1 \in 1..Len(p) /\ (i - 1) + 1 = i)
  BY <1>1
<1> HIDE DEF p
<1>4. Range(q) = {Head(q)} \cup Range(p)
  <2>1. \A e : e \in Range(q) => e = Head(q) \/ e \in Range(p)
    <3> SUFFICES ASSUME NEW e, NEW i \in 1..Len(q), q[i] = e
                 PROVE  e = Head(q) \/ \E j \in 1..Len(p) : p[j] = e
      BY <1>1, InRange
    <3> QED
      BY <1>1, <1>3
  <2>2. \A e : e = Head(q) \/ e \in Range(p) => e \in Range(q)
    BY <1>1, <1>2, InRange
  <2> QED
    BY <2>1, <2>2
<1>5. ASSUME Distinct(q) PROVE Distinct(p) /\ Head(q) \notin Range(p)
  <2>1. Head(q) \notin Range(p)
    BY <1>1, <1>2, <1>5, InRange DEF Distinct
  <2>2. \A i, j \in 1..Len(p) : p[i] = p[j] => i + 1 = j + 1
    BY <1>1, <1>2, <1>5 DEF Distinct
  <2>3. \A i, j \in 1..Len(p) : i + 1 = j + 1 => i = j
    BY <1>1
  <2> QED
    BY <2>1, <2>2, <2>3 DEF Distinct
<1> QED
  BY <1>1, <1>4, <1>5 DEF p

-----------------------------------------------------------------------------
(* What is written to sockets.                                             *)
In(ss) == UNION {Range(ss[s].sent) : s \in 1..Len(ss)}

LEMMA SockParts ==
  ASSUME NEW k \in Sock
  PROVE  /\ k.sent \in Seq(Line) /\ k.open \in BOOLEAN /\ k.up \in BOOLEAN
         /\ \A q \in Seq(Line) : /\ [k EXCEPT !.sent = q] \in Sock
                                 /\ [k EXCEPT !.sent = q].sent = q
                                 /\ [k EXCEPT !.sent = q].open = k.open
BY DEF Sock

LEMMA InMeans ==
  ASSUME NEW ss \in Seq(Sock)
  PROVE  \A e : e \in In(ss) <=> \E s \in 1..Len(ss) : \E i \in 1..Len(ss[s].sent) : ss[s].sent[i] = e
<1>1. \A s \in 1..Len(ss) : ss[s].sent \in Seq(Line)
  <2>1. \A s \in 1..Len(ss) : ss[s] \in Sock
    OBVIOUS
  <2> QED
    BY <2>1, SockParts
<1>2. \A s \in 1..Len(ss) : \A e : e \in Range(ss[s].sent) <=> \E i \in 1..Len(ss[s].sent) : ss[s].sent[i] = e
  BY <1>1, InRange
<1> QED
  BY <1>2 DEF In

(* Sockets that are opened, closed or broken: what was written stays.      *)
LEMMA SentsSame ==
  ASSUME NEW ss \in Seq(Sock), NEW tt \in Seq(Sock), Len(ss) <= Len(tt),
         \A r \in 1..Len(ss) : tt[r].sent = ss[r].sent,
         \A r \in 1..Len(tt) : r \in 1..Len(ss) \/ tt[r].sent = <<>>
  PROVE  In(tt) = In(ss) /\ (OnceIn(ss) => OnceIn(tt))
<1>1. \A r \in 1..Len(ss) : r \in 1..Len(tt)
  OBVIOUS
<1>2. \A r \in 1..Len(tt) : \A i \in 1..Len(tt[r].sent) :
        r \in 1..Len(ss) /\ tt[r].sent = ss[r].sent
  OBVIOUS
<1>3. In(tt) = In(ss)
  <2>1. \A e : e \in In(tt) => e \in In(ss)
    BY <1>2, InMeans
  <2>2. \A e : e \in In(ss) => e \in In(tt)
    BY <1>1, InMeans
  <2> QED
    BY <2>1, <2>2
<1>4. OnceIn(ss) => OnceIn(tt)
  <2> SUFFICES ASSUME OnceIn(ss), NEW r \in 1..Len(tt), NEW q \in 1..Len(tt),
                      NEW i \in 1..Len(tt[r].sent), NEW j \in 1..Len(tt[q].sent),
                      tt[r].sent[i] = tt[q].sent[j], tt[r].sent[i] \in Event
               PROVE  r = q /\ i = j
    BY DEF OnceIn
  <2>1. /\ r \in 1..Len(ss) /\ tt[r].sent = ss[r].sent
        /\ q \in 1..Len(ss) /\ tt[q].sent = ss[q].sent
    BY <1>2
  <2>2. i \in 1..Len(ss[r].sent) /\ j \in 1..Len(ss[q].sent)
        /\ ss[r].sent[i] = ss[q].sent[j] /\ ss[r].sent[i] \in Event
    BY <2>1
  <2> QED
    BY <2>1, <2>2 DEF OnceIn
<1> QED
  BY <1>3, <1>4

(* An item more on one of them.                                            *)
LEMMA SentOneMore ==
  ASSUME NEW ss \in Seq(Sock), NEW s \in 1..Len(ss), NEW x \in Line,
         NEW tt \in Seq(Sock), Len(tt) = Len(ss),
         tt[s].sent = Append(ss[s].sent, x),
         \A r \in 1..Len(ss) : r # s => tt[r] = ss[r]
  PROVE  /\ In(tt) = In(ss) \cup {x}
         /\ OnceIn(ss) /\ (x \notin Event \/ x \notin In(ss)) => OnceIn(tt)
<1> DEFINE q == ss[s].sent
<1>1. ss[s] \in Sock /\ q \in Seq(Line)
  <2>1. ss[s] \in Sock
    OBVIOUS
  <2> QED
    BY <2>1, SockParts
<1>2. /\ Append(q, x) \in Seq(Line) /\ Len(Append(q, x)) = Len(q) + 1
      /\ Append(q, x)[Len(q) + 1] = x
      /\ \A i \in 1..Len(q) : Append(q, x)[i] = q[i]
  BY <1>1
<1>3. Len(tt) = Len(ss)
  OBVIOUS
<1>4. tt[s].sent = Append(q, x) /\ \A r \in 1..Len(ss) : r # s => tt[r] = ss[r]
  OBVIOUS
<1>5. /\ Len(q) + 1 \in 1..Len(tt[s].sent) /\ tt[s].sent[Len(q) + 1] = x
      /\ \A i \in 1..Len(q) : i \in 1..Len(tt[s].sent) /\ tt[s].sent[i] = q[i]
      /\ \A i \in 1..Len(tt[s].sent) : i \in 1..Len(q) \/ i = Len(q) + 1
  BY <1>1, <1>2, <1>4
<1>6. \A r \in 1..Len(tt) : \A i \in 1..Len(tt[r].sent) :
        \/ i \in 1..Len(ss[r].sent) /\ tt[r].sent[i] = ss[r].sent[i]
        \/ r = s /\ i = Len(q) + 1 /\ tt[r].sent[i] = x
  BY <1>3, <1>4, <1>5
<1>7. \A r \in 1..Len(ss) : \A i \in 1..Len(ss[r].sent) :
        i \in 1..Len(tt[r].sent) /\ tt[r].sent[i] = ss[r].sent[i]
  BY <1>4, <1>5
<1> HIDE DEF q
<1>c. \A e : e \in In(ss) <=> \E r \in 1..Len(ss) : \E i \in 1..Len(ss[r].sent) : ss[r].sent[i] = e
  BY InMeans
<1>d. \A e : e \in In(tt) <=> \E r \in 1..Len(tt) : \E i \in 1..Len(tt[r].sent) : tt[r].sent[i] = e
  BY <1>3, InMeans
<1>8. In(tt) = In(ss) \cup {x}
  <2>1. ASSUME NEW e \in In(tt) PROVE e \in In(ss) \cup {x}
    <3>0. PICK r \in 1..Len(tt) : \E i \in 1..Len(tt[r].sent) : tt[r].sent[i] = e
      BY <1>d, <2>1
    <3>1. PICK i \in 1..Len(tt[r].sent) : tt[r].sent[i] = e
      BY <3>0
    <3> QED
      BY <1>3, <1>6, <1>c, <3>1
  <2>2. ASSUME NEW e \in In(ss) PROVE e \in In(tt)
    <3>0. PICK r \in 1..Len(ss) : \E i \in 1..Len(ss[r].sent) : ss[r].sent[i] = e
      BY <1>c, <2>2
    <3>1. PICK i \in 1..Len(ss[r].sent) : ss[r].sent[i] = e
      BY <3>0
    <3> QED
      BY <1>3, <1>7, <1>d, <3>1
  <2>3. x \in In(tt)
    BY <1>3, <1>5, <1>d
  <2> QED
    BY <2>1, <2>2, <2>3
<1>9. ASSUME OnceIn(ss), x \notin Event \/ x \notin In(ss) PROVE OnceIn(tt)
  <2> SUFFICES ASSUME NEW r \in 1..Len(tt), NEW z \in 1..Len(tt),
                      NEW i \in 1..Len(tt[r].sent), NEW j \in 1..Len(tt[z].sent),
                      tt[r].sent[i] = tt[z].sent[j], tt[r].sent[i] \in Event
               PROVE  r = z /\ i = j
    BY DEF OnceIn
  <2>1. \A y \in 1..Len(ss) : \A m \in 1..Len(ss[y].sent) :
          ss[y].sent[m] \in Event => ss[y].sent[m] # x
    BY <1>9, <1>c
  <2>2. CASE i \in 1..Len(ss[r].sent) /\ tt[r].sent[i] = ss[r].sent[i]
    <3>0. tt[z].sent[j] # x
      BY <1>3, <2>1, <2>2
    <3>1. j \in 1..Len(ss[z].sent) /\ tt[z].sent[j] = ss[z].sent[j]
      BY <1>6, <3>0
    <3>2. /\ r \in 1..Len(ss) /\ z \in 1..Len(ss)
          /\ ss[r].sent[i] = ss[z].sent[j] /\ ss[r].sent[i] \in Event
      BY <1>3, <2>2, <3>1
    <3> QED
      BY <1>9, <2>2, <3>1, <3>2 DEF OnceIn
  <2>3. CASE r = s /\ i = Len(q) + 1 /\ tt[r].sent[i] = x
    <3>1. z = s /\ j = Len(q) + 1
      BY <1>3, <1>6, <2>1, <2>3
    <3> QED
      BY <2>3, <3>1
  <2> QED
    BY <1>6, <2>2, <2>3
<1> QED
  BY <1>8, <1>9

LEMMA PutWrites ==
  ASSUME Sockets, NEW s \in 1..Len(socks), NEW x \in Line, Put(s, x)
  PROVE  /\ socks' \in Seq(Sock) /\ Len(socks') = Len(socks)
         /\ \A r \in 1..Len(socks) : socks'[r].open = socks[r].open
         /\ In(socks') = In(socks) \cup {x}
         /\ OnceIn(socks) /\ (x \notin Event \/ x \notin In(socks)) => OnceIn(socks')
<1> DEFINE q == socks[s].sent
<1>1. CASE x = Beat /\ q # <<>> /\ q[Len(q)] = Beat
  <2>1. q \in Seq(Line)
    <3>1. socks[s] \in Sock
      BY DEF Sockets
    <3> QED
      BY <3>1, SockParts
  <2>2. Len(q) \in 1..Len(q)
    BY <1>1, <2>1, EmptySeq
  <2>3. x \in In(socks)
    BY <1>1, <2>2, InMeans DEF Sockets
  <2> QED
    BY <1>1, <2>3 DEF Put, Sockets
<1>2. CASE ~(x = Beat /\ q # <<>> /\ q[Len(q)] = Beat)
  <2> DEFINE k == [socks[s] EXCEPT !.sent = Append(q, x)]
  <2>1. socks' = [socks EXCEPT ![s] = k]
    BY <1>2 DEF Put
  <2>2. socks \in Seq(Sock) /\ socks[s] \in Sock
    BY DEF Sockets
  <2>3. Append(q, x) \in Seq(Line)
    BY <2>2, SockParts
  <2>4. k \in Sock /\ k.sent = Append(q, x) /\ k.open = socks[s].open
    BY <2>2, <2>3, SockParts
  <2> HIDE DEF k
  <2>5. /\ socks' \in Seq(Sock) /\ Len(socks') = Len(socks) /\ socks'[s] = k
        /\ \A r \in 1..Len(socks) : r # s => socks'[r] = socks[r]
    BY <2>1, <2>2, <2>4
  <2>6. \A r \in 1..Len(socks) : socks'[r].open = socks[r].open
    BY <2>4, <2>5
  <2>7. /\ In(socks') = In(socks) \cup {x}
        /\ OnceIn(socks) /\ (x \notin Event \/ x \notin In(socks)) => OnceIn(socks')
    BY <2>2, <2>4, <2>5, SentOneMore
  <2> QED
    BY <2>5, <2>6, <2>7
<1> QED
  BY <1>1, <1>2

-----------------------------------------------------------------------------
LEMMA TypeParts == TypeOK <=> Control /\ Lists /\ Sockets
BY Zenon DEF TypeOK, Control, Lists, Sockets, Sock, Event, Holding

(* Each action keeps the threads and their mutexes in order.               *)
LEMMA ControlKept ==
  ASSUME Control, [Next]_vars
  PROVE  Control'
<1> USE DEF Control, Holding, Threads, Worker, Heart, Goto
<1>1. ASSUME NEW t \in Threads, Step(t) PROVE Control'
  <2>1. CASE Send(t)
    BY <2>1 DEF Send
  <2>2. CASE Mark(t)
    BY <2>2 DEF Mark, Continue
  <2>3. CASE Reconnect(t)
    BY <2>3 DEF Reconnect, CanLock
  <2>4. CASE Drop(t)
    BY <2>4 DEF Drop, Closed
  <2>5. CASE Dial(t)
    BY <2>5 DEF Dial
  <2>6. CASE DialFails(t)
    BY <2>6 DEF DialFails
  <2>7. CASE Auth(t)
    BY <2>7 DEF Auth
  <2>8. CASE Up(t)
    BY <2>8 DEF Up
  <2>9. CASE Retry(t)
    BY <2>9 DEF Retry, Continue
  <2>10. CASE Flush(t)
    BY <2>10 DEF Flush, Continue
  <2>11. CASE FlushLine(t)
    BY <2>11 DEF FlushLine
  <2>12. CASE FlushEnds(t)
    BY <2>12 DEF FlushEnds, Continue
  <2> QED
    BY <1>1, <2>1, <2>2, <2>3, <2>4, <2>5, <2>6, <2>7, <2>8, <2>9, <2>10, <2>11, <2>12 DEF Step
<1>2. CASE SendEvent
  BY <1>2 DEF SendEvent, FirstStep
<1>3. CASE SendHeartbeat
  BY <1>3 DEF SendHeartbeat, FirstStep
<1>4. CASE Resend
  BY <1>4 DEF Resend
<1>5. CASE Store \/ StoreFails
  BY <1>5 DEF Store, StoreFails
<1>6. CASE Stop
  BY <1>6 DEF Stop
<1>7. CASE Stopped
  BY <1>7 DEF Stopped, Closed
<1>8. CASE Crash
  BY <1>8 DEF Crash
<1>9. ASSUME NEW s \in 1..Len(socks), Break(s) PROVE Control'
  BY <1>9 DEF Break
<1>10. CASE UNCHANGED vars
  BY <1>10 DEF vars
<1> QED
  BY <1>1, <1>2, <1>3, <1>4, <1>5, <1>6, <1>7, <1>8, <1>9, <1>10 DEF Next, WorkerStep, HeartStep

-----------------------------------------------------------------------------
(* What a step does to the sockets: nothing is opened, and x is written at *)
(* most.                                                                   *)
SameOpen ==
  /\ socks' \in Seq(Sock) /\ Len(socks') = Len(socks)
  /\ \A r \in 1..Len(socks) : socks'[r].open => socks[r].open

Writes(x) ==
  /\ In(socks') = In(socks) \cup {x}
  /\ OnceIn(socks) /\ (x \notin Event \/ x \notin In(socks)) => OnceIn(socks')

WritesNothing ==
  /\ In(socks') = In(socks)
  /\ OnceIn(socks) => OnceIn(socks')

LEMMA LineParts ==
  Event \subseteq Line /\ {Key, Beat, Torn} \subseteq Line /\ {Key, Beat, Torn} \cap Event = {}
BY DEF Event, Line, Key, Beat, Torn

LEMMA SentWrites ==
  ASSUME Sockets, NEW x \in Line, Sent(x)
  PROVE  SameOpen /\ Writes(x) /\ faults' = faults
<1>1. fd \in 1..Len(socks) /\ Put(fd, x) /\ faults' = faults
  BY DEF Sent, Usable, NoSock, Sockets
<1> QED
  BY <1>1, PutWrites DEF SameOpen, Writes

LEMMA NotSentWrites ==
  ASSUME Sockets, NotSent
  PROVE  /\ SameOpen
         /\ WritesNothing \/ Writes(Torn)
         /\ faults' = faults \/ faults' = faults + 1
<1>1. CASE UNCHANGED <<socks, faults>>
  BY <1>1 DEF SameOpen, WritesNothing, Sockets
<1>2. CASE Usable /\ Fault /\ Put(fd, Torn)
  <2>1. fd \in 1..Len(socks) /\ Put(fd, Torn) /\ faults' = faults + 1
    BY <1>2 DEF Usable, NoSock, Sockets, Fault
  <2> QED
    BY <2>1, PutWrites, LineParts DEF SameOpen, Writes
<1> QED
  BY <1>1, <1>2 DEF NotSent

(* Closing or breaking sockets.                                            *)
LEMMA ChangedOnly ==
  ASSUME Sockets, NEW ss \in Seq(Sock), socks' = ss, Len(ss) = Len(socks),
         \A r \in 1..Len(socks) : ss[r].sent = socks[r].sent /\ (ss[r].open => socks[r].open)
  PROVE  SameOpen /\ WritesNothing
<1>1. In(ss) = In(socks) /\ (OnceIn(socks) => OnceIn(ss))
  BY SentsSame DEF Sockets
<1> QED
  BY <1>1 DEF SameOpen, WritesNothing

LEMMA SockFlags ==
  ASSUME NEW k \in Sock
  PROVE  /\ [k EXCEPT !.open = FALSE] \in Sock /\ [k EXCEPT !.open = FALSE].sent = k.sent
         /\ [k EXCEPT !.open = FALSE].open = FALSE
         /\ [k EXCEPT !.up = FALSE] \in Sock /\ [k EXCEPT !.up = FALSE].sent = k.sent
         /\ [k EXCEPT !.up = FALSE].open = k.open
BY DEF Sock

LEMMA ClosedClosesAll ==
  ASSUME Sockets, \A s \in 1..Len(socks) : socks[s].open => s = fd, Closed
  PROVE  SameOpen /\ WritesNothing /\ fd' = NoSock /\ \A r \in 1..Len(socks) : ~socks'[r].open
<1> DEFINE ss == [s \in 1..Len(socks) |->
                    IF s = fd THEN [socks[s] EXCEPT !.open = FALSE] ELSE socks[s]]
<1>1. socks' = ss /\ fd' = NoSock
  BY DEF Closed
<1>2. \A r \in 1..Len(socks) : socks[r] \in Sock /\ Len(socks) \in Nat
  BY DEF Sockets
<1>3. \A r \in 1..Len(socks) :
        ss[r] \in Sock /\ ss[r].sent = socks[r].sent /\ ~ss[r].open
  <2> SUFFICES ASSUME NEW r \in 1..Len(socks)
               PROVE  ss[r] \in Sock /\ ss[r].sent = socks[r].sent /\ ~ss[r].open
    OBVIOUS
  <2>1. CASE r = fd
    BY <1>2, <2>1, SockFlags
  <2>2. CASE r # fd
    <3>1. ss[r] = socks[r] /\ ~socks[r].open
      BY <2>2
    <3> QED
      BY <1>2, <3>1
  <2> QED
    BY <2>1, <2>2
<1>4. ss \in Seq(Sock) /\ Len(ss) = Len(socks)
  <2>1. Len(socks) \in Nat
    BY DEF Sockets
  <2>2. ss \in [1..Len(socks) -> Sock]
    BY <1>3
  <2> HIDE DEF ss
  <2> QED
    BY <2>1, <2>2, IsASeqLen
<1> HIDE DEF ss
<1>5. SameOpen /\ WritesNothing
  BY <1>1, <1>3, <1>4, ChangedOnly
<1> QED
  BY <1>1, <1>3, <1>5

LEMMA CrashClosesAll ==
  ASSUME Sockets,
         socks' = [s \in 1..Len(socks) |-> [socks[s] EXCEPT !.open = FALSE]]
  PROVE  SameOpen /\ WritesNothing /\ \A r \in 1..Len(socks) : ~socks'[r].open
<1> DEFINE ss == [s \in 1..Len(socks) |-> [socks[s] EXCEPT !.open = FALSE]]
<1>1. Len(socks) \in Nat /\ \A r \in 1..Len(socks) : socks[r] \in Sock
  BY DEF Sockets
<1>2. \A r \in 1..Len(socks) :
        ss[r] \in Sock /\ ss[r].sent = socks[r].sent /\ ~ss[r].open
  BY <1>1, SockFlags
<1>3. ss \in Seq(Sock) /\ Len(ss) = Len(socks)
  <2>1. ss \in [1..Len(socks) -> Sock]
    BY <1>2
  <2> HIDE DEF ss
  <2> QED
    BY <1>1, <2>1, IsASeqLen
<1>4. socks' = ss
  OBVIOUS
<1> HIDE DEF ss
<1> QED
  BY <1>2, <1>3, <1>4, ChangedOnly

LEMMA OneChanged ==
  ASSUME Sockets, NEW s \in 1..Len(socks), NEW k \in Sock,
         k.sent = socks[s].sent, k.open => socks[s].open, socks' = [socks EXCEPT ![s] = k]
  PROVE  SameOpen /\ WritesNothing /\ socks'[s] = k
<1> DEFINE ss == [socks EXCEPT ![s] = k]
<1>1. socks \in Seq(Sock)
  BY DEF Sockets
<1>2. ss \in Seq(Sock) /\ Len(ss) = Len(socks) /\ ss[s] = k
      /\ \A r \in 1..Len(socks) : r # s => ss[r] = socks[r]
  BY <1>1
<1>3. socks' = ss
  OBVIOUS
<1> HIDE DEF ss
<1>4. \A r \in 1..Len(socks) : ss[r].sent = socks[r].sent /\ (ss[r].open => socks[r].open)
  BY <1>2
<1> QED
  BY <1>2, <1>3, <1>4, ChangedOnly

-----------------------------------------------------------------------------
(* A step that opens nothing, and closes every socket if it leaves         *)
(* socket_fd_ for another or begins to dial.                               *)
LEMMA NothingOpened ==
  ASSUME Sockets, OpenIsFd, SameOpen, fd' \in 0..Len(socks),
         fd' = fd \/ \A r \in 1..Len(socks) : ~socks'[r].open,
         \A t \in Threads : pc'[t] = "dial" =>
           pc[t] = "dial" \/ \A r \in 1..Len(socks) : ~socks'[r].open,
         \A t \in Threads : pc'[t] = "auth" => pc[t] = "auth"
  PROVE  Sockets' /\ OpenIsFd'
<1>1. Sockets'
  BY DEF Sockets, SameOpen
<1>2. OpenIsFd'
  <2>1. \A s \in 1..Len(socks') : socks'[s].open => s = fd'
    BY DEF OpenIsFd, SameOpen
  <2>2. \A t \in Threads : pc'[t] = "dial" => \A s \in 1..Len(socks') : ~socks'[s].open
    BY DEF OpenIsFd, SameOpen
  <2>3. \A t \in Threads : pc'[t] = "auth" => Len(socks') > 0
    BY DEF OpenIsFd, SameOpen
  <2> QED
    BY <2>1, <2>2, <2>3 DEF OpenIsFd
<1> QED
  BY <1>1, <1>2

LEMMA SocketsKept ==
  ASSUME Control, Lists, Sockets, OpenIsFd, [Next]_vars
  PROVE  Sockets' /\ OpenIsFd'
<1> USE DEF Control, Holding, Threads, Worker, Heart, Goto
<1>0. fd \in 0..Len(socks) /\ (UNCHANGED socks => SameOpen)
  BY DEF Sockets, SameOpen
<1>1. ASSUME NEW t \in Threads, Step(t) PROVE Sockets' /\ OpenIsFd'
  <2>1. CASE Send(t)
    <3>1. SameOpen
      BY <2>1, SentWrites, NotSentWrites DEF Send, Lists
    <3> QED
      BY <1>0, <2>1, <3>1, NothingOpened DEF Send
  <2>2. CASE Mark(t)
    BY <1>0, <2>2, NothingOpened DEF Mark, Continue, net
  <2>3. CASE Reconnect(t)
    BY <1>0, <2>3, NothingOpened DEF Reconnect, CanLock, net
  <2>4. CASE Drop(t)
    <3>1. SameOpen /\ fd' = NoSock /\ \A r \in 1..Len(socks) : ~socks'[r].open
      BY <2>4, ClosedClosesAll DEF Drop, OpenIsFd
    <3> QED
      BY <2>4, <3>1, <1>0, NothingOpened DEF Drop, NoSock
  <2>5. CASE Dial(t)
    <3> DEFINE k == [sent |-> <<>>, up |-> TRUE, open |-> TRUE]
    <3>1. k \in Sock
      BY EmptySeq DEF Sock
    <3>2. socks' = Append(socks, k) /\ fd' = Len(socks) + 1
      BY <2>5 DEF Dial
    <3> HIDE DEF k
    <3>3. socks' \in Seq(Sock) /\ Len(socks') = Len(socks) + 1 /\ Len(socks) \in Nat
          /\ \A r \in 1..Len(socks) : socks'[r] = socks[r]
      BY <3>1, <3>2 DEF Sockets
    <3>4. \A r \in 1..Len(socks) : ~socks[r].open
      BY <2>5 DEF Dial, OpenIsFd
    <3>5. \A u \in Threads : pc'[u] # "dial"
      BY <2>5 DEF Dial
    <3>6. \A r \in 1..Len(socks') : socks'[r].open => r = fd'
      BY <3>2, <3>3, <3>4
    <3> QED
      BY <3>2, <3>3, <3>5, <3>6 DEF Sockets, OpenIsFd
  <2>6. CASE DialFails(t)
    BY <1>0, <2>6, NothingOpened DEF DialFails, net
  <2>7. CASE Auth(t)
    <3>1. Mine \in 1..Len(socks)
      BY <2>7 DEF Auth, OpenIsFd, Mine, Sockets
    <3>2. SameOpen
      <4>1. CASE Put(Mine, Key)
        BY <3>1, <4>1, PutWrites, LineParts DEF SameOpen
      <4>2. CASE socks' = [socks EXCEPT ![Mine].open = FALSE]
        <5>1. socks[Mine] \in Sock
          BY <3>1 DEF Sockets
        <5>2. socks' = [socks EXCEPT ![Mine] = [socks[Mine] EXCEPT !.open = FALSE]]
          BY <4>2, <3>1
        <5> QED
          BY <3>1, <5>1, <5>2, SockFlags, OneChanged
      <4> QED
        BY <2>7, <4>1, <4>2 DEF Auth
    <3> QED
      BY <1>0, <2>7, <3>2, NothingOpened DEF Auth
  <2>8. CASE Up(t)
    BY <1>0, <2>8, NothingOpened DEF Up, net
  <2>9. CASE Retry(t)
    BY <1>0, <2>9, NothingOpened DEF Retry, Continue, net
  <2>10. CASE Flush(t)
    BY <1>0, <2>10, NothingOpened DEF Flush, Continue, net
  <2>11. CASE FlushLine(t)
    <3>1. work \in Seq(Event) /\ work # <<>>
      BY <2>11 DEF FlushLine, Lists
    <3>2. Head(work) \in Line
      BY <3>1, TailRange, LineParts
    <3>3. SameOpen
      BY <2>11, <3>2, SentWrites, NotSentWrites DEF FlushLine
    <3> QED
      BY <1>0, <2>11, <3>3, NothingOpened DEF FlushLine
  <2>12. CASE FlushEnds(t)
    BY <1>0, <2>12, NothingOpened DEF FlushEnds, Continue, net
  <2> QED
    BY <1>1, <2>1, <2>2, <2>3, <2>4, <2>5, <2>6, <2>7, <2>8, <2>9, <2>10, <2>11, <2>12 DEF Step
<1>2. CASE SendEvent
  BY <1>0, <1>2, NothingOpened DEF SendEvent, FirstStep, net
<1>3. CASE SendHeartbeat
  BY <1>0, <1>3, NothingOpened DEF SendHeartbeat, FirstStep, net
<1>4. CASE Resend
  <2>1. SameOpen
    BY <1>4, SentWrites, NotSentWrites DEF Resend, Lists
  <2> QED
    BY <1>0, <1>4, <2>1, NothingOpened DEF Resend
<1>5. CASE Store \/ StoreFails
  BY <1>0, <1>5, NothingOpened DEF Store, StoreFails, net, Fault
<1>6. CASE Stop
  BY <1>0, <1>6, NothingOpened DEF Stop, net
<1>7. CASE Stopped
  <2>1. SameOpen /\ fd' = NoSock /\ \A r \in 1..Len(socks) : ~socks'[r].open
    BY <1>7, ClosedClosesAll DEF Stopped, OpenIsFd
  <2> QED
    BY <1>7, <2>1, <1>0, NothingOpened DEF Stopped, NoSock
<1>8. CASE Crash
  <2>1. SameOpen /\ \A r \in 1..Len(socks) : ~socks'[r].open
    BY <1>8, CrashClosesAll DEF Crash
  <2> QED
    BY <1>8, <2>1, <1>0, NothingOpened DEF Crash, NoSock
<1>9. ASSUME NEW s \in 1..Len(socks), Break(s) PROVE Sockets' /\ OpenIsFd'
  <2>1. socks[s] \in Sock
    BY DEF Sockets
  <2>2. socks' = [socks EXCEPT ![s] = [socks[s] EXCEPT !.up = FALSE]]
    BY <1>9 DEF Break
  <2>3. SameOpen
    BY <2>1, <2>2, SockFlags, OneChanged
  <2> QED
    BY <1>0, <1>9, <2>3, NothingOpened DEF Break
<1>10. CASE UNCHANGED vars
  BY <1>0, <1>10, NothingOpened DEF vars, net
<1> QED
  BY <1>1, <1>2, <1>3, <1>4, <1>5, <1>6, <1>7, <1>8, <1>9, <1>10 DEF Next, WorkerStep, HeartStep

-----------------------------------------------------------------------------
(* What the lists hold.                                                    *)
DataInv ==
  Lists /\ Items /\ FlushKeeps /\ OnlyTaken /\ NothingVanishes /\ OnePlace /\ Counts

(* Failures are only counted up.                                           *)
CountsUp == Counts' /\ (crashes' + faults' = 0 => crashes + faults = 0)

LEMMA WrittenIn == Written = In(socks) /\ Written' = In(socks')
BY DEF Written, In

LEMMA Members ==
  ASSUME Lists
  PROVE  /\ Range(disk) \subseteq Event /\ Range(work) \subseteq Event /\ Range(failed) \subseteq Event
         /\ 1..taken \subseteq Event
<1>1. \A q \in Seq(Event) : Range(q) \subseteq Event
  <2> SUFFICES ASSUME NEW q \in Seq(Event), NEW e \in Range(q) PROVE e \in Event
    OBVIOUS
  <2>1. PICK i \in 1..Len(q) : q[i] = e
    BY InRange
  <2> QED
    BY <2>1
<1>2. 1..taken \subseteq Event
  BY ForwarderAssumption DEF Lists, Event
<1> QED
  BY <1>1, <1>2 DEF Lists

(* A step that moves no event.                                             *)
LEMMA NothingMoves ==
  ASSUME DataInv, CountsUp,
         UNCHANGED <<item, buffer, work, failed, disk, taken, dropped>>,
         pc'[Worker] = "idle" <=> pc[Worker] = "idle",
         WritesNothing \/ (\E x \in {Key, Beat, Torn} : Writes(x))
  PROVE  DataInv'
<1>1. /\ Written \subseteq Written' /\ Written' \cap Event = Written \cap Event
      /\ OnceIn(socks) => OnceIn(socks')
  BY LineParts, WrittenIn DEF WritesNothing, Writes
<1>2. Range(disk) \subseteq Event /\ Range(work) \subseteq Event /\ Range(failed) \subseteq Event
  BY Members DEF DataInv
<1>3. InHand' = InHand /\ InHand \subseteq Event
  BY Members DEF DataInv, InHand, Items
<1>4. Lists' /\ Items'
  BY DEF DataInv, Lists, Items
<1>5. FlushKeeps'
  BY <1>1 DEF DataInv, FlushKeeps
<1>6. OnlyTaken'
  BY <1>1 DEF DataInv, OnlyTaken
<1>7. NothingVanishes'
  BY <1>1, <1>3 DEF DataInv, NothingVanishes
<1>8. OnePlace'
  BY <1>1, <1>2, <1>3 DEF DataInv, OnePlace, CountsUp
<1> QED
  BY <1>4, <1>5, <1>6, <1>7, <1>8 DEF DataInv, CountsUp

(* The worker's event is written: Send and Resend.                         *)
LEMMA EventWritten ==
  ASSUME DataInv, UNCHANGED <<item, buffer, work, failed, disk, taken, dropped, crashes, faults, breaks>>,
         pc[Worker] # "idle", pc'[Worker] = "idle", Writes(item[Worker])
  PROVE  DataInv'
<1> DEFINE x == item[Worker]
<1>1. Written' = Written \cup {x}
  BY WrittenIn DEF Writes
<1>2. x \in 1..taken /\ x \in Event /\ InHand = {x} /\ InHand' = {}
  BY Members DEF DataInv, InHand, Items
<1>3. Lists' /\ Items' /\ Counts'
  BY DEF DataInv, Lists, Items, Counts
<1>4. FlushKeeps'
  BY <1>1 DEF DataInv, FlushKeeps
<1>5. OnlyTaken'
  BY <1>1, <1>2 DEF DataInv, OnlyTaken
<1>6. NothingVanishes'
  BY <1>1, <1>2 DEF DataInv, NothingVanishes
<1>7. ASSUME crashes + faults = 0
      PROVE  x \notin Written \cup Range(disk) \cup Range(work) \cup Range(failed)
  BY <1>2, <1>7 DEF DataInv, OnePlace, FlushKeeps
<1>8. OnePlace'
  <2> SUFFICES ASSUME crashes + faults = 0
               PROVE  /\ OnceIn(socks')
                      /\ (Range(work) \cup Range(failed)) \cap Written' = {}
                      /\ buffer = "none" => Range(disk) \cap Written' = {}
    BY <1>2 DEF DataInv, OnePlace
  <2> QED
    BY <1>1, <1>7, WrittenIn DEF DataInv, OnePlace, Writes
<1> QED
  BY <1>3, <1>4, <1>5, <1>6, <1>8 DEF DataInv

LEMMA SendEventMoves ==
  ASSUME DataInv, Control, SendEvent
  PROVE  DataInv'
<1> DEFINE x == taken + 1
<1>1. /\ UNCHANGED <<buffer, work, failed, disk, socks, dropped, crashes, faults, breaks>>
      /\ taken' = x /\ item'[Worker] = x /\ item'[Heart] = item[Heart]
      /\ pc[Worker] = "idle" /\ pc'[Worker] # "idle" /\ taken < MaxEvents
      /\ item' \in [Threads -> Line]
  <2>1. x \in Line
    BY ForwarderAssumption DEF SendEvent, DataInv, Lists, Line
  <2>2. item \in [Threads -> Line] /\ pc \in [Threads -> {"idle", "send", "mark", "reconnect", "drop", "dial",
                         "auth", "up", "retry", "flush", "flushing", "resend", "store"}]
    BY DEF DataInv, Lists, Control
  <2> QED
    BY <2>1, <2>2 DEF SendEvent, FirstStep, Goto, net, Threads, Worker, Heart
<1>2. Written' = Written /\ InHand = {} /\ InHand' = {x}
  BY <1>1 DEF Written, InHand
<1>3. x \in Event /\ taken \in Nat /\ 1..taken' = (1..taken) \cup {x} /\ x \notin 1..taken
  BY <1>1, ForwarderAssumption DEF Event, DataInv, Lists
<1>4. Lists'
  BY <1>1, <1>3 DEF DataInv, Lists, Event
<1>5. Items' /\ Counts'
  BY <1>1, <1>3 DEF DataInv, Items, Counts
<1>6. FlushKeeps'
  BY <1>1, <1>2 DEF DataInv, FlushKeeps
<1>7. OnlyTaken'
  BY <1>1, <1>2, <1>3 DEF DataInv, OnlyTaken
<1>8. NothingVanishes'
  BY <1>1, <1>2, <1>3 DEF DataInv, NothingVanishes
<1>9. x \notin Written \cup Range(disk)
  BY <1>3 DEF DataInv, OnlyTaken
<1>10. OnePlace'
  BY <1>1, <1>2, <1>9 DEF DataInv, OnePlace
<1> QED
  BY <1>4, <1>5, <1>6, <1>7, <1>8, <1>10 DEF DataInv

-----------------------------------------------------------------------------
(* The flush, and the offline buffer.                                      *)
LEMMA FlushMoves ==
  ASSUME DataInv, Control, NEW t \in Threads, Flush(t)
  PROVE  DataInv'
<1>1. pc'[Worker] = "idle" <=> pc[Worker] = "idle"
  BY DEF Flush, Continue, Goto, Control, Threads, Worker, Heart
<1>2. CountsUp /\ WritesNothing /\ socks' = socks
  BY DEF DataInv, Counts, CountsUp, WritesNothing, Flush, net
<1>3. CASE disk = <<>>
  BY <1>1, <1>2, <1>3, NothingMoves DEF Flush
<1>4. CASE disk # <<>>
  <2>1. /\ buffer = "none" /\ buffer' = t /\ t # "none" /\ work' = disk /\ failed' = <<>>
        /\ UNCHANGED <<item, disk, taken, dropped, crashes, faults, breaks>>
    BY <1>4 DEF Flush, net, Threads, Worker, Heart
  <2>2. Written' = Written /\ InHand' = InHand
    BY <1>1, <1>2, <2>1 DEF Written, InHand
  <2>3. Lists' /\ Items' /\ Counts'
    BY <1>1, <2>1, EmptySeq DEF DataInv, Lists, Items, Counts
  <2>4. FlushKeeps' /\ OnlyTaken'
    BY <2>1, <2>2, EmptyRange DEF DataInv, FlushKeeps, OnlyTaken
  <2>5. NothingVanishes'
    BY <2>1, <2>2, EmptyRange DEF DataInv, NothingVanishes, FlushKeeps
  <2>6. OnePlace'
    BY <1>2, <2>1, <2>2, EmptyRange DEF DataInv, OnePlace
  <2> QED
    BY <2>3, <2>4, <2>5, <2>6 DEF DataInv
<1> QED
  BY <1>3, <1>4

LEMMA FlushLineMoves ==
  ASSUME DataInv, Control, Sockets, NEW t \in Threads, FlushLine(t)
  PROVE  DataInv'
<1> DEFINE x == Head(work)
<1>1. /\ buffer # "none" /\ work # <<>> /\ work' = Tail(work) /\ breaks' = breaks
      /\ UNCHANGED <<pc, item, buffer, disk, taken, dropped, crashes>>
  BY DEF FlushLine, Control, Threads, Worker, Heart
<1>2. /\ x \in Event /\ work' \in Seq(Event)
      /\ Range(work) = {x} \cup Range(work')
      /\ Distinct(work) => Distinct(work') /\ x \notin Range(work')
  BY <1>1, TailRange DEF DataInv, Lists
<1>3. InHand' = InHand /\ Items'
  BY <1>1 DEF InHand, DataInv, Items
<1>4. Range(work) \subseteq Range(disk) /\ Range(failed) \subseteq Range(disk)
  BY DEF DataInv, FlushKeeps
<1>5. CASE Sent(x) /\ UNCHANGED failed
  <2>1. Writes(x) /\ faults' = faults
    BY <1>2, <1>5, SentWrites, LineParts
  <2>2. Written' = Written \cup {x} /\ failed' = failed
    BY <1>5, <2>1, WrittenIn DEF Writes
  <2>3. Lists' /\ Counts'
    BY <1>1, <1>2, <2>1, <2>2 DEF DataInv, Lists, Counts
  <2>4. FlushKeeps'
    BY <1>1, <1>2, <2>2 DEF DataInv, FlushKeeps
  <2>5. OnlyTaken'
    BY <1>1, <1>2, <1>4, <2>2 DEF DataInv, OnlyTaken
  <2>6. NothingVanishes'
    BY <1>1, <1>2, <1>3, <2>2 DEF DataInv, NothingVanishes
  <2>7. ASSUME crashes' + faults' = 0 PROVE OnceIn(socks')
    <3>1. x \notin In(socks) /\ OnceIn(socks)
      BY <1>1, <1>2, <2>1, <2>7, WrittenIn DEF DataInv, OnePlace
    <3> QED
      BY <2>1, <3>1 DEF Writes
  <2>8. OnePlace'
    BY <1>1, <1>2, <1>3, <1>4, <2>1, <2>2, <2>7 DEF DataInv, OnePlace
  <2> QED
    BY <1>3, <2>3, <2>4, <2>5, <2>6, <2>8 DEF DataInv
<1>6. CASE NotSent /\ failed' = Append(failed, x)
  <2>1. /\ WritesNothing \/ Writes(Torn)
        /\ faults' = faults \/ faults' = faults + 1
    BY <1>6, NotSentWrites
  <2>2. /\ Written \subseteq Written' /\ Written' \cap Event = Written \cap Event
        /\ OnceIn(socks) => OnceIn(socks')
    BY <2>1, LineParts, WrittenIn DEF WritesNothing, Writes
  <2>3. /\ failed' \in Seq(Event) /\ Range(failed') = Range(failed) \cup {x}
        /\ Distinct(failed) /\ x \notin Range(failed) => Distinct(failed')
    BY <1>2, <1>6, AppendRange DEF DataInv, Lists
  <2>4. Lists' /\ Counts'
    BY <1>1, <1>2, <2>1, <2>3 DEF DataInv, Lists, Counts
  <2>5. FlushKeeps'
    BY <1>1, <1>2, <2>2, <2>3 DEF DataInv, FlushKeeps
  <2>6. OnlyTaken'
    BY <1>1, <2>2 DEF DataInv, OnlyTaken
  <2>7. NothingVanishes'
    BY <1>1, <1>2, <1>3, <2>2, <2>3 DEF DataInv, NothingVanishes
  <2>8. crashes' + faults' = 0 => crashes + faults = 0
    BY <1>1, <2>1 DEF DataInv, Counts
  <2>9. Range(work) \subseteq Event /\ Range(failed) \subseteq Event
    BY Members DEF DataInv
  <2>10. InHand \subseteq Event /\ Range(disk) \subseteq Event
    BY Members DEF DataInv, InHand, Items
  <2>11. OnePlace'
    BY <1>1, <1>2, <1>3, <2>2, <2>3, <2>8, <2>9, <2>10 DEF DataInv, OnePlace
  <2> QED
    BY <1>3, <2>4, <2>5, <2>6, <2>7, <2>11 DEF DataInv
<1> QED
  BY <1>5, <1>6 DEF FlushLine

LEMMA FlushEndsMoves ==
  ASSUME DataInv, Control, NEW t \in Threads, FlushEnds(t)
  PROVE  DataInv'
<1>1. pc'[Worker] = "idle" <=> pc[Worker] = "idle"
  BY DEF FlushEnds, Continue, Goto, Control, Threads, Worker, Heart
<1>2. /\ buffer # "none" /\ buffer' = "none" /\ work = <<>> /\ work' = <<>>
      /\ disk' = failed /\ failed' = <<>>
      /\ UNCHANGED <<item, socks, taken, dropped, crashes, faults, breaks>>
  BY DEF FlushEnds, Remaining, net, Control, Threads, Worker, Heart
<1>3. Written' = Written /\ InHand' = InHand
  BY <1>1, <1>2 DEF Written, InHand
<1>4. Lists' /\ Items' /\ Counts'
  BY <1>1, <1>2, EmptySeq DEF DataInv, Lists, Items, Counts
<1>5. FlushKeeps' /\ OnlyTaken'
  BY <1>2, <1>3, EmptyRange DEF DataInv, FlushKeeps, OnlyTaken
<1>6. NothingVanishes'
  BY <1>2, <1>3, EmptyRange DEF DataInv, NothingVanishes, FlushKeeps
<1>7. OnePlace'
  BY <1>2, <1>3, EmptyRange DEF DataInv, OnePlace, FlushKeeps
<1> QED
  BY <1>4, <1>5, <1>6, <1>7 DEF DataInv

LEMMA StoreMoves ==
  ASSUME DataInv, Control, Store \/ StoreFails
  PROVE  DataInv'
<1> DEFINE x == item[Worker]
<1>1. /\ buffer = "none" /\ pc[Worker] = "store" /\ pc'[Worker] = "idle"
      /\ UNCHANGED <<item, buffer, work, failed, socks, taken, crashes, breaks>>
      /\ faults' = faults \/ faults' = faults + 1
  BY DEF Store, StoreFails, Fault, Goto, net, Control, Threads, Worker, Heart
<1>2. /\ Written' = Written /\ InHand = {x} /\ InHand' = {} /\ x \in 1..taken /\ x \in Event
      /\ Range(work) = {} /\ Range(failed) = {}
  BY <1>1, Members, EmptyRange DEF Written, InHand, DataInv, Items, FlushKeeps
<1>3. Items' /\ Counts' /\ (crashes' + faults' = 0 => crashes + faults = 0)
  BY <1>1 DEF DataInv, Items, Counts
<1>4. CASE disk' = Append(disk, x) /\ dropped' = dropped
  <2>1. /\ disk' \in Seq(Event) /\ Range(disk') = Range(disk) \cup {x}
        /\ Distinct(disk) /\ x \notin Range(disk) => Distinct(disk')
    BY <1>2, <1>4, AppendRange DEF DataInv, Lists
  <2>2. Lists'
    BY <1>1, <1>4, <2>1 DEF DataInv, Lists
  <2>3. FlushKeeps' /\ OnlyTaken'
    BY <1>1, <1>2, <2>1 DEF DataInv, FlushKeeps, OnlyTaken
  <2>4. NothingVanishes'
    BY <1>1, <1>2, <1>4, <2>1 DEF DataInv, NothingVanishes
  <2>5. OnePlace'
    BY <1>1, <1>2, <1>3, <2>1 DEF DataInv, OnePlace
  <2> QED
    BY <1>3, <2>2, <2>3, <2>4, <2>5 DEF DataInv
<1>5. CASE dropped' = dropped \cup {x} /\ disk' = disk
  <2>1. Lists' /\ FlushKeeps' /\ OnlyTaken'
    BY <1>1, <1>2, <1>5 DEF DataInv, Lists, FlushKeeps, OnlyTaken
  <2>2. NothingVanishes'
    BY <1>1, <1>2, <1>5 DEF DataInv, NothingVanishes
  <2>3. OnePlace'
    BY <1>1, <1>2, <1>3, <1>5 DEF DataInv, OnePlace
  <2> QED
    BY <1>3, <2>1, <2>2, <2>3 DEF DataInv
<1> QED
  BY <1>4, <1>5 DEF Store, StoreFails, Fault

LEMMA CrashMoves ==
  ASSUME DataInv, Sockets, Crash
  PROVE  DataInv'
<1>1. /\ buffer' = "none" /\ work' = <<>> /\ failed' = <<>> /\ pc'[Worker] = "idle"
      /\ crashes' = crashes + 1 /\ UNCHANGED <<item, taken, faults, breaks>>
      /\ dropped \cup InHand \subseteq dropped'
  BY DEF Crash, Threads, Worker, Heart
<1>2. Written' = Written /\ InHand' = {}
  <2>1. socks' = [s \in 1..Len(socks) |-> [socks[s] EXCEPT !.open = FALSE]]
    BY DEF Crash
  <2>2. WritesNothing
    BY <2>1, CrashClosesAll
  <2> QED
    BY <1>1, <2>2, WrittenIn DEF InHand, WritesNothing
<1>3. Items' /\ Counts' /\ OnePlace'
  BY <1>1 DEF DataInv, Items, Counts, OnePlace
<1>4. InHand \subseteq Event /\ Range(failed) \subseteq Event
  BY Members DEF DataInv, InHand, Items
<1>5. CASE UNCHANGED disk /\ dropped' = dropped \cup InHand
  <2>1. Lists' /\ FlushKeeps' /\ OnlyTaken'
    BY <1>1, <1>2, <1>4, <1>5, EmptySeq, EmptyRange DEF DataInv, Lists, FlushKeeps, OnlyTaken
  <2>2. NothingVanishes'
    BY <1>1, <1>2, <1>5, EmptyRange DEF DataInv, NothingVanishes, FlushKeeps
  <2> QED
    BY <1>3, <2>1, <2>2 DEF DataInv
<1>6. CASE buffer # "none" /\ work = <<>> /\ disk' = <<>> /\ dropped' = dropped \cup InHand \cup Range(failed)
  <2>1. Lists' /\ FlushKeeps' /\ OnlyTaken'
    BY <1>1, <1>2, <1>4, <1>6, EmptySeq, EmptyRange DEF DataInv, Lists, FlushKeeps, OnlyTaken
  <2>2. NothingVanishes'
    BY <1>1, <1>2, <1>6, EmptyRange DEF DataInv, NothingVanishes, FlushKeeps
  <2> QED
    BY <1>3, <2>1, <2>2 DEF DataInv
<1> QED
  BY <1>5, <1>6 DEF Crash

-----------------------------------------------------------------------------
LEMMA DataKept ==
  ASSUME DataInv, Control, Sockets, OpenIsFd, [Next]_vars
  PROVE  DataInv'
<1>0. pc \in [Threads -> {"idle", "send", "mark", "reconnect", "drop", "dial",
                         "auth", "up", "retry", "flush", "flushing", "resend", "store"}]
      /\ Threads = {Worker, Heart} /\ Worker # Heart
  BY DEF Control, Threads, Worker, Heart
<1>a. crashes' = crashes /\ faults' = faults /\ breaks' = breaks => CountsUp
  BY DEF DataInv, Counts, CountsUp
<1>b. crashes' = crashes /\ faults' = faults + 1 /\ breaks' = breaks => CountsUp
  BY DEF DataInv, Counts, CountsUp
<1>c. crashes' = crashes /\ faults' = faults /\ breaks' = breaks + 1 => CountsUp
  BY DEF DataInv, Counts, CountsUp
<1>d. UNCHANGED socks => WritesNothing
  BY DEF WritesNothing
<1>1. ASSUME NEW t \in Threads, Step(t) PROVE DataInv'
  <2>1. CASE Send(t)
    <3>1. UNCHANGED <<item, buffer, work, failed, disk, taken, dropped, crashes, breaks>>
      BY <2>1 DEF Send
    <3>2. CASE Sent(item[t]) /\ Goto(t, "idle")
      <4>1. Writes(item[t]) /\ faults' = faults
        BY <3>2, SentWrites DEF DataInv, Lists
      <4>2. CASE t = Worker
        <5>1. pc[Worker] # "idle" /\ pc'[Worker] = "idle"
          BY <1>0, <2>1, <3>2, <4>2 DEF Send, Goto
        <5> QED
          BY <3>1, <4>1, <4>2, <5>1, EventWritten
      <4>3. CASE t = Heart
        <5>1. pc'[Worker] = pc[Worker] /\ item[t] = Beat
          BY <1>0, <3>2, <4>3 DEF Goto, DataInv, Items
        <5> QED
          BY <1>a, <3>1, <4>1, <5>1, NothingMoves
      <4> QED
        BY <1>0, <4>2, <4>3
    <3>3. CASE NotSent /\ Goto(t, "mark")
      <4>1. (WritesNothing \/ Writes(Torn)) /\ (faults' = faults \/ faults' = faults + 1)
        BY <3>3, NotSentWrites
      <4>2. pc'[Worker] = "idle" <=> pc[Worker] = "idle"
        BY <1>0, <2>1, <3>3 DEF Send, Goto
      <4> QED
        BY <1>a, <1>b, <3>1, <4>1, <4>2, NothingMoves
    <3> QED
      BY <2>1, <3>2, <3>3 DEF Send
  <2>2. CASE Mark(t)
    <3>1. pc'[Worker] = "idle" <=> pc[Worker] = "idle"
      BY <1>0, <2>2 DEF Mark, Continue, Goto
    <3> QED
      BY <1>a, <1>d, <2>2, <3>1, NothingMoves DEF Mark, net
  <2>3. CASE Reconnect(t)
    <3>1. pc'[Worker] = "idle" <=> pc[Worker] = "idle"
      BY <1>0, <2>3 DEF Reconnect, Goto
    <3> QED
      BY <1>a, <1>d, <2>3, <3>1, NothingMoves DEF Reconnect, net
  <2>4. CASE Drop(t)
    <3>1. pc'[Worker] = "idle" <=> pc[Worker] = "idle"
      BY <1>0, <2>4 DEF Drop, Goto
    <3>2. WritesNothing
      BY <2>4, ClosedClosesAll DEF Drop, OpenIsFd
    <3> QED
      BY <1>a, <2>4, <3>1, <3>2, NothingMoves DEF Drop
  <2>5. CASE Dial(t)
    <3>1. pc'[Worker] = "idle" <=> pc[Worker] = "idle"
      BY <1>0, <2>5 DEF Dial, Goto
    <3>2. WritesNothing
      <4> DEFINE k == [sent |-> <<>>, up |-> TRUE, open |-> TRUE]
      <4>1. k \in Sock /\ k.sent = <<>>
        BY EmptySeq DEF Sock
      <4>2. socks' = Append(socks, k)
        BY <2>5 DEF Dial
      <4> HIDE DEF k
      <4>3. socks' \in Seq(Sock) /\ Len(socks') = Len(socks) + 1 /\ Len(socks) \in Nat
            /\ socks'[Len(socks) + 1] = k
            /\ \A r \in 1..Len(socks) : socks'[r] = socks[r]
        BY <4>1, <4>2 DEF Sockets
      <4>4. Len(socks) <= Len(socks')
            /\ \A r \in 1..Len(socks') : r \in 1..Len(socks) \/ socks'[r].sent = <<>>
        BY <4>1, <4>3
      <4> QED
        BY <4>3, <4>4, SentsSame DEF WritesNothing, Sockets
    <3> QED
      BY <1>a, <2>5, <3>1, <3>2, NothingMoves DEF Dial
  <2>6. CASE DialFails(t)
    <3>1. pc'[Worker] = "idle" <=> pc[Worker] = "idle"
      BY <1>0, <2>6 DEF DialFails, Goto
    <3> QED
      BY <1>a, <1>d, <2>6, <3>1, NothingMoves DEF DialFails, net
  <2>7. CASE Auth(t)
    <3>1. pc'[Worker] = "idle" <=> pc[Worker] = "idle"
      BY <1>0, <2>7 DEF Auth, Goto
    <3>2. Mine \in 1..Len(socks)
      BY <2>7 DEF Auth, OpenIsFd, Mine, Sockets
    <3>3. WritesNothing \/ Writes(Key)
      <4>1. CASE Put(Mine, Key)
        BY <3>2, <4>1, PutWrites, LineParts DEF Writes
      <4>2. CASE socks' = [socks EXCEPT ![Mine].open = FALSE]
        <5>1. socks[Mine] \in Sock
          BY <3>2 DEF Sockets
        <5>2. socks' = [socks EXCEPT ![Mine] = [socks[Mine] EXCEPT !.open = FALSE]]
          BY <4>2, <3>2
        <5> QED
          BY <3>2, <5>1, <5>2, SockFlags, OneChanged
      <4> QED
        BY <2>7, <4>1, <4>2 DEF Auth
    <3> QED
      BY <1>a, <2>7, <3>1, <3>3, NothingMoves DEF Auth
  <2>8. CASE Up(t)
    <3>1. pc'[Worker] = "idle" <=> pc[Worker] = "idle"
      BY <1>0, <2>8 DEF Up, Goto
    <3> QED
      BY <1>a, <1>d, <2>8, <3>1, NothingMoves DEF Up, net
  <2>9. CASE Retry(t)
    <3>1. pc'[Worker] = "idle" <=> pc[Worker] = "idle"
      BY <1>0, <2>9 DEF Retry, Continue, Goto
    <3> QED
      BY <1>a, <1>d, <2>9, <3>1, NothingMoves DEF Retry, net
  <2>10. CASE Flush(t)
    BY <2>10, FlushMoves
  <2>11. CASE FlushLine(t)
    BY <2>11, FlushLineMoves
  <2>12. CASE FlushEnds(t)
    BY <2>12, FlushEndsMoves
  <2> QED
    BY <1>1, <2>1, <2>2, <2>3, <2>4, <2>5, <2>6, <2>7, <2>8, <2>9, <2>10, <2>11, <2>12 DEF Step
<1>2. CASE SendEvent
  BY <1>2, SendEventMoves
<1>3. CASE SendHeartbeat
  <2>1. pc'[Worker] = pc[Worker]
    BY <1>0, <1>3 DEF SendHeartbeat, FirstStep, Goto
  <2> QED
    BY <1>a, <1>d, <1>3, <2>1, NothingMoves DEF SendHeartbeat, net
<1>4. CASE Resend
  <2>1. UNCHANGED <<item, buffer, work, failed, disk, taken, dropped, crashes, breaks>>
    BY <1>4 DEF Resend
  <2>2. CASE Sent(item[Worker]) /\ Goto(Worker, "idle")
    <3>1. Writes(item[Worker]) /\ faults' = faults
      BY <1>0, <2>2, SentWrites DEF DataInv, Lists
    <3>2. pc[Worker] # "idle" /\ pc'[Worker] = "idle"
      BY <1>0, <1>4, <2>2 DEF Resend, Goto
    <3> QED
      BY <2>1, <3>1, <3>2, EventWritten
  <2>3. CASE NotSent /\ Goto(Worker, "store")
    <3>1. (WritesNothing \/ Writes(Torn)) /\ (faults' = faults \/ faults' = faults + 1)
      BY <2>3, NotSentWrites
    <3>2. pc'[Worker] = "idle" <=> pc[Worker] = "idle"
      BY <1>0, <1>4, <2>3 DEF Resend, Goto
    <3> QED
      BY <1>a, <1>b, <2>1, <3>1, <3>2, NothingMoves
  <2> QED
    BY <1>4, <2>2, <2>3 DEF Resend
<1>5. CASE Store \/ StoreFails
  BY <1>5, StoreMoves
<1>6. CASE Stop
  BY <1>a, <1>d, <1>6, NothingMoves DEF Stop, net
<1>7. CASE Stopped
  <2>1. WritesNothing
    BY <1>7, ClosedClosesAll DEF Stopped, OpenIsFd
  <2> QED
    BY <1>a, <1>7, <2>1, NothingMoves DEF Stopped
<1>8. CASE Crash
  BY <1>8, CrashMoves
<1>9. ASSUME NEW s \in 1..Len(socks), Break(s) PROVE DataInv'
  <2>1. socks[s] \in Sock
    BY DEF Sockets
  <2>2. socks' = [socks EXCEPT ![s] = [socks[s] EXCEPT !.up = FALSE]]
    BY <1>9 DEF Break
  <2>3. WritesNothing
    BY <2>1, <2>2, SockFlags, OneChanged
  <2> QED
    BY <1>c, <1>9, <2>3, NothingMoves DEF Break
<1>10. CASE UNCHANGED vars
  BY <1>a, <1>d, <1>10, NothingMoves DEF vars, net
<1> QED
  BY <1>0, <1>1, <1>2, <1>3, <1>4, <1>5, <1>6, <1>7, <1>8, <1>9, <1>10 DEF Next, WorkerStep, HeartStep

-----------------------------------------------------------------------------
LEMMA InvParts == ForwarderInv <=> Control /\ Sockets /\ OpenIsFd /\ DataInv
BY TypeParts DEF ForwarderInv, DataInv

LEMMA InitHolds == Init => ForwarderInv
<1> SUFFICES ASSUME Init PROVE Control /\ Sockets /\ OpenIsFd /\ DataInv
  BY InvParts
<1>1. Control
  BY DEF Init, Control, Holding, Threads, Worker, Heart
<1>2. socks = <<>> /\ <<>> \in Seq(Sock) /\ Len(socks) = 0 /\ fd = 0
  BY EmptySeq DEF Init, NoSock
<1>3. Sockets /\ OpenIsFd
  BY <1>2 DEF Sockets, OpenIsFd, Init, Threads, Worker, Heart
<1>4. Lists /\ Items /\ Counts
  BY EmptySeq, ForwarderAssumption DEF Init, Lists, Items, Counts, Threads, Worker, Heart, Line, Event
<1>5. Written = {} /\ InHand = {} /\ 1..taken = {} /\ OnceIn(socks)
  BY <1>2 DEF Written, InHand, OnceIn, Init, Threads, Worker, Heart
<1>6. FlushKeeps /\ OnlyTaken /\ NothingVanishes /\ OnePlace
  BY <1>5, EmptyRange DEF Init, FlushKeeps, OnlyTaken, NothingVanishes, OnePlace
<1> QED
  BY <1>1, <1>3, <1>4, <1>6 DEF DataInv

(* ForwarderInv is inductive.                                              *)
THEOREM ForwarderInvCorrect == Spec => []ForwarderInv
<1>1. Init => ForwarderInv
  BY InitHolds
<1>2. ForwarderInv /\ [Next]_vars => ForwarderInv'
  <2> SUFFICES ASSUME ForwarderInv, [Next]_vars PROVE ForwarderInv'
    OBVIOUS
  <2>1. Control /\ Sockets /\ OpenIsFd /\ DataInv
    BY InvParts
  <2>2. Lists
    BY <2>1 DEF DataInv
  <2>3. Control' /\ Sockets' /\ OpenIsFd' /\ DataInv'
    BY <2>1, <2>2, ControlKept, SocketsKept, DataKept
  <2>4. (Control /\ Sockets /\ OpenIsFd /\ DataInv)' => ForwarderInv'
    BY InvParts, PTL
  <2> QED
    BY <2>3, <2>4
<1> QED
  BY <1>1, <1>2, PTL DEF Spec

(* Every variable keeps the shape the code gives it, and a mutex is held   *)
(* by a thread that is in its critical section.                            *)
THEOREM ForwarderTypeCorrect == Spec => []TypeOK
<1>1. ForwarderInv => TypeOK
  BY DEF ForwarderInv
<1> QED
  BY <1>1, ForwarderInvCorrect, PTL

(* tcp_connect under reconnect_mutex_: the agent has one connection at     *)
(* most.                                                                   *)
THEOREM OneConnectionCorrect == Spec => []OneConnection
<1>1. ForwarderInv => OneConnection
  <2> SUFFICES ASSUME ForwarderInv PROVE OneConnection
    OBVIOUS
  <2> DEFINE S == {s \in 1..Len(socks) : socks[s].open}
  <2>1. S \subseteq {fd}
    BY DEF ForwarderInv, OpenIsFd
  <2>2. IsFiniteSet({fd}) /\ Cardinality({fd}) = 1
    BY FS_Singleton
  <2>3. Cardinality(S) <= 1
    BY <2>1, <2>2, FS_Subset, FS_CardinalityType
  <2> QED
    BY <2>3 DEF OneConnection
<1> QED
  BY <1>1, ForwarderInvCorrect, PTL

(* send_event, buffer_to_disk, flush_offline_buffer: an event that was     *)
(* taken is somewhere, unless the code said it dropped it or the agent     *)
(* died.                                                                   *)
THEOREM NothingVanishesCorrect == Spec => []NothingVanishes
<1>1. ForwarderInv => NothingVanishes
  BY DEF ForwarderInv
<1> QED
  BY <1>1, ForwarderInvCorrect, PTL

(* Without a crash or a torn line no event is sent twice, whatever the     *)
(* order of flushes, failed sends and reconnects.                          *)
THEOREM NoDuplicateCorrect == Spec => []NoDuplicate
<1>1. ForwarderInv => NoDuplicate
  <2> SUFFICES ASSUME ForwarderInv, crashes + faults = 0, NEW e \in 1..taken
               PROVE  Times(e) <= 1
    BY DEF NoDuplicate
  <2> DEFINE T == UNION {{s} \X {i \in 1..Len(socks[s].sent) : socks[s].sent[i] = e} :
                          s \in 1..Len(socks)}
  <2>1. OnceIn(socks) /\ e \in Event
    BY InvParts, Members DEF ForwarderInv, OnePlace, DataInv
  <2>2. \A p \in T : \E s \in 1..Len(socks) : \E i \in 1..Len(socks[s].sent) :
          p = <<s, i>> /\ socks[s].sent[i] = e
    OBVIOUS
  <2>3. \A p, q \in T : p = q
    <3> SUFFICES ASSUME NEW p \in T, NEW q \in T PROVE p = q
      OBVIOUS
    <3> HIDE DEF T
    <3>1. PICK s \in 1..Len(socks) : \E i \in 1..Len(socks[s].sent) :
            p = <<s, i>> /\ socks[s].sent[i] = e
      BY <2>2
    <3>2. PICK r \in 1..Len(socks) : \E j \in 1..Len(socks[r].sent) :
            q = <<r, j>> /\ socks[r].sent[j] = e
      BY <2>2
    <3> QED
      BY <2>1, <3>1, <3>2 DEF OnceIn
  <2> HIDE DEF T
  <2>4. Cardinality(T) <= 1
    <3>1. CASE T = {}
      BY <3>1, FS_EmptySet
    <3>2. ASSUME NEW p \in T PROVE Cardinality(T) <= 1
      <4>1. T = {p}
        BY <2>3, <3>2
      <4> QED
        BY <4>1, FS_Singleton
    <3> QED
      BY <3>1, <3>2
  <2> QED
    BY <2>4 DEF Times, T
<1> QED
  BY <1>1, ForwarderInvCorrect, PTL
=============================================================================
