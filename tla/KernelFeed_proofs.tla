-------------------------- MODULE KernelFeed_proofs --------------------------
(***************************************************************************)
(* The types of KernelFeed, and the only ways in which a process can be    *)
(* credited with a path that it did not open, for any number of threads,   *)
(* descriptors, paths and elements and any sizes.                          *)
(***************************************************************************)
EXTENDS KernelFeed, TLAPS

(* What may be taken for a path of a process.                              *)
Known(g) == asked[g] \cup foreign[g]

(* What a program stages for a process, and all that the element which its *)
(* exit program holds has contained since, is of that kind.                *)
Staged ==
  /\ \A g \in Processes : staging[g] # NoEntry => staging[g][2] \in Known(g)
  /\ \A t \in Threads : call[t].at \in {"found", "deleted"} =>
       call[t].seen \subseteq Known(ProcessOf[t])

(* The event that the reader waits to send is still in its ring.           *)
Holding == reader = "sending" => used["critical"] > 0

FeedInv == FeedTypeOK /\ PathsOfOwnProcess /\ Staged /\ Holding

USE ProbesAssumption, FeedAssumption

LEMMA SlotType ==
  ASSUME NEW t \in Threads, NEW fd \in Fds
  PROVE  Slot(t, fd) \in Slots /\ Slot(t, fd)[1] = ProcessOf[t]
         /\ ProcessOf[t] \in Processes
BY DEF Slot, Slots

(* What a program may make of the rings.                                   *)
UsedOK(u) == /\ u \in [Rings -> Nat]
             /\ \A r \in Rings : used[r] <= u[r] /\ u[r] <= Size[r]

LEMMA UsedNow == ASSUME FeedInv PROVE UsedOK(used) /\ used \in [Rings -> Nat]
BY DEF UsedOK, FeedInv, FeedTypeOK, ProbesTypeOK

(* A reservation keeps every ring within its size and takes nothing away.  *)
LEMMA ReserveFits ==
  ASSUME used \in [Rings -> Nat], NEW u, UsedOK(u), NEW r \in Rings
  PROVE  UsedOK(Reserve(u, r))
<1>1. CASE u[r] < Size[r]
  <2>1. u[r] \in Nat /\ Size[r] \in Nat /\ u[r] + 1 <= Size[r]
    BY <1>1 DEF UsedOK
  <2>2. Reserve(u, r) = [u EXCEPT ![r] = u[r] + 1]
    BY <1>1 DEF Reserve
  <2> QED BY <2>1, <2>2 DEF UsedOK
<1>2. CASE ~ (u[r] < Size[r])
  BY <1>2 DEF Reserve, UsedOK
<1> QED BY <1>1, <1>2

LEMMA ProbeRings == \A s \in ProbeShapes : s[1] \in Rings
<1>1. \A p \in Probes : p.ring \in Rings
  BY DEF Probes, On, PrivilegeProbes, MemoryProbes, ProcessProbes, FileProbes,
    SocketProbes, ReadWriteProbes, ReceiveProbes, AuthProbes, LsmProbes,
    SignalProbes, NetworkProbes, PerfProbes, Rings
<1> QED BY <1>1 DEF ProbeShapes

LEMMA CapturesFit ==
  ASSUME used \in [Rings -> Nat], UsedOK(used), NEW t \in Threads, NEW fd \in Fds,
         NEW dns \in BOOLEAN, NEW hello \in BOOLEAN
  PROVE  UsedOK(Captures(t, fd, dns, hello))
<1> DEFINE sent == Reserve(used, "standard")
           query == IF dns THEN Reserve(sent, "standard") ELSE sent
<1>1. UsedOK(sent) BY ReserveFits DEF Rings
<1>2. UsedOK(query)
  <2>1. UsedOK(Reserve(sent, "standard"))
    <3> HIDE DEF sent
    <3> QED BY <1>1, ReserveFits DEF Rings
  <2> QED BY <1>1, <2>1
<1>3. UsedOK(Reserve(query, "tls"))
  <2> HIDE DEF query
  <2> QED BY <1>2, ReserveFits DEF Rings
<1> QED BY <1>2, <1>3 DEF Captures

LEMMA FeedInit_Inv == FeedInit => FeedInv
<1> SUFFICES ASSUME FeedInit PROVE FeedInv OBVIOUS
<1> USE DEF FeedInit, ProbesInit
<1>1. ProbesTypeOK BY DEF ProbesTypeOK, Rings, Slots, Calls, Idle
<1>2. FeedTypeOK
  <2>1. calling \in BOOLEAN OBVIOUS
  <2>2. chan \in [Channels -> Nat] /\ \A c \in Channels : chan[c] <= Capacity[c]
    OBVIOUS
  <2>3. reader \in {"loading", "gone", "poll", "sending"} \cup Rings /\ fwd \in Channels
    BY DEF Channels
  <2> QED BY <1>1, <2>1, <2>2, <2>3 DEF FeedTypeOK
<1>3. PathsOfOwnProcess /\ Staged /\ Holding
  BY DEF PathsOfOwnProcess, Staged, Holding, Idle
<1> QED BY <1>2, <1>3 DEF FeedInv

(* A thread's state, its parts.                                            *)
LEMMA CallParts ==
  ASSUME NEW c \in Calls
  PROVE  /\ c.at \in {"idle", "openat", "found", "deleted"}
         /\ c.at \in {"openat", "found", "deleted"} => c.path \in Paths
         /\ c.at \in {"found", "deleted"} => c.seen \subseteq Paths /\ c.element \in Elements
         /\ c.at = "found" => c.ret \in Fds \cup {Failed}
         /\ c.at = "deleted" => c.ret \in Fds
BY DEF Calls, Idle

LEMMA NewCalls ==
  /\ Idle \in Calls /\ Idle.at = "idle"
  /\ \A p \in Paths : InOpenat(p) \in Calls /\ InOpenat(p).at = "openat"
  /\ \A p \in Paths, x \in Elements, r \in Fds \cup {Failed}, seen \in SUBSET Paths :
       /\ InExit(p, x, r, seen) \in Calls
       /\ InExit(p, x, r, seen).at = "found" /\ InExit(p, x, r, seen).seen = seen
BY DEF Calls, Idle, InOpenat, InExit

(* The element that a thread holds gets one more path.                     *)
LEMMA SeenGrows ==
  ASSUME NEW c \in Calls, c.at \in {"found", "deleted"}, NEW p \in Paths
  PROVE  LET d == [c EXCEPT !.seen = @ \cup {p}] IN
           d \in Calls /\ d.at = c.at /\ d.seen = c.seen \cup {p}
<1>1. CASE c.at = "found" BY <1>1 DEF Calls, Idle
<1>2. CASE c.at = "deleted" BY <1>2 DEF Calls, Idle
<1> QED BY <1>1, <1>2

(* The entry of openat.                                                    *)
LEMMA OpenatInv ==
  ASSUME FeedInv, NEW t \in Threads, NEW p \in Paths, Openat(t, p)
  PROVE  ProbesTypeOK' /\ PathsOfOwnProcess' /\ Staged' /\ UsedOK(used')
<1> DEFINE g == ProcessOf[t]
<1>1. g \in Processes OBVIOUS
<1>2. /\ asked' = [asked EXCEPT ![g] = asked[g] \cup {p}]
      /\ calls' = calls + 1
      /\ UNCHANGED <<fdPaths, dnsFds, tlsFds>>
      /\ StageNone(t, p) \/ \E x \in Elements : StageIn(t, p, x)
  BY DEF Openat
<1>3. UsedOK(used')
  <2>1. UsedOK(used) BY UsedNow
  <2>2. UsedOK(Reserve(used, "standard")) /\ UsedOK(Reserve(used, "critical"))
    BY <2>1, UsedNow, ReserveFits DEF Rings
  <2> QED BY <2>1, <2>2 DEF Openat
<1>4. /\ call \in [Threads -> Calls]
      /\ staging \in [Processes -> (Elements \X Paths) \cup {NoEntry}]
      /\ fdPaths \in [Slots -> SUBSET Paths] /\ dnsFds \subseteq Slots /\ tlsFds \subseteq Slots
      /\ asked \in [Processes -> SUBSET Paths] /\ foreign \in [Processes -> SUBSET Paths]
      /\ calls \in Nat
  BY DEF FeedInv, FeedTypeOK, ProbesTypeOK
<1>5. /\ \A s \in Slots : fdPaths[s] \subseteq Known(s[1])
      /\ \A h \in Processes : staging[h] # NoEntry => staging[h][2] \in Known(h)
      /\ \A u \in Threads : call[u].at \in {"found", "deleted"} =>
           call[u].seen \subseteq Known(ProcessOf[u])
  BY DEF FeedInv, PathsOfOwnProcess, Staged, Known
<1>6. /\ asked' \in [Processes -> SUBSET Paths] /\ p \in asked'[g]
      /\ \A h \in Processes : asked[h] \subseteq asked'[h]
      /\ calls' \in Nat
  BY <1>1, <1>2, <1>4
<1> SUFFICES
     /\ call' \in [Threads -> Calls]
     /\ staging' \in [Processes -> (Elements \X Paths) \cup {NoEntry}]
     /\ foreign' \in [Processes -> SUBSET Paths]
     /\ \A h \in Processes : foreign[h] \subseteq foreign'[h]
     /\ \A h \in Processes : staging'[h] # NoEntry =>
          staging'[h][2] \in asked'[h] \cup foreign'[h]
     /\ \A u \in Threads : call'[u].at \in {"found", "deleted"} =>
          call'[u].seen \subseteq asked'[ProcessOf[u]] \cup foreign'[ProcessOf[u]]
  <2>1. ProbesTypeOK' BY <1>2, <1>3, <1>4, <1>6 DEF UsedOK, ProbesTypeOK
  <2>2. \A s \in Slots : s[1] \in Processes BY DEF Slots
  <2>3. PathsOfOwnProcess' BY <1>2, <1>5, <1>6, <2>2 DEF PathsOfOwnProcess, Known
  <2> QED BY <1>3, <2>1, <2>3 DEF Staged, Known
<1>7. CASE StageNone(t, p)
  <2>1. /\ call' = [call EXCEPT ![t] = InOpenat(p)]
        /\ UNCHANGED <<staging, foreign>>
    BY <1>7 DEF StageNone
  <2> QED BY <1>4, <1>5, <1>6, <2>1, NewCalls DEF Known
<1>8. ASSUME NEW x \in Elements, StageIn(t, p, x)
      PROVE /\ call' \in [Threads -> Calls]
            /\ staging' \in [Processes -> (Elements \X Paths) \cup {NoEntry}]
            /\ foreign' \in [Processes -> SUBSET Paths]
            /\ \A h \in Processes : foreign[h] \subseteq foreign'[h]
            /\ \A h \in Processes : staging'[h] # NoEntry =>
                 staging'[h][2] \in asked'[h] \cup foreign'[h]
            /\ \A u \in Threads : call'[u].at \in {"found", "deleted"} =>
                 call'[u].seen \subseteq asked'[ProcessOf[u]] \cup foreign'[ProcessOf[u]]
  <2>1. staging' = [staging EXCEPT ![g] = <<x, p>>] BY <1>8 DEF StageIn
  <2>2. \A u \in Threads : call'[u] =
          IF u = t THEN InOpenat(p)
          ELSE IF Holds(u, x) THEN [call[u] EXCEPT !.seen = @ \cup {p}] ELSE call[u]
    BY <1>8 DEF StageIn
  <2>3. \A h \in Processes : foreign'[h] =
          IF h # g /\ \E u \in Threads : ProcessOf[u] = h /\ Holds(u, x)
            THEN foreign[h] \cup {p} ELSE foreign[h]
    BY <1>8 DEF StageIn
  <2>4. /\ foreign' = [h \in Processes |-> foreign'[h]]
        /\ call' = [u \in Threads |-> call'[u]]
    BY <1>8 DEF StageIn
  <2>5. \A h \in Processes : foreign'[h] \in SUBSET Paths /\ foreign[h] \subseteq foreign'[h]
    <3> SUFFICES ASSUME NEW h \in Processes
                 PROVE foreign'[h] \in SUBSET Paths /\ foreign[h] \subseteq foreign'[h]
      OBVIOUS
    <3>1. foreign[h] \in SUBSET Paths BY <1>4
    <3>2. foreign'[h] = foreign[h] \/ foreign'[h] = foreign[h] \cup {p} BY <2>3
    <3> QED BY <3>1, <3>2
  <2>6. foreign' \in [Processes -> SUBSET Paths] BY <2>4, <2>5
  <2>7. ASSUME NEW u \in Threads
        PROVE /\ call'[u] \in Calls
              /\ call'[u].at \in {"found", "deleted"} =>
                   call'[u].seen \subseteq asked'[ProcessOf[u]] \cup foreign'[ProcessOf[u]]
    <3>0. call[u] \in Calls /\ ProcessOf[u] \in Processes BY <1>4
    <3>1. CASE u = t BY <2>2, <3>1, NewCalls
    <3>2. CASE u # t /\ Holds(u, x)
      <4>1. call[u].at \in {"found", "deleted"} BY <3>2 DEF Holds
      <4>2. call'[u] = [call[u] EXCEPT !.seen = @ \cup {p}] BY <2>2, <3>2
      <4>3. call'[u] \in Calls /\ call'[u].seen = call[u].seen \cup {p}
        BY <3>0, <4>1, <4>2, SeenGrows
      <4>4. call[u].seen \subseteq asked'[ProcessOf[u]] \cup foreign'[ProcessOf[u]]
        BY <1>5, <1>6, <2>5, <3>0, <4>1 DEF Known
      <4>5. p \in asked'[ProcessOf[u]] \cup foreign'[ProcessOf[u]]
        <5>1. CASE ProcessOf[u] = g BY <1>6, <5>1
        <5>2. CASE ProcessOf[u] # g
          <6>1. \E v \in Threads : ProcessOf[v] = ProcessOf[u] /\ Holds(v, x) BY <3>2
          <6> QED BY <2>3, <3>0, <5>2, <6>1
        <5> QED BY <5>1, <5>2
      <4> QED BY <4>3, <4>4, <4>5
    <3>3. CASE u # t /\ ~Holds(u, x)
      <4>1. call'[u] = call[u] BY <2>2, <3>3
      <4> QED BY <1>5, <1>6, <2>5, <3>0, <4>1 DEF Known
    <3> QED BY <3>1, <3>2, <3>3
  <2>8. call' \in [Threads -> Calls] BY <2>4, <2>7
  <2>9. staging' \in [Processes -> (Elements \X Paths) \cup {NoEntry}]
    BY <1>1, <1>4, <2>1
  <2>10. ASSUME NEW h \in Processes, staging'[h] # NoEntry
         PROVE  staging'[h][2] \in asked'[h] \cup foreign'[h]
    <3>1. CASE h = g BY <1>1, <1>4, <1>6, <2>1, <3>1
    <3>2. CASE h # g
      <4>1. staging'[h] = staging[h] BY <1>4, <2>1, <3>2
      <4> QED BY <1>5, <1>6, <2>5, <2>10, <4>1 DEF Known
    <3> QED BY <3>1, <3>2
  <2> QED BY <2>5, <2>6, <2>7, <2>8, <2>9, <2>10
<1> QED BY <1>2, <1>7, <1>8

(* The three steps of the exit program: it credits a process with nothing  *)
(* but what the element has held since the program found it.               *)
LEMMA OpenatExitInv ==
  ASSUME FeedInv, NEW t \in Threads, NEW r \in Fds \cup {Failed},
         OpenatReturns(t, r) \/ OpenatUnstages(t) \/ OpenatCaches(t)
  PROVE  ProbesTypeOK' /\ PathsOfOwnProcess' /\ Staged' /\ UsedOK(used')
<1> DEFINE g == ProcessOf[t]
<1>1. g \in Processes OBVIOUS
<1>2. /\ call \in [Threads -> Calls] /\ call[t] \in Calls
      /\ staging \in [Processes -> (Elements \X Paths) \cup {NoEntry}]
      /\ fdPaths \in [Slots -> SUBSET Paths]
  BY DEF FeedInv, FeedTypeOK, ProbesTypeOK
<1>3. UNCHANGED <<used, dnsFds, tlsFds, asked, foreign, calls>>
  BY DEF OpenatReturns, OpenatUnstages, OpenatCaches
<1>4. UsedOK(used') BY <1>3, UsedNow DEF UsedOK
<1>5. /\ \A s \in Slots : fdPaths[s] \subseteq Known(s[1])
      /\ \A h \in Processes : staging[h] # NoEntry => staging[h][2] \in Known(h)
      /\ \A u \in Threads : call[u].at \in {"found", "deleted"} =>
           call[u].seen \subseteq Known(ProcessOf[u])
  BY DEF FeedInv, PathsOfOwnProcess, Staged, Known
<1> SUFFICES
     /\ call' \in [Threads -> Calls]
     /\ staging' \in [Processes -> (Elements \X Paths) \cup {NoEntry}]
     /\ fdPaths' \in [Slots -> SUBSET Paths]
     /\ \A s \in Slots : fdPaths'[s] \subseteq Known(s[1])
     /\ \A h \in Processes : staging'[h] # NoEntry => staging'[h][2] \in Known(h)
     /\ \A u \in Threads : call'[u].at \in {"found", "deleted"} =>
          call'[u].seen \subseteq Known(ProcessOf[u])
  <2>1. ProbesTypeOK' BY <1>3 DEF FeedInv, FeedTypeOK, ProbesTypeOK
  <2>2. PathsOfOwnProcess' /\ Staged' BY <1>3 DEF PathsOfOwnProcess, Staged, Known
  <2> QED BY <1>4, <2>1, <2>2
<1>6. CASE OpenatReturns(t, r)
  <2> DEFINE entry == staging[g]
             new == IF entry = NoEntry THEN Idle
                    ELSE InExit(call[t].path, entry[1], r, {entry[2]})
  <2>1. /\ call[t].at = "openat" /\ call' = [call EXCEPT ![t] = new]
        /\ UNCHANGED <<staging, fdPaths>>
    BY <1>6 DEF OpenatReturns
  <2>2. new \in Calls
        /\ (new.at \in {"found", "deleted"} => new.seen \subseteq Known(g))
    <3>1. CASE entry = NoEntry BY <3>1, NewCalls
    <3>2. CASE entry # NoEntry
      <4>1. entry[1] \in Elements /\ entry[2] \in Paths /\ call[t].path \in Paths
        BY <1>1, <1>2, <2>1, <3>2, CallParts
      <4>2. new = InExit(call[t].path, entry[1], r, {entry[2]}) BY <3>2
      <4>3. {entry[2]} \in SUBSET Paths BY <4>1
      <4>4. new \in Calls /\ new.seen = {entry[2]}
        <5> HIDE DEF new, entry
        <5> QED BY <4>1, <4>2, <4>3, NewCalls
      <4>5. entry[2] \in Known(g) BY <1>1, <1>5, <3>2
      <4> QED BY <4>4, <4>5
    <3> QED BY <3>1, <3>2
  <2> HIDE DEF new
  <2> QED BY <1>2, <1>5, <2>1, <2>2
<1>7. CASE OpenatUnstages(t)
  <2> DEFINE new == IF call[t].ret = Failed THEN Idle ELSE [call[t] EXCEPT !.at = "deleted"]
  <2>1. /\ call[t].at = "found" /\ call' = [call EXCEPT ![t] = new]
        /\ staging' = [staging EXCEPT ![g] = NoEntry] /\ UNCHANGED fdPaths
    BY <1>7 DEF OpenatUnstages
  <2>2. new \in Calls
        /\ (new.at \in {"found", "deleted"} => new.seen \subseteq Known(g))
    <3>1. CASE call[t].ret = Failed BY <3>1, NewCalls
    <3>2. CASE call[t].ret # Failed
      <4>1. new = [call[t] EXCEPT !.at = "deleted"] BY <3>2
      <4>2. new \in Calls /\ new.seen = call[t].seen
        BY <1>2, <2>1, <3>2, <4>1 DEF Calls, Idle
      <4>3. call[t].seen \subseteq Known(g) BY <1>5, <2>1
      <4> QED BY <4>2, <4>3
    <3> QED BY <3>1, <3>2
  <2> HIDE DEF new
  <2> QED BY <1>2, <1>5, <2>1, <2>2
<1>8. CASE OpenatCaches(t)
  <2>1. PICK bytes \in SUBSET call[t].seen \ {{}} :
          fdPaths' = [fdPaths EXCEPT ![Slot(t, call[t].ret)] = bytes]
    BY <1>8 DEF OpenatCaches
  <2>2. /\ call[t].at = "deleted" /\ call' = [call EXCEPT ![t] = Idle]
        /\ UNCHANGED staging
    BY <1>8 DEF OpenatCaches
  <2>3. call[t].ret \in Fds /\ call[t].seen \subseteq Paths BY <1>2, <2>2, CallParts
  <2>4. PICK s \in Slots : s = Slot(t, call[t].ret) /\ s[1] = g BY <2>3, SlotType
  <2>5. bytes \subseteq Known(g) /\ bytes \subseteq Paths BY <1>5, <2>1, <2>2, <2>3
  <2>6. fdPaths' \in [Slots -> SUBSET Paths]
        /\ \A q \in Slots : fdPaths'[q] \subseteq Known(q[1])
    BY <1>2, <1>5, <2>1, <2>4, <2>5
  <2> QED BY <1>2, <1>5, <2>2, <2>6, NewCalls
<1> QED BY <1>6, <1>7, <1>8

(* The other programs fill rings and mark descriptors.                     *)
LEMMA OtherProbesInv ==
  ASSUME FeedInv, NEW t \in Threads, NEW fd \in Fds, NEW port,
         Probe(t) \/ Sendto(t, fd) \/ Sendmsg(t, fd) \/ Connect(t, fd, port)
  PROVE  ProbesTypeOK' /\ PathsOfOwnProcess' /\ Staged' /\ UsedOK(used')
<1>1. UNCHANGED <<call, staging, fdPaths, asked, foreign>> /\ calls' \in {calls, calls + 1}
  BY DEF Probe, Sendto, Sendmsg, Connect, maps
<1>2. UsedOK(used) /\ used \in [Rings -> Nat] BY UsedNow
<1>3. UsedOK(used') /\ dnsFds' \subseteq Slots /\ tlsFds' \subseteq Slots
  <2>0. dnsFds \subseteq Slots /\ tlsFds \subseteq Slots
    BY DEF FeedInv, FeedTypeOK, ProbesTypeOK
  <2>1. CASE Probe(t) BY <1>2, <2>0, <2>1, ReserveFits, ProbeRings DEF Probe, maps
  <2>2. CASE Sendto(t, fd) BY <1>2, <2>0, <2>2, CapturesFit DEF Sendto, maps
  <2>3. CASE Sendmsg(t, fd)
    <3>1. (Slot(t, fd) \in dnsFds) \in BOOLEAN OBVIOUS
    <3>2. PICK hello \in BOOLEAN : used' = Captures(t, fd, Slot(t, fd) \in dnsFds, hello)
      BY <2>3 DEF Sendmsg
    <3>3. UsedOK(used') BY <1>2, <3>1, <3>2, CapturesFit
    <3> QED BY <2>0, <2>3, <3>3 DEF Sendmsg, maps
  <2>4. CASE Connect(t, fd, port)
    BY <1>2, <2>0, <2>4, ReserveFits, SlotType DEF Connect, Rings
  <2> QED BY <2>1, <2>2, <2>3, <2>4
<1>4. ProbesTypeOK'
  BY <1>1, <1>3 DEF UsedOK, FeedInv, FeedTypeOK, ProbesTypeOK
<1>5. PathsOfOwnProcess' /\ Staged'
  BY <1>1 DEF FeedInv, PathsOfOwnProcess, Staged, Known
<1> QED BY <1>3, <1>4, <1>5

LEMMA PidReusedInv ==
  ASSUME FeedInv, NEW g \in Processes, PidReused(g)
  PROVE  ProbesTypeOK' /\ PathsOfOwnProcess' /\ Staged' /\ UsedOK(used')
<1>1. /\ asked' = [asked EXCEPT ![g] = {}]
      /\ foreign' = [foreign EXCEPT ![g] = foreign[g] \cup asked[g]]
      /\ UNCHANGED <<used, call, staging, fdPaths, dnsFds, tlsFds, calls>>
  BY DEF PidReused
<1>2. ProbesTypeOK' BY <1>1 DEF FeedInv, FeedTypeOK, ProbesTypeOK
<1>3. UsedOK(used') BY <1>1, UsedNow DEF UsedOK
<1>4. \A h \in Processes : asked'[h] \cup foreign'[h] = asked[h] \cup foreign[h]
  BY <1>1 DEF FeedInv, FeedTypeOK, ProbesTypeOK
<1>5. \A s \in Slots : s[1] \in Processes BY DEF Slots
<1>6. PathsOfOwnProcess' BY <1>1, <1>4, <1>5 DEF FeedInv, PathsOfOwnProcess
<1>7. Staged' BY <1>1, <1>4 DEF FeedInv, Staged, Known
<1> QED BY <1>2, <1>3, <1>6, <1>7

(* The agent's threads touch neither maps nor history, and take from the   *)
(* rings only what is there.                                               *)
LEMMA AgentInv ==
  ASSUME FeedInv, Reader \/ EventLoop \/ ForwardReturns
  PROVE  FeedInv'
<1>0. /\ used \in [Rings -> Nat] /\ \A r \in Rings : used[r] <= Size[r] /\ Size[r] \in Nat
      /\ chan \in [Channels -> Nat]
      /\ \A c \in Channels : chan[c] <= Capacity[c] /\ Capacity[c] \in Nat
      /\ "critical" \in Rings /\ "standard" \in Rings
      /\ "critical" \in Channels /\ "standard" \in Channels
  BY DEF FeedInv, FeedTypeOK, ProbesTypeOK, Rings, Channels
<1>1. UNCHANGED maps
  BY DEF Reader, EventLoop, Load, LoadFails, ReaderSends, ReaderSent, ReaderBegins,
    ReaderHides, ReaderTries, ReaderLeaves, Consumed, Forward, Turn, ForwardReturns, loop, kernel, maps
<1>2. PathsOfOwnProcess' /\ Staged'
  BY <1>1 DEF FeedInv, PathsOfOwnProcess, Staged, Known, maps
<1>3. ASSUME NEW r \in Rings, used[r] > 0, Consumed(r)
      PROVE  used' \in [Rings -> Nat] /\ \A q \in Rings : used'[q] <= Size[q]
  BY <1>0, <1>3 DEF Consumed
<1>4. ASSUME NEW c \in Channels, Put(c)
      PROVE  chan' \in [Channels -> Nat] /\ \A d \in Channels : chan'[d] <= Capacity[d]
  BY <1>0, <1>4 DEF Put, HasRoom
<1> DEFINE Good == /\ used' \in [Rings -> Nat] /\ \A q \in Rings : used'[q] <= Size[q]
                   /\ chan' \in [Channels -> Nat]
                   /\ \A d \in Channels : chan'[d] <= Capacity[d]
                   /\ reader' \in {"loading", "gone", "poll", "sending"} \cup Rings
                   /\ fwd' \in Channels /\ calling' \in BOOLEAN
<1>5. Good
  <2> USE DEF FeedInv, FeedTypeOK
  <2>1. CASE Load \/ LoadFails \/ ReaderSends
    BY <1>0, <2>1 DEF Load, LoadFails, ReaderSends, loop, kernel
  <2>2. CASE ReaderSent
    BY <1>0, <1>3, <1>4, <2>2 DEF ReaderSent, Consumed, Holding, loop
  <2>3. ASSUME NEW r \in Rings, ReaderBegins(r) \/ ReaderLeaves(r) PROVE Good
    BY <1>0, <2>3 DEF ReaderBegins, ReaderLeaves, loop, kernel
  <2>4. ASSUME NEW r \in Rings, ReaderHides(r) PROVE Good
    BY <1>0, <1>3, <2>4 DEF ReaderHides, Consumed, loop
  <2>5. ASSUME NEW r \in Rings, ReaderTries(r) PROVE Good
    <3>1. Put("standard") /\ Consumed(r) /\ used[r] > 0 /\ UNCHANGED <<reader, fwd, calling>>
      BY <2>5 DEF ReaderTries, Consumed, loop
    <3> QED BY <1>0, <1>3, <1>4, <3>1
  <2>6. ASSUME NEW c \in Channels, Forward(c) \/ Turn(c) PROVE Good
    <3>1. calling' \in BOOLEAN BY <2>6 DEF Forward, Turn
    <3>2. UNCHANGED <<used, reader>> /\ fwd' \in Channels
      BY <1>0, <2>6 DEF Forward, Turn, kernel
    <3>3. chan' \in [Channels -> Nat] /\ \A d \in Channels : chan'[d] <= Capacity[d]
      BY <1>0, <2>6 DEF Forward, Turn
    <3> QED BY <1>0, <3>1, <3>2, <3>3
  <2>7. CASE ForwardReturns
    <3>1. calling' \in BOOLEAN BY <2>7 DEF ForwardReturns
    <3>2. UNCHANGED <<used, reader, fwd, chan>> BY <2>7 DEF ForwardReturns, kernel
    <3> QED BY <1>0, <3>1, <3>2
  <2> QED BY <2>1, <2>2, <2>3, <2>4, <2>5, <2>6, <2>7 DEF Reader, EventLoop
<1>6. ProbesTypeOK'
  BY <1>1, <1>5 DEF FeedInv, FeedTypeOK, ProbesTypeOK, maps
<1>7. Holding'
  BY <1>0 DEF FeedInv, Holding, Reader, EventLoop, Load, LoadFails, ReaderSends,
    ReaderSent, ReaderBegins, ReaderHides, ReaderTries, ReaderLeaves, Consumed,
    Forward, Turn, ForwardReturns, loop, kernel, Rings
<1> QED BY <1>2, <1>5, <1>6, <1>7 DEF FeedInv, FeedTypeOK

LEMMA FeedNext_Inv == FeedInv /\ [FeedNext]_vars => FeedInv'
<1> SUFFICES ASSUME FeedInv, [FeedNext]_vars PROVE FeedInv' OBVIOUS
<1>1. CASE Kernel
  <2>1. ProbesTypeOK' /\ PathsOfOwnProcess' /\ Staged' /\ UsedOK(used')
    <3>1. ASSUME NEW t \in Threads, Probe(t) PROVE ProbesTypeOK' /\ PathsOfOwnProcess' /\ Staged' /\ UsedOK(used')
      <4>1. UNCHANGED maps /\ UsedOK(used')
        <5>1. UsedOK(used) /\ used \in [Rings -> Nat] BY UsedNow
        <5> QED BY <3>1, <5>1, ReserveFits, ProbeRings DEF Probe
      <4>2. ProbesTypeOK' BY <4>1 DEF UsedOK, FeedInv, FeedTypeOK, ProbesTypeOK, maps
      <4> QED BY <4>1, <4>2 DEF FeedInv, PathsOfOwnProcess, Staged, Known, maps
    <3>2. ASSUME NEW t \in Threads, OpenatUnstages(t) \/ OpenatCaches(t)
          PROVE ProbesTypeOK' /\ PathsOfOwnProcess' /\ Staged' /\ UsedOK(used')
      BY <3>2, OpenatExitInv
    <3> QED BY <1>1, <3>1, <3>2, OpenatInv, OpenatExitInv, OtherProbesInv, PidReusedInv
            DEF Kernel, ProbesNext
  <2>2. Holding'
    BY <1>1, <2>1, UsedNow DEF Kernel, Holding, FeedInv, UsedOK, Rings, loop
  <2> QED BY <1>1, <2>1, <2>2 DEF Kernel, FeedInv, FeedTypeOK, loop
<1>2. CASE Reader \/ EventLoop \/ ForwardReturns BY <1>2, AgentInv
<1>3. CASE UNCHANGED vars
  BY <1>3 DEF vars, kernel, maps, loop, FeedInv, FeedTypeOK, ProbesTypeOK,
         PathsOfOwnProcess, Staged, Known, Holding
<1> QED BY <1>1, <1>2, <1>3 DEF FeedNext

(* The invariant holds of every behaviour.                                 *)
THEOREM FeedInvCorrect == FeedSpec => []FeedInv
<1> QED BY FeedInit_Inv, FeedNext_Inv, PTL DEF FeedSpec

(* The rings and channels stay within their sizes, whatever the programs,  *)
(* the reader and the event loop do.                                       *)
THEOREM FeedTypeCorrect == FeedSpec => []FeedTypeOK
<1>1. FeedInv => FeedTypeOK BY DEF FeedInv
<1> QED BY <1>1, FeedInvCorrect, PTL

(* The descriptor cache credits a process with a path that it did not ask  *)
(* for only when an earlier process with its pid had, or another process   *)
(* staged it in the very element that the exit program held.               *)
THEOREM PathsOfOwnProcessCorrect == FeedSpec => []PathsOfOwnProcess
<1>1. FeedInv => PathsOfOwnProcess BY DEF FeedInv
<1> QED BY <1>1, FeedInvCorrect, PTL
=============================================================================
