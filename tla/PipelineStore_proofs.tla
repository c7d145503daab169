------------------------ MODULE PipelineStore_proofs ------------------------
(***************************************************************************)
(* Proofs about PipelineStore, for every set of events, every bound on     *)
(* crashes and errors and, where a theorem says so, any set of             *)
(* administrators.                                                         *)
(***************************************************************************)
EXTENDS PipelineStoreInv, SequenceTheorems, TLAPS

Chunks == Events \cup {Torn}

(* A list given to insert_batch is a non-empty sequence of events.         *)
LEMMA BatchIsSeq ==
  ASSUME NEW b \in Batches
  PROVE  /\ b \in Seq(Events) /\ b \in Seq(Chunks)
         /\ Len(b) \in Nat \ {0} /\ Range(b) \subseteq Events
         /\ \A i \in 1..Len(b) : b[i] \in Events
<1>1. b \in Seq(Events) /\ b # <<>>
  BY StoreAssumption
<1>2. Len(b) \in Nat \ {0}
  BY <1>1, EmptySeq
<1>3. \A i \in 1..Len(b) : b[i] \in Events
  BY <1>1, ElementOfSeq
<1>4. Range(b) \subseteq Events
  BY <1>1, <1>3, LenProperties DEF Range
<1>5. b \in Seq(Chunks)
  BY <1>1, SeqMonotonic DEF Chunks
<1> QED
  BY <1>1, <1>2, <1>3, <1>4, <1>5

(* What wal_append leaves in the file when it fails: a prefix of the list, *)
(* and perhaps a torn line.                                                *)
LEMMA PartialAppendShape ==
  ASSUME TypeOK, NEW b \in Batches, PartialAppend(b)
  PROVE  \E x \in Seq(Chunks) :
           /\ wal' = wal \o x
           /\ \A i \in 1..Len(x) : x[i] \in {Torn} \cup Range(b)
           /\ \A i \in 2..Len(x) : x[i-1] # Torn
           /\ Len(x) > 0 /\ x[1] # Torn => GluedBy(b) \subseteq glued' /\ x[1] = b[1]
<1>1. PICK k \in 0..(Len(b) - 1), tail \in {<<>>, <<Torn>>} :
        /\ wal' = wal \o (SubSeq(b, 1, k) \o tail)
        /\ glued' = glued \cup (IF k = 0 THEN {} ELSE GluedBy(b))
  BY DEF PartialAppend
<1> DEFINE p == SubSeq(b, 1, k)
           x == p \o tail
<1>2. /\ b \in Seq(Chunks) /\ Len(b) \in Nat \ {0}
      /\ \A i \in 1..Len(b) : b[i] \in Events
      /\ Range(b) = {b[i] : i \in 1..Len(b)}
  BY BatchIsSeq, LenProperties DEF Range
<1>3. /\ p \in Seq(Chunks) /\ Len(p) = k
      /\ \A i \in 1..k : p[i] = b[i] /\ p[i] \in Events
  <2>1. \A i \in 1..k : b[i] \in Chunks
    BY <1>2 DEF Chunks
  <2> QED
    BY <1>2, <2>1, SubSeqProperties
<1>4. tail \in Seq(Chunks) /\ Len(tail) \in {0, 1} /\ \A i \in 1..Len(tail) : tail[i] = Torn
  <2>1. CASE tail = <<>>
    BY <2>1, EmptySeq
  <2>2. CASE tail = <<Torn>>
    BY <2>2 DEF Chunks
  <2> QED
    BY <2>1, <2>2
<1>5. /\ x \in Seq(Chunks) /\ Len(x) = k + Len(tail)
      /\ \A i \in 1..Len(x) : x[i] = IF i <= k THEN p[i] ELSE tail[i - k]
  BY <1>3, <1>4, ConcatProperties
<1>6. wal' = wal \o x
  BY <1>1
<1>7. \A i \in 1..Len(x) : x[i] \in {Torn} \cup Range(b)
  BY <1>2, <1>3, <1>4, <1>5
<1>8. \A i \in 2..Len(x) : x[i-1] # Torn
  BY <1>3, <1>4, <1>5, StoreAssumption
<1>9. Len(x) > 0 /\ x[1] # Torn => GluedBy(b) \subseteq glued' /\ x[1] = b[1]
  <2> SUFFICES ASSUME Len(x) > 0, x[1] # Torn
               PROVE  k # 0 /\ x[1] = b[1]
    BY <1>1
  <2> QED
    BY <1>3, <1>4, <1>5
<1> QED
  BY <1>5, <1>6, <1>7, <1>8, <1>9

-----------------------------------------------------------------------------
LEMMA InitTypeOK == Init => TypeOK
BY StoreAssumption, EmptySeq DEF Init, TypeOK, Workers, Timer, Main

LEMMA PartTyped ==
  ASSUME NEW b \in SUBSET Events, NEW d
  PROVE  Part(d, b) \in SUBSET Events /\ FirstDir(b) \in {"raw", "alerts"}
BY DEF Part, FirstDir

LEMMA LinesTyped ==
  ASSUME NEW w \in Seq(Chunks)
  PROVE  Lines(w) \in SUBSET Events
<1>1. \A i \in 1..Len(w) : w[i] \in Chunks
  BY ElementOfSeq
<1> QED
  BY <1>1 DEF Lines, Chunks

LEMMA FinishTyped ==
  ASSUME TypeOK, NEW t \in Workers, Finish(t)
  PROVE  /\ phase' \in {"up", "down", "recovering"}
         /\ pc' \in [Workers -> {"idle", "write", "replace", "trim", "swap"}]
BY DEF TypeOK, Finish

LEMMA FaultTyped == TypeOK /\ Fault => faults' \in 0..MaxFaults
BY StoreAssumption DEF TypeOK, Fault

(* Each step keeps TypeOK.                                                 *)
LEMMA StepTypeOK == TypeOK /\ [Next]_vars => TypeOK'
<1> SUFFICES ASSUME TypeOK, [Next]_vars PROVE TypeOK'
  OBVIOUS
<1>1. CASE Tick
  BY <1>1 DEF Tick, TypeOK, local, history
<1>2. ASSUME NEW b \in Batches, InsertBatch(b) PROVE TypeOK'
  <2>1. wal' \in Seq(Events \cup {Torn})
    BY <1>2, BatchIsSeq, ConcatProperties DEF InsertBatch, Chunks, TypeOK
  <2>2. GluedBy(b) \subseteq Events
    BY BatchIsSeq DEF GluedBy
  <2> QED
    BY <1>2, <2>1, <2>2, BatchIsSeq DEF InsertBatch, TypeOK, local, history
<1>3. ASSUME NEW b \in Batches, PartialAppend(b)
      PROVE  wal' \in Seq(Events \cup {Torn}) /\ glued' \subseteq Events
  <2>1. wal' \in Seq(Events \cup {Torn})
    <3>1. PICK x \in Seq(Chunks) : wal' = wal \o x
      BY <1>3, PartialAppendShape
    <3> QED
      BY <3>1, ConcatProperties DEF Chunks, TypeOK
  <2>2. glued' \subseteq Events
    BY <1>3, BatchIsSeq DEF PartialAppend, GluedBy, TypeOK
  <2> QED
    BY <2>1, <2>2
<1>4. ASSUME NEW b \in Batches, InsertUnlogged(b) PROVE TypeOK'
  BY <1>3, <1>4, FaultTyped, BatchIsSeq
     DEF InsertUnlogged, TypeOK, local, history
<1>5. ASSUME NEW b \in Batches, CrashInAppend(b) PROVE TypeOK'
  <2>1. /\ crashes' \in 0..MaxCrashes
        /\ pc' \in [Workers -> {"idle", "write", "replace", "trim", "swap"}]
        /\ pending' \subseteq Events /\ phase' \in {"up", "down", "recovering"}
    BY <1>5, StoreAssumption DEF CrashInAppend, Die, TypeOK
  <2>3. inserted' \subseteq Events /\ unlogged' \subseteq Events /\ orphaned' \subseteq Events
    BY <1>5, BatchIsSeq DEF CrashInAppend, TypeOK
  <2>2. wal' \in Seq(Events \cup {Torn}) /\ glued' \subseteq Events
    BY <1>3, <1>5 DEF CrashInAppend
  <2> QED
    BY <1>5, <2>1, <2>2, <2>3 DEF CrashInAppend, Die, TypeOK
<1>6. ASSUME NEW t \in Workers, StartFlush(t) PROVE TypeOK'
  <2>1. Len(wal) \in Nat
    BY LenProperties DEF TypeOK
  <2> QED
    BY <1>6, <2>1, PartTyped DEF StartFlush, WalSize, TypeOK, local, history
<1>7. ASSUME NEW t \in Workers, WriteTmp(t) PROVE TypeOK'
  <2>1. Part(dir[t], batch[t]) \in SUBSET Events
    BY PartTyped DEF TypeOK
  <2>2. disk' \subseteq [dir : {"raw", "alerts"}, ms : Nat, tmp : BOOLEAN,
                         events : SUBSET Events]
    <3>1. [dir |-> dir[t], ms |-> clock, tmp |-> TRUE, events |-> Part(dir[t], batch[t])]
             \in [dir : {"raw", "alerts"}, ms : Nat, tmp : BOOLEAN, events : SUBSET Events]
      BY <1>7, <2>1 DEF TypeOK
    <3> QED
      BY <1>7, <3>1 DEF WriteTmp, Put, TypeOK
  <2> QED
    BY <1>7, <2>2 DEF WriteTmp, TypeOK, local, history
<1>8. ASSUME NEW t \in Workers, Replace(t) PROVE TypeOK'
  <2>1. disk' \subseteq [dir : {"raw", "alerts"}, ms : Nat, tmp : BOOLEAN,
                         events : SUBSET Events]
    <3>1. PICK f \in TmpOf(t) : disk' = Put(disk \ {f}, [f EXCEPT !.tmp = FALSE])
      BY <1>8 DEF Replace
    <3>2. [f EXCEPT !.tmp = FALSE] \in [dir : {"raw", "alerts"}, ms : Nat,
                                       tmp : BOOLEAN, events : SUBSET Events]
      <4>1. f \in [dir : {"raw", "alerts"}, ms : Nat, tmp : BOOLEAN,
                   events : SUBSET Events]
        BY <3>1 DEF TmpOf, TypeOK
      <4> QED
        BY <4>1
    <3> QED
      BY <3>1, <3>2 DEF Put, TypeOK
  <2>2. /\ pc' \in [Workers -> {"idle", "write", "replace", "trim", "swap"}]
        /\ dir' \in [Workers -> {"raw", "alerts"}]
    BY <1>8 DEF Replace, TypeOK
  <2> QED
    BY <1>8, <2>1, <2>2 DEF Replace, TypeOK, local, history
<1>9. ASSUME NEW t \in Workers, FlushRaises(t), faults' \in 0..MaxFaults PROVE TypeOK'
  BY <1>9, FinishTyped DEF FlushRaises, PendingAfterRaise, TypeOK, local, history
<1>10. ASSUME NEW t \in Workers, TrimRead(t) PROVE TypeOK'
  <2>1. SubSeq(wal, offset[t] + 1, Len(wal)) \in Seq(Events \cup {Torn})
    <3>1. /\ Len(wal) \in Int /\ offset[t] + 1 \in Int /\ offset[t] + 1 > 0
          /\ \A i \in 1..Len(wal) : wal[i] \in Events \cup {Torn}
      BY LenProperties, ElementOfSeq DEF TypeOK
    <3> QED
      BY <3>1, SubSeqProperties
  <2> QED
    BY <1>10, <2>1 DEF TrimRead, Remainder, TypeOK, local, history
<1>11. ASSUME NEW t \in Workers, TrimSwap(t) PROVE TypeOK'
  BY <1>11, FinishTyped DEF TrimSwap, TypeOK, local, history
<1>12. ASSUME NEW t \in Workers, TrimRaises(t) PROVE TypeOK'
  BY <1>12, FinishTyped, FaultTyped DEF TrimRaises, TypeOK, local, history
<1>13. CASE Crash
  BY <1>13, StoreAssumption DEF Crash, Die, TypeOK, local, history
<1>14. CASE Restart
  <2>1. Lines(wal) \in SUBSET Events /\ Len(wal) \in Nat
    BY LinesTyped, LenProperties DEF TypeOK, Chunks
  <2>2. Main \in Workers
    BY DEF Workers
  <2>3. /\ batch' \in [Workers -> SUBSET Events] /\ offset' \in [Workers -> Nat]
        /\ dir' \in [Workers -> {"raw", "alerts"}]
    BY <1>14, <2>1, <2>2, PartTyped DEF Restart, Replayed, WalSize, TypeOK
  <2>4. pc' \in [Workers -> {"idle", "write", "replace", "trim", "swap"}]
    BY <1>14, <2>2 DEF Restart, Replayed, WalSize, TypeOK
  <2> QED
    BY <1>14, <2>3, <2>4 DEF Restart, Replayed, WalSize, TypeOK, local, history
<1>15. CASE RestartUnread
  <2>1. Lines(wal) \in SUBSET Events
    BY LinesTyped DEF TypeOK, Chunks
  <2> QED
    BY <1>15, <2>1, FaultTyped DEF RestartUnread, TypeOK, local, history
<1>16. CASE UNCHANGED vars
  BY <1>16 DEF vars, TypeOK, local, history
<1>17. ASSUME NEW t \in Workers, WriteRaises(t) PROVE TypeOK'
  BY <1>9, <1>17, FaultTyped DEF WriteRaises
<1>18. ASSUME NEW t \in Workers, ReplaceRaises(t) PROVE TypeOK'
  BY <1>9, <1>18 DEF ReplaceRaises, TypeOK
<1> QED
  BY <1>1, <1>2, <1>4, <1>5, <1>6, <1>7, <1>8, <1>10, <1>11, <1>12, <1>13,
     <1>14, <1>15, <1>16, <1>17, <1>18 DEF Next, FlushStep

(* Whatever administrators, crashes and errors do, the state of the store  *)
(* keeps its shape.                                                        *)
THEOREM TypeCorrect == Spec => []TypeOK
<1> QED
  BY InitTypeOK, StepTypeOK, PTL DEF Spec

-----------------------------------------------------------------------------
(***************************************************************************)
(* Nothing is lost when the timer is the only flusher.                     *)
(***************************************************************************)
LEMMA InitInv == Init => TimerInv
<1> SUFFICES ASSUME Init PROVE TimerInv
  OBVIOUS
<1>1. Range(<<>>) = {} /\ Len(<<>>) = 0
  BY DEF Range
<1> QED
  BY <1>1, InitTypeOK DEF Init, TimerInv, OneFlusher, NamesAreNew, BatchStored,
     PrefixIsBatch, WalIsKnown, TornIsFollowedByGlued, Kept, Active, Workers,
     Timer, Main, TmpOf, Files, InParquet

(* A step that leaves the tree alone leaves the stored events alone.       *)
LEMMA SameDisk == disk' = disk => Files' = Files /\ InParquet' = InParquet
BY DEF Files, InParquet

(* Writing a .tmp file changes no Parquet file.                            *)
LEMMA WriteTmpFiles ==
  ASSUME TypeOK, NEW t \in Workers, WriteTmp(t)
  PROVE  Files' = Files /\ InParquet' = InParquet
<1> DEFINE n == [dir |-> dir[t], ms |-> clock, tmp |-> TRUE,
                 events |-> Part(dir[t], batch[t])]
<1>1. n.tmp = TRUE /\ disk' = Put(disk, n)
  BY DEF WriteTmp
<1> HIDE DEF n
<1>2. \A f \in disk : f.tmp \in BOOLEAN
  BY DEF TypeOK
<1>3. Files' = Files
  BY <1>1, <1>2 DEF Files, Put
<1> QED
  BY <1>3 DEF InParquet

(* os.replace adds the thread's part of the batch to the tree, and removes *)
(* nothing, since the name is new.                                         *)
LEMMA ReplaceFiles ==
  ASSUME TimerInv, NEW t \in Workers, Replace(t)
  PROVE  \E f \in TmpOf(t) :
           /\ disk' = (disk \ {f}) \cup {[f EXCEPT !.tmp = FALSE]}
           /\ Files' = Files \cup {[f EXCEPT !.tmp = FALSE]}
           /\ InParquet' = InParquet \cup Part(dir[t], batch[t])
<1>1. PICK f \in TmpOf(t) : disk' = Put(disk \ {f}, [f EXCEPT !.tmp = FALSE])
  BY DEF Replace
<1> DEFINE n == [f EXCEPT !.tmp = FALSE]
<1>2. /\ f \in [dir : {"raw", "alerts"}, ms : Nat, tmp : BOOLEAN, events : SUBSET Events]
      /\ f \in disk /\ f.dir = dir[t] /\ f.ms = ms[t] /\ f.tmp
      /\ f.events = Part(dir[t], batch[t])
  BY DEF TmpOf, Replace, TimerInv, TypeOK, NamesAreNew
<1>3. n.dir = dir[t] /\ n.ms = ms[t] /\ n.tmp = FALSE /\ n.events = f.events
  BY <1>2
<1> HIDE DEF n
<1>4. \A g \in disk : ~g.tmp /\ g.dir = dir[t] => g.ms < ms[t]
  BY DEF Replace, TimerInv, NamesAreNew, Files
<1>5. \A g \in disk : g.tmp \in BOOLEAN /\ g.ms \in Nat
  BY DEF TimerInv, TypeOK
<1>6. disk' = (disk \ {f}) \cup {n}
  <2>1. \A g \in disk : ~(g.dir = n.dir /\ g.ms = n.ms /\ g.tmp = n.tmp)
    BY <1>3, <1>4, <1>5
  <2> QED
    BY <1>1, <2>1 DEF Put, n
<1>7. Files' = Files \cup {n}
  BY <1>2, <1>3, <1>5, <1>6 DEF Files
<1>8. InParquet' = InParquet \cup Part(dir[t], batch[t])
  BY <1>2, <1>3, <1>7 DEF InParquet
<1> QED
  BY <1>6, <1>7, <1>8 DEF n

LEMMA WhoFlushes ==
  /\ Workers = {Timer, Main} \cup Admins /\ Timer # Main
  /\ Timer \in Workers /\ Main \in Workers
  /\ Timer \notin Admins /\ Main \notin Admins
BY StoreAssumption DEF Workers, Timer, Main

LEMMA TickInv ==
  ASSUME TimerInv, TypeOK', Tick
  PROVE  TimerInv'
<1> USE DEF TimerInv, Tick, local, history
<1>1. Files' = Files /\ InParquet' = InParquet
  BY SameDisk
<1>2. OneFlusher'
  BY DEF OneFlusher, Active
<1>3. NamesAreNew'
  BY <1>1 DEF NamesAreNew, TmpOf, TypeOK
<1>4. BatchStored' /\ PrefixIsBatch' /\ WalIsKnown'
  BY <1>1 DEF BatchStored, PrefixIsBatch, WalIsKnown, Active, Excused
<1>5. TornIsFollowedByGlued' /\ Kept'
  BY <1>1 DEF TornIsFollowedByGlued, Kept, Excused
<1> QED
  BY <1>2, <1>3, <1>4, <1>5

(* What a growing WAL has to satisfy, whoever appended x to it.            *)
LEMMA AppendInv ==
  ASSUME TimerInv, TypeOK', NEW x \in Seq(Chunks), wal' = wal \o x,
         UNCHANGED <<disk, batch, offset, rest>>,
         \A t \in Workers : pc'[t] # "swap" /\ (Active(t)' => Active(t)),
         glued \subseteq glued', unlogged \subseteq unlogged', orphaned' = orphaned,
         NEW b \in Batches,
         \A i \in 1..Len(x) : x[i] \in {Torn} \cup Range(b),
         \A i \in 2..Len(x) : x[i-1] # Torn,
         Len(x) > 0 /\ x[1] # Torn => GluedBy(b) \subseteq glued' /\ x[1] = b[1],
         \A t \in Workers : t = Main => ~Active(t)'
  PROVE  PrefixIsBatch' /\ TornIsFollowedByGlued' /\ Range(wal) \subseteq Range(wal')
<1>1. /\ Len(wal) \in Nat /\ Len(x) \in Nat /\ Len(wal') = Len(wal) + Len(x)
      /\ \A i \in 1..(Len(wal) + Len(x)) :
           wal'[i] = IF i <= Len(wal) THEN wal[i] ELSE x[i - Len(wal)]
  BY ConcatProperties, LenProperties DEF TimerInv, TypeOK, Chunks
<1>2. InParquet' = InParquet /\ Excused \subseteq Excused'
  BY SameDisk DEF Excused
<1>3. PrefixIsBatch'
  <2> SUFFICES ASSUME NEW t \in Workers, Active(t)'
               PROVE  /\ offset[t] <= Len(wal')
                      /\ t # Main
                      /\ \A i \in 1..offset[t] :
                           wal'[i] \in {Torn} \cup Excused' \cup batch[t] \cup InParquet'
    BY DEF PrefixIsBatch
  <2>1. /\ offset[t] <= Len(wal) /\ offset[t] \in Nat
        /\ \A i \in 1..offset[t] : wal[i] \in {Torn} \cup Excused \cup batch[t] \cup InParquet
    BY DEF TimerInv, PrefixIsBatch, TypeOK
  <2> QED
    BY <1>1, <1>2, <2>1
<1>4. TornIsFollowedByGlued'
  <2> SUFFICES ASSUME NEW i \in 2..Len(wal'), wal'[i-1] = Torn
               PROVE  wal'[i] \in {Torn} \cup glued'
    BY DEF TornIsFollowedByGlued
  <2>1. CASE i <= Len(wal)
    BY <1>1, <2>1 DEF TimerInv, TornIsFollowedByGlued
  <2>2. CASE i = Len(wal) + 1
    <3>1. wal' [i] = x[1] /\ wal'[i-1] = wal[Len(wal)] /\ Len(x) > 0 /\ Len(wal) > 0
      BY <1>1, <2>2
    <3>2. wal # <<>>
      BY <3>1, EmptySeq
    <3>3. GluedBy(b) = {b[1]}
      BY <3>1, <3>2 DEF GluedBy
    <3> QED
      BY <3>1, <3>3
  <2>3. CASE i > Len(wal) + 1
    BY <1>1, <2>3
  <2> QED
    BY <1>1, <2>1, <2>2, <2>3
<1>5. Range(wal) \subseteq Range(wal')
  <2>1. wal' \in Seq(Chunks) /\ wal \in Seq(Chunks)
    BY DEF TimerInv, TypeOK, Chunks
  <2>2. DOMAIN wal' = 1..Len(wal') /\ DOMAIN wal = 1..Len(wal)
    BY <2>1, LenProperties
  <2>3. \A i \in 1..Len(wal) : wal[i] = wal'[i] /\ i \in 1..Len(wal')
    BY <1>1
  <2> QED
    BY <2>2, <2>3 DEF Range
<1> QED
  BY <1>3, <1>4, <1>5

(* Every event of an appended list is in the WAL after it.                 *)
LEMMA AppendedInWal ==
  ASSUME TypeOK, NEW b \in Batches, wal' = wal \o b
  PROVE  /\ Range(wal') = Range(wal) \cup Range(b)
         /\ \A i \in 1..Len(wal') :
              wal'[i] \in Range(b) \/ (i \in 1..Len(wal) /\ wal'[i] = wal[i])
<1>1. /\ Len(wal) \in Nat /\ Len(b) \in Nat /\ Len(wal') = Len(wal) + Len(b)
      /\ \A i \in 1..(Len(wal) + Len(b)) :
           wal'[i] = IF i <= Len(wal) THEN wal[i] ELSE b[i - Len(wal)]
      /\ DOMAIN wal = 1..Len(wal) /\ DOMAIN b = 1..Len(b)
      /\ DOMAIN wal' = 1..Len(wal')
  BY BatchIsSeq, ConcatProperties, LenProperties DEF TypeOK, Chunks
<1>2. \A i \in 1..Len(b) : wal'[Len(wal) + i] = b[i] /\ Len(wal) + i \in 1..Len(wal')
  BY <1>1
<1>3. \A i \in 1..Len(wal) : wal'[i] = wal[i] /\ i \in 1..Len(wal')
  BY <1>1
<1>4. \A i \in 1..Len(wal') : \/ i \in 1..Len(wal) /\ wal'[i] = wal[i]
                              \/ i - Len(wal) \in 1..Len(b) /\ wal'[i] = b[i - Len(wal)]
  BY <1>1
<1>5. Range(wal') = Range(wal) \cup Range(b)
  <2>1. Range(wal') \subseteq Range(wal) \cup Range(b)
    BY <1>1, <1>4 DEF Range
  <2>2. Range(wal) \subseteq Range(wal')
    BY <1>1, <1>3 DEF Range
  <2>3. Range(b) \subseteq Range(wal')
    <3> SUFFICES ASSUME NEW i \in 1..Len(b) PROVE b[i] \in Range(wal')
      BY <1>1 DEF Range
    <3>1. wal'[Len(wal) + i] = b[i] /\ Len(wal) + i \in DOMAIN wal'
      BY <1>1, <1>2
    <3> QED
      BY <3>1 DEF Range
  <2> QED
    BY <2>1, <2>2, <2>3
<1> QED
  BY <1>1, <1>4, <1>5 DEF Range

LEMMA InsertBatchInv ==
  ASSUME TimerInv, TypeOK', NEW b \in Batches, InsertBatch(b)
  PROVE  TimerInv'
<1> USE DEF InsertBatch, local, history
<1>1. /\ b \in Seq(Chunks) /\ Len(b) \in Nat \ {0} /\ Range(b) \subseteq Events
      /\ \A i \in 1..Len(b) : b[i] \in Events /\ b[i] \in Range(b)
  BY BatchIsSeq, LenProperties DEF Range
<1>2. Files' = Files /\ InParquet' = InParquet
  BY SameDisk
<1>3. /\ Main \in Workers /\ ~Active(Main)
      /\ \A t \in Workers : pc[t] # "swap"
  BY DEF Workers, WalLockFree, TimerInv, OneFlusher
<1>4. PrefixIsBatch' /\ TornIsFollowedByGlued' /\ Range(wal) \subseteq Range(wal')
  <2>1. /\ \A t \in Workers : pc'[t] # "swap" /\ (Active(t)' => Active(t))
        /\ \A t \in Workers : t = Main => ~Active(t)'
    BY <1>3 DEF Active
  <2>2. \A i \in 1..Len(b) : b[i] \in {Torn} \cup Range(b) /\ b[i] # Torn
    BY <1>1, StoreAssumption
  <2>3. \A i \in 2..Len(b) : b[i-1] # Torn
    BY <1>1, <2>2
  <2> QED
    BY <1>1, <2>1, <2>2, <2>3, AppendInv
<1>5. OneFlusher' /\ NamesAreNew' /\ BatchStored'
  BY <1>2 DEF TimerInv, OneFlusher, NamesAreNew, BatchStored, Active, TmpOf
<1>6. WalIsKnown'
  BY <1>2, AppendedInWal DEF TimerInv, WalIsKnown, Active, Excused
<1>7. Kept'
  BY <1>2, AppendedInWal DEF TimerInv, Kept, Excused
<1> QED
  BY <1>4, <1>5, <1>6, <1>7 DEF TimerInv

LEMMA InsertUnloggedInv ==
  ASSUME TimerInv, TypeOK', NEW b \in Batches, InsertUnlogged(b)
  PROVE  TimerInv'
<1> USE DEF InsertUnlogged, local, history
<1>1. PICK x \in Seq(Chunks) :
        /\ wal' = wal \o x
        /\ \A i \in 1..Len(x) : x[i] \in {Torn} \cup Range(b)
        /\ \A i \in 2..Len(x) : x[i-1] # Torn
        /\ Len(x) > 0 /\ x[1] # Torn => GluedBy(b) \subseteq glued' /\ x[1] = b[1]
  BY PartialAppendShape DEF TimerInv
<1>2. Files' = Files /\ InParquet' = InParquet /\ glued \subseteq glued'
  BY SameDisk DEF PartialAppend
<1>3. /\ Main \in Workers /\ ~Active(Main)
      /\ \A t \in Workers : pc[t] # "swap"
  BY DEF Workers, WalLockFree, TimerInv, OneFlusher
<1>4. PrefixIsBatch' /\ TornIsFollowedByGlued' /\ Range(wal) \subseteq Range(wal')
  BY <1>1, <1>2, <1>3, AppendInv DEF Active
<1>5. OneFlusher' /\ NamesAreNew' /\ BatchStored'
  BY <1>2 DEF TimerInv, OneFlusher, NamesAreNew, BatchStored, Active, TmpOf
<1>6. WalIsKnown'
  <2> SUFFICES ASSUME NEW i \in 1..Len(wal')
               PROVE  \/ wal'[i] \in {Torn} \cup Excused' \cup pending' \cup InParquet'
                      \/ Active(Timer)' /\ wal'[i] \in batch'[Timer]
    BY DEF WalIsKnown
  <2>1. /\ Len(wal) \in Nat /\ Len(x) \in Nat /\ Len(wal') = Len(wal) + Len(x)
        /\ wal'[i] = IF i <= Len(wal) THEN wal[i] ELSE x[i - Len(wal)]
    BY <1>1, ConcatProperties, LenProperties DEF TimerInv, TypeOK, Chunks
  <2> QED
    BY <1>1, <1>2, <2>1 DEF TimerInv, WalIsKnown, Active, Excused
<1>7. Kept'
  BY <1>2, <1>4 DEF TimerInv, Kept, Excused
<1> QED
  BY <1>4, <1>5, <1>6, <1>7 DEF TimerInv

LEMMA StartFlushInv ==
  ASSUME TimerInv, TypeOK', NEW t \in Workers, t \notin Admins, StartFlush(t)
  PROVE  TimerInv'
<1> USE DEF StartFlush, WalSize, Slept, local, history
<1>1. t = Timer /\ Workers = {Timer, Main} \cup Admins /\ Timer # Main /\ Timer \notin Admins /\ Main \notin Admins
  BY WhoFlushes
<1>2. Files' = Files /\ InParquet' = InParquet /\ Excused' = Excused
  BY SameDisk DEF Excused
<1>3. Len(wal) \in Nat
  BY LenProperties DEF TimerInv, TypeOK
<1>4. OneFlusher'
  BY <1>1 DEF TimerInv, OneFlusher, Active, TypeOK
<1>5. NamesAreNew'
  <2>1. \A f \in disk : f.ms < clock
    BY <1>1 DEF TimerInv, NamesAreNew, TypeOK
  <2> QED
    BY <1>1, <1>2, <2>1 DEF TimerInv, NamesAreNew, TypeOK, TmpOf
<1>6. BatchStored'
  <2>1. dir'[Timer] = "alerts" => batch'[Timer] \ Alerts = {}
    BY <1>1 DEF TimerInv, TypeOK, FirstDir, Part
  <2> QED
    BY <1>1, <1>2, <2>1 DEF TimerInv, BatchStored, TypeOK
<1>7. PrefixIsBatch'
  <2>1. \A i \in 1..Len(wal) : wal[i] \in {Torn} \cup Excused \cup pending \cup InParquet
    BY <1>1 DEF TimerInv, WalIsKnown, Active
  <2>2. ~Active(Main)'
    BY <1>1, <1>4 DEF OneFlusher
  <2>3. batch'[Timer] = pending /\ offset'[Timer] = Len(wal) /\ pc'[Timer] = "write"
    BY <1>1 DEF TimerInv, TypeOK
  <2>4. \A u \in Workers : Active(u)' => u = Timer
    BY <1>1, <1>4, <2>2 DEF OneFlusher
  <2> QED
    BY <1>1, <1>2, <1>3, <2>1, <2>3, <2>4 DEF PrefixIsBatch
<1>8. WalIsKnown'
  BY <1>1, <1>2 DEF TimerInv, WalIsKnown, TypeOK, Active
<1>9. TornIsFollowedByGlued' /\ Kept'
  BY <1>2 DEF TimerInv, TornIsFollowedByGlued, Kept
<1> QED
  BY <1>4, <1>5, <1>6, <1>7, <1>8, <1>9 DEF TimerInv

(* At most one of the two threads is active.                               *)
LEMMA OtherIsIdle ==
  ASSUME TimerInv, NEW t \in Workers, Active(t)
  PROVE  /\ \A u \in Workers : u # t => ~Active(u)
         /\ phase = (IF t = Main THEN "recovering" ELSE "up")
         /\ t \in {Timer, Main} /\ t \notin Admins
<1>1. phase \in {"up", "down", "recovering"}
  BY DEF TimerInv, TypeOK
<1> QED
  BY <1>1, WhoFlushes DEF TimerInv, OneFlusher

LEMMA WriteTmpInv ==
  ASSUME TimerInv, TypeOK', NEW t \in Workers, WriteTmp(t)
  PROVE  TimerInv'
<1> USE DEF WriteTmp, local, history
<1>1. Files' = Files /\ InParquet' = InParquet /\ Excused' = Excused
  BY WriteTmpFiles DEF Excused, TimerInv
<1>2. /\ Active(t) /\ Active(t)' /\ pc' = [pc EXCEPT ![t] = "replace"]
      /\ \A u \in Workers : u # t => ~Active(u) /\ ~Active(u)'
  BY OtherIsIdle DEF Active, TimerInv, TypeOK
<1>3. OneFlusher'
  BY <1>2, WhoFlushes DEF TimerInv, OneFlusher
<1>4. NamesAreNew'
  <2> DEFINE n == [dir |-> dir[t], ms |-> clock, tmp |-> TRUE,
                   events |-> Part(dir[t], batch[t])]
  <2>1. n.dir = dir[t] /\ n.ms = clock /\ n.tmp = TRUE /\ n.events = Part(dir[t], batch[t])
    OBVIOUS
  <2>2. disk' = Put(disk, n)
    OBVIOUS
  <2> HIDE DEF n
  <2>3. disk' \subseteq disk \cup {n}
    BY <2>2 DEF Put
  <2>4. lastNamed' = clock /\ lastNamed <= clock /\ clock \in Nat
    BY <1>2, OtherIsIdle DEF TimerInv, NamesAreNew, TypeOK
  <2>5. \A f \in disk' : f.ms <= lastNamed'
    <3>1. \A f \in disk : f.ms \in Nat /\ f.ms <= lastNamed /\ lastNamed \in Nat
      BY DEF TimerInv, NamesAreNew, TypeOK
    <3>2. \A f \in disk : f.ms <= clock
      BY <2>4, <3>1
    <3>3. n.ms <= clock
      BY <2>1, <2>4
    <3> QED
      BY <2>3, <2>4, <3>2, <3>3
  <2>6. dir[t] = "raw" => \A f \in disk' : f.dir = "alerts" => f.ms < clock
    BY <2>1, <2>3 DEF TimerInv, NamesAreNew
  <2>7. \A f \in Files' : f.dir = dir[t] => f.ms < clock
    BY <1>1 DEF TimerInv, NamesAreNew, Files
  <2>8. \A f \in disk' : f.dir = dir[t] /\ f.ms = clock /\ f.tmp => f = n
    BY <2>1, <2>2 DEF Put
  <2>9. ms'[t] = clock
    BY DEF TimerInv, TypeOK
  <2>10. \A f \in TmpOf(t)' : f.events = Part(dir[t], batch[t])
    BY <2>1, <2>8, <2>9 DEF TmpOf
  <2>11. ASSUME NEW u \in Workers
         PROVE  /\ pc'[u] # "write"
                /\ pc'[u] = "replace" => u = t
    BY <1>2, WhoFlushes DEF Active, TimerInv, TypeOK
  <2>12. lastNamed' <= clock'
    BY <2>4
  <2>13. pc'[t] = "replace" /\ dir'[t] = "raw" => \A f \in disk' : f.dir = "alerts" => f.ms < clock'
    BY <2>6
  <2> QED
    BY <2>5, <2>7, <2>9, <2>10, <2>11, <2>12, <2>13 DEF NamesAreNew
<1>5. BatchStored'
  BY <1>1, <1>2 DEF TimerInv, BatchStored, TypeOK, Active
<1>6. PrefixIsBatch'
  BY <1>1, <1>2 DEF TimerInv, PrefixIsBatch, TypeOK
<1>7. WalIsKnown'
  BY <1>1, <1>2, WhoFlushes DEF TimerInv, WalIsKnown
<1>8. TornIsFollowedByGlued' /\ Kept'
  BY <1>1 DEF TimerInv, TornIsFollowedByGlued, Kept
<1> QED
  BY <1>3, <1>4, <1>5, <1>6, <1>7, <1>8 DEF TimerInv

LEMMA ReplaceInv ==
  ASSUME TimerInv, TypeOK', NEW t \in Workers, Replace(t)
  PROVE  TimerInv'
<1> USE DEF local, history
<1>1. PICK f \in TmpOf(t) :
        /\ disk' = (disk \ {f}) \cup {[f EXCEPT !.tmp = FALSE]}
        /\ Files' = Files \cup {[f EXCEPT !.tmp = FALSE]}
        /\ InParquet' = InParquet \cup Part(dir[t], batch[t])
  BY ReplaceFiles
<1> DEFINE n == [f EXCEPT !.tmp = FALSE]
<1>2. /\ f \in disk /\ f.dir = dir[t] /\ f.ms = ms[t]
      /\ n.dir = dir[t] /\ n.ms = ms[t] /\ n.tmp = FALSE
  <2>1. f \in [dir : {"raw", "alerts"}, ms : Nat, tmp : BOOLEAN, events : SUBSET Events]
    BY <1>1 DEF TmpOf, TimerInv, TypeOK
  <2> QED
    BY <1>1, <2>1 DEF TmpOf
<1> HIDE DEF n
<1>3. Excused' = Excused /\ InParquet \subseteq InParquet'
  BY <1>1 DEF Replace, Excused
<1>4. /\ Active(t) /\ Active(t)' /\ pc'[t] \in {"write", "trim"} /\ pc[t] = "replace"
      /\ \A u \in Workers : u # t => ~Active(u) /\ ~Active(u)'
  <2>1. pc[t] = "replace" /\ \E p \in {"write", "trim"} : pc' = [pc EXCEPT ![t] = p]
    BY DEF Replace
  <2>2. Active(t) /\ \A u \in Workers : u # t => ~Active(u)
    <3>1. Active(t)
      BY <2>1 DEF Active
    <3> QED
      BY <3>1, OtherIsIdle
  <2>3. \A u \in Workers : u # t => pc'[u] = pc[u]
    BY <2>1 DEF TimerInv, TypeOK
  <2> QED
    BY <2>1, <2>2, <2>3 DEF Active, TimerInv, TypeOK
<1>5. OneFlusher'
  BY <1>4, WhoFlushes DEF Replace, TimerInv, OneFlusher
<1>6. NamesAreNew'
  <2>1. \A g \in disk' : \E h \in disk : g.ms = h.ms /\ g.dir = h.dir
    BY <1>1, <1>2 DEF n
  <2>2. pc'[t] = "write" => dir'[t] = "alerts" /\ dir[t] = "raw"
    BY DEF Replace, TimerInv, TypeOK
  <2>3. pc'[t] = "write" => \A g \in disk' : g.dir = "alerts" => g.ms < clock
    BY <1>4, <2>1, <2>2 DEF TimerInv, NamesAreNew
  <2>4. \A g \in disk' : g.ms <= lastNamed'
    BY <2>1 DEF TimerInv, NamesAreNew, Replace
  <2>5. ASSUME NEW u \in Workers
        PROVE  pc'[u] # "replace" /\ (pc'[u] = "write" => u = t)
    BY <1>4 DEF Active
  <2> QED
    BY <2>2, <2>3, <2>4, <2>5 DEF TimerInv, NamesAreNew, Replace
<1>7. BatchStored'
  <2>1. dir[t] = "raw" => batch[t] \ Alerts \subseteq InParquet'
    BY <1>1 DEF Part
  <2>2. dir[t] = "alerts" => batch[t] \subseteq InParquet'
    BY <1>1, <1>4 DEF Part, TimerInv, BatchStored
  <2>3. pc'[t] = "trim" => batch[t] \subseteq InParquet'
    BY <2>1, <2>2 DEF Replace, Part, TimerInv, TypeOK
  <2>4. pc'[t] = "write" => dir[t] = "raw"
    BY DEF Replace, TimerInv, TypeOK
  <2>5. batch' = batch /\ \A u \in Workers : u # t => pc'[u] = "idle"
    BY <1>4 DEF Replace, Active
  <2> QED
    BY <1>4, <2>1, <2>3, <2>4, <2>5 DEF BatchStored
<1>8. PrefixIsBatch'
  BY <1>3, <1>4 DEF TimerInv, PrefixIsBatch, Replace
<1>9. WalIsKnown'
  BY <1>3, <1>4, WhoFlushes DEF TimerInv, WalIsKnown, Replace
<1>10. TornIsFollowedByGlued' /\ Kept'
  BY <1>3 DEF TimerInv, TornIsFollowedByGlued, Kept, Replace
<1> QED
  BY <1>5, <1>6, <1>7, <1>8, <1>9, <1>10 DEF TimerInv

LEMMA FlushRaisesInv ==
  ASSUME TimerInv, TypeOK', NEW t \in Workers, Active(t), FlushRaises(t)
  PROVE  TimerInv'
<1> USE DEF FlushRaises, PendingAfterRaise, Finish, local, history
<1>1. Files' = Files /\ InParquet' = InParquet /\ Excused \subseteq Excused'
  BY SameDisk DEF Excused
<1>2. /\ batch[t] \subseteq Excused' \cup InParquet'
      /\ \A u \in Workers : ~Active(u)'
      /\ phase' = "up"
      /\ batch' = batch
  BY <1>1, OtherIsIdle DEF Excused, Active, TimerInv, TypeOK
<1>3. OneFlusher' /\ BatchStored' /\ PrefixIsBatch'
  BY <1>2, WhoFlushes DEF OneFlusher, BatchStored, PrefixIsBatch, Active
<1>4. NamesAreNew'
  BY <1>2 DEF TimerInv, NamesAreNew, Active
<1>5. WalIsKnown'
  <2> SUFFICES ASSUME NEW i \in 1..Len(wal)
               PROVE  wal[i] \in {Torn} \cup Excused' \cup pending \cup InParquet
    BY <1>1 DEF WalIsKnown
  <2>1. CASE t = Main
    <3>1. \A j \in 1..Len(wal) : wal[j] \in {Torn} \cup Excused \cup batch[t] \cup InParquet
      BY <2>1 DEF TimerInv, PrefixIsBatch
    <3> QED
      BY <1>1, <1>2, <3>1
  <2>2. CASE t = Timer
    BY <1>1, <1>2, <2>2, OtherIsIdle, WhoFlushes DEF TimerInv, WalIsKnown
  <2> QED
    BY <1>2, <2>1, <2>2, OtherIsIdle
<1>6. TornIsFollowedByGlued' /\ Kept'
  BY <1>1 DEF TimerInv, TornIsFollowedByGlued, Kept
<1> QED
  BY <1>3, <1>4, <1>5, <1>6 DEF TimerInv

LEMMA TrimReadInv ==
  ASSUME TimerInv, TypeOK', NEW t \in Workers, TrimRead(t)
  PROVE  TimerInv'
<1> USE DEF TrimRead, Remainder, local, history
<1>1. Files' = Files /\ InParquet' = InParquet /\ Excused' = Excused
  BY SameDisk DEF Excused
<1>2. /\ Active(t) /\ Active(t)' /\ pc'[t] = "swap" /\ pc[t] = "trim"
      /\ rest'[t] = SubSeq(wal, offset[t] + 1, Len(wal))
      /\ \A u \in Workers : u # t => ~Active(u) /\ ~Active(u)'
  <2>1. Active(t)
    BY DEF Active
  <2>2. pc \in [Workers -> {"idle", "write", "replace", "trim", "swap"}] /\ DOMAIN rest = Workers
    BY DEF TimerInv, TypeOK
  <2>3. \A u \in Workers : u # t => ~Active(u)
    BY <2>1, OtherIsIdle
  <2> QED
    BY <2>1, <2>2, <2>3 DEF Active
<1>3. OneFlusher'
  BY <1>2, WhoFlushes DEF TimerInv, OneFlusher
<1>4. NamesAreNew' /\ BatchStored'
  BY <1>1, <1>2 DEF TimerInv, NamesAreNew, BatchStored, Active
<1>5. PrefixIsBatch'
  BY <1>1, <1>2 DEF TimerInv, PrefixIsBatch
<1>6. WalIsKnown'
  BY <1>1, <1>2, WhoFlushes DEF TimerInv, WalIsKnown
<1>7. TornIsFollowedByGlued' /\ Kept'
  BY <1>1 DEF TimerInv, TornIsFollowedByGlued, Kept
<1> QED
  BY <1>3, <1>4, <1>5, <1>6, <1>7 DEF TimerInv

(* Cutting the WAL at the thread's offset removes stored and excused       *)
(* events only.                                                            *)
LEMMA TrimSwapInv ==
  ASSUME TimerInv, TypeOK', NEW t \in Workers, TrimSwap(t)
  PROVE  TimerInv'
<1> USE DEF TrimSwap, Finish, local, history
<1>1. Files' = Files /\ InParquet' = InParquet /\ Excused' = Excused
  BY SameDisk DEF Excused
<1>2. /\ Active(t) /\ pc[t] = "swap" /\ batch[t] \subseteq InParquet
      /\ \A u \in Workers : ~Active(u)'
      /\ phase' = "up"
  BY OtherIsIdle DEF Active, TimerInv, TypeOK, BatchStored
<1> DEFINE o == offset[t]
           L == Len(wal)
<1>3. o \in Nat /\ L \in Nat /\ o <= L /\ wal' = SubSeq(wal, o + 1, L)
  BY <1>2, LenProperties DEF TimerInv, PrefixIsBatch, TypeOK
<1>4. \A i \in 1..o : wal[i] \in {Torn} \cup Excused \cup InParquet
  BY <1>2 DEF TimerInv, PrefixIsBatch
<1> HIDE DEF o, L
<1>5. /\ Len(wal') = L - o
      /\ \A i \in 1..(L - o) : wal'[i] = wal[o + i]
  <2>1. \A i \in (o + 1)..L : wal[i] \in Chunks
    BY <1>3, ElementOfSeq DEF TimerInv, TypeOK, Chunks, L
  <2> QED
    BY <1>3, <2>1, SubSeqProperties
<1>6. OneFlusher' /\ BatchStored' /\ PrefixIsBatch'
  BY <1>2, WhoFlushes DEF OneFlusher, BatchStored, PrefixIsBatch, Active
<1>7. NamesAreNew'
  BY <1>2 DEF TimerInv, NamesAreNew, Active
<1>8. WalIsKnown'
  <2>1. \A i \in 1..L : wal[i] \in {Torn} \cup Excused \cup pending \cup InParquet
    <3>1. CASE t = Main
      <4>1. o = L
        BY <1>2, <3>1 DEF TimerInv, PrefixIsBatch, o, L
      <4> QED
        BY <1>4, <4>1
    <3>2. CASE t = Timer
      BY <1>2, <3>2, OtherIsIdle, WhoFlushes DEF TimerInv, WalIsKnown, L
    <3> QED
      BY <1>2, <3>1, <3>2, OtherIsIdle
  <2>2. \A i \in 1..(L - o) : o + i \in 1..L
    BY <1>3
  <2>3. \A i \in 1..Len(wal') :
          wal'[i] \in {Torn} \cup Excused \cup pending \cup InParquet
    BY <1>5, <2>1, <2>2
  <2> QED
    BY <1>1, <2>3 DEF WalIsKnown
<1>9. TornIsFollowedByGlued'
  <2> SUFFICES ASSUME NEW i \in 2..Len(wal'), wal'[i-1] = Torn
               PROVE  wal'[i] \in {Torn} \cup glued
    BY DEF TornIsFollowedByGlued
  <2>1. o + i \in 2..L /\ wal'[i] = wal[o + i] /\ wal'[i-1] = wal[(o + i) - 1]
    BY <1>3, <1>5
  <2> QED
    BY <2>1 DEF TimerInv, TornIsFollowedByGlued, L
<1>10. Kept'
  <2> SUFFICES ASSUME NEW e \in inserted \ Excused, e \notin InParquet
               PROVE  e \in Range(wal')
    BY <1>1 DEF Kept
  <2>1. e # Torn
    BY StoreAssumption DEF TimerInv, TypeOK
  <2>2. PICK i \in 1..L : wal[i] = e
    BY LenProperties DEF TimerInv, Kept, Range, TypeOK, L
  <2>3. i > o
    BY <1>3, <1>4, <2>1, <2>2
  <2>4. i - o \in 1..(L - o) /\ wal'[i - o] = e
    BY <1>3, <1>5, <2>2, <2>3
  <2>5. DOMAIN wal' = 1..(L - o)
    BY <1>5, LenProperties DEF TypeOK
  <2> QED
    BY <2>4, <2>5 DEF Range
<1> QED
  BY <1>6, <1>7, <1>8, <1>9, <1>10 DEF TimerInv

LEMMA TrimRaisesInv ==
  ASSUME TimerInv, TypeOK', NEW t \in Workers, TrimRaises(t)
  PROVE  TimerInv'
<1> USE DEF TrimRaises, Finish, local, history
<1>1. Files' = Files /\ InParquet' = InParquet /\ Excused' = Excused
  BY SameDisk DEF Excused
<1>2. /\ Active(t) /\ batch[t] \subseteq InParquet
      /\ \A u \in Workers : ~Active(u)'
      /\ phase' = "up"
  BY OtherIsIdle DEF Active, TimerInv, TypeOK, BatchStored
<1>3. OneFlusher' /\ BatchStored' /\ PrefixIsBatch'
  BY <1>2, WhoFlushes DEF OneFlusher, BatchStored, PrefixIsBatch, Active
<1>4. NamesAreNew'
  BY <1>2 DEF TimerInv, NamesAreNew, Active
<1>5. WalIsKnown'
  <2> SUFFICES ASSUME NEW i \in 1..Len(wal)
               PROVE  wal[i] \in {Torn} \cup Excused \cup pending \cup InParquet
    BY <1>1 DEF WalIsKnown
  <2>1. CASE t = Main
    BY <1>2, <2>1 DEF TimerInv, PrefixIsBatch
  <2>2. CASE t = Timer
    BY <1>2, <2>2, OtherIsIdle, WhoFlushes DEF TimerInv, WalIsKnown
  <2> QED
    BY <1>2, <2>1, <2>2, OtherIsIdle
<1>6. TornIsFollowedByGlued' /\ Kept'
  BY <1>1 DEF TimerInv, TornIsFollowedByGlued, Kept
<1> QED
  BY <1>3, <1>4, <1>5, <1>6 DEF TimerInv

(* A dead process has no thread, so only the WAL, the tree and the history *)
(* matter.                                                                 *)
LEMMA DieInv ==
  ASSUME TimerInv, TypeOK', Die, TornIsFollowedByGlued', Kept'
  PROVE  TimerInv'
<1> USE DEF Die
<1>1. \A t \in Workers : ~Active(t)'
  BY DEF Active
<1>2. Timer \in Workers /\ Main \in Workers /\ Admins \subseteq Workers
  BY DEF Workers
<1>3. OneFlusher' /\ BatchStored' /\ PrefixIsBatch' /\ WalIsKnown'
  BY <1>1, <1>2 DEF OneFlusher, BatchStored, PrefixIsBatch, WalIsKnown, Active
<1>4. NamesAreNew'
  BY <1>1 DEF TimerInv, NamesAreNew, Active
<1> QED
  BY <1>3, <1>4 DEF TimerInv

LEMMA CrashInv ==
  ASSUME TimerInv, TypeOK', Crash
  PROVE  TimerInv'
<1> USE DEF Crash, Die, history
<1>1. InParquet' = InParquet /\ Excused' = Excused
  BY SameDisk DEF Excused
<1>2. TornIsFollowedByGlued' /\ Kept'
  BY <1>1 DEF TimerInv, TornIsFollowedByGlued, Kept
<1> QED
  BY <1>2, DieInv

LEMMA CrashInAppendInv ==
  ASSUME TimerInv, TypeOK', NEW b \in Batches, CrashInAppend(b)
  PROVE  TimerInv'
<1> USE DEF CrashInAppend, Die
<1>1. PICK x \in Seq(Chunks) :
        /\ wal' = wal \o x
        /\ \A i \in 1..Len(x) : x[i] \in {Torn} \cup Range(b)
        /\ \A i \in 2..Len(x) : x[i-1] # Torn
        /\ Len(x) > 0 /\ x[1] # Torn => GluedBy(b) \subseteq glued' /\ x[1] = b[1]
  BY PartialAppendShape DEF TimerInv
<1>2. InParquet' = InParquet /\ glued \subseteq glued' /\ Excused \subseteq Excused'
  BY SameDisk DEF PartialAppend, Excused
<1>3. \A t \in Workers : pc'[t] = "idle"
  OBVIOUS
<1>4. TornIsFollowedByGlued' /\ Range(wal) \subseteq Range(wal')
  BY <1>1, <1>2, <1>3, AppendInv DEF Active
<1>5. Kept'
  BY <1>2, <1>4 DEF TimerInv, Kept, Excused
<1> QED
  BY <1>4, <1>5, DieInv

(* Of the lines of the WAL, wal_recover reads all but the glued ones.      *)
LEMMA LinesAreKnown ==
  ASSUME TimerInv
  PROVE  \A i \in 1..Len(wal) : wal[i] \in {Torn} \cup Excused \cup Lines(wal)
<1>1. Len(wal) \in Nat
  BY LenProperties DEF TimerInv, TypeOK
<1> SUFFICES ASSUME NEW i \in 1..Len(wal), wal[i] # Torn, wal[i] \notin glued
             PROVE  wal[i] \in Lines(wal)
  BY DEF Excused
<1>2. i = 1 \/ wal[i-1] # Torn
  BY <1>1 DEF TimerInv, TornIsFollowedByGlued
<1> QED
  BY <1>2 DEF Lines

LEMMA RestartInv ==
  ASSUME TimerInv, TypeOK', Restart
  PROVE  TimerInv'
<1> USE DEF Restart, Replayed, WalSize, history
<1>1. Files' = Files /\ InParquet' = InParquet /\ Excused' = Excused
  BY SameDisk DEF Excused
<1>2. /\ Workers = {Timer, Main} \cup Admins /\ Timer # Main
      /\ Main \notin Admins /\ \A a \in Admins : ~Active(a)
      /\ ~Active(Timer) /\ ~Active(Main) /\ pending = {}
      /\ Len(wal) \in Nat
  BY WhoFlushes, LenProperties DEF TimerInv, OneFlusher, TypeOK
<1>3. /\ ~Active(Timer)' /\ \A a \in Admins : ~Active(a)'
      /\ Active(Main)' <=> wal # <<>>
      /\ pc'[Main] \in {"idle", "write", "trim"}
      /\ pc'[Main] = "trim" => Lines(wal) = {}
  BY <1>2 DEF Active, TimerInv, TypeOK
<1>4. /\ batch'[Main] = Lines(wal) /\ offset'[Main] = Len(wal)
      /\ dir'[Main] = "alerts" => Lines(wal) \ Alerts = {}
  BY <1>2 DEF TimerInv, TypeOK, FirstDir, Part
<1>5. OneFlusher'
  BY <1>2, <1>3 DEF OneFlusher
<1>6. NamesAreNew'
  <2>1. \A f \in disk : f.ms < clock' /\ f.ms <= lastNamed
    BY DEF TimerInv, NamesAreNew, TypeOK
  <2>2. lastNamed' <= clock'
    BY DEF TimerInv, NamesAreNew, TypeOK
  <2>3. \A t \in Workers : pc'[t] # "replace"
    BY <1>2, <1>3 DEF Active
  <2> QED
    BY <2>1, <2>2, <2>3 DEF NamesAreNew
<1>7. BatchStored'
  BY <1>1, <1>2, <1>3, <1>4 DEF BatchStored, Active
<1>8. PrefixIsBatch'
  BY <1>1, <1>2, <1>3, <1>4, LinesAreKnown DEF PrefixIsBatch, Active
<1>9. WalIsKnown'
  BY <1>2, EmptySeq DEF WalIsKnown
<1>10. TornIsFollowedByGlued' /\ Kept'
  BY <1>1 DEF TimerInv, TornIsFollowedByGlued, Kept
<1> QED
  BY <1>5, <1>6, <1>7, <1>8, <1>9, <1>10 DEF TimerInv

LEMMA RestartUnreadInv ==
  ASSUME TimerInv, TypeOK', RestartUnread
  PROVE  TimerInv'
<1> USE DEF RestartUnread, local
<1>1. Files' = Files /\ InParquet' = InParquet
  BY SameDisk
<1>2. Excused' = Excused \cup (Lines(wal) \ InParquet)
  BY DEF Excused
<1>3. \A t \in Workers : ~Active(t) /\ ~Active(t)'
  BY WhoFlushes DEF TimerInv, OneFlusher, Active
<1>4. OneFlusher' /\ BatchStored' /\ PrefixIsBatch'
  BY <1>3, WhoFlushes DEF OneFlusher, BatchStored, PrefixIsBatch, Active
<1>5. NamesAreNew'
  <2>1. \A f \in disk : f.ms <= lastNamed
    BY DEF TimerInv, NamesAreNew
  <2>2. lastNamed' <= clock'
    BY DEF TimerInv, NamesAreNew, TypeOK
  <2> QED
    BY <1>3, <2>1, <2>2 DEF NamesAreNew, Active
<1>6. WalIsKnown'
  BY <1>1, <1>2, LinesAreKnown DEF WalIsKnown
<1>7. TornIsFollowedByGlued' /\ Kept'
  BY <1>1, <1>2 DEF TimerInv, TornIsFollowedByGlued, Kept
<1> QED
  BY <1>4, <1>5, <1>6, <1>7 DEF TimerInv

LEMMA StutterInv ==
  ASSUME TimerInv, UNCHANGED vars
  PROVE  TimerInv'
BY DEF vars, local, history, TimerInv, TypeOK, OneFlusher, NamesAreNew, BatchStored,
   PrefixIsBatch, WalIsKnown, TornIsFollowedByGlued, Kept, Active, Files, InParquet,
   TmpOf, Excused

(* Once an administrator has flushed, TimerOnly stays false.               *)
LEMMA TimerOnlyBefore ==
  ASSUME TypeOK, Next, TimerOnly'
  PROVE  /\ TimerOnly
         /\ \A t \in Admins : ~StartFlush(t)
<1>1. ASSUME NEW t \in Workers, StartFlush(t)
      PROVE  t \notin Admins /\ TimerOnly
  <2>1. t \notin Admins
    BY <1>1 DEF StartFlush, TimerOnly, TypeOK
  <2> QED
    BY <1>1, <2>1 DEF StartFlush, TimerOnly, TypeOK
<1>2. CASE Restart
  <2>1. \A a \in Admins : batch'[a] = batch[a]
    BY <1>2, WhoFlushes DEF Restart, TypeOK
  <2>2. phase # "up"
    BY <1>2 DEF Restart
  <2> QED
    BY <2>1, <2>2 DEF TimerOnly, StartFlush
<1>3. CASE UNCHANGED batch
  <2>1. TimerOnly
    BY <1>3 DEF TimerOnly
  <2> QED
    BY <1>1, <2>1 DEF Workers
<1>4. Restart \/ UNCHANGED batch \/ \E t \in Workers : StartFlush(t)
  BY DEF Next, FlushStep, Tick, InsertBatch, InsertUnlogged, CrashInAppend, Die, Crash,
     WriteTmp, Replace, ReplaceRaises, WriteRaises, FlushRaises, TrimRead, TrimSwap,
     TrimRaises, RestartUnread, local
<1> QED
  BY <1>1, <1>2, <1>3, <1>4 DEF Workers

(* Each step of the timer's pipeline keeps its invariant.                  *)
LEMMA TimerStepInv ==
  ASSUME TimerInv, TypeOK', Next, \A t \in Admins : ~StartFlush(t)
  PROVE  TimerInv'
<1>2. CASE Tick
  BY <1>2, TickInv
<1>3. ASSUME NEW b \in Batches, InsertBatch(b) \/ InsertUnlogged(b) \/ CrashInAppend(b)
      PROVE  TimerInv'
  BY <1>3, InsertBatchInv, InsertUnloggedInv, CrashInAppendInv
<1>4. ASSUME NEW t \in Workers, FlushStep(t) PROVE TimerInv'
  <2>1. CASE ReplaceRaises(t)
    BY <2>1, FlushRaisesInv DEF ReplaceRaises, Active
  <2> QED
    BY <1>4, <2>1, StartFlushInv, WriteTmpInv, ReplaceInv, TrimReadInv, TrimSwapInv
    DEF FlushStep
<1>5. ASSUME NEW t \in Workers, WriteRaises(t) PROVE TimerInv'
  BY <1>5, FlushRaisesInv DEF WriteRaises, Active
<1>6. ASSUME NEW t \in Workers, TrimRaises(t) PROVE TimerInv'
  BY <1>6, TrimRaisesInv
<1>7. CASE Crash \/ Restart \/ RestartUnread
  BY <1>7, CrashInv, RestartInv, RestartUnreadInv
<1> QED
  BY <1>2, <1>3, <1>4, <1>5, <1>6, <1>7 DEF Next

LEMMA StepInv == StoreInv /\ [Next]_vars => StoreInv'
<1> SUFFICES ASSUME StoreInv, [Next]_vars PROVE StoreInv'
  OBVIOUS
<1>1. TypeOK'
  BY StepTypeOK DEF StoreInv
<1>2. ASSUME Next, TimerOnly' PROVE TimerInv'
  BY <1>1, <1>2, TimerOnlyBefore, TimerStepInv DEF StoreInv
<1>3. ASSUME UNCHANGED vars, TimerOnly' PROVE TimerInv'
  BY <1>3, StutterInv DEF StoreInv, TimerOnly, vars, local
<1> QED
  BY <1>1, <1>2, <1>3 DEF StoreInv

(* For any events, lists of them, administrators, crashes and errors, the  *)
(* invariant holds until an administrator has flushed.                     *)
THEOREM InvCorrect == Spec => []StoreInv
<1>1. Init => StoreInv
  BY InitInv, InitTypeOK DEF StoreInv
<1>2. StoreInv /\ [Next]_vars => StoreInv'
  BY StepInv
<1> QED
  BY <1>1, <1>2, PTL DEF Spec

LEMMA InvImpliesNothingLost == StoreInv => NothingLost
<1> SUFFICES ASSUME TimerInv, NEW e \in inserted \ Excused, e \notin InParquet
             PROVE  e \in Lines(wal)
  BY DEF StoreInv, NothingLost
<1>1. e # Torn
  BY StoreAssumption DEF TimerInv, TypeOK
<1>2. PICK i \in 1..Len(wal) : wal[i] = e
  BY LenProperties DEF TimerInv, Kept, Range, TypeOK
<1> QED
  BY <1>1, <1>2, LinesAreKnown

(* Until an administrator has flushed, for any events, any lists of them,  *)
(* and any number of crashes and errors: what insert_batch took is in the  *)
(* WAL or in Parquet, unless a swallowed error hit that very event.        *)
THEOREM NothingLostByTimer == Spec => []NothingLost
<1>1. Spec => []StoreInv
  BY InvCorrect
<1> QED
  BY <1>1, InvImpliesNothingLost, PTL

LEMMA StepGrows ==
  TimerOnly /\ StoreInv /\ [Next]_vars => InParquet \subseteq InParquet'
<1> SUFFICES ASSUME TimerInv, [Next]_vars PROVE InParquet \subseteq InParquet'
  BY DEF StoreInv
<1>1. ASSUME NEW t \in Workers, WriteTmp(t) \/ Replace(t) PROVE InParquet \subseteq InParquet'
  BY <1>1, WriteTmpFiles, ReplaceFiles DEF TimerInv
<1>2. CASE disk' = disk
  BY <1>2, SameDisk
<1> QED
  BY <1>1, <1>2 DEF Next, FlushStep, vars, Tick, InsertBatch, InsertUnlogged, CrashInAppend,
     Die, Crash, StartFlush, ReplaceRaises, WriteRaises, FlushRaises, TrimRead,
     TrimSwap, TrimRaises, Restart, RestartUnread

(* ... and no later flush overwrites a stored file.                        *)
THEOREM ParquetGrowsByTimer == Spec => ParquetOnlyGrows
<1>1. Spec => []StoreInv
  BY InvCorrect
<1>2. StoreInv /\ [Next]_vars => [TimerOnly => InParquet \subseteq InParquet']_vars
  BY StepGrows
<1> QED
  BY <1>1, <1>2, PTL DEF Spec, ParquetOnlyGrows

-----------------------------------------------------------------------------
(***************************************************************************)
(* No duplicate before the first crash, whoever flushes.                   *)
(***************************************************************************)

(* What t may still put into a file of its own.                            *)
ToWrite(t) ==
  IF pc[t] = "write" THEN IF dir[t] = "raw" THEN batch[t] ELSE batch[t] \cap Alerts
  ELSE IF pc[t] = "replace" /\ dir[t] = "raw" THEN batch[t] \cap Alerts
  ELSE {}

(* An event is in one place: pending, in the hands of one thread, or in    *)
(* one file, whose name may be taken by another thread's.                  *)
InOnePlace ==
  /\ phase = "up" /\ pc[Main] = "idle"
  /\ pending \subseteq inserted
  /\ \A f \in disk : f.events \subseteq inserted /\ f.events \cap pending = {}
  /\ \A t \in Workers :
       /\ ToWrite(t) \subseteq inserted /\ ToWrite(t) \cap pending = {}
       /\ \A f \in disk : ToWrite(t) \cap f.events = {}
  /\ \A t, u \in Workers : t # u => ToWrite(t) \cap ToWrite(u) = {}
  /\ \A f, g \in disk : f # g => f.events \cap g.events = {}

DupInv == TypeOK /\ (crashes = 0 => InOnePlace)

LEMMA PutOnePlace ==
  ASSUME NEW files, NEW f
  PROVE  f \in Put(files, f) /\ Put(files, f) \subseteq files \cup {f}
BY DEF Put

LEMMA SplitBatch ==
  ASSUME NEW b
  PROVE  /\ Part("raw", b) = b \ Alerts /\ Part("alerts", b) = b \cap Alerts
         /\ FirstDir(b) = "alerts" => b \cap Alerts = b
         /\ FirstDir(b) \in {"raw", "alerts"}
BY DEF Part, FirstDir

LEMMA WriteTmpOnce ==
  ASSUME TypeOK, InOnePlace, NEW t \in Workers, WriteTmp(t)
  PROVE  InOnePlace'
<1> DEFINE n == [dir |-> dir[t], ms |-> clock, tmp |-> TRUE,
                 events |-> Part(dir[t], batch[t])]
<1>1. disk' \subseteq disk \cup {n}
  BY PutOnePlace DEF WriteTmp
<1>2. /\ n.events \subseteq ToWrite(t) /\ ToWrite(t)' \subseteq ToWrite(t)
      /\ ToWrite(t)' \cap n.events = {}
  BY SplitBatch DEF WriteTmp, ToWrite, TypeOK
<1>3. \A u \in Workers : u # t => ToWrite(u)' = ToWrite(u)
  BY DEF WriteTmp, ToWrite, TypeOK
<1>4. pc'[Main] = "idle" /\ UNCHANGED <<phase, pending, inserted>>
  BY DEF WriteTmp, InOnePlace, TypeOK, history
<1> HIDE DEF n
<1> QED
  BY <1>1, <1>2, <1>3, <1>4 DEF InOnePlace

LEMMA ReplaceOnce ==
  ASSUME TypeOK, InOnePlace, NEW t \in Workers, Replace(t)
  PROVE  InOnePlace'
<1>1. PICK f \in TmpOf(t) : disk' = Put(disk \ {f}, [f EXCEPT !.tmp = FALSE])
  BY DEF Replace
<1> DEFINE n == [f EXCEPT !.tmp = FALSE]
<1>2. f \in disk /\ n.events = f.events /\ disk' \subseteq (disk \ {f}) \cup {n}
  BY <1>1, PutOnePlace DEF TmpOf, TypeOK
<1>3. \A u \in Workers : ToWrite(u)' \subseteq ToWrite(u)
  BY SplitBatch DEF Replace, ToWrite, TypeOK
<1>4. pc'[Main] = "idle" /\ UNCHANGED <<phase, pending, inserted>>
  <2>1. t # Main /\ Main \in Workers
    BY WhoFlushes DEF Replace, InOnePlace
  <2>2. \E p : pc' = [pc EXCEPT ![t] = p]
    BY DEF Replace
  <2> QED
    BY <2>1, <2>2 DEF Replace, InOnePlace, TypeOK, history
<1> HIDE DEF n
<1> QED
  BY <1>2, <1>3, <1>4 DEF InOnePlace

(* A step that leaves the files alone and writes nothing new.              *)
LEMMA SameFilesOnce ==
  ASSUME InOnePlace, phase' = "up", pc'[Main] = "idle",
         UNCHANGED <<disk, inserted>>, pending' = pending,
         \A t \in Workers : ToWrite(t)' \subseteq ToWrite(t)
  PROVE  InOnePlace'
BY DEF InOnePlace

LEMMA StartFlushOnce ==
  ASSUME TypeOK, InOnePlace, NEW t \in Workers, StartFlush(t)
  PROVE  InOnePlace'
<1>1. ToWrite(t)' = pending
  BY SplitBatch DEF StartFlush, ToWrite, TypeOK
<1>2. \A u \in Workers : u # t => ToWrite(u)' = ToWrite(u)
  BY DEF StartFlush, ToWrite, TypeOK
<1>3. pc'[Main] = "idle" /\ pending' = {} /\ UNCHANGED <<phase, disk, inserted>>
  BY DEF StartFlush, InOnePlace, TypeOK, history
<1> QED
  BY <1>1, <1>2, <1>3 DEF InOnePlace

LEMMA InsertOnce ==
  ASSUME TypeOK, InOnePlace, NEW b \in Batches, Fresh(b),
         pending' = pending \cup Range(b), inserted' = inserted \cup Range(b),
         UNCHANGED <<disk, phase, local>>
  PROVE  InOnePlace'
<1>1. \A t \in Workers : ToWrite(t)' = ToWrite(t)
  BY DEF local, ToWrite
<1> QED
  BY <1>1 DEF InOnePlace, Fresh, local

LEMMA StepOnce == DupInv /\ [Next]_vars => DupInv'
<1> SUFFICES ASSUME DupInv, [Next]_vars, crashes' = 0 PROVE InOnePlace'
  BY StepTypeOK DEF DupInv
<1>1. Main \in Workers /\ crashes \in Nat
  BY StoreAssumption DEF Workers, DupInv, TypeOK
<1>2. crashes = 0 /\ InOnePlace /\ phase = "up" /\ TypeOK
  <2>1. crashes' = crashes \/ crashes' = crashes + 1
    BY DEF Next, FlushStep, vars, Tick, InsertBatch, InsertUnlogged, CrashInAppend,
       Die, Crash, StartFlush, WriteTmp, Replace, ReplaceRaises, WriteRaises,
       FlushRaises, TrimRead, TrimSwap, TrimRaises, Restart, RestartUnread
  <2> QED
    BY <1>1, <2>1 DEF DupInv, InOnePlace
<1>3. CASE Tick
  BY <1>2, <1>3, SameFilesOnce DEF Tick, InOnePlace, local, history, ToWrite
<1>4. ASSUME NEW b \in Batches, InsertBatch(b) \/ InsertUnlogged(b) \/ CrashInAppend(b)
      PROVE  InOnePlace'
  <2>1. ~CrashInAppend(b)
    BY <1>1, <1>2 DEF CrashInAppend, Die
  <2> QED
    BY <1>2, <1>4, <2>1, InsertOnce DEF InsertBatch, InsertUnlogged
<1>5. ASSUME NEW t \in Workers, FlushStep(t) \/ WriteRaises(t) \/ TrimRaises(t)
      PROVE  InOnePlace'
  <2>1. CASE StartFlush(t) \/ WriteTmp(t) \/ Replace(t)
    BY <1>2, <2>1, StartFlushOnce, WriteTmpOnce, ReplaceOnce
  <2>2. CASE ReplaceRaises(t) \/ TrimRead(t) \/ TrimSwap(t) \/ WriteRaises(t) \/ TrimRaises(t)
    <3>1. /\ t # Main /\ phase' = "up" /\ pc'[Main] = "idle"
          /\ UNCHANGED <<disk, inserted, pending>>
      BY <1>1, <1>2, <2>2 DEF ReplaceRaises, TrimRead, TrimSwap, WriteRaises, TrimRaises,
         FlushRaises, Finish, PendingAfterRaise, InOnePlace, TypeOK, history
    <3>2. \A u \in Workers : ToWrite(u)' \subseteq ToWrite(u)
      BY <1>2, <2>2 DEF ReplaceRaises, TrimRead, TrimSwap, WriteRaises, TrimRaises,
         FlushRaises, Finish, ToWrite, TypeOK
    <3> QED
      BY <1>2, <3>1, <3>2, SameFilesOnce
  <2> QED
    BY <1>5, <2>1, <2>2 DEF FlushStep
<1>6. ~Crash /\ ~Restart /\ ~RestartUnread
  BY <1>1, <1>2 DEF Crash, Die, Restart, RestartUnread
<1>7. CASE UNCHANGED vars
  BY <1>2, <1>7, SameFilesOnce DEF vars, local, history, ToWrite, InOnePlace
<1> QED
  BY <1>3, <1>4, <1>5, <1>6, <1>7 DEF Next

(* Whatever threads flush at the same time, and whatever raises, no event  *)
(* is stored twice before the first crash.                                 *)
THEOREM StoredOnceBeforeCrash == Spec => []NoDuplicateInOneSession
<1>1. Init => DupInv
  <2>1. ASSUME Init PROVE \A t \in Workers : ToWrite(t) = {}
    BY <2>1 DEF Init, ToWrite
  <2> QED
    BY <2>1, InitTypeOK, WhoFlushes DEF Init, DupInv, InOnePlace
<1>2. DupInv => NoDuplicateInOneSession
  BY DEF DupInv, InOnePlace, NoDuplicateInOneSession, Files
<1> QED
  BY <1>1, <1>2, StepOnce, PTL DEF Spec

-----------------------------------------------------------------------------
(***************************************************************************)
(* The WAL is emptied when the timer is the only flusher.                  *)
(***************************************************************************)

(* A thread finds the file it is to rename; a flush that finds nothing new *)
(* pending has the whole WAL before its offset.                            *)
Drained ==
  /\ \A t \in Workers : pc[t] = "replace" => TmpOf(t) # {}
  /\ phase = "up" /\ pending = {} =>
       IF Active(Timer) THEN Len(wal) <= offset[Timer] ELSE wal = <<>>

DrainInv == StoreInv /\ (TimerOnly /\ faults = 0 => Drained)

(* Of the WAL nothing is left if nothing follows the offset.               *)
LEMMA NothingFollows ==
  ASSUME TimerInv, NEW t \in Workers, pc[t] = "swap", Len(wal) <= offset[t]
  PROVE  rest[t] = <<>>
<1>1. /\ wal \in Seq(Chunks) /\ Len(wal) \in Nat /\ offset[t] = Len(wal)
      /\ rest[t] = SubSeq(wal, offset[t] + 1, Len(wal))
  BY LenProperties DEF TimerInv, TypeOK, PrefixIsBatch, Active, Chunks
<1> QED
  BY <1>1, SubSeqProperties

LEMMA StepDrained ==
  ASSUME TimerInv, Drained, Next, faults' = 0, faults = 0,
         \A t \in Admins : ~StartFlush(t)
  PROVE  Drained'
<1>1. TypeOK /\ Main \in Workers /\ Timer \in Workers /\ Main # Timer
  BY WhoFlushes DEF TimerInv
<1>2. ASSUME NEW t \in Workers, Active(t)
      PROVE  /\ \A u \in Workers : u # t => ~Active(u)
             /\ phase = (IF t = Main THEN "recovering" ELSE "up")
             /\ t \in {Timer, Main}
  BY <1>2, OtherIsIdle
<1>3. CASE Tick
  BY <1>3 DEF Tick, Drained, TmpOf, Active, local, history
<1>4. ASSUME NEW b \in Batches, InsertBatch(b) PROVE Drained'
  <2>1. Range(b) # {}
    BY BatchIsSeq DEF Range
  <2> QED
    BY <1>4, <2>1 DEF InsertBatch, Drained, TmpOf, local
<1>5. ASSUME NEW b \in Batches PROVE ~InsertUnlogged(b)
  BY DEF InsertUnlogged, Fault
<1>6. ASSUME Die, disk' = disk PROVE Drained'
  BY <1>6 DEF Die, Drained
<1>7. ASSUME NEW t \in Workers, StartFlush(t) PROVE Drained'
  <2>1. t = Timer
    BY <1>7, WhoFlushes DEF StartFlush
  <2>2. Len(wal) \in Nat
    BY LenProperties DEF TimerInv, TypeOK
  <2> QED
    BY <1>1, <1>7, <2>1, <2>2 DEF StartFlush, WalSize, Drained, TmpOf, Active, TypeOK
<1>8. ASSUME NEW t \in Workers, WriteTmp(t) PROVE Drained'
  <2> DEFINE n == [dir |-> dir[t], ms |-> clock, tmp |-> TRUE,
                   events |-> Part(dir[t], batch[t])]
  <2>1. n \in disk' /\ n \in TmpOf(t)'
    BY <1>1, <1>8, PutOnePlace DEF WriteTmp, TmpOf, TypeOK
  <2>2. \A u \in Workers : pc'[u] = "replace" => u = t
    BY <1>1, <1>2, <1>8 DEF WriteTmp, Active, TypeOK
  <2>3. Active(Timer)' = Active(Timer)
    BY <1>1, <1>8 DEF WriteTmp, Active, TypeOK
  <2> QED
    BY <1>8, <2>1, <2>2, <2>3 DEF WriteTmp, Drained
<1>9. ASSUME NEW t \in Workers, Replace(t) PROVE Drained'
  <2>1. \A u \in Workers : pc'[u] # "replace"
    BY <1>1, <1>2, <1>9 DEF Replace, Active, TypeOK
  <2>2. Active(Timer)' = Active(Timer)
    BY <1>1, <1>9 DEF Replace, Active, TypeOK
  <2> QED
    BY <1>9, <2>1, <2>2 DEF Replace, Drained
<1>10. ASSUME NEW t \in Workers
       PROVE  ~ReplaceRaises(t) /\ ~WriteRaises(t) /\ ~TrimRaises(t) /\ ~RestartUnread
  BY DEF ReplaceRaises, WriteRaises, TrimRaises, RestartUnread, Fault, Drained
<1>11. ASSUME NEW t \in Workers, TrimRead(t) PROVE Drained'
  BY <1>1, <1>11 DEF TrimRead, Drained, TmpOf, Active, TypeOK
<1>12. ASSUME NEW t \in Workers, TrimSwap(t) PROVE Drained'
  <2>1. Active(t) /\ pc[t] = "swap"
    BY <1>12 DEF TrimSwap, Active
  <2>2. \A u \in Workers : ~Active(u)'
    BY <1>1, <1>2, <1>12, <2>1 DEF TrimSwap, Finish, Active, TypeOK
  <2>3. ASSUME pending = {} PROVE wal' = <<>>
    <3>1. Len(wal) <= offset[t]
      <4>1. CASE t = Main
        <5>1. Len(wal) \in Nat
          BY LenProperties DEF TimerInv, TypeOK
        <5> QED
          BY <2>1, <4>1, <5>1 DEF TimerInv, PrefixIsBatch
      <4>2. CASE t = Timer
        BY <1>1, <1>2, <2>1, <2>3, <4>2 DEF Drained
      <4> QED
        BY <1>2, <2>1, <4>1, <4>2
    <3> QED
      BY <1>12, <2>1, <3>1, NothingFollows DEF TrimSwap
  <2> QED
    BY <1>1, <1>12, <2>2, <2>3 DEF TrimSwap, Drained, Active
<1>13. CASE Restart
  <2>1. \A u \in Workers : pc'[u] # "replace"
    BY <1>1, <1>13 DEF Restart, TimerInv, OneFlusher, Active, TypeOK, Workers
  <2>2. phase' = "up" => wal' = <<>> /\ ~Active(Timer)'
    BY <1>1, <1>13 DEF Restart, TimerInv, OneFlusher, Active, TypeOK, history
  <2> QED
    BY <2>1, <2>2 DEF Drained
<1> QED
  BY <1>1, <1>3, <1>4, <1>5, <1>6, <1>7, <1>8, <1>9, <1>10, <1>11, <1>12, <1>13
     DEF Next, FlushStep, CrashInAppend, Crash, Die

LEMMA FaultsGrow == TypeOK /\ Next => faults' = faults \/ faults' = faults + 1
BY DEF Next, FlushStep, Tick, InsertBatch, InsertUnlogged, CrashInAppend, Fault,
   Die, Crash, StartFlush, WriteTmp, Replace, ReplaceRaises, WriteRaises,
   FlushRaises, TrimRead, TrimSwap, TrimRaises, Restart, RestartUnread

(* With nothing pending, no flush under way and no error swallowed, the    *)
(* WAL is empty: whatever the crashes, nothing is replayed for ever.       *)
THEOREM WalDrainedByTimer == Spec => []WalDrained
<1>1. Init => DrainInv
  BY InitInv, InitTypeOK, WhoFlushes DEF Init, StoreInv, DrainInv, Drained, Active
<1>2. DrainInv /\ [Next]_vars => DrainInv'
  <2> SUFFICES ASSUME DrainInv, [Next]_vars, TimerOnly', faults' = 0 PROVE Drained'
    BY StepInv DEF DrainInv
  <2>1. CASE Next
    <3>1. TimerOnly /\ \A t \in Admins : ~StartFlush(t)
      BY <2>1, TimerOnlyBefore DEF DrainInv, StoreInv
    <3>2. faults = 0
      BY <2>1, FaultsGrow DEF DrainInv, StoreInv, TypeOK
    <3> QED
      BY <2>1, <3>1, <3>2, StepDrained DEF DrainInv, StoreInv
  <2>2. CASE UNCHANGED vars
    BY <2>2 DEF vars, local, history, DrainInv, Drained, TimerOnly, TmpOf, Active
  <2> QED
    BY <2>1, <2>2
<1>3. DrainInv => WalDrained
  BY WhoFlushes DEF DrainInv, Drained, WalDrained, Active
<1> QED
  BY <1>1, <1>2, <1>3, PTL DEF Spec
=============================================================================
