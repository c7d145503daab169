-------------------------- MODULE PipelineStoreInv --------------------------
(***************************************************************************)
(* The inductive invariant behind PipelineStore!NothingLost: it holds as   *)
(* long as the timer is the only thread that has flushed (TimerOnly).      *)
(***************************************************************************)
EXTENDS PipelineStore

Active(t) == pc[t] # "idle"

(* One thread flushes at a time: main before the process is up, the timer  *)
(* after.                                                                  *)
OneFlusher ==
  /\ phase = "down" => pending = {} /\ ~Active(Timer) /\ ~Active(Main)
  /\ phase = "recovering" => pending = {} /\ ~Active(Timer) /\ Active(Main)
  /\ phase = "up" => ~Active(Main)
  /\ \A a \in Admins : ~Active(a)

(* The name a thread is about to give its file is new, and stays so until  *)
(* os.replace; lastNamed bounds every name in the tree.                    *)
NamesAreNew ==
  /\ lastNamed <= clock
  /\ \A f \in disk : f.ms <= lastNamed
  /\ \A t \in Workers :
       /\ pc[t] = "write" => \A f \in disk : f.dir = dir[t] => f.ms < clock
       /\ pc[t] \in {"write", "replace"} /\ dir[t] = "raw" =>
            \A f \in disk : f.dir = "alerts" => f.ms < clock
       /\ pc[t] = "replace" =>
            /\ \A f \in Files : f.dir = dir[t] => f.ms < ms[t]
            /\ \A f \in TmpOf(t) : f.events = Part(dir[t], batch[t])

(* How much of its batch a thread has stored, by where it is.              *)
BatchStored ==
  \A t \in Workers :
    /\ pc[t] \in {"trim", "swap"} => batch[t] \subseteq InParquet
    /\ pc[t] \in {"write", "replace"} /\ dir[t] = "alerts" =>
         batch[t] \ Alerts \subseteq InParquet

(* The WAL before a thread's offset holds nothing but its batch, events    *)
(* already stored, and excused ones: that is what it may cut off.          *)
PrefixIsBatch ==
  \A t \in Workers : Active(t) =>
    /\ offset[t] <= Len(wal)
    /\ t = Main => offset[t] = Len(wal)
    /\ \A i \in 1..offset[t] :
         wal[i] \in {Torn} \cup Excused \cup batch[t] \cup InParquet
    /\ pc[t] = "swap" => rest[t] = SubSeq(wal, offset[t] + 1, Len(wal))

(* While the process is up, what the WAL holds is known to it, or stored.  *)
WalIsKnown ==
  phase = "up" =>
    \A i \in 1..Len(wal) :
      \/ wal[i] \in {Torn} \cup Excused \cup pending \cup InParquet
      \/ Active(Timer) /\ wal[i] \in batch[Timer]

(* A line that follows a torn one was recorded as glued to it.             *)
TornIsFollowedByGlued ==
  \A i \in 2..Len(wal) :
    wal[i-1] = Torn => wal[i] \in {Torn} \cup glued

(* NothingLost, stated over all lines of the WAL, torn or not.             *)
Kept == inserted \ Excused \subseteq Range(wal) \cup InParquet

TimerInv ==
  /\ TypeOK /\ OneFlusher /\ NamesAreNew /\ BatchStored /\ PrefixIsBatch
  /\ WalIsKnown /\ TornIsFollowedByGlued /\ Kept

StoreInv == TypeOK /\ (TimerOnly => TimerInv)
=============================================================================
