--------------------------- MODULE PipelineStore ---------------------------
(***************************************************************************)
(* How pipeline/server_v2.py keeps the events it was given: the            *)
(* write-ahead log (hot_buffer.wal), the list _flush_pending, the threads  *)
(* that run force_flush, the Parquet tree they write, process crashes and  *)
(* the replay at start-up (wal_recover).                                   *)
(*                                                                         *)
(* A crash is the death of the process, not of the host: a line passed to  *)
(* write() survives.  Byte offsets of the WAL are counted in chunks: a     *)
(* chunk is the whole line of one event, or Torn, the beginning of a line  *)
(* whose write stopped half way.                                           *)
(***************************************************************************)
EXTENDS Integers, Sequences, FiniteSets, Functions

CONSTANTS
  Events,      \* the events insert_batch may be given, each with its own id
  Alerts,      \* those of type "detection", stored in the alerts/ subtree
  Batches,     \* the lists of events one insert_batch call may receive
  Admins,      \* HTTP worker threads that may be in POST /admin/flush
  Torn,        \* an incomplete line of the WAL
  MaxCrashes,  \* bound: deaths of the process
  MaxFaults    \* bound: I/O errors that the code catches and logs

Timer == "timer"     \* the thread of _flush_loop
Main  == "main"      \* the main thread, while it runs wal_recover
Workers == {Timer, Main} \cup Admins

ASSUME StoreAssumption ==
  /\ Alerts \subseteq Events
  /\ Batches \subseteq Seq(Events) \ {<<>>}
  /\ Torn \notin Events
  /\ Timer \notin Admins /\ Main \notin Admins
  /\ MaxCrashes \in Nat /\ MaxFaults \in Nat

VARIABLES
  wal,        \* the chunks of the file hot_buffer.wal, <<>> if it is absent
  pending,    \* the events of _flush_pending
  disk,       \* the files of the Parquet tree, the .tmp ones included
  clock,      \* the wall-clock millisecond that file names are made of
  phase,      \* "up", "down" (the process is dead) or "recovering"
  lastNamed,  \* the millisecond in the last name chosen by Timer or Main
  pc, batch, dir, ms, offset, rest,  \* the locals of force_flush, per thread
  crashes, faults,                   \* what MaxCrashes and MaxFaults bound
  inserted,   \* history: events handed to insert_batch
  unlogged,   \* history: those whose wal_append failed or was cut by a crash
  glued,      \* history: those whose line was appended to a torn one
  orphaned    \* history: those of a batch whose flush raised

local == <<pc, batch, dir, ms, offset, rest>>
history == <<inserted, unlogged, glued, orphaned>>
vars == <<wal, pending, disk, clock, phase, lastNamed, local, crashes, faults,
          history>>

(* The events json.loads finds in the WAL: a line is whole, and does not   *)
(* begin in the middle of a torn one.                                      *)
Lines(w) ==
  {w[i] : i \in {j \in 1..Len(w) : w[j] # Torn /\ (j = 1 \/ w[j-1] # Torn)}}

Files == {f \in disk : ~f.tmp}
InParquet == UNION {f.events : f \in Files}

(* flush_to_parquet writes the raw events first, the alerts second.        *)
Part(d, b) == IF d = "alerts" THEN b \cap Alerts ELSE b \ Alerts
FirstDir(b) == IF Part("raw", b) # {} THEN "raw" ELSE "alerts"

(* open(path, "w") or os.replace: what was at the path is gone.            *)
Put(files, f) ==
  {g \in files : ~(g.dir = f.dir /\ g.ms = f.ms /\ g.tmp = f.tmp)} \cup {f}

(* wal_trim_to holds _WAL_LOCK from the read of the tail to the replace.   *)
WalLockFree == \A t \in Workers : pc[t] # "swap"

-----------------------------------------------------------------------------
Init ==
  /\ wal = <<>> /\ pending = {} /\ disk = {} /\ clock = 1
  /\ phase = "up" /\ lastNamed = 0
  /\ pc = [t \in Workers |-> "idle"]
  /\ batch = [t \in Workers |-> {}]
  /\ dir = [t \in Workers |-> "raw"]
  /\ ms = [t \in Workers |-> 0]
  /\ offset = [t \in Workers |-> 0]
  /\ rest = [t \in Workers |-> <<>>]
  /\ crashes = 0 /\ faults = 0
  /\ inserted = {} /\ unlogged = {} /\ glued = {} /\ orphaned = {}

Fault == /\ faults < MaxFaults
         /\ faults' = faults + 1

(* Time is seen only through file names: a millisecond in which no file    *)
(* was named need not pass.                                                *)
Tick ==
  /\ \E f \in disk : f.ms = clock
  /\ clock' = clock + 1
  /\ UNCHANGED <<wal, pending, disk, phase, lastNamed, local, crashes, faults,
                 history>>

Fresh(b) == Range(b) \cap inserted = {}

(* The first event of b, if the WAL ends in the middle of a line.          *)
GluedBy(b) == IF wal # <<>> /\ wal[Len(wal)] = Torn THEN {b[1]} ELSE {}

(* insert_batch, under _flush_lock: wal_append, then _flush_pending.extend *)
InsertBatch(b) ==
  /\ phase = "up" /\ Fresh(b) /\ WalLockFree
  /\ wal' = wal \o b
  /\ pending' = pending \cup Range(b)
  /\ inserted' = inserted \cup Range(b)
  /\ glued' = glued \cup GluedBy(b)
  /\ UNCHANGED <<disk, clock, phase, lastNamed, local, crashes, faults,
                 unlogged, orphaned>>

(* A prefix of b reached the file, and perhaps half of the next line.      *)
PartialAppend(b) ==
  \E k \in 0..(Len(b) - 1), tail \in {<<>>, <<Torn>>} :
    /\ wal' = wal \o (SubSeq(b, 1, k) \o tail)
    /\ glued' = glued \cup (IF k = 0 THEN {} ELSE GluedBy(b))

(* wal_append raises and swallows the exception; insert_batch goes on.     *)
InsertUnlogged(b) ==
  /\ phase = "up" /\ Fresh(b) /\ WalLockFree /\ Fault
  /\ PartialAppend(b)
  /\ pending' = pending \cup Range(b)
  /\ inserted' = inserted \cup Range(b)
  /\ unlogged' = unlogged \cup Range(b)
  /\ UNCHANGED <<disk, clock, phase, lastNamed, local, crashes, orphaned>>

-----------------------------------------------------------------------------
(* wal_size.                                                               *)
ShortWalSize == Len(wal) - 1       \* mutant: off by one
WalSize == Len(wal)

(* _flush_loop sleeps a second before each flush, so that the file names   *)
(* the thread chose before are of an earlier millisecond.                  *)
NeverSleeps(t) == TRUE             \* mutant: the loop flushes back to back
Slept(t) == t = Timer => clock > lastNamed

(* force_flush, under _flush_lock: take the batch, note the WAL's size.    *)
StartFlush(t) ==
  /\ phase = "up" /\ t # Main /\ pc[t] = "idle"
  /\ Slept(t)
  /\ pending # {}
  /\ batch' = [batch EXCEPT ![t] = pending]
  /\ dir' = [dir EXCEPT ![t] = FirstDir(pending)]
  /\ offset' = [offset EXCEPT ![t] = WalSize]
  /\ pc' = [pc EXCEPT ![t] = "write"]
  /\ pending' = {}
  /\ UNCHANGED <<wal, disk, clock, phase, lastNamed, ms, rest, crashes, faults,
                 history>>

(* The end of force_flush, or of wal_recover, after which main goes on.    *)
Finish(t) ==
  /\ pc' = [pc EXCEPT ![t] = "idle"]
  /\ phase' = IF t = Main THEN "up" ELSE phase

(* _write_parquet_batch: name the file by the clock, write path + ".tmp".  *)
WriteTmp(t) ==
  /\ pc[t] = "write"
  /\ disk' = Put(disk, [dir |-> dir[t], ms |-> clock, tmp |-> TRUE,
                        events |-> Part(dir[t], batch[t])])
  /\ ms' = [ms EXCEPT ![t] = clock]
  /\ lastNamed' = IF t \in Admins THEN lastNamed ELSE clock
  /\ pc' = [pc EXCEPT ![t] = "replace"]
  /\ UNCHANGED <<wal, pending, clock, phase, batch, dir, offset, rest, crashes,
                 faults, history>>

TmpOf(t) == {f \in disk : f.dir = dir[t] /\ f.ms = ms[t] /\ f.tmp}

(* os.replace, then on to the alerts, or to wal_trim_to.                   *)
Replace(t) ==
  /\ pc[t] = "replace"
  /\ \E f \in TmpOf(t) : disk' = Put(disk \ {f}, [f EXCEPT !.tmp = FALSE])
  /\ IF dir[t] = "raw" /\ Part("alerts", batch[t]) # {}
       THEN /\ pc' = [pc EXCEPT ![t] = "write"]
            /\ dir' = [dir EXCEPT ![t] = "alerts"]
       ELSE /\ pc' = [pc EXCEPT ![t] = "trim"]
            /\ UNCHANGED dir
  /\ UNCHANGED <<wal, pending, clock, phase, lastNamed, batch, ms, offset, rest,
                 crashes, faults, history>>

(* force_flush and wal_recover log the exception and return 0: the batch   *)
(* is not put back into _flush_pending, the WAL is not trimmed.            *)
Requeued(t) == pending \cup batch[t]   \* mutant: put the batch back
PendingAfterRaise(t) == pending

FlushRaises(t) ==
  /\ pending' = PendingAfterRaise(t)
  /\ orphaned' = orphaned \cup (batch[t] \ InParquet)
  /\ Finish(t)
  /\ UNCHANGED <<wal, disk, clock, lastNamed, batch, dir, ms, offset, rest,
                 crashes, inserted, unlogged, glued>>

WriteRaises(t) == pc[t] = "write" /\ Fault /\ FlushRaises(t)

(* Another thread named its file in the same millisecond and took the tmp. *)
ReplaceRaises(t) ==
  /\ pc[t] = "replace" /\ TmpOf(t) = {}
  /\ FlushRaises(t) /\ UNCHANGED faults

(* wal_trim_to reads what follows the offset ...                           *)
NoRemainder(t) == <<>>             \* mutant: the WAL is simply truncated
Remainder(t) == SubSeq(wal, offset[t] + 1, Len(wal))

TrimRead(t) ==
  /\ pc[t] = "trim" /\ WalLockFree
  /\ rest' = [rest EXCEPT ![t] = Remainder(t)]
  /\ pc' = [pc EXCEPT ![t] = "swap"]
  /\ UNCHANGED <<wal, pending, disk, clock, phase, lastNamed, batch, dir, ms,
                 offset, crashes, faults, history>>

(* ... and makes it the WAL, or removes the file if nothing follows.       *)
TrimSwap(t) ==
  /\ pc[t] = "swap"
  /\ wal' = rest[t]
  /\ Finish(t)
  /\ UNCHANGED <<pending, disk, clock, lastNamed, batch, dir, ms, offset, rest,
                 crashes, faults, history>>

TrimRaises(t) ==
  /\ pc[t] \in {"trim", "swap"} /\ Fault
  /\ Finish(t)
  /\ UNCHANGED <<wal, pending, disk, clock, lastNamed, batch, dir, ms, offset,
                 rest, crashes, history>>

-----------------------------------------------------------------------------
Die ==
  /\ phase # "down" /\ crashes < MaxCrashes
  /\ crashes' = crashes + 1
  /\ phase' = "down"
  /\ pending' = {}
  /\ pc' = [t \in Workers |-> "idle"]
  /\ UNCHANGED <<disk, clock, lastNamed, batch, dir, ms, offset, rest, faults>>

Crash == Die /\ UNCHANGED <<wal, history>>

(* The process dies inside wal_append.                                     *)
CrashInAppend(b) ==
  /\ phase = "up" /\ Fresh(b) /\ WalLockFree
  /\ Die
  /\ PartialAppend(b)
  /\ inserted' = inserted \cup Range(b)
  /\ unlogged' = unlogged \cup Range(b)
  /\ UNCHANGED orphaned

(* The events wal_recover replays.                                         *)
NotReplayed == {}                  \* mutant: the WAL is discarded
Replayed == Lines(wal)

(* main: wal_recover reads the WAL and starts to write its events.         *)
Restart ==
  /\ phase = "down"
  /\ clock' = clock + 1
  /\ phase' = IF wal = <<>> THEN "up" ELSE "recovering"
  /\ batch' = [batch EXCEPT ![Main] = Replayed]
  /\ dir' = [dir EXCEPT ![Main] = FirstDir(Replayed)]
  /\ offset' = [offset EXCEPT ![Main] = WalSize]
  /\ pc' = [pc EXCEPT ![Main] = IF wal = <<>> THEN "idle"
                                ELSE IF Replayed = {} THEN "trim" ELSE "write"]
  /\ UNCHANGED <<wal, pending, disk, lastNamed, ms, rest, crashes, faults,
                 history>>

(* wal_recover cannot read the WAL: it returns 0 and main goes on.         *)
RestartUnread ==
  /\ phase = "down" /\ wal # <<>> /\ Fault
  /\ clock' = clock + 1
  /\ phase' = "up"
  /\ orphaned' = orphaned \cup (Lines(wal) \ InParquet)
  /\ UNCHANGED <<wal, pending, disk, lastNamed, local, crashes, inserted,
                 unlogged, glued>>

-----------------------------------------------------------------------------
FlushStep(t) ==
  \/ StartFlush(t) \/ WriteTmp(t) \/ Replace(t) \/ ReplaceRaises(t)
  \/ TrimRead(t) \/ TrimSwap(t)

Next ==
  \/ Tick
  \/ \E b \in Batches : InsertBatch(b) \/ InsertUnlogged(b) \/ CrashInAppend(b)
  \/ \E t \in Workers : FlushStep(t) \/ WriteRaises(t) \/ TrimRaises(t)
  \/ Crash \/ Restart \/ RestartUnread

Spec == Init /\ [][Next]_vars

(* The threads that flush keep running, time passes, and a dead container  *)
(* is restarted (docker-compose.yml: "restart: unless-stopped").  Nothing  *)
(* obliges a sensor to send, or anything to fail.                          *)
Fairness ==
  /\ WF_vars(Tick) /\ WF_vars(Restart)
  /\ \A t \in Workers : WF_vars(FlushStep(t))

FairSpec == Spec /\ Fairness

-----------------------------------------------------------------------------
(* Every variable keeps the shape the code gives it.                       *)
TypeOK ==
  /\ wal \in Seq(Events \cup {Torn})
  /\ pending \subseteq Events
  /\ disk \subseteq [dir : {"raw", "alerts"}, ms : Nat, tmp : BOOLEAN,
                     events : SUBSET Events]
  /\ clock \in Nat /\ lastNamed \in Nat
  /\ phase \in {"up", "down", "recovering"}
  /\ pc \in [Workers -> {"idle", "write", "replace", "trim", "swap"}]
  /\ batch \in [Workers -> SUBSET Events]
  /\ dir \in [Workers -> {"raw", "alerts"}]
  /\ ms \in [Workers -> Nat]
  /\ offset \in [Workers -> Nat]
  /\ rest \in [Workers -> Seq(Events \cup {Torn})]
  /\ crashes \in 0..MaxCrashes /\ faults \in 0..MaxFaults
  /\ inserted \subseteq Events /\ unlogged \subseteq Events
  /\ glued \subseteq Events /\ orphaned \subseteq Events

Excused == unlogged \cup glued \cup orphaned

(* Nobody has called /admin/flush with events pending: an administrator's  *)
(* thread that flushed keeps its batch.                                    *)
TimerOnly == \A a \in Admins : batch[a] = {}

(* As long as nobody has called /admin/flush, an event that insert_batch   *)
(* took can be read back from the WAL or from Parquet at every instant,    *)
(* crashes and restarts included, unless one of three swallowed errors hit *)
(* it: its append failed, its line was glued to a torn one, its flush      *)
(* raised.                                                                 *)
NothingLost ==
  TimerOnly => inserted \ Excused \subseteq Lines(wal) \cup InParquet

(* What the comment over _WAL_LOCK promises of wal_append and force_flush: *)
(* once appended, no crash before the next successful flush loses it.      *)
AcceptedIsDurable ==
  inserted \ (unlogged \cup glued) \subseteq Lines(wal) \cup InParquet

(* Within one run of the process, force_flush stores no event twice, even  *)
(* with several threads in it: only a replay of the WAL may duplicate.     *)
NoDuplicateInOneSession ==
  crashes = 0 =>
    \A f, g \in Files : f # g => f.events \cap g.events = {}

(* When nothing is pending and no flush is under way, wal_trim_to has      *)
(* emptied the WAL: it cannot grow without bound, nor be replayed for      *)
(* events that are stored already, unless an error was swallowed or an     *)
(* administrator's flush collided with the timer's.                        *)
WalDrained ==
  (TimerOnly /\ phase = "up" /\ pending = {} /\ faults = 0
     /\ \A t \in Workers : pc[t] = "idle")
    => wal = <<>>

(* No step of the pipeline removes a stored event: no later batch of the   *)
(* timer, or of a recovery, is given the file name of an earlier one       *)
(* (parquet_path_for_now).                                                 *)
ParquetOnlyGrows == [][TimerOnly => InParquet \subseteq InParquet']_vars

(* Every event that insert_batch took reaches Parquet in the end, through  *)
(* the timer or, after a crash, the replay, unless an error excused it or  *)
(* an administrator's flush interfered.                                    *)
EventuallyStored ==
  \A e \in Events : e \in inserted ~> e \in InParquet \cup Excused \/ ~TimerOnly
=============================================================================
