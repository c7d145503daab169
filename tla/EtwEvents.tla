----------------------------- MODULE EtwEvents -----------------------------
(***************************************************************************)
(* windows-agent/src/etw_provider.cpp between ETW and on_event_: the       *)
(* callback thread parses the records of the trace with the help of two    *)
(* caches and queues the events; the worker adds the parent of a new       *)
(* process from a snapshot and hands them on.  The session itself is in    *)
(* module WinService.                                                      *)
(***************************************************************************)
EXTENDS Integers, Sequences, FiniteSets

CONSTANTS
  Pids, Keys, Names, None,
  Running,       \* the processes that were there before the agent
  UserData,      \* names below Documents, Desktop, ...: USER_DATA_MARKERS
  Ransom,        \* names with an extension of RANSOMWARE_EXT_FALLBACK
  Canary,        \* names of a decoy
  MaxKeys,       \* FILE_KEY_CACHE_MAX: 10000
  MaxPids,       \* PID_TRUST_CACHE_MAX: 2000
  MaxRecords,    \* bound: records of the trace
  MaxTroubles    \* bound: pids, file keys and paths that are given out again,
                 \* losses of records, and ends of the agent's process

ASSUME EtwAssumption ==
  /\ UserData \subseteq Names /\ Ransom \subseteq Names /\ Canary \subseteq Names
  /\ Running \subseteq Pids
  /\ None \notin Names \cup Pids \cup Keys
  /\ MaxKeys \in Nat \ {0} /\ MaxPids \in Nat \ {0}
  /\ MaxRecords \in Nat /\ MaxTroubles \in Nat

VARIABLES
  proc,      \* the processes: parent, and whether their image's file verifies
  born,      \* the pids that were given out
  file,      \* the name of the file behind each key
  had,       \* the names that the file of a key had so far
  trace,     \* records that ETW has not delivered yet
  up,        \* the agent runs
  names,     \* file_key_cache_
  disk,      \* file_key_cache.bin
  trust,     \* pid_trust_cache_
  queue,     \* ppid_queue_
  snapshot,  \* snapshot_map_
  worker,    \* ppid_worker_loop: outside or inside its inner loop
  out,       \* evt of the inner loop, once on_event_ was called with it
  stale,    \* history: keys whose last naming did not reach the cache
  vouched,   \* history: pids that ran a file that verified, in this run of the agent
  records, reuses, losses, restarts

world == <<proc, born, file, had, vouched>>
agent == <<names, disk, trust, queue, snapshot, worker, out>>
bounds == <<records, reuses, losses, restarts>>
vars == <<world, trace, stale, up, agent, bounds>>

Empty == [x \in {} |-> None]

(* A record of the trace.  parent, name, had and blind are what is true    *)
(* when it is written; the record itself carries none of these but, if it  *)
(* is a name record and at times otherwise, the name.                      *)
Record(what, p, k, n, before) ==
  [what |-> what, pid |-> p, key |-> k, name |-> n, had |-> before,
   parent |-> proc[p].parent, blind |-> k \in stale]

Troubles == reuses + losses + restarts

NamesKey(r) == {k \in {r.key} : r.what = "name"}

(* ETW drops records under backpressure, and those that are made while no  *)
(* session is open.                                                        *)
Logs(r) ==
  /\ records < MaxRecords /\ records' = records + 1
  /\ \/ /\ up /\ losses' = losses
        /\ trace' = Append(trace, r) /\ stale' = stale \ NamesKey(r)
     \/ /\ IF up THEN Troubles < MaxTroubles /\ losses' = losses + 1 ELSE losses' = losses
        /\ trace' = trace /\ stale' = stale \cup NamesKey(r)

-----------------------------------------------------------------------------
Verified == {p \in Pids : proc[p] # None /\ proc[p].signed}

Init ==
  /\ proc \in [Pids -> {None} \cup [parent : {None}, signed : BOOLEAN]]
  /\ born = {p \in Pids : proc[p] # None} /\ born = Running /\ vouched = Verified
  /\ file = [k \in Keys |-> None] /\ had = [k \in Keys |-> {}]
  /\ trace = <<>> /\ stale = {} /\ up = TRUE
  /\ names = Empty /\ disk = Empty /\ trust = Empty
  /\ queue = <<>> /\ snapshot = Empty /\ worker = "outside" /\ out = None
  /\ records = 0 /\ reuses = 0 /\ losses = 0 /\ restarts = 0

(* The world: processes start and end, files get keys and names.  A file   *)
(* that was there before the agent is one whose naming was lost.           *)
Again(seen) == /\ reuses' = reuses + (IF seen THEN 1 ELSE 0)
               /\ seen => Troubles < MaxTroubles

(* The record of a start is written by the process or by its creator: the  *)
(* comments of the source leave open whose pid its header carries.         *)
ProcessStarts(p, q, s) ==
  /\ proc[p] = None /\ q \in {None} \cup {x \in Pids : proc[x] # None}
  /\ Again(p \in born) /\ born' = born \cup {p}
  /\ proc' = [proc EXCEPT ![p] = [parent |-> q, signed |-> s]]
  /\ vouched' = vouched \cup {x \in {p} : s}
  /\ \E x \in {p, q} \ {None} :
       Logs([what |-> "start", pid |-> x, key |-> None, name |-> None, had |-> {},
             parent |-> proc'[x].parent, blind |-> FALSE])
  /\ UNCHANGED <<file, had, up, agent, restarts>>

(* Another file is put where the image of a process was.                   *)
ImageReplaced(p) ==
  /\ proc[p] # None /\ Again(TRUE)
  /\ proc' = [proc EXCEPT ![p].signed = ~@]
  /\ vouched' = vouched \cup {x \in {p} : ~proc[p].signed}
  /\ UNCHANGED <<born, file, had, trace, stale, up, agent, records, losses, restarts>>

ProcessEnds(p) ==
  /\ proc[p] # None /\ proc' = [proc EXCEPT ![p] = None]
  /\ UNCHANGED <<born, file, had, vouched, trace, stale, up, agent, bounds>>

(* NameCreate: the file is created, opened once more, or renamed.          *)
FileNamed(p, k, n) ==
  LET before == IF file[k] = None THEN {} ELSE had[k]
  IN /\ proc[p] # None
     /\ Again(file[k] = None /\ had[k] # {})
     /\ file' = [file EXCEPT ![k] = n] /\ had' = [had EXCEPT ![k] = before \cup {n}]
     /\ Logs(Record("name", p, k, n, before))
     /\ UNCHANGED <<proc, born, vouched, up, agent, restarts>>

(* "write" stands for a write or a delete, which give events that differ   *)
(* in their type only; "read" for every other record of a file.            *)
FileUsed(p, k, what) ==
  /\ proc[p] # None /\ file[k] # None
  /\ Logs(Record(what, p, k, file[k], had[k]))
  /\ UNCHANGED <<world, up, agent, reuses, restarts>>

(* A connection, an image load, a thread injected, the end of a process.   *)
OtherRecord(p) ==
  /\ proc[p] # None
  /\ Logs(Record("other", p, None, None, {}))
  /\ UNCHANGED <<world, up, agent, reuses, restarts>>

FileClosed(k) ==
  /\ file[k] # None /\ file' = [file EXCEPT ![k] = None]
  /\ UNCHANGED <<proc, born, had, vouched, trace, stale, up, agent, bounds>>

NamedIn(s) == UNION {NamesKey(s[i]) : i \in DOMAIN s}

(* The session is killed, with what it has not delivered.                  *)
SessionKilled ==
  /\ up /\ trace # <<>> /\ Troubles < MaxTroubles /\ losses' = losses + 1
  /\ trace' = <<>> /\ stale' = stale \cup NamedIn(trace)
  /\ UNCHANGED <<world, up, agent, records, reuses, restarts>>

-----------------------------------------------------------------------------
(* f without the entries gone, and with v for x.                           *)
Updated(f, gone, x, v) ==
  [y \in (DOMAIN f \ gone) \cup {x} |-> IF y = x THEN v ELSE f[y]]

(* Mutant: a new name is put into a cache only for a new key.              *)
KeepsOld(f, max, x, v) ==
  IF x \in DOMAIN f THEN {f}
  ELSE {Updated(f, gone, x, v) :
          gone \in IF Cardinality(DOMAIN f) < max THEN {{}} ELSE {{y} : y \in DOMAIN f}}

(* An entry more in a cache of at most max: erase(begin()) takes any       *)
(* entry, also when the key is there already.                              *)
Cached(f, max, x, v) ==
  {Updated(f, gone, x, v) :
     gone \in IF Cardinality(DOMAIN f) < max THEN {{}} ELSE {{y} : y \in DOMAIN f}}

(* Mutant: whoever asks about a process that is gone is told it is signed. *)
TrustsTheGone(p) ==
  IF p \in DOMAIN trust THEN trust[p] ELSE proc[p] = None \/ proc[p].signed

(* check_process_trust: OpenProcess fails when the process is gone; what   *)
(* is verified is the file that is at the image's path now.                *)
Trusted(p) ==
  IF p \in DOMAIN trust THEN trust[p] ELSE proc[p] # None /\ proc[p].signed

TrustCached(p) ==
  IF p \in DOMAIN trust THEN trust' = trust
  ELSE trust' \in Cached(trust, MaxPids, p, Trusted(p))

(* A ghost_event_t, with the record it was made of.                        *)
Event(what, r, n, critical, trusted) ==
  [what |-> what, event |-> r, name |-> n, critical |-> critical,
   trusted |-> trusted, ppid |-> None]

Enqueue(e) == queue' = Append(queue, e)
EnqueueRated(what, r, n, critical) == Enqueue(Event(what, r, n, critical, Trusted(r.pid)))
Dropped == UNCHANGED <<queue, trust>>

(* dispatch_event: the next record.                                        *)
Delivered ==
  /\ up /\ trace # <<>>
  /\ trace' = Tail(trace)
  /\ UNCHANGED <<world, stale, up, disk, snapshot, worker, out, bounds>>

(* parse_process_event.                                                    *)
ParseStart ==
  /\ Delivered /\ Head(trace).what = "start"
  /\ Enqueue(Event("start", Head(trace), None, FALSE, FALSE))
  /\ UNCHANGED <<names, trust>>

(* Mutant: a name that is seen for the first time counts as new.           *)
DiffersOrNew(k, n) == k \notin DOMAIN names \/ names[k] # n

(* parse_file_event, NameCreate: a rename is a key with another name, or a *)
(* name on the list whatever the key had before.                           *)
IsRename(k, n) == k \in DOMAIN names /\ names[k] # n

ParseName ==
  LET r == Head(trace)
      renamed == IsRename(r.key, r.name)
  IN /\ Delivered /\ r.what = "name"
     /\ names' \in Cached(names, MaxKeys, r.key, r.name)
     /\ IF (renamed \/ r.name \in Ransom) /\ r.name \in UserData
          THEN EnqueueRated("rename", r, r.name, FALSE) /\ TrustCached(r.pid)
          ELSE Dropped

(* parse_file_event, every other record: the name is the cached one, or    *)
(* the one the record's schema may carry.  Whom to trust is asked before   *)
(* the kind of record decides whether there is an event.                   *)
ParseUse ==
  LET r == Head(trace)
  IN /\ Delivered /\ r.what \in {"write", "read"}
     /\ names' = names
     /\ \E own \in {r.name, None} :
          LET n == IF r.key \in DOMAIN names THEN names[r.key] ELSE own
          IN IF n \in UserData \cup Canary
               THEN /\ TrustCached(r.pid)
                    /\ IF r.what # "read" \/ n \in Canary
                         THEN EnqueueRated(r.what, r, n, r.what = "read")
                         ELSE queue' = queue
               ELSE Dropped

(* parse_ti_event, parse_image_load, parse_network_event and the process   *)
(* end: no cache is asked, and the parser may call the event critical.     *)
ParseOther ==
  /\ Delivered /\ Head(trace).what = "other"
  /\ \E critical \in BOOLEAN :
       Enqueue(Event("other", Head(trace), None, critical, FALSE))
  /\ UNCHANGED <<names, trust>>

(* ppid_worker_loop: a refresh at most every two seconds, before the inner *)
(* loop and never inside it; then every event of the queue.                *)
WorkerRefreshes ==
  /\ up /\ worker = "outside"
  /\ snapshot' = [p \in {x \in Pids : proc[x] # None} |-> proc[p].parent]
  /\ UNCHANGED <<world, trace, stale, up, names, disk, trust, queue, worker, out, bounds>>

WorkerEnters ==
  /\ up /\ worker = "outside" /\ queue # <<>> /\ worker' = "inside"
  /\ UNCHANGED <<world, trace, stale, up, names, disk, trust, queue, snapshot, out, bounds>>

(* Mutant: a process that the snapshot lacks is given any parent of it.    *)
AnyParent(p) ==
  IF p \in DOMAIN snapshot THEN snapshot[p]
  ELSE IF DOMAIN snapshot = {} THEN None ELSE CHOOSE q \in DOMAIN snapshot : TRUE

ParentOf(p) == IF p \in DOMAIN snapshot THEN snapshot[p] ELSE None

(* One event: its parent is looked up when it is a start, and the number   *)
(* of the layer, which means "high" there, is written into the priority.   *)
WorkerDelivers ==
  /\ up /\ worker = "inside" /\ queue # <<>>
  /\ queue' = Tail(queue)
  /\ out' = [Head(queue) EXCEPT
               !.ppid = IF Head(queue).what = "start"
                          THEN ParentOf(Head(queue).event.pid) ELSE @,
               !.critical = FALSE]
  /\ UNCHANGED <<world, trace, stale, up, names, disk, trust, snapshot, worker, bounds>>

WorkerLeaves ==
  /\ up /\ worker = "inside" /\ queue = <<>> /\ worker' = "outside" /\ out' = None
  /\ UNCHANGED <<world, trace, stale, up, names, disk, trust, queue, snapshot, bounds>>

(* ~EtwProvider saves the names; a death of the process does not, and one  *)
(* during the save leaves some of them.                                    *)
AgentEnds ==
  /\ up /\ Troubles < MaxTroubles
  /\ up' = FALSE /\ restarts' = restarts + 1
  /\ \/ disk' = disk
     \/ \E saved \in SUBSET DOMAIN names : disk' = [k \in saved |-> names[k]]
  /\ stale' = stale \cup NamedIn(trace) \cup
       {k \in DOMAIN disk' : k \notin DOMAIN names \/ names[k] # disk'[k]}
  /\ trace' = <<>> /\ queue' = <<>> /\ worker' = "outside" /\ out' = None
  /\ names' = Empty /\ trust' = Empty /\ snapshot' = Empty
  /\ UNCHANGED <<world, records, reuses, losses>>

AgentStarts ==
  /\ ~up /\ up' = TRUE /\ names' = disk /\ vouched' = Verified
  /\ UNCHANGED <<proc, born, file, had, trace, stale, disk, trust, queue, snapshot,
                 worker, out, bounds>>

World ==
  \/ \E p \in Pids, q \in Pids \cup {None}, s \in BOOLEAN : ProcessStarts(p, q, s)
  \/ \E p \in Pids : ProcessEnds(p) \/ ImageReplaced(p)
  \/ \E p \in Pids, k \in Keys, n \in Names : FileNamed(p, k, n)
  \/ \E p \in Pids, k \in Keys, what \in {"write", "read"} : FileUsed(p, k, what)
  \/ \E p \in Pids : OtherRecord(p)
  \/ \E k \in Keys : FileClosed(k)
  \/ SessionKilled
Callback == ParseStart \/ ParseName \/ ParseUse \/ ParseOther
Worker == WorkerRefreshes \/ WorkerEnters \/ WorkerDelivers \/ WorkerLeaves

Next == World \/ Callback \/ Worker \/ AgentEnds \/ AgentStarts

Spec == Init /\ [][Next]_vars

-----------------------------------------------------------------------------
Records ==
  [what : {"start", "other"}, pid : Pids, key : {None}, name : {None},
   had : {{}}, parent : Pids \cup {None}, blind : BOOLEAN]
  \cup
  [what : {"name", "write", "read"}, pid : Pids, key : Keys,
   name : Names, had : SUBSET Names, parent : Pids \cup {None}, blind : BOOLEAN]

Events ==
  [what : {"start", "rename", "write", "read", "other"},
   event : Records, name : Names \cup {None}, critical : BOOLEAN,
   trusted : BOOLEAN, ppid : Pids \cup {None}]

IsCache(f, from, to) == DOMAIN f \subseteq from /\ \A x \in DOMAIN f : f[x] \in to

TypeOK ==
  /\ proc \in [Pids -> {None} \cup [parent : Pids \cup {None}, signed : BOOLEAN]]
  /\ born \subseteq Pids /\ up \in BOOLEAN /\ worker \in {"outside", "inside"}
  /\ file \in [Keys -> Names \cup {None}] /\ had \in [Keys -> SUBSET Names]
  /\ stale \subseteq Keys /\ vouched \subseteq Pids
  /\ trace \in Seq(Records) /\ queue \in Seq(Events) /\ out \in Events \cup {None}
  /\ IsCache(names, Keys, Names) /\ IsCache(disk, Keys, Names)
  /\ IsCache(trust, Pids, BOOLEAN) /\ IsCache(snapshot, Pids, Pids \cup {None})
  /\ records \in Nat /\ reuses \in Nat /\ losses \in Nat /\ restarts \in Nat

(* The parent that an event of a start is given is that of the process its *)
(* pid stands for, or none, as long as no pid is given out again: the      *)
(* snapshot may be older or newer than the start, but never another's.     *)
ParentTrue == out # None /\ reuses = 0 /\ out.what = "start" =>
                out.ppid \in {out.event.parent, None}

(* What is reported as renamed, under a name that is not on the list of    *)
(* ransomware extensions, had another name: as long as no key is given out *)
(* again, but whatever was evicted, lost, or loaded after a restart.       *)
RenameTrue == out # None /\ reuses = 0 /\ out.what = "rename" /\ out.name \notin Ransom =>
                out.event.had \ {out.name} # {}

(* A write or delete is reported under the name the file had then, unless  *)
(* the record of its last naming was lost, or came to the cache of an      *)
(* agent that died with it: keys that are given out again, evictions,      *)
(* restarts and other files' losses change no name.                        *)
NameTrue == out # None /\ out.what \in {"write", "read"} /\ ~out.event.blind =>
              out.name = out.event.name

(* A process is called signed only under a pid that ran a file that did    *)
(* verify, since the agent started: a reused pid and a replaced file bring *)
(* an old answer, but an old answer it is.                                 *)
TrustTrue == out # None => (out.trusted => out.event.pid \in vouched)

(* None of these holds of the code when an identifier is reused: nothing   *)
(* removes an entry when its process ends or its file is closed; the last  *)
(* not when a file is replaced either.                                     *)
ReusedParentTrue == out # None /\ out.what = "start" => out.ppid \in {out.event.parent, None}
ReusedRenameTrue == out # None /\ out.what = "rename" /\ out.name \notin Ransom =>
                      out.event.had \ {out.name} # {}
TrustIsCurrent ==
  [][ParseUse /\ queue' # queue /\ queue'[Len(queue')].trusted
       => Head(trace).pid \in Verified]_vars

(* A lost record of a name changes no other record's name: not so.         *)
LossHarmless == out # None /\ out.what \in {"write", "read"} => out.name = out.event.name

(* A rename of a file whose name is in the cache costs no other file its   *)
(* entry.  In the code it does, when the cache is full.                    *)
RenameEvictsNothing ==
  [][ParseName /\ Head(trace).key \in DOMAIN names
       => DOMAIN names \subseteq DOMAIN names']_vars

(* etw_provider.cpp, "a few seconds of staleness is harmless": an event    *)
(* of a process that is still running has its parent.  It has not, since   *)
(* the snapshot is never refreshed between two events of the queue.        *)
ParentKnown == [][WorkerDelivers /\ Head(queue).what = "start"
                    /\ proc[Head(queue).event.pid] # None => out'.ppid = out'.event.parent]_vars

(* What a parser marks as critical (executable memory, an injected thread, *)
(* a touched decoy) reaches on_event_ as critical.  Nothing does.          *)
PriorityKept == [][WorkerDelivers => out'.critical = Head(queue).critical]_vars
=============================================================================
