---------------------- MODULE WindowsSensors_proofs ----------------------
(***************************************************************************)
(* Proofs about the Windows agent's sensors.                               *)
(*                                                                         *)
(* EtwEvents: what the ETW provider adds to an event later was true when   *)
(* it happened, under the conditions its properties name, for every number *)
(* of processes and files, every size of the caches, every eviction, every *)
(* lost record and every delay of the trace, the queue and the snapshot.   *)
(*                                                                         *)
(* DivergenceDetector: an event and its twin never wait side by side, and  *)
(* complete reports raise no alert, for every set of processes and         *)
(* contents, any number of facts and any delays that keep their order.     *)
(***************************************************************************)
EXTENDS EtwEvents, DivergenceDetector, SequenceTheorems, WellFoundedInduction,
        NaturalsInduction, TLAPS

-----------------------------------------------------------------------------
(***************************************************************************)
(* EtwEvents.                                                              *)
(***************************************************************************)
(* Whoever is spoken of was started; nobody is spoken of before.  Nothing  *)
(* is recorded or remembered in memory while the agent is away.            *)
Known ==
  /\ \A p \in Pids : proc[p] # None => p \in born
  /\ \A i \in 1..Len(trace) : trace[i].pid \in born
  /\ \A i \in 1..Len(queue) : queue[i].event.pid \in born
  /\ DOMAIN snapshot \subseteq born
  /\ ~up => Len(trace) = 0 /\ Len(queue) = 0 /\ DOMAIN trust = {} /\ out = None

(* What is known of the parent of a process says the same everywhere.      *)
IsParent(p, q) ==
  /\ proc[p] # None => proc[p].parent = q
  /\ p \in DOMAIN snapshot => snapshot[p] = q

ParentsAgree == reuses = 0 =>
  /\ \A i \in 1..Len(trace) : trace[i].what = "start" => IsParent(trace[i].pid, trace[i].parent)
  /\ \A i \in 1..Len(queue) :
       queue[i].what = "start" => IsParent(queue[i].event.pid, queue[i].event.parent)
  /\ \A p \in DOMAIN snapshot : proc[p] # None => snapshot[p] = proc[p].parent

(* Nobody is trusted whose pid did not run a file that verified.           *)
TrustDeserved ==
  /\ \A p \in Pids : proc[p] # None /\ proc[p].signed => p \in vouched
  /\ \A p \in DOMAIN trust : trust[p] => p \in vouched
  /\ \A i \in 1..Len(queue) : queue[i].trusted => queue[i].event.pid \in vouched

(* Every name that is remembered for a key, in memory or on disk, is one   *)
(* that its file had before the records that are still to be delivered.    *)
IsName(r, k) == r.what = "name" /\ r.key = k

RenameWasNamed(e) == e.what = "rename" /\ e.name \notin Ransom => e.event.had \ {e.name} # {}

NamesWereHad == reuses = 0 =>
  /\ \A k \in Keys : /\ k \in DOMAIN names => names[k] \in had[k]
                     /\ k \in DOMAIN disk => disk[k] \in had[k]
  /\ \A i \in 1..Len(trace), k \in Keys : IsName(trace[i], k) =>
       /\ trace[i].name \in had[k]
       /\ k \in DOMAIN names => names[k] \in trace[i].had
  /\ \A i, j \in 1..Len(trace), k \in Keys :
       i < j /\ IsName(trace[i], k) /\ IsName(trace[j], k) => trace[i].name \in trace[j].had
  /\ \A i \in 1..Len(queue) : RenameWasNamed(queue[i])

(* The name that the callback will have for a key when it comes to         *)
(* position j of the trace is the last one delivered before, or the cached *)
(* one: that is the name of the record there, if the record of its last    *)
(* naming was not lost, and at the end of the trace the name of the file.  *)
(* While the agent is away that name is on the disk.                       *)
Uses == {"write", "read"}
IsUse(r, k) == r.what \in Uses /\ r.key = k
IsSeen(r, k) == IsUse(r, k) /\ ~r.blind
LastBefore(i, j, k) ==
  i < j /\ IsName(trace[i], k) /\ \A m \in 1..Len(trace) : i < m /\ m < j => ~IsName(trace[m], k)
NoneBefore(j, k) == \A m \in 1..Len(trace) : m < j => ~IsName(trace[m], k)
UseNamed(e) == e.what \in Uses /\ ~e.event.blind => e.name = e.event.name

AfterName == \A k \in Keys, i, j \in 1..Len(trace) :
  IsSeen(trace[j], k) /\ LastBefore(i, j, k) => trace[j].name = trace[i].name
AfterCache == \A k \in DOMAIN names, j \in 1..Len(trace) :
  IsSeen(trace[j], k) /\ NoneBefore(j, k) => trace[j].name = names[k]
NowName == \A k \in Keys, i \in 1..Len(trace) :
  k \notin stale /\ file[k] # None /\ LastBefore(i, Len(trace) + 1, k)
    => file[k] = trace[i].name
NowCache == \A k \in DOMAIN names :
  k \notin stale /\ file[k] # None /\ NoneBefore(Len(trace) + 1, k) => file[k] = names[k]
NowDisk == ~up => \A k \in DOMAIN disk :
  k \notin stale /\ file[k] # None => file[k] = disk[k]
QueueNamed == \A i \in 1..Len(queue) : UseNamed(queue[i])

NamesAreCurrent == AfterName /\ AfterCache /\ NowName /\ NowCache /\ NowDisk /\ QueueNamed

OutTrue == ParentTrue /\ RenameTrue /\ NameTrue /\ TrustTrue

EtwInv == /\ TypeOK /\ Known /\ ParentsAgree /\ TrustDeserved
          /\ NamesWereHad /\ NamesAreCurrent /\ OutTrue

USE EtwAssumption

-----------------------------------------------------------------------------
(* What one element more or less makes of a sequence.                      *)
LEMMA Longer ==
  ASSUME NEW S, NEW s \in Seq(S), NEW e \in S
  PROVE  /\ Append(s, e) \in Seq(S) /\ Len(Append(s, e)) = Len(s) + 1
         /\ \A i \in 1..(Len(s) + 1) :
              \/ i \in 1..Len(s) /\ Append(s, e)[i] = s[i]
              \/ i = Len(s) + 1 /\ Append(s, e)[i] = e
BY SMT

LEMMA Shorter ==
  ASSUME NEW S, NEW s \in Seq(S), s # <<>>
  PROVE  /\ Tail(s) \in Seq(S) /\ Len(Tail(s)) = Len(s) - 1
         /\ Head(s) = s[1] /\ Head(s) \in S /\ 1 \in 1..Len(s)
         /\ \A i \in 1..(Len(s) - 1) : Tail(s)[i] = s[i + 1] /\ i + 1 \in 1..Len(s)
BY SMT

(* A cache after an entry was added: an eviction only removes.             *)
LEMMA CachedEntries ==
  ASSUME NEW f, NEW max, NEW x, NEW v, NEW g \in Cached(f, max, x, v)
  PROVE  /\ x \in DOMAIN g /\ g[x] = v
         /\ \A y \in DOMAIN g : y # x => y \in DOMAIN f /\ g[y] = f[y]
<1>1. PICK gone : g = Updated(f, gone, x, v)
  BY DEF Cached
<1> QED
  BY <1>1 DEF Updated

LEMMA CacheGrows ==
  ASSUME NEW f, NEW max, NEW from, NEW to, IsCache(f, from, to),
         NEW x \in from, NEW v \in to, NEW g \in Cached(f, max, x, v)
  PROVE  IsCache(g, from, to)
BY CachedEntries DEF IsCache

(* Kinds of records, by what they carry.                                   *)
LEMMA RecordKinds ==
  ASSUME NEW r \in Records
  PROVE  /\ r.pid \in Pids /\ r.parent \in Pids \cup {None}
         /\ r.name \in Names \cup {None} /\ r.had \subseteq Names
         /\ r.what \in {"start", "other"} =>
              r.key = None /\ r.name = None /\ r.key \notin Keys
         /\ r.what \notin {"start", "other"} =>
              r.key \in Keys /\ r.name \in Names
         /\ r.what \in {"start", "name", "write", "read", "other"}
BY DEF Records

-----------------------------------------------------------------------------
(* The trace after a record r was made: a place more, if r was not lost.   *)
Placed(r) ==
  /\ up /\ Len(trace') = Len(trace) + 1 /\ trace'[Len(trace) + 1] = r
  /\ stale' = stale \ NamesKey(r)
Lost(r) == trace' = trace /\ stale' = stale \cup NamesKey(r)
Logged(r) ==
  /\ r \in Records /\ Len(trace) \in Nat
  /\ trace' \in Seq(Records) /\ records' \in Nat /\ losses' \in Nat /\ stale' \subseteq Keys
  /\ Len(trace') \in Len(trace)..(Len(trace) + 1)
  /\ \A i \in 1..Len(trace') :
       \/ i \in 1..Len(trace) /\ trace'[i] = trace[i]
       \/ i = Len(trace) + 1 /\ Len(trace') = Len(trace) + 1 /\ trace'[i] = r
  /\ \A i \in 1..Len(trace) : i \in 1..Len(trace') /\ trace'[i] = trace[i]
  /\ Placed(r) \/ Lost(r)

LEMMA LogsRecord ==
  ASSUME TypeOK, NEW r \in Records, Logs(r)
  PROVE  Logged(r)
<1>1. trace \in Seq(Records) /\ records \in Nat /\ losses \in Nat /\ stale \subseteq Keys
  BY DEF TypeOK
<1>2. records' \in Nat /\ losses' \in Nat
  BY <1>1, SMT DEF Logs
<1>3. NamesKey(r) \subseteq Keys
  BY RecordKinds DEF NamesKey
<1>4. CASE up /\ trace' = Append(trace, r) /\ stale' = stale \ NamesKey(r)
  <2>1. Placed(r)
    BY <1>1, <1>4, Longer DEF Placed
  <2>2. stale' \subseteq Keys
    BY <1>1, <1>4
  <2> QED
    BY <1>1, <1>2, <1>4, <2>1, <2>2, Longer, SMT DEF Logged
<1>5. CASE trace' = trace /\ stale' = stale \cup NamesKey(r)
  <2>1. Lost(r)
    BY <1>5 DEF Lost
  <2>2. stale' \subseteq Keys
    BY <1>1, <1>3, <1>5
  <2> QED
    BY <1>1, <1>2, <1>5, <2>1, <2>2, SMT DEF Logged
<1> QED
  BY <1>4, <1>5 DEF Logs

LEMMA NoNameMissed ==
  ASSUME NEW r, Logged(r), r.what # "name"
  PROVE  stale' = stale
<1>1. NamesKey(r) = {}
  BY DEF NamesKey
<1> QED
  BY <1>1 DEF Logged, Placed, Lost

(* A record of a living process is a record.                               *)
LEMMA RecordTypes ==
  ASSUME TypeOK, NEW p \in Pids, proc[p] # None
  PROVE  /\ \A k \in Keys, n \in Names, h \in SUBSET Names, what \in {"name", "write", "read"} :
              Record(what, p, k, n, h) \in Records
         /\ Record("other", p, None, None, {}) \in Records
<1>1. proc[p] \in [parent : Pids \cup {None}, signed : BOOLEAN]
  BY DEF TypeOK
<1>2. \A k : (k \in stale) \in BOOLEAN
  OBVIOUS
<1> QED
  BY <1>1, <1>2 DEF Record, Records

-----------------------------------------------------------------------------
(* What the callback does with a record r, whichever parser gets it.       *)
Shifted ==
  /\ trace' \in Seq(Records) /\ Len(trace) = Len(trace') + 1 /\ 1 \in 1..Len(trace)
  /\ \A i \in 1..Len(trace') : i + 1 \in 1..Len(trace) /\ trace'[i] = trace[i + 1]

Made(e, r) ==
  /\ e \in Events /\ e.event = r
  /\ e.what = "start" => r.what = "start"
  /\ e.what = "rename" => r.what = "name" /\ e.name = r.name /\
       (IsRename(r.key, r.name) \/ r.name \in Ransom)
  /\ e.what \in Uses => IsUse(r, r.key) /\ r.key \in Keys /\
       e.name = IF r.key \in DOMAIN names THEN names[r.key] ELSE r.name
  /\ e.trusted => Trusted(r.pid)

QueueGrows(r) ==
  /\ queue' \in Seq(Events)
  /\ \A i \in 1..Len(queue') :
       \/ i \in 1..Len(queue) /\ queue'[i] = queue[i]
       \/ Made(queue'[i], r)

TrustGrows(p) ==
  /\ IsCache(trust', Pids, BOOLEAN)
  /\ \A x \in DOMAIN trust' :
       \/ x \in DOMAIN trust /\ trust'[x] = trust[x]
       \/ x = p /\ trust'[x] = Trusted(p)

NamesGrow(r) ==
  /\ IsCache(names', Keys, Names)
  /\ r.what # "name" => names' = names
  /\ r.what = "name" => r.key \in DOMAIN names' /\ names'[r.key] = r.name
  /\ \A k \in DOMAIN names' :
       k # r.key \/ r.what # "name" => k \in DOMAIN names /\ names'[k] = names[k]

Parsed(r) ==
  /\ r = trace[1] /\ r \in Records /\ Shifted
  /\ QueueGrows(r) /\ TrustGrows(r.pid) /\ NamesGrow(r)
  /\ up /\ UNCHANGED <<world, stale, up, disk, snapshot, worker, out, bounds>>

LEMMA DeliveredRecord ==
  ASSUME TypeOK, Delivered
  PROVE  Head(trace) = trace[1] /\ Head(trace) \in Records /\ Shifted
<1>1. trace \in Seq(Records) /\ trace # <<>> /\ trace' = Tail(trace)
  BY DEF TypeOK, Delivered
<1>2. /\ Tail(trace) \in Seq(Records) /\ Len(Tail(trace)) = Len(trace) - 1
      /\ Head(trace) = trace[1] /\ Head(trace) \in Records /\ 1 \in 1..Len(trace)
      /\ \A i \in 1..(Len(trace) - 1) : Tail(trace)[i] = trace[i + 1] /\ i + 1 \in 1..Len(trace)
  BY <1>1, Shorter
<1>3. Len(trace) \in Nat
  BY <1>1
<1> QED
  BY <1>1, <1>2, <1>3, SMT DEF Shifted

LEMMA TrustOfPid ==
  ASSUME TypeOK, NEW p \in Pids
  PROVE  /\ Trusted(p) \in BOOLEAN
         /\ TrustCached(p) => TrustGrows(p)
         /\ trust' = trust => TrustGrows(p)
<1>1. IsCache(trust, Pids, BOOLEAN)
  BY DEF TypeOK
<1>2. Trusted(p) \in BOOLEAN
  <2>1. CASE p \in DOMAIN trust
    BY <1>1, <2>1 DEF Trusted, IsCache
  <2>2. CASE p \notin DOMAIN trust
    BY <2>2 DEF Trusted
  <2> QED
    BY <2>1, <2>2
<1>3. ASSUME trust' = trust PROVE TrustGrows(p)
  BY <1>1, <1>3 DEF TrustGrows
<1>4. ASSUME TrustCached(p), p \notin DOMAIN trust PROVE TrustGrows(p)
  <2>1. trust' \in Cached(trust, MaxPids, p, Trusted(p))
    BY <1>4 DEF TrustCached
  <2>2. IsCache(trust', Pids, BOOLEAN)
    BY <1>1, <1>2, <2>1, CacheGrows
  <2>3. /\ trust'[p] = Trusted(p)
        /\ \A y \in DOMAIN trust' : y # p => y \in DOMAIN trust /\ trust'[y] = trust[y]
    BY <2>1, CachedEntries
  <2> QED
    BY <2>2, <2>3 DEF TrustGrows
<1> QED
  BY <1>2, <1>3, <1>4 DEF TrustCached

LEMMA EnqueuedEvent ==
  ASSUME TypeOK, NEW r, NEW e, Made(e, r), Enqueue(e)
  PROVE  QueueGrows(r)
<1>1. queue \in Seq(Events) /\ e \in Events /\ queue' = Append(queue, e)
  BY DEF TypeOK, Made, Enqueue
<1>2. /\ Append(queue, e) \in Seq(Events) /\ Len(Append(queue, e)) = Len(queue) + 1
      /\ \A i \in 1..(Len(queue) + 1) :
           \/ i \in 1..Len(queue) /\ Append(queue, e)[i] = queue[i]
           \/ i = Len(queue) + 1 /\ Append(queue, e)[i] = e
  BY <1>1, Longer
<1> QED
  BY <1>1, <1>2 DEF QueueGrows

LEMMA NothingEnqueued ==
  ASSUME TypeOK, queue' = queue, NEW r
  PROVE  QueueGrows(r)
<1>1. queue \in Seq(Events)
  BY DEF TypeOK
<1> QED
  BY <1>1 DEF QueueGrows

LEMMA NamesKept ==
  ASSUME TypeOK, names' = names, NEW r, r.what # "name"
  PROVE  NamesGrow(r)
BY DEF NamesGrow, TypeOK

LEMMA StartParsed ==
  ASSUME TypeOK, ParseStart
  PROVE  Parsed(Head(trace))
<1> DEFINE r == Head(trace)
           e == Event("start", r, None, FALSE, FALSE)
<1>1. r = trace[1] /\ r \in Records /\ Shifted
  BY DeliveredRecord DEF ParseStart
<1>2. r.what = "start" /\ r.pid \in Pids
  BY <1>1, RecordKinds DEF ParseStart
<1>3. e \in Events
  BY <1>1 DEF Event, Events
<1>4. Made(e, r)
  BY <1>2, <1>3 DEF Made, Event, Uses
<1>5. QueueGrows(r)
  BY <1>4, EnqueuedEvent DEF ParseStart
<1>6. TrustGrows(r.pid) /\ NamesGrow(r)
  BY <1>2, TrustOfPid, NamesKept DEF ParseStart
<1> QED
  BY <1>1, <1>5, <1>6 DEF Parsed, ParseStart, Delivered

LEMMA OtherParsed ==
  ASSUME TypeOK, ParseOther
  PROVE  Parsed(Head(trace))
<1> DEFINE r == Head(trace)
<1>1. r = trace[1] /\ r \in Records /\ Shifted
  BY DeliveredRecord DEF ParseOther
<1>2. r.what = "other" /\ r.pid \in Pids
  BY <1>1, RecordKinds DEF ParseOther
<1>3. PICK critical \in BOOLEAN : Enqueue(Event("other", r, None, critical, FALSE))
  BY DEF ParseOther
<1> DEFINE e == Event("other", r, None, critical, FALSE)
<1>4. e \in Events
  BY <1>1 DEF Event, Events
<1>5. Made(e, r)
  BY <1>4 DEF Made, Event, Uses
<1>6. QueueGrows(r)
  BY <1>3, <1>5, EnqueuedEvent
<1>7. TrustGrows(r.pid) /\ NamesGrow(r)
  BY <1>2, TrustOfPid, NamesKept DEF ParseOther
<1> QED
  BY <1>1, <1>6, <1>7 DEF Parsed, ParseOther, Delivered

LEMMA NameParsed ==
  ASSUME TypeOK, ParseName
  PROVE  Parsed(Head(trace))
<1> DEFINE r == Head(trace)
           e == Event("rename", r, r.name, FALSE, Trusted(r.pid))
<1>1. r = trace[1] /\ r \in Records /\ Shifted
  BY DeliveredRecord DEF ParseName
<1>2. r.what = "name"
  BY DEF ParseName
<1>3. r.pid \in Pids /\ r.key \in Keys /\ r.name \in Names
  BY <1>1, <1>2, RecordKinds
<1>4. names' \in Cached(names, MaxKeys, r.key, r.name)
  BY DEF ParseName
<1>5. IsCache(names, Keys, Names)
  BY DEF TypeOK
<1>6. NamesGrow(r)
  <2>1. IsCache(names', Keys, Names)
    BY <1>3, <1>4, <1>5, CacheGrows
  <2>2. /\ r.key \in DOMAIN names' /\ names'[r.key] = r.name
        /\ \A y \in DOMAIN names' : y # r.key => y \in DOMAIN names /\ names'[y] = names[y]
    BY <1>4, CachedEntries
  <2> QED
    BY <1>2, <2>1, <2>2 DEF NamesGrow
<1>7. QueueGrows(r) /\ TrustGrows(r.pid)
  <2>1. CASE Enqueue(e) /\ TrustCached(r.pid) /\ (IsRename(r.key, r.name) \/ r.name \in Ransom)
    <3>1. Trusted(r.pid) \in BOOLEAN /\ TrustGrows(r.pid)
      BY <1>3, <2>1, TrustOfPid
    <3>2. e \in Events
      BY <1>1, <1>3, <3>1 DEF Event, Events
    <3>3. Made(e, r)
      BY <1>2, <2>1, <3>2 DEF Made, Event, Uses
    <3> QED
      BY <2>1, <3>1, <3>3, EnqueuedEvent
  <2>2. CASE Dropped
    BY <1>3, <2>2, NothingEnqueued, TrustOfPid DEF Dropped
  <2> QED
    BY <2>1, <2>2 DEF ParseName, EnqueueRated
<1> QED
  BY <1>1, <1>6, <1>7 DEF Parsed, ParseName, Delivered

LEMMA UseParsed ==
  ASSUME TypeOK, ParseUse
  PROVE  Parsed(Head(trace))
<1> DEFINE r == Head(trace)
           n == IF r.key \in DOMAIN names THEN names[r.key] ELSE r.name
           e == Event(r.what, r, n, r.what = "read", Trusted(r.pid))
<1>1. r = trace[1] /\ r \in Records /\ Shifted
  BY DeliveredRecord DEF ParseUse
<1>2. r.what \in Uses
  BY DEF ParseUse, Uses
<1>3. r.pid \in Pids /\ r.key \in Keys /\ r.name \in Names
  BY <1>1, <1>2, RecordKinds DEF Uses
<1>4. NamesGrow(r)
  BY <1>2, NamesKept DEF ParseUse, Uses
<1>5. QueueGrows(r) /\ TrustGrows(r.pid)
  <2>1. CASE Enqueue(e) /\ TrustCached(r.pid)
    <3>1. Trusted(r.pid) \in BOOLEAN /\ TrustGrows(r.pid)
      BY <1>3, <2>1, TrustOfPid
    <3>2. n \in Names
      BY <1>3 DEF TypeOK, IsCache
    <3>3. e \in Events
      BY <1>1, <1>2, <3>1, <3>2 DEF Event, Events, Uses
    <3>4. Made(e, r)
      BY <1>2, <1>3, <3>3 DEF Made, Event, Uses, IsUse
    <3> QED
      BY <2>1, <3>1, <3>4, EnqueuedEvent
  <2>2. CASE Dropped
    BY <1>3, <2>2, NothingEnqueued, TrustOfPid DEF Dropped
  <2>3. CASE queue' = queue /\ TrustCached(r.pid)
    BY <1>3, <2>3, NothingEnqueued, TrustOfPid
  <2>4. PICK own \in {r.name, None} :
          LET m == IF r.key \in DOMAIN names THEN names[r.key] ELSE own
          IN IF m \in UserData \cup Canary
               THEN /\ TrustCached(r.pid)
                    /\ IF r.what # "read" \/ m \in Canary
                         THEN EnqueueRated(r.what, r, m, r.what = "read")
                         ELSE queue' = queue
               ELSE Dropped
    BY DEF ParseUse
  <2>5. ASSUME own = None, r.key \notin DOMAIN names
        PROVE  Dropped
    BY <2>4, <2>5
  <2> HIDE DEF r
  <2> QED
    BY <2>1, <2>2, <2>3, <2>4, <2>5 DEF EnqueueRated
<1> QED
  BY <1>1, <1>4, <1>5 DEF Parsed, ParseUse, Delivered

LEMMA CallbackParses ==
  ASSUME TypeOK, Callback
  PROVE  Parsed(Head(trace))
BY StartParsed, NameParsed, UseParsed, OtherParsed DEF Callback

-----------------------------------------------------------------------------
(* A record that is no name says nothing new of what names a file had.     *)
LEMMA RecordOfNoName ==
  ASSUME TypeOK, NamesWereHad, NEW r, Logged(r), r.what # "name",
         UNCHANGED <<file, had, up, agent, restarts>>, reuses' = 0 => reuses = 0
  PROVE  NamesWereHad'
<1>1. \A i \in 1..Len(trace'), k \in Keys :
        IsName(trace'[i], k) => i \in 1..Len(trace) /\ trace'[i] = trace[i]
  BY DEF IsName, Logged
<1>2. names' = names /\ disk' = disk /\ queue' = queue
  BY DEF agent
<1> QED
  <2> SUFFICES ASSUME reuses' = 0 PROVE NamesWereHad'
    BY DEF NamesWereHad
  <2>1. \A k \in Keys : /\ k \in DOMAIN names' => names'[k] \in had'[k]
                        /\ k \in DOMAIN disk' => disk'[k] \in had'[k]
    BY <1>2 DEF NamesWereHad
  <2>2. \A i \in 1..Len(trace'), k \in Keys : IsName(trace'[i], k) =>
          /\ trace'[i].name \in had'[k]
          /\ k \in DOMAIN names' => names'[k] \in trace'[i].had
    BY <1>1, <1>2 DEF NamesWereHad
  <2>3. \A i, j \in 1..Len(trace'), k \in Keys :
          i < j /\ IsName(trace'[i], k) /\ IsName(trace'[j], k) => trace'[i].name \in trace'[j].had
    BY <1>1 DEF NamesWereHad
  <2>4. \A i \in 1..Len(queue') : RenameWasNamed(queue[i])'
    BY <1>2 DEF NamesWereHad, RenameWasNamed
  <2> QED
    BY <2>1, <2>2, <2>3, <2>4 DEF NamesWereHad, IsName

(* It says nothing new of the current names, either, if it carries the     *)
(* name that the file has, or is made for a key whose naming was lost.     *)
LEMMA RecordKeepsNames ==
  ASSUME TypeOK, NamesAreCurrent, NEW r, Logged(r), r.what # "name",
         \A k \in Keys : IsSeen(r, k) => k \notin stale /\ file[k] # None /\ r.name = file[k],
         UNCHANGED <<file, up, agent>>
  PROVE  NamesAreCurrent'
<1>1. /\ Len(trace) \in Nat
      /\ \A i \in 1..Len(trace') :
           \/ i \in 1..Len(trace) /\ trace'[i] = trace[i]
           \/ i = Len(trace) + 1 /\ trace'[i] = r
      /\ Len(trace') \in Len(trace)..(Len(trace) + 1)
      /\ \A i \in 1..Len(trace) : i \in 1..Len(trace') /\ trace'[i] = trace[i]
  BY DEF Logged
<1>2. /\ names' = names /\ disk' = disk /\ queue' = queue /\ file' = file /\ up' = up
      /\ stale' = stale
  BY NoNameMissed DEF agent
<1>3. \A i \in 1..Len(trace'), k \in Keys :
        IsName(trace'[i], k) => i \in 1..Len(trace) /\ trace'[i] = trace[i]
  BY <1>1 DEF IsName
<1>4. ASSUME NEW i \in 1..Len(trace'), NEW j \in 1..(Len(trace') + 1), NEW k \in Keys,
             LastBefore(i, j, k)'
      PROVE  /\ i \in 1..Len(trace) /\ trace'[i] = trace[i]
             /\ j \in 1..Len(trace) => LastBefore(i, j, k)
             /\ j \notin 1..Len(trace) => LastBefore(i, Len(trace) + 1, k)
  <2>1. i < j /\ IsName(trace'[i], k)
        /\ \A m \in 1..Len(trace') : i < m /\ m < j => ~IsName(trace'[m], k)
    BY <1>4 DEF LastBefore, IsName
  <2>2. i \in 1..Len(trace) /\ trace'[i] = trace[i]
    BY <1>3, <2>1
  <2>3. j \in 1..Len(trace) => LastBefore(i, j, k)
    BY <1>1, <2>1, <2>2 DEF LastBefore
  <2>4. ASSUME j \notin 1..Len(trace) PROVE LastBefore(i, Len(trace) + 1, k)
    <3>1. i < Len(trace) + 1 /\ \A m \in 1..Len(trace) : m < j
      BY <1>1, <2>2, <2>4, SMT
    <3> QED
      BY <1>1, <2>1, <2>2, <3>1 DEF LastBefore
  <2> QED
    BY <2>2, <2>3, <2>4
<1>5. ASSUME NEW j \in 1..(Len(trace') + 1), NEW k \in Keys, NoneBefore(j, k)'
      PROVE  /\ j \in 1..Len(trace) => NoneBefore(j, k)
             /\ j \notin 1..Len(trace) => NoneBefore(Len(trace) + 1, k)
  <2>1. \A m \in 1..Len(trace') : m < j => ~IsName(trace'[m], k)
    BY <1>5 DEF NoneBefore, IsName
  <2>2. j \in 1..Len(trace) => NoneBefore(j, k)
    BY <1>1, <2>1 DEF NoneBefore
  <2>3. ASSUME j \notin 1..Len(trace) PROVE NoneBefore(Len(trace) + 1, k)
    <3>1. \A m \in 1..Len(trace) : m < j
      BY <1>1, <2>3, SMT
    <3> QED
      BY <1>1, <2>1, <3>1 DEF NoneBefore
  <2> QED
    BY <2>2, <2>3
<1>6. \A j \in 1..Len(trace') : j \in 1..(Len(trace') + 1)
      /\ Len(trace') + 1 \in 1..(Len(trace') + 1) /\ Len(trace') + 1 \notin 1..Len(trace)
  BY <1>1, SMT
<1>7. AfterName'
  <2> SUFFICES ASSUME NEW k \in Keys, NEW i \in 1..Len(trace'), NEW j \in 1..Len(trace'),
                      IsSeen(trace'[j], k), LastBefore(i, j, k)'
               PROVE  trace'[j].name = trace'[i].name
    BY DEF AfterName, IsSeen, IsUse
  <2>1. i \in 1..Len(trace) /\ trace'[i] = trace[i]
    BY <1>4, <1>6
  <2>2. CASE j \in 1..Len(trace) /\ trace'[j] = trace[j]
    <3>1. LastBefore(i, j, k)
      BY <1>4, <1>6, <2>2
    <3> QED
      BY <2>1, <2>2, <3>1 DEF NamesAreCurrent, AfterName
  <2>3. CASE j = Len(trace) + 1 /\ trace'[j] = r
    <3>1. LastBefore(i, Len(trace) + 1, k)
      BY <1>1, <1>4, <1>6, <2>3
    <3>2. k \notin stale /\ file[k] # None /\ r.name = file[k]
      BY <2>3
    <3> QED
      BY <2>1, <2>3, <3>1, <3>2 DEF NamesAreCurrent, NowName
  <2> QED
    BY <1>1, <2>2, <2>3
<1>8. AfterCache'
  <2> SUFFICES ASSUME NEW k \in DOMAIN names', NEW j \in 1..Len(trace'),
                      IsSeen(trace'[j], k), NoneBefore(j, k)'
               PROVE  trace'[j].name = names'[k]
    BY DEF AfterCache, IsSeen, IsUse
  <2>1. k \in DOMAIN names /\ names'[k] = names[k] /\ k \in Keys
    BY <1>2 DEF TypeOK, IsCache
  <2>2. CASE j \in 1..Len(trace) /\ trace'[j] = trace[j]
    <3>1. NoneBefore(j, k)
      BY <1>5, <1>6, <2>1, <2>2
    <3> QED
      BY <2>1, <2>2, <3>1 DEF NamesAreCurrent, AfterCache
  <2>3. CASE j = Len(trace) + 1 /\ trace'[j] = r
    <3>1. NoneBefore(Len(trace) + 1, k)
      BY <1>1, <1>5, <1>6, <2>1, <2>3
    <3>2. k \notin stale /\ file[k] # None /\ r.name = file[k]
      BY <2>1, <2>3
    <3> QED
      BY <2>1, <2>3, <3>1, <3>2 DEF NamesAreCurrent, NowCache
  <2> QED
    BY <1>1, <2>2, <2>3
<1>9. NowName'
  <2> SUFFICES ASSUME NEW k \in Keys, NEW i \in 1..Len(trace'), k \notin stale',
                      file'[k] # None, LastBefore(i, Len(trace) + 1, k)'
               PROVE  file'[k] = trace'[i].name
    BY DEF NowName
  <2>1. /\ i \in 1..Len(trace) /\ trace'[i] = trace[i]
        /\ LastBefore(i, Len(trace) + 1, k)
    <3>1. PICK j \in 1..(Len(trace') + 1) : j = Len(trace') + 1
      BY <1>6
    <3>2. LastBefore(i, j, k)' /\ j \notin 1..Len(trace)
      BY <1>6, <3>1 DEF LastBefore, IsName
    <3> QED
      BY <1>4, <3>2
  <2> QED
    BY <1>2, <2>1 DEF NamesAreCurrent, NowName
<1>10. NowCache'
  <2> SUFFICES ASSUME NEW k \in DOMAIN names', k \notin stale', file'[k] # None,
                      NoneBefore(Len(trace) + 1, k)'
               PROVE  file'[k] = names'[k]
    BY DEF NowCache
  <2>1. k \in DOMAIN names /\ names'[k] = names[k] /\ k \in Keys
    BY <1>2 DEF TypeOK, IsCache
  <2>2. NoneBefore(Len(trace) + 1, k)
    <3>1. PICK j \in 1..(Len(trace') + 1) : j = Len(trace') + 1
      BY <1>6
    <3>2. NoneBefore(j, k)'
      BY <3>1 DEF NoneBefore, IsName
    <3>3. j \notin 1..Len(trace)
      BY <1>1, <3>1, SMT
    <3> QED
      BY <1>5, <2>1, <3>2, <3>3
  <2> QED
    BY <1>2, <2>1, <2>2 DEF NamesAreCurrent, NowCache
<1>11. NowDisk' /\ QueueNamed'
  BY <1>2 DEF NamesAreCurrent, NowDisk, QueueNamed, UseNamed
<1> QED
  BY <1>7, <1>8, <1>9, <1>10, <1>11 DEF NamesAreCurrent

-----------------------------------------------------------------------------
(* The steps of the world.                                                 *)
LEMMA StartKeeps ==
  ASSUME EtwInv, NEW p \in Pids, NEW q \in Pids \cup {None}, NEW s \in BOOLEAN,
         ProcessStarts(p, q, s)
  PROVE  EtwInv'
<1>1. /\ TypeOK /\ proc[p] = None /\ Again(p \in born)
      /\ q = None \/ (q \in Pids /\ proc[q] # None)
      /\ born' = born \cup {p}
      /\ proc' = [proc EXCEPT ![p] = [parent |-> q, signed |-> s]]
      /\ vouched' = vouched \cup {x \in {p} : s}
      /\ UNCHANGED <<file, had, up, agent, restarts>>
  BY DEF ProcessStarts, EtwInv
<1>2. PICK x \in {p, q} \ {None} :
        Logs([what |-> "start", pid |-> x, key |-> None, name |-> None, had |-> {},
              parent |-> proc'[x].parent, blind |-> FALSE])
  BY DEF ProcessStarts
<1> DEFINE r == [what |-> "start", pid |-> x, key |-> None, name |-> None, had |-> {},
                 parent |-> proc'[x].parent, blind |-> FALSE]
<1>3. \A y \in Pids : y # p => proc'[y] = proc[y]
  BY <1>1 DEF TypeOK
<1>4. proc'[p].parent = q /\ proc'[p].signed = s
  BY <1>1 DEF TypeOK
<1>5. x \in Pids /\ (x = p \/ (x # p /\ proc[x] # None))
  BY <1>1, EtwAssumption DEF EtwAssumption
<1>6. proc'[x].parent \in Pids \cup {None}
  <2>1. CASE x = p
    BY <1>4, <2>1
  <2>2. CASE x # p /\ proc[x] # None
    BY <1>1, <1>3, <1>5, <2>2 DEF TypeOK
  <2> QED
    BY <1>5, <2>1, <2>2
<1>7. r \in Records
  BY <1>5, <1>6 DEF Records
<1>8. Logged(r)
  BY <1>1, <1>2, <1>7, LogsRecord
<1>9. r.what = "start" /\ r.pid = x /\ r.parent = proc'[x].parent
  OBVIOUS
<1>10. \A k \in Keys : ~IsSeen(r, k)
  BY DEF IsSeen, IsUse, Uses
<1> HIDE DEF r
<1>11. /\ reuses' \in Nat /\ (reuses' = 0 => reuses = 0 /\ p \notin born)
  BY <1>1, SMT DEF Again, TypeOK
<1>12. \A i \in 1..Len(trace') :
        \/ i \in 1..Len(trace) /\ trace'[i] = trace[i]
        \/ trace'[i] = r
  BY <1>8 DEF Logged
<1>13. snapshot' = snapshot /\ trust' = trust /\ queue' = queue /\ out' = out /\ up' = up
  BY <1>1 DEF agent
<1>14. x \in born'
  BY <1>1, <1>5 DEF EtwInv, Known
<1>15. TypeOK'
  <2>1. vouched' \subseteq Pids
    BY <1>1 DEF TypeOK
  <2> QED
    BY <1>1, <1>8, <1>11, <2>1 DEF TypeOK, Logged, agent, IsCache
<1>16. Known'
  <2>1. \A i \in 1..Len(trace') : trace'[i].pid \in born'
    BY <1>1, <1>9, <1>12, <1>14 DEF EtwInv, Known
  <2>2. ~up => Len(trace') = 0
    BY <1>8 DEF EtwInv, Known, Logged, Placed, Lost
  <2>3. \A y \in Pids : proc'[y] # None => y \in born'
    BY <1>1, <1>3 DEF EtwInv, Known
  <2> QED
    BY <1>1, <1>13, <2>1, <2>2, <2>3 DEF EtwInv, Known
<1>17. ParentsAgree'
  <2> SUFFICES ASSUME reuses' = 0 PROVE ParentsAgree'
    BY DEF ParentsAgree
  <2>1. p \notin born /\ reuses = 0 /\ p \notin DOMAIN snapshot
    BY <1>11 DEF EtwInv, Known
  <2>2. \A y \in Pids : \A z : y # p /\ IsParent(y, z) => IsParent(y, z)'
    BY <1>3, <1>13 DEF IsParent
  <2>3. proc'[x].parent = r.parent /\ (x \in DOMAIN snapshot => snapshot[x] = r.parent)
    <3>1. CASE x = p
      BY <1>9, <2>1, <3>1
    <3>2. CASE x # p /\ proc[x] # None
      <4>1. x \in DOMAIN snapshot => snapshot[x] = proc[x].parent
        BY <2>1, <3>2 DEF EtwInv, ParentsAgree
      <4> QED
        BY <1>3, <1>5, <1>9, <3>2, <4>1
    <3> QED
      BY <1>5, <3>1, <3>2
  <2>4. \A i \in 1..Len(trace') :
          trace'[i].what = "start" => IsParent(trace[i].pid, trace[i].parent)'
    <3> SUFFICES ASSUME NEW i \in 1..Len(trace'), trace'[i].what = "start"
                 PROVE  IsParent(trace[i].pid, trace[i].parent)'
      OBVIOUS
    <3>1. CASE trace'[i] = r
      BY <1>9, <1>13, <2>3, <3>1 DEF IsParent
    <3>2. CASE i \in 1..Len(trace) /\ trace'[i] = trace[i]
      <4>1. trace[i].pid \in born /\ trace[i].pid \in Pids /\ trace[i].pid # p
        BY <1>1, <2>1, <3>2, RecordKinds DEF EtwInv, Known, TypeOK
      <4>2. IsParent(trace[i].pid, trace[i].parent)
        BY <2>1, <3>2 DEF EtwInv, ParentsAgree
      <4> QED
        BY <2>2, <3>2, <4>1, <4>2 DEF IsParent
    <3> QED
      BY <1>12, <3>1, <3>2
  <2>5. \A i \in 1..Len(queue') : queue'[i].what = "start" =>
          IsParent(queue[i].event.pid, queue[i].event.parent)'
    <3> SUFFICES ASSUME NEW i \in 1..Len(queue), queue[i].what = "start"
                 PROVE  IsParent(queue[i].event.pid, queue[i].event.parent)'
      BY <1>13
    <3>1. queue[i].event.pid \in born /\ queue[i].event.pid \in Pids
      BY DEF EtwInv, Known, TypeOK
    <3> QED
      BY <1>13, <2>1, <2>2, <3>1 DEF EtwInv, ParentsAgree
  <2>6. \A y \in DOMAIN snapshot' : proc'[y] # None => snapshot'[y] = proc'[y].parent
    BY <1>3, <1>13, <2>1 DEF EtwInv, ParentsAgree, TypeOK, IsCache
  <2> QED
    BY <2>4, <2>5, <2>6 DEF ParentsAgree
<1>18. TrustDeserved'
  <2>1. \A y \in Pids : proc'[y] # None /\ proc'[y].signed => y \in vouched'
    BY <1>1, <1>3, <1>4 DEF EtwInv, TrustDeserved
  <2> QED
    BY <1>1, <1>13, <2>1 DEF EtwInv, TrustDeserved
<1>19. NamesWereHad' /\ NamesAreCurrent'
  <2>1. r.what # "name"
    BY <1>9
  <2>2. NamesWereHad'
    BY <1>1, <1>8, <1>11, <2>1, RecordOfNoName DEF EtwInv
  <2>3. NamesAreCurrent'
    BY <1>1, <1>8, <1>10, <2>1, RecordKeepsNames DEF EtwInv
  <2> QED
    BY <2>2, <2>3
<1>20. OutTrue'
  BY <1>1, <1>11, <1>13 DEF EtwInv, OutTrue, ParentTrue, RenameTrue, NameTrue, TrustTrue
<1> QED
  BY <1>15, <1>16, <1>17, <1>18, <1>19, <1>20 DEF EtwInv

(* The end of a process, an image replaced, a file that is closed: what is *)
(* known of the parents and names of the others stays.                     *)
LEMMA LessKeeps ==
  ASSUME EtwInv, TypeOK',
         \A x \in Pids : proc'[x] # None =>
           /\ proc[x] # None /\ proc'[x].parent = proc[x].parent
           /\ proc'[x].signed => x \in vouched',
         \A k \in Keys : file'[k] = file[k] \/ file'[k] = None,
         vouched \subseteq vouched', reuses' = 0 => reuses = 0,
         UNCHANGED <<born, had, trace, stale, up, agent, restarts>>
  PROVE  EtwInv'
<1>1. /\ names' = names /\ disk' = disk /\ trust' = trust /\ queue' = queue
      /\ snapshot' = snapshot /\ out' = out /\ trace' = trace /\ up' = up /\ stale' = stale
  BY DEF agent
<1>2. Known'
  BY <1>1 DEF EtwInv, Known
<1>3. ParentsAgree'
  <2>1. DOMAIN snapshot \subseteq Pids
    BY DEF EtwInv, TypeOK, IsCache
  <2>2. \A i \in 1..Len(trace) : trace[i].pid \in Pids
    BY RecordKinds DEF EtwInv, TypeOK
  <2>3. \A i \in 1..Len(queue) : queue[i].event.pid \in Pids
    BY DEF EtwInv, Known, TypeOK
  <2>4. \A x \in Pids : \A y : IsParent(x, y) => IsParent(x, y)'
    BY <1>1 DEF IsParent
  <2> SUFFICES ASSUME reuses' = 0 PROVE ParentsAgree'
    BY DEF ParentsAgree
  <2>5. ParentsAgree /\ reuses = 0
    BY DEF EtwInv
  <2>6. \A i \in 1..Len(trace') :
          trace'[i].what = "start" => IsParent(trace[i].pid, trace[i].parent)'
    BY <1>1, <2>2, <2>4, <2>5 DEF ParentsAgree
  <2>7. \A i \in 1..Len(queue') : queue'[i].what = "start" =>
          IsParent(queue[i].event.pid, queue[i].event.parent)'
    BY <1>1, <2>3, <2>4, <2>5 DEF ParentsAgree
  <2>8. \A p \in DOMAIN snapshot' : proc'[p] # None => snapshot'[p] = proc'[p].parent
    BY <1>1, <2>1, <2>5 DEF ParentsAgree
  <2> QED
    BY <2>6, <2>7, <2>8 DEF ParentsAgree
<1>4. TrustDeserved'
  BY <1>1 DEF EtwInv, TrustDeserved
<1>5. NamesWereHad'
  BY <1>1 DEF EtwInv, NamesWereHad, RenameWasNamed, IsName
<1>6. NamesAreCurrent'
  <2>1. DOMAIN names \subseteq Keys /\ DOMAIN disk \subseteq Keys
    BY DEF EtwInv, TypeOK, IsCache
  <2>2. AfterName' /\ AfterCache' /\ QueueNamed'
    BY <1>1 DEF EtwInv, NamesAreCurrent, AfterName, AfterCache, QueueNamed, UseNamed,
                LastBefore, NoneBefore, IsName, IsUse, IsSeen
  <2>3. NowName' /\ NowCache' /\ NowDisk'
    BY <1>1, <2>1 DEF EtwInv, NamesAreCurrent, NowName, NowCache, NowDisk,
                      LastBefore, NoneBefore, IsName
  <2> QED
    BY <2>2, <2>3 DEF NamesAreCurrent
<1>7. OutTrue'
  BY <1>1 DEF EtwInv, OutTrue, ParentTrue, RenameTrue, NameTrue, TrustTrue
<1> QED
  BY <1>2, <1>3, <1>4, <1>5, <1>6, <1>7 DEF EtwInv

LEMMA EndKeeps ==
  ASSUME EtwInv, NEW p \in Pids, ProcessEnds(p)
  PROVE  EtwInv'
<1>1. /\ proc' = [proc EXCEPT ![p] = None] /\ TypeOK
      /\ UNCHANGED <<born, file, had, vouched, trace, stale, up, agent, bounds>>
  BY DEF ProcessEnds, EtwInv
<1>2. TypeOK'
  BY <1>1 DEF TypeOK, agent, bounds, IsCache
<1>3. \A x \in Pids : proc'[x] # None => proc'[x] = proc[x]
  BY <1>1 DEF TypeOK
<1>4. \A x \in Pids : proc[x] # None /\ proc[x].signed => x \in vouched'
  BY <1>1 DEF EtwInv, TrustDeserved
<1> QED
  BY <1>1, <1>2, <1>3, <1>4, LessKeeps DEF bounds

LEMMA ReplaceKeeps ==
  ASSUME EtwInv, NEW p \in Pids, ImageReplaced(p)
  PROVE  EtwInv'
<1>1. /\ proc' = [proc EXCEPT ![p].signed = ~@] /\ TypeOK /\ proc[p] # None /\ Again(TRUE)
      /\ vouched' = vouched \cup {x \in {p} : ~proc[p].signed}
      /\ UNCHANGED <<born, file, had, trace, stale, up, agent, records, losses, restarts>>
  BY DEF ImageReplaced, EtwInv
<1>2. reuses' \in Nat /\ reuses' # 0
  BY <1>1, SMT DEF Again, TypeOK
<1>3. proc[p] \in [parent : Pids \cup {None}, signed : BOOLEAN]
  BY <1>1 DEF TypeOK
<1>4. /\ proc'[p] \in [parent : Pids \cup {None}, signed : BOOLEAN]
      /\ proc'[p].parent = proc[p].parent
      /\ proc'[p].signed = ~proc[p].signed
      /\ \A x \in Pids : x # p => proc'[x] = proc[x]
  BY <1>1, <1>3 DEF TypeOK
<1>5. TypeOK'
  <2>1. proc' \in [Pids -> {None} \cup [parent : Pids \cup {None}, signed : BOOLEAN]]
    BY <1>1, <1>4 DEF TypeOK
  <2>2. vouched' \subseteq Pids
    BY <1>1 DEF TypeOK
  <2> QED
    BY <1>1, <1>2, <2>1, <2>2 DEF TypeOK, agent, IsCache
<1>6. ASSUME NEW x \in Pids, proc'[x] # None
      PROVE  /\ proc[x] # None /\ proc'[x].parent = proc[x].parent
             /\ proc'[x].signed => x \in vouched'
  <2>1. CASE x = p
    BY <1>1, <1>4, <2>1
  <2>2. CASE x # p
    BY <1>1, <1>4, <1>6, <2>2 DEF EtwInv, TrustDeserved
  <2> QED
    BY <2>1, <2>2
<1>7. vouched \subseteq vouched'
  BY <1>1
<1> QED
  BY <1>1, <1>2, <1>5, <1>6, <1>7, LessKeeps

LEMMA CloseKeeps ==
  ASSUME EtwInv, NEW k \in Keys, FileClosed(k)
  PROVE  EtwInv'
<1>1. /\ file' = [file EXCEPT ![k] = None] /\ TypeOK
      /\ UNCHANGED <<proc, born, had, vouched, trace, stale, up, agent, bounds>>
  BY DEF FileClosed, EtwInv
<1>2. TypeOK'
  BY <1>1 DEF TypeOK, agent, bounds, IsCache
<1>3. \A x \in Keys : file'[x] = file[x] \/ file'[x] = None
  BY <1>1 DEF TypeOK
<1>4. \A x \in Pids : proc[x] # None /\ proc[x].signed => x \in vouched'
  BY <1>1 DEF EtwInv, TrustDeserved
<1> QED
  BY <1>1, <1>2, <1>3, <1>4, LessKeeps DEF bounds

(* A record of a living process agrees with what is known of the process.  *)
LEMMA RecordOfLiving ==
  ASSUME EtwInv, NEW r, Logged(r), r.what # "start", proc[r.pid] # None,
         UNCHANGED <<proc, born, vouched, up, agent, restarts>>, reuses' = 0 => reuses = 0
  PROVE  Known' /\ ParentsAgree' /\ TrustDeserved' /\ OutTrue'
<1>1. \A i \in 1..Len(trace') :
        \/ i \in 1..Len(trace) /\ trace'[i] = trace[i]
        \/ trace'[i] = r
  BY DEF Logged
<1>2. /\ trust' = trust /\ queue' = queue /\ snapshot' = snapshot /\ out' = out
  BY DEF agent
<1>3. r.pid \in Pids /\ r.pid \in born
  BY RecordKinds DEF EtwInv, Known, Logged
<1>4. Known'
  <2>1. \A i \in 1..Len(trace') : trace'[i].pid \in born
    BY <1>1, <1>3 DEF EtwInv, Known
  <2>2. ~up => Len(trace') = 0
    BY DEF EtwInv, Known, Logged, Placed, Lost
  <2> QED
    BY <1>2, <2>1, <2>2 DEF EtwInv, Known
<1>5. ParentsAgree'
  BY <1>1, <1>2 DEF EtwInv, ParentsAgree, IsParent
<1>6. TrustDeserved'
  BY <1>2 DEF EtwInv, TrustDeserved
<1>7. OutTrue'
  BY <1>2 DEF EtwInv, OutTrue, ParentTrue, RenameTrue, NameTrue, TrustTrue
<1> QED
  BY <1>4, <1>5, <1>6, <1>7

LEMMA OtherKeeps ==
  ASSUME EtwInv, NEW p \in Pids, OtherRecord(p)
  PROVE  EtwInv'
<1> DEFINE r == Record("other", p, None, None, {})
<1>1. /\ TypeOK /\ proc[p] # None /\ Logs(r)
      /\ UNCHANGED <<world, up, agent, reuses, restarts>>
  BY DEF OtherRecord, EtwInv
<1>2. Logged(r)
  BY <1>1, RecordTypes, LogsRecord
<1>3. r.what = "other" /\ r.pid = p
  BY DEF Record
<1> HIDE DEF r
<1>4. TypeOK'
  BY <1>1, <1>2 DEF TypeOK, Logged, world, agent, IsCache
<1>5. Known' /\ ParentsAgree' /\ TrustDeserved' /\ OutTrue'
  BY <1>1, <1>2, <1>3, RecordOfLiving DEF world
<1>6. \A k \in Keys : ~IsSeen(r, k)
  BY <1>3 DEF IsSeen, IsUse, Uses
<1>7. NamesWereHad'
  BY <1>1, <1>2, <1>3, RecordOfNoName DEF world, EtwInv
<1>8. NamesAreCurrent'
  BY <1>1, <1>2, <1>3, <1>6, RecordKeepsNames DEF world, EtwInv
<1> QED
  BY <1>4, <1>5, <1>7, <1>8 DEF EtwInv

(* A record of a file carries the name that the file has then.             *)
LEMMA UseKeeps ==
  ASSUME EtwInv, NEW p \in Pids, NEW k \in Keys, NEW what \in Uses, FileUsed(p, k, what)
  PROVE  EtwInv'
<1> DEFINE r == Record(what, p, k, file[k], had[k])
<1>1. /\ TypeOK /\ proc[p] # None /\ file[k] # None /\ Logs(r)
      /\ UNCHANGED <<world, up, agent, reuses, restarts>>
  BY DEF FileUsed, EtwInv
<1>2. file[k] \in Names /\ had[k] \in SUBSET Names
  BY <1>1 DEF TypeOK
<1>3. Logged(r)
  BY <1>1, <1>2, RecordTypes, LogsRecord DEF Uses
<1>4. r.what \notin {"start", "name"} /\ r.pid = p /\ r.key = k /\ r.name = file[k]
  BY DEF Record, Uses
<1>5. r.blind = (k \in stale)
  BY DEF Record
<1> HIDE DEF r
<1>6. TypeOK'
  BY <1>1, <1>3 DEF TypeOK, Logged, world, agent, IsCache
<1>7. Known' /\ ParentsAgree' /\ TrustDeserved' /\ OutTrue'
  BY <1>1, <1>3, <1>4, RecordOfLiving DEF world
<1>8. NamesWereHad'
  BY <1>1, <1>3, <1>4, RecordOfNoName DEF world, EtwInv
<1>9. \A x \in Keys : IsSeen(r, x) => x \notin stale /\ file[x] # None /\ r.name = file[x]
  BY <1>1, <1>4, <1>5 DEF IsSeen, IsUse
<1>10. NamesAreCurrent'
  BY <1>1, <1>3, <1>4, <1>9, RecordKeepsNames DEF world, EtwInv
<1> QED
  BY <1>6, <1>7, <1>8, <1>10 DEF EtwInv

(* A name record carries the names that the file had before.               *)
LEMMA NameKeeps ==
  ASSUME EtwInv, NEW p \in Pids, NEW k \in Keys, NEW n \in Names, FileNamed(p, k, n)
  PROVE  EtwInv'
<1> DEFINE before == IF file[k] = None THEN {} ELSE had[k]
           r == Record("name", p, k, n, before)
<1>1. /\ TypeOK /\ proc[p] # None /\ Again(file[k] = None /\ had[k] # {}) /\ Logs(r)
      /\ file' = [file EXCEPT ![k] = n] /\ had' = [had EXCEPT ![k] = before \cup {n}]
      /\ UNCHANGED <<proc, born, vouched, up, agent, restarts>>
  BY DEF FileNamed, EtwInv
<1>2. before \in SUBSET Names
  BY <1>1 DEF TypeOK
<1>3. Logged(r)
  BY <1>1, <1>2, RecordTypes, LogsRecord
<1>4. r.what = "name" /\ r.pid = p /\ r.key = k /\ r.name = n /\ r.had = before
  BY DEF Record
<1>5. /\ reuses' \in Nat /\ (reuses' = 0 => reuses = 0 /\ before = had[k])
  BY <1>1, SMT DEF Again, TypeOK
<1>6. \A x \in Keys : x # k => file'[x] = file[x] /\ had'[x] = had[x]
  BY <1>1 DEF TypeOK
<1>7. file'[k] = n /\ had'[k] = before \cup {n}
  BY <1>1 DEF TypeOK
<1>8. names' = names /\ disk' = disk /\ queue' = queue /\ up' = up
  BY <1>1 DEF agent
<1>9. \A i \in 1..Len(trace') :
        \/ i \in 1..Len(trace) /\ trace'[i] = trace[i]
        \/ i = Len(trace) + 1 /\ trace'[i] = r
  BY <1>3 DEF Logged
<1>10. NamesKey(r) = {k}
  BY <1>4 DEF NamesKey
<1> HIDE DEF r, before
<1>11. TypeOK'
  BY <1>1, <1>2, <1>3, <1>5 DEF TypeOK, Logged, agent, IsCache
<1>12. Known' /\ ParentsAgree' /\ TrustDeserved' /\ OutTrue'
  BY <1>1, <1>3, <1>4, <1>5, RecordOfLiving
<1>13. NamesWereHad'
  <2> SUFFICES ASSUME reuses' = 0 PROVE NamesWereHad'
    BY DEF NamesWereHad
  <2>1. reuses = 0 /\ before = had[k] /\ NamesWereHad
    BY <1>5 DEF EtwInv
  <2>2. \A x \in Keys : had[x] \subseteq had'[x]
    BY <1>6, <1>7, <2>1
  <2>3. \A x \in Keys : /\ x \in DOMAIN names' => names'[x] \in had'[x]
                        /\ x \in DOMAIN disk' => disk'[x] \in had'[x]
    BY <1>8, <2>1, <2>2 DEF NamesWereHad
  <2>4. \A i \in 1..Len(trace'), x \in Keys : IsName(trace'[i], x) =>
          /\ trace'[i].name \in had'[x]
          /\ x \in DOMAIN names' => names'[x] \in trace'[i].had
    <3> SUFFICES ASSUME NEW i \in 1..Len(trace'), NEW x \in Keys, IsName(trace'[i], x)
                 PROVE  /\ trace'[i].name \in had'[x]
                        /\ x \in DOMAIN names => names[x] \in trace'[i].had
      BY <1>8
    <3>1. CASE i \in 1..Len(trace) /\ trace'[i] = trace[i]
      BY <2>1, <2>2, <3>1 DEF NamesWereHad
    <3>2. CASE i = Len(trace) + 1 /\ trace'[i] = r
      <4>1. x = k
        BY <1>4, <3>2 DEF IsName
      <4> QED
        BY <1>4, <1>7, <2>1, <3>2, <4>1 DEF NamesWereHad
    <3> QED
      BY <1>9, <3>1, <3>2
  <2>5. \A i, j \in 1..Len(trace'), x \in Keys :
          i < j /\ IsName(trace'[i], x) /\ IsName(trace'[j], x) => trace'[i].name \in trace'[j].had
    <3> SUFFICES ASSUME NEW i \in 1..Len(trace'), NEW j \in 1..Len(trace'), NEW x \in Keys,
                        i < j, IsName(trace'[i], x), IsName(trace'[j], x)
                 PROVE  trace'[i].name \in trace'[j].had
      OBVIOUS
    <3>1. i \in 1..Len(trace) /\ trace'[i] = trace[i]
      BY <1>1, <1>9 DEF TypeOK
    <3>2. CASE j \in 1..Len(trace) /\ trace'[j] = trace[j]
      BY <2>1, <3>1, <3>2 DEF NamesWereHad
    <3>3. CASE j = Len(trace) + 1 /\ trace'[j] = r
      <4>1. x = k
        BY <1>4, <3>3 DEF IsName
      <4> QED
        BY <1>4, <2>1, <3>1, <3>3, <4>1 DEF NamesWereHad
    <3> QED
      BY <1>9, <3>2, <3>3
  <2>6. \A i \in 1..Len(queue') : RenameWasNamed(queue[i])'
    BY <1>8, <2>1 DEF NamesWereHad, RenameWasNamed
  <2> QED
    BY <2>3, <2>4, <2>5, <2>6 DEF NamesWereHad, IsName
<1>14. NamesAreCurrent'
  <2>1. /\ NamesAreCurrent /\ Len(trace) \in Nat
        /\ \A i \in 1..Len(trace) : i \in 1..Len(trace') /\ trace'[i] = trace[i]
        /\ Len(trace') \in Len(trace)..(Len(trace) + 1)
    BY <1>3 DEF Logged, EtwInv
  <2>2. \A j \in 1..Len(trace'), x \in Keys :
          IsSeen(trace'[j], x) => j \in 1..Len(trace) /\ trace'[j] = trace[j]
    BY <1>4, <1>9 DEF IsSeen, IsUse, Uses
  <2>3. ASSUME NEW i \in 1..Len(trace), NEW j \in 1..(Len(trace) + 1), NEW x, LastBefore(i, j, x)'
        PROVE  LastBefore(i, j, x)
    BY <2>1, <2>3 DEF LastBefore, IsName
  <2>4. ASSUME NEW j \in 1..(Len(trace) + 1), NEW x, NoneBefore(j, x)'
        PROVE  NoneBefore(j, x)
    BY <2>1, <2>4 DEF NoneBefore, IsName
  <2>5. AfterName'
    <3> SUFFICES ASSUME NEW x \in Keys, NEW i \in 1..Len(trace'), NEW j \in 1..Len(trace'),
                        IsSeen(trace'[j], x), LastBefore(i, j, x)'
                 PROVE  trace'[j].name = trace'[i].name
      BY DEF AfterName, IsSeen, IsUse
    <3>1. j \in 1..Len(trace) /\ trace'[j] = trace[j] /\ j \in 1..(Len(trace) + 1)
      BY <2>1, <2>2
    <3>2. i < j
      BY DEF LastBefore
    <3>3. i \in 1..Len(trace) /\ trace'[i] = trace[i]
      BY <1>9, <2>1, <3>1, <3>2
    <3>4. LastBefore(i, j, x)
      BY <2>3, <3>1, <3>3
    <3> QED
      BY <2>1, <3>1, <3>3, <3>4 DEF NamesAreCurrent, AfterName
  <2>6. AfterCache'
    <3> SUFFICES ASSUME NEW x \in DOMAIN names', NEW j \in 1..Len(trace'),
                        IsSeen(trace'[j], x), NoneBefore(j, x)'
                 PROVE  trace'[j].name = names'[x]
      BY DEF AfterCache, IsSeen, IsUse
    <3>1. x \in Keys /\ x \in DOMAIN names /\ names'[x] = names[x]
      BY <1>1, <1>8 DEF TypeOK, IsCache
    <3>2. j \in 1..Len(trace) /\ trace'[j] = trace[j] /\ j \in 1..(Len(trace) + 1)
      BY <2>1, <2>2, <3>1
    <3>3. NoneBefore(j, x)
      BY <2>4, <3>2
    <3> QED
      BY <2>1, <3>1, <3>2, <3>3 DEF NamesAreCurrent, AfterCache
  <2>7. ASSUME NEW x \in Keys, x \notin stale', x # k
        PROVE  /\ x \notin stale
               /\ \A i \in 1..Len(trace') : LastBefore(i, Len(trace) + 1, x)' =>
                    /\ i \in 1..Len(trace) /\ trace'[i] = trace[i]
                    /\ LastBefore(i, Len(trace) + 1, x)
               /\ NoneBefore(Len(trace) + 1, x)' => NoneBefore(Len(trace) + 1, x)
    <3>1. x \notin stale
      BY <1>3, <1>10, <2>7 DEF Logged, Placed, Lost
    <3>2. ASSUME NEW i \in 1..Len(trace'), LastBefore(i, Len(trace) + 1, x)'
          PROVE  /\ i \in 1..Len(trace) /\ trace'[i] = trace[i]
                 /\ LastBefore(i, Len(trace) + 1, x)
      <4>1. i \in 1..Len(trace) /\ trace'[i] = trace[i]
        BY <1>4, <1>9, <2>7, <3>2 DEF LastBefore, IsName
      <4>2. i < Len(trace) + 1
        BY <2>1, <4>1
      <4>3. \A m \in 1..Len(trace) : m < Len(trace') + 1
        BY <2>1
      <4> QED
        BY <2>1, <3>2, <4>1, <4>2, <4>3 DEF LastBefore, IsName
    <3>3. ASSUME NoneBefore(Len(trace) + 1, x)' PROVE NoneBefore(Len(trace) + 1, x)
      <4>1. \A m \in 1..Len(trace) : m < Len(trace') + 1
        BY <2>1
      <4> QED
        BY <2>1, <3>3, <4>1 DEF NoneBefore, IsName
    <3> QED
      BY <3>1, <3>2, <3>3
  <2>8. ASSUME k \notin stale'
        PROVE  /\ Len(trace') = Len(trace) + 1 /\ trace'[Len(trace) + 1] = r
               /\ up /\ Len(trace) + 1 \in 1..Len(trace') /\ IsName(r, k)
    <3>1. Placed(r)
      BY <1>3, <1>10, <2>8 DEF Logged, Lost
    <3> QED
      BY <1>4, <2>1, <3>1 DEF Placed, IsName
  <2>9. NowName'
    <3> SUFFICES ASSUME NEW x \in Keys, NEW i \in 1..Len(trace'), x \notin stale',
                        file'[x] # None, LastBefore(i, Len(trace) + 1, x)'
                 PROVE  file'[x] = trace'[i].name
      BY DEF NowName
    <3>1. CASE x = k
      <4>1. ~(i < Len(trace) + 1)
        BY <2>1, <2>8, <3>1 DEF LastBefore, IsName
      <4>2. i = Len(trace) + 1
        BY <2>1, <2>8, <3>1, <4>1
      <4> QED
        BY <1>4, <1>7, <2>8, <3>1, <4>2
    <3>2. CASE x # k
      <4>1. /\ i \in 1..Len(trace) /\ trace'[i] = trace[i]
            /\ LastBefore(i, Len(trace) + 1, x) /\ x \notin stale
        BY <2>7, <3>2
      <4> QED
        BY <1>6, <2>1, <3>2, <4>1 DEF NamesAreCurrent, NowName
    <3> QED
      BY <3>1, <3>2
  <2>10. NowCache'
    <3> SUFFICES ASSUME NEW x \in DOMAIN names', x \notin stale', file'[x] # None,
                        NoneBefore(Len(trace) + 1, x)'
                 PROVE  file'[x] = names'[x]
      BY DEF NowCache
    <3>1. x \in Keys /\ x \in DOMAIN names /\ names'[x] = names[x]
      BY <1>1, <1>8 DEF TypeOK, IsCache
    <3>2. x # k
      <4> SUFFICES ASSUME x = k PROVE FALSE
        OBVIOUS
      <4>1. Len(trace) + 1 < Len(trace') + 1
        BY <2>1, <2>8
      <4> QED
        BY <2>8, <4>1 DEF NoneBefore, IsName
    <3>3. NoneBefore(Len(trace) + 1, x) /\ x \notin stale
      BY <2>7, <3>1, <3>2
    <3> QED
      BY <1>6, <2>1, <3>1, <3>2, <3>3 DEF NamesAreCurrent, NowCache
  <2>11. NowDisk'
    <3> SUFFICES ASSUME ~up, NEW x \in DOMAIN disk, x \notin stale', file'[x] # None
                 PROVE  file'[x] = disk[x]
      BY <1>8 DEF NowDisk
    <3>1. x \in Keys
      BY <1>1 DEF TypeOK, IsCache
    <3>2. x # k
      BY <2>8
    <3>3. x \notin stale
      BY <2>7, <3>1, <3>2
    <3> QED
      BY <1>6, <2>1, <3>1, <3>2, <3>3 DEF NamesAreCurrent, NowDisk
  <2>12. QueueNamed'
    BY <1>8, <2>1 DEF NamesAreCurrent, QueueNamed, UseNamed
  <2> QED
    BY <2>5, <2>6, <2>9, <2>10, <2>11, <2>12 DEF NamesAreCurrent
<1> QED
  BY <1>11, <1>12, <1>13, <1>14 DEF EtwInv

(* Records that are lost with the session say nothing any more.            *)
LEMMA NamedInSeq ==
  ASSUME NEW s \in Seq(Records), NEW i \in 1..Len(s), NEW k, IsName(s[i], k)
  PROVE  k \in NamedIn(s)
<1>1. k \in NamesKey(s[i]) /\ i \in DOMAIN s
  BY DEF IsName, NamesKey
<1> QED
  BY <1>1 DEF NamedIn

LEMMA NamedInKeys ==
  ASSUME NEW s \in Seq(Records)
  PROVE  NamedIn(s) \subseteq Keys
<1> SUFFICES ASSUME NEW i \in 1..Len(s) PROVE NamesKey(s[i]) \subseteq Keys
  BY DEF NamedIn
<1> QED
  BY RecordKinds DEF NamesKey

(* What the cache has for a key whose naming was not lost is right when    *)
(* nothing is left to be delivered.                                        *)
LEMMA CacheIsRight ==
  ASSUME TypeOK, NamesAreCurrent, NEW k \in DOMAIN names,
         k \notin stale, k \notin NamedIn(trace), file[k] # None
  PROVE  file[k] = names[k]
<1>1. \A m \in 1..Len(trace) : ~IsName(trace[m], k)
  BY NamedInSeq DEF TypeOK
<1>2. NoneBefore(Len(trace) + 1, k)
  BY <1>1 DEF NoneBefore
<1> QED
  BY <1>2 DEF NamesAreCurrent, NowCache

LEMMA KilledKeeps ==
  ASSUME EtwInv, SessionKilled
  PROVE  EtwInv'
<1>1. /\ TypeOK /\ up /\ trace' = <<>> /\ stale' = stale \cup NamedIn(trace)
      /\ losses' = losses + 1
      /\ UNCHANGED <<world, up, agent, records, reuses, restarts>>
  BY DEF SessionKilled, EtwInv
<1>2. Len(trace') = 0 /\ trace' \in Seq(Records)
  BY <1>1
<1>3. trace \in Seq(Records) /\ stale' \subseteq Keys
  BY <1>1, NamedInKeys DEF TypeOK
<1>4. /\ names' = names /\ disk' = disk /\ queue' = queue /\ out' = out /\ trust' = trust
      /\ snapshot' = snapshot /\ file' = file /\ proc' = proc /\ had' = had
  BY <1>1 DEF agent, world
<1>5. TypeOK'
  BY <1>1, <1>2, <1>3, SMT DEF TypeOK, world, agent, IsCache
<1>6. \A i : i \notin 1..Len(trace')
  BY <1>2, SMT
<1>7. Known' /\ TrustDeserved'
  BY <1>1, <1>4, <1>6 DEF EtwInv, Known, TrustDeserved, world
<1>8. ParentsAgree'
  BY <1>1, <1>4, <1>6 DEF EtwInv, ParentsAgree, IsParent
<1>9. NamesWereHad'
  BY <1>1, <1>4, <1>6 DEF EtwInv, NamesWereHad, RenameWasNamed, IsName
<1>10. NamesAreCurrent'
  <2>1. NamesAreCurrent
    BY DEF EtwInv
  <2>2. AfterName' /\ AfterCache' /\ NowName'
    BY <1>6 DEF AfterName, AfterCache, NowName
  <2>3. NowCache'
    <3> SUFFICES ASSUME NEW k \in DOMAIN names, k \notin stale', file[k] # None
                 PROVE  file[k] = names[k]
      BY <1>4 DEF NowCache
    <3>1. k \notin stale /\ k \notin NamedIn(trace)
      BY <1>1
    <3> QED
      BY <1>1, <2>1, <3>1, CacheIsRight
  <2>4. NowDisk' /\ QueueNamed'
    BY <1>1, <1>4, <2>1 DEF NamesAreCurrent, NowDisk, QueueNamed, UseNamed
  <2> QED
    BY <2>2, <2>3, <2>4 DEF NamesAreCurrent
<1>11. OutTrue'
  BY <1>1, <1>4 DEF EtwInv, OutTrue, ParentTrue, RenameTrue, NameTrue, TrustTrue, world
<1> QED
  BY <1>5, <1>7, <1>8, <1>9, <1>10, <1>11 DEF EtwInv

-----------------------------------------------------------------------------
(* The callback takes the first record of the trace.                       *)
LEMMA ParsedTypes ==
  ASSUME EtwInv, NEW r, Parsed(r)
  PROVE  TypeOK' /\ Known' /\ OutTrue'
<1>1. TypeOK /\ r \in Records /\ r.pid \in Pids
  BY RecordKinds DEF EtwInv, Parsed
<1>2. TypeOK'
  BY <1>1 DEF Parsed, TypeOK, Shifted, QueueGrows, TrustGrows, NamesGrow, world, bounds, IsCache
<1>3. r.pid \in born
  BY DEF EtwInv, Known, Parsed, Shifted
<1>4. Known'
  <2>1. \A i \in 1..Len(trace') : trace'[i].pid \in born'
    BY DEF Parsed, Shifted, EtwInv, Known, world
  <2>2. \A i \in 1..Len(queue') : queue'[i].event.pid \in born'
    BY <1>3 DEF Parsed, QueueGrows, Made, EtwInv, Known, world
  <2> QED
    BY <2>1, <2>2 DEF Parsed, EtwInv, Known, world
<1>5. OutTrue'
  BY DEF Parsed, EtwInv, OutTrue, ParentTrue, RenameTrue, NameTrue, TrustTrue, world, bounds
<1> QED
  BY <1>2, <1>4, <1>5

LEMMA ParsedParents ==
  ASSUME EtwInv, NEW r, Parsed(r)
  PROVE  ParentsAgree'
<1>1. /\ proc' = proc /\ snapshot' = snapshot /\ reuses' = reuses
      /\ r = trace[1] /\ 1 \in 1..Len(trace)
  BY DEF Parsed, world, bounds, Shifted
<1>2. ParentsAgree
  BY DEF EtwInv
<1> SUFFICES ASSUME reuses' = 0 PROVE ParentsAgree'
  BY DEF ParentsAgree
<1>3. \A x, y : IsParent(x, y) => IsParent(x, y)'
  BY <1>1 DEF IsParent
<1>4. \A i \in 1..Len(trace') :
        trace'[i].what = "start" => IsParent(trace'[i].pid, trace'[i].parent)
  BY <1>1, <1>2 DEF Parsed, Shifted, ParentsAgree
<1>5. \A i \in 1..Len(queue') : queue'[i].what = "start" =>
        IsParent(queue'[i].event.pid, queue'[i].event.parent)
  BY <1>1, <1>2 DEF Parsed, QueueGrows, Made, ParentsAgree
<1>6. \A i \in 1..Len(trace') :
        trace'[i].what = "start" => IsParent(trace[i].pid, trace[i].parent)'
  BY <1>1, <1>4 DEF IsParent
<1>7. \A i \in 1..Len(queue') : queue'[i].what = "start" =>
        IsParent(queue[i].event.pid, queue[i].event.parent)'
  BY <1>1, <1>5 DEF IsParent
<1> QED
  BY <1>1, <1>2, <1>6, <1>7 DEF ParentsAgree

LEMMA ParsedTrust ==
  ASSUME EtwInv, NEW r, Parsed(r)
  PROVE  TrustDeserved'
<1>1. /\ proc' = proc /\ vouched' = vouched /\ r.pid \in Pids
      /\ QueueGrows(r) /\ TrustGrows(r.pid)
  BY RecordKinds DEF Parsed, world
<1>2. TrustDeserved
  BY DEF EtwInv
<1>3. Trusted(r.pid) => r.pid \in vouched
  BY <1>1, <1>2 DEF TrustDeserved, Trusted
<1>4. \A i \in 1..Len(queue') : queue'[i].trusted => queue'[i].event.pid \in vouched
  BY <1>1, <1>2, <1>3 DEF QueueGrows, Made, TrustDeserved
<1>5. \A p \in DOMAIN trust' : trust'[p] => p \in vouched
  BY <1>1, <1>2, <1>3 DEF TrustGrows, TrustDeserved
<1> QED
  BY <1>1, <1>2, <1>4, <1>5 DEF TrustDeserved

LEMMA ParsedNames ==
  ASSUME EtwInv, NEW r, Parsed(r)
  PROVE  NamesWereHad'
<1>1. /\ had' = had /\ disk' = disk /\ reuses' = reuses
      /\ r = trace[1] /\ 1 \in 1..Len(trace) /\ Shifted /\ NamesGrow(r) /\ QueueGrows(r)
  BY DEF Parsed, world, bounds, Shifted
<1>2. NamesWereHad
  BY DEF EtwInv
<1> SUFFICES ASSUME reuses' = 0 PROVE NamesWereHad'
  BY DEF NamesWereHad
<1>3. r.what = "name" => r.key \in Keys /\ IsName(r, r.key)
  BY RecordKinds DEF Parsed, IsName
<1>4. \A i \in 1..Len(trace') : i + 1 \in 1..Len(trace) /\ trace'[i] = trace[i + 1] /\ 1 < i + 1
  BY <1>1, SMT DEF Shifted
<1>5. \A k \in Keys : k \in DOMAIN names' =>
        \/ r.what = "name" /\ k = r.key /\ names'[k] = r.name
        \/ k \in DOMAIN names /\ names'[k] = names[k]
  BY <1>1 DEF NamesGrow
<1>6. \A k \in Keys : /\ k \in DOMAIN names' => names'[k] \in had'[k]
                      /\ k \in DOMAIN disk' => disk'[k] \in had'[k]
  BY <1>1, <1>2, <1>3, <1>5 DEF NamesWereHad
<1>7. \A i \in 1..Len(trace'), k \in Keys : IsName(trace'[i], k) =>
        /\ trace'[i].name \in had'[k]
        /\ k \in DOMAIN names' => names'[k] \in trace'[i].had
  <2> SUFFICES ASSUME NEW i \in 1..Len(trace'), NEW k \in Keys, IsName(trace'[i], k)
               PROVE  /\ trace'[i].name \in had[k]
                      /\ k \in DOMAIN names' => names'[k] \in trace'[i].had
    BY <1>1
  <2>1. i + 1 \in 1..Len(trace) /\ trace'[i] = trace[i + 1] /\ IsName(trace[i + 1], k)
    BY <1>4
  <2>2. trace'[i].name \in had[k] /\ (k \in DOMAIN names => names[k] \in trace'[i].had)
    BY <1>1, <1>2, <2>1 DEF NamesWereHad
  <2>3. ASSUME r.what = "name", k = r.key PROVE r.name \in trace'[i].had
    BY <1>1, <1>2, <1>3, <1>4, <2>1, <2>3 DEF NamesWereHad
  <2> QED
    BY <1>5, <2>2, <2>3
<1>8. \A i, j \in 1..Len(trace'), k \in Keys :
        i < j /\ IsName(trace'[i], k) /\ IsName(trace'[j], k) => trace'[i].name \in trace'[j].had
  <2> SUFFICES ASSUME NEW i \in 1..Len(trace'), NEW j \in 1..Len(trace'), NEW k \in Keys,
                      i < j, IsName(trace'[i], k), IsName(trace'[j], k)
               PROVE  trace'[i].name \in trace'[j].had
    OBVIOUS
  <2>1. i + 1 < j + 1
    BY SMT
  <2> QED
    BY <1>1, <1>2, <1>4, <2>1 DEF NamesWereHad
<1>9. \A i \in 1..Len(queue') : RenameWasNamed(queue'[i])
  <2> SUFFICES ASSUME NEW i \in 1..Len(queue') PROVE RenameWasNamed(queue'[i])
    OBVIOUS
  <2>1. CASE i \in 1..Len(queue) /\ queue'[i] = queue[i]
    BY <1>1, <1>2, <2>1 DEF NamesWereHad
  <2>2. CASE Made(queue'[i], r)
    <3> SUFFICES ASSUME queue'[i].what = "rename", queue'[i].name \notin Ransom
                 PROVE  queue'[i].event.had \ {queue'[i].name} # {}
      BY DEF RenameWasNamed
    <3>1. /\ r.what = "name" /\ queue'[i].event = r /\ queue'[i].name = r.name
          /\ r.key \in DOMAIN names /\ names[r.key] # r.name
      BY <2>2 DEF Made, IsRename
    <3>2. r.key \in Keys /\ IsName(r, r.key)
      BY <1>3, <3>1
    <3>3. names[r.key] \in r.had
      BY <1>1, <1>2, <3>1, <3>2 DEF NamesWereHad
    <3> QED
      BY <3>1, <3>3
  <2> QED
    BY <1>1, <2>1, <2>2 DEF QueueGrows
<1>10. \A i \in 1..Len(queue') : RenameWasNamed(queue[i])'
  BY <1>9 DEF RenameWasNamed
<1> QED
  BY <1>6, <1>7, <1>8, <1>10 DEF NamesWereHad, IsName

(* What is said of positions in the trace, one place further on.           *)
LEMMA PositionsShift ==
  ASSUME Len(trace') \in Nat, Shifted, NEW k, NEW j \in 1..(Len(trace') + 1)
  PROVE  /\ j + 1 \in 1..(Len(trace) + 1)
         /\ \A i \in 1..Len(trace') : LastBefore(i, j, k)' => LastBefore(i + 1, j + 1, k)
         /\ NoneBefore(j, k)' /\ IsName(trace[1], k) => LastBefore(1, j + 1, k)
         /\ NoneBefore(j, k)' /\ ~IsName(trace[1], k) => NoneBefore(j + 1, k)
<1>1. /\ Len(trace) = Len(trace') + 1 /\ Len(trace) \in Nat
      /\ \A i \in 1..Len(trace') : trace'[i] = trace[i + 1]
  BY SMT DEF Shifted
<1>2. \A m \in 1..Len(trace) : 1 < m => m - 1 \in 1..Len(trace') /\ trace'[m - 1] = trace[m]
  <2> SUFFICES ASSUME NEW m \in 1..Len(trace), 1 < m
               PROVE  m - 1 \in 1..Len(trace') /\ trace'[m - 1] = trace[m]
    OBVIOUS
  <2>1. m - 1 \in 1..Len(trace') /\ (m - 1) + 1 = m
    BY <1>1, SMT
  <2> QED
    BY <1>1, <2>1
<1>3. ASSUME NEW i \in 1..Len(trace'), LastBefore(i, j, k)'
      PROVE  LastBefore(i + 1, j + 1, k)
  <2>1. i + 1 < j + 1 /\ IsName(trace[i + 1], k)
    BY <1>1, <1>3, SMT DEF LastBefore, IsName
  <2>2. ASSUME NEW m \in 1..Len(trace), i + 1 < m, m < j + 1
        PROVE  ~IsName(trace[m], k)
    <3>1. 1 < m /\ i < m - 1 /\ m - 1 < j
      BY <1>1, <2>2, SMT
    <3> QED
      BY <1>2, <1>3, <3>1 DEF LastBefore, IsName
  <2> QED
    BY <2>1, <2>2 DEF LastBefore
<1>4. ASSUME NoneBefore(j, k)', NEW m \in 1..Len(trace), 1 < m, m < j + 1
      PROVE  ~IsName(trace[m], k)
  <2>1. m - 1 < j
    BY <1>1, <1>4, SMT
  <2> QED
    BY <1>2, <1>4, <2>1 DEF NoneBefore, IsName
<1>5. j + 1 \in 1..(Len(trace) + 1) /\ 1 < j + 1
  BY <1>1, SMT
<1>6. NoneBefore(j, k)' /\ IsName(trace[1], k) => LastBefore(1, j + 1, k)
  BY <1>4, <1>5 DEF LastBefore
<1>7. NoneBefore(j, k)' /\ ~IsName(trace[1], k) => NoneBefore(j + 1, k)
  <2>1. \A m \in 1..Len(trace) : m = 1 \/ 1 < m
    BY <1>1, SMT
  <2> QED
    BY <1>4, <2>1 DEF NoneBefore
<1> QED
  BY <1>3, <1>5, <1>6, <1>7

LEMMA ParsedCurrent ==
  ASSUME EtwInv, NEW r, Parsed(r)
  PROVE  NamesAreCurrent'
<1>1. /\ up /\ up' = up /\ file' = file /\ stale' = stale /\ disk' = disk /\ NamesAreCurrent
      /\ r = trace[1] /\ 1 \in 1..Len(trace) /\ Shifted /\ NamesGrow(r) /\ QueueGrows(r)
  BY DEF EtwInv, Parsed, world, Shifted
<1>2. r.what = "name" => r.key \in Keys /\ IsName(r, r.key)
  BY RecordKinds DEF Parsed, IsName
<1>3. /\ Len(trace') \in Nat /\ Len(trace) = Len(trace') + 1
      /\ \A i \in 1..Len(trace') : i \in 1..(Len(trace') + 1)
           /\ i + 1 \in 1..Len(trace) /\ trace'[i] = trace[i + 1]
      /\ Len(trace') + 1 \in 1..(Len(trace') + 1)
  BY <1>1, SMT DEF Shifted
<1>4. \A k \in DOMAIN names' : k \in Keys /\
        \/ r.what = "name" /\ k = r.key /\ names'[k] = r.name /\ IsName(r, k)
        \/ k \in DOMAIN names /\ names'[k] = names[k] /\ ~IsName(r, k)
  BY <1>1, <1>2 DEF NamesGrow, IsCache, IsName
<1>5. AfterName'
  <2> SUFFICES ASSUME NEW k \in Keys, NEW i \in 1..Len(trace'), NEW j \in 1..Len(trace'),
                      IsSeen(trace'[j], k), LastBefore(i, j, k)'
               PROVE  trace'[j].name = trace'[i].name
    BY DEF AfterName, IsSeen, IsUse
  <2>1. LastBefore(i + 1, j + 1, k)
    BY <1>1, <1>3, PositionsShift
  <2>2. /\ i + 1 \in 1..Len(trace) /\ j + 1 \in 1..Len(trace)
        /\ trace'[i] = trace[i + 1] /\ trace'[j] = trace[j + 1]
    BY <1>3
  <2>3. trace[j + 1].name = trace[i + 1].name
    BY <1>1, <2>1, <2>2 DEF NamesAreCurrent, AfterName
  <2> QED
    BY <2>2, <2>3
<1>6. AfterCache'
  <2> SUFFICES ASSUME NEW k \in DOMAIN names', NEW j \in 1..Len(trace'),
                      IsSeen(trace'[j], k), NoneBefore(j, k)'
               PROVE  trace'[j].name = names'[k]
    BY DEF AfterCache, IsSeen, IsUse
  <2>1. CASE names'[k] = r.name /\ IsName(r, k)
    <3>1. LastBefore(1, j + 1, k)
      BY <1>1, <1>3, <2>1, PositionsShift
    <3> QED
      BY <1>1, <1>3, <1>4, <2>1, <3>1 DEF NamesAreCurrent, AfterName
  <2>2. CASE k \in DOMAIN names /\ names'[k] = names[k] /\ ~IsName(r, k)
    <3>1. NoneBefore(j + 1, k)
      BY <1>1, <1>3, <2>2, PositionsShift
    <3> QED
      BY <1>1, <1>3, <2>2, <3>1 DEF NamesAreCurrent, AfterCache
  <2> QED
    BY <1>4, <2>1, <2>2
<1>7. NowName'
  <2> SUFFICES ASSUME NEW k \in Keys, NEW i \in 1..Len(trace'), k \notin stale',
                      file'[k] # None, LastBefore(i, Len(trace) + 1, k)'
               PROVE  file'[k] = trace'[i].name
    BY DEF NowName
  <2>0. PICK j \in 1..(Len(trace') + 1) : j = Len(trace') + 1
    BY <1>3
  <2>1. j + 1 = Len(trace) + 1 /\ LastBefore(i, j, k)'
    BY <1>3, <2>0 DEF LastBefore, IsName
  <2>2. LastBefore(i + 1, Len(trace) + 1, k)
    BY <1>1, <1>3, <2>1, PositionsShift
  <2> QED
    BY <1>1, <1>3, <2>2 DEF NamesAreCurrent, NowName
<1>8. NowCache'
  <2> SUFFICES ASSUME NEW k \in DOMAIN names', k \notin stale', file'[k] # None,
                      NoneBefore(Len(trace) + 1, k)'
               PROVE  file'[k] = names'[k]
    BY DEF NowCache
  <2>0. PICK j \in 1..(Len(trace') + 1) : j = Len(trace') + 1
    BY <1>3
  <2>1. j + 1 = Len(trace) + 1 /\ NoneBefore(j, k)'
    BY <1>3, <2>0 DEF NoneBefore, IsName
  <2>2. CASE names'[k] = r.name /\ IsName(r, k)
    <3>1. LastBefore(1, Len(trace) + 1, k)
      BY <1>1, <1>3, <2>1, <2>2, PositionsShift
    <3> QED
      BY <1>1, <1>3, <1>4, <2>2, <3>1 DEF NamesAreCurrent, NowName
  <2>3. CASE k \in DOMAIN names /\ names'[k] = names[k] /\ ~IsName(r, k)
    <3>1. NoneBefore(Len(trace) + 1, k)
      BY <1>1, <1>3, <2>1, <2>3, PositionsShift
    <3> QED
      BY <1>1, <1>3, <2>3, <3>1 DEF NamesAreCurrent, NowCache
  <2> QED
    BY <1>4, <2>2, <2>3
<1>9. QueueNamed'
  <2> SUFFICES ASSUME NEW i \in 1..Len(queue'), queue'[i].what \in Uses, ~queue'[i].event.blind
               PROVE  queue'[i].name = queue'[i].event.name
    BY DEF QueueNamed, UseNamed
  <2>1. CASE i \in 1..Len(queue) /\ queue'[i] = queue[i]
    BY <1>1, <2>1 DEF NamesAreCurrent, QueueNamed, UseNamed
  <2>2. CASE Made(queue'[i], r)
    <3>1. IsSeen(r, r.key) /\ queue'[i].event = r
          /\ queue'[i].name = IF r.key \in DOMAIN names THEN names[r.key] ELSE r.name
      BY <2>2 DEF Made, IsSeen
    <3>2. NoneBefore(1, r.key)
      BY <1>3, SMT DEF NoneBefore
    <3>3. r.key \in DOMAIN names => r.name = names[r.key]
      BY <1>1, <3>1, <3>2 DEF NamesAreCurrent, AfterCache
    <3> QED
      BY <3>1, <3>3
  <2> QED
    BY <1>1, <2>1, <2>2 DEF QueueGrows
<1>10. NowDisk'
  BY <1>1 DEF NowDisk
<1> QED
  BY <1>5, <1>6, <1>7, <1>8, <1>9, <1>10 DEF NamesAreCurrent

LEMMA CallbackKeeps ==
  ASSUME EtwInv, Callback
  PROVE  EtwInv'
<1>1. Parsed(Head(trace))
  BY CallbackParses DEF EtwInv
<1> QED
  BY <1>1, ParsedTypes, ParsedParents, ParsedTrust, ParsedNames, ParsedCurrent DEF EtwInv

-----------------------------------------------------------------------------
(* The worker changes nothing that the names and the trust rest on.        *)
NamesUntouched == UNCHANGED <<file, had, vouched, trace, stale, up, names, disk, trust, reuses>>

LEMMA WorkerKeepsNames ==
  ASSUME EtwInv, NamesUntouched, UNCHANGED proc,
         \A i \in 1..Len(queue') : \E j \in 1..Len(queue) : queue'[i] = queue[j]
  PROVE  TrustDeserved' /\ NamesWereHad' /\ NamesAreCurrent'
<1>1. NamesUntouched /\ proc' = proc
  OBVIOUS
<1>2. TrustDeserved'
  BY <1>1 DEF EtwInv, TrustDeserved, NamesUntouched
<1>3. NamesWereHad'
  BY <1>1 DEF EtwInv, NamesWereHad, RenameWasNamed, IsName, NamesUntouched
<1>4. NamesAreCurrent'
  <2>1. NamesAreCurrent
    BY DEF EtwInv
  <2>2. AfterName' /\ AfterCache'
    BY <1>1, <2>1 DEF NamesAreCurrent, AfterName, AfterCache, IsSeen, IsUse, IsName,
                      LastBefore, NoneBefore, NamesUntouched
  <2>3. NowName' /\ NowCache' /\ NowDisk'
    BY <1>1, <2>1 DEF NamesAreCurrent, NowName, NowCache, NowDisk, IsName,
                      LastBefore, NoneBefore, NamesUntouched
  <2>4. QueueNamed'
    BY <2>1 DEF NamesAreCurrent, QueueNamed, UseNamed
  <2> QED
    BY <2>2, <2>3, <2>4 DEF NamesAreCurrent
<1> QED
  BY <1>2, <1>3, <1>4

LEMMA RefreshKeeps ==
  ASSUME EtwInv, WorkerRefreshes
  PROVE  EtwInv'
<1>1. /\ TypeOK /\ snapshot' = [p \in {x \in Pids : proc[x] # None} |-> proc[p].parent]
      /\ UNCHANGED <<world, trace, stale, up, names, disk, trust, queue, worker, out, bounds>>
  BY DEF WorkerRefreshes, EtwInv
<1>2. \A p \in DOMAIN snapshot' : p \in Pids /\ proc[p] # None /\ snapshot'[p] = proc[p].parent
  BY <1>1
<1>3. \A p \in Pids : proc[p] # None => proc[p].parent \in Pids \cup {None}
  BY <1>1 DEF TypeOK
<1>4. TypeOK'
  <2>1. IsCache(snapshot', Pids, Pids \cup {None})
    BY <1>2, <1>3 DEF IsCache
  <2> QED
    BY <1>1, <2>1 DEF TypeOK, world, bounds, IsCache
<1>5. Known'
  BY <1>1, <1>2 DEF EtwInv, Known, world
<1>6. ParentsAgree'
  BY <1>1, <1>2 DEF EtwInv, ParentsAgree, IsParent, world, bounds
<1>7. NamesUntouched /\ proc' = proc
  BY <1>1 DEF NamesUntouched, world, bounds
<1>8. TrustDeserved' /\ NamesWereHad' /\ NamesAreCurrent'
  BY <1>1, <1>7, WorkerKeepsNames
<1>9. OutTrue'
  BY <1>1 DEF EtwInv, OutTrue, ParentTrue, RenameTrue, NameTrue, TrustTrue, world, bounds
<1> QED
  BY <1>4, <1>5, <1>6, <1>8, <1>9 DEF EtwInv

LEMMA WorkerMovesKeep ==
  ASSUME EtwInv, worker' \in {"outside", "inside"}, out' \in {out, None},
         UNCHANGED <<world, trace, stale, up, names, disk, trust, queue, snapshot, bounds>>
  PROVE  EtwInv'
<1>1. TypeOK'
  BY DEF EtwInv, TypeOK, world, bounds, IsCache
<1>2. Known' /\ ParentsAgree'
  BY DEF EtwInv, Known, ParentsAgree, IsParent, world, bounds
<1>3. NamesUntouched /\ proc' = proc
  BY DEF NamesUntouched, world, bounds
<1>4. TrustDeserved' /\ NamesWereHad' /\ NamesAreCurrent'
  BY <1>3, WorkerKeepsNames
<1>5. OutTrue'
  <2>1. CASE out' = None
    BY <2>1 DEF OutTrue, ParentTrue, RenameTrue, NameTrue, TrustTrue
  <2>2. CASE out' = out
    BY <2>2 DEF EtwInv, OutTrue, ParentTrue, RenameTrue, NameTrue, TrustTrue, world, bounds
  <2> QED
    BY <2>1, <2>2
<1> QED
  BY <1>1, <1>2, <1>4, <1>5 DEF EtwInv

LEMMA DeliverKeeps ==
  ASSUME EtwInv, WorkerDelivers
  PROVE  EtwInv'
<1> DEFINE e == Head(queue)
           ppid == IF e.what = "start" THEN ParentOf(e.event.pid) ELSE e.ppid
<1>1. /\ TypeOK /\ queue # <<>> /\ queue' = Tail(queue) /\ up
      /\ out' = [e EXCEPT !.ppid = ppid, !.critical = FALSE]
      /\ UNCHANGED <<world, trace, stale, up, names, disk, trust, snapshot, worker, bounds>>
  BY DEF WorkerDelivers, EtwInv
<1>2. /\ queue' \in Seq(Events) /\ e = queue[1] /\ e \in Events /\ 1 \in 1..Len(queue)
      /\ \A i \in 1..Len(queue') : queue'[i] = queue[i + 1] /\ i + 1 \in 1..Len(queue)
  <2>1. queue \in Seq(Events)
    BY <1>1 DEF TypeOK
  <2> QED
    BY <1>1, <2>1, Shorter
<1>3. e.event \in Records /\ e.event.pid \in Pids
  <2>1. e.event \in Records
    BY <1>2 DEF Events
  <2> QED
    BY <2>1, RecordKinds
<1>4. ParentOf(e.event.pid) \in Pids \cup {None}
  BY <1>1, <1>3 DEF ParentOf, TypeOK, IsCache
<1>5. ppid \in Pids \cup {None}
  BY <1>2, <1>4 DEF Events
<1> HIDE DEF e, ppid
<1>6. /\ out' \in Events /\ out'.what = e.what /\ out'.event = e.event /\ out'.name = e.name
      /\ out'.trusted = e.trusted /\ out'.ppid = ppid
  BY <1>1, <1>2, <1>5 DEF Events
<1>7. TypeOK'
  BY <1>1, <1>2, <1>6 DEF TypeOK, world, bounds, IsCache
<1>8. Known'
  BY <1>1, <1>2 DEF EtwInv, Known, world
<1>9. ParentsAgree'
  BY <1>1, <1>2 DEF EtwInv, ParentsAgree, IsParent, world, bounds
<1>10. NamesUntouched /\ proc' = proc
  BY <1>1 DEF NamesUntouched, world, bounds
<1>11. TrustDeserved' /\ NamesWereHad' /\ NamesAreCurrent'
  BY <1>2, <1>10, WorkerKeepsNames
<1>12. OutTrue'
  <2>1. ParentTrue'
    BY <1>1, <1>2, <1>6 DEF EtwInv, ParentsAgree, IsParent, ParentTrue, ppid, ParentOf, bounds
  <2>2. RenameTrue'
    BY <1>1, <1>2, <1>6 DEF EtwInv, NamesWereHad, RenameWasNamed, RenameTrue, bounds
  <2>3. NameTrue'
    <3>1. UseNamed(e)
      BY <1>2 DEF EtwInv, NamesAreCurrent, QueueNamed
    <3> QED
      BY <1>6, <3>1 DEF NameTrue, UseNamed, Uses
  <2>4. TrustTrue'
    BY <1>1, <1>2, <1>6 DEF EtwInv, TrustDeserved, TrustTrue, world
  <2> QED
    BY <2>1, <2>2, <2>3, <2>4 DEF OutTrue
<1> QED
  BY <1>7, <1>8, <1>9, <1>11, <1>12 DEF EtwInv

-----------------------------------------------------------------------------
(* The end and the start of the agent: what it still knows is on disk, and *)
(* wrong there only for the keys that are called stale.                    *)
LEMMA AgentEndKeeps ==
  ASSUME EtwInv, AgentEnds
  PROVE  EtwInv'
<1>1. /\ TypeOK /\ up /\ up' = FALSE /\ restarts' = restarts + 1
      /\ trace' = <<>> /\ queue' = <<>> /\ worker' = "outside" /\ out' = None
      /\ names' = Empty /\ trust' = Empty /\ snapshot' = Empty
      /\ stale' = stale \cup NamedIn(trace) \cup
           {k \in DOMAIN disk' : k \notin DOMAIN names \/ names[k] # disk'[k]}
      /\ UNCHANGED <<world, records, reuses, losses>>
  BY DEF AgentEnds, EtwInv
<1>2. DOMAIN Empty = {}
  BY DEF Empty
<1>3. restarts' \in Nat
  BY <1>1, SMT DEF TypeOK
<1>4. Len(trace') = 0 /\ Len(queue') = 0
      /\ trace' \in Seq(Records) /\ queue' \in Seq(Events)
  BY <1>1
<1>5. \A k \in DOMAIN disk' : \/ k \in DOMAIN disk /\ disk'[k] = disk[k]
                              \/ k \in DOMAIN names /\ disk'[k] = names[k]
  BY DEF AgentEnds
<1>6. IsCache(disk', Keys, Names)
  BY <1>1, <1>5 DEF TypeOK, IsCache
<1>7. stale' \subseteq Keys
  <2>1. NamedIn(trace) \subseteq Keys
    BY <1>1, NamedInKeys DEF TypeOK
  <2> QED
    BY <1>1, <1>6, <2>1 DEF TypeOK, IsCache
<1>8. TypeOK'
  BY <1>1, <1>2, <1>3, <1>4, <1>6, <1>7 DEF TypeOK, world, IsCache
<1>9. \A i : i \notin 1..Len(trace') /\ i \notin 1..Len(queue')
  BY <1>4, SMT
<1>10. Known' /\ ParentsAgree' /\ TrustDeserved'
  BY <1>1, <1>2, <1>4, <1>9 DEF EtwInv, Known, ParentsAgree, TrustDeserved, world
<1>11. NamesWereHad'
  BY <1>1, <1>2, <1>5, <1>9 DEF EtwInv, NamesWereHad, world
<1>12. NamesAreCurrent'
  <2>1. AfterName' /\ AfterCache' /\ NowName' /\ NowCache' /\ QueueNamed'
    BY <1>1, <1>2, <1>9 DEF AfterName, AfterCache, NowName, NowCache, QueueNamed
  <2>2. NowDisk'
    <3> SUFFICES ASSUME NEW k \in DOMAIN disk', k \notin stale', file'[k] # None
                 PROVE  file'[k] = disk'[k]
      BY DEF NowDisk
    <3>1. /\ k \notin stale /\ k \notin NamedIn(trace) /\ file' = file
          /\ k \in DOMAIN names /\ names[k] = disk'[k]
      BY <1>1 DEF world
    <3>2. file[k] = names[k]
      BY <3>1, CacheIsRight DEF EtwInv
    <3> QED
      BY <3>1, <3>2
  <2> QED
    BY <2>1, <2>2 DEF NamesAreCurrent
<1>13. OutTrue'
  BY <1>1 DEF OutTrue, ParentTrue, RenameTrue, NameTrue, TrustTrue
<1> QED
  BY <1>8, <1>10, <1>11, <1>12, <1>13 DEF EtwInv

LEMMA AgentStartKeeps ==
  ASSUME EtwInv, AgentStarts
  PROVE  EtwInv'
<1>1. /\ TypeOK /\ ~up /\ up' = TRUE /\ names' = disk /\ vouched' = Verified
      /\ Len(trace) = 0 /\ Len(queue) = 0 /\ DOMAIN trust = {} /\ out = None
      /\ UNCHANGED <<proc, born, file, had, trace, stale, disk, trust, queue, snapshot,
                     worker, out, bounds>>
  BY DEF AgentStarts, EtwInv, Known
<1>2. \A i : i \notin 1..Len(trace') /\ i \notin 1..Len(queue')
  BY <1>1, SMT
<1>3. Verified \subseteq Pids /\ \A p \in Pids : proc[p] # None /\ proc[p].signed => p \in Verified
  BY DEF Verified
<1>4. TypeOK'
  BY <1>1, <1>3 DEF TypeOK, bounds, IsCache
<1>5. Known' /\ ParentsAgree' /\ TrustDeserved'
  BY <1>1, <1>2, <1>3 DEF EtwInv, Known, ParentsAgree, TrustDeserved, bounds
<1>6. NamesWereHad'
  BY <1>1, <1>2 DEF EtwInv, NamesWereHad, bounds
<1>7. NamesAreCurrent'
  <2>1. AfterName' /\ AfterCache' /\ NowName' /\ NowDisk' /\ QueueNamed'
    BY <1>1, <1>2 DEF AfterName, AfterCache, NowName, NowDisk, QueueNamed
  <2>2. NowCache'
    BY <1>1 DEF EtwInv, NamesAreCurrent, NowDisk, NowCache
  <2> QED
    BY <2>1, <2>2 DEF NamesAreCurrent
<1>8. OutTrue'
  BY <1>1 DEF OutTrue, ParentTrue, RenameTrue, NameTrue, TrustTrue
<1> QED
  BY <1>4, <1>5, <1>6, <1>7, <1>8 DEF EtwInv

-----------------------------------------------------------------------------
LEMMA InitEtw == Init => EtwInv
<1> SUFFICES ASSUME Init PROVE EtwInv
  OBVIOUS
<1>1. /\ Len(trace) = 0 /\ Len(queue) = 0 /\ trace \in Seq(Records) /\ queue \in Seq(Events)
      /\ \A i : i \notin 1..Len(trace) /\ i \notin 1..Len(queue)
  BY SMT DEF Init
<1>2. DOMAIN names = {} /\ DOMAIN disk = {} /\ DOMAIN trust = {} /\ DOMAIN snapshot = {}
  BY DEF Init, Empty
<1>3. TypeOK
  BY <1>1, <1>2 DEF Init, TypeOK, Verified, IsCache
<1>4. Known /\ ParentsAgree /\ TrustDeserved
  BY <1>1, <1>2 DEF Init, Known, ParentsAgree, TrustDeserved, Verified
<1>5. NamesWereHad
  BY <1>1, <1>2 DEF NamesWereHad
<1>6. NamesAreCurrent
  BY <1>1, <1>2 DEF NamesAreCurrent, AfterName, AfterCache, NowName, NowCache, NowDisk, QueueNamed
<1>7. OutTrue
  BY DEF Init, OutTrue, ParentTrue, RenameTrue, NameTrue, TrustTrue
<1> QED
  BY <1>3, <1>4, <1>5, <1>6, <1>7 DEF EtwInv

LEMMA NextEtw == EtwInv /\ [Next]_vars => EtwInv'
<1> SUFFICES ASSUME EtwInv, [Next]_vars PROVE EtwInv'
  OBVIOUS
<1>1. ASSUME World PROVE EtwInv'
  BY <1>1, StartKeeps, EndKeeps, ReplaceKeeps, NameKeeps, UseKeeps, OtherKeeps, CloseKeeps,
     KilledKeeps DEF World, Uses
<1>2. ASSUME Callback PROVE EtwInv'
  BY <1>2, CallbackKeeps
<1>3. ASSUME Worker PROVE EtwInv'
  <2>1. CASE WorkerRefreshes
    BY <2>1, RefreshKeeps
  <2>2. CASE WorkerEnters \/ WorkerLeaves
    BY <2>2, WorkerMovesKeep DEF WorkerEnters, WorkerLeaves
  <2>3. CASE WorkerDelivers
    BY <2>3, DeliverKeeps
  <2> QED
    BY <1>3, <2>1, <2>2, <2>3 DEF Worker
<1>4. CASE AgentEnds
  BY <1>4, AgentEndKeeps
<1>5. CASE AgentStarts
  BY <1>5, AgentStartKeeps
<1>6. CASE UNCHANGED vars
  <2>1. worker' \in {"outside", "inside"}
    BY <1>6 DEF EtwInv, TypeOK, vars, agent
  <2> QED
    BY <1>6, <2>1, WorkerMovesKeep DEF vars, agent
<1> QED
  BY <1>1, <1>2, <1>3, <1>4, <1>5, <1>6 DEF Next

(* What the caches, the trace, the queue and the snapshot say of a process *)
(* or a file agrees: of a parent and of an earlier name as long as no pid  *)
(* or key is given out again, of a current name as long as the record of   *)
(* its last naming was not lost, of a signature always.                    *)
THEOREM EtwInvCorrect == Spec => []EtwInv
<1> QED
  BY InitEtw, NextEtw, PTL DEF Spec

(* The state of the provider keeps its type.                               *)
THEOREM EtwTypeCorrect == Spec => []TypeOK
<1>1. EtwInv => TypeOK
  BY DEF EtwInv
<1> QED
  BY <1>1, EtwInvCorrect, PTL

(* The parent that the worker adds to a new process is the parent of the   *)
(* record's process, or it adds none, as long as no pid is reused.         *)
THEOREM ParentTrueCorrect == Spec => []ParentTrue
<1>1. EtwInv => ParentTrue
  BY DEF EtwInv, OutTrue
<1> QED
  BY <1>1, EtwInvCorrect, PTL

(* A rename under a name that is not on the list of extensions is reported *)
(* only of a file that had another name, as long as no key is reused.      *)
THEOREM RenameTrueCorrect == Spec => []RenameTrue
<1>1. EtwInv => RenameTrue
  BY DEF EtwInv, OutTrue
<1> QED
  BY <1>1, EtwInvCorrect, PTL

(* What is written, deleted or read is reported under the name it had,     *)
(* unless the record of its last naming was lost: whatever else was lost,  *)
(* evicted, reused or loaded from a file that a dying agent left.          *)
THEOREM NameTrueCorrect == Spec => []NameTrue
<1>1. EtwInv => NameTrue
  BY DEF EtwInv, OutTrue
<1> QED
  BY <1>1, EtwInvCorrect, PTL

(* A process is called signed only under a pid that ran, since the agent   *)
(* started, a file that verified.                                          *)
THEOREM TrustTrueCorrect == Spec => []TrustTrue
<1>1. EtwInv => TrustTrue
  BY DEF EtwInv, OutTrue
<1> QED
  BY <1>1, EtwInvCorrect, PTL

-----------------------------------------------------------------------------
(***************************************************************************)
(* DivergenceDetector.  As long as no sensor misses an event, pending_ is  *)
(* a queue: it holds what the sensor that is behind has yet to report, in  *)
(* that order, and nothing in it is too old for the twin that will come.   *)
(***************************************************************************)
Facts == [pid : Processes, content : Contents, at : 0..MaxTime]

(* What happened is in the order of time, and no sensor is late.           *)
InTime ==
  /\ \A i \in 1..Len(facts) : facts[i].at <= now
  /\ \A i, j \in 1..Len(facts) : i <= j => facts[i].at <= facts[j].at
  /\ \A s \in Sensors :
       seen[s] < Len(facts) => now <= facts[seen[s] + 1].at + Tolerance

(* The i-th entry is the i-th fact that o has yet to report, from s.       *)
QueueFor(s, o) ==
  /\ Len(pending) = seen[s] - seen[o]
  /\ \A i \in 1..Len(pending) :
       /\ pending[i].pid = facts[seen[o] + i].pid
       /\ pending[i].content = facts[seen[o] + i].content
       /\ pending[i].sensor = s
       /\ facts[seen[o] + i].at <= pending[i].at /\ pending[i].at <= now

Paired ==
  /\ DetectorTypeOK /\ InTime
  /\ alerts = <<>> /\ expired = <<>> /\ ~cooled /\ marking = <<>>
  /\ \A s, o \in Sensors : s # o /\ seen[o] <= seen[s] => QueueFor(s, o)

PairInv == missed = {} => Paired

-----------------------------------------------------------------------------
(* The shape of the sequences, and that there are two sensors.             *)
LEMMA Shape ==
  ASSUME DetectorTypeOK
  PROVE  /\ Len(facts) \in Nat /\ Len(pending) \in Nat
         /\ \A i \in 1..Len(facts) : facts[i] \in Facts
         /\ \A i \in 1..Len(pending) : pending[i] \in Entry
         /\ now \in Nat /\ Tolerance \in Nat /\ Expiry \in Nat /\ MaxTime \in Nat
         /\ Tolerance < Expiry
         /\ \A s \in Sensors : seen[s] \in Nat /\ seen[s] <= Len(facts)
<1>1. facts \in Seq(Facts) /\ pending \in Seq(Entry)
  BY DEF DetectorTypeOK, Facts
<1>2. Len(facts) \in Nat /\ Len(pending) \in Nat
  BY <1>1, LenProperties
<1> QED
  BY <1>1, <1>2, ElementOfSeq, DetectorAssumption DEF DetectorTypeOK

LEMMA TwoSensors ==
  /\ Sensors = {"ebpf", "etw"}
  /\ \A s \in Sensors : \E o \in Sensors : o # s
  /\ \A s, o \in Sensors : s # o => \A r \in Sensors : r = s \/ r = o
BY DEF Sensors

(* The queue is fresh: its first entry's twin is still to come.            *)
LEMMA QueueFresh ==
  ASSUME Paired, NEW s \in Sensors, NEW o \in Sensors, s # o, seen[o] <= seen[s],
         NEW i \in 1..Len(pending)
  PROVE  /\ now - pending[i].at <= Tolerance /\ ~Expired(pending[i])
         /\ pending[i].sensor = s
<1>1. QueueFor(s, o) /\ DetectorTypeOK /\ InTime
  BY DEF Paired
<1>2. /\ pending[i].at \in Int /\ facts[seen[o] + 1].at \in Int
      /\ facts[seen[o] + i].at \in Int
      /\ seen[o] + i \in 1..Len(facts) /\ seen[o] + 1 \in 1..Len(facts)
      /\ seen[o] < Len(facts) /\ seen[o] + 1 <= seen[o] + i
      /\ Len(pending) = seen[s] - seen[o]
  <2>0. /\ seen[o] \in Nat /\ seen[s] \in Nat /\ Len(facts) \in Nat /\ Len(pending) \in Nat
        /\ seen[s] <= Len(facts)
    BY <1>1, Shape
  <2>1. Len(pending) = seen[s] - seen[o]
    BY <1>1 DEF QueueFor
  <2>2. /\ seen[o] + i \in 1..Len(facts) /\ seen[o] + 1 \in 1..Len(facts)
        /\ seen[o] < Len(facts) /\ seen[o] + 1 <= seen[o] + i
    BY <2>0, <2>1
  <2>3. pending[i] \in Entry /\ facts[seen[o] + i] \in Facts /\ facts[seen[o] + 1] \in Facts
    BY <1>1, <2>2, Shape
  <2> QED
    BY <2>1, <2>2, <2>3 DEF Entry, Facts
<1>3. /\ now <= facts[seen[o] + 1].at + Tolerance
      /\ facts[seen[o] + 1].at <= facts[seen[o] + i].at
      /\ facts[seen[o] + i].at <= pending[i].at /\ pending[i].sensor = s
  BY <1>1, <1>2 DEF InTime, QueueFor
<1>4. now \in Nat /\ Tolerance \in Nat /\ Expiry \in Nat /\ Tolerance < Expiry
  BY <1>1, Shape
<1>5. now - pending[i].at <= Tolerance
  <2>1. \A a, b, c, n, t \in Int : n <= a + t /\ a <= b /\ b <= c => n - c <= t
    OBVIOUS
  <2>2. now \in Int /\ Tolerance \in Int
    BY <1>4
  <2> QED
    BY <1>2, <1>3, <2>1, <2>2
<1> QED
  BY <1>2, <1>3, <1>4, <1>5 DEF Expired

LEMMA NothingExpires ==
  ASSUME Paired, NEW i \in 1..Len(pending)
  PROVE  ~Expired(pending[i])
<1>1. "ebpf" \in Sensors /\ "etw" \in Sensors /\ seen["ebpf"] \in Nat /\ seen["etw"] \in Nat
  BY Shape DEF Paired, Sensors
<1>2. CASE seen["etw"] <= seen["ebpf"]
  BY <1>1, <1>2, QueueFresh
<1>3. CASE seen["ebpf"] <= seen["etw"]
  BY <1>1, <1>3, QueueFresh
<1> QED
  BY <1>1, <1>2, <1>3

LEMMA FactPaired ==
  ASSUME Paired, NEW p \in Processes, NEW c \in Contents, Fact(p, c)
  PROVE  Paired'
<1> DEFINE f == [pid |-> p, content |-> c, at |-> now]
<1>1. /\ facts' = Append(facts, f) /\ f \in Facts /\ facts \in Seq(Facts)
      /\ UNCHANGED <<now, seen, pending, lastAlerted, expired, cooled, marking, alerts, missed>>
  BY DEF Fact, Facts, Paired, DetectorTypeOK
<1>2. /\ facts' \in Seq(Facts) /\ Len(facts') = Len(facts) + 1 /\ Len(facts) \in Nat
      /\ \A i \in 1..Len(facts) : facts'[i] = facts[i]
      /\ facts'[Len(facts) + 1] = f
  BY <1>1, AppendProperties, LenProperties
<1>3. DetectorTypeOK'
  BY <1>1, <1>2 DEF Paired, DetectorTypeOK, Facts
<1>4. f.at = now /\ now \in Nat /\ Tolerance \in Nat
  BY Shape DEF Paired
<1> HIDE DEF f
<1>5. InTime'
  <2>1. \A s \in Sensors : seen[s] \in Nat /\ seen[s] <= Len(facts)
    BY Shape DEF Paired
  <2>2. \A i \in 1..Len(facts) : facts[i].at \in Nat /\ facts[i].at <= now
    BY Shape DEF Paired, InTime, Facts
  <2>3. \A i \in 1..Len(facts') : facts'[i].at <= now
    BY <1>2, <1>4, <2>2
  <2>4. \A i, j \in 1..Len(facts') : i <= j => facts'[i].at <= facts'[j].at
    <3> SUFFICES ASSUME NEW i \in 1..Len(facts'), NEW j \in 1..Len(facts'), i <= j
                 PROVE  facts'[i].at <= facts'[j].at
      OBVIOUS
    <3>1. CASE j = Len(facts) + 1
      BY <1>2, <1>4, <2>3, <3>1
    <3>2. CASE j # Len(facts) + 1
      BY <1>2, <3>2 DEF Paired, InTime
    <3> QED
      BY <3>1, <3>2
  <2>5. \A s \in Sensors : seen[s] < Len(facts') => now <= facts'[seen[s] + 1].at + Tolerance
    BY <1>2, <1>4, <2>1 DEF Paired, InTime
  <2> QED
    BY <1>1, <2>3, <2>4, <2>5 DEF InTime
<1>6. ASSUME NEW s \in Sensors, NEW o \in Sensors, s # o, seen[o] <= seen[s]
      PROVE  QueueFor(s, o)'
  <2>1. QueueFor(s, o)
    BY <1>6 DEF Paired
  <2>2. /\ seen[o] \in Nat /\ seen[s] \in Nat /\ Len(pending) \in Nat
        /\ seen[s] <= Len(facts) /\ Len(pending) = seen[s] - seen[o]
    BY <2>1, Shape DEF Paired, QueueFor
  <2>3. ASSUME NEW i \in 1..Len(pending) PROVE facts'[seen[o] + i] = facts[seen[o] + i]
    <3>1. seen[o] + i \in 1..Len(facts)
      BY <1>2, <2>2
    <3> QED
      BY <1>2, <3>1
  <2> QED
    BY <1>1, <2>1, <2>3 DEF QueueFor
<1> QED
  BY <1>1, <1>3, <1>5, <1>6 DEF Paired

LEMMA TickPaired ==
  ASSUME Paired, Tick
  PROVE  Paired'
<1>1. /\ now' = now + 1 /\ now < MaxTime /\ ~Late
      /\ UNCHANGED <<facts, seen, pending, lastAlerted, expired, cooled, marking, alerts, missed>>
  BY DEF Tick
<1>2. DetectorTypeOK'
  BY <1>1, Shape DEF Paired, DetectorTypeOK
<1>3. InTime'
  <2>1. \A i \in 1..Len(facts) : facts[i].at \in Nat
    BY Shape DEF Paired, Facts
  <2>2. ASSUME NEW s \in Sensors, seen[s] < Len(facts)
        PROVE  now' <= facts[seen[s] + 1].at + Tolerance
    <3>1. /\ seen[s] \in Nat /\ Len(facts) \in Nat /\ now \in Nat /\ Tolerance \in Nat
      BY Shape DEF Paired
    <3>2. facts[seen[s] + 1].at \in Nat /\ ~(facts[seen[s] + 1].at + Tolerance <= now)
      BY <1>1, <2>1, <2>2, <3>1 DEF Late
    <3> QED
      BY <1>1, <3>1, <3>2
  <2> QED
    BY <1>1, <2>1, <2>2, Shape DEF Paired, InTime
<1>4. ASSUME NEW s \in Sensors, NEW o \in Sensors, s # o, seen[o] <= seen[s]
      PROVE  QueueFor(s, o)'
  <2>1. /\ QueueFor(s, o) /\ now \in Nat /\ Len(pending) \in Nat
        /\ \A i \in 1..Len(pending) : pending[i] \in Entry
    BY <1>4, Shape DEF Paired
  <2>2. \A i \in 1..Len(pending) : pending[i].at \in Int /\ pending[i].at <= now'
    BY <1>1, <2>1 DEF QueueFor, Entry
  <2> QED
    BY <1>1, <2>1, <2>2 DEF QueueFor
<1> QED
  BY <1>1, <1>2, <1>3, <1>4 DEF Paired

-----------------------------------------------------------------------------
(* A sensor that goes on is in time for the next fact.                     *)
LEMMA SeenOnTime ==
  ASSUME DetectorTypeOK, InTime, NEW s \in Sensors, seen' = [seen EXCEPT ![s] = @ + 1],
         UNCHANGED <<now, facts>>
  PROVE  InTime'
<1>1. \A r \in Sensors : seen[r] \in Nat /\ seen'[r] = (IF r = s THEN seen[r] + 1 ELSE seen[r])
  BY Shape DEF DetectorTypeOK
<1>2. \A i \in 1..Len(facts) : facts[i].at \in Nat
  BY Shape DEF Facts
<1>3. ASSUME seen[s] + 1 < Len(facts)
      PROVE  now <= facts[seen[s] + 1 + 1].at + Tolerance
  <2>1. /\ seen[s] + 1 \in 1..Len(facts) /\ seen[s] + 1 + 1 \in 1..Len(facts)
        /\ seen[s] < Len(facts)
    BY <1>1, <1>3, Shape
  <2>2. /\ now <= facts[seen[s] + 1].at + Tolerance
        /\ facts[seen[s] + 1].at <= facts[seen[s] + 1 + 1].at
    BY <1>1, <2>1 DEF InTime
  <2>3. /\ now \in Nat /\ Tolerance \in Nat
        /\ facts[seen[s] + 1].at \in Nat /\ facts[seen[s] + 1 + 1].at \in Nat
    BY <1>2, <2>1, Shape
  <2> QED
    BY <2>2, <2>3
<1> QED
  BY <1>1, <1>3 DEF InTime

LEMMA RemoveFirstEntry ==
  ASSUME NEW S, NEW q \in Seq(S), Len(q) > 0
  PROVE  /\ RemoveAt(q, 1) \in Seq(S) /\ Len(RemoveAt(q, 1)) = Len(q) - 1
         /\ \A i \in 1..Len(q) - 1 : RemoveAt(q, 1)[i] = q[i + 1]
<1>1. /\ Len(q) \in Nat /\ \A i \in 1 + 1..Len(q) : q[i] \in S
  BY LenProperties, ElementOfSeq
<1>2. SubSeq(q, 1, 1 - 1) = <<>>
  BY SubSeqEmpty
<1>3. /\ SubSeq(q, 1 + 1, Len(q)) \in Seq(S)
      /\ Len(SubSeq(q, 1 + 1, Len(q))) = Len(q) - 1
      /\ \A i \in 1..Len(q) - 1 : SubSeq(q, 1 + 1, Len(q))[i] = q[i + 1]
  <2>1. /\ 1 + 1 \in Int /\ Len(q) \in Int /\ Len(q) - (1 + 1) + 1 = Len(q) - 1
        /\ \A i \in Int : 1 + 1 + i - 1 = i + 1
    BY <1>1
  <2>2. /\ SubSeq(q, 1 + 1, Len(q)) \in Seq(S)
        /\ Len(SubSeq(q, 1 + 1, Len(q))) = IF 1 + 1 <= Len(q) THEN Len(q) - (1 + 1) + 1 ELSE 0
        /\ \A i \in 1..Len(q) - (1 + 1) + 1 : SubSeq(q, 1 + 1, Len(q))[i] = q[1 + 1 + i - 1]
    BY <1>1, <2>1, SubSeqProperties
  <2> QED
    BY <1>1, <2>1, <2>2
<1>4. RemoveAt(q, 1) = SubSeq(q, 1 + 1, Len(q))
  BY <1>2, <1>3, ConcatEmptySeq DEF RemoveAt
<1> QED
  BY <1>3, <1>4

(* The sensor that is ahead, or level, finds no twin and appends.          *)
LEMMA AheadAppends ==
  ASSUME Paired, NEW s \in Sensors, NEW o \in Sensors, s # o, seen[o] <= seen[s],
         ProcessEvent(s)
  PROVE  Paired'
<1> DEFINE f == facts[seen[s] + 1]
           e == [pid |-> f.pid, content |-> f.content, sensor |-> s, at |-> now]
<1>1. Twins(s, f) = {}
  BY QueueFresh DEF Twins
<1>2. /\ seen[s] < Len(facts) /\ seen' = [seen EXCEPT ![s] = @ + 1]
      /\ pending' = Append(pending, e)
      /\ marking' = <<>>
      /\ UNCHANGED <<now, facts, lastAlerted, expired, cooled, alerts, missed>>
  BY <1>1 DEF ProcessEvent
<1>3. f \in Facts /\ seen[s] + 1 \in 1..Len(facts)
  BY <1>2, Shape DEF Paired
<1>4. e \in Entry /\ f.at \in Nat /\ f.at <= now /\ e.pid = f.pid /\ e.content = f.content
      /\ e.sensor = s /\ e.at = now
  <2>1. f.at <= now
    BY <1>3 DEF Paired, InTime
  <2> QED
    BY <1>3, <2>1, Shape DEF Paired, DetectorTypeOK, Entry, Facts
<1>5. /\ pending' \in Seq(Entry) /\ Len(pending') = Len(pending) + 1
      /\ \A i \in 1..Len(pending) : pending'[i] = pending[i]
      /\ pending'[Len(pending) + 1] = e
  BY <1>2, <1>4, AppendProperties DEF Paired, DetectorTypeOK
<1> HIDE DEF e
<1>6. /\ seen'[s] = seen[s] + 1 /\ seen'[o] = seen[o] /\ seen' \in [Sensors -> 0..Len(facts)]
      /\ seen[s] \in Nat /\ seen[o] \in Nat
  <2>1. seen \in [Sensors -> 0..Len(facts)] /\ Len(facts) \in Nat /\ seen[s] \in Nat /\ seen[o] \in Nat
    BY Shape DEF Paired, DetectorTypeOK
  <2> QED
    BY <1>2, <2>1
<1>7. DetectorTypeOK'
  BY <1>2, <1>5, <1>6 DEF Paired, DetectorTypeOK
<1>8. InTime'
  BY <1>2, <1>6, SeenOnTime DEF Paired
<1>9. QueueFor(s, o)'
  <2>1. QueueFor(s, o) /\ Len(pending) = seen[s] - seen[o] /\ Len(pending) \in Nat
    BY Shape DEF Paired, QueueFor
  <2>2. /\ Len(pending') = seen'[s] - seen'[o]
        /\ seen[o] + (Len(pending) + 1) = seen[s] + 1
    BY <1>5, <1>6, <2>1
  <2>3. ASSUME NEW i \in 1..Len(pending')
        PROVE  /\ pending'[i].pid = facts[seen[o] + i].pid
               /\ pending'[i].content = facts[seen[o] + i].content
               /\ pending'[i].sensor = s
               /\ facts[seen[o] + i].at <= pending'[i].at /\ pending'[i].at <= now
    <3>1. CASE i \in 1..Len(pending)
      BY <1>5, <2>1, <3>1 DEF QueueFor
    <3>2. CASE i = Len(pending) + 1
      <4>1. pending'[i] = e /\ facts[seen[o] + i] = f
        BY <1>5, <2>2, <3>2
      <4>2. now \in Nat
        BY Shape DEF Paired
      <4> HIDE DEF f
      <4> QED
        BY <1>4, <4>1, <4>2
    <3> QED
      BY <1>5, <2>1, <3>1, <3>2
  <2> QED
    BY <1>2, <1>6, <2>2, <2>3 DEF QueueFor
<1>10. \A r, q \in Sensors : r # q /\ seen'[q] <= seen'[r] => r = s /\ q = o
  BY <1>6, TwoSensors
<1> QED
  BY <1>2, <1>7, <1>8, <1>9, <1>10 DEF Paired

(* The sensor that is behind takes the first entry, which is its twin.     *)
LEMMA BehindTakes ==
  ASSUME Paired, NEW s \in Sensors, NEW o \in Sensors, s # o, seen[s] < seen[o],
         ProcessEvent(s)
  PROVE  Paired'
<1> DEFINE f == facts[seen[s] + 1]
<1>1. QueueFor(o, s) /\ DetectorTypeOK /\ seen[s] \in Nat /\ seen[o] \in Nat /\ pending \in Seq(Entry)
  BY Shape DEF Paired, DetectorTypeOK
<1>2. /\ Len(pending) = seen[o] - seen[s] /\ 1 \in 1..Len(pending) /\ Len(pending) \in Nat
      /\ pending[1].pid = f.pid /\ pending[1].content = f.content
  <2>1. Len(pending) = seen[o] - seen[s] /\ Len(pending) \in Nat
    BY <1>1 DEF QueueFor
  <2>2. 1 \in 1..Len(pending)
    BY <1>1, <2>1
  <2> QED
    BY <1>1, <2>1, <2>2 DEF QueueFor
<1>3. 1 \in Twins(s, f)
  BY <1>1, <1>2, QueueFresh DEF Twins
<1>4. First(Twins(s, f)) = 1
  <2>1. \A j \in Twins(s, f) : 1 <= j /\ j \in Nat
    BY <1>2 DEF Twins
  <2> QED
    BY <1>3, <2>1 DEF First
<1>5. /\ seen' = [seen EXCEPT ![s] = @ + 1] /\ pending' = RemoveAt(pending, 1)
      /\ marking' = <<>>
      /\ UNCHANGED <<now, facts, lastAlerted, expired, cooled, alerts, missed>>
  BY <1>2, <1>3, <1>4 DEF ProcessEvent
<1>6. /\ pending' \in Seq(Entry) /\ Len(pending') = Len(pending) - 1
      /\ \A i \in 1..Len(pending') : pending'[i] = pending[i + 1]
  <2>1. pending \in Seq(Entry) /\ Len(pending) > 0 /\ pending' = RemoveAt(pending, 1)
    BY <1>1, <1>2, <1>5
  <2>2. /\ RemoveAt(pending, 1) \in Seq(Entry) /\ Len(RemoveAt(pending, 1)) = Len(pending) - 1
        /\ \A i \in 1..Len(pending) - 1 : RemoveAt(pending, 1)[i] = pending[i + 1]
    BY <2>1, RemoveFirstEntry
  <2> QED
    BY <2>1, <2>2
<1>7. /\ seen'[s] = seen[s] + 1 /\ seen'[o] = seen[o] /\ seen' \in [Sensors -> 0..Len(facts)]
  <2>1. DetectorTypeOK /\ seen \in [Sensors -> 0..Len(facts)]
    BY <1>1 DEF DetectorTypeOK
  <2>2. seen[s] \in Nat /\ Len(facts) \in Nat /\ seen[s] + 1 \in 0..Len(facts)
    BY <1>1, <2>1, Shape
  <2> QED
    BY <1>1, <1>5, <2>1, <2>2
<1>8. DetectorTypeOK'
  BY <1>5, <1>6, <1>7 DEF Paired, DetectorTypeOK
<1>9. InTime'
  BY <1>5, <1>7, SeenOnTime DEF Paired
<1>10. QueueFor(o, s)'
  <2>1. Len(pending') = seen'[o] - seen'[s]
    BY <1>1, <1>2, <1>6, <1>7
  <2>2. ASSUME NEW i \in 1..Len(pending')
        PROVE  /\ i + 1 \in 1..Len(pending) /\ seen'[s] + i = seen[s] + (i + 1)
               /\ pending'[i] = pending[i + 1]
    <3>1. i \in Nat /\ Len(pending') = Len(pending) - 1 /\ i + 1 \in 1..Len(pending)
      BY <1>2, <1>6, <2>2
    <3>2. seen'[s] + i = seen[s] + (i + 1)
      <4>1. \A m, k \in Nat : (m + 1) + k = m + (k + 1)
        OBVIOUS
      <4>2. seen[s] \in Nat
        BY <1>1, Shape
      <4> QED
        BY <1>7, <3>1, <4>1, <4>2
    <3>3. pending'[i] = pending[i + 1]
      BY <1>6
    <3> QED
      BY <3>1, <3>2, <3>3
  <2>3. ASSUME NEW i \in 1..Len(pending')
        PROVE  /\ pending'[i].pid = facts[seen'[s] + i].pid
               /\ pending'[i].content = facts[seen'[s] + i].content
               /\ pending'[i].sensor = o
               /\ facts[seen'[s] + i].at <= pending'[i].at /\ pending'[i].at <= now
    <3> DEFINE k == i + 1
    <3>1. k \in 1..Len(pending) /\ seen'[s] + i = seen[s] + k /\ pending'[i] = pending[k]
      BY <2>2, <2>3
    <3> HIDE DEF k
    <3>2. /\ pending[k].pid = facts[seen[s] + k].pid
          /\ pending[k].content = facts[seen[s] + k].content
          /\ pending[k].sensor = o
          /\ facts[seen[s] + k].at <= pending[k].at /\ pending[k].at <= now
      BY <1>1, <3>1 DEF QueueFor
    <3> QED
      BY <3>1, <3>2
  <2> QED
    BY <1>5, <2>1, <2>3 DEF QueueFor
<1>11. seen'[o] <= seen'[s] => Len(pending') = 0
  BY <1>1, <1>2, <1>6, <1>7
<1>12. seen'[o] <= seen'[s] => QueueFor(s, o)'
  BY <1>1, <1>2, <1>6, <1>7, <1>11 DEF QueueFor
<1> QED
  BY <1>5, <1>8, <1>9, <1>10, <1>12, TwoSensors DEF Paired

LEMMA StepPaired == PairInv /\ [DetectorNext]_detectorVars => PairInv'
<1> SUFFICES ASSUME PairInv, [DetectorNext]_detectorVars, missed' = {} PROVE Paired'
  BY DEF PairInv
<1>1. ASSUME NEW s \in Sensors PROVE ~Miss(s)
  BY DEF Miss
<1>2. Paired /\ missed = {}
  BY <1>1 DEF PairInv, DetectorNext, detectorVars, Fact, ProcessEvent, Tick, ExpiryStep, Sweep, FireAlert,
     MarkAlerted, MarkMismatch
<1>3. ASSUME NEW p \in Processes, NEW c \in Contents, Fact(p, c) PROVE Paired'
  BY <1>2, <1>3, FactPaired
<1>4. ASSUME NEW s \in Sensors, ProcessEvent(s) PROVE Paired'
  <2>1. PICK o \in Sensors : o # s
    BY TwoSensors
  <2>2. seen[s] \in Nat /\ seen[o] \in Nat
    BY <1>2, Shape DEF Paired
  <2> QED
    BY <1>2, <1>4, <2>1, <2>2, AheadAppends, BehindTakes
<1>5. CASE Tick
  BY <1>2, <1>5, TickPaired
<1>6. ~ExpiryStep /\ ~MarkMismatch
  <2>1. Old = {}
    <3>1. Range(pending) = {pending[i] : i \in 1..Len(pending)}
      BY <1>2, RangeEquality DEF Paired, DetectorTypeOK
    <3> QED
      BY <1>2, <3>1, NothingExpires DEF Old
  <2> QED
    BY <1>2, <2>1 DEF ExpiryStep, Sweep, FireAlert, MarkAlerted, MarkMismatch, Paired
<1>7. CASE UNCHANGED detectorVars
  BY <1>2, <1>7 DEF detectorVars, Paired, DetectorTypeOK, InTime, QueueFor
<1> QED
  BY <1>1, <1>3, <1>4, <1>5, <1>6, <1>7 DEF DetectorNext

LEMMA PairedWhileComplete == DetectorSpec => []NoFalseAlarm
<1>1. DetectorInit => PairInv
  <2> SUFFICES ASSUME DetectorInit PROVE Paired
    BY DEF PairInv
  <2>1. Len(<<>>) = 0 /\ facts = <<>> /\ pending = <<>>
    BY EmptySeq DEF DetectorInit
  <2>2. DetectorTypeOK
    <3>1. \A S : <<>> \in Seq(S)
      BY EmptySeq
    <3> QED
      BY <2>1, <3>1, DetectorAssumption DEF DetectorInit, DetectorTypeOK
  <2> QED
    BY <2>1, <2>2 DEF DetectorInit, Paired, InTime, QueueFor
<1>2. PairInv => NoFalseAlarm
  BY DEF PairInv, Paired, NoFalseAlarm
<1> QED
  BY <1>1, <1>2, StepPaired, PTL DEF DetectorSpec

-----------------------------------------------------------------------------
(***************************************************************************)
(* Whatever the sensors miss, a new entry has no twin among those that     *)
(* wait, and what goes leaves the others as they were.                     *)
(***************************************************************************)
LEMMA LeastOf ==
  ASSUME NEW S \in SUBSET Nat, S # {}
  PROVE  \E m \in S : \A k \in S : m <= k
<1> DEFINE R == {p \in Nat \X Nat : p[1] < p[2]}
<1>1. IsWellFoundedOn(R, Nat)
  BY NatLessThanWellFounded, Zenon DEF OpToRel
<1>2. PICK m \in S : \A k \in S : <<k, m>> \notin R
  BY <1>1, WFMin
<1>3. \A k \in S : m <= k
  <2> SUFFICES ASSUME NEW k \in S PROVE m <= k
    OBVIOUS
  <2>1. k \in Nat /\ m \in Nat /\ <<k, m>> \notin R
    BY <1>2
  <2> QED
    BY <2>1
<1> QED
  BY <1>3

(* What Those does up to position n: there is one such function.           *)
Sifts(f, q, T, n) ==
  f = [i \in 0..n |-> IF i = 0 THEN <<>>
                      ELSE IF q[i] \in T THEN Append(f[i - 1], q[i]) ELSE f[i - 1]]

LEMMA SiftExists ==
  ASSUME NEW q, NEW T, NEW n \in Nat
  PROVE  \E f : Sifts(f, q, T, n)
<1> DEFINE Bad == {m \in Nat : ~\E f : Sifts(f, q, T, m)}
<1> SUFFICES ASSUME Bad # {} PROVE FALSE
  OBVIOUS
<1>1. PICK m \in Bad : \A k \in Bad : m <= k
  BY LeastOf
<1>2. CASE m = 0
  <2> DEFINE f == [i \in 0..0 |-> <<>>]
  <2>1. Sifts(f, q, T, 0)
    BY DEF Sifts
  <2> QED
    BY <1>1, <1>2, <2>1
<1>3. CASE m # 0
  <2>1. m \in Nat /\ m - 1 \in Nat /\ m - 1 < m
    BY <1>1, <1>3
  <2>2. PICK g : Sifts(g, q, T, m - 1)
    BY <1>1, <2>1
  <2> DEFINE f == [i \in 0..m |-> IF i < m THEN g[i]
                                  ELSE IF q[m] \in T THEN Append(g[m - 1], q[m])
                                                     ELSE g[m - 1]]
  <2>3. \A i \in 0..(m - 1) : f[i] = g[i] /\ i \in 0..m
    BY <2>1
  <2>4. \A i \in 0..(m - 1) :
          g[i] = IF i = 0 THEN <<>>
                 ELSE IF q[i] \in T THEN Append(g[i - 1], q[i]) ELSE g[i - 1]
    BY <2>2 DEF Sifts
  <2>5. \A i \in 0..m :
          f[i] = IF i = 0 THEN <<>>
                 ELSE IF q[i] \in T THEN Append(f[i - 1], q[i]) ELSE f[i - 1]
    <3> SUFFICES ASSUME NEW i \in 0..m
                 PROVE  f[i] = IF i = 0 THEN <<>>
                               ELSE IF q[i] \in T THEN Append(f[i - 1], q[i]) ELSE f[i - 1]
      OBVIOUS
    <3>1. CASE i = m
      <4>1. f[m - 1] = g[m - 1] /\ m \in 0..m
        BY <2>1, <2>3
      <4>2. f[m] = IF q[m] \in T THEN Append(g[m - 1], q[m]) ELSE g[m - 1]
        BY <2>1, <4>1
      <4> HIDE DEF f
      <4> QED
        BY <1>3, <3>1, <4>1, <4>2
    <3>2. CASE i # m
      <4>1. i \in 0..(m - 1) /\ (i # 0 => i - 1 \in 0..(m - 1))
        BY <2>1, <3>2
      <4>2. f[i] = g[i] /\ (i # 0 => f[i - 1] = g[i - 1])
        BY <2>3, <4>1
      <4> HIDE DEF f
      <4> QED
        BY <2>4, <4>1, <4>2
    <3> QED
      BY <3>1, <3>2
  <2>6. f = [i \in 0..m |-> f[i]]
    OBVIOUS
  <2> HIDE DEF f
  <2>7. Sifts(f, q, T, m)
    BY <2>5, <2>6 DEF Sifts
  <2> QED
    BY <1>1, <2>7
<1> QED
  BY <1>2, <1>3

(* r is q without some of its elements, the others in their order.         *)
FirstOf(q, n) == {q[j] : j \in 1..n}
PartOf(r, q, n) ==
  \E g \in [1..Len(r) -> 1..n] :
    /\ \A k \in 1..Len(r) : r[k] = q[g[k]]
    /\ \A j, k \in 1..Len(r) : j < k => g[j] < g[k]

TakesOf(r, q, n, T) == Range(r) = FirstOf(q, n) \cap T
OrSkip(r, x, T) == IF x \in T THEN Append(r, x) ELSE r

LEMMA SiftStep ==
  ASSUME NEW S, NEW q \in Seq(S), NEW T, NEW i \in 1..Len(q), NEW n, n = i - 1,
         NEW r \in Seq(S), PartOf(r, q, n), TakesOf(r, q, n, T),
         NEW s, s = OrSkip(r, q[i], T)
  PROVE  s \in Seq(S) /\ PartOf(s, q, i) /\ TakesOf(s, q, i, T)
<1>1. i \in Nat /\ q[i] \in S /\ 1..i = 1..(i - 1) \cup {i} /\ Len(r) \in Nat
  BY LenProperties, ElementOfSeq
<1>2. PICK g \in [1..Len(r) -> 1..(i - 1)] :
        /\ \A k \in 1..Len(r) : r[k] = q[g[k]]
        /\ \A j, k \in 1..Len(r) : j < k => g[j] < g[k]
  BY DEF PartOf
<1>3. FirstOf(q, i) = FirstOf(q, i - 1) \cup {q[i]}
  BY <1>1 DEF FirstOf
<1>4. CASE q[i] \notin T
  <2>1. g \in [1..Len(r) -> 1..i]
    BY <1>1, <1>2
  <2>2. PartOf(r, q, i)
    BY <1>2, <2>1 DEF PartOf
  <2> QED
    BY <1>3, <1>4, <2>2 DEF OrSkip, TakesOf
<1>5. CASE q[i] \in T
  <2>1. /\ s = Append(r, q[i]) /\ s \in Seq(S) /\ Len(s) = Len(r) + 1
        /\ \A k \in 1..Len(r) : s[k] = r[k]
        /\ s[Len(r) + 1] = q[i]
    BY <1>1, <1>5, AppendProperties DEF OrSkip
  <2> DEFINE h == [k \in 1..(Len(r) + 1) |-> IF k = Len(r) + 1 THEN i ELSE g[k]]
  <2>2. \A k \in 1..(Len(r) + 1) : k # Len(r) + 1 => k \in 1..Len(r)
    BY <1>1
  <2>3. /\ h \in [1..Len(s) -> 1..i] /\ h[Len(r) + 1] = i
        /\ \A k \in 1..Len(r) : h[k] = g[k] /\ g[k] \in 1..(i - 1)
    <3>1. \A k \in 1..Len(r) : g[k] \in 1..(i - 1) /\ g[k] \in 1..i /\ k # Len(r) + 1
      BY <1>1, <1>2
    <3>2. \A k \in 1..(Len(r) + 1) : h[k] \in 1..i
      BY <1>1, <2>2, <3>1
    <3>3. \A k \in 1..Len(r) : k \in 1..(Len(r) + 1)
      BY <1>1
    <3>4. Len(r) + 1 \in 1..(Len(r) + 1)
      BY <1>1
    <3> QED
      BY <2>1, <3>1, <3>2, <3>3, <3>4
  <2> HIDE DEF h
  <2>4. \A k \in 1..Len(s) : s[k] = q[h[k]]
    BY <1>2, <2>1, <2>2, <2>3
  <2>5. \A j, k \in 1..Len(s) : j < k => h[j] < h[k]
    <3> SUFFICES ASSUME NEW j \in 1..Len(s), NEW k \in 1..Len(s), j < k
                 PROVE  h[j] < h[k]
      OBVIOUS
    <3>1. j \in 1..Len(r) /\ h[j] \in 1..(i - 1)
      BY <1>1, <2>1, <2>3
    <3>2. CASE k = Len(r) + 1
      BY <1>1, <2>3, <3>1, <3>2
    <3>3. CASE k # Len(r) + 1
      BY <1>2, <2>1, <2>2, <2>3, <3>1, <3>3
    <3> QED
      BY <3>2, <3>3
  <2>6. PartOf(s, q, i)
    BY <2>3, <2>4, <2>5 DEF PartOf
  <2>7. Range(s) = Range(r) \cup {q[i]}
    <3>1. Range(s) = {s[k] : k \in 1..Len(s)} /\ Range(r) = {r[k] : k \in 1..Len(r)}
      BY <2>1, RangeEquality
    <3>2. 1..Len(s) = 1..Len(r) \cup {Len(r) + 1}
      BY <1>1, <2>1
    <3>3. {s[k] : k \in 1..Len(s)} = {s[k] : k \in 1..Len(r)} \cup {s[Len(r) + 1]}
      BY <3>2
    <3>4. {s[k] : k \in 1..Len(r)} = {r[k] : k \in 1..Len(r)}
      BY <2>1
    <3> QED
      BY <2>1, <3>1, <3>3, <3>4
  <2> QED
    BY <1>3, <1>5, <2>1, <2>6, <2>7 DEF TakesOf
<1> QED
  BY <1>4, <1>5

LEMMA ThoseAre ==
  ASSUME NEW S, NEW q \in Seq(S), NEW T
  PROVE  /\ Those(q, T) \in Seq(S) /\ Range(Those(q, T)) = Range(q) \cap T
         /\ PartOf(Those(q, T), q, Len(q))
<1> DEFINE f == CHOOSE f : Sifts(f, q, T, Len(q))
           Good(i) == /\ f[i] \in Seq(S) /\ PartOf(f[i], q, i)
                      /\ TakesOf(f[i], q, i, T)
           Bad == {i \in Nat : i \in 0..Len(q) /\ ~Good(i)}
<1>1. Those(q, T) = f[Len(q)]
  BY DEF Those, Sifts
<1>2. Sifts(f, q, T, Len(q)) /\ Len(q) \in Nat
  <2>1. Len(q) \in Nat
    BY LenProperties
  <2> QED
    BY <2>1, SiftExists
<1> HIDE DEF f
<1>3. \A i \in 0..Len(q) :
        f[i] = IF i = 0 THEN <<>>
               ELSE IF q[i] \in T THEN Append(f[i - 1], q[i]) ELSE f[i - 1]
  BY <1>2 DEF Sifts
<1>4. ASSUME Bad # {} PROVE FALSE
  <2>1. PICK m \in Bad : \A k \in Bad : m <= k
    <3> HIDE DEF Bad
    <3>1. Bad \in SUBSET Nat
      BY DEF Bad
    <3> QED
      BY <1>4, <3>1, LeastOf
  <2>2. m \in Nat /\ m \in 0..Len(q) /\ ~Good(m)
    BY <2>1
  <2>3. CASE m = 0
    <3>1. f[0] = <<>>
      BY <1>2, <1>3
    <3>2. /\ <<>> \in Seq(S) /\ Range(<<>>) = {} /\ FirstOf(q, 0) = {}
          /\ Len(<<>>) = 0
      BY EmptySeq DEF Range, FirstOf
    <3>3. PartOf(<<>>, q, 0)
      <4>1. 1..Len(<<>>) = {}
        BY <3>2
      <4>2. [k \in {} |-> k] \in [{} -> 1..0]
        OBVIOUS
      <4> QED
        BY <4>1, <4>2 DEF PartOf
    <3> QED
      BY <2>2, <2>3, <3>1, <3>2, <3>3 DEF TakesOf
  <2>4. CASE m # 0
    <3>1. m \in 1..Len(q) /\ m - 1 \in 0..Len(q) /\ m - 1 \in Nat /\ ~(m <= m - 1)
      BY <1>2, <2>2, <2>4
    <3>2. Good(m - 1)
      BY <2>1, <3>1
    <3>3. f[m] = IF q[m] \in T THEN Append(f[m - 1], q[m]) ELSE f[m - 1]
      BY <1>3, <2>2, <2>4
    <3>4. PICK r : r = f[m - 1]
      OBVIOUS
    <3>5. PICK s : s = f[m]
      OBVIOUS
    <3>9. PICK n : n = m - 1
      OBVIOUS
    <3>6. r \in Seq(S) /\ PartOf(r, q, n) /\ TakesOf(r, q, n, T)
      BY <3>2, <3>4, <3>9
    <3>7. s = OrSkip(r, q[m], T)
      BY <3>3, <3>4, <3>5 DEF OrSkip
    <3>8. s \in Seq(S) /\ PartOf(s, q, m) /\ TakesOf(s, q, m, T)
      <4> HIDE DEF Good, Bad
      <4> QED
        BY <3>1, <3>6, <3>7, <3>9, SiftStep
    <3> QED
      BY <2>2, <3>5, <3>8
  <2> QED
    BY <2>3, <2>4
<1>5. Good(Len(q))
  <2>1. Len(q) \in 0..Len(q)
    BY <1>2
  <2> QED
    BY <1>2, <1>4, <2>1
<1>6. Range(q) = FirstOf(q, Len(q))
  BY RangeEquality DEF FirstOf
<1> QED
  BY <1>1, <1>5, <1>6 DEF TakesOf

Arrived == \A i \in 1..Len(pending) : pending[i].at <= now
ApartInv == DetectorTypeOK /\ Arrived /\ NoTwinsWaiting

(* Entries that were waiting already, and perhaps fewer of them.           *)
LEMMA FewerWait ==
  ASSUME ApartInv, DetectorTypeOK', now' = now, Range(pending') \subseteq Range(pending)
  PROVE  ApartInv'
<1>1. /\ Range(pending) = {pending[i] : i \in 1..Len(pending)}
      /\ Range(pending') = {pending'[i] : i \in 1..Len(pending')}
  BY RangeEquality DEF ApartInv, DetectorTypeOK
<1>2. \A i \in 1..Len(pending') : \E k \in 1..Len(pending) : pending'[i] = pending[k]
  BY <1>1
<1>3. Arrived'
  BY <1>2 DEF ApartInv, Arrived
<1>4. NoTwinsWaiting'
  <2> SUFFICES ASSUME NEW i \in 1..Len(pending'), NEW j \in 1..Len(pending'),
                      pending'[i].pid = pending'[j].pid,
                      {now - pending'[i].at, now - pending'[j].at} \subseteq 0..Tolerance
               PROVE  pending'[i].sensor = pending'[j].sensor
    BY DEF NoTwinsWaiting
  <2>1. PICK k \in 1..Len(pending) : pending'[i] = pending[k]
    BY <1>2
  <2>2. PICK m \in 1..Len(pending) : pending'[j] = pending[m]
    BY <1>2
  <2> QED
    BY <2>1, <2>2 DEF ApartInv, NoTwinsWaiting
<1> QED
  BY <1>3, <1>4 DEF ApartInv

LEMMA RemoveEntry ==
  ASSUME NEW S, NEW q \in Seq(S), NEW i \in 1..Len(q)
  PROVE  RemoveAt(q, i) \in Seq(S) /\ Range(RemoveAt(q, i)) \subseteq Range(q)
<1> DEFINE a == SubSeq(q, 1, i - 1)
           b == SubSeq(q, i + 1, Len(q))
<1>1. Len(q) \in Nat /\ \A k \in 1..Len(q) : q[k] \in S
  BY LenProperties, ElementOfSeq
<1>2. /\ a \in Seq(S) /\ b \in Seq(S)
      /\ \A k \in 1..Len(a) : a[k] \in Range(q)
      /\ \A k \in 1..Len(b) : b[k] \in Range(q)
  <2>1. Range(q) = {q[k] : k \in 1..Len(q)}
    BY RangeEquality
  <2>2. /\ a \in Seq(S) /\ Len(a) = i - 1 /\ \A k \in 1..(i - 1) : a[k] = q[k]
    <3>1. /\ 1 \in Int /\ i - 1 \in Int /\ \A k \in 1..(i - 1) : q[k] \in S
      BY <1>1
    <3>2. /\ a \in Seq(S) /\ Len(a) = IF 1 <= i - 1 THEN (i - 1) - 1 + 1 ELSE 0
          /\ \A k \in 1..((i - 1) - 1 + 1) : a[k] = q[1 + k - 1]
      BY <3>1, SubSeqProperties
    <3> HIDE DEF a
    <3>3. \A k \in 1..(i - 1) : k \in 1..((i - 1) - 1 + 1) /\ 1 + k - 1 = k
      BY <1>1
    <3> QED
      <4>1. Len(a) = i - 1
        BY <1>1, <3>2
      <4>2. \A k \in 1..(i - 1) : a[k] = q[1 + k - 1] /\ 1 + k - 1 = k
        BY <3>2, <3>3
      <4> QED
        BY <3>2, <4>1, <4>2
  <2>3. /\ b \in Seq(S) /\ Len(b) = Len(q) - i
        /\ \A k \in 1..(Len(q) - i) : b[k] = q[i + k] /\ i + k \in 1..Len(q)
    <3>1. /\ i + 1 \in Int /\ Len(q) \in Int /\ \A k \in (i + 1)..Len(q) : q[k] \in S
      BY <1>1
    <3>2. /\ b \in Seq(S) /\ Len(b) = IF i + 1 <= Len(q) THEN Len(q) - (i + 1) + 1 ELSE 0
          /\ \A k \in 1..(Len(q) - (i + 1) + 1) : b[k] = q[(i + 1) + k - 1]
      BY <3>1, SubSeqProperties
    <3> HIDE DEF b
    <3>3. \A k \in 1..(Len(q) - i) : /\ k \in 1..(Len(q) - (i + 1) + 1)
                                     /\ (i + 1) + k - 1 = i + k /\ i + k \in 1..Len(q)
      BY <1>1
    <3>4. Len(b) = Len(q) - i
      BY <1>1, <3>2
    <3> QED
      BY <3>2, <3>3, <3>4
  <2> HIDE DEF a, b
  <2>4. \A k \in 1..(i - 1) : k \in 1..Len(q)
    BY <1>1
  <2> QED
    BY <2>1, <2>2, <2>3, <2>4
<1>3. RemoveAt(q, i) = a \o b
  BY DEF RemoveAt
<1> HIDE DEF a, b
<1>4. /\ a \o b \in Seq(S) /\ Len(a) \in Nat /\ Len(b) \in Nat /\ Len(a \o b) = Len(a) + Len(b)
      /\ \A k \in 1..(Len(a) + Len(b)) : (a \o b)[k] = IF k <= Len(a) THEN a[k] ELSE b[k - Len(a)]
  BY <1>2, ConcatProperties, LenProperties
<1>5. \A k \in 1..Len(a \o b) : (a \o b)[k] \in Range(q)
  <2> SUFFICES ASSUME NEW k \in 1..(Len(a) + Len(b)) PROVE (a \o b)[k] \in Range(q)
    BY <1>4
  <2>1. k <= Len(a) => k \in 1..Len(a)
    BY <1>4
  <2>2. ~(k <= Len(a)) => k - Len(a) \in 1..Len(b)
    BY <1>4
  <2> QED
    BY <1>2, <1>4, <2>1, <2>2
<1>6. Range(a \o b) = {(a \o b)[k] : k \in 1..Len(a \o b)}
  BY <1>4, RangeEquality
<1> QED
  BY <1>3, <1>4, <1>5, <1>6

(* Nothing that waits is its twin: the new entry comes to lie beside it.   *)
LEMMA NoTwinAppends ==
  ASSUME ApartInv, NEW s \in Sensors, seen[s] < Len(facts),
         NEW f \in Facts, Twins(s, f) = {}, DetectorTypeOK', now' = now,
         NEW e \in Entry, e.pid = f.pid, e.sensor = s, e.at = now,
         pending' = Append(pending, e)
  PROVE  ApartInv'
<1>1. /\ pending \in Seq(Entry) /\ Len(pending) \in Nat /\ Len(pending') = Len(pending) + 1
      /\ \A i \in 1..Len(pending) : pending'[i] = pending[i] /\ pending[i] \in Entry
      /\ pending'[Len(pending) + 1] = e /\ now \in Nat /\ Tolerance \in Nat
  <2>1. pending \in Seq(Entry) /\ now \in Nat /\ Tolerance \in Nat
    BY Shape DEF ApartInv, DetectorTypeOK
  <2> QED
    BY <2>1, AppendProperties, LenProperties, ElementOfSeq
<1>2. \A i \in 1..Len(pending') : i \in 1..Len(pending) \/ i = Len(pending) + 1
  BY <1>1
<1>3. Arrived'
  BY <1>1, <1>2 DEF ApartInv, Arrived
<1>4. \A i \in 1..Len(pending) :
        pending[i].pid = e.pid /\ now - pending[i].at \in 0..Tolerance => pending[i].sensor = s
  BY DEF Twins
<1>5. NoTwinsWaiting'
  <2> SUFFICES ASSUME NEW i \in 1..Len(pending'), NEW j \in 1..Len(pending'),
                      pending'[i].pid = pending'[j].pid,
                      {now - pending'[i].at, now - pending'[j].at} \subseteq 0..Tolerance
               PROVE  pending'[i].sensor = pending'[j].sensor
    BY DEF NoTwinsWaiting
  <2>1. CASE i \in 1..Len(pending) /\ j \in 1..Len(pending)
    BY <1>1, <2>1 DEF ApartInv, NoTwinsWaiting
  <2>2. CASE i = Len(pending) + 1 /\ j \in 1..Len(pending)
    BY <1>1, <1>4, <2>2
  <2>3. CASE i \in 1..Len(pending) /\ j = Len(pending) + 1
    BY <1>1, <1>4, <2>3
  <2> QED
    BY <1>2, <2>1, <2>2, <2>3
<1> QED
  BY <1>3, <1>5 DEF ApartInv

LEMMA SeenNext ==
  ASSUME DetectorTypeOK, NEW s \in Sensors, seen[s] < Len(facts),
         seen' = [seen EXCEPT ![s] = @ + 1]
  PROVE  seen' \in [Sensors -> 0..Len(facts)] /\ seen[s] + 1 \in 1..Len(facts)
<1>1. seen[s] + 1 \in 1..Len(facts) /\ seen[s] + 1 \in 0..Len(facts)
  BY Shape
<1>2. seen \in [Sensors -> 0..Len(facts)]
  BY DEF DetectorTypeOK
<1> QED
  BY <1>1, <1>2

(* mark_alerted keeps the shape of last_alerted_.                          *)
LEMMA AlertTyped ==
  ASSUME DOMAIN lastAlerted \subseteq Processes, NEW p \in Processes, Alert(p)
  PROVE  DOMAIN lastAlerted' \subseteq Processes
BY DEF Alert

LEMMA ProcessApart ==
  ASSUME ApartInv, NEW s \in Sensors, ProcessEvent(s)
  PROVE  ApartInv'
<1> DEFINE f == facts[seen[s] + 1]
           twins == Twins(s, f)
           i == First(twins)
           e == [pid |-> f.pid, content |-> f.content, sensor |-> s, at |-> now]
<1>1. /\ seen[s] < Len(facts) /\ seen' = [seen EXCEPT ![s] = @ + 1]
      /\ UNCHANGED <<now, facts, lastAlerted, expired, cooled, missed>>
      /\ pending' = IF twins = {} THEN Append(pending, e) ELSE RemoveAt(pending, i)
      /\ marking' \in {<<>>, <<f.pid>>}
  BY DEF ProcessEvent
<1>2. DetectorTypeOK /\ pending \in Seq(Entry) /\ facts \in Seq(Facts)
  BY DEF ApartInv, DetectorTypeOK, Facts
<1>3. f \in Facts /\ f.pid \in Processes
  <2>1. seen[s] + 1 \in 1..Len(facts)
    BY <1>1, <1>2, SeenNext
  <2>2. f \in Facts
    BY <1>2, <2>1, Shape
  <2> QED
    BY <2>2 DEF Facts
<1>4. seen' \in [Sensors -> 0..Len(facts)]
  BY <1>1, <1>2, SeenNext
<1>5. marking' \in Seq(Processes)
  <2>1. \A x \in Processes : <<x>> \in Seq(Processes) /\ <<>> \in Seq(Processes)
    OBVIOUS
  <2> HIDE DEF f
  <2> QED
    BY <1>1, <1>3, <2>1
<1>6. pending' \in Seq(Entry) => DetectorTypeOK'
  BY <1>1, <1>2, <1>4, <1>5 DEF DetectorTypeOK
<1>7. CASE twins = {}
  <2>1. e \in Entry /\ e.pid = f.pid /\ e.sensor = s /\ e.at = now
    BY <1>2, <1>3 DEF Facts, Entry, DetectorTypeOK
  <2>2. pending' = Append(pending, e)
    BY <1>1, <1>7
  <2> HIDE DEF e
  <2>3. pending' \in Seq(Entry)
    BY <1>2, <2>1, <2>2, AppendProperties
  <2> QED
    BY <1>1, <1>3, <1>6, <1>7, <2>1, <2>2, <2>3, NoTwinAppends
<1>8. CASE twins # {}
  <2>1. i \in 1..Len(pending)
    <3>1. twins \in SUBSET Nat /\ twins \subseteq 1..Len(pending)
      BY <1>2, Shape DEF Twins
    <3>2. \E m \in twins : \A j \in twins : m <= j
      <4> HIDE DEF twins
      <4> QED
        BY <1>8, <3>1, LeastOf
    <3> QED
      BY <3>1, <3>2 DEF First
  <2>2. pending' = RemoveAt(pending, i)
    BY <1>1, <1>8
  <2> HIDE DEF i
  <2>3. pending' \in Seq(Entry) /\ Range(pending') \subseteq Range(pending)
    BY <1>2, <2>1, <2>2, RemoveEntry
  <2> QED
    BY <1>1, <1>6, <2>3, FewerWait
<1> QED
  BY <1>7, <1>8

LEMMA MarkApart ==
  ASSUME ApartInv, MarkMismatch
  PROVE  ApartInv'
<1>1. /\ DetectorTypeOK /\ Alert(Head(marking)) /\ marking # <<>> /\ marking' = <<>>
      /\ UNCHANGED <<now, facts, seen, pending, expired, cooled, missed>>
  BY DEF MarkMismatch, ApartInv
<1>2. Head(marking) \in Processes /\ marking' \in Seq(Processes)
  BY <1>1 DEF DetectorTypeOK
<1>3. DOMAIN lastAlerted' \subseteq Processes
  BY <1>1, <1>2, AlertTyped DEF DetectorTypeOK
<1>4. DetectorTypeOK'
  BY <1>1, <1>2, <1>3 DEF DetectorTypeOK
<1> QED
  BY <1>1, <1>4 DEF ApartInv, Arrived, NoTwinsWaiting

LEMMA ExpiryApart ==
  ASSUME ApartInv, ExpiryStep
  PROVE  ApartInv'
<1>1. DetectorTypeOK /\ pending \in Seq(Entry) /\ expired \in Seq(Entry)
  BY DEF ApartInv, DetectorTypeOK
<1>2. CASE Sweep
  <2>1. /\ Those(pending, Old) \in Seq(Entry)
        /\ Those(pending, Range(pending) \ Old) \in Seq(Entry)
        /\ Range(Those(pending, Range(pending) \ Old)) \subseteq Range(pending)
    BY <1>1, ThoseAre
  <2>2. ~cooled
    BY <1>1, <1>2 DEF Sweep, DetectorTypeOK
  <2> QED
    BY <1>1, <1>2, <2>1, <2>2, FewerWait DEF Sweep, DetectorTypeOK
<1>3. CASE FireAlert
  <2>1. expired # <<>> /\ Tail(expired) \in Seq(Entry)
    BY <1>1, <1>3, HeadTailProperties DEF FireAlert
  <2> QED
    BY <1>1, <1>3, <2>1, FewerWait DEF FireAlert, DetectorTypeOK
<1>4. CASE MarkAlerted
  <2>1. expired # <<>> /\ Tail(expired) \in Seq(Entry) /\ Head(expired) \in Entry
    BY <1>1, <1>4, HeadTailProperties DEF MarkAlerted, DetectorTypeOK
  <2>2. DOMAIN lastAlerted' \subseteq Processes
    BY <1>1, <1>4, <2>1, AlertTyped DEF MarkAlerted, DetectorTypeOK, Entry
  <2> QED
    BY <1>1, <1>4, <2>1, <2>2, FewerWait DEF MarkAlerted, DetectorTypeOK
<1> QED
  BY <1>2, <1>3, <1>4 DEF ExpiryStep

InWindow(e, n) == n - e.at \in 0..Tolerance

Apart(q, n) ==
  \A i, j \in 1..Len(q) :
    q[i].pid = q[j].pid /\ InWindow(q[i], n) /\ InWindow(q[j], n)
      => q[i].sensor = q[j].sensor

LEMMA ApartLater ==
  ASSUME NEW q, NEW n \in Nat, \A i \in 1..Len(q) : q[i].at \in Nat /\ q[i].at <= n, Apart(q, n)
  PROVE  Apart(q, n + 1)
<1>1. ASSUME NEW i \in 1..Len(q), InWindow(q[i], n + 1)
      PROVE  InWindow(q[i], n)
  <2>1. Tolerance \in Nat /\ q[i].at \in Nat /\ q[i].at <= n
    BY DetectorAssumption
  <2>2. (n + 1) - q[i].at <= Tolerance
    BY <1>1 DEF InWindow
  <2>3. n - q[i].at \in 0..Tolerance
    BY <2>1, <2>2
  <2> QED
    BY <2>3 DEF InWindow
<1> SUFFICES ASSUME NEW i \in 1..Len(q), NEW j \in 1..Len(q), q[i].pid = q[j].pid,
                    InWindow(q[i], n + 1), InWindow(q[j], n + 1)
             PROVE  q[i].sensor = q[j].sensor
  BY DEF Apart
<1>2. InWindow(q[i], n) /\ InWindow(q[j], n)
  BY <1>1
<1> QED
  BY <1>2 DEF Apart

LEMMA WorldApart ==
  ASSUME ApartInv,
         Tick \/ (\E s \in Sensors : Miss(s)) \/ \E p \in Processes, c \in Contents : Fact(p, c)
  PROVE  ApartInv'
<1>1. DetectorTypeOK /\ Arrived /\ NoTwinsWaiting
  BY DEF ApartInv
<1>2. CASE Tick
  <2>1. /\ now' = now + 1 /\ now < MaxTime
        /\ UNCHANGED <<facts, seen, pending, lastAlerted, expired, cooled, marking, missed>>
    BY <1>2 DEF Tick
  <2>2. DetectorTypeOK'
    BY <1>1, <2>1, Shape DEF DetectorTypeOK
  <2>3. \A i \in 1..Len(pending) : pending[i].at \in Nat /\ pending[i].at <= now /\ now \in Nat
    BY <1>1, Shape DEF Entry, Arrived
  <2>4. Arrived'
    BY <2>1, <2>3 DEF Arrived
  <2>6. NoTwinsWaiting'
    <3>1. Apart(pending, now)
      BY <1>1 DEF NoTwinsWaiting, Apart, InWindow
    <3>2. Apart(pending, now + 1)
      BY <2>3, <3>1, ApartLater, Shape, <1>1
    <3>3. Apart(pending', now')
      BY <2>1, <3>2
    <3> QED
      BY <3>3 DEF NoTwinsWaiting, Apart, InWindow
  <2> QED
    BY <2>2, <2>4, <2>6 DEF ApartInv
<1>3. ASSUME NEW s \in Sensors, Miss(s) PROVE ApartInv'
  <2>1. /\ seen' = [seen EXCEPT ![s] = @ + 1] /\ seen[s] < Len(facts)
        /\ missed' = missed \cup {seen[s] + 1}
        /\ UNCHANGED <<now, facts, pending, lastAlerted, expired, cooled, marking>>
    BY <1>3 DEF Miss
  <2>2. seen' \in [Sensors -> 0..Len(facts)] /\ seen[s] + 1 \in 1..Len(facts)
    BY <1>1, <2>1, SeenNext
  <2>3. missed' \subseteq 1..Len(facts)
    BY <1>1, <2>1, <2>2 DEF DetectorTypeOK
  <2> QED
    BY <1>1, <2>1, <2>2, <2>3 DEF DetectorTypeOK, ApartInv, Arrived, NoTwinsWaiting
<1>4. ASSUME NEW p \in Processes, NEW c \in Contents, Fact(p, c) PROVE ApartInv'
  <2> DEFINE f == [pid |-> p, content |-> c, at |-> now]
  <2>1. /\ facts' = Append(facts, f) /\ f \in Facts /\ facts \in Seq(Facts)
        /\ UNCHANGED <<now, seen, pending, lastAlerted, expired, cooled, marking, missed>>
    BY <1>1, <1>4 DEF Fact, Facts, DetectorTypeOK
  <2> HIDE DEF f
  <2>2. facts' \in Seq(Facts) /\ Len(facts') = Len(facts) + 1 /\ Len(facts) \in Nat
    BY <2>1, AppendProperties, LenProperties
  <2>3. seen \in [Sensors -> 0..Len(facts')] /\ missed \subseteq 1..Len(facts')
    BY <1>1, <2>2, Shape DEF DetectorTypeOK
  <2>4. DetectorTypeOK'
    BY <1>1, <2>1, <2>2, <2>3 DEF DetectorTypeOK, Facts
  <2> QED
    BY <1>1, <2>1, <2>4 DEF ApartInv, Arrived, NoTwinsWaiting
<1> QED
  BY <1>2, <1>3, <1>4

(* Complete reports raise no alert, and whatever a sensor misses, however  *)
(* the sensors' threads and the sweep take turns, no event waits beside    *)
(* its twin: process_event and expiry_loop.                                *)
THEOREM ReportsArePaired == DetectorSpec => []ReportsPaired
<1>1. DetectorInit => ApartInv
  <2> SUFFICES ASSUME DetectorInit PROVE ApartInv
    OBVIOUS
  <2>1. Len(<<>>) = 0 /\ facts = <<>> /\ pending = <<>> /\ \A S : <<>> \in Seq(S)
    BY EmptySeq DEF DetectorInit
  <2>2. DetectorTypeOK
    BY <2>1, DetectorAssumption DEF DetectorInit, DetectorTypeOK
  <2> QED
    BY <2>1, <2>2 DEF ApartInv, Arrived, NoTwinsWaiting
<1>2. ApartInv /\ [DetectorNext]_detectorVars => ApartInv'
  <2> SUFFICES ASSUME ApartInv, [DetectorNext]_detectorVars PROVE ApartInv'
    OBVIOUS
  <2>1. CASE UNCHANGED detectorVars
    BY <2>1 DEF detectorVars, ApartInv, DetectorTypeOK, Arrived, NoTwinsWaiting
  <2> QED
    BY <2>1, ProcessApart, MarkApart, ExpiryApart, WorldApart DEF DetectorNext
<1>3. ApartInv => NoTwinsWaiting
  BY DEF ApartInv
<1>4. NoFalseAlarm /\ NoTwinsWaiting => ReportsPaired
  BY DEF ReportsPaired
<1> QED
  BY <1>1, <1>2, <1>3, <1>4, PairedWhileComplete, PTL DEF DetectorSpec
=============================================================================
