----------------------------- MODULE EventFeed -----------------------------
(***************************************************************************)
(* The pipeline's live feed (pipeline/server_v2.py): event ids, the shared *)
(* hot buffer and the per-host buffers that insert_batch fills, and what   *)
(* GET /events/since answers from them.  Each connection thread runs       *)
(* insert_batch; the steps are what it does under one lock, since no lock  *)
(* spans two of them.                                                      *)
(***************************************************************************)
EXTENDS Integers, Sequences, FiniteSets, FiniteSetsExt, Functions, Sifting

CONSTANTS
  Threads,    \* the connection threads
  Hosts,      \* "linux", "windows"
  Kinds,      \* of event: high-signal or not, and those fetched once more
  MaxEvents,  \* bound: events the agents send
  MaxBatch,   \* bound: events in one batch
  BufferMax,  \* maxlen of the buffers
  Limit,      \* the limit of a request to /events/since
  LegacyMax,  \* the largest id in the legacy database, 0 if there is none
  MaxBoots    \* bound: restarts of the pipeline

ASSUME FeedAssumption ==
  /\ Kinds \subseteq {"high", "low", "auth", "tmp", "shm"} /\ Kinds # {}
  /\ Hosts # {}
  /\ IsFiniteSet(Hosts) /\ Limit \in Nat /\ Limit >= Cardinality(Hosts)
  /\ MaxEvents \in Nat /\ MaxBatch \in Nat \ {0} /\ BufferMax \in Nat \ {0}
  /\ LegacyMax \in Nat /\ MaxBoots \in Nat

VARIABLES
  seq,      \* EVENT_SEQ
  hot,      \* HOT_BUFFER
  buf,      \* HOST_BUFFERS
  at,       \* at[t]: where thread t is in insert_batch
  batch,    \* batch[t]: the events it inserts
  parquet,  \* the events a restart finds, in the WAL or in Parquet
  boots,    \* restarts so far
  count,    \* history: events so far; an event's n is its number
  overtaken \* history: the events that newer ones of other threads overtook

feedVars == <<seq, hot, buf, at, batch, parquet, boots, count, overtaken>>

Ids(events) == {e.id : e \in events}
Fed == Range(hot) \cup UNION {Range(buf[h]) : h \in Hosts}

FeedInit ==
  /\ seq = IF LegacyMax > 0 THEN LegacyMax + 1 ELSE 0
  /\ hot = <<>> /\ buf = [h \in Hosts |-> <<>>]
  /\ at = [t \in Threads |-> "ids"] /\ batch = [t \in Threads |-> <<>>]
  /\ parquet = {} /\ boots = 0 /\ count = 0 /\ overtaken = {}

(* next_id: the first id of all comes from the clock, which is past every  *)
(* id that earlier sessions gave out.                                      *)
ClockSeed == 100 * (boots + 1)
NextId == (IF seq = 0 THEN ClockSeed ELSE seq) + 1

(* enrich_batch: the events of the batch get their ids one by one, under   *)
(* SEQ_LOCK, and any number of ids goes to other threads in between.       *)
AssignId(t) ==
  /\ at[t] = "ids" /\ Len(batch[t]) < MaxBatch /\ count < MaxEvents
  /\ \E h \in Hosts, k \in Kinds :
       batch' = [batch EXCEPT ![t] =
                   Append(@, [n |-> count + 1, id |-> NextId, host |-> h,
                              kind |-> k, boot |-> boots])]
  /\ seq' = NextId
  /\ count' = count + 1
  /\ UNCHANGED <<hot, buf, at, parquet, boots, overtaken>>

(* A deque that is full drops its oldest element.                          *)
Pushed(q, events) ==
  LET r == q \o events
  IN  SubSeq(r, 1 + (IF Len(r) > BufferMax THEN Len(r) - BufferMax ELSE 0),
             Len(r))

(* The events on their way to their host's buffer that newer ones of       *)
(* thread t reach the shared buffer before, or that it drops.              *)
Overtaken(t) ==
  LET others == UNION {Range(batch[u]) : u \in {v \in Threads \ {t} : at[v] # "log"}}
      dropped == (Range(hot) \cup Range(batch[t])) \ Range(Pushed(hot, batch[t]))
  IN  {e \in others : e \in dropped \/ \E f \in Range(batch[t]) : e.id < f.id}
        \cup (Range(batch[t]) \cap dropped)

PutHot(t) ==
  /\ at[t] = "ids" /\ batch[t] # <<>>
  /\ hot' = Pushed(hot, batch[t])
  /\ overtaken' = overtaken \cup Overtaken(t)
  /\ at' = [at EXCEPT ![t] = "host"]
  /\ UNCHANGED <<seq, buf, batch, parquet, boots, count>>

SharedBuffer(e) == CHOOSE h \in Hosts : TRUE   \* mutant: one buffer for all
BufferOf(e) == e.host

PutHost(t) ==
  /\ at[t] = "host"
  /\ buf' = [h \in Hosts |->
               Pushed(buf[h], Those(batch[t], {e \in Range(batch[t]) : BufferOf(e) = h}))]
  /\ at' = [at EXCEPT ![t] = "log"]
  /\ UNCHANGED <<seq, hot, batch, parquet, boots, count, overtaken>>

(* wal_append: from here on the batch survives a restart.                  *)
Persist(t) ==
  /\ at[t] = "log"
  /\ parquet' = parquet \cup Range(batch[t])
  /\ batch' = [batch EXCEPT ![t] = <<>>]
  /\ at' = [at EXCEPT ![t] = "ids"]
  /\ UNCHANGED <<seq, hot, buf, boots, count, overtaken>>

(* main: after WAL recovery the sequence is seeded from the legacy         *)
(* database if there is one, else from Parquet.                            *)
MinOfParquet == IF parquet = {} THEN 0 ELSE Min(Ids(parquet))  \* mutant: MIN(id)
MaxOfParquet == IF parquet = {} THEN 0 ELSE Max(Ids(parquet)) + 1
Seed == IF LegacyMax > 0 THEN LegacyMax + 1 ELSE MaxOfParquet

Restart ==
  /\ boots < MaxBoots
  /\ boots' = boots + 1
  /\ seq' = Seed
  /\ hot' = <<>> /\ buf' = [h \in Hosts |-> <<>>]
  /\ at' = [t \in Threads |-> "ids"]
  /\ batch' = [t \in Threads |-> <<>>]
  /\ overtaken' = {}
  /\ UNCHANGED <<parquet, count>>

Insert(t) == AssignId(t) \/ PutHot(t) \/ PutHost(t) \/ Persist(t)

-----------------------------------------------------------------------------
(* /events and /events/since.                                              *)
NewestOf(q) == IF q = <<>> THEN 0 ELSE Max(Ids(Range(q)))

Latest(k, events) ==
  {e \in events : Cardinality({f \in events : f.id > e.id}) < k}
Earliest(k, events) ==
  {e \in events : Cardinality({f \in events : f.id < e.id}) < k}

(* Too many events: each host gets its share, high-signal types first.     *)
Share(events, quota) ==
  LET high == Latest(quota, {e \in events : e.kind = "high"})
      low == Latest(quota - Cardinality(high),
                    {e \in events : e.kind # "high"})
  IN  high \cup low

OldestFirst(events) == events     \* mutant: no share per host
Balanced(events) ==
  LET present == {e.host : e \in events}
      quota == Limit \div Cardinality(present)
  IN  UNION {Share({e \in events : e.host = h}, quota) : h \in present}

(* The response: the shared buffer as it was, the host buffers as they are *)
(* now, cut to the limit.                                                  *)
Newer(snapshot, since) ==
  {e \in Range(snapshot) \cup UNION {Range(buf[h]) : h \in Hosts} : e.id > since}
Since(snapshot, since) ==
  LET events == Newer(snapshot, since)
  IN  Earliest(Limit, IF Cardinality(events) > Limit THEN Balanced(events)
                                                     ELSE events)
=============================================================================
