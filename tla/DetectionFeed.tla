--------------------------- MODULE DetectionFeed ---------------------------
(***************************************************************************)
(* The detection engine's consumption of the feed of EventFeed:            *)
(* _fetch_new of detection/engine.py, with its cursor, the probe that      *)
(* detects a restart of the pipeline and the three supplemental fetches,   *)
(* and the part of run_once that counts authentication failures (T1110),   *)
(* all of them from one address.  The engine starts on an empty pipeline.  *)
(* The other rules are not modelled: an event that run_once got to see is  *)
(* in seen.                                                                *)
(***************************************************************************)
EXTENDS EventFeed

CONSTANTS
  Window,     \* T1110_WINDOW_SEC, in poll cycles
  Threshold,  \* T1110_FAIL_THRESHOLD
  Reach,      \* how far behind the cursor a file open is taken once more
  MaxFaults   \* bound: failed requests, and exceptions in run_once

ASSUME EngineAssumption ==
  /\ Window \in Nat /\ Threshold \in Nat \ {0} /\ Reach \in Nat
  /\ MaxFaults \in Nat

VARIABLES
  cursor,   \* _max_seen_id
  phase,    \* where the engine is in its cycle
  snap,     \* the request in progress: the shared buffer as it was copied
  got,      \* the events of this cycle
  seen,     \* history: the events analysed
  missed,   \* history: the events of a cycle that raised
  hist,     \* _t1110_failures: how many cycles ago a failure was counted
  alerted,  \* has T1110 been reported?
  cut,      \* history: the events that the quota kept from a response
  rewound,  \* history: has a probe mistaken this pipeline for a new one?
  faults

engineVars ==
  <<cursor, phase, snap, got, seen, missed, hist, alerted, cut, rewound, faults>>
vars == <<feedVars, engineVars>>

Init ==
  /\ FeedInit
  /\ cursor = 0 /\ phase = "probe" /\ snap = <<>>
  /\ got = {} /\ seen = {} /\ missed = {}
  /\ hist = <<>> /\ alerted = FALSE
  /\ cut = {} /\ rewound = FALSE /\ faults = 0

(* The kinds of event that are fetched a second time, in this order.       *)
Supplements == {"tmp", "shm", "auth"}
After(k) == IF k = "tmp" THEN "shm" ELSE IF k = "shm" THEN "auth" ELSE "analyse"

Handled == got \cup seen \cup missed

Fault == faults < MaxFaults /\ faults' = faults + 1

(* A cycle takes time: what leaves the window is counted no more.          *)
Aged == Those([i \in 1..Len(hist) |-> hist[i] + 1], 0..Window)

(* The probe: a newest id behind the cursor means that the pipeline has    *)
(* been restarted.                                                         *)
KeepCursor == cursor    \* mutant: no restart detection
CursorAfterProbe ==
  IF hot # <<>> /\ NewestOf(hot) < cursor THEN 0 ELSE cursor

Probe ==
  /\ phase = "probe"
  /\ hist' = Aged
  /\ phase' = "since"
  /\ cursor' = CursorAfterProbe
  /\ rewound' = (rewound \/ (cursor' # cursor
                   /\ \E e \in Handled : e.boot = boots /\ e.kind \notin Supplements))
  /\ UNCHANGED <<feedVars, snap, got, seen, missed, alerted, cut, faults>>

(* api_get returns {} when a request fails: no probe, or no events.        *)
ProbeFails ==
  /\ phase = "probe" /\ Fault
  /\ hist' = Aged
  /\ phase' = "since"
  /\ UNCHANGED <<feedVars, cursor, snap, got, seen, missed, alerted, cut, rewound>>

(* events_since copies the shared buffer under HOT_LOCK ...                *)
CopyHot ==
  /\ phase = "since"
  /\ snap' = hot
  /\ phase' = "merge"
  /\ UNCHANGED <<feedVars, cursor, got, seen, missed, hist, alerted, cut, rewound, faults>>

(* ... then the host buffers under HOST_LOCK, and answers.  The cursor     *)
(* moves before the events are analysed.                                   *)
NotAdvanced(events) == cursor             \* mutant: max_id is not remembered
NewestAdvanced(events) == NewestOf(hot)   \* mutant: not of this response
Advanced(events) == IF events = {} THEN cursor ELSE Max(Ids(events))

Merge ==
  /\ phase = "merge"
  /\ LET events == Since(snap, cursor)
     IN  /\ got' = events /\ cursor' = Advanced(events)
         /\ cut' = cut \cup (Newer(snap, cursor) \ events)
  /\ phase' = "tmp" /\ snap' = <<>>
  /\ UNCHANGED <<feedVars, seen, missed, hist, alerted, rewound, faults>>

FetchFails ==
  /\ phase \in {"since", "merge"} /\ Fault
  /\ phase' = "tmp" /\ snap' = <<>>
  /\ UNCHANGED <<feedVars, cursor, got, seen, missed, hist, alerted, cut, rewound>>

(* The pipeline's death takes the request in progress with it.             *)
PipelineRestarts ==
  /\ Restart
  /\ phase' = IF phase = "merge" THEN "tmp" ELSE phase
  /\ snap' = <<>> /\ cut' = {} /\ rewound' = FALSE
  /\ UNCHANGED <<cursor, got, seen, missed, hist, alerted, faults>>

(* The supplemental fetches: of the shared buffer the latest opens of      *)
(* files in /tmp, those in /dev/shm and the latest authentication          *)
(* failures, whether an earlier cycle had them or not.                     *)
Extra(k) ==
  /\ phase = k
  /\ LET events == Latest(50, {e \in Range(hot) : e.kind = k})
     IN  got' = got \cup {e \in events : /\ e.id \notin Ids(got)
                                         /\ k = "auth" \/ e.id > cursor - Reach}
  /\ phase' = After(k)
  /\ UNCHANGED <<feedVars, cursor, snap, seen, missed, hist, alerted, cut, rewound, faults>>

ExtraFails(k) ==
  /\ phase = k /\ Fault
  /\ phase' = After(k)
  /\ UNCHANGED <<feedVars, cursor, snap, got, seen, missed, hist, alerted, cut, rewound>>

(* run_once counts the authentication failures among the events one by     *)
(* one; reporting a burst starts the count over.                           *)
Failures == Cardinality({e \in got : e.kind = "auth"})
Fires(m) == m > 0 /\ Len(hist) + m >= Threshold
Counted(m) ==
  IF Fires(m) THEN [i \in 1..((Len(hist) + m) % Threshold) |-> 0]
              ELSE hist \o [i \in 1..m |-> 0]

Analyse ==
  /\ phase = "analyse"
  /\ seen' = seen \cup got
  /\ hist' = Counted(Failures)
  /\ alerted' = (alerted \/ Fires(Failures))
  /\ got' = {}
  /\ phase' = "probe"
  /\ UNCHANGED <<feedVars, cursor, snap, missed, cut, rewound, faults>>

(* run logs an exception of run_once, drops its detections and goes on;    *)
(* what had been counted by then stays counted.                            *)
AnalyseRaises ==
  /\ phase = "analyse" /\ Fault
  /\ missed' = missed \cup got
  /\ \E m \in 0..Failures : hist' = Counted(m)
  /\ got' = {}
  /\ phase' = "probe"
  /\ UNCHANGED <<feedVars, cursor, snap, seen, alerted, cut, rewound>>

EngineStep ==
  Probe \/ CopyHot \/ Merge \/ (\E k \in Supplements : Extra(k)) \/ Analyse

ConnectionStep(t) == Insert(t) /\ UNCHANGED engineVars

Next ==
  \/ \E t \in Threads : ConnectionStep(t)
  \/ PipelineRestarts
  \/ EngineStep
  \/ ProbeFails \/ FetchFails \/ AnalyseRaises
  \/ \E k \in Supplements : ExtraFails(k)

Spec == Init /\ [][Next]_vars

(* The engine's thread runs; connection threads that have a batch go on.   *)
LiveSpec ==
  /\ Spec
  /\ WF_vars(EngineStep)
  /\ \A t \in Threads :
       WF_vars((PutHot(t) \/ PutHost(t) \/ Persist(t)) /\ UNCHANGED engineVars)

-----------------------------------------------------------------------------
Event == [n : 1..MaxEvents, id : Nat, host : Hosts, kind : Kinds,
          boot : 0..MaxBoots]

(* Every variable keeps the shape the code gives it.                       *)
TypeOK ==
  /\ seq \in Nat /\ hot \in Seq(Event) /\ buf \in [Hosts -> Seq(Event)]
  /\ at \in [Threads -> {"ids", "host", "log"}]
  /\ batch \in [Threads -> Seq(Event)]
  /\ \A t \in Threads : at[t] # "ids" => batch[t] # <<>>
  /\ parquet \cup overtaken \cup cut \subseteq Event /\ rewound \in BOOLEAN
  /\ boots \in 0..MaxBoots /\ count \in 0..MaxEvents
  /\ Len(hot) <= BufferMax /\ \A h \in Hosts : Len(buf[h]) <= BufferMax
  /\ cursor \in Nat /\ snap \in Seq(Event)
  /\ phase \in {"probe", "since", "merge", "analyse"} \cup Supplements
  /\ got \cup seen \cup missed \subseteq Event
  /\ hist \in Seq(0..Window) /\ alerted \in BOOLEAN /\ faults \in 0..MaxFaults

(* The cursor passes no event of a host's buffer that the engine has not   *)
(* been given, but those that the quota kept from a response and those     *)
(* that newer events of another connection overtook between next_id and    *)
(* the host's buffer: _fetch_new is "the single source of truth for what   *)
(* gets processed".  After a restart of the pipeline that gives ids out    *)
(* again it may.                                                           *)
Waiting == UNION {Range(buf[h]) : h \in Hosts}
NothingSkipped ==
  boots = 0 =>
    \A e \in Waiting : e.id <= cursor => e \in Handled \cup overtaken \cup cut

(* The same of every event of the feed, with no exception.                 *)
AllBehindCursorHandled == \A e \in Fed : e.id <= cursor => e \in Handled

(* "High-signal events always included in full", whatever the quota.       *)
HighSignalDelivered ==
  \A e \in Fed : e.kind = "high" /\ e.id <= cursor => e \in Handled

(* No event that is not fetched a second time anyway is given to the       *)
(* engine twice, by a restarted pipeline or after a reset of the cursor    *)
(* either, unless the probe mistook a pipeline for a restarted one.        *)
DeliveredOnce ==
  [][\A e \in got' \ got :
       e.kind \notin Supplements => e \notin seen \cup missed \/ rewound]_vars

(* The newest id of the shared buffer falls behind the cursor only when    *)
(* the pipeline restarts.                                                  *)
NeverRewound == ~rewound

(* A host's events are pushed out of the feed by its own events only: a    *)
(* flood of one platform does not silence the other.                       *)
OnlyOwnHostEvicts ==
  LET put == {e \in parquet : e.boot = boots}
               \cup UNION {Range(batch[t]) : t \in {u \in Threads : at[u] = "log"}}
  IN  \A e \in put \ Fed :
        Cardinality({f \in put : f.host = e.host /\ f # e}) >= BufferMax

(* However busy one platform is, a response has events of every platform   *)
(* that has some to give.                                                  *)
EveryHostServed ==
  [][phase = "merge" /\ phase' = "tmp" /\ <<faults, boots>>' = <<faults, boots>> =>
       \A h \in Hosts :
         (\E e \in Range(buf[h]) : e.id > cursor) =>
           \E e \in got' : e.host = h]_vars

(* No two stored events have one id, whichever session stored them.        *)
StoredIdsUnique == \A e, f \in parquet : e.id = f.id => e = f

(* T1110 "a real, rapid burst of authentication failures": it takes        *)
(* Threshold failures to report one.                                       *)
BruteForceIsABurst ==
  alerted => Cardinality({e \in seen \cup missed : e.kind = "auth"}) >= Threshold

(* A cursor ahead of the pipeline, from before a restart, does not stay    *)
(* ahead: the fetch is not frozen for ever.                                *)
Ahead == hot # <<>> /\ NewestOf(hot) < cursor
NeverFrozen == []<>~Ahead

(* Every event that reaches the feed is analysed, or was in a cycle that   *)
(* raised, unless the pipeline restarts.                                   *)
EventuallyAnalysed ==
  \A n \in 1..MaxEvents :
    (\E e \in Fed : e.n = n)
      ~> (\E e \in seen \cup missed : e.n = n) \/ boots > 0
=============================================================================
