------------------------- MODULE DivergenceDetector -------------------------
(***************************************************************************)
(* The Windows agent's comparison of its two sensors                       *)
(* (windows-agent/src/divergence_detector): an event that one of them      *)
(* reports waits for its twin from the other; a twin with another content, *)
(* or none in time, raises an alert.  Threads: each sensor's, which calls  *)
(* on_ebpf_event or on_etw_event, and the expiry sweep.                    *)
(*                                                                         *)
(* Time is a counter; only the order of the three delays matters.  Events  *)
(* are of one type: the others process_event ignores, and two types never  *)
(* meet.                                                                   *)
(***************************************************************************)
EXTENDS Integers, Sequences, FiniteSets, SequencesExt, Sifting

CONSTANTS
  Processes, Contents,
  Tolerance, Expiry, Cooldown,  \* the three delays
  Started,                      \* was start() called?
  Silenced,                     \* sensors that may miss an event
  MaxFacts, MaxTime             \* bounds: things that happen, and the clock

Sensors == {"ebpf", "etw"}

ASSUME DetectorAssumption ==
  /\ {Tolerance, Expiry, Cooldown, MaxFacts, MaxTime} \subseteq Nat
  /\ Tolerance < Expiry /\ Expiry < Cooldown
  /\ Started \in BOOLEAN /\ Silenced \subseteq Sensors

VARIABLES
  now,
  facts,        \* what happened: <<[pid, content, at]>>
  seen,         \* how many of them each sensor is past
  pending,      \* pending_: <<[pid, content, sensor, at]>>
  lastAlerted,  \* last_alerted_: a function on the pids it has
  expired,      \* expiry_loop: what it has taken from pending_
  cooled,       \* fire_alert: is_cooled_down said yes
  marking,      \* process_event: is_cooled_down said yes of this process
  alerts,       \* history: on_alert_ was called with <<[pid, at]>>
  missed        \* history: the facts a sensor missed

detectorVars == <<now, facts, seen, pending, lastAlerted, expired, cooled,
                  marking, alerts, missed>>

DetectorInit ==
  /\ now = 0 /\ facts = <<>> /\ seen = [s \in Sensors |-> 0]
  /\ pending = <<>> /\ lastAlerted = <<>> /\ expired = <<>>
  /\ cooled = FALSE /\ marking = <<>> /\ alerts = <<>> /\ missed = {}

-----------------------------------------------------------------------------
(* The world: the sensors report what happens in its order, and within     *)
(* the tolerance.                                                          *)
Fact(p, c) ==
  /\ Len(facts) < MaxFacts /\ now + Tolerance + Expiry + 1 <= MaxTime
  /\ facts' = Append(facts, [pid |-> p, content |-> c, at |-> now])
  /\ UNCHANGED <<now, seen, pending, lastAlerted, expired, cooled, marking,
                 alerts, missed>>

Miss(s) ==
  /\ s \in Silenced /\ seen[s] < Len(facts)
  /\ seen' = [seen EXCEPT ![s] = @ + 1]
  /\ missed' = missed \cup {seen[s] + 1}
  /\ UNCHANGED <<now, facts, pending, lastAlerted, expired, cooled, marking,
                 alerts>>

Late == \E s \in Sensors : seen[s] < Len(facts)
                             /\ facts[seen[s] + 1].at + Tolerance <= now

Tick ==
  /\ now < MaxTime /\ ~Late
  /\ now' = now + 1
  /\ UNCHANGED <<facts, seen, pending, lastAlerted, expired, cooled, marking,
                 alerts, missed>>

-----------------------------------------------------------------------------
NeverAlerted(p) ==    \* mutant: a process without an entry is not cool
  p \in DOMAIN lastAlerted /\ now - lastAlerted[p] >= Cooldown
IsCooledDown(p) ==
  p \in DOMAIN lastAlerted => now - lastAlerted[p] >= Cooldown

(* mark_alerted and on_alert_.                                             *)
Alert(p) ==
  /\ lastAlerted' = [q \in DOMAIN lastAlerted \cup {p} |->
                       IF q = p THEN now ELSE lastAlerted[q]]
  /\ alerts' = Append(alerts, [pid |-> p, at |-> now])

(* process_event, under pending_mutex_: the first entry of the other       *)
(* sensor that is fresh and of this process decides.  If the contents      *)
(* differ it asks is_cooled_down and then calls mark_alerted, which lock   *)
(* cooldown_mutex_ one after the other, while it holds pending_mutex_.     *)
Twins(s, f) ==
  {i \in 1..Len(pending) : /\ pending[i].sensor # s
                           /\ now - pending[i].at <= Tolerance
                           /\ pending[i].pid = f.pid}

First(S) == CHOOSE i \in S : \A j \in S : i <= j

ProcessEvent(s) ==
  LET f == facts[seen[s] + 1]
      twins == Twins(s, f)
      i == First(twins)
  IN  /\ marking = <<>> /\ seen[s] < Len(facts)
      /\ seen' = [seen EXCEPT ![s] = @ + 1]
      /\ IF twins = {}
           THEN /\ pending' = Append(pending,
                     [pid |-> f.pid, content |-> f.content, sensor |-> s,
                      at |-> now])
                /\ marking' = <<>>
           ELSE /\ pending' = RemoveAt(pending, i)
                /\ marking' = IF pending[i].content # f.content /\ IsCooledDown(f.pid)
                                THEN <<f.pid>> ELSE <<>>
      /\ UNCHANGED <<now, facts, lastAlerted, expired, cooled, alerts, missed>>

MarkMismatch ==
  /\ marking # <<>>
  /\ Alert(Head(marking)) /\ marking' = <<>>
  /\ UNCHANGED <<now, facts, seen, pending, expired, cooled, missed>>

-----------------------------------------------------------------------------
(* expiry_loop: one sweep under pending_mutex_, then the alerts without.   *)
TooOld(e) == now - e.at >= Tolerance   \* mutant: the other delay
Expired(e) == now - e.at > Expiry

Old == {e \in Range(pending) : Expired(e)}

SweepKeeps ==   \* mutant: expired entries are not erased
  /\ Started /\ marking = <<>> /\ expired = <<>> /\ Old # {}
  /\ expired' = Those(pending, Old)
  /\ UNCHANGED <<now, facts, seen, pending, lastAlerted, cooled, marking, alerts, missed>>

Sweep ==
  /\ Started /\ marking = <<>> /\ expired = <<>> /\ Old # {}
  /\ expired' = Those(pending, Old)
  /\ pending' = Those(pending, Range(pending) \ Old)
  /\ UNCHANGED <<now, facts, seen, lastAlerted, cooled, marking, alerts, missed>>

(* fire_alert: is_cooled_down and mark_alerted lock cooldown_mutex_ one    *)
(* after the other.                                                        *)
FireAlert ==
  /\ expired # <<>> /\ ~cooled
  /\ IF IsCooledDown(Head(expired).pid)
       THEN cooled' = TRUE /\ UNCHANGED expired
       ELSE expired' = Tail(expired) /\ UNCHANGED cooled
  /\ UNCHANGED <<now, facts, seen, pending, lastAlerted, marking, alerts, missed>>

MarkAlerted ==
  /\ cooled
  /\ Alert(Head(expired).pid)
  /\ cooled' = FALSE /\ expired' = Tail(expired)
  /\ UNCHANGED <<now, facts, seen, pending, marking, missed>>

ExpiryStep == Sweep \/ FireAlert \/ MarkAlerted

DetectorNext ==
  \/ \E p \in Processes, c \in Contents : Fact(p, c)
  \/ \E s \in Sensors : Miss(s) \/ ProcessEvent(s)
  \/ MarkMismatch
  \/ Tick
  \/ ExpiryStep

DetectorSpec == DetectorInit /\ [][DetectorNext]_detectorVars

DetectorFairSpec ==
  /\ DetectorSpec /\ WF_detectorVars(Tick) /\ WF_detectorVars(ExpiryStep)
  /\ \A s \in Sensors : WF_detectorVars(ProcessEvent(s) \/ Miss(s))
  /\ WF_detectorVars(MarkMismatch)

-----------------------------------------------------------------------------
Entry == [pid : Processes, content : Contents, sensor : Sensors, at : 0..MaxTime]

(* Every variable keeps its shape, an entry waits under the sensor that    *)
(* reported it, and no entry is waiting twice.                             *)
DetectorTypeOK ==
  /\ now \in 0..MaxTime /\ seen \in [Sensors -> 0..Len(facts)]
  /\ facts \in Seq([pid : Processes, content : Contents, at : 0..MaxTime])
  /\ pending \in Seq(Entry) /\ expired \in Seq(Entry)
  /\ DOMAIN lastAlerted \subseteq Processes /\ missed \subseteq 1..Len(facts)
  /\ cooled => expired # <<>>
  /\ marking \in Seq(Processes)

(* If both sensors report everything, in order and in time, there is no    *)
(* alert.                                                                  *)
NoFalseAlarm == missed = {} => alerts = <<>>

(* Of the events of one process that wait and are fresh, all come from one *)
(* sensor: an event and its twin never wait side by side.                  *)
NoTwinsWaiting ==
  \A i, j \in 1..Len(pending) :
    /\ pending[i].pid = pending[j].pid
    /\ {now - pending[i].at, now - pending[j].at} \subseteq 0..Tolerance
    => pending[i].sensor = pending[j].sensor

(* Complete reports are paired off: nothing is left over on both sides,    *)
(* and nobody is alarmed.                                                  *)
ReportsPaired == NoFalseAlarm /\ NoTwinsWaiting

(* An event that one sensor reports and the other misses leads to an alert *)
(* for its process (one alert may stand for several such events).          *)
SilenceNoticed ==
  \A k \in 1..MaxFacts :
    k \in missed ~> \E f \in Range(facts), a \in Range(alerts) :
                     k <= Len(facts) /\ f = facts[k] /\ a.pid = f.pid

(* PENDING_EXPIRY_MS: events do not wait for ever.                         *)
PendingExpires == pending # <<>> ~> pending = <<>>

(* DIVERGENCE_ALERT_COOLDOWN_MS: one alert for a process in that time.     *)
OneAlertPerCooldown ==
  \A i, j \in 1..Len(alerts) :
    i < j /\ alerts[i].pid = alerts[j].pid
      => alerts[j].at - alerts[i].at >= Cooldown
=============================================================================
