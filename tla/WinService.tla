----------------------------- MODULE WinService -----------------------------
(***************************************************************************)
(* The Windows agent as a service (windows-agent/src): the service's main  *)
(* thread and its watchdog (ghost_windows_service), the ETW provider with  *)
(* its own watchdog and its processing and worker threads (etw_provider),  *)
(* and the kernel's ETW sessions.  The question is who opens, watches,     *)
(* replaces, closes and joins what, and what a stop does in between.       *)
(*                                                                         *)
(* Not here: --interactive, and the events themselves.  The forwarder is   *)
(* the module WinForwarder; here only its start and stop matter.           *)
(***************************************************************************)
EXTENDS Integers, FiniteSets

CONSTANTS
  MaxSessions,     \* bound: sessions the agent opens
  MaxKills,        \* bound: sessions that something else stops
  MaxStartFaults,  \* bound: failures of EtwProvider::start
  MaxDogFaults     \* bound: failures of the ETW watchdog's restart

ASSUME ServiceAssumption ==
  {MaxSessions, MaxKills, MaxStartFaults, MaxDogFaults} \subseteq Nat

Main   == "main"     \* service_main
SvcDog == "svc_dog"  \* GhostWindowsService::watchdog_loop
EtwDog == "etw_dog"  \* EtwProvider::watchdog_loop
None   == 0

VARIABLES
  status,      \* what the SCM was told last
  asked,       \* has the SCM asked the service to stop?
  running,     \* the service's running_ and watchdog_running_
  reachable,   \* can the pipeline be reached?
  pc,          \* where each of the three threads is; "none": not joinable
  tracing,     \* EtwProvider::running_ and watchdog_running_
  handle,      \* session_handle_
  made,        \* sessions 1..made have been opened, made has session_name_
  kernel,      \* the sessions the kernel has
  enabled,     \* those whose providers are enabled
  proc,        \* processing_thread_: the session it reads, None: not joinable
  worker,      \* is ppid_worker_thread_ running (and so joinable)?
  destroying,  \* in ~EtwProvider
  death,       \* why std::terminate was called, or "none"
  kills, startFaults, dogFaults   \* what the bounds count

service == <<status, asked, running, reachable, destroying, death>>
session == <<handle, made, kernel, enabled>>
threads == <<proc, worker>>
bounds == <<kills, startFaults, dogFaults>>
vars == <<service, session, threads, pc, tracing, bounds>>

Goto(t, p) == pc' = [pc EXCEPT ![t] = p]
At(t, p) == pc[t] = p /\ death = "none"

Init ==
  /\ status = "start_pending" /\ asked = FALSE /\ running = FALSE
  /\ reachable \in BOOLEAN
  /\ pc = [t \in {Main, SvcDog, EtwDog} |->
             IF t = Main THEN "connect" ELSE "none"]
  /\ tracing = FALSE /\ handle = None /\ made = 0
  /\ kernel = {} /\ enabled = {}
  /\ proc = None /\ worker = FALSE /\ destroying = FALSE /\ death = "none"
  /\ kills = 0 /\ startFaults = 0 /\ dogFaults = 0

-----------------------------------------------------------------------------
(* open_session and enable_providers, on a provider without a session.     *)
Opened ==
  /\ made < MaxSessions
  /\ made' = made + 1 /\ handle' = made + 1
  /\ kernel' = kernel \cup {made + 1}
  /\ enabled' = enabled \cup {made + 1}

(* StartTrace fails.                                                       *)
NotStarted == UNCHANGED session

(* StartTrace succeeds and OpenTrace or enable_providers fails: the        *)
(* session is there, and nobody reads it.                                  *)
HalfOpened ==
  /\ made < MaxSessions
  /\ made' = made + 1 /\ handle' = made + 1
  /\ kernel' = kernel \cup {made + 1}
  /\ UNCHANGED enabled

(* close_session.                                                          *)
Forgotten == handle' = None /\ UNCHANGED kernel   \* mutant: no StopTrace
Closed == kernel' = kernel \ {handle} /\ handle' = None

(* ProcessTrace returns when the session it reads is gone.                 *)
ProcEnded == proc \notin kernel

(* The session_mutex_ is free.  Only the ETW watchdog keeps it while it    *)
(* waits for another thread.                                               *)
Unlocked == pc[EtwDog] \notin {"join_proc", "respawn"}

(* EtwProvider::start.                                                     *)
AfterStart(t) == IF t = Main THEN "start_dog" ELSE "sleep"

Start(t) ==
  /\ At(t, "etw_start") /\ Unlocked /\ ~tracing
  /\ Opened
  /\ tracing' = TRUE
  /\ IF worker \/ proc # None \/ pc[EtwDog] # "none"
       THEN death' = "assigned" /\ UNCHANGED <<pc, proc, worker>>
       ELSE /\ worker' = TRUE /\ proc' = made + 1
            /\ pc' = [pc EXCEPT ![t] = AfterStart(t), ![EtwDog] = "sleep"]
            /\ UNCHANGED death
  /\ UNCHANGED <<status, asked, running, reachable, destroying, bounds>>

(* It fails: a session whose providers cannot be enabled is closed again,  *)
(* one that OpenTrace cannot open is not.                                  *)
StartFails(t) ==
  /\ At(t, "etw_start") /\ Unlocked /\ ~tracing
  /\ startFaults < MaxStartFaults /\ startFaults' = startFaults + 1
  /\ NotStarted \/ HalfOpened
  /\ Goto(t, AfterStart(t))
  /\ UNCHANGED <<service, tracing, threads, kills, dogFaults>>

-----------------------------------------------------------------------------
(* EtwProvider::stop, called by the service's watchdog, by                 *)
(* shutdown_components and by ~EtwProvider.                                *)
StopFlags(t) ==
  /\ At(t, "flags")
  /\ tracing' = FALSE
  /\ Goto(t, "close")
  /\ UNCHANGED <<service, session, threads, bounds>>

StopClose(t) ==
  /\ At(t, "close") /\ Unlocked
  /\ Closed
  /\ Goto(t, IF proc = None THEN "join_dog" ELSE "join_proc")
  /\ UNCHANGED <<service, tracing, made, enabled, threads, bounds>>

(* join() of the processing thread by t, which goes on at next.  If        *)
(* another thread joins it meanwhile, join returns or throws.              *)
Join(t, next) ==
  /\ At(t, "join_proc") /\ ProcEnded
  /\ \/ proc' = None /\ Goto(t, next) /\ UNCHANGED death
     \/ proc = None /\ death' = "joined twice" /\ UNCHANGED <<proc, pc>>
  /\ UNCHANGED <<status, asked, running, reachable, destroying, session,
                 tracing, worker, bounds>>

StopJoinProc(t) == Join(t, "join_dog")

NotJoined == TRUE   \* mutant: stop does not wait for the watchdog
JoinedDog == pc[EtwDog] \in {"none", "end"}

StopJoinDog(t) ==
  /\ At(t, "join_dog") /\ JoinedDog
  /\ pc' = [pc EXCEPT ![t] = IF t = SvcDog THEN "etw_start"
                             ELSE IF destroying THEN "reset" ELSE "flags",
                      ![EtwDog] = IF @ = "end" THEN "none" ELSE @]
  /\ destroying' = (t = Main)
  /\ UNCHANGED <<status, asked, running, reachable, death, session, tracing,
                 threads, bounds>>

-----------------------------------------------------------------------------
(* EtwProvider::watchdog_loop.                                             *)
DogWakes ==
  /\ At(EtwDog, "sleep")
  /\ Goto(EtwDog, IF tracing THEN "query" ELSE "end")
  /\ UNCHANGED <<service, session, tracing, threads, bounds>>

(* QueryTrace asks for the session by its name.                            *)
DogQueries ==
  /\ At(EtwDog, "query")
  /\ Goto(EtwDog, IF made \in kernel THEN "sleep" ELSE "restart")
  /\ UNCHANGED <<service, session, tracing, threads, bounds>>

(* The restart, under session_mutex_.  The old session is not in the       *)
(* kernel any more, so that close_session has nothing to close.            *)
DogRestarts ==
  /\ At(EtwDog, "restart")
  /\ Opened
  /\ Goto(EtwDog, IF proc = None THEN "respawn" ELSE "join_proc")
  /\ UNCHANGED <<service, tracing, threads, bounds>>

DogRestartFails ==
  /\ At(EtwDog, "restart")
  /\ dogFaults < MaxDogFaults /\ dogFaults' = dogFaults + 1
  /\ NotStarted \/ HalfOpened
  /\ Goto(EtwDog, "sleep")
  /\ UNCHANGED <<service, tracing, threads, kills, startFaults>>

DogJoins == Join(EtwDog, "respawn")

DogRespawns ==
  /\ At(EtwDog, "respawn")
  /\ proc' = handle
  /\ Goto(EtwDog, "sleep")
  /\ UNCHANGED <<service, session, tracing, worker, bounds>>

-----------------------------------------------------------------------------
(* GhostWindowsService::watchdog_loop: components_healthy looks at         *)
(* is_running() only.                                                      *)
Exists == TRUE                    \* mutant: looks at etw_ only
HasSession == handle \in kernel   \* mutant: looks at the session
Healthy == tracing

SvcDogWakes ==
  /\ At(SvcDog, "sleep")
  /\ Goto(SvcDog, IF ~running THEN "end"
                  ELSE IF Healthy THEN "sleep" ELSE "flags")
  /\ UNCHANGED <<service, session, tracing, threads, bounds>>

(* initialize_components: the forwarder's start dials once; the coverage   *)
(* report's send_event returns when the pipeline can be reached.           *)
Connect ==
  /\ At(Main, "connect") /\ reachable
  /\ Goto(Main, "etw_start")
  /\ UNCHANGED <<service, session, tracing, threads, bounds>>

StartDog ==
  /\ At(Main, "start_dog")
  /\ running' = TRUE
  /\ status' = "running"
  /\ pc' = [pc EXCEPT ![Main] = "loop", ![SvcDog] = "sleep"]
  /\ UNCHANGED <<asked, reachable, destroying, death, session, tracing,
                 threads, bounds>>

(* service_ctrl_handler: SERVICE_CONTROL_STOP, accepted when running.      *)
ControlStop ==
  /\ status = "running" /\ death = "none"
  /\ status' = "stop_pending" /\ asked' = TRUE /\ running' = FALSE
  /\ UNCHANGED <<reachable, destroying, death, session, tracing, threads, pc,
                 bounds>>

(* run_main_loop ends; shutdown_components joins the watchdog.             *)
MainLeaves ==
  /\ At(Main, "loop") /\ ~running /\ pc[SvcDog] = "end"
  /\ pc' = [pc EXCEPT ![Main] = "flags", ![SvcDog] = "none"]
  /\ UNCHANGED <<service, session, tracing, threads, bounds>>

(* etw_.reset(): the threads are destroyed, the worker's first; a thread   *)
(* that is still joinable calls std::terminate.                            *)
Left == IF worker THEN "worker" ELSE
        IF pc[EtwDog] # "none" THEN "watchdog" ELSE
        IF proc # None THEN "processing" ELSE "none"

Reset ==
  /\ At(Main, "reset")
  /\ death' = Left
  /\ Goto(Main, "etw_gone")
  /\ UNCHANGED <<status, asked, running, reachable, destroying, session,
                 tracing, threads, bounds>>

(* pipeline_->stop(), report_status(SERVICE_STOPPED).                      *)
Report ==
  /\ At(Main, "etw_gone")
  /\ status' = "stopped"
  /\ Goto(Main, "done")
  /\ UNCHANGED <<asked, running, reachable, destroying, death, session,
                 tracing, threads, bounds>>

-----------------------------------------------------------------------------
(* Something else stops a session of the agent; the network comes back.    *)
Kill ==
  /\ kills < MaxKills /\ handle \in kernel
  /\ kills' = kills + 1
  /\ kernel' = kernel \ {handle}
  /\ UNCHANGED <<service, handle, made, enabled, tracing, threads, pc,
                 startFaults, dogFaults>>

Reachable ==
  /\ ~reachable /\ reachable' = TRUE
  /\ UNCHANGED <<status, asked, running, destroying, death, session, tracing,
                 threads, pc, bounds>>

StopStep(t) == StopFlags(t) \/ StopClose(t) \/ StopJoinProc(t) \/ StopJoinDog(t)
MainStep ==
  \/ Connect \/ Start(Main) \/ StartFails(Main) \/ StartDog \/ MainLeaves
  \/ StopStep(Main) \/ Reset \/ Report
SvcDogStep ==
  SvcDogWakes \/ StopStep(SvcDog) \/ Start(SvcDog) \/ StartFails(SvcDog)
EtwDogStep ==
  DogWakes \/ DogQueries \/ DogRestarts \/ DogRestartFails \/ DogJoins
  \/ DogRespawns

Next ==
  MainStep \/ SvcDogStep \/ EtwDogStep \/ ControlStop \/ Kill \/ Reachable

Spec == Init /\ [][Next]_vars

(* Threads run; whether the pipeline is ever reachable is left open.       *)
FairSpec ==
  Spec /\ WF_vars(MainStep) /\ WF_vars(SvcDogStep) /\ WF_vars(EtwDogStep)

-----------------------------------------------------------------------------
Pc == {"none", "connect", "etw_start", "start_dog", "loop", "flags", "close",
       "join_proc", "join_dog", "reset", "etw_gone", "done", "sleep", "end",
       "query", "restart", "respawn"}

(* Every variable keeps its shape; nobody reads a session that was never   *)
(* opened; a provider that runs has its threads.                           *)
TypeOK ==
  /\ status \in {"start_pending", "running", "stop_pending", "stopped"}
  /\ {asked, running, reachable, tracing, worker, destroying} \subseteq BOOLEAN
  /\ pc \in [{Main, SvcDog, EtwDog} -> Pc]
  /\ {handle, made, proc} \subseteq 0..MaxSessions
  /\ kernel \cup enabled \subseteq 1..made /\ proc <= made
  /\ tracing /\ Unlocked => worker /\ proc # None
  /\ death \in {"none", "assigned", "joined twice", "worker", "watchdog",
                "processing"}

(* The agent never has two ETW sessions: "once multiple sessions competed  *)
(* for the same kernel provider" event delivery dropped.                   *)
OneSession == Cardinality(kernel) <= 1

(* The service's watchdog restarts a provider only if that finds no thread *)
(* of an earlier start still there.                                        *)
NoThreadOverwritten == death # "assigned"

(* ~EtwProvider leaves neither the watchdog nor the processing thread      *)
(* behind, and with them nothing that would open a session again.          *)
StoppedForGood ==
  /\ death \notin {"watchdog", "processing"}
  /\ pc[Main] \in {"etw_gone", "done"} => kernel = {}

(* The agent reads a session with its providers enabled.                   *)
Tracing == proc \in kernel \cap enabled /\ worker

(* "Watchdog Auto-Restart": a running service comes to trace again, unless *)
(* it is asked to stop.                                                    *)
EventuallyTracing == status = "running" ~> Tracing \/ asked

(* What the two watchdogs do achieve: a failed start or a killed session   *)
(* is made good, as long as no restart by the provider's watchdog fails    *)
(* half way (EventuallyTracing is false if one does).                      *)
TracingRestored ==
  status = "running" ~> Tracing \/ asked \/ dogFaults > 0

(* "wait for clean stop": a stop ends with SERVICE_STOPPED, not with       *)
(* std::terminate, which the SCM takes for a failure and restarts.         *)
CleanStop == death = "none"

(* A stop comes to an end: the main thread is past the provider.           *)
StopEnds == asked ~> pc[Main] \in {"etw_gone", "done"} \/ death # "none"

(* The agent traces even if the pipeline is away.                          *)
StartsTracing == <>(Tracing \/ asked)
=============================================================================
