-------------------------- MODULE WinService_proofs --------------------------
(***************************************************************************)
(* The Windows service: one session, no thread overwritten and nothing     *)
(* left behind by a stop, for any number of sessions, of killed sessions   *)
(* and of failed starts and restarts.                                      *)
(***************************************************************************)
EXTENDS WinService, FiniteSetTheorems, TLAPS

(* The stops: where a thread is in EtwProvider::stop, and the main thread  *)
(* from the provider's stop to the end.                                    *)
Stop == {"flags", "close", "join_proc", "join_dog"}
Ending == {"close", "join_proc", "join_dog", "reset", "etw_gone", "done"}

(* Each thread has its own places; there is a watchdog of the service only *)
(* while the main thread is in its loop.                                   *)
Places ==
  /\ pc[Main] \in Stop \cup {"connect", "etw_start", "start_dog", "loop", "reset",
                             "etw_gone", "done"}
  /\ pc[SvcDog] \in {"none", "sleep", "end", "flags", "close", "join_dog", "etw_start"}
  /\ pc[EtwDog] \in {"none", "sleep", "end", "query", "restart", "join_proc", "respawn"}
  /\ pc[SvcDog] # "none" => pc[Main] = "loop"
  /\ destroying => pc[Main] \in Ending \cup {"flags"}
  /\ pc[Main] \in {"reset", "etw_gone", "done"} => destroying

(* A provider that was not started, or whose start failed, has no thread;  *)
(* it is one until the service stops it.                                   *)
Quiet == pc[EtwDog] = "none" /\ proc = None /\ ~worker

QuietUnlessTracing ==
  /\ pc[Main] \notin Ending /\ ~destroying /\ ~tracing => Quiet
  /\ pc[Main] \in {"connect", "etw_start"} => ~tracing /\ kernel = {}
  /\ pc[SvcDog] \in Stop \cup {"etw_start"} => ~tracing
  /\ pc[SvcDog] \in {"join_dog", "etw_start"} => kernel = {}
  /\ pc[Main] \in Ending \/ destroying => ~tracing
  /\ tracing => worker

(* The kernel has the session of the handle or none, and none when one is  *)
(* about to be opened.                                                     *)
HandleKnown ==
  /\ handle \in {None, made}
  /\ kernel \subseteq {handle}
  /\ pc[EtwDog] = "restart" => kernel = {}
  /\ pc[EtwDog] \in {"join_proc", "respawn"} => handle # None

(* The first stop of the main thread joins the provider's watchdog; the    *)
(* second, in ~EtwProvider, closes what that had opened again meanwhile.   *)
SecondStop ==
  /\ destroying => pc[EtwDog] = "none"
  /\ destroying /\ pc[Main] \in Ending \ {"close"} => kernel = {}
  /\ destroying /\ pc[Main] \in Ending \ {"close", "join_proc"} => proc = None

Deaths == death \in {"none", "joined twice", "worker"}

ServiceInv ==
  /\ TypeOK /\ Places /\ QuietUnlessTracing /\ HandleKnown /\ SecondStop /\ Deaths

(* The type invariant in two parts: flags are for one prover, the rest for  *)
(* another.                                                                *)
Flags ==
  /\ asked \in BOOLEAN /\ running \in BOOLEAN /\ reachable \in BOOLEAN
  /\ tracing \in BOOLEAN /\ worker \in BOOLEAN /\ destroying \in BOOLEAN

Shape ==
  /\ status \in {"start_pending", "running", "stop_pending", "stopped"}
  /\ pc \in [{Main, SvcDog, EtwDog} -> Pc]

Numbers ==
  /\ handle \in 0..MaxSessions /\ made \in 0..MaxSessions /\ proc \in 0..MaxSessions
  /\ kernel \subseteq 1..made /\ enabled \subseteq 1..made /\ proc <= made

Traced == tracing /\ Unlocked => worker /\ proc # None

LEMMA TypeSplits ==
  ASSUME TypeOK
  PROVE  Flags /\ Shape /\ Numbers /\ Traced /\ MaxSessions \in Nat
BY ServiceAssumption DEF TypeOK, Flags, Shape, Numbers, Traced

LEMMA TypeJoins ==
  ASSUME Flags', Shape', Numbers', Traced', Deaths'
  PROVE  TypeOK'
BY DEF TypeOK, Flags, Shape, Numbers, Traced, Deaths

(* Sessions are counted: what a step does to the numbers without opening   *)
(* one, and when it opens one.                                             *)
LEMMA NumbersStay ==
  ASSUME Numbers, HandleKnown, MaxSessions \in Nat, made' = made,
         handle' \in {None, handle}, proc' \in {None, proc, handle},
         kernel' \subseteq kernel, enabled' = enabled
  PROVE  Numbers'
BY SMT DEF Numbers, HandleKnown, None

LEMMA NumbersGrow ==
  ASSUME Numbers, MaxSessions \in Nat, made < MaxSessions, made' = made + 1,
         handle' = made + 1, proc' \in {proc, made + 1},
         kernel' = kernel \cup {made + 1}, enabled' \subseteq enabled \cup {made + 1}
  PROVE  Numbers'
<1>1. made' \in 0..MaxSessions /\ handle' \in 0..MaxSessions
  BY SMT DEF Numbers
<1>2. proc' \in 0..MaxSessions /\ proc' <= made'
  BY SMT DEF Numbers
<1>3. \A x \in 1..made : x \in 1..made'
  BY <1>1, SMT DEF Numbers
<1>4. made + 1 \in 1..made'
  BY <1>1, SMT DEF Numbers
<1> QED
  BY <1>1, <1>2, <1>3, <1>4 DEF Numbers

LEMMA StartKeeps ==
  ASSUME ServiceInv, NEW t \in {Main, SvcDog}, Start(t)
  PROVE  ServiceInv'
<1> USE DEF Start, Opened, AfterStart, At, Goto, Unlocked, service, session, threads, bounds,
            Main, SvcDog, EtwDog, None
<1>0. Flags /\ Shape /\ Numbers /\ Traced /\ MaxSessions \in Nat
  BY TypeSplits DEF ServiceInv
<1>1. Flags'
  BY <1>0 DEF Flags
<1>2. Shape'
  BY <1>0 DEF ServiceInv, Shape, Pc
<1>3. Numbers'
  BY <1>0, NumbersGrow DEF ServiceInv
<1>4. Traced'
  BY <1>0 DEF ServiceInv, Numbers, Traced, Places, QuietUnlessTracing, Quiet, Ending
<1>5. Places'
  BY <1>0 DEF ServiceInv, Shape, Places, QuietUnlessTracing, Quiet, Ending
<1>6. QuietUnlessTracing'
  BY <1>0 DEF ServiceInv, Shape, QuietUnlessTracing, Places, Quiet, Stop, Ending
<1>7. HandleKnown'
  BY <1>0 DEF ServiceInv, Shape, HandleKnown, Places, QuietUnlessTracing, Quiet, Stop, Ending
<1>8. SecondStop'
  BY <1>0 DEF ServiceInv, Shape, SecondStop, Places, QuietUnlessTracing, HandleKnown, Quiet, Ending
<1>9. Deaths'
  BY <1>0 DEF ServiceInv, Deaths, Places, QuietUnlessTracing, SecondStop, Quiet, Ending
<1> QED
  BY <1>1, <1>2, <1>3, <1>4, <1>5, <1>6, <1>7, <1>8, <1>9, TypeJoins DEF ServiceInv

LEMMA StartFailsKeeps ==
  ASSUME ServiceInv, NEW t \in {Main, SvcDog}, StartFails(t)
  PROVE  ServiceInv'
<1> USE DEF StartFails, NotStarted, HalfOpened, AfterStart, At, Goto, Unlocked, service, session, threads, bounds,
            Main, SvcDog, EtwDog, None
<1>0. Flags /\ Shape /\ Numbers /\ Traced /\ MaxSessions \in Nat
  BY TypeSplits DEF ServiceInv
<1>1. Flags'
  BY <1>0 DEF Flags
<1>2. Shape'
  BY <1>0 DEF ServiceInv, Shape, Pc
<1>3. Numbers'
  <2>1. CASE NotStarted
    BY <1>0, <2>1, NumbersStay DEF ServiceInv
  <2>2. CASE HalfOpened
    BY <1>0, <2>2, NumbersGrow
  <2> QED
    BY <2>1, <2>2
<1>4. Traced'
  BY <1>0 DEF ServiceInv, Traced
<1>5. Places'
  BY <1>0 DEF ServiceInv, Places, Ending
<1>6. QuietUnlessTracing'
  BY <1>0 DEF ServiceInv, Shape, QuietUnlessTracing, Places, Quiet, Ending
<1>7. HandleKnown'
  BY <1>0 DEF ServiceInv, Shape, HandleKnown, Places, QuietUnlessTracing, Quiet, Ending
<1>8. SecondStop'
  BY <1>0 DEF ServiceInv, Shape, SecondStop, Places, QuietUnlessTracing, HandleKnown, Quiet, Ending
<1>9. Deaths'
  BY <1>0 DEF ServiceInv, Deaths, Places, SecondStop, Ending
<1> QED
  BY <1>1, <1>2, <1>3, <1>4, <1>5, <1>6, <1>7, <1>8, <1>9, TypeJoins DEF ServiceInv

LEMMA FlagsKeeps ==
  ASSUME ServiceInv, NEW t \in {Main, SvcDog}, StopFlags(t)
  PROVE  ServiceInv'
<1> USE DEF StopFlags, At, Goto, Unlocked, service, session, threads, bounds,
            Main, SvcDog, EtwDog, None
<1>0. Flags /\ Shape /\ Numbers /\ Traced /\ MaxSessions \in Nat
  BY TypeSplits DEF ServiceInv
<1>1. Flags'
  BY <1>0 DEF Flags
<1>2. Shape'
  BY <1>0 DEF ServiceInv, Shape, Pc
<1>3. Numbers'
  BY <1>0, NumbersStay DEF ServiceInv
<1>4. Traced'
  BY <1>0 DEF ServiceInv, Traced
<1>5. Places'
  BY <1>0 DEF ServiceInv, Places, Stop, Ending
<1>6. QuietUnlessTracing'
  BY <1>0 DEF ServiceInv, Shape, QuietUnlessTracing, Places, Quiet, Stop, Ending
<1>7. HandleKnown'
  BY <1>0 DEF ServiceInv, Shape, HandleKnown, QuietUnlessTracing, Quiet, Stop, Ending
<1>8. SecondStop'
  BY <1>0 DEF ServiceInv, SecondStop, HandleKnown
<1>9. Deaths'
  BY <1>0 DEF ServiceInv, Deaths, SecondStop
<1> QED
  BY <1>1, <1>2, <1>3, <1>4, <1>5, <1>6, <1>7, <1>8, <1>9, TypeJoins DEF ServiceInv

LEMMA CloseKeeps ==
  ASSUME ServiceInv, NEW t \in {Main, SvcDog}, StopClose(t)
  PROVE  ServiceInv'
<1> USE DEF StopClose, Closed, At, Goto, Unlocked, service, session, threads, bounds,
            Main, SvcDog, EtwDog, None
<1>0. Flags /\ Shape /\ Numbers /\ Traced /\ MaxSessions \in Nat
  BY TypeSplits DEF ServiceInv
<1>1. Flags'
  BY <1>0 DEF Flags
<1>2. Shape'
  BY <1>0 DEF ServiceInv, Shape, Pc
<1>3. Numbers'
  BY <1>0, NumbersStay DEF ServiceInv
<1>4. Traced'
  BY <1>0 DEF ServiceInv, Traced
<1>5. Places'
  BY <1>0 DEF ServiceInv, Places, QuietUnlessTracing, Quiet, Stop, Ending
<1>6. QuietUnlessTracing'
  BY <1>0 DEF ServiceInv, QuietUnlessTracing, Places, HandleKnown, Quiet, Stop, Ending
<1>7. HandleKnown'
  BY <1>0 DEF ServiceInv, HandleKnown, QuietUnlessTracing, Quiet, Stop, Ending
<1>8. SecondStop'
  BY <1>0 DEF ServiceInv, SecondStop, HandleKnown
<1>9. Deaths'
  BY <1>0 DEF ServiceInv, Deaths, SecondStop
<1> QED
  BY <1>1, <1>2, <1>3, <1>4, <1>5, <1>6, <1>7, <1>8, <1>9, TypeJoins DEF ServiceInv

LEMMA JoinKeeps ==
  ASSUME ServiceInv, NEW t \in {Main, SvcDog}, StopJoinProc(t)
  PROVE  ServiceInv'
<1> USE DEF StopJoinProc, Join, ProcEnded, At, Goto, Unlocked, service, session, threads, bounds,
            Main, SvcDog, EtwDog, None
<1>0. Flags /\ Shape /\ Numbers /\ Traced /\ MaxSessions \in Nat
  BY TypeSplits DEF ServiceInv
<1>1. Flags'
  BY <1>0 DEF Flags
<1>2. Shape'
  BY <1>0 DEF ServiceInv, Shape, Pc
<1>3. Numbers'
  BY <1>0, NumbersStay DEF ServiceInv
<1>4. Traced'
  BY <1>0 DEF ServiceInv, Traced, Places, QuietUnlessTracing, Ending
<1>5. Places'
  BY <1>0 DEF ServiceInv, Shape, Places, QuietUnlessTracing, Stop, Ending
<1>6. QuietUnlessTracing'
  BY <1>0 DEF ServiceInv, Shape, QuietUnlessTracing, Places, Stop, Ending
<1>7. HandleKnown'
  BY <1>0 DEF ServiceInv, Shape, HandleKnown, Places, QuietUnlessTracing, Ending
<1>8. SecondStop'
  BY <1>0 DEF ServiceInv, Shape, SecondStop, Places, HandleKnown
<1>9. Deaths'
  BY <1>0 DEF ServiceInv, Shape, Deaths, Places, SecondStop
<1> QED
  BY <1>1, <1>2, <1>3, <1>4, <1>5, <1>6, <1>7, <1>8, <1>9, TypeJoins DEF ServiceInv

LEMMA JoinDogKeeps ==
  ASSUME ServiceInv, NEW t \in {Main, SvcDog}, StopJoinDog(t)
  PROVE  ServiceInv'
<1> USE DEF StopJoinDog, JoinedDog, At, Goto, Unlocked, service, session, threads, bounds,
            Main, SvcDog, EtwDog, None
<1>0. Flags /\ Shape /\ Numbers /\ Traced /\ MaxSessions \in Nat
  BY TypeSplits DEF ServiceInv
<1>1. Flags'
  BY <1>0 DEF Flags
<1>2. Shape'
  BY <1>0 DEF ServiceInv, Shape, Pc
<1>3. Numbers'
  BY <1>0, NumbersStay DEF ServiceInv
<1>4. Traced'
  BY <1>0 DEF ServiceInv, Traced
<1>5. Places'
  BY <1>0 DEF ServiceInv, Shape, Places, Stop, Ending
<1>6. QuietUnlessTracing'
  BY <1>0 DEF ServiceInv, Shape, QuietUnlessTracing, Places, Quiet, Stop, Ending
<1>7. HandleKnown'
  BY <1>0 DEF ServiceInv, Shape, HandleKnown, Places, QuietUnlessTracing, Quiet, Stop, Ending
<1>8. SecondStop'
  BY <1>0 DEF ServiceInv, Shape, SecondStop, HandleKnown, Ending
<1>9. Deaths'
  BY <1>0 DEF ServiceInv, Shape, Deaths, SecondStop, Ending
<1> QED
  BY <1>1, <1>2, <1>3, <1>4, <1>5, <1>6, <1>7, <1>8, <1>9, TypeJoins DEF ServiceInv

LEMMA DogRestartKeeps ==
  ASSUME ServiceInv, DogRestarts
  PROVE  ServiceInv'
<1> USE DEF DogRestarts, Opened, At, Goto, Unlocked, service, session, threads, bounds,
            Main, SvcDog, EtwDog, None
<1>0. Flags /\ Shape /\ Numbers /\ Traced /\ MaxSessions \in Nat
  BY TypeSplits DEF ServiceInv
<1>1. Flags'
  BY <1>0 DEF Flags
<1>2. Shape'
  BY <1>0 DEF ServiceInv, Shape, Pc
<1>3. Numbers'
  BY <1>0, NumbersGrow DEF ServiceInv
<1>4. Traced'
  BY <1>0 DEF ServiceInv, Traced
<1>5. Places'
  BY <1>0 DEF ServiceInv, Places
<1>6. QuietUnlessTracing'
  BY <1>0 DEF ServiceInv, QuietUnlessTracing, Places, Quiet, Stop, Ending
<1>7. HandleKnown'
  BY <1>0 DEF ServiceInv, Shape, Numbers, HandleKnown, Places, QuietUnlessTracing, Quiet, Stop, Ending
<1>8. SecondStop'
  BY <1>0 DEF ServiceInv, Shape, SecondStop, HandleKnown
<1>9. Deaths'
  BY <1>0 DEF ServiceInv, Deaths, SecondStop
<1> QED
  BY <1>1, <1>2, <1>3, <1>4, <1>5, <1>6, <1>7, <1>8, <1>9, TypeJoins DEF ServiceInv

LEMMA DogRestartFailsKeeps ==
  ASSUME ServiceInv, DogRestartFails
  PROVE  ServiceInv'
<1> USE DEF DogRestartFails, NotStarted, HalfOpened, At, Goto, Unlocked, service, session, threads, bounds,
            Main, SvcDog, EtwDog, None
<1>0. Flags /\ Shape /\ Numbers /\ Traced /\ MaxSessions \in Nat
  BY TypeSplits DEF ServiceInv
<1>1. Flags'
  BY <1>0 DEF Flags
<1>2. Shape'
  BY <1>0 DEF ServiceInv, Shape, Pc
<1>3. Numbers'
  <2>1. CASE NotStarted
    BY <1>0, <2>1, NumbersStay DEF ServiceInv
  <2>2. CASE HalfOpened
    BY <1>0, <2>2, NumbersGrow
  <2> QED
    BY <2>1, <2>2
<1>4. Traced'
  BY <1>0 DEF ServiceInv, Traced
<1>5. Places'
  BY <1>0 DEF ServiceInv, Places
<1>6. QuietUnlessTracing'
  BY <1>0 DEF ServiceInv, QuietUnlessTracing, Places, Quiet, Stop, Ending
<1>7. HandleKnown'
  BY <1>0 DEF ServiceInv, Shape, HandleKnown, Places, QuietUnlessTracing, Quiet, Stop, Ending
<1>8. SecondStop'
  BY <1>0 DEF ServiceInv, Shape, SecondStop, HandleKnown
<1>9. Deaths'
  BY <1>0 DEF ServiceInv, Deaths, SecondStop
<1> QED
  BY <1>1, <1>2, <1>3, <1>4, <1>5, <1>6, <1>7, <1>8, <1>9, TypeJoins DEF ServiceInv

LEMMA DogJoinsKeeps ==
  ASSUME ServiceInv, DogJoins
  PROVE  ServiceInv'
<1> USE DEF DogJoins, Join, ProcEnded, At, Goto, Unlocked, service, session, threads, bounds,
            Main, SvcDog, EtwDog, None
<1>0. Flags /\ Shape /\ Numbers /\ Traced /\ MaxSessions \in Nat
  BY TypeSplits DEF ServiceInv
<1>1. Flags'
  BY <1>0 DEF Flags
<1>2. Shape'
  <2>1. pc' \in {pc, [pc EXCEPT ![EtwDog] = "respawn"]} /\ status' = status
    OBVIOUS
  <2>2. "respawn" \in Pc
    BY DEF Pc
  <2> QED
    BY <1>0, <2>1, <2>2 DEF Shape
<1>3. Numbers'
  BY <1>0, NumbersStay DEF ServiceInv
<1>4. Traced'
  BY <1>0 DEF ServiceInv, Shape, Traced
<1>5. Places'
  BY <1>0 DEF ServiceInv, Shape, Places
<1>6. QuietUnlessTracing'
  BY <1>0 DEF ServiceInv, Shape, QuietUnlessTracing, Places, Quiet
<1>7. HandleKnown'
  BY <1>0 DEF ServiceInv, Shape, HandleKnown, QuietUnlessTracing, Quiet
<1>8. SecondStop'
  BY <1>0 DEF ServiceInv, Shape, SecondStop, HandleKnown
<1>9. Deaths'
  BY <1>0 DEF ServiceInv, Deaths, SecondStop
<1> QED
  BY <1>1, <1>2, <1>3, <1>4, <1>5, <1>6, <1>7, <1>8, <1>9, TypeJoins DEF ServiceInv

LEMMA DogMovesKeep ==
  ASSUME ServiceInv, DogWakes \/ DogQueries \/ DogRespawns
  PROVE  ServiceInv'
<1> USE DEF DogWakes, DogQueries, DogRespawns, At, Goto, Unlocked, service, session, threads, bounds,
            Main, SvcDog, EtwDog, None
<1>0. Flags /\ Shape /\ Numbers /\ Traced /\ MaxSessions \in Nat
  BY TypeSplits DEF ServiceInv
<1>1. Flags'
  <2>1. CASE DogWakes
    BY <1>0, <2>1 DEF Flags
  <2>2. CASE DogQueries
    BY <1>0, <2>2 DEF Flags
  <2>3. CASE DogRespawns
    BY <1>0, <2>3 DEF Flags
  <2> QED
    BY <2>1, <2>2, <2>3
<1>2. Shape'
  <2>1. CASE DogWakes
    BY <1>0, <2>1 DEF ServiceInv, Shape, Pc
  <2>2. CASE DogQueries
    BY <1>0, <2>2 DEF ServiceInv, Shape, Pc
  <2>3. CASE DogRespawns
    BY <1>0, <2>3 DEF ServiceInv, Shape, Pc
  <2> QED
    BY <2>1, <2>2, <2>3
<1>3. Numbers'
  BY <1>0, NumbersStay DEF ServiceInv
<1>4. Traced'
  <2>1. CASE DogWakes
    BY <1>0, <2>1 DEF ServiceInv, Traced
  <2>2. CASE DogQueries
    BY <1>0, <2>2 DEF ServiceInv, Traced
  <2>3. CASE DogRespawns
    BY <1>0, <2>3 DEF ServiceInv, Traced, QuietUnlessTracing, HandleKnown
  <2> QED
    BY <2>1, <2>2, <2>3
<1>5. Places'
  <2>1. CASE DogWakes
    BY <1>0, <2>1 DEF ServiceInv, Places
  <2>2. CASE DogQueries
    BY <1>0, <2>2 DEF ServiceInv, Places
  <2>3. CASE DogRespawns
    BY <1>0, <2>3 DEF ServiceInv, Places
  <2> QED
    BY <2>1, <2>2, <2>3
<1>6. QuietUnlessTracing'
  <2>1. CASE DogWakes
    BY <1>0, <2>1 DEF ServiceInv, QuietUnlessTracing, Quiet
  <2>2. CASE DogQueries
    BY <1>0, <2>2 DEF ServiceInv, QuietUnlessTracing, Quiet
  <2>3. CASE DogRespawns
    BY <1>0, <2>3 DEF ServiceInv, QuietUnlessTracing, Quiet
  <2> QED
    BY <2>1, <2>2, <2>3
<1>7. HandleKnown'
  <2>1. CASE DogWakes
    BY <1>0, <2>1 DEF ServiceInv, HandleKnown
  <2>2. CASE DogQueries
    BY <1>0, <2>2 DEF ServiceInv, Numbers, HandleKnown
  <2>3. CASE DogRespawns
    BY <1>0, <2>3 DEF ServiceInv, Numbers, HandleKnown
  <2> QED
    BY <2>1, <2>2, <2>3
<1>8. SecondStop'
  <2>1. CASE DogWakes
    BY <1>0, <2>1 DEF ServiceInv, SecondStop
  <2>2. CASE DogQueries
    BY <1>0, <2>2 DEF ServiceInv, SecondStop
  <2>3. CASE DogRespawns
    BY <1>0, <2>3 DEF ServiceInv, SecondStop
  <2> QED
    BY <2>1, <2>2, <2>3
<1>9. Deaths'
  <2>1. CASE DogWakes
    BY <1>0, <2>1 DEF ServiceInv, Deaths
  <2>2. CASE DogQueries
    BY <1>0, <2>2 DEF ServiceInv, Deaths
  <2>3. CASE DogRespawns
    BY <1>0, <2>3 DEF ServiceInv, Deaths
  <2> QED
    BY <2>1, <2>2, <2>3
<1> QED
  BY <1>1, <1>2, <1>3, <1>4, <1>5, <1>6, <1>7, <1>8, <1>9, TypeJoins DEF ServiceInv

LEMMA SvcDogWakesKeeps ==
  ASSUME ServiceInv, SvcDogWakes
  PROVE  ServiceInv'
<1> USE DEF SvcDogWakes, Healthy, At, Goto, Unlocked, service, session, threads, bounds,
            Main, SvcDog, EtwDog, None
<1>0. Flags /\ Shape /\ Numbers /\ Traced /\ MaxSessions \in Nat
  BY TypeSplits DEF ServiceInv
<1>1. Flags'
  BY <1>0 DEF Flags
<1>2. Shape'
  BY <1>0 DEF ServiceInv, Shape, Pc
<1>3. Numbers'
  BY <1>0 DEF ServiceInv, Numbers
<1>4. Traced'
  BY <1>0 DEF ServiceInv, Numbers, Traced
<1>5. Places'
  BY <1>0 DEF ServiceInv, Places
<1>6. QuietUnlessTracing'
  BY <1>0 DEF ServiceInv, QuietUnlessTracing, Places, Quiet, Stop
<1>7. HandleKnown'
  BY <1>0 DEF ServiceInv, HandleKnown, QuietUnlessTracing, Quiet, Stop
<1>8. SecondStop'
  BY <1>0 DEF ServiceInv, SecondStop, HandleKnown
<1>9. Deaths'
  BY <1>0 DEF ServiceInv, Deaths, SecondStop
<1> QED
  BY <1>1, <1>2, <1>3, <1>4, <1>5, <1>6, <1>7, <1>8, <1>9, TypeJoins DEF ServiceInv

LEMMA MainMovesKeep ==
  ASSUME ServiceInv, Connect \/ StartDog \/ MainLeaves
  PROVE  ServiceInv'
<1> USE DEF Connect, StartDog, MainLeaves, At, Goto, Unlocked, service, session, threads, bounds,
            Main, SvcDog, EtwDog, None
<1>0. Flags /\ Shape /\ Numbers /\ Traced /\ MaxSessions \in Nat
  BY TypeSplits DEF ServiceInv
<1>1. Flags'
  <2>1. CASE Connect
    BY <1>0, <2>1 DEF Flags
  <2>2. CASE StartDog
    BY <1>0, <2>2 DEF Flags
  <2>3. CASE MainLeaves
    BY <1>0, <2>3 DEF Flags
  <2> QED
    BY <2>1, <2>2, <2>3
<1>2. Shape'
  <2>1. CASE Connect
    BY <1>0, <2>1 DEF ServiceInv, Shape, Pc
  <2>2. CASE StartDog
    BY <1>0, <2>2 DEF ServiceInv, Shape, Pc
  <2>3. CASE MainLeaves
    BY <1>0, <2>3 DEF ServiceInv, Shape, Pc
  <2> QED
    BY <2>1, <2>2, <2>3
<1>3. Numbers'
  BY <1>0, NumbersStay DEF ServiceInv
<1>4. Traced'
  <2>1. CASE Connect
    BY <1>0, <2>1 DEF ServiceInv, Traced
  <2>2. CASE StartDog
    BY <1>0, <2>2 DEF ServiceInv, Shape, Traced
  <2>3. CASE MainLeaves
    BY <1>0, <2>3 DEF ServiceInv, Shape, Traced
  <2> QED
    BY <2>1, <2>2, <2>3
<1>5. Places'
  <2>1. CASE Connect
    BY <1>0, <2>1 DEF ServiceInv, Places, Ending
  <2>2. CASE StartDog
    BY <1>0, <2>2 DEF ServiceInv, Shape, Places, Ending
  <2>3. CASE MainLeaves
    BY <1>0, <2>3 DEF ServiceInv, Shape, Places, Stop, Ending
  <2> QED
    BY <2>1, <2>2, <2>3
<1>6. QuietUnlessTracing'
  <2>1. CASE Connect
    BY <1>0, <2>1 DEF ServiceInv, QuietUnlessTracing, Quiet, Ending
  <2>2. CASE StartDog
    BY <1>0, <2>2 DEF ServiceInv, Shape, QuietUnlessTracing, Quiet, Stop, Ending
  <2>3. CASE MainLeaves
    BY <1>0, <2>3 DEF ServiceInv, Shape, QuietUnlessTracing, Quiet, Stop, Ending
  <2> QED
    BY <2>1, <2>2, <2>3
<1>7. HandleKnown'
  <2>1. CASE Connect
    BY <1>0, <2>1 DEF ServiceInv, HandleKnown
  <2>2. CASE StartDog
    BY <1>0, <2>2 DEF ServiceInv, Shape, HandleKnown
  <2>3. CASE MainLeaves
    BY <1>0, <2>3 DEF ServiceInv, Shape, HandleKnown
  <2> QED
    BY <2>1, <2>2, <2>3
<1>8. SecondStop'
  <2>1. CASE Connect
    BY <1>0, <2>1 DEF ServiceInv, SecondStop, Places
  <2>2. CASE StartDog
    BY <1>0, <2>2 DEF ServiceInv, Shape, SecondStop, Places
  <2>3. CASE MainLeaves
    BY <1>0, <2>3 DEF ServiceInv, Shape, SecondStop, Places
  <2> QED
    BY <2>1, <2>2, <2>3
<1>9. Deaths'
  <2>1. CASE Connect
    BY <1>0, <2>1 DEF ServiceInv, Deaths
  <2>2. CASE StartDog
    BY <1>0, <2>2 DEF ServiceInv, Deaths
  <2>3. CASE MainLeaves
    BY <1>0, <2>3 DEF ServiceInv, Deaths
  <2> QED
    BY <2>1, <2>2, <2>3
<1> QED
  BY <1>1, <1>2, <1>3, <1>4, <1>5, <1>6, <1>7, <1>8, <1>9, TypeJoins DEF ServiceInv

LEMMA ResetKeeps ==
  ASSUME ServiceInv, Reset
  PROVE  ServiceInv'
<1> USE DEF Reset, Left, At, Goto, Unlocked, service, session, threads, bounds,
            Main, SvcDog, EtwDog, None
<1>0. Flags /\ Shape /\ Numbers /\ Traced /\ MaxSessions \in Nat
  BY TypeSplits DEF ServiceInv
<1>1. Flags'
  BY <1>0 DEF Flags
<1>2. Shape'
  BY <1>0 DEF ServiceInv, Shape, Pc
<1>3. Numbers'
  BY <1>0 DEF ServiceInv, Numbers
<1>4. Traced'
  BY <1>0 DEF ServiceInv, Numbers, Traced
<1>5. Places'
  BY <1>0 DEF ServiceInv, Places, Ending
<1>6. QuietUnlessTracing'
  BY <1>0 DEF ServiceInv, QuietUnlessTracing, Places, Ending
<1>7. HandleKnown'
  BY <1>0 DEF ServiceInv, HandleKnown, QuietUnlessTracing
<1>8. SecondStop'
  BY <1>0 DEF ServiceInv, SecondStop, Places, HandleKnown
<1>9. Deaths'
  BY <1>0 DEF ServiceInv, Deaths, Places, SecondStop
<1> QED
  BY <1>1, <1>2, <1>3, <1>4, <1>5, <1>6, <1>7, <1>8, <1>9, TypeJoins DEF ServiceInv

LEMMA ReportKeeps ==
  ASSUME ServiceInv, Report
  PROVE  ServiceInv'
<1> USE DEF Report, At, Goto, Unlocked, service, session, threads, bounds,
            Main, SvcDog, EtwDog, None
<1>0. Flags /\ Shape /\ Numbers /\ Traced /\ MaxSessions \in Nat
  BY TypeSplits DEF ServiceInv
<1>1. Flags'
  BY <1>0 DEF Flags
<1>2. Shape'
  BY <1>0 DEF ServiceInv, Shape, Pc
<1>3. Numbers'
  BY <1>0 DEF ServiceInv, Numbers
<1>4. Traced'
  BY <1>0 DEF ServiceInv, Numbers, Traced
<1>5. Places'
  BY <1>0 DEF ServiceInv, Places, Ending
<1>6. QuietUnlessTracing'
  BY <1>0 DEF ServiceInv, QuietUnlessTracing, Places, Ending
<1>7. HandleKnown'
  BY <1>0 DEF ServiceInv, HandleKnown, QuietUnlessTracing
<1>8. SecondStop'
  BY <1>0 DEF ServiceInv, SecondStop, Places, HandleKnown
<1>9. Deaths'
  BY <1>0 DEF ServiceInv, Deaths, Places, SecondStop
<1> QED
  BY <1>1, <1>2, <1>3, <1>4, <1>5, <1>6, <1>7, <1>8, <1>9, TypeJoins DEF ServiceInv

LEMMA OthersKeep ==
  ASSUME ServiceInv, ControlStop \/ Kill \/ Reachable
  PROVE  ServiceInv'
<1> USE DEF ControlStop, Kill, Reachable, At, Goto, Unlocked, service, session, threads, bounds,
            Main, SvcDog, EtwDog, None
<1>0. Flags /\ Shape /\ Numbers /\ Traced /\ MaxSessions \in Nat
  BY TypeSplits DEF ServiceInv
<1>1. Flags'
  <2>1. CASE ControlStop
    BY <1>0, <2>1 DEF Flags
  <2>2. CASE Kill
    BY <1>0, <2>2 DEF Flags
  <2>3. CASE Reachable
    BY <1>0, <2>3 DEF Flags
  <2> QED
    BY <2>1, <2>2, <2>3
<1>2. Shape'
  <2>1. CASE ControlStop
    BY <1>0, <2>1 DEF ServiceInv, Shape
  <2>2. CASE Kill
    BY <1>0, <2>2 DEF ServiceInv, Shape
  <2>3. CASE Reachable
    BY <1>0, <2>3 DEF ServiceInv, Shape
  <2> QED
    BY <2>1, <2>2, <2>3
<1>3. Numbers'
  BY <1>0, NumbersStay DEF ServiceInv
<1>4. Traced'
  <2>1. CASE ControlStop
    BY <1>0, <2>1 DEF ServiceInv, Traced
  <2>2. CASE Kill
    BY <1>0, <2>2 DEF ServiceInv, Traced
  <2>3. CASE Reachable
    BY <1>0, <2>3 DEF ServiceInv, Traced
  <2> QED
    BY <2>1, <2>2, <2>3
<1>5. Places'
  <2>1. CASE ControlStop
    BY <1>0, <2>1 DEF ServiceInv, Places
  <2>2. CASE Kill
    BY <1>0, <2>2 DEF ServiceInv, Places
  <2>3. CASE Reachable
    BY <1>0, <2>3 DEF ServiceInv, Places
  <2> QED
    BY <2>1, <2>2, <2>3
<1>6. QuietUnlessTracing'
  <2>1. CASE ControlStop
    BY <1>0, <2>1 DEF ServiceInv, QuietUnlessTracing, Quiet
  <2>2. CASE Kill
    BY <1>0, <2>2 DEF ServiceInv, QuietUnlessTracing, Quiet
  <2>3. CASE Reachable
    BY <1>0, <2>3 DEF ServiceInv, QuietUnlessTracing, Quiet
  <2> QED
    BY <2>1, <2>2, <2>3
<1>7. HandleKnown'
  <2>1. CASE ControlStop
    BY <1>0, <2>1 DEF ServiceInv, HandleKnown
  <2>2. CASE Kill
    BY <1>0, <2>2 DEF ServiceInv, HandleKnown
  <2>3. CASE Reachable
    BY <1>0, <2>3 DEF ServiceInv, HandleKnown
  <2> QED
    BY <2>1, <2>2, <2>3
<1>8. SecondStop'
  <2>1. CASE ControlStop
    BY <1>0, <2>1 DEF ServiceInv, SecondStop
  <2>2. CASE Kill
    BY <1>0, <2>2 DEF ServiceInv, SecondStop
  <2>3. CASE Reachable
    BY <1>0, <2>3 DEF ServiceInv, SecondStop
  <2> QED
    BY <2>1, <2>2, <2>3
<1>9. Deaths'
  <2>1. CASE ControlStop
    BY <1>0, <2>1 DEF ServiceInv, Deaths
  <2>2. CASE Kill
    BY <1>0, <2>2 DEF ServiceInv, Deaths
  <2>3. CASE Reachable
    BY <1>0, <2>3 DEF ServiceInv, Deaths
  <2> QED
    BY <2>1, <2>2, <2>3
<1> QED
  BY <1>1, <1>2, <1>3, <1>4, <1>5, <1>6, <1>7, <1>8, <1>9, TypeJoins DEF ServiceInv

LEMMA InitService == Init => ServiceInv
<1> SUFFICES ASSUME Init PROVE ServiceInv
  OBVIOUS
<1> USE DEF Init, Main, SvcDog, EtwDog, None
<1>1. TypeOK
  <2>1. {asked, running, reachable, tracing, worker, destroying} \subseteq BOOLEAN
    OBVIOUS
  <2>2. pc \in [{Main, SvcDog, EtwDog} -> Pc]
    BY DEF Pc
  <2>3. {handle, made, proc} \subseteq 0..MaxSessions /\ proc <= made
    BY ServiceAssumption, SMT
  <2> QED
    BY <2>1, <2>2, <2>3 DEF TypeOK
<1>2. Places /\ QuietUnlessTracing /\ HandleKnown /\ SecondStop /\ Deaths
  BY DEF Places, QuietUnlessTracing, Quiet, HandleKnown, SecondStop, Deaths
<1> QED
  BY <1>1, <1>2 DEF ServiceInv

LEMMA NextService == ServiceInv /\ [Next]_vars => ServiceInv'
<1> SUFFICES ASSUME ServiceInv, [Next]_vars PROVE ServiceInv'
  OBVIOUS
<1>1. ASSUME NEW t \in {Main, SvcDog}, StopStep(t) PROVE ServiceInv'
  BY <1>1, FlagsKeeps, CloseKeeps, JoinKeeps, JoinDogKeeps DEF StopStep
<1>2. CASE MainStep
  BY <1>1, <1>2, StartKeeps, StartFailsKeeps, MainMovesKeep, ResetKeeps, ReportKeeps
  DEF MainStep
<1>3. CASE SvcDogStep
  BY <1>1, <1>3, StartKeeps, StartFailsKeeps, SvcDogWakesKeeps DEF SvcDogStep
<1>4. CASE EtwDogStep
  BY <1>4, DogMovesKeep, DogRestartKeeps, DogRestartFailsKeeps, DogJoinsKeeps DEF EtwDogStep
<1>5. CASE ControlStop \/ Kill \/ Reachable
  BY <1>5, OthersKeep
<1>6. CASE UNCHANGED vars
  <2> USE <1>6 DEF vars, service, session, threads, bounds, ServiceInv
  <2>1. TypeOK'
    BY DEF TypeOK, Unlocked
  <2>2. Places' /\ Deaths'
    BY DEF Places, Deaths
  <2>3. QuietUnlessTracing' /\ HandleKnown' /\ SecondStop'
    BY DEF QuietUnlessTracing, Quiet, HandleKnown, SecondStop
  <2> QED
    BY <2>1, <2>2, <2>3
<1> QED
  BY <1>2, <1>3, <1>4, <1>5, <1>6 DEF Next

(* Who may be where during a start, a restart and a stop, and which        *)
(* session and thread there is then.                                       *)
THEOREM ServiceInvCorrect == Spec => []ServiceInv
<1> QED
  BY InitService, NextService, PTL DEF Spec

(* The service's state keeps its type.                                     *)
THEOREM ServiceTypeCorrect == Spec => []TypeOK
<1>1. ServiceInv => TypeOK
  BY DEF ServiceInv
<1> QED
  BY <1>1, ServiceInvCorrect, PTL

(* The agent never has two ETW sessions, whatever is killed, fails or is   *)
(* stopped while it restarts.                                              *)
THEOREM OneSessionCorrect == Spec => []OneSession
<1>1. ASSUME ServiceInv PROVE OneSession
  <2>1. kernel \subseteq {handle}
    BY <1>1 DEF ServiceInv, HandleKnown
  <2>2. IsFiniteSet({handle}) /\ Cardinality({handle}) = 1
    BY FS_Singleton
  <2>3. IsFiniteSet(kernel) /\ Cardinality(kernel) <= 1
    BY <2>1, <2>2, FS_Subset
  <2> QED
    BY <2>3 DEF OneSession
<1> QED
  BY <1>1, ServiceInvCorrect, PTL

(* No start finds a thread of an earlier start.                            *)
THEOREM NoThreadOverwrittenCorrect == Spec => []NoThreadOverwritten
<1>1. ServiceInv => NoThreadOverwritten
  BY DEF ServiceInv, Deaths, NoThreadOverwritten
<1> QED
  BY <1>1, ServiceInvCorrect, PTL

(* The second stop leaves neither session nor thread, but the worker.      *)
THEOREM StoppedForGoodCorrect == Spec => []StoppedForGood
<1>1. ServiceInv => StoppedForGood
  BY DEF ServiceInv, Deaths, Places, SecondStop, StoppedForGood
<1> QED
  BY <1>1, ServiceInvCorrect, PTL
=============================================================================
