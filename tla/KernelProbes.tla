---------------------------- MODULE KernelProbes ----------------------------
(***************************************************************************)
(* agent/ebpf/src/ghost_agent.bpf.c: the programs that the kernel runs at  *)
(* system calls, the three ring buffers they reserve events in, and the    *)
(* maps by which they recognise a descriptor at a later call.              *)
(*                                                                         *)
(* One action is one run of a program; of handle_openat_exit, which leaves *)
(* a pointer into a map in use after it deleted the entry, one is one call *)
(* of a helper.  Of an event only its ring is kept; what stands in its     *)
(* path field is in module EventText.  That the LRU maps forget their      *)
(* eldest entries is left out: an event then has no path at all.           *)
(***************************************************************************)
EXTENDS Integers, FiniteSets

CONSTANTS
  Threads, Processes,
  ProcessOf,    \* the process of a thread: the pid that the maps are keyed by
  Fds,          \* descriptors above 2
  Paths, Kind,  \* paths, and what is_noisy_path and handle_openat see in each
  Elements,     \* openat_staging's memory, allocated once and given out again
  NoEntry,
  Failed,       \* what openat returns when it fails
  Ports,        \* the ports that threads connect to
  Ignored,      \* processes in pid_blacklist or ghost_config: should_drop
  Noisy,        \* threads that should_drop_noisy drops by uid or name
  Size,         \* events that fit into each ring
  MaxCalls      \* bound: calls of openat and connect, which the maps remember

Rings == {"critical", "standard", "tls"}
Kinds == {"plain", "tmp", "proc", "shm", "random"}

ASSUME ProbesAssumption ==
  /\ ProcessOf \in [Threads -> Processes] /\ Kind \in [Paths -> Kinds]
  /\ NoEntry \notin Elements \X Paths /\ Failed \notin Fds
  /\ Ignored \subseteq Processes /\ Noisy \subseteq Threads
  /\ Size \in [Rings -> Nat \ {0}] /\ MaxCalls \in Nat

VARIABLES
  used,      \* events in each ring
  call,      \* where a thread is in openat, and in its exit program
  staging,   \* openat_staging: the element of each process and its path
  fdPaths,   \* fd_path_cache: the paths that an entry's bytes come from
  dnsFds, tlsFds,   \* dns_fd_cache, tls_fd_cache
  asked,     \* history: the paths that a process has passed to openat
  foreign,   \* history: those of others that can be taken for its own
  calls

maps == <<call, staging, fdPaths, dnsFds, tlsFds, asked, foreign, calls>>
kernel == <<used, maps>>

Slots == Processes \X Fds

(* Mutant: the key of the caches without its upper half.                   *)
ByFd(t, fd) == <<CHOOSE g \in Processes : TRUE, fd>>

(* fd_key: the pid in the upper half, the descriptor in the lower.         *)
Slot(t, fd) == <<ProcessOf[t], fd>>

-----------------------------------------------------------------------------
(* The programs that only reserve, fill and submit one event: the ring     *)
(* each writes to, and the threads it drops.                               *)
On(ring, filter, syscalls) ==
  {[ring |-> ring, filter |-> filter, syscall |-> c] : c \in syscalls}

PrivilegeProbes == On("critical", "own", {"setuid", "setgid", "ptrace", "capset"})
MemoryProbes == On("standard", "own", {"mmap", "mprotect"})
ProcessProbes == On("critical", "own", {"execve", "execveat"})
            \cup On("standard", "own", {"clone", "exit_group", "prctl"})
FileProbes == On("standard", "own", {"openat2", "unlink", "rename", "renameat2",
                                     "renameat", "chmod", "chown"})
SocketProbes == On("standard", "own", {"bind", "listen", "fork", "vfork"})
ReadWriteProbes == On("standard", "noisy", {"read", "write"})
ReceiveProbes == On("standard", "own", {"recvfrom", "recvmsg"})
AuthProbes == On("critical", "own", {"setreuid", "setregid", "setns"})
LsmProbes == On("critical", "own", {"capable"})
        \cup On("standard", "own", {"file_open"})
SignalProbes == On("standard", "own", {"socket", "accept4", "dup2", "dup3",
                                       "kill", "tgkill"})
NetworkProbes == On("standard", "own", {"tcp_connect", "inet_csk_accept",
                                        "tcp_close", "udp_sendmsg", "udp_recvmsg"})
PerfProbes == On("critical", "own", {"perf_event_open"})
Probes == PrivilegeProbes \cup MemoryProbes \cup ProcessProbes \cup FileProbes
  \cup SocketProbes \cup ReadWriteProbes \cup ReceiveProbes \cup AuthProbes
  \cup LsmProbes \cup SignalProbes \cup NetworkProbes \cup PerfProbes

ShouldDrop(t) == ProcessOf[t] \in Ignored
ShouldDropNoisy(t) == ShouldDrop(t) \/ t \in Noisy
IsNoisyPath(p) == Kind[p] \in {"proc", "shm", "random"}

(* Mutant: a full ring is not noticed.                                     *)
Overrun(u, r) == [u EXCEPT ![r] = @ + 1]

(* RESERVE and bpf_ringbuf_submit: a full ring refuses the new event.      *)
Reserve(u, r) == IF u[r] < Size[r] THEN [u EXCEPT ![r] = @ + 1] ELSE u

-----------------------------------------------------------------------------
(* A thread that is not in openat; that is in it, with the path that it    *)
(* asked for; and whose exit program has found an element, with the result *)
(* of the call and all that the element has held since.                    *)
Idle == [at |-> "idle"]
InOpenat(p) == [at |-> "openat", path |-> p]
InExit(p, x, r, seen) ==
  [at |-> "found", path |-> p, element |-> x, ret |-> r, seen |-> seen]
Holds(t, x) == call[t].at \in {"found", "deleted"} /\ call[t].element = x

ProbesInit ==
  /\ used = [r \in Rings |-> 0]
  /\ call = [t \in Threads |-> Idle]
  /\ staging = [g \in Processes |-> NoEntry]
  /\ fdPaths = [s \in Slots |-> {}]
  /\ dnsFds = {} /\ tlsFds = {}
  /\ asked = [g \in Processes |-> {}] /\ foreign = [g \in Processes |-> {}]
  /\ calls = 0

(* Any of them: two with the same ring and filter do the same here.        *)
ProbeShapes == {<<p.ring, p.filter>> : p \in Probes}

Probe(t) ==
  \E s \in ProbeShapes :
    /\ ~ (IF s[2] = "noisy" THEN ShouldDropNoisy(t) ELSE ShouldDrop(t))
    /\ used' = Reserve(used, s[1])
    /\ UNCHANGED maps

(* bpf_map_update_elem of openat_staging.  A free element is taken, that of *)
(* an entry that is replaced becomes free, and an exit program that still  *)
(* holds the one taken reads the new bytes, or some of them.               *)
StageIn(t, p, x) ==
  /\ \A g \in Processes : staging[g] # NoEntry => staging[g][1] # x
  /\ staging' = [staging EXCEPT ![ProcessOf[t]] = <<x, p>>]
  /\ call' = [u \in Threads |->
       IF u = t THEN InOpenat(p)
       ELSE IF Holds(u, x) THEN [call[u] EXCEPT !.seen = @ \cup {p}] ELSE call[u]]
  /\ foreign' = [g \in Processes |->
       IF g # ProcessOf[t] /\ \E u \in Threads : ProcessOf[u] = g /\ Holds(u, x)
         THEN foreign[g] \cup {p} ELSE foreign[g]]

(* Nothing is staged: the path is hidden, or the map full and the key new. *)
StageNone(t, p) ==
  /\ call' = [call EXCEPT ![t] = InOpenat(p)]
  /\ UNCHANGED <<staging, foreign>>

(* handle_openat and handle_entropy_watch at the same tracepoint.          *)
Openat(t, p) ==
  /\ call[t] = Idle
  /\ calls < MaxCalls /\ calls' = calls + 1
  /\ asked' = [asked EXCEPT ![ProcessOf[t]] = @ \cup {p}]
  /\ IF ShouldDropNoisy(t) \/ IsNoisyPath(p)
       THEN /\ StageNone(t, p)
            /\ used' = IF ~ShouldDrop(t) /\ Kind[p] = "random"
                         THEN Reserve(used, "standard") ELSE used
       ELSE /\ \/ \E x \in Elements : StageIn(t, p, x)
               \/ staging[ProcessOf[t]] = NoEntry /\ StageNone(t, p)
            /\ used' = Reserve(used, IF Kind[p] = "tmp" THEN "critical" ELSE "standard")
  /\ UNCHANGED <<fdPaths, dnsFds, tlsFds>>

(* handle_openat_exit: bpf_map_lookup_elem,                                *)
OpenatReturns(t, r) ==
  /\ call[t].at = "openat"
  /\ LET entry == staging[ProcessOf[t]] IN
       call' = [call EXCEPT ![t] = IF entry = NoEntry THEN Idle
                                   ELSE InExit(@.path, entry[1], r, {entry[2]})]
  /\ UNCHANGED <<used, staging, fdPaths, dnsFds, tlsFds, asked, foreign, calls>>

(* bpf_map_delete_elem of what the process then has there,                 *)
OpenatUnstages(t) ==
  /\ call[t].at = "found"
  /\ staging' = [staging EXCEPT ![ProcessOf[t]] = NoEntry]
  /\ call' = [call EXCEPT ![t] = IF @.ret = Failed THEN Idle
                                 ELSE [@ EXCEPT !.at = "deleted"]]
  /\ UNCHANGED <<used, fdPaths, dnsFds, tlsFds, asked, foreign, calls>>

(* bpf_map_update_elem of fd_path_cache, from the element deleted.         *)
OpenatCaches(t) ==
  /\ call[t].at = "deleted"
  /\ \E bytes \in SUBSET call[t].seen \ {{}} :
       fdPaths' = [fdPaths EXCEPT ![Slot(t, call[t].ret)] = bytes]
  /\ call' = [call EXCEPT ![t] = Idle]
  /\ UNCHANGED <<used, staging, dnsFds, tlsFds, asked, foreign, calls>>

(* handle_connect: a descriptor is marked only with an event reserved.     *)
Connect(t, fd, port) ==
  /\ ~ShouldDrop(t) /\ used["standard"] < Size["standard"]
  /\ calls < MaxCalls /\ calls' = calls + 1
  /\ used' = Reserve(used, "standard")
  /\ dnsFds' = IF port = 53 THEN dnsFds \cup {Slot(t, fd)} ELSE dnsFds
  /\ tlsFds' = IF port = 443 THEN tlsFds \cup {Slot(t, fd)} ELSE tlsFds
  /\ UNCHANGED <<call, staging, fdPaths, asked, foreign>>

(* handle_sendto, to an address of port 53 or not, and handle_sendmsg:     *)
(* the event of the call, one of its DNS query, one of its ClientHello.    *)
Captures(t, fd, dns, hello) ==
  LET sent == Reserve(used, "standard")
      query == IF dns THEN Reserve(sent, "standard") ELSE sent
  IN IF hello /\ Slot(t, fd) \in tlsFds THEN Reserve(query, "tls") ELSE query

Sendto(t, fd) ==
  /\ ~ShouldDrop(t) /\ used["standard"] < Size["standard"]
  /\ \E to53, hello \in BOOLEAN : used' = Captures(t, fd, to53, hello)
  /\ UNCHANGED maps

Sendmsg(t, fd) ==
  /\ ~ShouldDrop(t) /\ used["standard"] < Size["standard"]
  /\ \E hello \in BOOLEAN :
       used' = Captures(t, fd, Slot(t, fd) \in dnsFds, hello)
  /\ UNCHANGED maps

(* The end of a process runs none of these programs: what the caches hold  *)
(* under its pid stays, and the next process with that pid finds it.       *)
PidReused(g) ==
  /\ asked[g] # {} /\ \A t \in Threads : ProcessOf[t] = g => call[t] = Idle
  /\ asked' = [asked EXCEPT ![g] = {}]
  /\ foreign' = [foreign EXCEPT ![g] = @ \cup asked[g]]
  /\ UNCHANGED <<used, call, staging, fdPaths, dnsFds, tlsFds, calls>>

ProbesNext ==
  \/ \E t \in Threads :
       \/ Probe(t) \/ OpenatUnstages(t) \/ OpenatCaches(t)
       \/ \E p \in Paths : Openat(t, p)
       \/ \E r \in Fds \cup {Failed} : OpenatReturns(t, r)
  \/ \E t \in Threads, fd \in Fds :
       \/ Sendto(t, fd) \/ Sendmsg(t, fd)
       \/ \E port \in Ports : Connect(t, fd, port)
  \/ \E g \in Processes : PidReused(g)

-----------------------------------------------------------------------------
Calls ==
  {Idle} \cup [at : {"openat"}, path : Paths]
    \cup [at : {"found"}, path : Paths, element : Elements, ret : Fds \cup {Failed},
          seen : SUBSET Paths]
    \cup [at : {"deleted"}, path : Paths, element : Elements, ret : Fds,
          seen : SUBSET Paths]

ProbesTypeOK ==
  /\ used \in [Rings -> Nat] /\ \A r \in Rings : used[r] <= Size[r]
  /\ call \in [Threads -> Calls]
  /\ staging \in [Processes -> (Elements \X Paths) \cup {NoEntry}]
  /\ fdPaths \in [Slots -> SUBSET Paths]
  /\ dnsFds \subseteq Slots /\ tlsFds \subseteq Slots
  /\ asked \in [Processes -> SUBSET Paths] /\ foreign \in [Processes -> SUBSET Paths]
  /\ calls \in Nat

(* Whatever the threads of all processes stage, delete and copy at once,   *)
(* the path that a read or write event gets from the cache is one that the *)
(* process itself asked to open, except in two ways: an earlier process    *)
(* with its pid had asked for it, or another process staged it in the very *)
(* element that handle_openat_exit was about to copy.                      *)
PathsOfOwnProcess ==
  \A s \in Slots : fdPaths[s] \subseteq asked[s[1]] \cup foreign[s[1]]

(* The same without the exceptions, which the code does not have.          *)
PathsAreOwn == \A s \in Slots : fdPaths[s] \subseteq asked[s[1]]

(* A descriptor is listed under the path that it was opened with.  The     *)
(* code does not: two threads swap paths, and a path that is_noisy_path    *)
(* hides takes the one that another thread has staged.                     *)
DescriptorNamesItsFile ==
  [][\A t \in Threads : OpenatCaches(t) =>
       fdPaths'[Slot(t, call[t].ret)] = {call[t].path}]_kernel

(* ghost_agent.bpf.c:510, "Elevate /tmp and /dev/shm opens to critical     *)
(* ring": is_noisy_path drops every open below /dev/ before that.          *)
SharedMemoryElevated ==
  [][\A t \in Threads, p \in Paths :
       Openat(t, p) /\ Kind[p] = "shm" /\ used["critical"] < Size["critical"]
         => used'["critical"] > used["critical"]]_kernel
=============================================================================
