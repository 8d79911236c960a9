----------------------------- MODULE Container ------------------------------
(***************************************************************************)
(* The container's side: threads that make the system calls the seccomp    *)
(* filter reports (external; the calls are those handleReq switches on),   *)
(* and the descriptor tables of its processes.  A reported call stops its  *)
(* thread until the handler answers; an answer with the CONTINUE flag lets *)
(* the kernel execute the call, which matters for close and exit_group.    *)
(***************************************************************************)
EXTENDS HostKernel

CONSTANTS
    Threads,
    Tgid,          \* Threads -> thread group leader, which names the process
    Fds,           \* descriptor numbers of a process
    Calls,         \* the calls the threads make: the workload
    Interrupts,    \* may a signal end a call that waits for the handler?
    SilentCloses,  \* may a descriptor be closed by an unreported call?
    Kills,         \* may a process be killed by SIGKILL?
    Kinds,         \* what the threads open, among Inet and Other
    Closed, Inet, Other

\* setnonblock and setblock are the two outcomes of F_SETFL; getfl stands for
\* F_GETFL, F_SETFD and the commands the handler does not know.
Names == {"bind", "listen", "accept", "connect", "getname", "setsockopt",
          "setnonblock", "setblock", "getfl", "close", "exit_group"}

\* addr = None: the sockaddr cannot be read or is of another family.
Call == [name : Names, fd : Fds, addr : VAddrs \cup {None}]

Procs == {Tgid[t] : t \in Threads}

\* What a container descriptor refers to: a TCP socket of its own network
\* namespace, something that is no TCP socket, a socket the handler installed
\* from its own table, or (a virtual address) a connection dialled for it.
ContainerFile == {Closed, Inet, Other} \cup VAddrs \cup File

ASSUME ContainerAssumption ==
    /\ Tgid \in [Threads -> Threads]
    /\ \A t \in Threads : Tgid[Tgid[t]] = Tgid[t]
    /\ Fds \subseteq Nat
    /\ Calls \subseteq Call
    /\ Kinds \subseteq {Inet, Other}
    /\ Interrupts \in BOOLEAN
    /\ SilentCloses \in BOOLEAN
    /\ Kills \in BOOLEAN

ASSUME ContainerDistinct ==
    /\ {Closed, Inet, Other} \cap (VAddrs \cup File \cup {None, Free}) = {}
    /\ Closed # Inet /\ Inet # Other /\ Closed # Other
    /\ None \notin Calls
    /\ {Orphan, Foreign} \cap VAddrs = {}

VARIABLES
    phase,  \* where each thread's current call stands
    call,   \* that call, or None
    kfd     \* the descriptor table of each process

containerVars == <<phase, call, kfd>>

Phases == {"idle", "notified", "received", "continued", "exited"}

ContainerTypeOK ==
    /\ phase \in [Threads -> Phases]
    /\ call \in [Threads -> Calls \cup {None}]
    /\ kfd \in [Procs -> [Fds -> ContainerFile]]

ContainerInit ==
    /\ phase = [t \in Threads |-> "idle"]
    /\ call = [t \in Threads |-> None]
    /\ kfd = [p \in Procs |-> [fd \in Fds |-> Closed]]

NextContainerFd(p, fd) ==
    /\ kfd[p][fd] = Closed
    /\ \A d \in Fds : d < fd => kfd[p][d] # Closed

ContainerTableFull(p) == \A fd \in Fds : kfd[p][fd] # Closed

-----------------------------------------------------------------------------
\* A reported system call.  A single-threaded process accepts only when it has
\* a descriptor to spare, unless the run is about faults.
MakeCall(t, c) ==
    /\ phase[t] = "idle"
    /\ c.name = "accept" => Interrupts \/ ~ContainerTableFull(Tgid[t])
    /\ phase' = [phase EXCEPT ![t] = "notified"]
    /\ call' = [call EXCEPT ![t] = c]
    /\ UNCHANGED kfd

\* socket(2) and open(2), which the filter does not report.
Open(t) ==
    /\ phase[t] = "idle"
    /\ \E fd \in Fds, kind \in Kinds :
          /\ NextContainerFd(Tgid[t], fd)
          /\ kfd' = [kfd EXCEPT ![Tgid[t]][fd] = kind]
    /\ UNCHANGED <<phase, call>>

\* dup2(2), close_range(2) or FD_CLOEXEC: the descriptor goes unreported.
SilentClose(t) ==
    /\ SilentCloses
    /\ phase[t] = "idle"
    /\ \E fd \in Fds : /\ kfd[Tgid[t]][fd] # Closed
                       /\ kfd' = [kfd EXCEPT ![Tgid[t]][fd] = Closed]
    /\ UNCHANGED <<phase, call>>

\* A signal handler runs: the notification is withdrawn, received or not.
Interrupt(t) ==
    /\ Interrupts
    /\ phase[t] \in {"notified", "received"}
    /\ phase' = [phase EXCEPT ![t] = "idle"]
    /\ call' = [call EXCEPT ![t] = None]
    /\ UNCHANGED kfd

\* The kernel executes the close(2) the handler answered with CONTINUE.
KernelClose(t) ==
    /\ phase[t] = "continued"
    /\ call[t].name = "close"
    /\ kfd' = [kfd EXCEPT ![Tgid[t]][call[t].fd] = Closed]
    /\ phase' = [phase EXCEPT ![t] = "idle"]
    /\ call' = [call EXCEPT ![t] = None]

EndProcess(p) ==
    /\ phase' = [t \in Threads |-> IF Tgid[t] = p THEN "exited" ELSE phase[t]]
    /\ call' = [t \in Threads |-> IF Tgid[t] = p THEN None ELSE call[t]]
    /\ kfd' = [kfd EXCEPT ![p] = [fd \in Fds |-> Closed]]

KernelExit(t) ==
    /\ phase[t] = "continued"
    /\ call[t].name = "exit_group"
    /\ EndProcess(Tgid[t])

\* SIGKILL: nothing is reported to the handler.
Kill(t) ==
    /\ Kills
    /\ Tgid[t] = t
    /\ phase[t] # "exited"
    /\ EndProcess(t)
=============================================================================
