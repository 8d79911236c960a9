------------------------------ MODULE PidCache ------------------------------
(***************************************************************************)
(* What a notification handler remembers of processes by their number      *)
(* (src/pkg/tiaccoon/seccomp/notif.go): pidInfos caches a pidfd and the    *)
(* thread group leader, memfds a descriptor of /proc/<pid>/mem, processes  *)
(* the sockets.  The kernel reuses the numbers, and tells the handler of   *)
(* the end of a process only by the exit_group that the seccomp profile    *)
(* reports: neither SIGKILL nor the end of a single thread is.             *)
(*                                                                         *)
(* A process is an element of Incarnations; a descriptor kept by the       *)
(* handler refers to one for ever, a number to whichever has it now.       *)
(***************************************************************************)
EXTENDS Naturals

CONSTANTS Pids, Incarnations, NoOne

ASSUME PidCacheAssumption == Incarnations \subseteq Nat /\ NoOne \notin Incarnations

VARIABLES
    task,       \* the tasks of the container by number (external)
    used,       \* incarnations that have been born
    odd,        \* numbers that a process with several threads, one of these
                \* threads or a killed process has had
    pidInfos, memfds,
    processes   \* of whom a number has registered sockets

pidVars == <<task, used, odd, pidInfos, memfds, processes>>

Task == [is : Incarnations, tgid : Pids, leaving : BOOLEAN]
PidInfo == [pidType : {"PROCESS", "THREAD"}, pidfd : Incarnations, tgid : Pids]

NoTask == [is |-> NoOne]
NoInfo == [pidfd |-> NoOne]

PidTypeOK ==
    /\ task \in [Pids -> Task \cup {NoTask}]
    /\ used \subseteq Incarnations
    /\ odd \subseteq Pids
    /\ pidInfos \in [Pids -> PidInfo \cup {NoInfo}]
    /\ memfds \in [Pids -> Incarnations \cup {NoOne}]
    /\ processes \in [Pids -> SUBSET Incarnations]

PidInit ==
    /\ task = [p \in Pids |-> NoTask]
    /\ used = {}
    /\ odd = {}
    /\ pidInfos = [p \in Pids |-> NoInfo]
    /\ memfds = [p \in Pids |-> NoOne]
    /\ processes = [p \in Pids |-> {}]

Alive(p) == task[p].is # NoOne
Lives(i) == \E p \in Pids : task[p].is = i

-----------------------------------------------------------------------------
(* The kernel. *)

Fork(p) ==
    /\ ~Alive(p)
    /\ \E i \in Incarnations \ used :
          /\ \A j \in Incarnations \ used : i <= j
          /\ task' = [task EXCEPT ![p] = [is |-> i, tgid |-> p, leaving |-> FALSE]]
          /\ used' = used \cup {i}
    /\ UNCHANGED <<odd, pidInfos, memfds, processes>>

Clone(t, p) ==
    /\ Alive(t) /\ ~task[t].leaving
    /\ ~Alive(p)
    /\ task' = [task EXCEPT ![p] = task[t]]
    /\ odd' = odd \cup {task[t].tgid, p}
    /\ UNCHANGED <<used, pidInfos, memfds, processes>>

Vanish(i) ==
    task' = [p \in Pids |-> IF task[p].is = i THEN NoTask ELSE task[p]]

\* exit_group, continued.
Exit(t) ==
    /\ Alive(t) /\ task[t].leaving
    /\ Vanish(task[t].is)
    /\ UNCHANGED <<used, odd, pidInfos, memfds, processes>>

Kill(p) ==
    /\ Alive(p)
    /\ Vanish(task[p].is)
    /\ odd' = odd \cup {task[p].tgid}
    /\ UNCHANGED <<used, pidInfos, memfds, processes>>

\* exit(2) of a thread.
ThreadExit(t) ==
    /\ Alive(t) /\ task[t].tgid # t
    /\ task' = [task EXCEPT ![t] = NoTask]
    /\ UNCHANGED <<used, odd, pidInfos, memfds, processes>>

-----------------------------------------------------------------------------
(* The handler. *)

\* getPidFdInfo without a cache: pidfd_open of a thread fails and is tried with
\* the thread group leader found in /proc/<pid>/status.
Opened(p) ==
    [pidType |-> IF task[p].tgid = p THEN "PROCESS" ELSE "THREAD",
     pidfd |-> task[p].is, tgid |-> task[p].tgid]

\* getPidFdInfo for a number that is in use, and the cache after it.
Info(infos, p) == IF infos[p] # NoInfo THEN infos[p] ELSE Opened(p)
Remember(infos, p) ==
    IF Alive(p) THEN [infos EXCEPT ![p] = Info(infos, p)] ELSE infos

\* openMem: /proc/<pid>/mem stays open.
OpenMem(p) ==
    IF memfds[p] = NoOne THEN [memfds EXCEPT ![p] = task[p].is] ELSE memfds

\* A call other than exit_group and close of a known descriptor: it may register
\* a socket, which takes its descriptor through the pidfd of the leader and so
\* works if that still lives, and it may read or write the memory of the leader.
HandleCall(t, registers, reads) ==
    LET infos == Remember(pidInfos, t)
        p == infos[t].tgid
        asThread == infos[p] # NoInfo /\ infos[p].pidType = "THREAD"
        infos2 == IF registers /\ ~asThread THEN Remember(infos, p) ELSE infos
        i == infos2[p].pidfd
    IN  /\ Alive(t) /\ ~task[t].leaving
        /\ pidInfos' = infos2
        /\ processes' =
              IF registers /\ ~asThread /\ i # NoOne /\ Lives(i)
              THEN [processes EXCEPT ![p] = @ \cup {i}] ELSE processes
        /\ memfds' = IF reads THEN OpenMem(p) ELSE memfds
        /\ UNCHANGED <<task, used, odd>>

\* Variant: the memory descriptor stays cached.
HandleExit_KeepsMem(t) ==
    LET info == Info(pidInfos, t)
    IN  /\ Alive(t) /\ ~task[t].leaving
        /\ pidInfos' = [pidInfos EXCEPT ![t] = NoInfo]
        /\ processes' = IF info.pidType = "PROCESS"
                        THEN [processes EXCEPT ![info.tgid] = {}] ELSE processes
        /\ task' = [task EXCEPT ![t].leaving = TRUE]
        /\ UNCHANGED <<used, odd, memfds>>

\* exit_group: the number's pidfd goes; if it is a process, its sockets and
\* memory descriptor too.
HandleExit(t) ==
    LET info == Info(pidInfos, t)
        process == info.pidType = "PROCESS"
    IN  /\ Alive(t) /\ ~task[t].leaving
        /\ pidInfos' = [pidInfos EXCEPT ![t] = NoInfo]
        /\ processes' = IF process THEN [processes EXCEPT ![info.tgid] = {}]
                        ELSE processes
        /\ memfds' = IF process THEN [memfds EXCEPT ![info.tgid] = NoOne]
                     ELSE memfds
        /\ task' = [task EXCEPT ![t].leaving = TRUE]
        /\ UNCHANGED <<used, odd>>

PidNext ==
    \E t \in Pids :
       \/ Fork(t) \/ Exit(t) \/ Kill(t) \/ ThreadExit(t)
       \/ \E p \in Pids : Clone(t, p)
       \/ \E registers, reads \in BOOLEAN : HandleCall(t, registers, reads)
       \/ HandleExit(t)

PidSpec == PidInit /\ [][PidNext]_pidVars

-----------------------------------------------------------------------------
\* Whatever the handler keeps under a number belongs to the process that has
\* the number now, as long as no process with several threads and none that was
\* killed has had it: exit_group of a single thread cleans up all three tables,
\* they are not filled again before the number is free, and entries gone stale
\* elsewhere, which attribute calls to other numbers, never reach this one.
CachesTrue ==
    \A p \in Pids \ odd : \A i \in Incarnations :
        pidInfos[p].pidfd = i \/ memfds[p] = i \/ i \in processes[p]
            => task[p].is = i
=============================================================================
