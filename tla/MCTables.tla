------------------------------ MODULE MCTables ------------------------------
(***************************************************************************)
(* What the daemon keeps in tables: the access control lists and the       *)
(* destinations, under every order of insertions and removals; those of    *)
(* two hosts while their managers fill them; its descriptors while the     *)
(* listener starts handlers; the processes a handler knows by number.      *)
(* They share no state, so each is explored with the others as they were   *)
(* made.                                                                   *)
(***************************************************************************)
EXTENDS Destination, Startup, Listener, PidCache, TLC

CONSTANTS p1, p2, p3

\* The two virtual addresses of manage.go, which share the upper half of their
\* keys, one of them in both its forms.
Mine4 == <<10, 0, 10, 40>>
Mine16 == MappedPrefix \o Mine4
Yours4 == <<10, 0, 10, 50>>

TwoHosts == {Mine4, Mine16, Yours4}

\* One descriptor, or two with the wanted one last, both wanted, or unreadable
\* state; a descriptor that is named but not sent; no descriptor; a long state.
State(names, json, sent) ==
    [names |-> names, json |-> json, fits |-> TRUE, sent |-> sent]
Runtimes ==
    {State(<<"seccompFd">>, TRUE, 1),
     [State(<<"seccompFd">>, TRUE, 1) EXCEPT !.fits = FALSE],
     State(<<"other", "seccompFd">>, TRUE, 2),
     State(<<"seccompFd", "seccompFd">>, TRUE, 2),
     State(<<>>, FALSE, 1),
     State(<<"other", "seccompFd">>, TRUE, 1),
     State(<<>>, TRUE, 0)}

\* The numbers of processes have no order.
PidSymmetry == Permutations(Pids)

VARIABLE part   \* the part that is explored

parts == <<entries, destinationVars, startupVars, listenerVars, pidVars>>

Init ==
    /\ part \in {"policy", "destination", "startup", "listener", "pids"}
    /\ AccessInit /\ DestinationInit
    /\ StartupInit
    /\ part # "startup" => experiment = "nginxTCPLocal"
    /\ ListenerInit
    /\ PidInit

Next ==
    /\ UNCHANGED part
    /\ \/ /\ part = "policy"
          /\ AccessNext
          /\ UNCHANGED <<destinationVars, startupVars, listenerVars, pidVars>>
       \/ /\ part = "destination"
          /\ DestinationNext
          /\ UNCHANGED <<entries, startupVars, listenerVars, pidVars>>
       \/ /\ part = "startup"
          /\ StartupNext
          /\ UNCHANGED <<entries, destinationVars, listenerVars, pidVars>>
       \/ /\ part = "listener"
          /\ ListenerNext
          /\ UNCHANGED <<entries, destinationVars, startupVars, pidVars>>
       \/ /\ part = "pids"
          /\ PidNext
          /\ UNCHANGED <<entries, destinationVars, startupVars, listenerVars>>

Spec == Init /\ [][Next]_<<parts, part>>
=============================================================================
