------------------------------ MODULE Delivery ------------------------------
(***************************************************************************)
(* What a daemon promises about the connections that peers open to the     *)
(* sockets of its containers.  A connection is taken for the socket it was *)
(* opened to, refused only if the list denies its peer or the peer has not *)
(* said who it is, put in line, and given, in the order of the line, to    *)
(* the process that has the socket.  It is given once.  Only the end of    *)
(* the socket takes out of the line what is not given.                     *)
(***************************************************************************)
EXTENDS Sequences

CONSTANTS Procs, Sockets, Conns,
          Admitted,  \* the connections whose peers the list allows
          None

VARIABLES
    has,    \* the sockets of the processes
    to,     \* the socket a connection was opened to
    named,  \* the connections whose peer has said who it is
    stage,  \* how far the daemon has got with a connection
    line,   \* of each socket, what is admitted and not yet given
    holds   \* the connections of the processes

Stages == {"away", "waiting", "taken", "queued", "done"}

Open(s) == \E p \in Procs : <<p, s>> \in has

Init ==
    /\ has = {} /\ named = {} /\ holds = {}
    /\ to = [c \in Conns |-> None]
    /\ stage = [c \in Conns |-> "away"]
    /\ line = [s \in Sockets |-> <<>>]

\* The connections C go from the stage `old` to the stage `new`.
Move(C, old, new) ==
    /\ \A c \in C : stage[c] = old
    /\ stage' = [c \in Conns |-> IF c \in C THEN new ELSE stage[c]]

Arrive(c, s) ==
    /\ Open(s)
    /\ Move({c}, "away", "waiting")
    /\ to' = [to EXCEPT ![c] = s]
    /\ UNCHANGED <<has, line>>

Take(c) ==
    /\ Open(to[c])
    /\ Move({c}, "waiting", "taken")
    /\ UNCHANGED <<has, to, line>>

Refuse(c) ==
    /\ c \notin named \cap Admitted
    /\ Move({c}, "taken", "done")
    /\ UNCHANGED <<has, to, line>>

Admit(c) ==
    /\ c \in named \cap Admitted
    /\ Move({c}, "taken", "queued")
    /\ line' = [line EXCEPT ![to[c]] = Append(@, c)]
    /\ UNCHANGED <<has, to>>

\* The process p gets the head of the line of s, as the socket a.
Give(p, s, a) ==
    LET c == Head(line[s])
    IN  /\ <<p, s>> \in has
        /\ line[s] # <<>>
        /\ Move({c}, "queued", "done")
        /\ line' = [line EXCEPT ![s] = Tail(@)]
        /\ <<p, a>> \in has \/ ~Open(a)
        /\ has' = has \cup {<<p, a>>}
        /\ UNCHANGED to

\* The sockets S end and with them what is on its way to them; others begin.
Change(S) ==
    /\ \A x \in has : x \in has' <=> x[2] \notin S
    /\ \A x \in has' : x \in has \/ ~Open(x[2])
    /\ stage' = [c \in Conns |->
                   IF stage[c] \in {"waiting", "taken", "queued"} /\ to[c] \in S
                   THEN "done" ELSE stage[c]]
    /\ line' = [s \in Sockets |-> IF s \in S THEN <<>> ELSE line[s]]
    /\ UNCHANGED to

\* What still works for a socket that has ended may take what waits for another
\* one (README.md, findings): it is lost.
Stray(c) ==
    /\ Move({c}, "waiting", "done")
    /\ UNCHANGED <<has, to, line>>

\* Peers say who they are, and processes close what they have.
Others == UNCHANGED <<has, to, stage, line>>

Next ==
    /\ named \subseteq named'
    /\ \/ \E p \in Procs, s \in Sockets, a \in Sockets :
             LET given == <<p, Head(line[s])>>
             IN  /\ Give(p, s, a)
                 /\ given \in holds' /\ holds' \subseteq holds \cup {given}
       \/ /\ holds' \subseteq holds
          /\ \/ \E c \in Conns :
                   \/ \E s \in Sockets : Arrive(c, s)
                   \/ Take(c) \/ Refuse(c) \/ Admit(c) \/ Stray(c)
             \/ \E S \in SUBSET Sockets : Change(S)
             \/ Others

Spec == Init /\ [][Next]_<<has, to, named, stage, line, holds>>
=============================================================================
