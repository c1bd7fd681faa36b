----------------------------- MODULE FixServer -----------------------------
(***************************************************************************)
(* The acceptors that share a port (FixListener and FixServer of            *)
(* fix/transport.py): the registry of servers, the listeners of each, and   *)
(* the tasks that start and stop sessions, with the awaits of               *)
(* asyncio.start_server and Server.wait_closed between their steps.  One    *)
(* port is modelled; the servers of different ports share nothing.  A       *)
(* session may be stopped while its start awaits the bind; it is not        *)
(* started again before that start is over, and the read of its row at the  *)
(* beginning of start() is answered at once.                                *)
(***************************************************************************)
EXTENDS Integers, FiniteSets

CONSTANTS Sessions,     \* the acceptors configured on the port
          MaxServers,   \* bound: FixServer objects made
          Others        \* BOOLEAN: another process may take the port

ServerAssumption ==
    MaxServers \in Nat \ {0} /\ Others \in BOOLEAN

None == 0
Other == -1
Servers == 1 .. MaxServers

VARIABLES waits,        \* the Python: wait_closed suspends (from 3.12 on)
          registered,   \* _servers[port]
          made,         \* history: the FixServer objects made
          listeners,    \* _listeners of each
          server,       \* _server of each: none, open, closed
          port,         \* whose the port is: None, a server's, Other
          binding,      \* the server whose start_server the start of a session awaits
          closing,      \* the server whose wait_closed the stop of a session awaits
          attached,     \* _transport of the session is set
          status,       \* _status
          crossed       \* history: a session was stopped while its start awaited

vars == << waits, registered, made, listeners, server, port, binding, closing, attached, status, crossed >>

Init ==
    /\ waits \in BOOLEAN
    /\ registered = None /\ made = 0 /\ port = None
    /\ listeners = [o \in Servers |-> {}] /\ server = [o \in Servers |-> "none"]
    /\ binding = [s \in Sessions |-> None] /\ closing = [s \in Sessions |-> None]
    /\ attached = [s \in Sessions |-> FALSE] /\ status = [s \in Sessions |-> "DOWN"]
    /\ crossed = FALSE

-----------------------------------------------------------------------------
\* FixServer.get_or_create
GetOrCreate == IF registered = None THEN made + 1 ELSE registered

Listening(s) == status' = [status EXCEPT ![s] = "LISTENING"]

\* start(): the session joins the listeners of the port's server; the first one
\* awaits start_server.
Start(s) ==
    LET o == GetOrCreate
    IN  /\ binding[s] = None /\ ~attached[s] /\ o \in Servers
        /\ attached' = [attached EXCEPT ![s] = TRUE]
        /\ registered' = o /\ made' = IF o > made THEN o ELSE made
        /\ listeners' = [listeners EXCEPT ![o] = @ \cup {s}]
        /\ IF server[o] = "none"
           THEN binding' = [binding EXCEPT ![s] = o] /\ UNCHANGED status
           ELSE Listening(s) /\ UNCHANGED binding
        /\ UNCHANGED << server, port, closing, crossed >>

\* start_server binds the port, or raises when it is taken, whatever became of
\* the session and of the registry meanwhile.
Bind(s) ==
    /\ binding[s] # None /\ binding' = [binding EXCEPT ![s] = None]
    /\ IF port = None
       THEN /\ port' = binding[s] /\ server' = [server EXCEPT ![binding[s]] = "open"] /\ Listening(s)
       ELSE UNCHANGED << port, server, status >>
    /\ UNCHANGED << registered, made, listeners, closing, attached, crossed >>

\* The end of stop().
Down(s) ==
    /\ status' = [status EXCEPT ![s] = "DOWN"] /\ attached' = [attached EXCEPT ![s] = FALSE]

\* The listeners of o but for s.
Rest(o, s) == listeners[o] \ {s}

\* A plausible bug: the server closes with any of its listeners.
ClosesAlways(rest) == TRUE

\* It closes with the last one.
Closes(rest) == rest = {}

\* stop(): the session leaves the listeners of the server registered now; the
\* last one closes it.
Stop(s) ==
    /\ closing[s] = None /\ attached[s]
    /\ crossed' = (crossed \/ binding[s] # None)
    /\ LET o == registered
           rest == Rest(o, s)
       IN  IF o = None
           THEN Down(s) /\ UNCHANGED << registered, listeners, server, port, closing >>
           ELSE /\ listeners' = [listeners EXCEPT ![o] = rest]
                /\ IF Closes(rest) /\ server[o] # "none"
                   THEN /\ port' = IF port = o THEN None ELSE port
                        /\ IF waits
                           THEN /\ server' = [server EXCEPT ![o] = "closed"]
                                /\ closing' = [closing EXCEPT ![s] = o]
                                /\ UNCHANGED << registered, attached, status >>
                           ELSE /\ server' = [server EXCEPT ![o] = "none"] /\ registered' = None
                                /\ Down(s) /\ UNCHANGED closing
                   ELSE Down(s) /\ UNCHANGED << registered, server, port, closing >>
    /\ UNCHANGED << made, binding >>

\* The rest of remove_listener: the port is taken out of the registry, whichever
\* server it leads to.
Closed(s) ==
    /\ closing[s] # None /\ closing' = [closing EXCEPT ![s] = None] /\ Down(s)
    /\ server' = [server EXCEPT ![closing[s]] = "none"] /\ registered' = None
    /\ UNCHANGED << made, listeners, port, binding, crossed >>

OtherProcess ==
    /\ Others
    /\ \/ port = None /\ port' = Other
       \/ port = Other /\ port' = None
    /\ UNCHANGED << registered, made, listeners, server, binding, closing, attached, status, crossed >>

Moves ==
    \/ \E s \in Sessions : Start(s) \/ Bind(s) \/ Stop(s) \/ Closed(s)
    \/ OtherProcess

Next == Moves /\ UNCHANGED waits

Spec == Init /\ [][Next]_vars

-----------------------------------------------------------------------------
(* Properties.                                                              *)

\* The counterparty of s, who connects to the port, is dispatched to s.
Reachable(s) == port \in Servers /\ s \in listeners[port]

\* Where wait_closed returns at once, a session that reports LISTENING can be
\* connected to ("an acceptor waiting for its counterparty to connect",
\* user-guide.md), unless a stop crossed a bind, and one that was stopped cannot
\* ("A user-initiated stop tears the listener down", test_session.py).
ListeningIsReachable ==
    ~waits => \A s \in Sessions :
        /\ ~crossed /\ status[s] = "LISTENING" => Reachable(s)
        /\ ~attached[s] => ~Reachable(s)

-----------------------------------------------------------------------------
(* What is said of the code and does not hold of it (README, Findings).     *)

\* "A user-initiated stop tears the listener down, so DOWN stays right"
\* (test_session.py): a session without a transport, which was stopped or never
\* started, reports DOWN.
StopReportsDown == \A s \in Sessions : ~attached[s] => status[s] = "DOWN"

\* A session that is DOWN and idle can be started ("Start ... only while a session
\* is down", README.md): its start() does not return at once.
DownCanStart ==
    \A s \in Sessions : status[s] = "DOWN" /\ binding[s] = None /\ closing[s] = None => ~attached[s]
=============================================================================
