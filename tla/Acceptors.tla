----------------------------- MODULE Acceptors ------------------------------
(***************************************************************************)
(* The listening side: one acceptor that is connected to twice, the second  *)
(* time after the first connection ended (SessionLife), and beside it the   *)
(* acceptors that share a port (FixServer).  about says which of the two a  *)
(* behaviour is about.                                                      *)
(***************************************************************************)
EXTENDS SessionLife

CONSTANTS Sessions, MaxServers, Others          \* of FixServer

VARIABLES about,
          waits, registered, made, listeners, server, port,      \* of FixServer
          binding, closing, attached, up, crossed

Port == INSTANCE FixServer WITH status <- up

ASSUME PortAssumption == Port!ServerAssumption

portVars == << waits, registered, made, listeners, server, port, binding, closing, attached, up, crossed >>

AcceptorsInit == about \in {"port", "life"} /\ Init /\ Port!Init

AcceptorsNext ==
    \/ about = "life" /\ Next /\ UNCHANGED << about, portVars >>
    \/ about = "port" /\ Port!Next /\ UNCHANGED << about, vars >>

AcceptorsSpec == AcceptorsInit /\ [][AcceptorsNext]_<< about, vars, portVars >>

\* SettledBetween says nothing of a session that was told to stop, which it stays.
Standing == ~stopping

-----------------------------------------------------------------------------
\* Where wait_closed returns at once, a session that reports LISTENING can be
\* connected to, unless a stop crossed a bind, and one that was stopped cannot
\* (FixServer.add_listener, FixServer.remove_listener).
ListeningIsReachable == Port!ListeningIsReachable

\* A session that was stopped says DOWN (FixSession.stop, FixListener.start).
StopReportsDown == Port!StopReportsDown
=============================================================================
