----------------------------- MODULE Connection -----------------------------
(***************************************************************************)
(* One connection of one session, and how it ends: the tasks of SessionLife *)
(* under a fair event loop and database, and beside them the stream they    *)
(* read, cut into messages by Framing.  part says which of the two a        *)
(* behaviour is about.                                                      *)
(***************************************************************************)
EXTENDS SessionLife

CONSTANTS MessageEnds, Inbound, PeerWaits       \* of Framing

FiveMessages == << 3, 7, 8, 13, 15 >>           \* of one to five bytes

VARIABLES part,
          written, taken, buffer, source, messages    \* of Framing

Stream == INSTANCE Framing WITH reader <- source

ASSUME StreamAssumption == Stream!FramingAssumption

streamVars == << written, taken, buffer, source, messages >>

MCInit == part \in {"tasks", "stream"} /\ Init /\ Stream!Init

\* The stream is over when all of it was read.
AllRead == Len(messages) = Len(MessageEnds)

MCNext ==
    \/ part = "tasks" /\ Next /\ UNCHANGED << part, streamVars >>
    \/ part = "stream" /\ Stream!Next /\ UNCHANGED << part, vars >>
    \/ part = "stream" /\ AllRead /\ UNCHANGED << part, vars, streamVars >>

MCSpec == MCInit /\ [][MCNext]_<< part, vars, streamVars >> /\ Fairness /\ Stream!Fairness

-----------------------------------------------------------------------------
\* However the stream is split into chunks, what the session reads is the messages
\* of the counterparty, whole, in order and with none left out
\* (FixStreamParser.read_message, FixServer._on_connect).
MessagesAsSent == Stream!MessagesAsSent

\* A message that was written in full is read, without waiting for the next one
\* (FixStreamParser.read_message, FixServer._on_connect).
WrittenIsRead == Stream!WrittenIsRead
=============================================================================
