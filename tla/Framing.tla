------------------------------ MODULE Framing ------------------------------
(***************************************************************************)
(* How messages are cut out of a TCP connection (FixStreamParser of         *)
(* fix/parser.py) and how an inbound connection is handed from the          *)
(* dispatcher to its session (FixServer._on_connect of fix/transport.py).   *)
(* A byte is its position in the stream; MessageEnds says after which ones  *)
(* a message is complete, its checksum field being closed.                  *)
(***************************************************************************)
EXTENDS Integers, SequencesExt

CONSTANTS MessageEnds,  \* the length of the stream after each message
          Inbound,      \* BOOLEAN: the connection is dispatched to the session
          PeerWaits     \* BOOLEAN: the counterparty awaits our Logon after its own

\* What the constants must be; the module that instantiates this one assumes it.
FramingAssumption ==
    /\ MessageEnds \in Seq(Nat \ {0}) /\ MessageEnds # << >>
    /\ \A i, j \in 1 .. Len(MessageEnds) : i < j => MessageEnds[i] < MessageEnds[j]
    /\ {Inbound, PeerWaits} \subseteq BOOLEAN

VARIABLES written,      \* bytes the counterparty has written
          taken,        \* bytes the StreamReader has handed out
          buffer,       \* _buffer of the parser in use
          reader,       \* who reads: the dispatcher, or the session
          messages      \* what the session has read

vars == << written, taken, buffer, reader, messages >>

Length == MessageEnds[Len(MessageEnds)]

Init ==
    /\ written = 0 /\ taken = 0 /\ buffer = << >> /\ messages = << >>
    /\ reader = IF Inbound THEN "dispatcher" ELSE "session"

\* The bytes of a message.
Start(i) == IF i = 1 THEN 0 ELSE MessageEnds[i - 1]
Message(i) == [k \in 1 .. MessageEnds[i] - Start(i) |-> Start(i) + k]

\* A plausible bug: the end of the last message in the buffer.
MessageEndLast ==
    LET ends == {k \in 1 .. Len(buffer) : Contains(MessageEnds, buffer[k])}
    IN  IF ends = {} THEN 0 ELSE Max(ends)

\* _find_message_end: the end of the first message in the buffer, if it is there.
MessageEnd ==
    LET ends == {k \in 1 .. Len(buffer) : Contains(MessageEnds, buffer[k])}
    IN  IF ends = {} THEN 0 ELSE Min(ends)

\* The counterparty writes on, one byte or many.
Write(n) ==
    /\ n \in written + 1 .. Length /\ written' = n
    /\ PeerWaits /\ Len(messages) = 0 => n <= MessageEnds[1]
    /\ UNCHANGED << taken, buffer, reader, messages >>

\* Plausible bugs: a chunk is added twice; it takes the place of what is left of
\* the one before.
TakenTwice(n) == LET chunk == [k \in 1 .. n - taken |-> taken + k] IN buffer \o chunk \o chunk

TakenAlone(n) == [k \in 1 .. n - taken |-> taken + k]

\* The buffer with the bytes up to n.
Taken(n) == buffer \o [k \in 1 .. n - taken |-> taken + k]

\* read_message: without a complete message in the buffer it awaits a chunk, as
\* much of what has arrived as the network hands over.
Chunk(n) ==
    /\ MessageEnd = 0 /\ n \in taken + 1 .. written
    /\ taken' = n /\ buffer' = Taken(n)
    /\ UNCHANGED << written, reader, messages >>

\* The session reads a message; the rest stays in the buffer.
Read ==
    /\ reader = "session" /\ MessageEnd # 0
    /\ messages' = Append(messages, SubSeq(buffer, 1, MessageEnd))
    /\ buffer' = SubSeq(buffer, MessageEnd + 1, Len(buffer))
    /\ UNCHANGED << written, taken, reader >>

\* The dispatcher has the Logon: a FixSocket is made, whose parser is given the
\* Logon back and nothing else.
Dispatch ==
    /\ reader = "dispatcher" /\ MessageEnd # 0
    /\ reader' = "session" /\ buffer' = SubSeq(buffer, 1, MessageEnd)
    /\ UNCHANGED << written, taken, messages >>

Next ==
    \/ \E n \in 1 .. Length : Write(n) \/ Chunk(n)
    \/ Read \/ Dispatch

Spec == Init /\ [][Next]_vars

\* Everything arrives and is read in time.
Fairness == WF_vars(\E n \in 1 .. Length : Chunk(n)) /\ WF_vars(Read) /\ WF_vars(Dispatch)
FairSpec == Spec /\ Fairness

-----------------------------------------------------------------------------
(* Properties.                                                              *)

\* However the stream is split into chunks, what the session reads is the messages
\* of the counterparty, whole, in order and with none left out.
MessagesAsSent ==
    /\ Len(messages) <= Len(MessageEnds)
    /\ \A i \in 1 .. Len(messages) : messages[i] = Message(i)

\* A message that was written in full is read, without waiting for the next one.
WrittenIsRead ==
    \A i \in 1 .. Len(MessageEnds) : written >= MessageEnds[i] ~> Len(messages) >= i
=============================================================================
