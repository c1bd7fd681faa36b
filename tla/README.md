# A verification of mkfix in TLA+

mkfix is a FIX engine with a blotter UI: it runs FIX sessions as initiator and
acceptor, records every message, keeps orders, trades, quotes and lists of both
sides in SQLite tables, and replays logs and macros against them. It is one
Python process on one asyncio event loop. This directory models what holds state
and can go wrong between two awaits: the session layer, its transport, the
identifiers, both sides of orders, quotes, lists, indications and allocations,
the replay of logs, and the runs of macros.

Everything below is read from `src/mkfix`. A task runs alone from one `await` to
the next, so an action of a module is the code between two awaits, and the
interesting behaviour is what other tasks, the counterparty, the database or a
crash do at those awaits. `PROJECT.json` maps every definition to its lines.

## 1. The system

| Component | State it keeps | Operations | What makes it hard |
|---|---|---|---|
| **FixSession** (`fix/session.py`) | next numbers, epoch, status, socket, transport, read and heartbeat task | start, stop, on_connect, logon, read loop, heartbeat, send, resend, reset | five tasks interleave at every await; the saved row and the message log lag behind the wire |
| **Transport** (`fix/transport.py`) | sockets, one FixServer per port with its listeners | connect, retry, bind, dispatch, remove | the awaits of binding and closing; two sessions on a port |
| **FixStreamParser** (`fix/parser.py`) | the buffer | read_message | chunks cut anywhere; the hand-off to another parser |
| **IdGenerator** (`fix/idgen.py`) | counters and instance code, in memory and saved | start, next_id | concurrent first calls, cancellation, refused writes, death of the process |
| **FixEngine, sessions** (`fix/engine.py` 1106-1237) | `fix_session_state`, `fix_messages` | record_message, update_session_state, sent_messages | read-modify-write over a queue of commits |
| **FixEngine, market side** (1594-1724, 2216-3140) | received rows of `fix_orders`, sent rows of `fix_executions`, one lock per session | new order, park a request, accept, reject, fill, cancel, restate, correct, bust | snapshots written back whole while the read loop parks requests; renames |
| **FixEngine, client side** (1284-1565, 1730-2212) | sent rows, received trades, the request slot | send order, cancel, replace; reports, cancel rejects | answers before the send returns; requests crossing answers; a send that fails |
| **RFQs and quotes** (3854-4582) | `fix_rfqs` of both sides, the expiry timer | ask, quote, requote, counter, hit, pass, cancel, refuse, expire | expiry, hit and requote on one row; a hit that fails is taken back |
| **Families** (3283-3852) | `fix_iois`, `fix_adverts`, `fix_allocations`, `fix_rfq_requests` | send, replace, cancel, accept, reject, unsubscribe | rows written back whole without a lock |
| **Lists** (4821-5240) | `fix_lists`, the orders of each | send, join, execute, cancel, accept, reject, fill, finish | done is worked out from orders that still join |
| **Multileg orders** (`fix/multileg.py`, 1885-1983, 2684-2752) | `fix_order_legs` | send, replace, fill a leg | legs wait with the request on both sides |
| **Replay** (`fix/replay.py`, 4666-4820) | a task per job, the job's row | load, configure, start, pause, resume, stop, delete | a task and its commands report to one row |
| **Macros** (`macro/`) | runs, instances, claims, a virtual or real clock, the store's worker | arm, offer, wait, act, stop; save, recover | events before waits; ownership of an order |
| EventBus (`fix/events.py`) | listeners | emit | synchronous: handlers run inside the emitter |
| Archive, upgrade, undo | tables | move, restore | counters and session state must not go back |
| Backfills, dictionaries, command service, UI | tables, none | one-off SQL, lookups, dispatch | - |

**How they interact.** A transport makes a `FixSocket` and calls
`FixSession.on_connect`, which runs the read loop. The session calls the engine
(`record_message`, `update_session_state`, `on_app_message`); the engine calls
`FixSession.send_message`. Both write only through mkio's `WriteBatcher`, which
commits in the order of submission and lets the submitter go on after the
commit; reads use another connection and see what is committed. The UI and the
macros reach the engine through `FixEngine.perform`, the events through
`EventBus`.

**Correct means**: a session never numbers two messages alike, is never ahead of
its counterparty, hands the engine each message once and in order, and answers
a resend with what it sent; its status and sockets agree and `stop` always ends
with nothing left but perhaps a heartbeat loop asleep; no ID is handed out twice; and of an order both blotters, the
trades and the messages tell one story; a quote that was hit stays hit, and one
whose time passed ends; an ID means the same terms to both sides; a list is done
with its last order; a job's row says what its task put on the wire; and an order
has at most one macro, of a run that is live.

## 2. Modules

| Module | Models | Composed of |
|---|---|---|
| `Resend` | the answer to a ResendRequest as operators | - |
| `ResendCases` | every small log, epoch and range, against what an answer must do | `Resend` |
| `SessionSeq` | the numbers of a session, its saved row, log and resends | `Resend` |
| `SessionSeqMC` | the numbers of an acceptor and of an initiator, and the cases of a resend | `SessionSeq`, `ResendCases` |
| `SessionSeqProofs` | theorems of `SessionSeq`: its safety, and that its numbers are saved and used once | `SessionSeq` |
| `SessionLife` | the tasks of a session object between awaits | - |
| `Framing` | the parser and the hand-off of a connection | - |
| `FixServer` | acceptors sharing a port | - |
| `Connection` | one connection of a session, and its stream | `SessionLife`, `Framing` |
| `Acceptors` | an acceptor connected to twice, and acceptors on a port | `SessionLife`, `FixServer` |
| `ConnectionProofs` | theorems of the tasks of a session, of its stream and of the port | `Connection`, `Acceptors` |
| `IdGen`, `IdGenProofs` | identifiers, and theorems of them | - |
| `OrderTable` | the SQL of orders and trades, and their messages, as operators | - |
| `ReceivedOrder`, `ReceivedOrderProofs` | the market side, and theorems of it | `OrderTable` |
| `SentOrder` | the client side | `OrderTable` |
| `OrderFlow` | both sides joined by a session | `ReceivedOrder`, `SentOrder` |
| `Multileg` | the legs of an order on both sides | - |
| `OrderFlowMC` | the four instances of orders on both sides that are checked | `OrderFlow`, `Multileg` |
| `Quotes`, `QuotesMC`, `QuotesProofs` | RFQs and quotes on both sides, and theorems of them | - |
| `Families`, `FamiliesMC`, `FamiliesProofs` | IOIs, adverts, allocations, RFQ requests, and theorems of them | - |
| `Lists`, `ListsMC` | a list and its orders on both sides | - |
| `Replay`, `ReplayMC`, `ReplayProofs` | a replay job, its task and its commands, and theorems of them | - |
| `MacroRuns`, `MacroRunsMC`, `MacroRunsProofs` | runs of macros: runner, instances, store | - |

Names are the code's: a variable is named for the attribute or table it stands
for, an action for the function whose lines it takes. An operator commented "A
plausible bug" stands before the definition it would replace; it is used by no
specification and shows that a property can fail. A module that checks several
instances in one run has a variable `part`, chosen at the start and never
changed: its behaviours are those of the instances side by side.

### SessionSeq and Resend
State: the status, both numbers, the epoch; the saved row; the TX rows
committed; the queue of writes (of the log and of the row) and who is blocked on
each; the numbers the counterparty has used; history variables for what was sent
under which number and what was handed to the engine. The reader logs on and
then takes one message at a time (`Receive`, `Dispatch`, `AnswerNext`,
`Persist`); senders (`SendApp`, `SendHeartbeat`) run while the session is ACTIVE.
`stop()` is a task of its own: the TestRequest of `confirm_caught_up`
(`StopTests`), the end of the heartbeat loop and the Logout (`StopLogsOut`), the
LOGOUT_SENT (`LogoutSent`), the cancellation of every other task of the session
(`StopCancels`) and the DOWN (`ReportDown`). Whom it cancels may be between the row
of its message and the number it was about to save (session.py:415-417): the row is
committed all the same, the number is not. `cut` says that this happened in the last
stop, `torn` that a crash did it or that a start went on from such a number.
`Commit` commits the oldest write. `Crash` loses the queue and memory.

Abstractions: a sender's check and send are one step (SessionLife has them
apart); the read and the submit of `update_session_state` are one step, since
the read is answered at once from what is committed; the connection is lost
between messages and writes; start and reset come when no write is outstanding;
the record of a received message is part of its processing; drain never
suspends. Of stop: there is one heartbeat loop, and a task that is cancelled unwinds in
the step that cancels it. An acceptor's `on_connect` that answers the Logon is not
cancelled, and here `ReportDown` comes after it; that it may be ACTIVE after the stop
is `StoppedStaysDown` of SessionLife. A failed start or logon (status ERROR) is left out.

### SessionLife
State: where `on_connect`, the read loop and the heartbeat loop of each
connection are, where `stop` is, where a caller of `send_message` is, the
attributes of the object, the sockets open, the two queues of the database and
what was written to the wire. No numbers. One `FixSession` object, one start,
one stop; `kind` says which of the two it is. A task cancelled unwinds in the
step that cancels it; the trailing awaits of a function that does nothing
afterwards are merged. Whether the echo arrives or the interval elapses is one
step (`Echoed`). A write fails only when the socket is closed or the
counterparty has hung up.

### FixServer
State: the registry of servers, each one's listeners and socket, who has the
port, the server whose bind the start of a session awaits (`binding`) and the one
whose end its stop awaits (`closing`). A session may be stopped at any time, also
while its start awaits `start_server` (`crossed` says that this has happened); it is
not started again before that start is over, and the read of its row at the beginning
of `start()` is answered at once. `waits` says whether
`Server.wait_closed` returns at once (Python 3.11) or suspends (3.12 on).

### Framing
A byte is its position in the stream and the ends of the messages are given, so
the scanning of BodyLength and CheckSum is left out (a data field that holds a
`10=` is not modelled); what is kept is how reads of any size, the buffer and
the two parsers of an inbound connection share the stream.

### IdGen
State: counters and code in memory, the same saved, the lock and its queue, each
call's place, the writes outstanding. Callers may be cancelled at any await, a
write refused, the process may die.

### OrderTable, ReceivedOrder, SentOrder, OrderFlow
A ClOrdID is a number, and the Order ID of a row the ClOrdID it came under. A
row keeps its status, quantities and request slot. The statements `upsert_order`,
`rename_order`, `record_request`, `clear_request`, `resolve_request`,
`insert_execution`, `update_execution` and `dk_execution` are operators on the
tables. A market action is `Command` (or `Decide`, which is accept_request and
reject_request reading the slot), `Load` under the lock, `Rename`, `Write`,
`WriteTrade` and `Send`; the read loop is `NewOrder`, `LoadRequested`, `Park`,
`HearDontKnow`. A client's send is `MintOrder`, `WriteOrder`, `SendMessage`, or
for a request `MintRequest`, `LoadEntered`, `RecordRequest`, `SendMessage`, and a
dispute `Dispute`, `MarkDispute`, `SendDispute`; what it hears is `HearReport`,
`RenameHeard`, `WriteReport`, `RecordTrade`, `HearReject`, `Resolve`.

Abstractions: the session stays active and delivers in order; prices, texts,
instruments, lists and the terms as entered are left out; reports leave in
the order of the lock, since the write to the socket follows its release with
no await between; ExecIDs count up under the lock; a client's send that fails
leaves nothing (`Fails`); the counterparty uses each ClOrdID once.

### Multileg
State: the order on each side with its slot and the legs that wait there
(`pending_entered` of a sent order, `pending_legs` of a received one), the legs
by place, each with its LegRefID, ratio, quantity and fills, and what each task is
at. A market action with its report is one step, as it is under the lock; the
writing of all legs is one step as well. What takes no lock is apart: the legs of
a new order after its row, the fill of an order and then of each leg, the client's
read loop (`HearReport`, `Rename`, `PromoteEntered`, `WriteReport`) and its sender.

### Quotes
State: the rows of both sides in the order of their IDs, messages under way, what
each taker's hit is at, the timer's list of rows found due. What the code does
under the order lock is one step. `trouble` is what a behaviour may have: quotes
that fall due, sends that fail, or messages of a market that is not this engine.
A hit is `HitQuote`, `OrderQuote`, `SendHit`; the timer `Sweep` and, row by row,
`Expire`. An unsolicited quote is `SendQuote`, its row under the lock, and
`StreamQuote`, the read and the send after it (engine.py:4328). `clean` says that
nothing crossed: no message the other way, and none sent to the market while an
unsolicited quote's row was written and the quote not yet sent. One instrument; terms
of a quote are its ID. A write that takes back what could not be sent (4187, 4212,
4225, 4337) has no lock. It is in the step of the failed send, that of a counter or a
pass in one step with its row: a requote heard between the row of a counter and its
failed send, which the put-back then overwrites, is not modelled.

### Families
A chain of IDs has a row on either side with its ID, terms, status and request
slot. The sending side loads, waits for an ID, writes and sends in steps of their
own, and its read loop loads and writes beside it. So do the two tasks that write
a received RFQ request: the read loop that closes it (`ReceiveRfqRequest`,
`CloseRfqRequest`) and `send_rfq`, which counts its QuoteRequest on it and then sends
it (`LoadLink`, `Link`, `SendQuoteRequest`). The receiver of allocations
works under the lock, in one step; a received IOI or advertisement is written by the
read loop alone, in one step too. One `send_rfq` at a time names a request. Terms are
the ID they were first sent under.

### Lists
State: the list's row and its orders on both sides, what the caller and the read
loop of each side are at. `terms` fixes how the list is sent: whole (E) or order by
order (D), with how many orders, whether it waits for a ListExecute, and what the
client may ask for. Every write of a list's row is of the whole row as loaded.

### Replay
State: the job's row, `_replay_tasks`, every task with where it is, what it has
counted and what is on the wire, and what each caller's command is at. A task that
is cancelled ends where the code lets the cancellation through.

### MacroRuns
State: the runner (runs, instances with two flows each, owners, claims, the count
of live macros, the queue to the store's worker), the rows the panes show, the
commands under way. The functions of runner and instance that do not await are
operators from a runner to a runner. What a line computes is left out: a flow at a
line does any of the things a line can do. An order added to a list is announced
(`Added`) before its member macro starts (`StartMember`), with an await between. A
`Restart` is a crash, or a graceful stop: of the latter the worker goes on writing
what is queued while `settle` waits for flows at work, and writes the run of each
line as stopped. One `when` flow runs at a time per
macro; the writes of a macro and of its run are committed together; a session that
goes up or down, and the stop of a run of an earlier process, are not modelled.

## 3. Runs

Every passing run is exhaustive within its bounds.

| Run | Question | Bounds |
|---|---|---|
| `SessionSeq` | numbers, resends, hand-in and the saved row of an acceptor and of an initiator under resets, gaps, reconnects, stops and a crash; and is the answer to any range over any log complete and faithful? | 3 numbers each way, 4 rows, 1 skipped at once, 1 upset, 1 sender; logs of up to 4 rows, every epoch, ranges 0..3 and open |
| `IdGen` | is an ID unique, does a call end? | 2 callers, 2 kinds, 3 calls, 3 runs of the process |
| `Connection` | what a stop leaves behind, whether hang-ups and stops end, at every await of either kind of session; and are messages read whole, in order, at once? | 1 connection, 1 message unread, 1 sender of the engine; 5 messages of 1 to 5 bytes, every chunking |
| `Acceptors` | do registry, listeners and port agree, before Python 3.12 and from it on; and does a session settle between two connections? | 3 acceptors, 3 servers made, another process; 2 connections, no sender |
| `OrderFlow` | do the two sides agree on orders, on what is pending, on disputed trades and on the legs of multileg orders? | below |
| `ReceivedOrder` | do the row, the trades, the pending request and the reports of the market agree? | FIX 4.2, 2 callers, one of them with Accept and Reject, quantities 1 and 2, 3 executions; 3 ClOrdIDs with 2 commands and 2 with 3 (`FewCommands`) |
| `Quotes` | do both sides agree on quotes, does a hit stand, does the timer end what is due and nothing else? | 1 taker, 1 RFQ, 2 quotes, 1 order (2 where sends fail), 1 counter or pass (where sends fail) |
| `Families` | does an ID mean the same terms on both sides, do the chains agree? | each of 4 families, 2 callers, 4 IDs, 1 QuoteRequest |
| `Lists` | is a list done with its last order, do both sides agree? | lists of 1 and 2 orders, 2 orders at most, 1 request, 2 commands |
| `Replay` | does the job's row tell what is on the wire, is a paused or stopped task quiet, does everything end? | a log of 3 messages, 2 callers, 2 tasks, 5 commands, 1 drop, a report after each message |
| `MacroRuns` | has an order one live macro, is a run over when it is, is the count of busy flows right, do the rows tell? | 2 runs, 2 macros, 2 orders, 3 things from outside (commands, orders, events, restarts), 3 writes behind |

`OrderFlow` has four parts. *flow*: 3 ClOrdIDs with 2 commands, and 2 with 3; 2
executions, quantities 1 and 2, FIX 4.4. *fails*: 2 clients whose sends may fail, 3
ClOrdIDs, 2 executions, 2 commands, Accept and Reject. *dispute*: 1 order, 4
executions, 4 commands with 1 dispute, and 3 with 2; sends that may fail. *legs*: an
order of two legs, replaced by three or two, 3 ClOrdIDs, 3 market actions.

The bounds are the smallest in which the cases the properties speak of happen:
three numbers allow a gap, a reset and a reuse; two connections a task that
survives one; three ClOrdIDs an order and two requests that cross; quantities 1
and 2 an overfill, a partial fill, and a correction up or down; four executions a
fill corrected, reported again and busted; two quotes one that follows another on
its row; four IDs a chain replaced twice beside another; two orders a list that is
half done; two tasks a start that crosses another; two macros and two orders a
takeover. Some runs prune with a CONSTRAINT. Those of `Acceptors` and `ListsMC` cut
only what their properties say nothing of; those of `OrderFlowMC`, `ReceivedOrder` and `MacroRunsMC`
also bound what is combined (commands with requests and disputes; a `when` in one
macro at a time and beside one order, a second run only of a desk or a test). The
queue of `MacroRuns` is one write long, and three once a run is over: the last macro
of a run queues two at once, its own and the run's, and that of a test one more for
each macro it leaves listening, so the states after a run is over are explored too.
In `Quotes` a failing send leaves two answers of the client, hits or one response. What
the instances leave out of SessionSeq (senders whose writes lag behind a change of
the status, for the properties that do not need them committed; a session that
resets on each logon) is covered by the theorems, which are of every instance. A run
whose module composes specifications fires each disjunct of them; TLC's report counts
them under the composition. Deadlock is checked in `Connection`; the others stop at
their bounds.

### Findings: where the code departs from what is said of it

`SessionSeqLostUpdate` ends in a violation and is the finding of `PROJECT.json`:
a status change reads the saved row before a sender's numbers are committed and
writes it back after, so a number is used twice without any crash.

The modules also hold statements that a comment, a test or a document makes and
that the code does not keep. No run is spent on these; each is violated within
seconds when it is named in a configuration with the constants given.

| Statement | Where | What happens |
|---|---|---|
| `GapFillSparesApps` | `SessionSeq` as in `SessionSeq.cfg` | the GapFill that closes a resend covers an application message sent meanwhile (session.py:386 against 352) |
| `StoppedIsSaved` | `SessionSeq`, `MaxUpsets = 0` | `stop()` cancels the reader or the heartbeat loop between the row of its message and its number, and writes DOWN over the row of before: the next start uses the number again, with no crash and every write committed (session.py:104, 120, 415-417; "Persist current sequence numbers", 425) |
| `BlotterCurrent` | `SessionSeq`, an initiator | the saved expected number lags behind the Logon (session.py:235; README.md:9) |
| `BlotterStatus` | `SessionSeq` | after a crash the blotter shows a session that does not run (engine.py:1157) |
| `OneLogout` | `SessionLife` | the confirming Logout is answered with a second one (session.py:300; test_session.py:604) |
| `NoAppAfterLogout` | `SessionLife` | an order goes out after our Logout (engine.py:1819; session.py:127) |
| `NoBeatAfterLogout` | `SessionLife`, an acceptor, two connections, `TestFirst` and `Caller` | the heartbeat loop of an earlier connection beats after our Logout (session.py:325) |
| `StoppedStaysDown` | `SessionLife`, an acceptor | a stop during the logon is followed by another status (session.py:190; test_session.py:267) |
| `ListeningHasNone` | `SessionLife`, two connections, `Overlap` | the end of one connection drops the socket of the next (session.py:199) |
| `ListeningIsReachable` without `~waits` | `FixServer` | a session LISTENING with no listener, or DOWN and still served, where `wait_closed` suspends (transport.py:167, 181) |
| `StopReportsDown` | `FixServer`, also where `wait_closed` returns at once | a stop while the start awaits its bind: the port opens for no listener and stays open, and the session says LISTENING after it said DOWN (transport.py:128, 168; test_session.py:268) |
| `DownCanStart` | `FixServer` | two acceptors of a port started together: one can never be started again (session.py:88) |
| `MessagesAsSent` | `Framing`, `PeerWaits = FALSE` | what comes in one chunk with the Logon is lost (transport.py:212) |
| `RequestStays` without its last disjunct | `ReceivedOrder` | Accept chosen before the lock takes a request parked meanwhile out of the slot (engine.py:2861) |
| `AnsweredOnce` for two `Choosers` | `ReceivedOrder` | an order is answered twice (engine.py:2860) |
| `ReportIsTheRow` without `AnsweredInTime` | `ReceivedOrder` | Accept chosen before a fill reports New after it, with a quantity executed of zero, over a row that has the fill (engine.py:2860) |
| `SlotsAgree` | `OrderFlow`, `Fails` | a request that fails to leave clears the slot of the one before it (engine.py:2208) |
| `TradesAgree` | `OrderFlow`, FIX.4.0 | a fill received makes no trade (engine.py:1478) |
| `DisputesKnown` | `OrderFlow`, as in the part *dispute* | a second dispute that fails to leave puts a mark back that the market has answered, or takes another's away (engine.py:3253) |
| `AcceptedLegsHold` | `Multileg` | a replace accepted after a later request took its slot leaves the client's legs as they were (engine.py:1317) |
| `StopSaysNothing` | `MacroRuns` | a graceful stop waits for flows at work, and meanwhile the worker writes a run it has queued as `stopped`, which the next start should mark `interrupted` (store.py:169, 817; the comment at 162) |

Other departures met while modelling. The properties name them as what they leave
out (`calm`, `clean` and the like say when nothing of the kind has happened), and
each shows itself when that condition is taken away:

- *Disputes.* A trade reported again carries a status worked out from the
  quantities, so a Canceled order is told "Filled" or "New" (engine.py:3143). A fill
  reported again is a second trade at the client. A dispute that crosses a
  correction marks the corrected trade at the market and not at the client.
- *Legs.* A correction or bust of a leg's trade moves the order and not the leg
  (engine.py:3030, 3088), where multileg.py:14 says "A leg's report moves the leg's
  fills, never the order's". A fill of an order with its legs reads the legs without
  the lock: a replace accepted meanwhile stops it half way, or has it use the ratios
  of before.
- *Quotes.* A requote crossing a hit leaves the client's row Hit, the market's
  Quoted, and the order unanswered (engine.py:4027). A QuoteCancel crossing a hit
  cancels the client's Hit row (3946). A second quote on a row that ended while
  another stands makes two streams at the market and one at the client. A hit that
  fails writes back the row as it was read (4187): of two takers the one undoes the
  other. A status report that ends a quote leaves a counter in its slot. An unsolicited
  quote that replaces another is written before it is sent (4328): a hit of the one
  replaced that arrives in between names a quote of no row and is only recorded (4026),
  the client's row says Hit and the market's Quoted.
- *Families.* A sender's request loads, waits and writes without a lock: an Ack in
  between is lost, and two requests of one ID make two rows at the receiver. A
  Replace over a New not answered loses the New, and one that is refused can never
  be answered (engine.py:3802). The order linked to an IOI (3334) is overwritten by
  a row loaded before.
- *Lists.* A row written back as loaded loses what came between: a list accepted
  after its orders were done is Executing for ever (engine.py:5141), and two callers
  adding orders give both one place. `accept_list` works on the orders as they were
  when it began: it accepts one filled since. A list of D orders rejected has no
  code. The ListStatus AllDone may precede the last report of an order.
- *Replay.* Of two starts that overlap one task is lost from `_replay_tasks` and
  cannot be stopped (engine.py:4741 against 4779). A Pause or Resume accepted while
  the end is being reported leaves the row "paused" or "running" (4783). A deletion
  during a start leaves a task without a row. A cancellation in a send leaves the
  count one behind the wire. Resume followed at once by Pause lets one message
  through (test_replay_e2e.py:250 says none).
- *Macros.* A run is offered orders while its row is being inserted (store.py:327,
  where the comment says the row is known "before any macro can act"); two runs
  armed at once read `MAX(id)` after both inserts and share a row (store.py:335); a
  macro detached by a takeover it finds out by itself goes on with its lines
  (instance.py:611); `_offer` stops at the first run that matches though it is full.

## 4. Fairness

The safety properties assume none; `SessionLife`, `IdGen`, `Framing`, `Quotes` and
`Replay` state it for their liveness. `SessionLife`: the database answers, every task that can go
on does (the event loop runs what is ready), and `stop` goes on from each await,
all of which have timeouts. Nothing makes the counterparty send or hang up, or a
heartbeat loop wake. `IdGen`: the writer commits, and a caller that can proceed
does; asyncio's lock is FIFO and is modelled as a queue. `Framing`: bytes
written are read. `Quotes`: the timer sweeps again, within a minute of the last
time, and goes through what it found; nothing makes anyone answer a quote.
`Replay`: a task that can go on does, sleeps end and writes commit, and a command
under way is answered; nobody has to give one, nor to resume a paused task.

## 5. What is proved

By TLAPS, for every value of the constants.

*IdGenProofs.* `TypeCorrect`, `NeverTwice`, `CodeStays`. No ID is handed out
twice, with any number of callers, kinds and runs, and with cancellations,
refused writes and deaths anywhere. The invariant orders four places a counter
can be: handed out, saved, queued to be saved, in memory. What is handed out is
at most what is saved; the queue holds growing counters; memory is at or above
both once loaded; and one caller at a time, the lock's holder, is between
counting and returning. Handed out <= saved is the point: it is what a death
does not undo.

*SessionSeqProofs.* `TypeCorrect`. `NeverAheadOfPeer`,
`HandedOnceInOrder` and `ReplaysWhatWasSent`, with no assumption beyond the
model's. The first needs that the saved expected number, and the one in every
queued write, is also not above the counterparty's, for a restart loads it, and
that what a reset or GapFill announces is not. The second ties the numbers
handed in to the expected number of the present numbering. The third says that
every committed or queued row newer than the epoch agrees with the history of
what was sent under its number, and so does the table a resend in progress
works from.

`NumbersNeverReused` and `SavedByTheLastWrite`, where
`PromptCommit` holds: numbers that were submitted are committed before a change of
the status reads the saved row. Without that assumption the first is false, which is
what `SessionSeqLostUpdate` shows. It says nothing of a sender that has not
submitted yet, which `stop()` may cancel: the first theorem then speaks of the state
until the next start (`torn`), the second of a stop that cancelled none (`cut`), and
`StoppedIsSaved` (section 3, findings) is why. The invariant (`SavedOK`): if no send is on the way to its
number, the newest write of the row in the queue, or else the row itself, carries the
number in memory.

All of them rest on `EraSaved`: the row, and every write of it in the queue, is of
the numbering the session is in, or a write of the reader is still to follow that
makes it so. The second is the case during a logon that resets the numbers, for their
row is submitted behind that of the Logon, and until then another task may read and
write back the old one. So `LoggedOn` says that this is over (it holds
through a stop too), and `AllOfEra` is what then remains, from which a change of the
status by whichever task starts.

*ConnectionProofs.* Of the tasks of a session: `StopLeavesNothingEver`, for an
initiator with any counts of messages and senders, and `SettledBetweenEver`, for any
number of connections, where they do not overlap. A stop leaves no socket, no transport,
no connect or read task, and no heartbeat loop that is at a message or a report. A
loop asleep it may leave: one made by an `on_connect` that went on after `stop()` had
cancelled the loops there were (session.py:190-192 after 102). It finds no
socket when it wakes.

What a stop leaves is what on_connect, two loops and the stop
itself have done by then, in any order, so `StopInv` says where these tasks can be
together: the two loops are made at once and after the logon (`LoopsTogether`), the
socket is that of the connection served (`SocketIsItsOwn`), a stop that
finds no connection goes straight to the transport (`NotBegun`), and one that has got
past a step leaves that step done (`TornDown`). `BetweenInv` says that one connection is
served at a time and that the last one to end put the session back (`OneServed`,
`Reports`) unless a stop is under way. `SettledBetween` is false where connections
overlap (`ListeningHasNone` in section 3), so that hypothesis is not for convenience.
`AcceptorSettled` says it of what the run checks.

Of the stream: `MessagesAsSentEver`, for a stream of any messages and chunks of
any size. `StreamInv` says that what was read are the first messages, that the buffer
is the stretch of the stream from the end of these to what was taken, and that
nothing is written behind the Logon of an inbound connection before it is read, so
that the parser dropped after it has nothing left in it. The last needs `Inbound =>
PeerWaits`: the counterparty of an inbound connection sends nothing after its Logon
before it has ours. Without it the statement is false (section 3, findings).

Of the port: `ReachableWhileListening` of `FixServer`, for any
number of acceptors and servers, from `ServerAssumption` alone. It needs an
invariant of where `wait_closed` returns at once. Whatever crosses, a listener is
attached and listens on the registered server, so one that was stopped is not reached
(`ListenersOK`). While no stop has crossed a bind (`Uncrossed`), the server
that has the port is the registered one, and a start that awaits its bind is one of
its listeners (`BindsOK`), so that the server cannot close under it. After such a stop a
bind may open the port for a server that has left the registry. Where `wait_closed` suspends
the invariant breaks, and the statement with it (section 3, findings).

*ReceivedOrderProofs.* The discipline of the order lock, for any callers, commands
and quantities, and any number of orders and trades. Its invariant (`InvHolds`)
says, besides the types: who acts on an order finds it as it loaded it or as it has
written it so far (`HoldersOK`), and so does the read loop that parks a request
(`ParkOK`); one holds the lock (`LockOK`); rows have Order IDs and pending requests
of their own, which no row is under yet (`RowsOK`), for the ClOrdIDs of messages not
read are new (`WaitingOK`); trades belong to known orders, and commands name trades
that there are (`TradesOK`, `CommandsOK`). On it rest:

- `CumIsSum`: the quantity executed of an order is the sum of its trades, but for the
  trade that is about to be written with the lock held (`CumOK`). What a trade more,
  corrected or busted does to a sum over the table is a lemma on running sums,
  proved for tables of any length by the least number at which it would fail.
- `RequestsAreKept`: no step loses a request, from the invariant alone.
- `AnsweredOnceEver`: an order or request that is answered is in no slot any more, and
  who is about to answer holds the only row that has it (`AnswerInv`). The hypothesis
  leaves out the commands `accept_order` and `reject_order` that can be sent without
  the UI (actions.py:127): they have no guard (engine.py:2555), and sent twice they
  answer twice. Of Accept and Reject only one caller may make use; the property says
  so itself.
- `ReportIsTheRowEver`: each row, but the one acted on, is what the last report on its
  order said (`ToldOK`). FIX 4.0 is left out since its reports have no LeavesQty.

In ReceivedOrder by itself nobody disputes a trade, so `renotify_trade` has nothing
to report again: these theorems do not speak of it, and it is checked
where a client does dispute, in the part *dispute* of `OrderFlow`.

*FamiliesProofs.* For any callers and families and any number of IDs:

- `TermsFollowIdEver`, whatever crosses, fails or is written back late. The invariant
  is that one assignment of terms to the minted IDs explains everything there is
  (`Agrees`): a row's ID and the ID in its slot (`Means`), a message on the way
  (`Says`), the row a task loaded and is to write back whole (`Holds`). A stale row
  does no harm to this since what it says of an ID stays true; a request adds one
  ID to the assignment and changes none.
- `ChainsAgreeEver`, for requests made one at a time and none failing: as long as
  that is so, one request is in one of five phases (`OneAtATime`: settled, in a
  task's hands, on the way, waiting to be answered, its answer on the way), each of
  which says how the sender's table differs from the receiver's.

*MacroRunsProofs.* For any macros, callers and bounds; of the model's assumptions it
takes that the bounds are numbers and that what a line can end a macro with is
passed, failed or stopped. The runner's code is a set of functions that call each
other and do not await (finish, bind, offer, stop, `_maybe_finished`), so the proof
takes them one by one: what each keeps, and what it restores. `Shape` is what holds
in the middle of one of them too (types, and of a macro that its busy flows are those
at work). `Sound` holds between them: the claims and the count are of live macros
(`Counts`), owners and keys agree (`Owns`), a live macro's run is armed
(`LivesArmed`), the runner listens while one is (`Listens`), and no flow of a macro
that is over runs on (`Unwound`); while a flow ends its own macro the last is so but
for that flow (`SoundBut`). `Driven` is that a run that only sends has a macro it
goes on for. `Inv` is their conjunction with the states of the commands, for a run
is not driven between its arming and its start. On it rest `OneMacro`
(`OwnersAgree`), `EndsWithItsMacros` (`OverIsOver`) and `SettleWaitsForWork`
(`BusyIsAtWork`). The first two are, as the properties are, of states with `calm`:
no order taken before its run's row was named, no two commands that read the same
row number, no takeover of a quote by another macro. The third and the types hold
without it.

That the rows tell the truth (`RowsTellTrueEver`) needs an account of every write in
the queue, so its invariant (`RowInv`) says what is so of the rows while there is
still something to write (`Tells`). A row *says* what the last line of the queue about
it does or, where there is none, what it holds (`Says`). A live macro that holds an
order has told what it is and its row says so, or it has yet to come to rest; of one
that is over another holds the order, or the row says what one of those that held it
came to (`Said`). A run's row is what the run is, or a line of the queue is of that
run, or a command is about to write it (`RunTold`): since the worker writes a run's
row as the run is then, and not as it was when the line was queued, one such line is
enough. Each function of the runner keeps this but for the macro it is about to tell
of, which is what `but` names. The rest says which row is whose: no two runs have one
row, nor a run one that is not there (`RunsFit`), a command on its way to a row is
alone with its run (`Commands`), the one unnamed row that may say armed is the last
one, and its command is about to read its number (`Earlier`), and there are no more
rows than runs (`Counted`). As the property does, this speaks of states with `calm`:
two commands that read the same greatest number would give two runs one row.

*ReplayProofs.* For a log of any length, any callers, and any number of tasks,
commands and drops. `QuietWhenToldEver` needs of the tasks only that their counts are
numbers (`CountsOK`): a send begins in a step that asks the gate, and the exceptions
of the property are the places that were asked before. `RowTellsWireEver` is about
who writes the row when. While no command crosses a start (`clean`), a start is alone
(`StartsAlone`), one task is live at a time, which is the newest and is in
`_replay_tasks` or being stopped (`OneLive`), and who stops it waits for it
(`StopsOK`), so the last report is that of the stop. `RowOK` then says what the row
has in each place the newest task can be in: what it counts while it runs, and at
its end that its report is still to come or in the row (`Tells`). A message is on the
wire and not counted only of a task that was caught sending (`CountsOK`).

*QuotesProofs.* For any takers, troubles and bounds. The market writes a Counter or
Pass on the row of the quote it names whatever the row's status (engine.py:4027), so
that a trade is not undone (`HitStaysEver`) is the client's doing: on the way to the
market nothing declines a quote behind what takes it (`DeclinedUntaken`). It holds
because a counter and a pass need a row that stands, and no standing row has a quote
that is taken at the market, under way or about to be sent (`StandsUntaken`). A row
comes to stand in two ways. A Quote arrives: the client hears of each once, before
it knows it (`NewsOK`). Or a hit fails and puts back the row it read: then the quote
it was of must not be taken meanwhile (`UndoneUntaken`). The latter needs
`NobodyUndoes`, that sends do not fail or there is one taker; of two takers one undoes
the hit of the other (section 3, *Quotes*) and the trade is then declined. The market
puts a row back too, when an unsolicited quote could not be sent: that row is not Hit,
as it has a quote the client has not heard of (`StreamOK`). A quote is on one row
(`OneRow`), so a write of a row says all there is of its quote. `ExpiredIsPastEver`
has no hypothesis; it needs only the types and what the timer's list holds
(`PlacesOK`): what it found due was past, and time does not go back.

## 6. What is only model-checked

Liveness (`HangUpEnds`, `StopEnds`, `CallsEnd`, `WrittenIsRead`, `OverdueEnds`,
`Ends`): temporal reasoning under fairness and ENABLED are out of the prover's
reach. What the walk over a log computes for logs of every length
(`AnswerCoversRange`, `AnswerReplaysApps`): `Resend` is recursive, and it would need
induction over data. That both sides of an order agree (`Agreement`, `LegsAgree`,
`DisputesAgree`) or of a quote (`SidesAgree`), and the properties of lists
(`ListsAgree`, `AllDoneIsWhole`), have no theorems: they relate tables at two ends of a
channel through what several handlers have in hand, and are shown within the bounds
of section 3. `HitStays` is a theorem of one taker, or of sends that do not fail: of
two takers, where sends fail, it is false, and `QuotesProofs` says so in its
hypothesis.

## 7. What is not modelled

The scanning of bytes, encoding of fields, dictionaries, parsing and checking of
the macro language, the browser, one-off backfills, argument handling, archive and
upgrade: pure functions, or I/O without interleaving. Within the components that
are modelled partly:

- sessions: a config swapped under a running session (reload_session), two starts
  of one session at once, a Logon whose number is too high (counted without a
  ResendRequest), drain suspending a sender;
- orders: prices, texts and entered terms, orders worked after they are Canceled, a
  ClOrdID used twice, a market action whose send fails;
- multileg: what a leg names, trades of legs and their corrections;
- families: the link of an IOI to its order, the Snapshot status of an RFQ request;
- lists: a cancel order by order, a NewOrderList in several messages, partial fills;
- replay: reading the log, the time window, the speed, the rewriting of a message;
- macros: priorities and their renumbering, the quiet timer of a list, matching of
  sessions and conditions, playing and deleting a macro, the recorder and history.

Hazards no property covers are in `PROJECT.json` with a note each.

## 8. Plan

Done, in the order of importance: SessionSeq with Resend, IdGen, SessionLife,
FixServer, Framing, the order modules with disputes and legs, Quotes, Families,
Lists, Replay, MacroRuns.

Next:
1. Theorems: the agreement of both sides of an order, for which
   `ReceivedOrderProofs` is the market's half, and of a list.
2. Abstract specifications: an order as the protocol sees it, implemented by
   `OrderFlow`; a reliable numbered channel, implemented by `SessionSeq`; a set of
   IDs, implemented by `IdGen`.
3. Back pressure: drain suspending between the wire and the count.
4. The recorder of macros, and priorities; `reload_session`.
