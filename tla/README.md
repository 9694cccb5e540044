# A TLA+ model of the telemetry platform

This directory models and verifies the program in `src/`: a telemetry server in C (UDP telemetry,
TCP commands, a watchdog, a web page), the simulated nodes that report to it (`node/node.py`), the
operators that watch it (`operator_client/`), and the script that subtitles the video about it
(`docs/video/edicion/`). The code is the reference; the documents
(`docs/PROTOCOLO.md`, `docs/INFORME.md`) are quoted where they promise something.

## 1. The system

| Part | State | Operations | Talks to |
|---|---|---|---|
| Server state (`state.c`) | table of 64 nodes, ring of 256 alerts, counters, table of 32 subscribed descriptors; one mutex over all of it | find, register, set a measure, add an alert (log it, count it, push it), snapshot, subscribe, unsubscribe | called by all threads |
| UDP handler (`udp_telemetry.c`, `protocol.c`) | none | check a datagram, account for its sequence number, store its measure, raise an alert, answer `NACK\|104` | nodes |
| TCP handler (`tcp_operator.c`, `protocol.c`) | per connection: descriptor, input buffer | accept, read lines, handle a command, reply, leave | nodes (`REGISTER`, `BYE`), operators |
| Watchdog (`watchdog.c`) | the clock it read | once a second, mark the nodes that fell silent and raise `NODE_INACTIVE` | server state |
| Node (`node.py`) | registered, running, sequence number, resolved address | register with retries and back-off, send bursts, read NACKs, say BYE | the server over TCP and UDP |
| Operator client (`operator_client.py`) | socket, buffer, lock, subscribed | send a command and read its reply; a second thread prints pushed alerts | the server over TCP |
| Video subtitles (`montaje_v2.py`) | cues of a clip and of the film, offset | join, stretch, trim, cut, speed up, place and stamp the cues of a transcription | whisper and ffmpeg, through files |
| HTTP page (`http.c`) | none | format the state into a bounded buffer | browsers |
| Process (`main.c`) | `g_running`, three listening descriptors | start the threads, stop on a signal | all |

What makes it hard: the threads share everything under one mutex, but clocks are read outside it
and alerts are sent inside it; UDP loses, reorders and duplicates; requests the node gave up on
may still be served; the server may restart with nothing in its memory; descriptors are reused;
tables, ring and socket buffers have limits.

What makes each part correct:

* *Server state*: one entry per node; the flags `active` and `inactive_alerted` never disagree;
  counters per node add up to the totals; the alerts shown are the newest ones, in order.
* *Watchdog*: a silent node is found; a node that is not silent is left alone; one alert per silence.
* *Loss accounting*: never more losses reported than there were.
* *Node*: comes back after the server lost it; ends when told to.
* *Alert push*: a subscriber gets every alert once and in order, nobody else gets any; the mutex
  comes back.
* *Operator client*: each reply is matched with its command, whichever of its threads reads the
  socket; every alert is displayed once; the user's commands return.
* *Simulated sensors*: what the node means as an anomaly is what the server takes for one.
* *Video subtitles*: no cue overlaps the next, none is lost, each appears when its words are heard.
* *HTTP and replies*: the buffer is respected and a reply always ends in `END`. *Process*: it ends
  after a signal. (Not modelled.)

`PROJECT.json` lists the hazards line by line with the properties that cover each.

## 2. The modules

**`TelemetryRules`** – pure rules of `tlp_handle_udp` and `check_thresholds`: the gap a sequence
number reveals, the next `last_seq`, the alert a reading raises. Readings are integers in tenths.

**`AlertLog`** – the abstract specification of the alert store: a sequence of at most `Capacity`
alerts, newest first; the only step puts one more in front.

**`Server`** – `g_nodes`, the ring and the counters, with one action per critical section:
`Register` and `Bye` (TCP), `Telemetry`, `TelemetryRejected`, `TelemetryInvalid` (UDP), and the
watchdog in its real steps `WatchdogWake` (reads the clock), `WatchdogLock`, `WatchdogVisit` (one
table entry; the mutex is held in between), `WatchdogUnlock`. `Tick` is the clock. A handler that
locks once is atomic, because nothing it touches is visible without the mutex. Identifiers and
variable names are model values; the entry's `vars` and `nvars` become a function from names to
values, its size the number of names with a value. `location`, `registered_at`, `started_at`,
`tcp_commands` and `tcp_connections` are only ever displayed and are left out.
`INSTANCE AlertLog` with `log <- AlertsSnapshot(MaxAlerts)` states that the ring, read as
`GET_ALERTS` reads it, implements the log.

**`NodeLink`** – one node and its entry in the server, with the network between them. `pc` is where
the node's only thread is in `run`, `register`, `send_telemetry`, `check_nack` and `bye`. TCP
requests are a pending request with its reply, plus the requests the node stopped waiting for
(`stale`), which the server may serve later. UDP in flight is a sequence per direction; the
constants `Reorder` and `Duplicate` choose what the network may do, and loss is always possible.
`Crash` empties the server and resets its connections; `Restart` is docker's
`restart: unless-stopped`. The constant `TableFull` adds `ERR|106`. `Counting = FALSE` drops the
counters and leaves the control, which makes the state space finite without a bound on the number
of datagrams: that is the form in which liveness is checked.

**`AlertPush`** – the thread of every TCP connection, the subscriber table and the push loop of
`state_add_alert`, one descriptor per step with the mutex held. Descriptors are numbers that
`accept()` reuses, the lowest free one first, as POSIX says. A socket holds `BufferCap` messages
the peer has not read; then `send()` waits. A send to a peer that is gone fails, or succeeds in
vain as the first one after a close does.

**`OperatorClient`** – both threads of the client and the end of the connection in the server. The
main thread asks for a command, waits for the lock, reads lines until the reply is complete
(`MainLine` is one turn of that loop, with the rule that displays an alert in passing) and shows
it; every confirmed subscription starts one more listener, as the code does. Socket and buffer are
shared: `buf` holds whole lines received, `partial` the beginning of the next one, which a timeout
in the middle of a line must leave in place. A line is a record of its first word, its origin and a
number, so that a row of `GET_ALERTS`, which starts with `ALERT|` too, differs from a pushed alert
for the properties and not for the code. `shown` counts how often each alert was displayed.
At the other end the connection's thread (`Handle`, `SendReply`, `Close`) and whichever pushes an
alert (`Push`, `SendAlert`) write to the same socket, the first without the server's mutex. A reply
is any of `Replies`: complete, without the rows that do not fit the 8192 bytes of `append`, or
without its `END`. While the socket is full a line may be half sent (`Begin`, `begun`); the other
thread's bytes then get into it (`Cross`): a torn line with the beginnings of both comes of it, and
the rest of one is a line of its own or the beginning of the next. What a torn line starts with is
open (`Prefixes`), except that it is neither `END` nor `OK|SUBSCRIBED`, which must be a whole line;
when `pretty()` fails on its missing fields, the process ends (`Show`). `SocketFills = FALSE`
leaves half-sent lines out. `Interrupted` is the user's Ctrl+C or end of input where nothing
catches it.
`--cmd` (`single`) sends its command and then `QUIT`. The other commands behave as one of the four
modelled: `LIST_NODES` and `GET_MEASURES` have replies that end in `END` like that of `GET_ALERTS`.

**`LineFraming`** – how one connection thread makes lines out of the segments `recv()` returns: the
buffer of `2 * MAX_LINE` bytes, the inner loop (`AnswerFound`), the rest that is kept or, when it is
too long, dropped with the flag `overflow` set (`KeepRest`). A byte is its position in the stream,
and the stream is given by the positions of its newlines. **`LineAnswers`** is its abstract
specification: one answer per line, in order, `TOO_LONG` exactly for a line of 512 bytes without
its newline, as `PROTOCOLO.md` says. `AlertPush` starts from whole commands. It has no run: the
proof covers every stream and every segmentation.

**`NodeReadings`** – `measure()` of the node: how the sensors drift, are clamped and show anomalies,
against the thresholds in `TelemetryRules`. Its ranges are far too large for TLC, and no smaller
instance says anything about them, so it has no run: what it states is proved.

**`Montage`** – the times of the subtitles, from whisper's cues to the stamps of the `.srt`. For each
clip, `ReadCue` and `EndOfSrt` are the first loop of `regroup` (joining), `Trim` the second
(stretching to the shortest duration, trimming the cue before), `PlaceCue` what `render_clip`,
`write_ass` and `main` do with a cue (trim, cut, speed, offset, section card), `Render` the offset
of the next clip, and `WriteSrt` the stamps. Times are integers: those of a clip in ticks, those
of the film in units fine enough for every speed to be a whole number of them. The code counts in
floating point; where that shows, at whole seconds, `Stamps` lets a float fall just below. What
decides whether two texts may be joined is left open, except for the limit on their time. How long
the part that ffmpeg makes really is, is not modelled: `Duration` is what the script takes it to be.
`montaje.py` is the same program without the card (`CardEnd = CardKeep = 0`).

`MCServer` and `MCMontage` instantiate their modules for TLC; `NodeLink`, `AlertPush` and
`OperatorClient` are checked directly, all their constants being numbers and Booleans.
`ServerProofs`, `ServerCountsProofs`, `NodeLinkProofs`, `AlertPushProofs`, `OperatorClientProofs`,
`MontageProofs`, `LineFramingProofs` and `NodeReadingsProofs` hold the proofs. `Server`, `NodeLink`
and `NodeReadings` share `TelemetryRules`; `AlertPush` details the one step of `Server.AddAlert`
that `Server` leaves out, the push, and leaves out everything else; `OperatorClient` is the peer
that `AlertPush` leaves free, seen from its own side.

Operators named `Faulty...`, `Eager...`, `Evicting...`, `Stubborn...` or `Endless...` are not used by
any specification. Each is the operator that follows it with a plausible programming error; putting
it in its place makes the property named beside it in `PROJECT.json` fail.

## 3. The runs

Each run finishes within about two minutes, most of them in much less.

| Run | Shows | Bounds and why they suffice |
|---|---|---|
| `server_table` | table, flags, measures and counters consistent; sweep right (`MarkedInactiveRightly`, `SweepAlertsOnce`); a full entry keeps what it has (`MeasuresKept`) | 3 nodes for 2 entries (so the table fills and `ERR\|106` happens), 1 measure slot for 2 variables, 2 values of one of them (so it is replaced), sequence numbers 0..3 (gaps, repeats, restarts), 4 seconds with a limit of 1 (two silences), 2 datagrams |
| `server_live` | `SilentNodeDetected`; the ring implements `AlertLog` | 2 nodes, ring of 2 that wraps with `NODE_INACTIVE` on top of 2 threshold alerts; no symmetry, as liveness requires |
| `node_link` | `LossNotOverstated` on a network that loses but does not reorder | 5 numbers, 2 datagrams in flight, 1 crash, 1 abandoned request of a kind: enough for a late `REGISTER` inside a new numbering and for old datagrams after it |
| `node_live` | `NodeComesBack`, `StopEnds`, also with a server that answers `ERR\|106` | 2 crashes, unbounded number of datagrams |
| `push` | `SubscribersAreServed`, `NoDoubleSubscription`, `OperatorsAgree`, `AlertsComplete`; `MutexReleased` and `CommandsAnswered` if peers read | 2 connections of 2 commands, so a descriptor is reused by the second and a subscription repeated; 2 alerts, sockets of 1 message, so sends do block |
| `op_client` | `LockIsTheReaders`, `RepliesMatchUnlessCrossed`, `ListenersSeeAlerts`, `AlertsConserved`; `CommandsReturn`, `AlertsShown` | 3 commands: two subscriptions and so two listeners, or a subscription, a query and an end; 1 alert, which arrives in any order with the lines of a reply and its timeouts, or in the middle of a line |
| `montage` | `ClipCuesOrdered`, `ShortOnlyIfFollowed`, `TextKept`, `FinalOrder`, `CardClear`, `StampsExact` | every transcription of up to 3 cues (a cue, one that trims it, one after an empty text) with times 0..4, in 2 clips: one that begins late and is played faster, and one with a cut; cues may be shorter than the shortest duration (2), joined up to 3 |
| `node_stop` | *violated*: `StopsCleanly` | see section 4 |
| `node_reorder` | *violated*: `LossNotOverstated` with `Reorder` | see section 4 |
| `push_slow_peer` | *violated*: `MutexReleased` without the assumption that peers read | see section 4 |
| `push_full` | *violated*: `SubscribedIsListed` with one slot for two subscribers | see section 4 |
| `op_overtaken` | *violated*: `RepliesMatch`, although lines are sent whole (2 alerts) | see section 4 |

The bounds are constants: `MaxSeq`, `MaxTime`, `MaxUdp`, `MaxRaised` (nodes fall silent once that
many alerts were raised; the watchdog still reports), `MaxIssued`, `MaxFlight`, `MaxCrashes`,
`MaxStale`, `MaxConns`, `MaxCommands`, `MaxAlerts`, `MaxCues`, `Horizon`. Deadlock is checked for
`Server`. It is not elsewhere: a node, a connection, a session and the script come to an end.

**Fairness.** `Server`: weak fairness of the watchdog, a thread in an endless loop whose mutex
request is always served because no other section blocks there. `NodeLink`: the node's thread and
docker are weakly fair; strong fairness of connecting, serving, receiving a reply in time, and of
a datagram and a NACK getting through says that a network that is tried again and again sometimes
works, which is the least under which anything can be promised; stopping and crashing are never
obliged to happen. `AlertPush`: threads run, and one that waits for a mutex that becomes free again
and again gets it; `FairPeersSpec` adds that operators read what they are sent. `push_slow_peer`
shows that the last assumption is necessary. `OperatorClient`: threads run, what is sent arrives at
last within a timeout, and a free lock is taken by some thread that waits for it, by no particular
one. A listener asks for the lock again right after releasing it, and `threading.Lock` does not
promise that the user's command ever gets in between; CPython in practice lets it in after a few
timeouts of half a second, but `CommandsReturn` does not claim it. It says that every listener that
has the lock lets go of it, and that a command comes back once it has the lock, or when there is no
listener. The user need not type and the server need not stop.
`Montage` and the invariants elsewhere need no fairness.

## 4. Where code and documents disagree

* **A node stopped before its first DNS answer crashes** (`node_stop`). `bye()` connects to
  `(None, 5001)`; the `TypeError` is not among the exceptions it catches, and the summary that the
  docstring promises is not printed.
* **Reordering is counted as loss** (`node_reorder`). The gap is counted when the newer datagram
  arrives and never taken back. `INFORME.md` says the server reports *exactly* what was missing;
  `node_link` shows what is true: it never overstates when order is kept.
* **A slow operator can stop the server** (`push_slow_peer`). `send()` to a subscriber blocks with
  the mutex held. `INFORME.md` says that such a subscriber is dropped.
* **`OK|SUBSCRIBED` without a subscription** (`push_full`). When the 32 slots are taken the command
  is confirmed and nothing is stored.
* **A reply that is that of the command before** (`op_overtaken`). The server lists the subscriber
  under the mutex and confirms afterwards; an alert in between reaches the client first. `send()`
  returns it as the reply to `SUBSCRIBE_ALERTS`, starts no listener, and from then on every reply
  is one behind. Its docstring says that it returns the complete reply. `RepliesMatchUnlessCrossed`
  (`op_client`) says that besides this one there is only one more way to a wrong reply: an alert and
  a half-sent line that get into one another because the socket is full (`tcp_operator.c`, 96 and
  `state.c`, 98).

Observed while modelling, with no text of the repository that says otherwise:

* A cue that starts before the end of its clip is not cut there (`montaje_v2.py`, 183), so it may
  overlap the first cue of the next one. Cues 148 and 149 of the published subtitles do.
  `FinalOrder` says that cues overlap nowhere else.
* A float just below a whole second is stamped `ss,1000` (line 163), which the expression that makes
  the `.vtt` does not fit. With the speeds and offsets of `CLIPS` it can happen (a cue 0.9 s into
  clip 7); no published stamp has it.
* With a cut in a clip, `-t` would shorten the part by the length of the cut before the filters cut
  it out, and later subtitles would be early. No clip of `CLIPS` has a cut.
* A reply whose `END` does not fit the buffer never completes: the client waits until its timeout
  and gives up the connection.

## 5. The proofs

The theorems hold for every value of the constants that the named assumptions allow
(`ServerAssumption`, `NodeLinkAssumption`, `AlertPushAssumption`, `OperatorClientAssumption`,
`MontageAssumption`); there are no other assumptions but those a theorem states. Each follows from
an inductive invariant, with a lemma for each action or group of actions.

Every invariant and every action property of the passing runs is the statement of a theorem, and
so is the refinement of `AlertLog`.

**Server** (`ServerProofs`, `ServerCountsProofs`), for every number of nodes, entries, measures and
alerts and every set of readings. `TypeCorrect`, `TableIsConsistent`, `FlagsOpposite`, `MeasuresFit`
and `CountersAlwaysAgree` are the invariants of `server_table`; `MarkedRightly` and
`SweepReportsOnce` its action properties; `ImplementsAlertLog` says that the ring implements
`AlertLog`. The inductive invariant `IInv` adds that an unused entry is not active, that `last_seen`
is not in the future, and that the watchdog's clock is not ahead of the real one. The first is
needed because the flags are only opposite in used entries; the other two because
`MarkedInactiveRightly` speaks of the clock of this moment while the code compares with an older
one: `wdNow - last_seen > InactiveAfter` and `wdNow <= now` give the claim. `TableIsConsistent` is
needed too: the alert of a marked node is counted on the entry a second lookup finds, which is the
marked one only because identifiers are unique. The refinement rests on one lemma about ring
positions (`PosShift`): writing at the head moves every position by one and overwrites only the
oldest alert. `MeasuresStay` (`MeasuresKept`, an action property) needs that an unused entry holds
no measure, since enlisting a node clears the entry. `MeasuresFit` needs that the measures of an
entry are finite, since variable names may be infinitely many. `CountersAlwaysAgree` counts the
events as pairs of an entry and a number (`Units`), so that a total is the cardinality of a set: a
datagram adds one pair, a gap as many as it is wide, and no induction over the table is needed.

`SweepMissesNobody` is the safety half of `SilentNodeDetected`: when the watchdog gives the mutex
back, no active node had been silent too long at the time it read. Its invariant `SweptSoFar` says
that of the entries the sweep has passed, and no other thread can undo it before the unlock.

**NodeLink** (`NodeLinkProofs`). `TypesKept` holds on any network. `ResolvedNodesStopCleanly` bounds
what `node_stop` shows: the crash at the end can only meet a node whose name was never resolved, as
every place behind the first connection has the address, and nothing takes it away.
`LossNeverOverstated` assumes that
the counters are kept and that the network neither reorders nor duplicates; `node_reorder` shows
that the former is necessary. What the server will count depends on the datagrams in flight, so its
invariant (`Accounted`) gives every datagram in flight the number of those dropped before it was
sent. Between one and the next at least as many were dropped as the server may count as a gap
(`Step`); between the last one and the next to be sent too; and what the server has counted is no
more than was dropped before the datagram that left the network last. A new numbering, a late
`REGISTER` and a crash only make gaps smaller. Each stage is also bounded by the total, since the
sum along a sequence of any length would take an induction.

**AlertPush** (`AlertPushProofs`), for every number of connections, slots and alerts, and peers that
do as they like: all the invariants of `push`. `OnlyServedGetAlerts` and `NoDoubles` need that a
thread has a descriptor from `accept()` to `close()` and that no two share one (`FdsOwned`);
`OperatorsCountRight` needs only the place of each thread. `NoAlertLost` (`AlertsComplete`) is about
the middle of the push loop, where some subscribers have the newest alert and others do not: its
invariant (`FlowInv`) says that what a peer has read, what waits in its socket and what the loop
still owes it (`Due`, which depends on the slot the loop is at) are together all the alerts since
its subscription, once each. `SubscribedWhileRoom` bounds what `push_full` shows: as long as
`operators_connected` is at most the number of slots, whoever has an `OK|SUBSCRIBED` is in the table
(`Room`, the hypothesis, is defined beside the lemma `FreeSlot`). Were no slot free, each would hold
the descriptor of another operator, by the two theorems above, and there would be more of them than
are connected (`FreeSlot`).

**OperatorClient** (`OperatorClientProofs`), for every number of commands and alerts: all the
invariants of `op_client`. `OneReader`: the lock is held by whoever reads, which needs that no
listener is started twice. `AlertsAreConserved`: an alert is in exactly one of the server's hands,
the socket, the buffer, a thread's hands and the display, or its beginning is; the lemmas say what
concatenating, appending and taking the head do to the number of times an alert occurs in a
sequence. `RepliesAreRight` and `ListenersGetAlerts` share the invariant `ReplyInv`. While the
conversation is in step (`InStep`), nothing but pushed alerts is around between two commands
(`Idle`); while a reply is read the lines read, buffered and in the socket are, but for alerts, a
beginning of what the server made of the command (`served`), the rest of which is with the server
(`Reading`, `Underway`); and when it is complete nothing but alerts follows (`Replied`). That is why
a listener, which may take the lock at any point between commands, finds no line of a reply. A reply
that lost its `END` is never `Replied`. The conversation leaves step in three ways: an alert
overtakes an `OK|SUBSCRIBED`, or it and a half-sent line get into one another, both of which the
properties exclude (`crossed`); and the `QUIT` of `--cmd`, after which nothing is displayed and no
listener runs, so that they hold anyway.

**Montage** (`MontageProofs`), for every list of clips and every transcription: all the invariants
of the run. Joining gives groups whose starts are in order, each ending no earlier
than it starts (`LoopInv`); trimming needs that the starts still to come are no earlier than the
last one placed. `TextIsKept` needs to know of the cues between and inside the groups: every group
is a range of cues that ends before the next one begins, what lies between two groups is blank, and
no text is read that is in none (`Holds`). `FilmIsInOrder` and `CardStaysClear` rest on the monotony
of `Remap`, whatever is trimmed, cut or sped up, and relate each cue placed to the next one to be
placed and to the offset: one of the present clip is no earlier, one of a clip before no later.

**LineFraming** (`LineFramingProofs`), for every `MAX_LINE` above 0. `NeverFull`: `recv()` always has
room; `LinesAnsweredFirst`: no complete line waits while the thread does; `ImplementsLineAnswers`:
the refinement. The invariant says what the flag means: with it down, the buffer begins with the
first unanswered line; with it up, that line began at least `MAX_LINE` bytes before the buffer and
has not ended. So emptying the buffer never changes the verdict on a line.

**NodeReadings** (`NodeReadingsProofs`). `ReadingsMatchThresholds`: an alert is raised exactly for
what the node means as an anomaly; the invariant is that the sensors stay in their ranges, and the
ends of the ranges are compared with the thresholds.

Only model-checked are the liveness properties, which hold under fairness and are beyond the prover:
`SilentNodeDetected`, `NodeComesBack`, `StopEnds`, `MutexReleased`, `CommandsAnswered`,
`CommandsReturn` and `AlertsShown`. What a theorem says without a run is said to have none:
`SweepMissesNobody`, `SubscribedWhileRoom` and `ResolvedNodesStopCleanly` complete a property of a
run, and `LineFraming` and `NodeReadings` have no run at all.

## 6. What is left, in order

1. `Shutdown`: signals, `g_running`, the descriptors the handler shuts down, the joins of `main`.
2. `ReplyBuffer` and `StatusJson`: `append` into 8192 bytes and `build_status_json` into 65536, as
   arithmetic over lengths of machine width; parsing of sequence numbers at the limits of `long`.
3. Truncated sends of alerts (`state.c`, 98): a signal or a failing connection in the middle of
   `send()`. `AlertPush` sends alerts whole, `OperatorClient` whole or around a line of a reply.
4. Proofs: the same for these modules; of the present ones only liveness is left.

## 7. Not modelled

The log (no state), the text of replies, pages and screens, opening sockets and DNS beyond their
success or failure, the test drivers, the deployment and evidence files, and in the video scripts
everything but the times of the subtitles: the wording and line breaks, the filters handed to
ffmpeg, and `tarjetas.py`, which draws still images with fixed coordinates.
