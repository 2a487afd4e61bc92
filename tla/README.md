# Horoscope / tcpgo: a TLA+ model of the replay engine

Horoscope (the repository's `horos`, "tcpgo") takes captured TCP traffic of
clients of a production server and replays it to a test server.  It plays the
clients itself: it sends their packets through a raw socket, rewritten for the
test server, sniffs what the server answers, and runs a small TCP state machine
for each session so that the replay stays in step.

This directory holds TLA+ modules that model it, TLC configurations that check
them on small instances, and proofs that TLAPS checks, for every value of the
constants: about the session, the strand, the postman with the cascade and its
subclass that reads a TCP connection, the capturer, the testsuite, `listmap`,
and the main thread with its lua interpreter.
`PROJECT.json` lists components, runs, mutated definitions that show each
property can fail, the source lines of every definition, hazards and theorems.
Paths below are relative to the repository.

    tlc -config TcpSession_passive.cfg MCTcpSession.tla    # a run
    tlapm TcpSession_proof.tla                             # a proof


## 1. Inventory

### Threads

* **asio pool** (`proactor`), `_asio_thrd_num` threads.  They run
  * one *strand* per thread for sessions (`politburo`): `post_the_jobs` plucks
    up to 100 captured packets, polls the sessions, delivers the server's
    packets and posts itself again; the timers of sessions are wrapped in it;
  * the *capturer's strand*: the handlers of `realtime_capturer`;
  * the 10 ms tick that counts jiffies (`thetimer`).
* **postman**: a receiving thread and a sending thread.
* **cascade**: a forwarder thread.
* **testsuite**: a worker thread, if lua scripts are configured.
* **main thread**: `run()` starts everything; then `reactor` (epoll), which
  calls the lua console, and the events of `thetimer`.

The console and the worker of the testsuite share one lua interpreter.

### Components, state and operations

| component | state | operations | interacts with |
|---|---|---|---|
| `tcpsession` | TCP state, samples still to be sent or acked, sliding window, last sequence and ack numbers, three clocks, `_dead`, `_reset_the_peer` | `pls_send_these_packets`, `got_a_packet` with one handler for each TCP state, `kill_me`, `inject_a_realtime_ippkt`, the timeout checker, `sanitize` | polled and fed by `postoffice`; collected by `session_manager`; its death goes to `testsuite` and `statistics_bureau` |
| `session_manager` (one per strand) | `_sessions`, `_healthy_sess_count`, `_traffic_jam` | `read_from_pcapfile`, `clean_sick_session`, `inject_a_realtime_ippkt`, `clone_sessions`, `dispatch_ip_pkt`, `erase_a_session` | called by capturer plucking and by `postoffice` |
| `postoffice` (one per strand) | `_callbacks` in order of registration | `register_callback`, `send_packets_to_wire`, `recv_packets_from_wire` | raw pointers to sessions; `postman::send` and `recv` |
| `politburo` | strands | `post_the_jobs`, `enqueue_a_timer_handler` | all of the above |
| `realtime_capturer` | a buffer for each connection, a queue and a counter for each strand, `_jam_control` | `handle_accept`, `handle_read`, `delayed_read`, parsing, plucking | its queues cross from its strand to the sessions' |
| `postman` and its subclasses | a receive and a send queue for each strand, flags | two threads, `recv`, `send`, `push_recved_ippkt` | strands, `cascade`, network |
| `cascade` | a queue, `_count`, `_done` | `push_back`, `run`, `stop` | receiving thread, another instance through a FIFO |
| `thetimer` | `_jiffies`, events in two maps | tick, register, remove, loop | everyone reads jiffies |
| `listmap` | linked elements and a map | insertion, erasure, iteration | `_callbacks` |
| `tcp_postman` | listening and open socket, a buffer, the time of the last read | accept, non-blocking reads, parsing | runs on postman's receiving thread; a sniffer on the server's machine connects |
| `testsuite` | job queues, counters, `_done` | `report_sess_traffic`, worker, `stop`, `ready_go` | reports from the strands; lua scripts; reload from the console through a timer event |
| `statistics_bureau` | atomic counters, rates | increments, a report | console |
| `ip_pkt` | header fields, send mark, send time | order, rebuild, clone | everywhere |
| `configuration`, `main` | the settings | defaults, setters, `readin`, `check_validity`, `run` | read by all |
| `reactor` | `_workhorses` | `register_evt`, `deregister_evt`, `bigbang` | calls the console and the timer events |
| `mylua` | `_lua_state`, `_lua_modules`, two descriptors | accept, read and execute a command, close; load scripts, run them, restart | the main thread and the worker of `testsuite` |
| `utils`, logging | none that matters | | |

### What is hard about it

* **Protocol and network.**  The session reacts to a server behind a network
  that loses, repeats and reorders, with 32-bit sequence numbers and iterators
  into a list that changes.  The FIN of a passive session has to wait; data
  must not be skipped; death happens once, and a timeout resets the peer first.
* **Two registries.**  `_sessions` owns sessions, `_callbacks` has raw pointers
  to them, and they change in different calls, one while it is iterated.
* **Timers.**  A handler that is already queued cannot be cancelled, and is
  bound to a raw `this`.
* **Threads without locks.**  Queues and their counters are changed by two
  threads one after the other; wake-ups can be missed; a full queue stops the
  parser in the middle of a buffer, or makes a thread spin.
* **Jams.**  Two independent traffic controls (`session_manager`'s and the
  capturer's) must be lifted again.
* **One interpreter, two threads.**  Console and worker push and clear frames of
  one lua stack; a reload closes it.
* **Descriptors and iterators that outlive what they stand for**: events of a
  batch for a closed connection, iterators of a list while it changes, timer
  handlers that register events.
* **The end.**  Threads are joined while they may be blocked.

`PROJECT.json` "hazards" lists 40 of these at their lines, with the properties
that watch them or the reason why none does.


## 2. Modules

| module | models |
|---|---|
| `SeqNum` | sequence numbers: `utils.h` `seq_before`, addition that wraps, and `htons` applied to one. A number is two digits to an even `Base`; `Base` = 2^16 is the real width |
| `TcpSession` | one session from registration to removal |
| `SessionLife` | abstract: what a session promises the postoffice |
| `Strand` | `session_manager`, `postoffice`, `politburo` and session timers of one strand |
| `RealtimeCapturer` | the capturer, its connections and queues, and the strands that pluck |
| `Cascade` | `push_back`, forwarder and FIFO |
| `Postman` | extends `Cascade` with both threads of the postman, strands and the end of the process |
| `TcpPostman` | the postman that receives over a TCP connection: socket, buffer, parser, its end |
| `TestSuite` | the reports of sessions, the worker that judges them, and the reload of the scripts |
| `ListMap` | `listmap.h`: the links of the list, the hash map, an iterator, and the memory they live in |
| `OrderedMap` | abstract: what `listmap` promises the postoffice |
| `Settings` | `configuration`: defaults, options, setters, the check. Operators only |
| `Lua` | the interpreter of `mylua`, the worker that loads and runs scripts, and the parts of the main thread's actions that touch it |
| `MainLoop` | extends `Lua` and `Settings` with `main.cpp`'s `run()`, `reactor`, the console, `thetimer`'s events, the operator and the clock |
| `MC*` | constants of the instances |
| `TcpSession_proof` | type correctness of `TcpSession`, its inductive invariant and what follows, the refinement of `SessionLife` too; what a session keeps of the recorded stream |
| `Selections` | `Selected`: what `SelectSeq` selects, as a recursive function that can be proved about |
| `Basics` | lemmas on numbers, sums, sequences and finite sets that several proofs use |
| `Strand_proof`, `Postman_proof`, `RealtimeCapturer_proof`, `TestSuite_proof`, `ListMap_proof`, `MainLoop_proof` | the inductive invariant of each, and the theorems that follow; `Postman_proof` extends `TcpPostman`, too, and has its theorem |

### `TcpSession`

`_ippkts_samples` is the sequence `samples`, and the sliding window its first
`win` elements: the code keeps the left boundary at the front.  A sample has a
kind (syn, data, fin, ack), a sequence number, a length, how often it was sent
and its age.  Recorded times are kept as ages, saturated one past the limit
they are compared with; `Tick` advances them all.

`pls_send_these_packets` and what `postoffice` does with the answer are one
action, because nothing else of the strand runs in between: `GiveUp` (timeout),
`Idle` (nothing to send: last chance of TIME_WAIT, dormancy), `Send` (a prefix
of what is due is handed over: `HandOver` chooses how many the queue takes),
`ResetThePeer` and `RemoveMe` for a dead session.  Each state handler of
`got_a_packet` is an action (`EstablishedGot`, `FinWait1Got`, ...), with the
trailing `refresh_status` and window reset inside it.  `Arriving` is the set of
packets an honest server can have sent, given what it can have received
(`sndMax`); any of them may arrive at any time, so loss, repetition, delay and
reordering need no state.  `MaxStall` lets time pass inside `got_a_packet`,
which reads the clock twice.  History variables `sndMax`, `ackMax`, `peerFin`
exist for the properties.

Not in it: the handlers of CLOSED, LISTEN and SYN_RCVD (they do nothing or
abort, and need a peer that opens a connection), data of the server beyond its
length, checksums, `_traffic_history`.

### `Strand`

A key has a `life`: none, loaded (from a file), accumulating, abort (given up,
not polled yet), alive, resetting, dying.  `pc` says where the job is: `Load`
and `CleanSickSession` before the start, then inject, send (`cursor` is the
iterator into `order`, that is `_callbacks`), receive; `RunTimer` happens
between jobs.  `got` abstracts what a session has collected to the parts that
decide whether it is complete and sane.  What a poll or a packet does to a
session is a choice here (`PollAlive`, `PollKills`, `RecvKills`); module
`TcpSession` says when.  `handlers` counts expired timer handlers that no
cancel can stop, and `dangling` that one belongs to a session erased since;
running it (`RunDangling`) touches freed memory and is taken to change nothing
of the model.

### `RealtimeCapturer`

The stream of a connection is a sequence of units: a packet is a head and a
tail, so that reads split it, and junk is what the parser skips.  The parser is
one action for each unit or packet (`SkipJunk`, `Push`, `CountPushed`,
`QueueFull`, `EndParse`): the strands that pluck (`Pop`, `Inject`) run between
them, also between a push and its count.  `HandleReadInJam` is the branch that
does not parse.  `Push` writes the mapped port into the buffer, and so does the
`QueueFull` that fails, as in the code.  The limits of 100 and 200000 packets
are `LowMark` and `Capacity`.  A connection may be closed (`HandleEof`) or break at
any read, with what was not read (`HandleError`).  As in `TcpPostman`, packets with
`tot_len` zero are left out.

### `Cascade` and `Postman`

Every access to what threads share is a step: push, count, test and notify on
one side; pop, assertion, subtraction, write, the failed pop and the sleep on
the other.  `count`'s test and the notification are one step, since a
notification that comes later only wakes the forwarder early, as the timeout
may.  Readers of the FIFO come and go, `MaxDepartures` times.  The receiving
thread reads (`Sniff`, or `NotOurs` for a packet of somebody else), copies to
the cascade, and enqueues when there is room; the sending thread empties one
queue after the other.  `StopStrands`, `Close` and `StopCascade` are the
destructors of global objects.  They run one after the other, in any order since
it depends on the linker, and the next begins when the threads the last one
joins are there (`Joined`).  The process ends by the lua console's `os.exit` or
by the return of `main`.  The makefile does not define `NDEBUG`, so assertions
are active, and one that fails ends the process (`Aborted`).  The counters of
`postman`'s queues are never read and left out.


### `TcpPostman`

A unit of the stream is as long as the headers of a packet (40 bytes): a packet
is a head and a body of any length, and what does not begin with a head is
skipped.  Packets are sent whole (`Apart`), as the hint to the peer demands ("-s
0"): none of ours starts inside another.  `thread` says where the receiving
thread is: `TestsFlag`, `EntersAccept` and `Accepts` (the process may end in
between), then `Reads`, `ReadsNothing` or `Quits`, and the parser one packet or
unit at a time.  A packet that says it has no length (`tot_len` zero) is left
out: the parser never gets past it.  `errno` is state, because the code tests it
after reads that do not set it (`ErrnoAfterRead`); `silent` is the five seconds
since the last read.  `hdrOnly` chooses the parser's mode once.  `ClosesSockets`
and `BecomesBase` are the two halves of the destructor: the thread runs on while
the sockets are closed, and a call of the overridden `recv_impl` in the second
half is one of a pure virtual function (`ThreadAborted`).  Its names are not
those of `Postman`, so that one module can prove about both.

### `TestSuite`

`Report`, `Count` and `Notify` are the three steps of `report_sess_traffic` on
the thread of a strand, `Pops`, `Uncounts`, `Judges` those of the worker, and
`Stops`, `Joins`, `ResetsQueue`, `StartsWorker` those of the main thread in a
reload; they interleave freely.  A packet of a reported session is its side, its
sequence number, its length and whether it is a SYN, which is what
`split_traffic` looks at.  Traffic is sorted already, and is what the history of
a session can be (`History`): the SYN of a side comes once, without data and
before it, and where an empty packet of the client stands between two with data
none is missing, because the client's data is that of samples which `sanitize`
found to follow each other.  The server's may have any holes.  The counters
begin with any value of `Garbage`, since nobody initialises them.  Replacing a
queue while a strand pushes into it is undefined behaviour; the model replaces
it in one step, so the outcomes it has are the loss of what was in the queue and
of the count.

### `ListMap` and `OrderedMap`

An element of the list lies in a cell; `quad` holds the fields of all cells,
those of free cells included, so that a pointer to an element that was erased
is visible as such, and the next insertion may get the cell again.  `EraseHead`
and `Unlink` are the two branches of `erase`, chosen as in the code by comparing
values (`SamePosition`), which works because every pointer is registered under
one key only (`Put`).  `cursor` is the iterator of `send_packets_to_wire`.
`OrderedMap` is a sequence of keys and their values; the refinement maps the
chain of cells to the sequence.

### `Settings`

The text of an option is the number it spells, `Off`, `Unset` (the empty text),
or `NotANumber` for any other; addresses and paths are numbers that are only
compared.  `Ends` says which texts make a setter end the process (an assertion,
a `lexical_cast` nobody catches), `Stored` what it keeps otherwise.
`FromCommandLine` drops `-f`, which `run()` ignores, and empty texts.
`Guaranteed` is what setters and check make sure of; `Assumed` is what
`SessionAssumption` and `StrandAssumption` ask of the same numbers, and more: it
rests on `NonNegative`, that no timeout and no limit below zero is given.

### `Lua` and `MainLoop`

`frames` is the one lua stack: the kind of each value (a module's table, a
function, a string, ...), since the code ends the process at values of the wrong
kind, whoever left them.  Its users look at what their own code has left
(`LoadsScript`, `CountsLoaded`; `RunsCommand`, `PrintsResult`) and clear all of
it when they are done; the calls of the C API that run a script on a session are
a step each (`GetsModule`, `FetchesMain`, `RemovesModule`, `PushesArgument`
three times, `CallsMain`, `ClearsTest`).  So each can find fewer frames than it
left, more, or the other's.  What happens then is taken from the code where it
says so: a second frame or a nil aborts while a script is loaded, a negative
count is reported to the operator, a frame that cannot be printed ends the
process, whichever command was typed.  Where lua is called without the arguments
it needs, it is a choice between going on and ending the process (`Underflows`).
`worker` is the thread of the testsuite: it finds any subset of the scripts on
disk, loads them one by one, then makes passes over its queues and runs all
scripts on a session.  `Crash` ends the process.

In `MainLoop`, `pc` is the place of the main thread: `ReadsIn`,
`TakesCommandLine`, the check and `GetsReady`; then for each `epoll_wait` a
`batch` of descriptors in any order (`Waits`), served one by one, and the timer
events in the order of their numbers (`BeginsTimers` to `EndsTimers`).  A command
is `reload` or `other` (the statistics, any expression).  A reload is an event
that first stops the worker (`FiresReload`), then waits for its end and makes a
new interpreter (`Reloads`).  The queues of jobs of that worker are in
`TestSuite`, where the interpreter is not.


## 3. Runs

All runs finish with two workers in a few minutes.

| run | instance | shows |
|---|---|---|
| `TcpSession_passive` | passive close, data of 1 and 2 bytes, windows 3 and 9, acks in the middle of packets, numbers that wrap, full send queue; 72,000 states | the FIN is kept and waits, the window is within the run of the samples, acks stand in front, a close that is counted as graceful has had the server's FIN and its acks of the data, nothing unsent is skipped |
| `TcpSession_active` | the same closing actively, whole acks; 211,000 | the same of an active close, no data lost through FIN_WAIT, CLOSING and TIME_WAIT, `SessionLife` implemented, every session is removed in the end |
| `Strand_traffic` | 3 keys, 2 places, 1 polled at a time; 647,000 | registries agree, sessions are watched, ceiling and order hold |
| `Strand_live` | 2 keys, one loaded, each cloned once; 2,600 | incomplete sessions are given up, registered ones erased |
| `RealtimeCapturer_jam` | 2 connections, 4 packets, junk, buffer of 5 units, queues of 1, connections that close or break; 5,600 | nothing lost, repeated, out of order; what is sent is read in the end, unless its connection breaks |
| `Postman_threads` | 2 strands, 2 packets received by one, 3 sent by both (one strand refills its queue), queues of 1, one departing reader; 862,000 | order, accounting, progress and end of each thread |
| `TcpPostman_feeds` | 2 connections, 6 packets (one of another port, one longer than the buffer of 3 units), junk; 148,000 | packets handed on once and in order; dead connections and full buffers given up; the thread ends |
| `TestSuite_reload` | 2 strands, 2 reports each (accidents, a whole and an incomplete one), queues of 1, one file, one reload; 233,000 | every report judged once or known to be dropped, what is tested is whole, nothing hangs |
| `ListMap_links` | 3 keys, 3 values, 4 cells, all alike (symmetry); 52,000 | links and map agree, the iterator never stands on a freed cell, `OrderedMap` implemented |
| `MainLoop_console` | 9 pairs of file and command line, one script, 2 connections, the first with two commands that leave nothing, a string or a table, one descriptor, a tick of one jiffy; 650,000 | what passes the check has a port, threads, places and no timeout of zero, and what the sessions assume if nothing below zero is given; descriptors and events are kept straight, frames do not pile up, the machine is closed when nobody is in it, a reload is done in the end |
| `TcpSession_outdated`, `Postman_count` | the same instances | a comment or assertion of the code that does not hold, section 5 |

**Why the bounds are enough to be interesting.**  With `Base` = 4 there are 16
sequence numbers and the session's start just below the wrap, so all comparisons
wrap.  Two data packets of different length are the least with which the window
holds a part of the data, a packet can be refused behind one that is accepted,
and an ack can end inside a packet.  Times of 1 and 2 jiffies tell before, at
and after each limit apart.  Three sessions for two places and one polled at a
time make every session wait for another, and meet the ceiling; two places and a
clone meet in `Strand_live`.  A queue of one packet is full as often as it can
be; four packets in two queues meet a full queue before, in the middle of and at
the end of a buffer.  Two packets to one strand and a queue of one make the
receiving thread spin; on the other side the strand served first refills its
queue while the other waits with a packet of its own.  A buffer of three units
is filled by a packet that does not fit, and cut in every way by reads of one to
three; two connections show that nothing is left over from the first.  A queue
of one job drops reports, a file limit of one is reached, and one reload meets
the worker and both strands at every step of theirs.  In a list of three an
element has two neighbours, and one cell more than keys lets an insertion take a
freed cell or not.  One descriptor for two connections is reused at once, or
refused; two commands make two reloads, or a reload and a command in the middle
of it, and the second connection comes while the first is used, replaces it, and
may be gone by then; one script is enough for the worker to be found in each of
its steps.

`CHECK_DEADLOCK` is on but for `MainLoop_console`, whose process may end
(`halted`): elsewhere final states are explicit stuttering actions (`Erased`,
`Idle`, `Over`), and the worker of the test suite never rests.

Some invariants are conjunctions: `WindowSound`, `Limits`, `Counters`,
`Accounts`, `BufferKept`, `ReportsKept`, `SettingsSound` and `WatchesOpen` join the
named parts of their modules, the type invariant with them.

**Fairness.**
* `TcpSession`: time passes and the session is polled, since `post_the_jobs`
  posts itself again.  Nothing is assumed of the server.  Of the send queue,
  that it is emptied in time: a packet that is offered again and again is taken
  (`WF(SendDue)`), as the sending thread does not rest; without it a session
  that only waits for its last packet would wait for ever.  `Removed` is stated
  for behaviours in which payload stops arriving, since each payload restarts
  the clock.
* `Strand`: the strand is first in first out and never blocks, so jobs and
  handlers run, timers expire.  A session that is polled over and over ends:
  that is `Removed` of `TcpSession`, assumed here as strong fairness.
* `RealtimeCapturer`: completions that are ready and expired timers are run
  (strong, since another connection's parse disables them now and then), and
  strands pluck.  Nobody has to connect, send or close, and a
  connection may break, which `Drained` excepts.
* `Postman`: each thread runs.  Reads of the receiving thread return because
  the raw socket sees all packets of the machine; with `pcap` and no traffic at
  all `pcap_dispatch` would wait for ever, and so would the join.  Nobody has
  to read the FIFO, nothing has to be sent.  A strand that
  refills its queue for ever keeps the sending thread at it (`postman.cpp:172`):
  `Sent`
  excepts it, since the strands of the module have `ToSend` packets each.
* `TcpPostman`: the thread runs, sent bytes arrive, time passes, and a
  destructor that has begun goes on.  Nobody has to connect or close, and
  `accept` need not return: `TcpReceiverEnds` leaves that case out, in which the
  join waits for ever.
* `MainLoop`: both threads run, a script that is called returns, jiffies pass, and
  a pass of the worker ends, as it takes one job from each queue (strong
  fairness).  Nobody has to connect, type or hang up, so `ReloadServed` excepts
  the main thread that waits in `read()` for ever, and a process that has ended.
* `ListMap` has no liveness.
* `TestSuite`: worker, main thread (once asked for a reload) and a report that
  has begun run.  No session has to end.


## 4. Proofs

`tlapm` checks all of them to the last leaf, from the named assumptions on the
constants and nothing else.

| theorem | module | says |
|---|---|---|
| `TypeCorrect` | `TcpSession_proof` | `TypeOK` is invariant: also, a session is killed once at most |
| `Safety` | | `SessionInv` is invariant |
| `FinIsKept` | | the FIN is the last sample until a state that follows its sending |
| `FinWaits` | | a passive session's FIN is on the wire only after the server's |
| `CloseIsEarned` | | a graceful cause of death means that the server's FIN has come and that it has acked all the data; not that the session's own FIN has left, which does not hold (section 5) |
| `Implements` | | `Spec => Life!Spec`: every behaviour is one of `SessionLife` |
| `StreamKept` | | `StreamInv` is invariant |
| `WindowIsSound` | | the window is within the run of the samples, and only a first sample is a pure ack |
| `UnsentIsKept` | | the stream goes to the wire without holes |
| `NothingIsLost` | | if the server acks whole packets, what it has not acked is kept |
| `StrandSafety` | `Strand_proof` | `StrandInv` is invariant |
| `RegistriesAgree` | | `_callbacks` has exactly the sessions that do not accumulate, once each |
| `HealthyCounted` | | no more sessions are counted as healthy than are alive |
| `AllWatched` | | a session that accumulates has a timer waiting or a handler queued |
| `WithinLimits` | | the ceiling on sessions, and the order in which they go to the wire |
| `PostmanSafety` | `Postman_proof` | `PostmanInv` is invariant |
| `CascadeAccounts` | | `_count`, the queue and what is lost add up |
| `OrderReceived`, `OrderSent` | | packets pass each way once and in order |
| `ReceiverSafety` | | packets that come over TCP are handed on once and in order, and of an open connection none is lost |
| `CapturerSafety` | `RealtimeCapturer_proof` | `CapturerInv` is invariant |
| `QueuesCounted` | | the counters of the queues are off by what is in a hand |
| `PacketsConserved` | | captured packets reach a strand once and in order |
| `SuiteSafety` | `TestSuite_proof` | `SuiteInv` is invariant |
| `ReportsAccounted` | | a report is judged once at most, in order, or known to be dropped |
| `TestedIsWhole` | | what the scripts test has every byte up to its last, once |
| `ListMapSafety` | `ListMap_proof` | `ListMapInv` is invariant |
| `StaysLinked` | | links and hash map agree |
| `CursorStaysLive` | | the iterator never stands on an erased element |
| `ListMapRefines` | | `Spec => Abstract!Spec`: every behaviour is one of `OrderedMap` |
| `MainSafety` | `MainLoop_proof` | `MainInv` is invariant |
| `SettingsStaySound` | | what passes the check has `Guaranteed`, and `Assumed` too if nothing below zero was given; the command line goes first |
| `OpenIsWatched` | | the reactor watches exactly what is open |
| `EachEventOnce` | | reloads are done once each; there is one statistics event |
| `StackStaysBounded` | | frames do not pile up on the lua stack |
| `MachineClosedAlone` | | the interpreter is closed when the worker is gone |

**Assumed of the constants.**  `SessionAssumption` and `BaseAssumption` (any
even `Base`, any cuts of the stream below half the number space, any timeouts,
windows and both ways to close); `StrandAssumption` (finitely many keys, any
limits, clones and addresses); `PostmanAssumption` and `CascadeAssumption` (any
strands, numbered from 0, and any queue lengths); `ListMapAssumption` (finitely
many keys and at least as many cells); `CapturerAssumption` and
`StreamAssumption` (any streams in which no packet occurs twice and a head is
followed by its tail); `TcpPostmanAssumption` (any connections in which packets
do not overlap, any buffer); `TestSuiteAssumption` (any strands, queues, limits
and initial counts, any traffic that is a `History`); `LuaAssumption`,
`SettingsAssumption`, `MainLoopAssumption` (finitely many scripts, connections
and descriptors). `NothingIsLost` alone has a hypothesis, `~PartialAcks`, as the
run that checks `NoDataLost` has: `refresh_status` drops a packet that starts
below the ack, so an ack that ends within one does lose data.

**The session.**  `TcpSession_proof` first turns the modular arithmetic of
`SeqNum` into order of stream offsets, then shows for each action, through lemmas
on the operators it is built from (`Adjusted`, `Refreshed`, `Swept`), that it
keeps the types.

`FinKept`, `FinWaitsForPeer` and `GracefulClose` are not inductive.  That the
FIN is not eliminated by an ack depends on the ack being one the server can
have sent, so at most one past what went to the wire; that depends on the FIN
not being on the wire while the session is established; and this on where the
FIN stands in the samples and what the window holds.  `SessionInv` (defined in
`TcpSession`) has a part for each of these: the SYN alone in the window during
the handshake (`SynFirst`), the acked number is one that was sent (`AckedSent`),
FIN last and unsent before its state (`FinUnsent`), the expected last ack is
that of the FIN (`LastAckKnown`), what has been heard in each state (`FinHeard`,
`DataAcked`) and which states belong to an active close.  The proof has one
lemma for each handler (`SynSentInv`, `BeforeFinInv`, `EstablishedInv`,
`AfterFinInv`) and for each part of a poll (`SweptShape`, `HandOverShape`,
`CloseInv`); `PollInv`, `GotAPacketInv` and `TickInv` join them.  The refinement
adds `PhaseInv`: a live session is not removed and has nobody to reset.

`WindowSound`, `UnsentKept` and `NoDataLost` are about the list of samples, and
the obvious way to prove them, that each packet starts where the one before it
ends, is not inductive: packets are erased in several places, and a pure ack is
put in front.  `StreamInv` says more: the samples are always the last ones of
the recorded stream (`EndOfStream`), behind one pure ack at most, which stands
before the FIN or alone.  So there is no gap but the one behind a pure ack, a
run of the samples is all of them where there are more than two, the window
cannot reach over a gap, and what is unsent (`Unsent`) or unacked (`Kept`) is an
end of the same stream.  `PlaceShape` has the arithmetic: offset, reach and
follower of the packet at each place.

**The strand.**  `StrandInv` adds to the properties: what is left of loading
once the strand runs (`Phases`), that only a session that accumulates has
collected anything (`NothingLeft`), that a pass goes over one registration for
each session it counts, so that `cursor` never leaves `order` (`InStep`), and
room for the clones of the sessions that accumulate (`RoomForClones`).  The last
is what makes the ceiling provable: a session is cloned long after it was
admitted, so what has to stay bounded is the sum of the sessions and of the
clones still to come, and a completion moves from one summand to the other.
That addresses are cloned to distinct keys which had none (`ChainExists`,
`ClonesShape`) is an induction over their number.

**Postman and cascade.**  `CountAccounts` and the two orders are invariants over
two or three threads, with a conjunct for what is in whose hand.  The parts that
make them inductive: nothing is popped between a failed write and the next
reader (`LossPaidFor`), blocks are ascending through queue, hand and FIFO
(`Ascending`) and not above the packet sniffed last (`Newest`), the receiving
thread goes on only when its hand is empty (`NothingDropped`, `InTheHands`).
`InParts` splits the invariant by thread, since most steps leave most of it alone.

**The receiver.**  `Plucked` says that what was handed on, what is in the buffer
and what is still to be read make up a feed.  It is not inductive: it says
nothing of a connection that was reset, whose buffered packets are still handed
on, nor of those to be accepted, nor of the part of the buffer that was passed
and will be discarded.  `ReceiverInv` adds that what is held continues what was
handed on whatever becomes of the rest, and has no packet inside another
(`Held`); that of a connection not yet accepted nothing was taken (`Untaken`);
and that there is no packet between the last one found and the parser's place
(`PassedOver`), so that discarding only up to `sentinel` repeats nothing.
`PacketsConcat` cuts a stream anywhere, since finding packets is a selection;
`OnePacket` shows that stepping over a packet's length steps over no other,
`HandsOn` and `GoesOn` that its packet moves from the buffer to what was handed
on.  All of it stops where the destructor has set the flag, since
`push_recved_ippkt` then drops packets.

**The capturer.**  `CounterInv` has the counters, one parse at a time, within its
buffer (`ParserInv`), and a short hand.  `PassedInv` relates what is left of each
stream to what the strands were given: what is left is an end of the stream, but
for ports that were mapped already (`RestIsEnd`); what was given has left it
(`PassedIsGone`), all that has left it was given (`GoneIsPassed`) once
(`PassedOnce`), in order (`InOrder`).  `Conserved` is the reading of these for one
packet.  A push and its count are two steps, and `Rest` follows the parser's
place between them.

**The testsuite.**  `Accounted` needs that a reload replaces queues only while there
is no worker (`JoinsFirst`), whose hand would otherwise hold a job that is
counted as dropped with its queue.  Each step is one of three on the sequence of a
strand: a report is appended (`AccountsNext`), one is dropped (`AccountsLoss`), or
an end of the sequence is cut off (`AccountsCut`).  `TestedWhole` is about bytes,
the code about pairs of packets: `TestedIsSplit` records the code's judgement,
and `SplitIsWhole` shows that it suffices, by induction over the packets of one
side: up to each of them the bytes are an interval that starts behind the SYN
(`WholeAtSyn`, `WholeGrows`).  The step needs that the packet compared with is the
last one with data (`DataFollows`); for the client, whose empty packets are
compared with as well, this is where `History` is used.

**The list.**  `Linked` speaks of `Chain`, which follows `_next` from the head by a
recursive function.  `ListMapInv` says the same of any sequence of cells
(`LinkedAs`), so that a step is shown to link another sequence (`Append`, or
`RemoveAt`) and `ChainIs` shows once that `Chain` is the only one there can be.  It
also needs that no two keys share a cell (`OneKeyEach`) and that no two registered
values are equal (`OneValueEach`): `erase` takes the element for the head if the
values are equal, and would unlink the wrong one.  The refinement maps the chain
to the sequence of its keys; `PutStep` to `EraseAndAdvanceStep` show that each
operation on links is the one of `OrderedMap`.

**The main thread.**  `MainInv` has `SettingsInv` (where each setting comes from at
each step of `run()`), `ConsoleInv` (a batch has no descriptor twice, and the
listener only while somebody waits), `TimersInv` (the main thread joins for the
event at which it is) and `MachineInv` (`DepthBound`: how many frames each user of
the stack can have left by now, `OfScripts`, `OfTest`, `OfCommand`, the sum of which
bounds the length of the stack while each of them may clear it under the others).
`SettingsInv` shows that the settings are those of the file and then of the command
line, so that `BothGuaranteed` is a statement about setters only.

**How induction is proved here.**  The theorems on induction of the library have
an operator as parameter, which the installed provers cannot instantiate.
`Basics` proves induction over numbers for a set instead (`LeastNat`, `Induct`):
from the well-founded inclusion of finite sets.  That suffices for `Selected`,
for clones and for chains of links; not for what a recursive definition computes
of every input, which is not claimed.

**Only model-checked**: all liveness (`Removed`, `Drained`, `TcpReceiverEnds`,
`ReloadServed` and the others), which is beyond the prover.  Every safety property
of the passing runs has a theorem.


## 5. Where the code does not do what it says

The first two are runs that find a counterexample.

* `tcpsession.cpp:1154` (`TcpSession_outdated`): "drop the outdated incoming
  packets", but a repeated SYN-ACK sets the numbers of an established session
  back; it acks old data from then on.
* `cascade.cpp:117` (`Postman_count`): `assert(_count > 0)` fails if the
  forwarder pops a block before `push_back` has counted it.

The models also reproduce, without a run of their own:

* in the session: FIN_WAIT_2 is entered on an ack of the data alone, because the
  expected ack is the FIN's own number and the comparison admits equality
  (`tcpsession.cpp:648`; `tcpsession.h:118` takes the FIN for acked), so that a
  session is reported as closed, actively or passively, whose own FIN never
  left, and is tested by the scripts: `GracefulClose` claims the server's FIN
  and the data only; the patience of `tcpsession.cpp:961` that never runs out,
  the FIN without payload that is not acked (`:980`), the death for dormancy of
  a passive session with a pure ack in front of its FIN (`:684`), the 16-bit
  conversion of ack numbers (`:793`);
* in the strand: a RST for an aborted session subtracts it from the healthy
  sessions, to which it was never added (`tcpsession.cpp:725`).  The count never
  exceeds the sessions alive (`HealthyNotOver`), so the jam is lifted early, not
  never; the pass that ends at the first packet that is not due
  (`postoffice.cpp:198`); cloning that does not look at the limit
  (`session_manager.cpp:205`): there can be `SessionLimit * (Clones + 1)` sessions,
  and not more, which is what `SessionCeiling` says;
* in the capturer: the port that is mapped twice after a full queue
  (`realtime_capturer.cpp:250`), the call that lifts a jam without parsing, so
  that whole packets wait in the buffer and are lost if the connection closes
  (`:182`). Streams with more junk than a buffer are not in the instance: the
  code then reads into no space at once, over and over (`:280`).  A connection
  that is reset has no remote end to ask for, so `remote_endpoint()` throws
  before the branch for broken connections (`:88`);
* in the receivers: the end of a stream that a stale `errno` hides for five seconds
  (`tcp_postman.cpp:163`), the `accept` that no destructor wakes (`:101`); a packet
  whose `tot_len` is zero, which the parser finds again for ever (`:275`, and
  `realtime_capturer.cpp:276`), is in no instance;
* in the testsuite: the jobs that a reload throws away (`testsuite.cpp:57`); and
  traffic that only lacks its end, because packets without data, a FIN too, are
  compared with nothing (`:195`): a session whose last response is lost is tested,
  although "if the traffic lost packet, do_tests won't be performed." (`:143`).
  `TestedWhole` therefore speaks of the bytes up to the last that is there;
* in the interpreter: a command typed while a script is loaded can make it look
  malformed, and end the process (`mylua.cpp:310`); a negative count of frames
  (`:504`; a comment there blames a terminal program); after a reload `_lua_modules`
  still has the old names (`:259`), so each script runs twice, and one that was
  removed from disk is called as nil outside any `pcall` (`:325`) and ends the
  process, after "Testsuite has been reloaded." (`:80`); a result that is no
  string does so too (`:520`), and the statistics before a session was closed
  normally (`statistics_bureau.cpp:171`);
* in the main loop: the event of a closed connection throws (`reactor.cpp:117`), or
  makes the main thread wait in `read()` on another connection with the same
  number, timers and reloads with it (`mylua.cpp:424`);
* in the settings: `-f` has no effect, a local variable of `run()` hides it
  (`main.cpp:148`, against the help of line 142); an address that is none is
  kept, because the result tested for is one `inet_aton` never has
  (`configuration.cpp:96`); negative timeouts and a negative `concurrency_limit`
  are accepted, against what the sessions and strands are modelled with, and
  `SettingsUsable` claims more than `Guaranteed` only without them; 65536 is
  port zero.


## 6. Not modelled

What lua scripts compute, and what the bindings of the console do to the log or
to files.  The counters of `statistics_bureau`: nothing in the replay reads them.
`reactor::stop`, `the_timer::remove_the_timer` and `postman::send_sync` are called
by nobody.  `utils`, logging and the vendored `readline` headers hold no state the
replay depends on.  Checksums, addresses and payload bytes are abstracted away,
and `sanitize` is modelled by its result.  Undefined behaviour without a bounded
outcome is listed as hazard only: `_conns` changed off its strand, the packet that
is rewritten while the sending thread reads it, calls of the lua machine that two
threads make at one instant (each is a step), the comparison of packets that is
no order.


## 7. Plan

Done: `SeqNum`, `TcpSession` with proofs and `SessionLife`; `Strand`;
`RealtimeCapturer`; `Cascade` and `Postman`; `TcpPostman`; `TestSuite`; `ListMap` and
`OrderedMap`; `Settings`, `Lua` and `MainLoop`.

Proved since: all safety of `TcpSession`, `Strand`, `Cascade` and `Postman`,
`TcpPostman`, `RealtimeCapturer`, `TestSuite`, `ListMap`, and `MainLoop` with `Lua`
and `Settings`.

Left: a composition of `Strand` with `TcpSession`, replacing the choice in
`PollKills` and `RecvKills` by `SessionLife`; `PacketOrder`, the comparison of
packets against a reference order over bounded packets.
