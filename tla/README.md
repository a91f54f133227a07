# A TLA+ model of iperf3

iperf3 measures the throughput between two hosts. A client and a server talk
over a TCP *control connection*; the test itself runs on separate data streams
(TCP, UDP, SCTP or, in this repository, QUIC over MsQuic), one worker thread per
stream. This directory models the parts where several actors meet: the control
protocol, the settings that travel over it and stay in a server, the setup,
hand-over and teardown of streams, the data paths whose counters end up in the
report, the report itself, and the timers that drive a test.

Paths below are relative to `src/src/`.

## 1. Inventory

| Part | State | Operations | Hard because |
|---|---|---|---|
| Client control loop, `iperf_client_api.c` | `test->state`, control socket, streams, workers | `iperf_connect`, the handlers of `iperf_handle_message_client`, `iperf_create_streams`, the end of the test, `iperf_client_end` | the server may refuse, restart, die or wait; signals jump out of any point |
| Server control loop, `iperf_server_api.c` | the same, plus listener, `i_errno` | `iperf_accept`, stream acceptance, the handlers of `iperf_handle_message_server`, time-outs, `cleanup_server` | one process serves many clients one after the other while others knock; state is reset, not rebuilt |
| `main.c` | return code, one-off mode | restart loop, signal handler | decides what counts as a served test from an error number set elsewhere |
| Exchanges, `iperf_api.c` | bytes on the control connection | parameters, results, state bytes | several reads and writes without resynchronisation: one lost or extra message shifts everything after it |
| `net.c`, `iperf_tcp.c` | sockets | read, write, dial, accept with cookie, listen | closing with unread data, backlog, late cookies |
| Timers, `timer.c` | sorted list, free list | create, reset, cancel, run | procedures change the list during the walk; late passes |
| QUIC, `iperf_quic.c` | connection, `ctx->ready`, accept queue, id map, pipe, per-stream context | MsQuic callbacks, connect, accept, attach, send, recv, free | callbacks in foreign threads; cancellation; freeing while callbacks run; a wait for a flag that another event clears |
| UDP, `iperf_udp.c` | the one unconnected socket, socket buffers, packet and loss counters | connect, accept, send, recv; statistics and omit in `iperf_api.c` | connect messages and replies are lost, delayed, refused or confused with data; counters read by another thread without a lock |
| Options and settings, `iperf_api.c` | every field of `struct iperf_settings` and the flags of `struct iperf_test` | `iperf_parse_arguments`, `send_parameters`, `get_parameters`, `iperf_reset_test` | options recompute each other's fields; a server keeps one structure for all its clients, and a field that is not sent is not reset by sending |
| Authentication, `iperf_auth.c` | token, keys, user file, clock skew | `encode_auth_setting`, `test_is_authorized` | the token is one of the fields that outlive a test |
| Statistics and reports, `iperf_api.c` | counters per stream, interval list, rate ring, the peer's results | `iperf_stats_callback`, `iperf_reset_stats`, `iperf_check_total_rate`, `send_results`, `get_results`, `iperf_print_results` | counters change between any two reads; each side completes its figures with the other's |
| Throttle, output formatting, SCTP, helpers | | | see section 7 |

The components interact through the control connection (bytes in both
directions), the listening socket's backlog, shared counters of a stream, the
flags `sp->done` and `test->done`, and callbacks (MsQuic, timers).
`PROJECT.json` lists the hazards line by line.

## 2. Modules

| Module | Models |
|---|---|
| `Connections` | the control and data connections of every client as the two processes see them: messages in both directions, ends open, closed or reset, listening socket and backlog |
| `IperfClient` | one client process: `iperf_run_client` with its handlers |
| `IperfServer` | the server process: `iperf_run_server` inside `run()` |
| `ControlProtocol` | their composition, fairness, the properties, and the refinement mapping to `Session` |
| `Session` | the abstract specification: what a server promises, without messages |
| `ControlInvariant` | the inductive invariants `ControlInv` and `FlowInv` |
| `MCControl` | symmetry for the runs of the control protocol |
| `ControlHandlers`, `ControlTheorems` | the proofs about the control protocol: one lemma per handler, and the theorems |
| `Timers`, `TestTimers` | `timer.c` as operators on a list; the four timers of a test and the loop that runs them |
| `TestTimersProofs` | the proofs about them |
| `QuicSetup` | the client's `iperf_quic_connect` and `conn_cb`, composed with `QuicAccept` |
| `QuicAccept` | streams from MsQuic's callback through the accept queue to an `iperf_stream`, and `iperf_quic_free_test` |
| `QuicStream` | one stream between its two workers: `iperf_quic_send`, `iperf_quic_recv`, `stream_cb`, cancellation |
| `QuicAcceptProofs`, `QuicStreamProofs` | the proofs about `QuicSetup` with `QuicAccept`, and about `QuicStream` |
| `UdpConnect` | `iperf_udp_connect`, `iperf_udp_accept`, `iperf_udp_buffercheck` and the network between them |
| `UdpStream` | numbering and loss accounting of a UDP stream with the main thread reading the counters |
| `UdpTest`, `MCUdp` | `UdpConnect` and `UdpStream` together: data that overtakes a reply; constants for TLC |
| `UdpProofs` | the proofs about `UdpTest` |
| `Options` | `iperf_parse_arguments` as a function of the command line |
| `Settings`, `MCSettings` | the settings of a server over the tests of several clients: parameters, authentication, reset; command lines for TLC |
| `SettingsProofs` | the proofs about both |
| `Reports`, `MCReports` | counters, intervals, rate limit, exchange of results and final report of both sides; bounds for TLC |
| `ReportsProofs` | the proofs about them |

### The control protocol

A connection is a pair `<<c, n>>`: client `c`'s control connection (`n = 0`) or
its n-th data connection. `up` and `down` are the messages under way in each
direction; a message is a state byte (`TEST_START`), a cookie, a JSON block
(`params`, `results`) or the two error numbers (`errs`). `cpc` and `spc` say where
the processes are when they are not in `select()`: inside an exchange, waiting
for a cookie, creating streams. Each action is one handler up to its next
blocking read. The outcome of writing to a connection the other end has closed
is a choice: TCP may accept the bytes or report the reset.

Options that change the control flow are kept as a set per client
(`badtoken`: authentication fails; `overlong`, `overrate`: refused by the server's
limits; `relisten`: the listening socket is replaced during the test; `tos`: a
type of service is set). Faults are constants: `Mortals` may get a signal,
`Fragile` client hosts may vanish silently, `Timeouts` lets the time-outs that
the code has expire.

The cookie and data protocol is TCP's; what QUIC and UDP do differently when
streams are created is in `QuicSetup` and `UdpConnect`. What the parameters and
the results contain is in `Settings` and `Reports`; here they are one message.

### Timers

`Timers` has one operator per routine of `timer.c`; the doubly linked lists are
sequences. `TestTimers` runs them: `tmr_run` is one step per timer, since the
order in which procedures run and the list they leave behind is what matters.
The successor is looked up before the procedure runs, as in the code.
Client and server differ by the grace period on the test timer (`Grace`). A test may
end before its test timer has run (`TestEnds`: the server's `TEST_END` sets `done`
and leaves the timers alone), and the loop goes on running timers until the cleanup cancels
them (`CancelTimers`): an omit timer may still fire in between, after the end of its test.
`NoneLeft` therefore says of the omitted part only that the test *timer* never runs out
within it, and of the cleanup that it leaves no timer to the next test.

### QUIC

In `QuicAccept` MsQuic's thread and the main thread meet. `ctx->lock` is a
variable because `iperf_quic_free_test` does not take it: an `accept_enq` between the
walk of the queue and its reset loses a stream (`ClearQueue`). That
`ConnectionClose` waits for running callbacks and shuts the remaining streams
down is MsQuic's contract.

`QuicSetup` adds the client. Its main thread sleeps on `ctx->cond` until
`ctx->ready`, which `conn_cb` sets when the handshake succeeds and clears when the
connection is shut down; the server hears only of streams the client has started.

In `QuicStream` the lock, the cancellation state and the timed waits of each
worker are explicit, and bytes are numbered so that order and loss can be
stated. The test's own totals (`test->bytes_sent`, `blocks_sent`) and throttling are left
out; `-n` and `-k` may cut a burst short at any time. A failing `calloc` in `stream_cb` is not modelled.

### UDP

A datagram is its number. The receiver's worker changes `cnt_error` and
`packet_count` in separate steps, and the main thread's reads fall between them.
`outoforder_packets` and jitter are left out.

In `UdpConnect` a stream is its number, and 0 is a datagram of somebody else. The
server's `iperf_udp_accept` is four steps, because a message that arrives between
`connect` and `netannounce` finds no socket and one that is queued before `connect` stays
in a socket that now belongs to another peer. Sizes are in words of four bytes,
which is what one `recv` of the client takes. `UdpTest` joins the two where the
server starts to send before the client has its last reply.

### Options and settings

A command line is a sequence of options with small arguments; `Rows` has the
options that check one value and store it, and each of the others has an
operator; the loop is a recursive function over the command line that stops at the
first error (`ParsedUpTo`). The checks after the loop are in the order of the code. `Settings` then
runs a server and one client after the other: what `send_parameters` puts on the
wire depends on which fields are set, `get_parameters` overwrites what it
finds, and `iperf_reset_test` resets the fields it names. A token is who, key,
padding and time; it opens when key and padding match.

### Reports

One stream per direction, in blocks. A worker adds to the total and to the
interval in two steps; the main thread reads the interval and clears it in two steps;
the omit timer, the end of the test on each side, the exchange of results and the
two summaries are steps as well. Nobody joins the server's workers before it sends
its results. Sizes are modulo `SizeLimit`, as `iperf_size_t` is modulo 2^64.
Datagrams are lost and overtake each other, and `Numbered` counts losses as
`iperf_udp_recv` does. Whether a side's system counts retransmissions
(`has_tcpinfo_retransmits`, a matter of its build) is a choice for each side, so that the two rounds of a
bidirectional report may have to go by different flags. The clearing of the counters by
`iperf_reset_stats` is one step.

## 3. Runs

| Run | Checks | States |
|---|---|---|
| `control_safety` | framing of the control connection, one client served, pairing of streams, tests running on both sides together, senders stopped before the results, results exchanged, `ControlInv` itself, and the refinement of `Session` | 1,504,000 |
| `control_liveness` | every client ends, the server gets rid of every control connection | 160,000 |
| `control_one_off` | without faults a one-off server reports at most one test, and a served client succeeds whatever the others do | 168,000 |
| `auth_failure`, `denied_stream`, `quic_omit` | three statements of comments that the code does not keep; see section 6 | counterexample |
| `test_timers` | list intact under changes during the walk, statistics before reports, no interval lost, no test timer runs out in the omitted part, no timer left, the test timer fires | 790,000 |
| `quic_accept` | no lost wake-up, one owner per stream, no callback after free, the handshake awaited, all streams attached | 60,000 |
| `quic_stream` | pending sends, no orphaned lock, order of bytes and received were sent, workers end | 231,000 |
| `udp` | streams of both sides match, a client fails only for a cause and never hangs; losses exact for every order of arrival; reports bounded under races | 6,633,000 |
| `settings` | mode and end condition independent of the order of options, both sides run the same test whatever came before, no client is let in on an old token | 209,000 |
| `reports` | both sides print the same figures under the same names, up to the last block; retransmissions belong to the sender and to the time after the omitted part, intervals add up, the rate limit judges the right window | 3,803,000 |

Bounds. Two clients suffice for one to be served while
the other is in each of its states; one stream per direction gives one or two data
connections per test, so that late, denied and foreign streams all occur. Each
client process runs one test; the server runs as many as there are clients, and
restarts in between. `control_one_off` has three clients, so that a refused one, a served one
and a further attempt can follow each other; its tests are reverse ones, those of
`control_liveness` the other two kinds. The timers run has two tests in one process, omitted parts
shorter and longer than the test and the interval, and a loop that may be as late as it likes up to
`MaxTime`. The pipe of `quic_accept` holds fewer bytes than there are streams, so that it
fills up. `quic_stream` sends three blocks with two pending, in chunks that do
and do not match the blocks. `udp` has tests of one stream with up to five datagrams
and numbers that wrap around below that, tests of two streams, where the order
of streams and the socket in between matter, one stray, and kernels whose
default buffers are large enough, too small, and too small to be enlarged; a reverse test
with so much overtaking data that the reply is given up is beyond these bounds, and the last
part of `FailsForCause` is a matter of its theorem.
`settings` has two clients in a row, the second with any option after the first
with any other, the entangled options in pairs and both orders, and clocks that
are off by less and more than the threshold. `reports` has two blocks for a test in one
direction, so that one falls before and one after a reset and a datagram has a gap before
it or is overtaken, and three intervals of the server that receives (two of one that sends), so that
the ring of the rate limit wraps around; a bidirectional test has one block, one retransmission
and the last interval only.

`CHECK_DEADLOCK FALSE`: in every model processes end, or a bound is reached. That
nobody is stuck is stated by the liveness properties.

Fairness. `control_liveness` and `control_one_off` assume weak fairness of
each process: the loops block only in `select()` and in reads, whose time-outs are
steps of the model where the code sets them (`Timeouts`). Signals, resets and
vanishing hosts are never fair. `ServerReturns` needs the time-outs and holds for tests in
which the server receives (section 6 has the other case). `test_timers`: the loop goes
on and time passes, nothing forces a test to be given up. `quic_accept`: MsQuic
delivers its callbacks, a handshake succeeds or fails, and the main threads run; the
connection is never forced down, and `TestOver` never happens by force. `quic_stream`: the workers run and
their timed waits expire; callbacks, cancellation and the connection are not fair,
so `WorkersEnd` rests on the time-outs alone. `udp`: only the client's own steps are
fair, one of which is the end of `SO_RCVTIMEO`; the server and the network may do nothing.

## 4. What is proved

Every theorem is about `Spec` without fairness, so it holds for every
specification of section 3, and for every value of the constants that satisfies the
assumptions of the modules. Those say that sizes, bounds and counts are numbers (not zero
where the code never has zero), that the streams of a QUIC test are finitely many, that a kernel
has a usual and a largest buffer size, that there is memory for the four
timers of a test (`tmr_create` failing ends the test before it begins; section 7), that
no test sends 2^64 bytes (`MaxBlocks < SizeLimit`: only a difference of counters can wrap
around), and that an option which takes an argument has one, as `getopt_long` sees to
(`CommandLine`).

### The control protocol (`ControlTheorems`)

- `ControlInvAlways`, `FlowInvAlways`: the inductive invariants;
- `TypeOKAlways`, `ResultsExchangedAlways`, `OneClientServedAlways`,
  `TestsOnControlOnlyAlways`, `FramingAlways`, `StreamsPairedAlways`,
  `RunningTogetherAlways`, `SendersStopFirstAlways`, `OneOffServesOneAlways`: the safety
  properties of the runs, all of them;
- `SessionImplemented`: the control protocol implements `Session`.

None of the safety properties is inductive. That a client that ends well
has the server's results depends on what is still in flight: the
`DISPLAY_RESULTS` it reads was sent after the results. `ControlInv` therefore
numbers the messages of a test in the order in which it may produce them and
says that the numbers in flight rise strictly from what the reader has taken to what the
writer has last sent (`Ordered`), that a client has heard nothing its server has
not said (`Heard`), that each control connection is waiting, served or closed
(`Accounted`), where the processes are (`ServerPlace`, `ClientPlace`), that data
connections carry cookies only (`CookiesOnly`), and what a report rests on
(`Reported`). The proof goes action by action: `ControlHandlers` has the facts about
sequences of ranked messages and about closing and writing, and then one lemma per
handler of the client and of the server; `ControlTheorems` puts them together.

Rising numbers leave room for gaps, and a gap is what would break framing. `FlowInv`
closes them: a payload follows the byte that announces it, or its reader has read that byte and
is blocked until the payload comes (`InSequence`). It also
says what workers and streams each side has at each state of the test (`ClientThreads`,
`ServerStreams`), that a client dials its data connections one after the other and that the backlog
holds them in that order (`DialOrder`, `DialBound`), which is why the n-th stream of one side is the
n-th of the other, and that a one-off server that has reported a test is on its way out (`OneOffInv`).

The refinement maps a step of either process to one step of `Session` or none; the step
that reports a test is a step of `Session` only because the invariant says that it was
begun and has not been reported before.

### Timers (`TestTimersProofs`)

`ListIntactAlways`, `StatsBeforeReportAlways`, `IntervalsCountedAlways` and
`NoneLeftAlways`, from `TimersInvAlways`. Nothing in `timer.c` says that statistics come
before reports: it follows from `list_add` putting a timer behind those of the same
time, and from the order in which `create_client_timers` and `client_omit_timer_proc` touch the
two. `TimersInv` says that the two timers are neighbours of one time, statistics first, or
that the statistics timer has just run, the reporter timer is next, and whatever is due
before the statistics timer is due again is in front of it (`PairInv`); that the walk of `tmr_run` is at the
head of the list or at a timer that is not due (`WalkInv`), although procedures move and
remove timers; that the handles are the active timers (`HandlesInv`); and that the statistics
timer is due one interval after the last one counted (`CountInv`). The lemmas on
`list_add`, `list_remove`, `tmr_reset`, `tmr_cancel` and `tmr_create` say of each what it
does to the order of any two timers.

### QUIC (`QuicAcceptProofs`, `QuicStreamProofs`)

`WakeupNotLost`, `EachOwnedOnce` and `FreedAfterCallbacks` for `SetupSpec`, with `AcceptInv`: the
places a stream can be at exclude each other until the context is torn down, and the
pipe is open while somebody may have to be woken. `PendingCounted`, `LocksReleased` and
`ReceivedAtMostSent` for one stream, with `StreamInv`: cancellation is off from the
call of `iperf_quic_send` to the moment the block is counted, and every byte that was
received is counted, copied, queued or dropped; the chunks are in order pairwise,
which the check of neighbours does not give by itself.

### UDP (`UdpProofs`)

`LossIsExact`, `ReportsAreBounded`, `StreamsAreMatched` and `FailuresHaveCause` for
`TestSpec`. `OrderInv` says where the connect message of the current stream is and that the client
goes on only with a reply, so that sockets are made in the order of the streams;
`BuffersInv` that buffers fit. `AccountInv` relates the loss counter to the set
of numbers below the highest one, in the middle of an update as well as between updates, and
orders the reads of the main thread against the writes of the worker.

### Settings (`SettingsProofs`)

`ModeAsAskedAlways`, `SettingsAgreeAlways` and `AuthorisedAfreshAlways`, from `SettingsInvariant`,
for all command lines of any length, any number of clients and any clocks.

The first half is about `iperf_parse_arguments`. `ParseInv` is the invariant of its loop. The mode
is that of the role and of the directions given so far (`ModeInv`), which each of `-c`, `-R`,
`--bidir` and the protocol options keeps although it recomputes only a part of it; for a
client the retransmission flag fits the mode. As long as no option has set `client_flag`, no field that is sent
has been touched (`Untouched`): that is a fact about the whole table `Rows`, and about
each option with an operator of its own. `AskInv` ties `reverse` and `bidirectional` to the options
seen. The checks after the loop keep `ParseInv` and add the rest: a server has no
client's option, a key comes with a user file, there is one end, a block has a size.

The second half is the protocol. A server that is not serving is `Idle`: every field
that `send_parameters` leaves out when it is unset, but for the six of `Sticky`, has the value
that leaving it out stands for. `Parameters` and `ParametersAgree` show what
`get_parameters` then makes of it, `ResetIdle` that `iperf_reset_test` establishes it from
anything a client may have left; without it, `SettingsAgree` would not be inductive across clients. For
authentication the invariant says that a token is made of the options of the
client that holds it (`OwnToken`) and that the token of an idle server is empty.

### Reports (`ReportsProofs`)

`ReportsAgreeAlways`, `SumsCompatibleAlways`, `RetransmitsAttributedAlways`,
`IntervalsAddUpAlways` and `RateAveragedAlways`, from `ReportsInvariant`.

`SenderInv` and `ReceiverInv` relate the counters of a stream to each other at each step
of its worker and of the main thread: total and interval differ by what was reported and what
is being cleared, and by at most the block that the worker is counting. `SentInv`, `GotInv`
and `PrintedInv` follow these figures into the results that are sent, into the stream that
takes them over, and into the summary; a worker may have gone on in between by
the one block. For a datagram this is what `OneMore` says: the receiver's own line has one
more with the whole gap before it as lost, or one loss less. `FlagsInv` says which system a side's
two flags describe and when. `RetransInv` does the same for the retransmissions that `save_tcpinfo`
reads and `iperf_reset_stats` puts aside, `ShownInv` and `SumsInv` for the rounds of
`iperf_print_results`. `RingInv` says that the slot `k` places behind the write index holds the
traffic of `k` intervals ago. That the sum over the ring is the sum over the window, wherever
the ring starts, is an induction over partial sums (`TurnedSum`).

### Induction

The library's induction rules take a predicate and cannot be used with the provers at hand.
`Upwards` is one for sets: if `a` is in `S`, and with `k - 1` also `k` up to `b`, then
`a .. b` is; it follows from the least counterexample, which `WFMin` gives. A recursive
function is a `CHOOSE` to the provers, so that its equation has to be earned
by showing that such a function exists (`SumsExist`, `LoopExists`).

Each inductive invariant was checked by TLC before it was proved (`ControlInv` in
`control_safety`; the others on instances like those of the runs).

## 5. What is only model-checked

Liveness, and everything under fairness, is outside the prover's reach: `ClientEnds`,
`ServerReturns`, `ServedToTheEnd`, `TestTimerFires`, `HandshakeAwaited`, `AllAttached`, `WorkersEnd`,
`ConnectReturns`. Every safety property of a passing run is stated by a theorem.

## 6. Where the code departs from what it says

- `auth_failure`: "Authentication failure doesn't count for 1-off test"
  (`main.c:187`). If the refused client has gone, a failed write replaces
  `IEAUTHTEST` and the one-off server exits.
- `denied_stream`: denying a connection "is not considered an error"
  (`iperf_util.c:132-134`). With a type of service set, socket options are applied
  to the closed socket first, and the failure ends the test being served.
- `quic_omit`: "For QUIC, prefer server-reported totals for sender summary."
  (`iperf_api.c:3014`). With `-O` the client subtracts the bytes it sent in the
  omitted part from the server's figure, which never had them; the line is too small, and
  wraps around when the omitted part was the larger one.
- "Ensure select() will timeout" (`iperf_server_api.c:701`). In a reverse test there is
  no time-out until the timers exist: if a data connection of the client is denied
  because its cookie came late, the server waits in `CREATE_STREAMS` and the client for
  `TEST_START`. The same specification shows it with `Modes = {"RECEIVER"}`,
  property `ServerReturns`; `control_liveness` has the modes for which it holds.

Some further hazards are in the models without a promise to compare with: the
unlocked walk in `iperf_quic_free_test`; UDP losses of the omitted part that turn into
arrivals afterwards (the reported loss may be negative); packets that fall between the
two reads of `iperf_stats_callback` and appear in no interval. Also:

- A QUIC client without `--connect-timeout` whose connection is shut down before it
  looked waits for ever (the exception in `HandshakeAwaited`); `ctx->done` is set and never read.
- `MAX_REVERSE_OUT_OF_ORDER_PACKETS` allows for two *packets*, but the loop adds up the
  four bytes it reads of each, so that it bears far more; a bidirectional test, which has
  the same data in the same direction, bears none.
- `repeating_payload`, `get_server_output`, `flowlabel`, `mptcp`, `pacing_timer` and `quic_port`
  are sent only when set and not reset: they stay with a server for later
  clients (`Sticky` in `Settings`). What a client asks for it always gets.
- `--nstreams` has no `break` and sets the target rate as well (`ParseNumStreams`).
- Once a QUIC stream has ended `iperf_quic_send` returns 0 and `iperf_send_mt`
  (`iperf_api.c:2308`) counts a block for it; only the end of a `-k` test reads that count.
- A UDP buffer too small for the first stream changes `settings->socket_bufsize` for the
  later ones, on each side by itself (`iperf_udp.c:544`).
- A QUIC server that has not joined its senders may print figures its peer does not have;
  `ReportsAgree` is stated for TCP and UDP, where the difference is at most the one block
  a worker was counting. If that block is a datagram behind a gap, the server's own line has
  the whole gap as lost and the client's line none of it.
- On `TEST_END` the server leaves its timers running until the cleanup. A client with `-O`
  and few bytes may end while the server's omit timer is pending, which then resets the
  statistics of a test that is over.

## 7. Not modelled

The sending throttle (`iperf_check_throttle`: floating-point rates and sleeping); the
text and JSON of reports (`iperf_print_intermediate`, `print_interval_results`, JSON
streaming), error strings, cJSON and the queue macros; RSA, base64 and SHA-256 (only
whether a token opens); SCTP, whose data transfer is the kernel's and whose setup
repeats TCP's; time, DSCP and the remaining TCP_INFO helpers; jitter, times and CPU figures;
partial writes on the control connection; failures of resource allocation and of
socket options other than the type of service; the configuration of MsQuic and
a second connection to its listener; `-n` and `-k` other than as an end that may come at
any time; the ratio of `--server-bitrate-limit`'s interval to `-i`, which is
floating-point arithmetic.

## 8. Plan

Done: the models of section 2, in the order control protocol, timers, QUIC, UDP,
settings, reports, UDP and QUIC connection setup; the proofs of section 4, in the same order.

What would come next, by importance:

1. More than one stream per direction in `Reports`, with the sums over them.
2. QUIC and UDP stream creation inside `IperfServer`, so that a control connection
   that closes meets them in every state.
