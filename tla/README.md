# RedHAT: a verification project for a handover-aware TCP receiver

The repository makes a Linux TCP receiver anticipate the periodic handovers of a
LEO satellite link. Shortly before a predicted handover the receiver lowers the
window it advertises, holds it low while the link is interrupted and opens it
again afterwards. A user-space monitor learns the period and the phase of the
handovers from concurrent pings and programs the kernel through sysctls; shell
scripts run measurement campaigns with and without the controller.

The modules here model that program: the controller and the window selection it
sits in, the TCP output code of the same kernel (`tcp_output.c`) as the peer of a
controlled receiver sees and runs it, the monitor, the automation and the ping
programs. TLC checks them on small instances, and TLAPS proves most of their safety
properties for every value of the constants.

## 1. Inventory

| part | source | state | operations | modelled in |
|---|---|---|---|---|
| dynamic controller | `redhat_kernel/tcp_redhat.c`, `.h` | `struct tcp_leo_dynamic_state` of a socket: measurements, the frozen parameters of one cycle, the snapshot a reduction is measured from, the start of the ramp, the phase | `tcp_leo_dynamic_target`, on every segment sent | `LeoDynamic`, `RedhatController` |
| window selection, fixed controller | `redhat_kernel/tcp_output.c` | `rcv_wnd`, `rcv_wup`, `ICSK_ACK_NOMEM` | `tcp_select_window`, `__tcp_select_window`, `tcp_leo_rwnd_clamp` | `TcpWindow` |
| sysctls | `redhat_kernel/sysctl_net_ipv4.c`, `ipv4.h`, `tcp_ipv4.c` | one value per knob, shared by all sockets | a bounded write per knob, `tcp_sk_init` | `LeoSysctl` |
| monitor | `bin/redhat_monitor/redhat_auto_monitor.py` | mode, locked period, phase anchor, histories, deadlines, ping processes | learning, activation, resynchronisation, guard, sleep, validation, relearning | `AutoMonitor` (control loop) |
| experiment automation | `bin/run_auto_exp.sh` | processes and process groups, health flag, attempt, kernel mode | a run with a monitor, a watcher, retries and traps | `AutoExperiment` |
| TCP sender | `redhat_kernel/tcp_output.c`, `tcp_ipv4.c` | write queue and retransmit queue of buffers, packet counters, retransmit hint, windows, timer | `tcp_write_xmit`, `tso_fragment`, `tcp_mtu_probe`, `tcp_retransmit_skb`, `tcp_send_loss_probe`, `tcp_send_probe0`, `tcp_send_fin`, `tcp_connect`, ... | `TcpSkb`, `TcpSender`, `TcpConnection`, `SendStream` |
| small queues, deferred work, delayed ACKs | `redhat_kernel/tcp_output.c`, `tcp.h`, `tcp_ipv4.c` | `sk_tsq_flags`, `sk_wmem_alloc`, `sk_refcnt`, the tasklet's list, timers, backlog | `tcp_wfree`, `tcp_tasklet_func`, `tcp_pace_kick`, `tcp_release_cb`, `tcp_send_delayed_ack`, `__tcp_send_ack` | `SocketDefer` |
| headers and segment sizes | `redhat_kernel/tcp_output.c`, `tcp_ipv4.c` | header length, MSS, path MTU, search range, first window | `tcp_syn_options`, `tcp_synack_options`, `tcp_established_options`, `tcp_options_write`, `tcp_sync_mss`, `tcp_current_mss`, `tcp_select_initial_window` | `TcpHeader` |
| ping receivers | `bin/app_layer_rtt/*.c` | a socket, a packet partly read, a child process | echo loops over TCP and UDP | `PingReceiver` |
| RTT monitor | `bin/monitor_ping.c`, `bin/app_layer_rtt/seokhwan/monitor_ping.c` | time of the last line | gap detection | `RttMonitor` |
| IPv4 receive path | `redhat_kernel/tcp_ipv4.c` | hash tables, requests, TIME_WAIT | `tcp_v4_rcv`, `tcp_v4_err`, resets | - |
| evaluation of logs | `bin/redhat_monitor/redhat_auto_evaluate.py` | none | a report over a finished log | - |
| other scripts | `bin/run_set.sh`, `run_experiment.sh`, `start_monitors.sh`, ... | processes, files | mostly linear command sequences | - |
| plots | `graph/*.py` | none | figures | - |

Only `tcp_redhat.c`, the window selection and the sysctls differ from the Linux
kernel they were taken from; the rest of `redhat_kernel/` is Linux TCP. It is
modelled too, because the controller's premise is about it: a sender whose peer
takes window back, closes it or loses the update must neither lose data nor stop.

How they interact. `tcp_select_window` calls the controller under the socket lock
with the window ordinary TCP would advertise, and everything the controller knows
of the outside it reads in that call: two clocks, sequence numbers, and about
thirty sysctls that any process may rewrite at any time. The monitor writes them,
one `sysctl` process per knob; the automation script writes two of them, reads
them back once, and starts and kills the monitor. Only the sysctls connect user
space to the kernel, and only process groups and a flag file connect the scripts
to their children. The window that `tcp_select_window` returns goes into the
header of the segment; the peer's sender takes it from the acknowledgement. The
sender's functions run under the socket lock, called by the application, by
acknowledgements and by timers; transmit completions, the tasklet and timers that
find the socket owned leave flags for whoever releases it.

What is hard here, and what makes each part correct:

* *Kernel.* The controller is called at irregular times, sometimes not at all
  during an outage, while the settings and the wall clock change under it.
  Correct means: a reduction never takes back window that the peer was offered and
  may already have used, the window is never closed by the controller, a frozen
  cycle is carried out with the parameters it was frozen with and then released,
  no handover is prepared twice, and no unsigned subtraction underflows.
* *Window selection.* Three policies share one exit. Correct means: outside the
  dynamic controller an offered right edge is kept, and what is left after scaling
  and the 16-bit field is still the floor.
* *Monitor.* One handler makes several writes, each of which can fail; sessions
  must end although probes die; a sleeping monitor has no input to wake it.
  Correct means: the kernel agrees with the mode whenever the loop is at its head,
  and a prediction in use is validated again.
* *Sender.* Buffers of several segments are cut, trimmed, joined and sent again
  while the MSS, the window and the scoreboard change. Correct means: the two
  queues hold every byte once, the packet counters are what the buffers add up to,
  nothing is sent beyond the window, a timer is armed whenever something waits,
  and everything written is acknowledged in the end, whatever the network does.
* *Deferred work.* Owner, softirqs and lock-free completions race. Correct means:
  references and memory balance, no wakeup is lost, data and acknowledgements
  go out.
* *Headers.* Sizes are computed in one place and used in another, later. Correct
  means: options fit and are written as reserved, a full segment fits the path and
  the peer, and always carries data.
* *Ping programs.* Correct means: echoes are intact whatever recv and send return,
  and the child process ends with its parent.
* *Automation.* Four processes race at the end of a run. Correct means: a NORMAL
  run is measured with the controller off, an aborted run is not counted, and
  there is never a second monitor.

`PROJECT.json` lists the hazards one by one with the line each is at.

## 2. Modules

* `LeoDynamic` - the functions of `tcp_redhat.c` as operators on the controller
  state, under the code's names without the prefix (`Ewma`, `CalcPre`,
  `FreezeParameters`, `MaybeFreeze`, `PhaseOf`, `PreTarget`, `SafeTarget`,
  `RecoveryTarget`, ...). `DynamicTarget` is `tcp_leo_dynamic_target`: the steps of
  the function in their order, returning the new state and the window.
  Integers keep their width: u32 and u64 arithmetic is modulo `U32Range` and
  `U64Range`, which are parameters so that TLC reaches the wrap-around.
* `LeoSysctl` - names, bounds and boot values of the knobs.
* `RedhatController` - one socket. `Control` is a call that the port filter and
  the enables let through, `PassThrough` one they do not; `Tick`, `SetClock`,
  `Receive`, `WriteSysctl` and `WritePort` are what happens between calls. Two
  history variables, `edge` (the right edge offered when a reduction began) and
  `boundary` (the handover instant predicted at the freeze), let the properties
  speak of the past; the code has no such fields.
* `RedhatProofs` (controller and window), `TcpOutputProofs` and `TcpSenderProofs`
  (sender and connection), `AutoMonitorProofs`, `AutoExperimentProofs`,
  `SocketDeferProofs`, `TcpHeaderProofs`, `PingProofs` - the proofs (section 5).
* `TcpWindow` - extends `RedhatController` by the socket's window state; one
  `Send...` action for each policy `tcp_select_window` can end in, and the
  receive buffer that ordinary TCP computes its window from.
* `AutoMonitor` - `main()` of the monitor. One action per branch of the loop
  (`Learn`, `Activate`, `AnalyseActive`, `BetweenAnalyses`, `StartValidation`);
  the writes a handler makes are queued in `todo` and executed one by one by
  `Write`, any of which may fail (`WriteFails` ends the monitor, as the uncaught
  exception does). `Start` after an exit is a restart.
* `AutoExperiment` - the script as a sequence of places (`pc`), interleaved with
  the monitor (seen from outside), the watcher and the experiment.
* `TcpSkb` - a socket buffer as its sequence range, segment count and scoreboard
  marks, and what is done to one: cutting, trimming, joining, counting.
* `TcpSender` - the socket `sk` with its two queues. The output functions are
  operators from socket to socket under the code's names (`WriteXmit`,
  `MtuProbe`, `RetransmitSkb`, `XmitRetransmitQueue`, `SendLossProbe`,
  `SendProbe0`, ...); an action is one call under the socket lock. What decides how
  far a call gets besides the socket itself (pacing, small queues, memory, the
  device) is the environment `env` of the call: so many buffers pass, then one
  attempt fails before, in the middle of or after cutting the buffer, and buffers
  can or cannot be joined (`env.join`: a clone, a sysctl or `tcp_skb_can_collapse`
  may forbid it). The history variable `untrimmed` says that `tcp_trim_head` has
  failed for memory at an ACK; the code has no such field.
  `tcp_input.c` and `tcp_timer.c` are not in the repository; what they do to
  these fields is modelled from how `tcp_output.c` relies on it and marked external.
* `SendStream` - what a sender promises its application: a stream that is accepted,
  delivered in order and acknowledged.
* `TcpConnection` - `TcpSender` with a network that loses, repeats and reorders
  segments and acknowledgements and a peer whose window closes and opens. It
  implements `SendStream` with `accepted <- sk.wseq`, `delivered <- RcvNxt(got)`,
  `acked <- sk.una`.
* `SocketDefer` - who may run the output code. The lock is free, spun or owned; the
  sending loop is cut at every access that a transmit completion races with;
  counters of references and of socket memory are the code's.
* `TcpHeader` - options of a SYN, a SYN-ACK and other segments as a set with the
  bytes reserved and written, and the sizes derived from path, peer and options.
  Sizes are the real ones.
* `PingReceiver`, `RttMonitor` - the user-space C programs, one system call a step.
* `MCRedhatCycle`, `MCTcpWindow`, `MCAutoMonitor`, `MCSender`, `MCConnection`,
  `MCPing` - values for TLC; `MCSender` also bounds how often things go wrong, and
  `MCPing` runs one of the programs in each behaviour.

Definitions under a comment that begins with *Slip* are plausible mistakes in the
code. No specification uses them; they serve to show that a property notices the
mistake when the definition after it is replaced by it.

### Abstractions

* One call of the controller reads one version of the settings. In the kernel
  each `READ_ONCE` is separate, so a write in the middle of a call can mix two
  versions; writes between any two calls are modelled.
* The RTT estimate, `rcv_mss` and, in `RedhatController`, the ordinary window are
  inputs of a call. `TcpWindow` computes the ordinary window from the buffer;
  `rcv_ssthresh`, which memory pressure adjusts, remains an input.
* The unit conversions of the code (`UsecPerMsec`, `BytesPerMbps`, ...) are
  parameters and are 1 in the runs. The proofs do not depend on their values.
* Ping replies, clustering and period estimation are abstracted to what the loop
  receives from them: whether there is a fit, its period and quality, whether a
  new event lies on the lattice and with what error, which targets are worth
  keeping, and the guard. A fit or an event needs `MinTargets` probes running now
  or within the analysis window. Given a fit, `choose_initial_anchor` always
  returns an anchor (every event is on its own lattice), so activation does not
  fail.
* The monitor's deadlines are kept as the time left, and its wall clock does not
  jump. Its phase anchor is kept modulo two periods, as only the offset is used;
  conversions to milliseconds round as Python's `round` does.
* Payload is its sequence range, and an acknowledgement its number and window. A
  sequence number does not wrap in `TcpSender`: all its comparisons are of numbers
  within one window of each other. Urgent data, repair mode, ECN, time stamps and
  the statistics are left out of it; the congestion window is an input. The
  connection has SACK: the Reno count and `lost_cnt_hint`, which only
  `tcp_input.c` reads, are left out of `tcp_adjust_pcount`.
* `TcpConnection` does not let trims fail; what follows from a failed trim is
  the subject of `sender`.
* Acknowledgement delays in `SocketDefer` count down in units of time; an armed
  timer holds a reference as the kernel's timers do. A pure acknowledgement is
  charged two units of `sk_wmem_alloc` (lines 1531-1532), returned by a
  destructor that wakes nobody; they are left out, and so is the early return of
  `tcp_event_ack_sent` for the special ACKs of DCTCP (lines 194-195).
* Keys, MPTCP and BPF programs are known to `TcpHeader` by the bytes they ask for.
* `AutoExperiment` leaves out result directories and artifacts. `sudo` is taken to
  keep its credentials, so that the kill of `stop_monitor`, whose failure the
  script ignores, reaches the monitor.

## 3. Runs

| run | module, bounds | what it shows |
|---|---|---|
| `cycle` | `MCRedhatCycle`; period 10, two normal windows, sequence numbers that wrap at 64, 22 units of time = two handovers | with fixed settings a snapshot does not outlive its handover (`NoStaleSnapshot`), control ends by the boundary (`ControlEndsByBoundary`), no handover is prepared twice (`CyclesAdvance`), decrease and ramp are monotone (`MonotoneWithinCycle`) |
| `reconfig` | the same; one cycle, offset, period and port filter rewritten and the clock set at any point | `TypeOK`, `SafeShrink`, `HeldUntilRamp` hold however the settings change |
| `window` | `MCTcpWindow`; buffer of 8, scaling unit 2, odd segment sizes, a narrow wire field, both controllers switched at any time | ordinary TCP and the fixed controller keep an offered edge when shrinking is not permitted (`OfferKept`); no controlled window is below the floor (`FloorKept`, a part of `WireFloor`), which survives scaling and truncation (`WireFloor`) |
| `monitor` | `MCAutoMonitor`; two targets, periods of 1.5 and 2.5 ms so that rounding matters, windows of two | `KernelFollows`, `PeriodFixedWhileOn`, `SessionsEnd`, `ValidatedAgain` through failing writes and pings, crashes and restarts |
| `experiment` | `AutoExperiment`; two pairs, two attempts, random order, late pid files, interrupts | `NormalStaysOff`, `AbortedNotCounted`, `OneMonitor`, `Terminates`; a monitor is left behind only by an interrupt before its pid file was read (`OrphanOnlyBeforePidFile`) |
| `sender` | `MCSender`; 5 bytes in segments of 3 or 2, buffers of up to two segments, windows 0, 3 and 5, Fast Open, corking, joins that may be refused, two troubles, one of which may be a failed trim | `QueuesCover`, `CountersMatch`, `CountersCover`, `HintSkipsNothing`, `NoBug`, `NeverStranded`, `SentInWindow` |
| `connection` | `MCConnection`; 3 bytes and a FIN in segments of 2, three troubles | `ImplementsStream` (the refinement of `SendStream`) and `AllAcknowledged` |
| `defer` | `SocketDefer`; four events, two buffers fit below, two allocations fail, which takes the back-off to `RtoMax` | `RefsBalanced`, `MemoryKept`, `WakeupComing`, `NeverPostponed`, `EventuallySent`, `EventuallyAcked` |
| `header` | `TcpHeader`; every combination of options, keys and requests, two paths and peers, of which one is tiny, a BPF option larger than a SACK block | `HeaderFits`, `MssFloor`, `SegmentFits` |
| `ping` | `MCPing`; three packets of two parts | `EchoesIntact`, `NoPopOrphan`, `StopEnds`, `ReconfigIsGap` |
| `window_reduce` | fixed controller with shrinking allowed | **violated**: the fixed controller reduces by twice the bytes received |
| `window_other_port` | dynamic controller enabled for another port | **violated**: a socket outside the filter has its window shrunk |

A type invariant is the first conjunct of an invariant of its module: `SocketTypeOK`
of `WireFloor`, `MonitorTypeOK` of `KernelFollows`, `ScriptTypeOK` of
`NormalStaysOff`, `SenderTypeOK` of `CountersMatch` and `CountersCover`, `DeferTypeOK` of
`RefsBalanced`, `HeaderTypeOK` of `HeaderFits`.

The violated properties state comments of the code; `PROJECT.json` quotes them
under `findings`.

Why the bounds are enough. The controller looks back one cycle only (the
snapshot, the ramp), so two boundaries with everything that can happen between
them cover a cycle, its release and the next freeze. The scaled settings were
chosen so that every phase lasts at least one unit, PRE begins at different
instants depending on the measured rate, there is a NORMAL gap between OUTAGE and
the boundary, and `rcv_nxt` wraps in the middle. Buffers and segments are small
and odd so that scaling rounds and the buffer fills. In the monitor every deadline
is a few ticks and differs from the others; two fits lock a period and two
mismatches lose it. The script's two pairs give each mode as the successor of
each other one. In `sender` a write is larger than a segment, so buffers of several
segments exist and can be cut, joined and probed with; a second, smaller MSS makes
their counts stale; a trouble is a loss, a timeout, a smaller window, a failure in
a call or a smaller MTU, and two of them meet in every order. In `connection` three
troubles suffice to lose a segment, close the window and lose the update that
opens it. In `defer` one more buffer is written than fits below, so the loop stops
and depends on its wakeup, and enough events are left for an arrival and a close to
race with it. `header` has one path and one peer below the floors and one above.
Kernel runs stop at their bounds, connections end, and the script and the ping
programs end by design, hence `CHECK_DEADLOCK FALSE` there.

Three failures are in the models and are named in the properties they end.

* `tcp_trim_head` may fail for memory at an ACK inside a buffer of several
  segments, which then begins below `snd_una` (`untrimmed`). `__tcp_retransmit_skb`
  makes up for the trim at line 3478, but changes the buffer's segment count without
  `tcp_adjust_pcount`, so `packets_out` (and `lost_out`, `retrans_out` with it)
  counts more than there is from then on; a timer may then be missing or run for
  nothing; and if a loss probe has cut the buffer first, the part below `snd_una`
  reaches the `WARN_ON_ONCE` of line 3475. With `AssertionsHold` in place of `NoBug`
  in `MCSender.cfg` TLC shows it in seven steps: the handshake, a write of two
  segments in one buffer, an ACK inside it whose trim fails, a loss probe that cuts
  the buffer (line 3108) and a timeout that starts at its first part.
  `CountersMatch`, `NoBug` and `NeverStranded` are about sockets to which this
  has not happened. After it, `sender` still checks that no counter counts too little
  and none wraps (`CountersCover`), that the queues hold every byte above `snd_una`
  once (`QueuesCover`), that the hint is valid (`HintSkipsNothing`), and that sending
  stays in the window (`SentInWindow`).
* The child of `tcp_ping_receiver_pop.c` may not have called `setpgid` when its
  parent kills its group, in spite of the sleep before. Both kills then miss it and
  `waitpid` waits for a ping that nothing ends. `StopEnds` names that case
  (`tcp.late`) and no other.
* A BPF option may come into a segment whose size was computed without it
  (section 5, Headers). `SegmentFits` says by how much the segment is then too long.

The three properties `NoStaleSnapshot`, `ControlEndsByBoundary` and
`CyclesAdvance` hold only while period, offset and wall clock are left alone:
after a change the old boundary is no longer one. The `reconfig` run therefore
does not state them.

## 4. Fairness

* Controller and window: none, all their properties are safety properties. A
  socket that sends nothing calls nothing.
* Connection: an armed timer fires, what the network does not lose arrives, the
  peer's application reads in the end. Losses and premature timeouts are bounded
  by the troubles, which is the usual reading of a network that does not lose
  everything for ever. Nothing is assumed of the sender beyond its timers, so that
  what it forgets to arm is found.
* Deferred work: whoever holds the lock goes on, devices complete, time passes (all
  weak), and the tasklet and the timers that wait for the lock get it some time
  (strong: the lock is taken and released in between, and softirqs spin for it).
  Nothing is assumed of the application, of arriving segments or of the
  retransmission timer.
* Ping receivers: the processes run, and the server sends again or closes in the
  end, without which a receiver blocked in `recv` cannot notice a signal.
* Monitor: weak fairness of the loop, of `Write` and of the clock. `select` returns
  at least every 250 ms, a `sysctl` process ends, nothing else in the loop
  blocks. Nothing is assumed of pings, fits or events.
* Script: weak fairness of the script's own steps (every wait but one has a
  timeout), of a launched monitor coming up or failing, and of the experiment
  ending, which has a fixed duration. Nothing is assumed of the watcher, or of the
  monitor activating. The one wait without a timeout, for the launcher of a
  monitor whose pid file came late, is excepted in `Terminates`.

## 5. Proofs

Every theorem holds for all values of the constants that the named assumptions
allow. Each module of proofs has one inductive invariant, shown to hold initially
and to be kept by every action, and the theorems follow from it.

| module | theorem | states |
|---|---|---|
| `RedhatProofs` | `Invariance`, `TypeCorrect` | `Spec => []IInv`, `Spec => []TypeOK` |
| | `ShrinkIsSafe`, `FloorIsKept`, `CycleIsHeld` | `SafeShrink`, `FloorKept`, `HeldUntilRamp` |
| | `SnapshotNeverStale`, `ControlEndsInTime`, `CyclesOnlyAdvance` | `NoStaleSnapshot`, `ControlEndsByBoundary`, `CyclesAdvance`, if `Steady` |
| | `WindowIsMonotone` | `MonotoneWithinCycle`, if `Steady` and fewer than 2^32 bytes arrive |
| | `FloorOnTheWire`, `OfferIsKept` | `WireFloor`, `OfferKept` |
| `TcpSenderProofs` | `SenderInvariance` | `SenderSpec => []SenderSound`: `SenderInv(sk)` until a trim has failed |
| | `CountersAlwaysMatch`, `SenderNeverBugs`, `TimerAlwaysArmed` | `CountersMatch`, `NoBug`, `NeverStranded` |
| | `QueuesAlwaysCover`, `HintNeverSkips` | `QueuesCover`, `HintSkipsNothing`, until a trim has failed |
| | `SentStaysInWindow` | `SentInWindow`, if no trim fails |
| | `ConnectionIsStream` | `ConnSpec => ImplementsStream`, the refinement of `SendStream` |
| `AutoMonitorProofs` | `KernelAlwaysFollows`, `PeriodNeverRewritten` | `KernelFollows`, `PeriodFixedWhileOn` |
| `AutoExperimentProofs` | `NormalMeasuredOff`, `AbortedRunsRepeated`, `MonitorsAlternate`, `OrphansBeforePidFile` | `NormalStaysOff`, `AbortedNotCounted`, `OneMonitor`, `OrphanOnlyBeforePidFile` |
| `SocketDeferProofs` | `ReferencesBalance`, `MemoryIsKept`, `WakeupNeverLost`, `AcksNeverPostponed` | `RefsBalanced`, `MemoryKept`, `WakeupComing`, `NeverPostponed` |
| `TcpHeaderProofs` | `HeaderAlwaysFits`, `MssKeepsFloor` | `HeaderFits`, `MssFloor` |
| | `FullSegmentFits` | `SegmentFits`, whatever bytes a BPF program asks for |
| `PingProofs` | `EchoesAlwaysIntact`, `ChildNeverLeft`, `EveryGapReported` | `EchoesIntact`, `NoPopOrphan`, `ReconfigIsGap` |

**Controller.** The assumptions are ranges of the inputs, and conversion factors and
integer ranges that are positive. Nothing is assumed of the order of minimum and
maximum knobs, of the period, or of when anything is written. `SafeShrink` is not
inductive. A target in PRE, DRAIN or OUTAGE is computed from the snapshot and from
`rcv_nxt - frozen_pre_start_rcv_nxt` modulo 2^32, so its right edge is safe only if
that difference is not more than what was really received since the snapshot. The
invariant `IInv` adds that (`EdgeAnchored`), that the snapshot is not below the
floor (`AboveFloor`, otherwise a subtraction underflows), that measurements lie in
the past (`MeasuredPast`, needed for the rate) and that a frozen cycle was measured
(`FrozenKnown`). The wrap-around case works out because the modular difference can
only be smaller than the true one; `ReceivedGrows` is that fact. `ControlledCall`
shows in one place what a whole call does to a state that satisfies these, from one
lemma per function at the head of the module; the other actions are short.

The theorems about cycles assume `Steady`: `ClockSets` is empty and no write
of `SysctlWrites` is to the period or the offset, as in the run `cycle` (all other
settings may be rewritten). Without it they are false, since a boundary predicted
with the old settings is no longer one. `CycleInv` ties `frozen_period_id` and the
ghost `boundary` to the same instant, so that "the id has moved on" and "the clock
has passed the boundary" are the same fact; the arithmetic is that division by the
period is monotone (`DivMono`) and that a period's position and number determine
the time.

`MonotoneWithinCycle` compares two calls, so `WindowInv` describes the last one: its
target is what its phase asks for, computed from the snapshot that is still in the
socket, at the instant and the sequence number it read (`LastCall`). A second call
with the same `frozen_period_id` then has the same snapshot (`SameSnapshot`): to
freeze again the id must have moved on, and the reference point is retaken only on
entry to PRE, which does not follow DRAIN or OUTAGE (`PhasesInOrder`). What remains
is one inequality for each phase and one for the change from PRE to DRAIN
(`PreFalls`, `SafeFalls`, `RampRises`). The theorem asks for fewer than 2^32 bytes on
the connection because the bytes since the snapshot are a `u32` difference: an idle
snapshot older than 2^32 bytes would make the window rise again.

**Window.** `ScaleAssumption`: the window scale divides 2^32 (it is a power of two)
and a socket has a positive `rcv_mss`, as `tcp_initialize_rcv_mss` leaves it.
`TWInv` adds to the controller's invariant that the frozen floor is a multiple of
the scaling unit and that the last header sent is the one of the last call:
the floor survives the shift only because `leo_min_rwnd` rounds it up, and it must
still be rounded when it was frozen under other settings.

**Sender.** `SenderAssumption` bounds nothing but types: segment sizes of at least
two, a TSO limit of at least one segment, windows and write sizes that are naturals.
Any trim may fail: `SenderSound` is `~untrimmed => SenderInv(sk)`, kept by every step
because `untrimmed` never becomes false again (`UntrimmedStays`). A weaker invariant
for what comes after a failed trim is not proved, since there the warning of
section 3 is reachable and the counters leak. The five invariants are proved together, since
none is inductive alone: `tcp_adjust_pcount` keeps the counters right only while the
hint and the queue agree on which buffer is before which, the assertions hold only
because the counters are exact, and which timer is armed depends on whether
`packets_out` is zero just when the retransmit queue is empty. `SenderInv` says that

* the retransmit queue is a chain of buffers over `snd_una .. snd_nxt` and the write
  queue one over `snd_nxt .. write_seq`, with a FIN only on the last buffer of all
  (`SentPart`, `UnsentPart`). A buffer in flight is not acknowledged as a whole, and
  one of several segments not even in part (`RtxOK`): that is what a successful trim
  gives, and what the retransmission warns about;
* each counter is the sum of what the buffers count for (`Counted`, on `Sums`);
* no lost buffer before the hint waits for its retransmission (`HintOK`);
* a timer for a loss runs while something is in flight, none does when nothing is,
  and the window is probed when only unsent data is left (`Armed`);
* the SYN is acknowledged when the handshake is over and not before (`Phase`);
* a segment of the last call that starts beyond `snd_una` ends within the window, but
  for a FIN (`TxIn`).

`TcpOutputProofs` shows of every function from `tcp_fragment` to `tcp_write_xmit`
what it does to a socket that satisfies the first three; each has a predicate that
says what it may change (`RtxStep`, `Wrote`, ...), so that a caller needs its lemma
and not its text. `TcpSenderProofs` does the same for the timers, the scoreboard and
the acknowledgements, has one lemma for each action, and derives the theorems. A loop
of the code is a recursive function of the turns taken. Nothing in the library says
that such a function exists for a body that is an operator, so `LoopExists` builds it
from the least-element principle, given that the turns stay in a set; `Upward` carries
a property through it. Sums over a queue are handled in the same way.

`SentInWindow` compares `snd_nxt` before and after a call, so each action is also shown
to send nothing new beyond the window, or a FIN alone (`NewIn`). Where the output loop
cuts the buffer at the head of the write queue, the length is at most what is left of
the window (`tcp_mss_split_point`), and where it does not, the buffer is no longer
than that or has passed `tcp_snd_wnd_test`; both are `HeadFits`, which the transmission turns into the bound
on `snd_nxt`. A retransmission cuts at the window as well, and only a buffer that
starts at `snd_una` may be sent when the window is shut, as a probe.

**Connection.** `ConnInv` adds to `SenderInv` that every segment on the network and
every byte at the peer lies below `write_seq`, and that an acknowledgement under way
and `snd_una` are not beyond what the peer has in order. That keeps an
acknowledgement from running ahead of the data, however old and however often
repeated it is. A call of the sender then is an `Accept` or an `Acknowledge` of
`SendStream`, an arrival is a `Deliver`, and everything else stutters. The peer has a
largest window (`ConnAssumption`); trims do not fail in `TcpConnection`. That a FIN
or a SYN takes a number of the stream like a byte does is part of the mapping.

**Monitor.** `MonitorAssumption` is what `parse_args` and `main` normalise: at most
as many targets are required as there are, and every window holds at least one
sample. `KernelFollows` speaks of the loop's head only; in between, writes are
pending. `MonInv` therefore says what the kernel will be once the pending writes are
made (`Follow`): each of them sets a different knob, so their order does not matter
for that. It matters for `PeriodFixedWhileOn`: `PeriodFirst` says that a pending
write of the period is the next one and finds the kernel off. That the
median of a nonempty history is an element or the middle of two, whatever the
history, is `RankedIn`, from the least-element principle for naturals (`LeastNat`).

**Script.** The invariant follows the places of the script: where an attempt is
under way, which flags have been reset, which monitor may be alive and whether its
process group is known there.

**Deferred work.** `DeferAssumption` asks for buffers of more than three units of
memory; in the kernel a buffer's truesize is hundreds of bytes. (With smaller ones
the single units that the socket, a completion and the list hold could pass for a
buffer below, and a completion would leave the wakeup to one that never comes.) Retries back off up to `RtoMax`. References are
counted by a sum of cardinalities, and each action moves one element from one set to
another, or takes or drops one reference. `WakeupNeverLost` needs one clause per
place of the sending loop: between setting the throttled flag and looking at the
memory again a completion may have taken the flag, and then the tasklet is on its
list.

**Headers.** For each of the three builders of options the bytes written are those
reserved and a multiple of four (`Exact`), through every combination of options. The
sizes derived from path, peer and probes keep their floors by monotonicity of the
two conversions between MTU and MSS. `SegmentFits` has an allowance for one case: a
duplicate SACK is reported once, so the next segment of the same transmission has
eight bytes more room; a BPF option that did not fit before and does fit now is larger
than what `tcp_current_mss` has counted, by what it exceeds those eight bytes. An
option of at most eight bytes is no such case and the allowance is zero. In the
invariant (`CutOK`) the size is within the bounds without an allowance as long as the
duplicate SACK is still to be sent, and the next segment can lose no more than its
block. The allowance is exact: with a smaller one TLC finds a counterexample.

**Ping programs.** `EchoOK` says how many bytes are done with and where in its packet
the receiver is; a packet is decided on as a whole, so everything up to its end is
then either echoed or passed over. `ChildOK` says that the parent has a pid exactly
while there is a child to wait for.

Only model-checked:

* The liveness properties (`SessionsEnd`, `ValidatedAgain`, `Terminates`,
  `AllAcknowledged`, `EventuallySent`, `EventuallyAcked`, `StopEnds`): fairness and
  `ENABLED` are beyond the prover.
* What holds of a socket after a trim has failed: `CountersCover`, and `QueuesCover`,
  `HintSkipsNothing` and `SentInWindow` there.

## 6. Not modelled

* Debug output, statistics, tracing; MPTCP and memory pressure in
  `__tcp_select_window`.
* Urgent data, repair mode, ECN, time stamps, checksums and the chronograph of
  `tcp_output.c`: data that no property here tells apart, or hooks that change no
  state of the sender.
* The receive path of `tcp_ipv4.c` (lookup, requests, TIME_WAIT, resets, MD5 and AO
  keys, /proc output). It hands segments to code that is not in the repository, and
  nothing of it was changed for the controller.
* The sysctls that are not `tcp_leo_*`, except as constants of the models that read
  them.
* The estimators, target discovery and log format of the monitor; the offline
  evaluation and the plots; the measurement scripts.

`tcp_leo_dynamic_init` has no caller: a socket's state is zero because its memory
is.

## 7. Plan

In this order:

1. The monitor's algorithms as operators checked against reference definitions:
   gap detection (`add_reply`), clustering of events across targets, `score_period`
   and `estimate_period`, `choose_active_targets`; events with times in
   `AutoMonitor`, so that an event counted twice or left over from before a sleep
   becomes visible.
2. The lookup and the references of `tcp_v4_rcv`.
3. The process handling of `run_set.sh`, `start_monitors.sh` and
   `stop_monitors.sh`; the matching of predictions and events in
   `redhat_auto_evaluate.py`.
