# MISO2 in TLA+

MISO2 is firmware in Zig for the NXP FRDM-MCXE247 board: CMSIS-RTX5 threads, the
lwIP stack on the Ethernet controller, DHCP, and a clock set over SNTP.  lwIP, RTX5
and the vendor's drivers are git submodules and not part of the repository; they
appear here as far as the code in `src/` uses them and are marked external.  Paths
below are relative to the repository.

## 1. Inventory

| Component | Source | State | Operations | Hard behaviour |
|---|---|---|---|---|
| Main thread | `src/main.zig` | `ntpSyncCount`, `mainState`, the NTP timer | start-up, event loop, `process_ntp_trigger` | events coalesce into one wake-up and are handled in a fixed order; the one-shot timer must be re-armed on every path; blocking calls inside a handler |
| Thread flags, timers | `external/cmsis-rtx/src/{thread,timer,core}.zig` | flags of a thread, timer state | set, wait with time-out, start, stop, expiry | hand-over to a blocked waiter, errors of stop |
| Network interface | `board/frdmmcxe247/src/ethernet.zig` | `dhcp_bound`, speed, duplex | link, status and extended callback | which callback sees which state; link flaps that keep the address |
| NTP client, connection layer | `src/{ntp,connection,simpleConnection}.zig` | socket, peer, packet | `getTimeFromServer` and the calls below it | lost, late, duplicated, reordered replies; cleanup on five error paths, and a cleanup that can fail itself; no time-out |
| Clock | `board/frdmmcxe247/src/rtc.zig` | RTC counter, a copy of it | start, conversions, `set_timestamp`, second interrupt | casts at both ends of the 32-bit era; stop, read, write and restart under an interrupt |
| Ethernet receive | `board/.../ethernet/{ethernetif,enet_ethernetif_kinetis}.c` | ring, buffer pool, flags of the receive task | allocate, free, interrupt, drain | conservation of buffers; a drain that ends early; interrupts before the interface is listed |
| Ethernet transmit | same | ring, the buffer for chains, the transmit flag | `linkoutput`, `enet_send_frame`, interrupt | waiting with the core lock held; two callers, one without the lock; one event for many frames |
| Waiting for link | `ethernetif.c` | a queue, an extended callback, the link flag | probe, `wait_linkup` | a blocking put with the core lock held; a callback that outlives its queue; a link that comes between two looks |
| lwIP port | `external/lwip/src/sys_arch.zig` | the core lock; wrappers of RTX objects | lock, unlock, check | a lock that is not recursive and whose errors are not looked at; a check that is blind |
| Buttons | `board/frdmmcxe247/src/button.zig`, `board.zig` | `state`, `isr_state`, timer | pin interrupt, timer callback | an edge between reading the pin and arming the timer; the shared queue of the timer thread |
| UART and stdio | `board/frdmmcxe247/src/{uart,stdio}.zig` | event flags, mutex, the driver's transfer | `write`, completion interrupt | completion before the wait, or of an earlier transfer |
| Board start-up | `board/.../{pin_mux,clock_config,peripherals,system_MCXE247}.c`, `board.zig` | pins, clock gates, clock sources, interrupts, the PHY's reset | `SystemInit` to `kernel.start`, each function of `pin_mux.c` and `clock_config.c` | the core's own oscillator set up anew; a register before its clock; functions that undo each other |
| Job queue | `external/cmsis-rtx/src/{jobQueue,messageQueue}.zig` | bounded queue, worker | send, run | one queue is initialised and nothing sends to it |
| Multicast filter | `ethernetif_mmac.c` | reference counts | join, leave | compiled out: neither IGMP nor IPv6 is enabled in `lwipopts.h` |
| Kernel wrappers, LEDs, build | the rest | - | - | one call each |

Threads by priority: the RTX timer thread (40) runs timer callbacks; lwIP's tcpip
thread (32) runs protocol timers and the link probe; the driver's receive task (32) runs
protocol code too, because the interface is added with `ethernet_input`
(`ethernet.zig:184-194`, called at `ethernetif.c:218`), not with the function that hands
frames to the tcpip thread; the main thread (24) runs the event loop.  RTX switches
between the two threads of priority 32 round-robin.  The callbacks talk to the
main thread through its thread flags only: `ntp_trigger` (timer), `dhcp_up_down`
(whichever network thread changed the address), `tcpip_init_done` (tcpip thread), and
the main thread sets `ntp_aquired` on itself.

## 2. Modules

    ThreadFlags <- Netif <- MainTask <- MainTaskProps <- MainTaskProofs
                                                      <- MCMainTask (TLC)
    NtpClient <- MCNtpClient (TLC), NtpClientProofs
    EthRx <- EthRxProofs
    TxChannel <= EthTx <- EthTxProofs
    LinkPromise <= LinkWait <- LinkWaitProofs
    SyncWrite <= Uart, Rtc <- Devices <- DeviceProofs
    Button <- ButtonProofs
    PinMux, ClockTree <- Boot <- BoardProofs

`A <- B`: B extends A.  `A <= B`: A is an abstract specification and B has the
refinement mapping under which it implements it.

- **ThreadFlags** - the flags of one thread.  `flags` are set and not consumed,
  `waitMask` is what a blocked wait waits for, `got` what the last wait returned
  and its caller has not handled yet.  RTX gives a flag straight to a blocked waiter,
  so flags coalesce only while the thread is busy.  The semantics are RTX5's as
  `thread.zig` wraps them: a time-out is a `null`, not an error.
- **Netif** - `dhcp_bound` with the three callbacks of `ethernet.zig`, and an external
  DHCP client reduced to `off / selecting / rebooting / bound`, with link flaps,
  leases, renewals and losses.  `SetAddr` is lwIP's `netif_set_addr`: it calls the
  callbacks only for a real change, status before extended.  `chain[t]` says where
  thread `t` of the two network threads is in these callbacks: each reads (the client's
  state, or `dhcp_bound`) and then writes (`dhcp_bound`, or the main thread's flag), and the
  other thread may run before and after each of the four.  A lease is bound in the
  receive task, which looks at no link state (the link is only probed every 1.5 s);
  link probes and time-outs belong to the tcpip thread; an address is lost in either, in
  the tcpip thread only if leases expire (`LeasesExpire`).  Assumed of lwIP: it changes the
  state of the client together with the address.  `overlap` is a history variable.
- **MainTask** - `runner` of `main.zig` from start-up on.  `pc` is the place in
  `runner`; each handler of the event loop is an action, in the code's order
  (`NextEvent` says that what the code tests earlier is not pending).  The other
  threads may run between any two actions, which is what preemption by higher
  priorities allows.  The main thread may also run between two callbacks of `Netif`,
  which priorities exclude: the model has more behaviours than the board.  An expiry and its callback are one action because the timer
  thread has the highest priority.  The exchange with the server is one step to
  one of its outcomes; `timer` is the period the one-shot timer was started with, 0 when it is
  not running, and the passage of time is left out: a running timer may expire at any
  moment.  `last` is a history variable.
- **MainTaskProps** - the properties.
- **NtpClient** - one `getTimeFromServer` after another, one action per call that can
  fail or block, with lwIP's sockets (`open`, `bound`, `remote`, `rx`) and a network
  that never forgets a datagram (`requests`, `replies`): not delivering one is a
  loss, delivering it late a delay, twice a duplicate.  A close can fail (`CloseFails`): the socket stays open and bound,
  `conn.sd` forgets it, and `leaked`, a history variable, remembers it.

- **EthRx** - the zero-copy receive path.  `bd` is the ring of descriptors: each has a
  buffer and perhaps a frame, good or bad; the controller fills at `dmaIdx`, the driver
  reads at `rxGenIdx`.  `used` is `buffer_used` of the pool.  A buffer goes from the ring
  into a pbuf (`hand`, the one the receive task passes on; `lwip`, those lwIP keeps) and
  back to the pool when the last reference goes, in any thread.  `rx_alloc` and `rx_free`
  run with interrupts off and are atomic, with the switching of the receive
  interrupt (`rxInt`) they do; while it is off the controller's event bit (`rxEvent`)
  waits.  `ENET_GetRxFrame` belongs to the vendor's driver: it replaces the buffer of a good frame by a
  new one, or keeps it and drops the frame when there is none, and gives bad frames back to
  the controller.  A full ring raises no event.  The model starts where `ethernetif_plat_init` ends, with the
  controller running and `netif_add` still at work (`listed`).  `InputRefuses` is the error path of
  `fetch_received_pkts`, which `ethernet_input` as of today never takes: `ethernetif_pbuf_free_safe` posts the pbuf to
  lwIP's thread (`FreePosted`), or sleeps and tries again while there is no message (`FreeFails`, `SleepEnds`), and the
  receive task stands still meanwhile.  `early` is a history
  variable.

- **Button** - the buttons from power-on.  `isr` is the button whose interrupt routine
  runs: it reads the pin on entry (`IsrEnter`) and stores, sends its job and clears the flag
  on return (`IsrReturn`); the pin may move in between, and that edge is lost.  Routines
  have the same priority, do not nest and shut out the threads (`InThread`).  `queue` is
  the queue of RTX's timer thread, with the jobs and the expired timers of all buttons;
  the thread runs `timerJob`, or `timerCallback` in up to three steps (reading, comparison,
  writing), each of which an interrupt may separate.  `edge` is the port's flag;
  `ready` and `running` are the boot.  `panic` is an `unreachable` or the kernel's error notification, which
  both end everything.  `moved` is a history variable.

- **EthTx** - `ethernetif_linkoutput` in two kinds of threads: `Locked` ones hold the core
  lock, the `Unlocked` one is the receive task.  `at` is where a thread is; a chain of pbufs goes through
  `ucBuffer`, a single pbuf is sent from where it is, one that is too long is given up.
  `ENET_SendFrame` is the vendor's and stands as three steps (look at the next descriptor,
  copy, make ready), which is where two callers can cross; a busy ring means a wait for the
  flag of the transmit interrupt, and another look.  `overlap` is a history variable: two threads
  were in the driver, or two used the buffer.
- **TxChannel** - what the transmit path promises: a bounded first-in first-out channel, until
  the rule about its callers is broken.
- **LinkWait** - the start of the interface in the main thread: `netif_add` with the first probe of the PHY,
  then `ethernetif_wait_linkup` in the loop of `main.zig:145`; and the probe every 1.5 s in the
  tcpip thread.  A step ends at each access of the lock, the queue, the link flag and the bus of the PHY.
  The PHY changes at any moment, and any of its reads may fail.  An allocation of the queue that fails
  (`NewQueueFails`) ends in `LWIP_ASSERT`, which turns in a loop for good (`external/lwip/src/arch/cc.h:51`): the `ERR_MEM`
  after it, which the header lists, is never returned.  The tcpip thread has the higher priority and probes on.  `quiet` and
  `Prompt` say what the scheduler owes the main thread (section 5); `seen` is a history variable.
- **LinkPromise** - what the header promises of the wait: no `ERR_OK` without a link that
  was up since the call began, and a return, unless an assertion stops the call.
- **Uart** - `write` of several threads: mutex, event flags, the driver's non-blocking transfer and
  its interrupt, with the receiver's overruns, for which the same callback is called.
- **SyncWrite** - what `write` promises: one writer at a time, which returns when its last byte has left.
- **Rtc** - the seconds counter, its interrupt, and the main thread that asks for the time: both
  conversions are checked casts and a time out of range is `panic`; `set_timestamp` is four steps, between any two of which the
  second and the interrupt may fall.
- **Devices** - both, with the main thread as one of the writers between its calls of the clock.
- **PinMux**, **ClockTree**, **Boot** - the board.  A function is the sequence of its register
  operations; `Boot` executes the straight line from `SystemInit` to `kernel.start`
  and after it the functions that `pin_mux.h` and `clock_config.h` offer, in any order and any number of times: each
  function of pins, for a group that is live or not, `BOARD_InitBootClocks` (`GoRUN`) and `ClocksFunc_FullSpeed`.  Calls
  follow each other, one at a time; a single module of the clocks (the `InitClockModule` functions), or `peripherals.c`
  once more, is not called.  Oscillators, the switch of the system clock and the invalidation of the cache
  go at their own pace between any two operations.  The firmware itself calls only some of these functions, and
  `BOARD_InitBootClocks` once; the rest is what an application could do with them.  `recalled` is a history variable:
  a clock set-up was called with the core on the SPLL.  The SOSC is stopped then, with the core behind it; the
  model lets the core go on when the SOSC is valid again, which the hardware need not do.
  `ClockNext` of `ClockTree` is any caller that keeps the two rules a caller must keep.

A fault operator stands next to the definition it spoils (`NtpFailure_NoRetry` before
`NtpFailure`); no specification uses it.  Replacing the definition by its fault makes
the property named in section 4 fail.

## 3. Bounds

- `MCMainTask`: two addresses, so that a renewal can change the address; corrections
  of 2, 3, 4 and 5 s, both sides of both thresholds (2 and 4); poll intervals of 16 and
  4096 s, below and above the limit of an hour.  Nothing else is bounded: the state
  space is finite because the code's is.  The liveness run has one address, corrections
  of 2 and 5 s and one interval, and leases without end, for its cost: the receive
  task makes every change of the address then, and the tcpip thread only changes the link.
  A change is always
  a gain or a loss, the two kinds of event the main thread knows; a correction that only
  delays the count and the length of a period change nothing that liveness sees.
- `MCNtpClient`: two servers, two sockets, mailboxes of two datagrams, three
  exchanges (`MaxCalls`).  With three exchanges a reply can come from the exchange
  before last, two late replies can be in front of the right one, and a socket can
  be reused; two sockets show a leak at the second exchange.  The device has four
  sockets and mailboxes of twelve.
- `EthRx`: three descriptors and four buffers, so that the indices can be at three
  distances, the ring can be full with good frames behind bad ones, and a single buffer in a pbuf
  empties the pool.  The device has five and ten; what depends on the numbers of buffers is
  proved for all.
- `Button`: two buttons and a queue of two, so that jobs and expiries of both can follow each
  other and the queue can be full; the device has two and four.  The NTP timer
  shares the queue on the device; it would only make it fuller.
- `EthTx`: two descriptors (`NumBD`), one thread with the lock and one without, two frames.  The ring can be empty, half
  full at either index and full; a pair of threads is all that an overlap takes, and two
  frames tell a frame that was sent twice from one that was lost.  The device has three descriptors
  (`lwipopts.h:32`); `WaiterHasWaker` and the steps of `IsChannel` are proved for every ring, any threads and any frames.
- `LinkWait`: two speeds and the device's queue of one message.
- `Devices`: two threads, writes of up to two bytes (nothing, a single byte, more), an era of 5 seconds that begins
  with 2 before 1970 (`Era`, `Zos`), a counter followed up to second 4
  (`LastTime`): every answer of the server is enumerated, those before 1970 and after
  2036 included.  Era and the length of a write are arbitrary in the proofs.
- `Boot` has no bound: the straight line and the functions are finite.  Frequencies are in MHz, and
  dividers are the three values that the code uses.

## 4. Runs

| Run | What it shows |
|---|---|
| `main_task` | The safety properties of the main thread hold of `Spec`, under every order of the four threads. |
| `main_live` | Its liveness properties hold of `AnsweredSpec`. |
| `main_no_panic` | Violated: `stop() catch unreachable` (`main.zig:218`) is reached when the timer has just expired, or after an announcement, or for a loss handled after the return. |
| `main_dhcp_view` | Violated: a lease, its loss and its return within one wake-up leave `mainState.dhcp_up` false with an address, when all callbacks are done and all events handled. |
| `ntp_client` | The properties of the client hold of `AnsweredSpec`. |
| `eth_rx` | The properties of the receive path hold of `FairSpec`. |
| `eth_tx` | The transmit path is a bounded channel, and its calls return, as long as its callers do not overlap. |
| `eth_tx_unlocked` | Violated: the receive task is in `linkoutput` without the core lock. |
| `link_wait` | The wait for the link keeps its promise under any PHY, and the interface settles. |
| `button` | The properties of the buttons hold of `FairSpec`. |
| `devices` | `write` is a synchronous, exclusive write; `set_timestamp` returns how far the clock jumped. |
| `boot` | The start, and the later calls of section 2 in any order and number, keep the properties of the board. |

A run goes without TLC's deadlock check where the system really may stop.  The firmware stops after a panic (the
runs of `MainTask` and `Button`).  In `eth_rx`, when the ring fills before the interface is listed and each of its interrupts
is spent on the empty list, no further frame can arrive and nothing is left that could wake
the task.  In `eth_tx`, two threads that found the same free descriptor both advance `txGenIdx`; the controller
then stands at a descriptor that nobody filled, and the sender waits for ever with the core
lock held.  `Finished` is the only end of `ntp_client`; it is the bound on the exchanges.

Properties of the main thread:

- `Heartbeat`: while it believes that DHCP is up, the timer runs, an exchange is under way or
  an event that restarts the timer is pending.  Each of the four handlers and each end
  of an exchange must re-arm what it consumed.  `QueriesForever` is its liveness side.
- `CountsToThree`, `AnnounceIsFresh`: the third good exchange announces the time through a
  flag handled later; no trigger gets in between, because the loop tests the
  announcement first.
- `BoundFlagSound`: without an address, `dhcp_bound` is true at most until the status
  callback of the loss has written - unless the last change fell into the callbacks of the
  other thread.  It is the most that holds: a callback that read a lease can write it after the
  other thread has lost it, and nothing corrects the flag until the next change.  It
  also says what would mend this: one thread for all of lwIP (`tcpip_input`).  The converse of the
  property fails without any overlap: a link flap clears the flag, and a renewal of
  the same address calls nothing back.
- `AddrChangesHandled`: every change of the address brings the main thread an event
  about it.  It need not be the right one: a link lost between the two callbacks of a new lease clears
  the flag that the second one passes on, so that the lease is announced as a loss; and
  `DhcpViewAgrees` is violated because the events are taken in the wrong order.  It is asked only of a settled state: the
  main thread blocked, no event left, no callback under way, no callbacks that overlapped, and `dhcp_bound` itself right.
  One address is enough: a lease, its loss and its return before the main thread has run.
- `EventsConsumed`: an event that is set is consumed.
- `TypeOK` bounds the timer's period by a second and an hour for every poll interval.

Properties of the NTP client:

- `AcceptedAnswersCall`: an accepted reply answers this exchange, whatever arrives at
  the reused local port.  It rests on the pair (second, tick) being different for
  different exchanges, which the numbering of exchanges assumes.
- `SocketDiscipline`: an open socket is the one `conn.sd` names, on every path, or one whose close failed.  No code path
  forgets a socket by itself; but a failed `lwip_close` is swallowed (`ntp.zig:245`, `simpleConnection.zig:143`) after
  `defer` has cleared `sd` (`simpleConnection.zig:202`), and a leaked socket that is bound keeps port 123, so that every
  later exchange fails at its `Bind`.
- `CallReturns`: an answered exchange returns.  The code has no time-out for one that is not: a single lost
  reply keeps the main thread in `lwip_recvfrom`, and out of its event loop, for ever
  (`Receive` has no alternative; without the fairness of `Answer` the property is violated).

Properties of the receive path:

- `BuffersConserved`: a buffer is with one descriptor, in one pbuf or free, and `buffer_used`
  agrees; so the controller never writes what lwIP reads and no buffer leaks.
- `NeverDeaf`: when the receive interrupt was switched off for lack of buffers, a buffer is out whose
  release switches it on.
- `NoLostWakeup`: a frame that arrives behind a complete drain leaves its event or its flag behind.
- `FramesTaken`: unless a flag was taken before the interface was listed, every frame leaves
  the ring in the end.  Two things are short of what one would wish.  An error frame, or a lack of buffers, ends the
  drain (`ReadError`, `ReadDrop`), and the frames behind it wait for the next frame's interrupt.  A frame that arrives while
  `netif_add` is still at work (the first read of the PHY, `ethernetif.c:363`, is in this
  window) costs the task its flag (`WakeUnlisted`).

Properties of the buttons:

- `AgreesWhenQuiet`: when neither an edge, a routine, an entry of the queue, the timer nor the
  callback has anything left to do for a button, its state is that of its pin.  Edges are
  lost and values overwritten on the way; the callback's second look repairs both.
- `Debounced`: a change is reported of a pin that was stable for the whole period, or, when an
  edge came between the expiry and the comparison, another period is on its way.  The stronger
  form without the exception does not hold.
- `Settles`: the liveness side.  It speaks of runs without a panic.  There are two ways to one: an edge between the enabling of the pin
  interrupts and `kernel.start`, when the timers cannot be used yet, and enough edges to fill the
  queue of four before the timer thread gets the processor.

Properties of the transmit path:

- `WaiterHasWaker`: one event stands for many frames and one flag for many waiting threads, so a flag can be
  taken by a thread that does not need it; whoever waits still has a controller at work, an event, a
  flag or a thread on its way.  `SendReturns` is its liveness side.
- `IsChannel`: the path refines `TxChannel`: frames are handed over once, whole and in order.
- Both are stated without an overlap of callers, because nothing excludes one: `CoreLocked` is violated.
  lwIP's `ethernet_input` runs in the receive task, which answers ARP and ICMP through `linkoutput`, and
  the check of `sys_check_core_locking` is blind, because nothing calls `sys_mark_tcpip_thread`.  After an overlap
  one frame may be sent twice and another never, or the ring stop as told above.

Properties of the wait for the link:

- `KeepsPromise`: the wait refines `LinkPromise`, although the link may come up between the two looks at the
  flag, while the callback is registered or removed, and while the time runs out.  A link that comes
  up between the first look and the registration makes the call return `ERR_INPROGRESS`, which the header
  (`ethernetif.h:181-183`) does not list; the caller asks again.
- `CallbackHasQueue`: the callback is in lwIP's list only while its queue exists, and no probe is in it when the
  queue is deleted.
- `WaitEnds`: a call ends whatever the link does, unless it stops in the assertion of a failed allocation.  The time-out of the queue starts anew with every message, so a
  link that flaps prolongs a call beyond its `Maximum time to wait in ms`; and a main thread that is starved over two
  probes finds the tcpip thread blocked in a put into the full queue, with the core lock that it needs itself - a deadlock.
  `Prompt = FALSE` allows it, and `WaitEnds` is violated then; the probes are 1.5 s apart.
- `Settles`: once the PHY is stable and can be read, flag, controller and PHY agree for good.

Properties of the devices:

- `WaitIsAnswered`, `IsSyncWrite`: the flags are cleared before the transfer begins, so a completion is neither
  lost nor mistaken, and an overrun of the receiver, which calls the same callback, ends nothing.
- `DiffIsJump`: the counter is stopped before it is read, so the difference that judges an exchange is the distance by
  which the clock moved, whatever seconds and interrupts fall between.
- A time outside 1970-2036, in an answer or in the clock itself, is a panic (`Answer` and `Request` of `Rtc`).

Properties of the board:

- `CoreClockKept`: the source the core runs from is never set by any call and is valid at every moment.  The oscillator it runs
  from is configured behind a detour over the slow one, and the wait for each switch is what makes the next step safe.  What
  is not kept is the SOSC behind the SPLL: both clock set-ups set it first (`clock_config.c:272,439`), whatever the core runs
  from, so a clock set-up called after `ClocksFunc_FullSpeed` takes the core's clock away until the SOSC is valid again.  TLC shows it
  when `SystemSourceAlive` is asked of `Boot` without the exception for `recalled` that `CoreClockKept` makes; that
  invariant limits the damage to the call.
- `ClocksAsConfigured`: between calls, the tree is the one of the configuration that was applied last, `SystemCoreClock`
  tells its frequency, and after `BOARD_InitBootClocks` the console has the clock its divider was computed for.
  `ClocksFunc_FullSpeed` switches that clock off with the console's gate open (`clock_config.c:409`): the property
  exempts it.
- `ClockedAccess`, `InOrder`: no register before its gate; no waiting loop under the watchdog, no kernel object before the kernel, no
  interrupt without its priority, no controller before the PHY's reset.
- `GroupsIntact`: the functions of `pin_mux.c` do not undo each other.
- `SafeRerouting`: an output has its direction before its pin is connected, the RMII and the trace clock are re-routed with
  their divider off, and a peripheral whose gate is open is given only the source it already has
  (`clock_config.c:322,326` are called with the gate of LPUART2 open from the second time on, with the same source).
  It says nothing of dividers, which do change under their users.

## 5. Fairness

`FairSpec` of `MainTask`: the main thread runs when it is ready (the higher
threads block between events), the tcpip thread starts, each network thread finishes the callbacks of a
change (their threads are scheduled round-robin above the main thread), a wait ends at its
time-out, and a running timer expires unless `dhcp_up` restarts it first
(fairness of `TimerExpire \/ OnDhcpUp`: a timer that is restarted for ever need not
expire).  Nothing is assumed of links, leases and
servers.  `AnsweredSpec` adds that an exchange returns; the code does not ensure
that (a lost reply is waited for without end), so it is an assumption on the network,
stated separately.  In `NtpClient`, `FairSpec` is fairness of the client and
`AnsweredSpec` adds that an exchange that waits is answered.  In `EthRx`, the interrupt is taken, the
receive task and `netif_add` get on (threads the kernel schedules), lwIP frees each pbuf in
the end, posting a refused pbuf succeeds when it is tried again and again (strong fairness of `FreePosted`: lwIP's thread takes its
messages and gives them back), and the network is never silent for good: an assumption, which any broadcast traffic
meets, and which the frames behind an early end of the drain need.

In `Button`, interrupts are served, the boot and the timer thread get on and a timer that is not restarted
expires; the pins may bounce for ever, and `Settles` says something only when they do not.

In `LinkWait`, the two threads get on (weak fairness of `Main` and `Probe`), the period of the probe expires again and again
and the mutex is handed to a thread that waits for it (strong fairness of `ProbeStarts` and
`LockCore`, which are enabled only between the other's uses of the lock).  With `Prompt`, a probe does not begin while the main thread is
ready and has not blocked since the last one: 1.5 s pass between two.  `ReadsSucceed` (reads of the PHY
succeed again and again) is an assumption on the PHY, in front of `Settles` only.

In `EthTx`, each thread gets on in its call, the controller sends what is ready and the interrupt is taken.  A thread may call
for ever, and take the flag or the lock from the other each time; `SendReturns` therefore speaks of a call
once the others have stopped calling.  In `Devices`, threads inside `write` get on, bytes leave and the
interrupt is taken; nothing is assumed of the mutex.  `Boot` needs none.

## 6. Proofs

`MainTaskProofs` proves for every set of addresses, every set of clock corrections
in `Nat` and every set of positive poll intervals, from the named
assumptions on the constants:

- `Invariance`: `Spec => []IInv`;
- `TypeCorrect`, `HeartbeatHolds`, `CountsToThreeHolds`, `AnnounceIsFreshHolds`,
  `BoundFlagSoundHolds`: the invariants of `main_task`;

None of the invariants is inductive alone.  `IInv` adds `LeaseHasAddress` (a lease is the
lease of an address), which a status callback needs to read the truth, `ReadSound` (what it read is still true when it writes, unless
the callbacks overlapped), and `Control`: a thread blocks only in its
two waits and has then nothing returned and nothing pending that it waits for; nothing but
`tcpip_ready` happens before the loop; during an exchange the timer is stopped and
neither a trigger nor an announcement is left over from the wake-up; and a pending
announcement excludes a trigger or an announcement still to be handled.  The last two are what keeps
the count at three and the announcement fresh.  The proof has a lemma for each group
of actions (`StartKeeps`, `WaitKeeps`, `HandlerKeeps`, `ReturnKeeps`, `SignalKeeps`);
signals of the other threads are treated once, through `FlagsSetKeeps`.

`EthRxProofs` proves for a ring of any positive size and every pool with a buffer more than
the ring, from the preprocessor's checks as assumptions:

- `Invariance`, `TypeCorrect`, `BuffersConservedHolds`, `NeverDeafHolds`, `NoLostWakeupHolds`.

`IInv` there adds to `BuffersConserved` that the task has one pbuf in hand exactly while it
passes it on (`HandOfTask`), and that the interrupt is off only while every buffer is used
(`OffMeansEmpty`).  `NeverDeaf` follows by counting: the ring cannot hold the whole pool
(`PoolOutgrowsRing`, no function from the smaller set is onto the larger one), so one of the used
buffers is in a pbuf.  `NoLostWakeup` needs that an empty descriptor at `rxGenIdx` means an empty ring: the frames follow each
other from `rxGenIdx` to `dmaIdx` (`Contiguous`), with distances written without a modulus (`Dist`, `After`).

`ButtonProofs` proves for any set of buttons and any positive length of the queue
`TypeCorrect`, `AgreesWhenQuietHolds` and the action property `DebouncedHolds`.  `IInv` adds
`ReadingSound` (what the callback has read is still there or is looked at again) and
`MovedRechecked` (a pin that moved during its period is looked at again).  Two lemmas say what appending to the
queue and taking from it do to its entries (`AppendQueues`, `TakeQueues`).

`EthTxProofs` proves for any threads, any frames and a ring of any positive size `TypeCorrectness` and
`WaiterHasWakerHolds`.  `TxInv` says of the time before an overlap that the ready descriptors follow each other
from `dmaIdx` to `txGenIdx`, and that the one thread in the driver has found the descriptor `txGenIdx`, still
free (`RingInv`).  From it follow the two steps that matter: a thread begins to wait only when the ring is full, and then the
controller's descriptor is ready (`ReadyIsFirst`); and what the last thread leaves behind is ready (`CommitKeepsRing`).

`LinkWaitProofs` proves for any speeds, any length of the queue and any `Prompt` `TypeCorrectness`, `CallbackHasQueueHolds`
and `WaitImplementsPromise`: every step is a step of `LinkPromise` or a stutter.  `LinkInv` says at which places of the main thread the
callback is registered and the queue exists, that only a probe of the tcpip thread, hence under the lock, is ever in the
callback, and what the history knows of a call.

`NtpClientProofs` proves for any servers, sockets and mailboxes and any number of exchanges `TypeCorrectness`, `SocketDisciplineHolds` and
`AcceptedAnswersCallHolds`.  `ExchangeInv` adds that every reply answers a request that left the device (`RepliesAnswer`), so that comparing the
number is enough, and which steps have a socket and a peer (`SocketOfStep`).

`DeviceProofs` proves for any threads, any longest write and any era `WaitIsAnsweredHolds`, `WriteIsSynchronous` (every step of the line is a
step of `SyncWrite` or a stutter) and `DiffIsJumpHolds`.  The devices share no variable: a step of `Devices` is a step or a stutter of
each (`DevicesStep`), and each has its own invariant, `LineInv` and `ClockInv`.

`PathIsChannel` of `EthTxProofs` is the safety part of `IsChannel`: the initial state and every step of the path are those of `TxChannel`, or
a stutter.  `ChanInv` says what a thread in the driver carries, and that a ready descriptor holds a whole frame.  The content of the ring
is mapped by counting: `InRing` has as many frames as there are ready descriptors, and these are the ones from `dmaIdx` on because they
follow each other (`RingContents`, by a bijection between the ready descriptors and their distances).

`BoardProofs` proves what the run `boot` checks, each property by a theorem of its own, `SystemSourceAliveHolds` of the clock tree under any
caller that keeps the two rules, and `KeepsClockRules`: until a clock set-up is called with the core on the SPLL, each step of the
board is a step of such a caller.  No constant is left to generalise over, but the argument is not an enumeration: it is
one about the functions of the code.

- What is known of the registers is a set of facts, such as "the gate of port C is open" or "the core runs from FIRC".  `Allowed` says which facts an
  operation needs, `Leads` which hold after it, and `Runs(s, d, e)` that a sequence finds all it needs when
  `d` holds and ends with `e`.  Each function of `pin_mux.c`, `clock_config.c`, `peripherals.c` and `board.zig` has a lemma
  that says for which `d` and `e` it runs (`GroupsGrow`, `DeinitRuns`, `BootClocksRun`, `FullSpeedRuns`, `PeripheralsRun`, ...), and
  `RunsJoined` puts them together as the code does, up to `WholeStartRuns`.
- On the side of the state, `FactsStep` shows that an operation makes the facts true that it leads to, and `OscillatorKeeps` that
  the hardware, which moves between any two operations, changes none.
- `BoardInv` is inductive: some facts are true with which the rest of `todo` runs to the board at rest (`Resting`), with the groups in
  `live` and the configuration `applied`; the core's own source is valid (`OwnSource`), fed too unless `recalled`; and `Standing` holds, which is about what was done before (interrupts have their priority and
  their port, the PHY was reset before its controller is clocked, outputs have a direction, a pin has only a signal of its own).  A property about the
  next operation follows from `Allowed`, one about the board between calls from `Resting`, the others from `Standing`.
- A call from the board at rest begins with the facts `Resting` gives it.  Groups do not disturb each other because the
  operations of all of them agree on a plan for each pin (`PlansAgree`), and what is undone in `InitENET_deinit` is on
  pins of no other group (`EffectsPlanned`).  A clock set-up runs from either configuration (`ConfigRuns`); called with the core
  on the SPLL it begins with one more fact, `Recalled`, without which `Allowed` refuses to set the SOSC.

Only model-checked: liveness, that is the properties under fairness and the fairness of the three abstract specifications in `IsChannel`, `KeepsPromise`
and `IsSyncWrite` (fairness and ENABLED are out of the prover's reach; the steps of all three refinements are proved).  Every
invariant and every action property that a passing run checks is a theorem.

## 7. Not modelled

- Real time: periods and time-outs are events that may come at any moment.
- A datagram shorter than an NTP packet; TCP, TLS and CoAP, declared and unused.
- `waitRx`, `stability_count`, `ntpSyncTime`, `mainState.ntp_acquired`, the interrupt's copy of the time: written or
  defined, never read (the last is followed in `Rtc`, to show that it does not matter).
- `ethernetif_wait_ipv4_valid`, the twin of the wait for the link, which nothing calls.
- The job queue: it is initialised and nothing sends to it, so each behaviour of it would be invented.  The multicast filter is
  compiled out.
- What the main thread does to lwIP's lists when it calls `netif_add`, `netif_set_up` and the callback setters without the core
  lock: the lists are lwIP's.  `LinkWait` has the calls without the lock and what they do to the interface.
- Pulls, drive strengths and slew rates of pins, dividers of the bus and of the flash.
- The vendor's drivers, lwIP and RTX5: external, modelled as far as the code in `src/` uses them.
- `MainTask` and `NtpClient` are not composed: the exchange is one step of `MainTask` to one of its outcomes, whose
  effects on the main thread are the same whatever happened inside; the one that takes for ever is what
  `AnsweredSpec` assumes away in both.

Hazards that no property covers are in `PROJECT.json` with the reason; three of them are defects told above (the casts of
the clock, the flag taken before the interface is listed, pin interrupts before the kernel).
