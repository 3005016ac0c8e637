-------------------------------- MODULE Boot --------------------------------
(***************************************************************************)
(* The start of the board, from SystemInit to kernel.start: pins, clocks,  *)
(* peripherals, the reset of the PHY, the objects of the kernel - and,     *)
(* once it runs, the functions of pin_mux.c and clock_config.c that their  *)
(* headers offer, called one after another in any order, any number of     *)
(* times, by one thread (their single modules and the rest of the start,   *)
(* peripherals.c among it, are not called again).                          *)
(*                                                                         *)
(* `todo` is what is left of the straight line of register operations; the *)
(* clock hardware and the cache proceed between any two of them.           *)
(***************************************************************************)
EXTENDS PinMux, ClockTree, FiniteSets

VARIABLES
  todo,      \* the operations still to be executed
  live,      \* the groups of pins that were initialised
  applied,   \* the clock configuration that was applied last
  recalled,  \* history: a clock function was called with the core on the SPLL
  watchdog,  \* the watchdog runs; nothing ever refreshes it
  dma,       \* the system MPU lets the Ethernet controller's DMA through
  cache,     \* the code cache: "dirty", "busy", "clean" or "on"
  prio,      \* the interrupts with the priority of the board (5)
  nvic,      \* the interrupts enabled in the NVIC
  phy,       \* the reset of the PHY: "unknown", "held", "reset" or "ready"
  kernel     \* osKernelGetState: "inactive", "ready" or "running"

registers == <<watchdog, dma, cache, prio, nvic, kernel>>
boardVars == <<registers, phy>>
vars == <<portVars, clockVars, todo, live, applied, recalled, boardVars>>

-----------------------------------------------------------------------------
(* The functions.                                                          *)

Do(what) == <<[op |-> what]>>
SetPriority(irq) == <<[op |-> "prio", irq |-> irq]>>
EnableIRQ(irq) == <<[op |-> "nvic", irq |-> irq]>>

SystemInit == Do("watchdogOff") \o Do("cacheGo") \o Do("cacheClean") \o Do("cacheOn")

LPUART2_init == IpGate("LPUART2") \o Do("uart") \o SetPriority("LPUART2")
GPIOA_init == SetPriority("PORTA") \o EnableIRQ("PORTA")
GPIOC_init == SetPriority("PORTC") \o EnableIRQ("PORTC")

RTC_init == IpGate("RTC") \o Do("rtc") \o SetPriority("RTC") \o EnableIRQ("RTC")

InitPeripherals == LPUART2_init \o GPIOA_init \o GPIOC_init \o RTC_init

ResetPhy == PinWrite(PHY_RST, "low") \o Do("delay") \o PinWrite(PHY_RST, "high")

\* Fault: the clocks after the peripherals that use them.
initPreKernel_LateClocks ==
  InitBootPins \o InitPeripherals \o BOARD_InitBootClocks
  \o InitLEDsPins \o InitBUTTONsPins \o Do("sysmpu") \o ResetPhy

\* Fault: the PHY is released at once.
initPreKernel_NoDelay ==
  InitBootPins \o BOARD_InitBootClocks \o InitPeripherals
  \o InitLEDsPins \o InitBUTTONsPins \o Do("sysmpu")
  \o PinWrite(PHY_RST, "low") \o PinWrite(PHY_RST, "high")

initPreKernel ==
  InitBootPins \o BOARD_InitBootClocks \o InitPeripherals
  \o InitLEDsPins \o InitBUTTONsPins \o Do("sysmpu") \o ResetPhy

\* Two button timers, the LEDs, MDIO, the clock, the hardware job queue.
initialize ==
  Do("create") \o Do("create")
  \o PinWrite(LED_BLUE, "high") \o PinWrite(LED_GREEN, "high") \o PinWrite(LED_RED, "high")
  \o IpGate("ENET") \o Do("mdio") \o Do("rtc") \o Do("create")

\* main_task.new starts with lpuart2.initialize, whose driver enables the interrupt.
mainTaskNew == Do("create") \o Do("uart") \o EnableIRQ("LPUART2") \o Do("create")

zmain == initPreKernel \o Do("kernelInit") \o initialize \o mainTaskNew
         \o Do("create") \o Do("kernelStart")

Groups ==
  [BOOT |-> InitPins, UART |-> InitDEBUG_UARTPins, ENET |-> InitENET, LEDs |-> InitLEDsPins,
   BUTTONs |-> InitBUTTONsPins, I2C |-> InitI2CPins, ACCEL |-> InitACCELPins,
   SPI |-> InitSPIPins, CAN |-> InitCANPins]

Init ==
  /\ PortsInit
  /\ ClocksInit
  /\ todo = SystemInit \o zmain
  /\ live = {"BOOT", "UART", "ENET", "LEDs", "BUTTONs"}
  /\ applied = "RUN"
  /\ recalled = FALSE
  /\ watchdog = TRUE
  /\ dma = FALSE
  /\ cache = "dirty"
  /\ prio = {}
  /\ nvic = {}
  /\ phy = "unknown"
  /\ kernel = "inactive"

-----------------------------------------------------------------------------
(* Execution.                                                              *)

PhyAfter(c) ==
  IF c.op = "write" /\ c.pin = PHY_RST /\ mux[PHY_RST] = "GPIO"
    THEN IF c.level = "low" THEN "held" ELSE IF phy = "reset" THEN "ready" ELSE "unknown"
    ELSE IF c.op = "delay" /\ phy = "held" THEN "reset" ELSE phy

Unless(c, op, now, then) == IF c.op = op THEN then ELSE now

BoardOp(c) ==
  /\ c.op \in {"watchdogOff", "sysmpu", "cacheGo", "cacheClean", "cacheOn", "prio", "nvic", "uart",
               "rtc", "mdio", "create", "delay", "kernelInit", "kernelStart"}
  /\ c.op = "cacheClean" => cache = "clean"
  /\ watchdog' = Unless(c, "watchdogOff", watchdog, FALSE)
  /\ dma' = Unless(c, "sysmpu", dma, TRUE)
  /\ cache' = Unless(c, "cacheGo", Unless(c, "cacheOn", cache, "on"), "busy")
  /\ kernel' = Unless(c, "kernelInit", Unless(c, "kernelStart", kernel, "running"), "ready")
  /\ prio' = IF c.op = "prio" THEN prio \cup {c.irq} ELSE prio
  /\ nvic' = IF c.op = "nvic" THEN nvic \cup {c.irq} ELSE nvic

Execute ==
  /\ todo # <<>>
  /\ LET c == Head(todo) IN
       /\ \/ PortOp(c) /\ UNCHANGED <<clockVars, registers>>
          \/ ClockOp(c) /\ UNCHANGED <<portVars, registers>>
          \/ BoardOp(c) /\ UNCHANGED <<portVars, clockVars>>
       /\ phy' = PhyAfter(c)
  /\ todo' = Tail(todo)
  /\ UNCHANGED <<live, applied, recalled>>

CacheInvalidated ==
  /\ cache = "busy"
  /\ cache' = "clean"
  /\ UNCHANGED <<portVars, clockVars, todo, live, applied, recalled,
                 watchdog, dma, prio, nvic, phy, kernel>>

Hardware ==
  \/ CacheInvalidated
  \/ /\ (\E s \in Sources : OscillatorValid(s)) \/ SystemSwitches
     /\ UNCHANGED <<portVars, todo, live, applied, recalled, boardVars>>

Later(ops) ==
  /\ kernel = "running" /\ todo = <<>>
  /\ todo' = ops
  /\ UNCHANGED <<portVars, clockVars, boardVars>>

\* The pins, of a group that is live or not.
InitGroup(g) == live' = live \cup {g} /\ Later(Groups[g]) /\ UNCHANGED <<applied, recalled>>
DeinitENET == live' = live \ {"ENET"} /\ Later(InitENET_deinit) /\ UNCHANGED <<applied, recalled>>

\* The clocks.  Neither function looks at what the core runs from: both start
\* with the SOSC, which feeds the SPLL.
Apply(config, ops) ==
  /\ applied' = config
  /\ recalled' = (recalled \/ applied = "FullSpeed")
  /\ Later(ops)
  /\ UNCHANGED live
GoRUN == Apply("RUN", BOARD_InitBootClocks)
GoFullSpeed == Apply("FullSpeed", ClocksFunc_FullSpeed)

Next ==
  \/ Execute \/ Hardware
  \/ \E g \in DOMAIN Groups : InitGroup(g)
  \/ DeinitENET \/ GoRUN \/ GoFullSpeed

Spec == Init /\ [][Next]_vars

-----------------------------------------------------------------------------
(* Properties.                                                             *)

\* No register is touched before the clock gate of its block is open, neither
\* by the straight line nor by an interrupt routine (peripherals.c:203 asks for it).
ClockedAccess ==
  /\ \A irq \in nvic \cap {"PORTA", "PORTC"} :
       (IF irq = "PORTA" THEN "A" ELSE "C") \in portGate
  /\ todo # <<>> =>
       LET c == Head(todo) IN
         /\ c.op \in OnPin => c.pin[1] \in portGate
         /\ c.op \in OnPort => c.port \in portGate
         /\ c.op = "uart" => /\ "LPUART2" \in ipGate
                             /\ ipSrc["LPUART2"] # "none"
                             /\ source[ipSrc["LPUART2"]].div2 # 0
         /\ c.op = "mdio" => "ENET" \in ipGate
         /\ c.op = "rtc" => "RTC" \in ipGate /\ "RTC" \in routed /\ mux[<<"A", 7>>] = "RTC_CLKIN"

Calls(ops) == {ops[i] : i \in DOMAIN ops}

\* Between calls every group of pins that was initialised is as its function
\* left it, whatever other functions were called since, in whatever order: no
\* two of them share a pin, a filter bit or a signal.
GroupsIntact ==
  /\ todo = <<>> =>
       \A g \in live : \A c \in Calls(Groups[g]) :
         /\ c.op \in {"mux", "config"} => mux[c.pin] = c.signal
         /\ c.op = "irq" => c.pin \in pinIrq
         /\ c.op = "filter" => IF c.on THEN c.pins \subseteq filtered ELSE c.pins \cap filtered = {}
  /\ \A p, q \in Pins : p # q /\ mux[p] = mux[q] => mux[p] \in {"analog", "GPIO"}

\* Nothing is connected or re-routed before it is made safe, in any order of calls:
\* an output has its direction before its pin is connected, the RMII and the trace
\* clock are re-routed with their divider off, and a peripheral whose gate is open
\* is given no other source than it has.  (Dividers do change under a user: see
\* ClocksAsConfigured.)
SafeRerouting ==
  /\ \A p \in Leds \cup {PHY_RST} : mux[p] = "GPIO" => gpio[p] # "in"
  /\ todo # <<>> =>
       LET c == Head(todo) IN
         /\ c.op = "route" /\ c.what = "RMII" => source["SOSC"].div1 = 0
         /\ c.op = "route" /\ c.what = "TRACE" => ~trace
         /\ c.op = "ipsrc" => c.ip \notin ipGate \/ ipSrc[c.ip] = c.src

\* No function initialises the source the core runs from, so none is refused and the
\* core's source is valid at every moment; the oscillator behind the SPLL is valid as
\* long as no clock function was called with the core on the SPLL, and after such a
\* call again when it has returned.
CoreClockKept ==
  /\ ~refused
  /\ source[sys.src].state = "valid"
  /\ Fed(sys.src) \/ (recalled /\ todo # <<>>)

Expected(config) ==
  \A s \in Sources : source[s] = [state |-> "valid", div1 |-> config[s][1].div1,
                                  div2 |-> config[s][1].div2, mult |-> config[s][1].mult]

\* Between calls the clocks are those of the configuration that was applied last,
\* whichever was applied before; SystemCoreClock tells the core's frequency, and
\* after RUN the UART gets the 8 MHz its divider was computed for (FullSpeed stops
\* that clock, with the UART's gate open: clock_config.c:409).
ClocksAsConfigured ==
  todo = <<>> =>
    /\ Expected(IF applied = "RUN" THEN ConfigRUN ELSE ConfigFullSpeed)
    /\ coreClock = SystemCoreClockUpdate
    /\ applied = "RUN" =>
         Frequency(ipSrc["LPUART2"]) = 8 * source[ipSrc["LPUART2"]].div2

\* The code waits in loops only once the watchdog is off, the cache serves code
\* only after it was invalidated, the Ethernet controller is clocked only when the
\* PHY has been through a full reset and DMA may reach the memory, an interrupt is enabled
\* only with the one priority at which routines do not nest, and kernel objects are
\* created in a kernel that is initialised and does not run yet.
InOrder ==
  /\ nvic \subseteq prio
  /\ "ENET" \in ipGate => phy = "ready" /\ dma
  /\ todo # <<>> =>
       LET c == Head(todo) IN
         /\ c.op \in {"cacheClean", "valid", "switched"} => ~watchdog
         /\ c.op = "cacheOn" => cache = "clean"
         /\ c.op = "create" => kernel = "ready"
=============================================================================
