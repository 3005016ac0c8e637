----------------------------- MODULE ClockTree -----------------------------
(***************************************************************************)
(* The clocks of the board (board/frdmmcxe247/board/clock_config.c).       *)
(*                                                                         *)
(* As in PinMux, a function is the sequence of its register operations.    *)
(* The hardware takes its time: an oscillator that is switched on becomes  *)
(* valid later, and so does a change of the system clock; the loops that   *)
(* wait for them are operations that block.  Frequencies are in MHz; the   *)
(* dividers of the bus and of the flash are left out.                      *)
(*                                                                         *)
(* CLOCK_InitXxx of the vendor's driver is external: it refuses to touch   *)
(* the source the core runs from and returns a status nobody looks at,     *)
(* otherwise stops the source, configures it, starts it and waits.         *)
(***************************************************************************)
EXTENDS Sequences, Naturals

Sources == {"SOSC", "SIRC", "FIRC", "SPLL"}
IPs == {"LPUART2", "FLEXIO", "RTC", "ENET"}

VARIABLES
  source,     \* per source: "off", "starting" or "valid", with its dividers
  sys,        \* what the core runs from: [src, div]
  rccr,       \* what it was last told to run from
  refused,    \* history: an initialisation was refused
  ipSrc,      \* the source chosen for a peripheral ("none" after reset)
  ipGate,     \* the peripherals whose clock gate is open
  saved,      \* the copy of SOSCDIV
  routed,     \* the multiplexers set: "RMII", "RTC", "TRACE", "CLKOUT", "LPO"
  trace,      \* the divider of the trace clock runs
  coreClock   \* SystemCoreClock

clockVars == <<source, sys, rccr, refused, ipSrc, ipGate, saved, routed, trace, coreClock>>

Divider == 0..2   \* 0: the output is disabled

ClocksInit ==
  /\ source = [s \in Sources |-> [state |-> IF s \in {"FIRC", "SIRC"} THEN "valid" ELSE "off",
                                  div1 |-> 0, div2 |-> 0, mult |-> 0]]
  /\ sys = [src |-> "FIRC", div |-> 1]
  /\ rccr = sys
  /\ refused = FALSE
  /\ ipSrc = [p \in IPs |-> "none"]
  /\ ipGate = {}
  /\ saved = 0
  /\ routed = {}
  /\ trace = FALSE
  /\ coreClock = 48

-----------------------------------------------------------------------------
(* The operations.                                                         *)

Start(s, div1, div2, mult) ==
  <<[op |-> "start", src |-> s, div1 |-> div1, div2 |-> div2, mult |-> mult],
    [op |-> "valid", src |-> s]>>
Switch(s, div) ==
  <<[op |-> "switch", to |-> [src |-> s, div |-> div]], [op |-> "switched", src |-> s]>>
IpSrc(ip, s) == <<[op |-> "ipsrc", ip |-> ip, src |-> s]>>
IpGate(ip) == <<[op |-> "ipgate", ip |-> ip]>>
Route(what) == <<[op |-> "route", what |-> what]>>
CoreClockIs(mhz) == <<[op |-> "core", mhz |-> mhz]>>

CLOCK_CONFIG_SetTraceClock == <<[op |-> "traceOff"]>> \o Route("TRACE") \o <<[op |-> "traceOn"]>>

\* Fault: the divider is not restored.
CLOCK_CONFIG_SetRmiiClock_NoRestore == <<[op |-> "divOff"]>> \o Route("RMII")

CLOCK_CONFIG_SetRmiiClock == <<[op |-> "divOff"]>> \o Route("RMII") \o <<[op |-> "divBack"]>>

CLOCK_CONFIG_SetRtcClock == Route("RTC")

\* Fault: FIRC is configured at once, while the core runs from it.
CLOCK_CONFIG_FircSafeConfig_Direct(firc) == Start("SIRC", 0, 2, 0) \o firc

\* SIRC serves while FIRC is configured, with dividers of its own.
CLOCK_CONFIG_FircSafeConfig(firc) ==
  Start("SIRC", 0, 2, 0) \o Switch("SIRC", 1) \o firc \o Switch("FIRC", 1)

-----------------------------------------------------------------------------
(* The two configurations, with what their initialisers say of them.       *)

ConfigRUN ==
  [sys  |-> [src |-> "FIRC", div |-> 1],
   SOSC |-> Start("SOSC", 1, 0, 0),
   SIRC |-> Start("SIRC", 0, 1, 0),
   FIRC |-> Start("FIRC", 0, 1, 0),
   SPLL |-> Start("SPLL", 0, 0, 16),
   core |-> 48]

ConfigFullSpeed ==
  [sys  |-> [src |-> "SPLL", div |-> 2],
   SOSC |-> Start("SOSC", 0, 0, 0),
   SIRC |-> Start("SIRC", 0, 0, 0),
   FIRC |-> Start("FIRC", 0, 0, 0),
   SPLL |-> Start("SPLL", 0, 0, 24),
   core |-> 80]

\* What the two functions InitClockModule share.
InitModule(config, module) ==
  CASE module \in {"SOSC", "SIRC", "SPLL"} -> config[module]
    [] module = "FIRC" -> CLOCK_CONFIG_FircSafeConfig(config.FIRC)
    [] module = "SystemClkSrc" -> Switch(config.sys.src, config.sys.div)
    [] module = "SCG_CLKOUTSEL" -> Route("CLKOUT")
    [] module = "LPO" -> Route("LPO")
    [] module = "TRACEClkOut" -> CLOCK_CONFIG_SetTraceClock

BOARD_BootClockRUN_InitClockModule(module) ==
  CASE module = "RTCClkOut" -> CLOCK_CONFIG_SetRtcClock
    [] module = "RMIIClkOut" -> CLOCK_CONFIG_SetRmiiClock
    [] module = "PCC_FlexIO" -> IpSrc("FLEXIO", "SIRC")
    [] module = "PCC_LPUART2" -> IpSrc("LPUART2", "SIRC")
    [] OTHER -> InitModule(ConfigRUN, module)

BOARD_BootClockRUN ==
  LET Module(m) == BOARD_BootClockRUN_InitClockModule(m) IN
    Module("SOSC") \o Module("FIRC") \o Module("SIRC") \o Module("SPLL") \o Module("SystemClkSrc")
    \o Module("SCG_CLKOUTSEL") \o Module("RTCClkOut") \o Module("TRACEClkOut")
    \o Module("RMIIClkOut") \o Module("PCC_FlexIO") \o Module("PCC_LPUART2") \o Module("LPO")
    \o CoreClockIs(ConfigRUN.core)

BOARD_InitBootClocks == BOARD_BootClockRUN

ClocksFunc_FullSpeed_InitClockModule(module) == InitModule(ConfigFullSpeed, module)

ClocksFunc_FullSpeed ==
  LET Module(m) == ClocksFunc_FullSpeed_InitClockModule(m) IN
    Module("SOSC") \o Module("FIRC") \o Module("SIRC") \o Module("SPLL") \o Module("SystemClkSrc")
    \o Module("SCG_CLKOUTSEL") \o Module("TRACEClkOut") \o Module("LPO")
    \o CoreClockIs(ConfigFullSpeed.core)

-----------------------------------------------------------------------------
(* What the operations and the hardware do.                                *)

Start_(c) ==
  IF sys.src = c.src
    THEN refused' = TRUE /\ UNCHANGED source
    ELSE /\ source' = [source EXCEPT ![c.src] = [state |-> "starting", div1 |-> c.div1,
                                                 div2 |-> c.div2, mult |-> c.mult]]
         /\ UNCHANGED refused

ClockOp(c) ==
  \/ /\ c.op = "start"
     /\ Start_(c)
     /\ UNCHANGED <<sys, rccr, ipSrc, ipGate, saved, routed, trace, coreClock>>
  \/ /\ c.op = "valid"
     /\ source[c.src].state = "valid"
     /\ UNCHANGED clockVars
  \/ /\ c.op = "switch"
     /\ rccr' = c.to
     /\ UNCHANGED <<source, sys, refused, ipSrc, ipGate, saved, routed, trace, coreClock>>
  \/ /\ c.op = "switched"
     /\ sys.src = c.src
     /\ UNCHANGED clockVars
  \/ /\ c.op = "ipsrc"
     /\ ipSrc' = [ipSrc EXCEPT ![c.ip] = c.src]
     /\ UNCHANGED <<source, sys, rccr, refused, ipGate, saved, routed, trace, coreClock>>
  \/ /\ c.op = "ipgate"
     /\ ipGate' = ipGate \cup {c.ip}
     /\ UNCHANGED <<source, sys, rccr, refused, ipSrc, saved, routed, trace, coreClock>>
  \/ /\ c.op \in {"divOff", "divBack"}
     /\ saved' = IF c.op = "divOff" THEN source["SOSC"].div1 ELSE saved
     /\ source' = [source EXCEPT !["SOSC"].div1 = IF c.op = "divOff" THEN 0 ELSE saved]
     /\ UNCHANGED <<sys, rccr, refused, ipSrc, ipGate, routed, trace, coreClock>>
  \/ /\ c.op = "route"
     /\ routed' = routed \cup {c.what}
     /\ UNCHANGED <<source, sys, rccr, refused, ipSrc, ipGate, saved, trace, coreClock>>
  \/ /\ c.op \in {"traceOff", "traceOn"}
     /\ trace' = (c.op = "traceOn")
     /\ UNCHANGED <<source, sys, rccr, refused, ipSrc, ipGate, saved, routed, coreClock>>
  \/ /\ c.op = "core"
     /\ coreClock' = c.mhz
     /\ UNCHANGED <<source, sys, rccr, refused, ipSrc, ipGate, saved, routed, trace>>

Fed(s) == s = "SPLL" => source["SOSC"].state = "valid"

OscillatorValid(s) ==
  /\ source[s].state = "starting" /\ Fed(s)
  /\ source' = [source EXCEPT ![s].state = "valid"]
  /\ UNCHANGED <<sys, rccr, refused, ipSrc, ipGate, saved, routed, trace, coreClock>>

\* The core changes over when the source it was told is valid.
SystemSwitches ==
  /\ sys # rccr
  /\ source[rccr.src].state = "valid" /\ Fed(rccr.src)
  /\ sys' = rccr
  /\ UNCHANGED <<source, rccr, refused, ipSrc, ipGate, saved, routed, trace, coreClock>>

Frequency(s) ==
  CASE s = "SOSC" -> 8 [] s = "SIRC" -> 8 [] s = "FIRC" -> 48
    [] s = "SPLL" -> (8 * (source["SPLL"].mult + 16)) \div 2

-----------------------------------------------------------------------------
(* The clock tree under any caller that keeps two rules: it never sets the *)
(* source the core runs from (clock_config.c:16), nor the oscillator that  *)
(* feeds it.                                                               *)

Operations ==
  [op : {"start"}, src : Sources, div1 : Divider, div2 : Divider, mult : {0, 16, 24}]
  \cup [op : {"switch"}, to : [src : Sources, div : {1, 2}]]
  \cup [op : {"ipsrc"}, ip : IPs, src : Sources] \cup [op : {"ipgate"}, ip : IPs]
  \cup [op : {"route"}, what : {"RMII", "RTC", "TRACE", "CLKOUT", "LPO"}]
  \cup [op : {"divOff", "divBack", "traceOff", "traceOn"}]
  \cup [op : {"core"}, mhz : {48, 80}]

KeepsRules(c) ==
  c.op = "start" => c.src # sys.src /\ (c.src = "SOSC" => sys.src # "SPLL")

ClockNext ==
  \/ \E c \in Operations : KeepsRules(c) /\ ClockOp(c)
  \/ \E s \in Sources : OscillatorValid(s)
  \/ SystemSwitches

ClockSpec == ClocksInit /\ [][ClockNext]_clockVars

\* The source the core runs from, and what feeds it, is valid at every moment,
\* and no initialisation was refused without anybody noticing.
SystemSourceAlive ==
  /\ source[sys.src].state = "valid" /\ Fed(sys.src)
  /\ ~refused

-----------------------------------------------------------------------------
\* What SystemCoreClockUpdate computes from the registers.
SystemCoreClockUpdate == Frequency(sys.src) \div sys.div
=============================================================================
