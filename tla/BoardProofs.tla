----------------------------- MODULE BoardProofs -----------------------------
(***************************************************************************)
(* Proofs about the board: the core never loses its clock, whatever a      *)
(* caller that keeps the two rules of ClockTree does, in whatever order;   *)
(* the board is such a caller until a clock function is called with the    *)
(* core on the SPLL, and keeps the first of the rules even then.           *)
(*                                                                         *)
(* What is left to execute is a sequence of operations, and the invariant  *)
(* is a statement about that sequence and the state together: the facts    *)
(* that hold of the registers are enough for every operation of the        *)
(* sequence, and lead to the board at rest.  The proof follows the         *)
(* composition of the functions in the code: each has a lemma that says    *)
(* which facts it needs and which it leaves, and two functions that fit    *)
(* are one that does.                                                      *)
(***************************************************************************)
EXTENDS Boot, SequenceTheorems, TLAPS

-----------------------------------------------------------------------------
(* The clock tree under any caller.                                        *)

Source == [state : {"off", "starting", "valid"}, div1 : Divider, div2 : Divider, mult : {0, 16, 24}]

\* What the invariant needs of the types.
ClockTypeOK ==
  /\ source \in [Sources -> Source]
  /\ sys \in [src : Sources, div : {1, 2}]
  /\ rccr \in [src : Sources, div : {1, 2}]
  /\ saved \in Divider

ClockInv == ClockTypeOK /\ SystemSourceAlive

\* The part of it that the first rule keeps, whatever happens to the SPLL's oscillator.
OwnSource == ClockTypeOK /\ ~refused /\ source[sys.src].state = "valid"

LEMMA InvParts == ClockInv <=> OwnSource /\ Fed(sys.src)
  BY DEF ClockInv, OwnSource, SystemSourceAlive

LEMMA ClocksInitially == ClocksInit => ClockInv
  BY DEF ClocksInit, ClockInv, ClockTypeOK, SystemSourceAlive, Fed, Sources, Source, Divider

\* The operations that change a source: only `start` can stop one; the first rule
\* keeps it from the source of the core, the second from the oscillator that feeds it.
LEMMA StartKeeps ==
  ASSUME OwnSource, NEW c \in Operations, c.op = "start", c.src # sys.src, ClockOp(c)
  PROVE  OwnSource' /\ (KeepsRules(c) /\ Fed(sys.src) => Fed(sys.src)')
<1>1. /\ c.src \in Sources /\ c.div1 \in Divider /\ c.div2 \in Divider /\ c.mult \in {0, 16, 24}
  BY DEF Operations
<1>2. /\ source' = [source EXCEPT ![c.src] = [state |-> "starting", div1 |-> c.div1,
                                              div2 |-> c.div2, mult |-> c.mult]]
      /\ UNCHANGED <<sys, rccr, refused, saved>>
  BY DEF ClockOp, Start_
<1>3. ClockTypeOK'
  BY <1>1, <1>2 DEF OwnSource, ClockTypeOK, Source
<1>4. OwnSource'
  BY <1>1, <1>2, <1>3 DEF OwnSource, ClockTypeOK
<1>5. KeepsRules(c) /\ Fed(sys.src) => Fed(sys.src)'
  BY <1>1, <1>2 DEF OwnSource, ClockTypeOK, KeepsRules, Fed, Sources
<1> QED BY <1>4, <1>5

LEMMA DividerKeeps ==
  ASSUME OwnSource, NEW c \in Operations, c.op \in {"divOff", "divBack"}, ClockOp(c)
  PROVE  OwnSource' /\ (Fed(sys.src) => Fed(sys.src)')
<1>1. /\ saved' = IF c.op = "divOff" THEN source["SOSC"].div1 ELSE saved
      /\ source' = [source EXCEPT !["SOSC"].div1 = IF c.op = "divOff" THEN 0 ELSE saved]
      /\ UNCHANGED <<sys, rccr, refused>>
  BY DEF ClockOp
<1>2. source["SOSC"] \in Source /\ source["SOSC"].div1 \in Divider
  BY DEF OwnSource, ClockTypeOK, Sources, Source
<1>3. PICK d \in Divider : source' = [source EXCEPT !["SOSC"].div1 = d]
  <2>1. saved \in Divider /\ 0 \in Divider
    BY DEF OwnSource, ClockTypeOK, Divider
  <2> QED BY <1>1, <2>1
<1>4. ClockTypeOK'
  <2>1. [source["SOSC"] EXCEPT !.div1 = d] \in Source
    BY <1>2 DEF Source
  <2>2. source' = [source EXCEPT !["SOSC"] = [source["SOSC"] EXCEPT !.div1 = d]]
    BY <1>3
  <2>3. saved' \in Divider
    BY <1>1, <1>2 DEF OwnSource, ClockTypeOK
  <2> QED BY <1>1, <2>1, <2>2, <2>3 DEF OwnSource, ClockTypeOK, Sources
<1>5. \A s \in Sources : source'[s].state = source[s].state
  BY <1>2, <1>3 DEF OwnSource, ClockTypeOK, Source, Sources
<1> QED BY <1>1, <1>4, <1>5 DEF OwnSource, ClockTypeOK, Fed, Sources

LEMMA OtherKeeps ==
  ASSUME OwnSource, NEW c \in Operations, c.op \notin {"start", "divOff", "divBack"}, ClockOp(c)
  PROVE  OwnSource' /\ (Fed(sys.src) => Fed(sys.src)')
<1>1. UNCHANGED <<source, sys, refused, saved>>
  BY DEF ClockOp, clockVars
<1>2. rccr' \in [src : Sources, div : {1, 2}]
  <2>1. CASE c.op = "switch"
    BY <2>1 DEF ClockOp, Operations
  <2>2. CASE c.op # "switch"
    BY <2>2 DEF ClockOp, clockVars, OwnSource, ClockTypeOK
  <2> QED BY <2>1, <2>2
<1> QED BY <1>1, <1>2 DEF OwnSource, ClockTypeOK, Fed

\* One operation, of a caller that keeps the first rule, or both.
LEMMA OperationKeeps ==
  ASSUME OwnSource, NEW c \in Operations, c.op = "start" => c.src # sys.src, ClockOp(c)
  PROVE  OwnSource' /\ (KeepsRules(c) /\ Fed(sys.src) => Fed(sys.src)')
  BY StartKeeps, DividerKeeps, OtherKeeps

LEMMA HardwareKeeps ==
  ASSUME OwnSource, (\E s \in Sources : OscillatorValid(s)) \/ SystemSwitches
  PROVE  OwnSource' /\ (Fed(sys.src) => Fed(sys.src)')
<1>1. ASSUME NEW s \in Sources, OscillatorValid(s)
      PROVE  OwnSource' /\ (Fed(sys.src) => Fed(sys.src)')
  <2>1. source' = [source EXCEPT ![s].state = "valid"] /\ UNCHANGED <<sys, rccr, refused, saved>>
    BY <1>1 DEF OscillatorValid
  <2>2. source[s] \in Source
    BY DEF OwnSource, ClockTypeOK
  <2>3. ClockTypeOK'
    BY <2>1, <2>2 DEF OwnSource, ClockTypeOK, Source
  <2>4. \A t \in Sources : source[t].state = "valid" => source'[t].state = "valid"
    BY <2>1, <2>2 DEF OwnSource, ClockTypeOK, Source
  <2> QED BY <2>1, <2>3, <2>4 DEF OwnSource, ClockTypeOK, Fed, Sources
<1>2. CASE SystemSwitches
  BY <1>2 DEF SystemSwitches, OwnSource, ClockTypeOK, Fed
<1> QED BY <1>1, <1>2

LEMMA ClockStepKeeps ==
  ASSUME ClockInv, ClockNext
  PROVE  ClockInv'
<1>1. OwnSource /\ Fed(sys.src)
  BY InvParts
<1>2. OwnSource' /\ Fed(sys.src)'
  <2>1. ASSUME NEW c \in Operations, KeepsRules(c), ClockOp(c) PROVE OwnSource' /\ Fed(sys.src)'
    BY <1>1, <2>1, OperationKeeps DEF KeepsRules
  <2>2. CASE (\E s \in Sources : OscillatorValid(s)) \/ SystemSwitches
    BY <1>1, <2>2, HardwareKeeps
  <2> QED BY <2>1, <2>2 DEF ClockNext
<1> QED BY <1>2 DEF ClockInv, OwnSource, SystemSourceAlive

\* Every step keeps the invariant.
THEOREM ClockInvariance == ClockSpec => []ClockInv
<1>1. ClocksInit => ClockInv
  BY ClocksInitially
<1>2. ClockInv /\ [ClockNext]_clockVars => ClockInv'
  <2> SUFFICES ASSUME ClockInv, [ClockNext]_clockVars PROVE ClockInv'
    OBVIOUS
  <2>1. CASE ClockNext
    BY <2>1, ClockStepKeeps
  <2>2. CASE UNCHANGED clockVars
    BY <2>2 DEF clockVars, ClockInv, ClockTypeOK, SystemSourceAlive, Fed
  <2> QED BY <2>1, <2>2
<1> QED BY <1>1, <1>2, PTL DEF ClockSpec

\* The source the core runs from, and the oscillator that feeds it, is valid at
\* every moment under any caller that keeps the rules (clock_config.c).
THEOREM SystemSourceAliveHolds == ClockSpec => []SystemSourceAlive
<1>1. ClockInv => SystemSourceAlive
  BY DEF ClockInv
<1> QED BY <1>1, ClockInvariance, PTL

-----------------------------------------------------------------------------
(* Sequences of operations.                                                *)

Signals ==
  {"analog", "GPIO", "RTC_CLKIN", "LPUART2_RX", "LPUART2_TX", "LPI2C0_SDA", "LPI2C0_SCL",
   "LPI2C1_SDA", "LPI2C1_SCL", "LPSPI0_SIN", "LPSPI0_SCK", "LPSPI0_SOUT", "LPSPI0_PCS2",
   "CAN0_RX", "CAN0_TX", "MDIO", "MDC", "RXD0", "RXD1", "RX_DV", "TXD0", "TXD1", "TX_CLK", "TX_EN"}
Ports == {"A", "B", "C", "D", "E"}
Irqs == {"LPUART2", "PORTA", "PORTC", "RTC"}

PinOps ==
  [op : {"gate"}, port : Ports]
  \cup [op : {"gpio"}, pin : Pins, as : {"in", "low", "high"}]
  \cup [op : {"write"}, pin : Pins, level : {"low", "high"}]
  \cup [op : {"mux", "config"}, pin : Pins, signal : Signals]
  \cup [op : {"irq"}, pin : Pins]
  \cup [op : {"filter"}, port : Ports, pins : SUBSET Pins, on : BOOLEAN]

BoardOps ==
  [op : {"watchdogOff", "sysmpu", "cacheGo", "cacheClean", "cacheOn", "uart", "rtc", "mdio",
         "create", "delay", "kernelInit", "kernelStart"}]
  \cup [op : {"prio", "nvic"}, irq : Irqs]

ClockOps == Operations \cup [op : {"valid", "switched"}, src : Sources]

Ops == PinOps \cup BoardOps \cup ClockOps

LEMMA Single == \A S : \A c \in S : <<c>> \in Seq(S)
  OBVIOUS

LEMMA Joined == \A S : \A s, t \in Seq(S) : s \o t \in Seq(S)
  OBVIOUS

LEMMA Widened == \A S, T : S \subseteq T => Seq(S) \subseteq Seq(T)
  BY SeqMonotonic

\* The operation that is executed is the first, the others stay.
LEMMA HeadAndTail ==
  ASSUME NEW S, NEW s \in Seq(S), s # <<>>
  PROVE  /\ Head(s) \in S /\ Head(s) = s[1] /\ Tail(s) \in Seq(S)
         /\ Len(s) \in Nat /\ Len(s) >= 1 /\ Len(Tail(s)) = Len(s) - 1
         /\ \A i \in 1..Len(s) - 1 : Tail(s)[i] = s[i + 1]
<1>1. Len(s) \in Nat /\ Len(s) >= 1
  BY EmptySeq
<1> QED BY <1>1, HeadTailProperties

-----------------------------------------------------------------------------
(* The functions, by the kind of their operations.                         *)

LEMMA SomePins ==
  /\ \A n \in {2, 3, 7, 9} : <<"A", n>> \in Pins
  /\ \A n \in {3, 4, 11} : <<"B", n>> \in Pins
  /\ \A n \in {0, 1, 2, 3, 10, 12, 13, 17} : <<"C", n>> \in Pins
  /\ \A n \in {7, 8, 9, 11, 12, 17} : <<"D", n>> \in Pins
  /\ \A n \in {0, 2, 4, 5, 6, 8, 12} : <<"E", n>> \in Pins
  /\ PHY_RST \in Pins /\ SW2 \in Pins /\ SW3 \in Pins
  /\ LED_GREEN \in Pins /\ LED_BLUE \in Pins /\ LED_RED \in Pins
  BY DEF Pins, PHY_RST, SW2, SW3, LED_GREEN, LED_BLUE, LED_RED

LEMMA PinCalls ==
  /\ \A p \in Ports : EnableClock(p) \in Seq(PinOps)
  /\ \A p \in Pins, x \in {"in", "low", "high"} : PinInit(p, x) \in Seq(PinOps)
  /\ \A p \in Pins, x \in {"low", "high"} : PinWrite(p, x) \in Seq(PinOps)
  /\ \A p \in Pins, x \in Signals : SetPinMux(p, x) \in Seq(PinOps)
  /\ \A p \in Pins, x \in Signals : SetPinConfig(p, x) \in Seq(PinOps)
  /\ \A p \in Pins : PinInterrupt(p) \in Seq(PinOps)
  BY DEF EnableClock, PinInit, PinWrite, SetPinMux, SetPinConfig, PinInterrupt, PinOps

-----------------------------------------------------------------------------
(* What is known of the registers.                                         *)
(*                                                                         *)
(* A fact <<kind, which, value>> says what a register holds.  Every        *)
(* operation needs some facts, establishes some and overwrites some; the   *)
(* proof carries a set of facts along what is left to execute.             *)

Off(kind, which) == <<kind, which, "off">>
On(kind, which) == <<kind, which, "on">>

WatchdogOff == Off("watchdog", "board")
CacheClean == <<"cache", "code", "clean">>
KernelReady == <<"kernel", "state", "ready">>
Phy(x) == <<"phy", "reset", x>>

\* A clock function was called with the core on the SPLL.
Recalled == On("recalled", "clock")

Outputs == Leds \cup {PHY_RST}

\* The signals of the pins; each belongs to one pin.
Wires ==
  {<< <<"A", 7>>, "RTC_CLKIN">>, << <<"D", 17>>, "LPUART2_RX">>, << <<"E", 12>>, "LPUART2_TX">>,
   << <<"D", 8>>, "LPI2C1_SDA">>, << <<"D", 9>>, "LPI2C1_SCL">>,
   << <<"A", 2>>, "LPI2C0_SDA">>, << <<"A", 3>>, "LPI2C0_SCL">>,
   << <<"B", 3>>, "LPSPI0_SIN">>, << <<"E", 0>>, "LPSPI0_SCK">>,
   << <<"E", 2>>, "LPSPI0_SOUT">>, << <<"E", 6>>, "LPSPI0_PCS2">>,
   << <<"E", 4>>, "CAN0_RX">>, << <<"E", 5>>, "CAN0_TX">>,
   << <<"B", 4>>, "MDIO">>, << <<"C", 0>>, "RXD1">>, << <<"C", 1>>, "RXD0">>,
   << <<"C", 17>>, "RX_DV">>, << <<"C", 2>>, "TXD0">>, << <<"D", 11>>, "TX_CLK">>,
   << <<"D", 12>>, "TX_EN">>, << <<"D", 7>>, "TXD1">>, << <<"E", 8>>, "MDC">>}

Wired(pin, signal) == signal \in {"analog", "GPIO"} \/ <<pin, signal>> \in Wires

\* What operation `c` needs to be known.
Allowed(d, c) ==
  /\ c.op = "start" => \E s \in Sources, n \in {1, 2} :
                         /\ <<"runs", s, n>> \in d /\ c.src # s
                         /\ c.src = "SOSC" => s # "SPLL" \/ Recalled \in d
  /\ c.op = "switch" => \E s \in Sources, n \in {1, 2} :
                          <<"runs", s, n>> \in d /\ (c.to.src = s => c.to.div = n)
  /\ c.op \in {"cacheClean", "valid", "switched"} => WatchdogOff \in d
  /\ c.op = "cacheOn" => CacheClean \in d
  /\ c.op = "create" => KernelReady \in d
  /\ c.op = "route" => /\ c.what = "RMII" => <<"div1", "SOSC", 0>> \in d
                       /\ c.what = "TRACE" => Off("trace", "clock") \in d
  /\ c.op = "ipsrc" => Off("ip", c.ip) \in d \/ <<"ipsrc", c.ip, c.src>> \in d
  /\ c.op = "ipgate" => (c.ip = "ENET" => Phy("ready") \in d /\ On("dma", "mpu") \in d)
  /\ c.op = "write" => (c.pin = PHY_RST => Off("ip", "ENET") \in d /\ <<"mux", PHY_RST, "GPIO">> \in d)
  /\ c.op = "uart" => /\ On("ip", "LPUART2") \in d /\ <<"ipsrc", "LPUART2", "SIRC">> \in d
                      /\ <<"div2", "SIRC", 1>> \in d
  /\ c.op = "mdio" => On("ip", "ENET") \in d
  /\ c.op = "rtc" => /\ On("ip", "RTC") \in d /\ On("route", "RTC") \in d
                     /\ <<"mux", <<"A", 7>>, "RTC_CLKIN">> \in d
  /\ c.op \in {"mux", "config", "irq"} => On("port", c.pin[1]) \in d
  /\ c.op \in {"mux", "config"} =>
       Wired(c.pin, c.signal) /\ (c.pin \in Outputs /\ c.signal = "GPIO" => On("output", c.pin) \in d)
  /\ c.op = "gpio" => (c.as = "in" => c.pin \notin Outputs)
  /\ c.op = "filter" => On("port", c.port) \in d
  /\ c.op = "nvic" => /\ On("prio", c.irq) \in d
                      /\ c.irq = "PORTA" => On("port", "A") \in d
                      /\ c.irq = "PORTC" => On("port", "C") \in d

\* What it does not overwrite.
Keeps(c, f) ==
  /\ c.op \in {"mux", "config"} => ~(f[1] = "mux" /\ f[2] = c.pin)
  /\ c.op = "config" => ~(f[1] = "irq" /\ f[2] = c.pin)
  /\ c.op = "gpio" => ~(f[1] = "output" /\ f[2] = c.pin)
  /\ c.op = "filter" => ~(f[1] = "filter" /\ f[2] \in c.pins)
  /\ c.op = "write" => (c.pin = PHY_RST => f[1] # "phy")
  /\ c.op = "delay" => f # Phy("held")
  /\ c.op = "start" => ~(f[1] \in {"div1", "div2", "mult", "state"} /\ f[2] = c.src)
  /\ c.op = "switch" => f[1] \notin {"runs", "told"}
  /\ c.op = "ipsrc" => ~(f[1] = "ipsrc" /\ f[2] = c.ip)
  /\ c.op = "ipgate" => f # Off("ip", c.ip)
  /\ c.op \in {"divOff", "divBack"} => ~(f[1] = "div1" /\ f[2] = "SOSC")
  /\ c.op = "divOff" => f[1] # "saved"
  /\ c.op = "traceOn" => f[1] # "trace"
  /\ c.op = "core" => f[1] # "core"
  /\ c.op \in {"cacheGo", "cacheOn"} => f[1] # "cache"
  /\ c.op = "kernelStart" => f[1] # "kernel"

\* What is known after it.
Gives(d, c, f) ==
  \/ c.op = "gate" /\ f = On("port", c.port)
  \/ c.op \in {"mux", "config"} /\ f = <<"mux", c.pin, c.signal>>
  \/ c.op = "gpio" /\ c.as # "in" /\ f = On("output", c.pin)
  \/ c.op = "irq" /\ f = On("irq", c.pin)
  \/ c.op = "filter" /\ \E p \in c.pins : f = <<"filter", p, IF c.on THEN "on" ELSE "off">>
  \/ /\ c.op = "write" /\ c.pin = PHY_RST
     /\ \/ c.level = "low" /\ f = Phy("held")
        \/ c.level = "high" /\ Phy("reset") \in d /\ f = Phy("ready")
  \/ c.op = "delay" /\ Phy("held") \in d /\ f = Phy("reset")
  \/ c.op = "start" /\ f \in {<<"div1", c.src, c.div1>>, <<"div2", c.src, c.div2>>, <<"mult", c.src, c.mult>>}
  \/ c.op = "valid" /\ f = <<"state", c.src, "valid">>
  \/ c.op = "switch" /\ f = <<"told", c.to.src, c.to.div>>
  \/ c.op = "switched" /\ \E n \in {1, 2} : <<"told", c.src, n>> \in d /\ f = <<"runs", c.src, n>>
  \/ c.op = "ipsrc" /\ f = <<"ipsrc", c.ip, c.src>>
  \/ c.op = "ipgate" /\ f = On("ip", c.ip)
  \/ /\ c.op = "divOff"
     /\ f = <<"div1", "SOSC", 0>> \/ \E n : <<"div1", "SOSC", n>> \in d /\ f = <<"saved", "SOSC", n>>
  \/ c.op = "divBack" /\ \E n : <<"saved", "SOSC", n>> \in d /\ f = <<"div1", "SOSC", n>>
  \/ c.op = "route" /\ f = On("route", c.what)
  \/ c.op = "traceOff" /\ f = Off("trace", "clock")
  \/ c.op = "core" /\ f = <<"core", "clock", c.mhz>>
  \/ c.op = "watchdogOff" /\ f = WatchdogOff
  \/ c.op = "sysmpu" /\ f = On("dma", "mpu")
  \/ c.op = "cacheClean" /\ f = CacheClean
  \/ c.op = "kernelInit" /\ f = KernelReady
  \/ c.op = "prio" /\ f = On("prio", c.irq)

Leads(d, c, e) == \A f \in e : (f \in d /\ Keeps(c, f)) \/ Gives(d, c, f)

\* A sequence of operations finds what it needs if the facts `d' hold, and the
\* facts `e' hold at its end.
Runs(s, d, e) ==
  /\ s \in Seq(Ops)
  /\ \E trail :
       /\ trail[0] \subseteq d /\ e \subseteq trail[Len(s)]
       /\ \A i \in 1..Len(s) : Allowed(trail[i - 1], s[i]) /\ Leads(trail[i - 1], s[i], trail[i])

LEMMA RunsOne ==
  ASSUME NEW c \in Ops, NEW d, NEW e, Allowed(d, c), Leads(d, c, e)
  PROVE  Runs(<<c>>, d, e)
<1> DEFINE trail == [i \in 0..1 |-> IF i = 0 THEN d ELSE e]
<1>1. trail[0] = d /\ trail[1] = e /\ Len(<<c>>) = 1 /\ <<c>> \in Seq(Ops)
  OBVIOUS
<1>2. \A i \in 1..1 : i = 1 /\ <<c>>[i] = c /\ trail[i - 1] = d /\ trail[i] = e
  OBVIOUS
<1> HIDE DEF trail
<1> QED BY <1>1, <1>2 DEF Runs

LEMMA RunsWeaker ==
  ASSUME NEW s, NEW d, NEW e, NEW c, NEW f, Runs(s, d, e), d \subseteq c, f \subseteq e
  PROVE  Runs(s, c, f)
<1>1. PICK p :
        /\ p[0] \subseteq d /\ e \subseteq p[Len(s)]
        /\ \A i \in 1..Len(s) : Allowed(p[i - 1], s[i]) /\ Leads(p[i - 1], s[i], p[i])
  BY DEF Runs
<1>2. p[0] \subseteq c /\ f \subseteq p[Len(s)] /\ s \in Seq(Ops)
  BY <1>1 DEF Runs
<1> QED BY <1>1, <1>2 DEF Runs

LEMMA RunsJoined ==
  ASSUME NEW s, NEW t, NEW d, NEW m, NEW e, Runs(s, d, m), Runs(t, m, e)
  PROVE  Runs(s \o t, d, e)
<1>1. PICK p :
        /\ p[0] \subseteq d /\ m \subseteq p[Len(s)]
        /\ \A i \in 1..Len(s) : Allowed(p[i - 1], s[i]) /\ Leads(p[i - 1], s[i], p[i])
  BY DEF Runs
<1>2. PICK q :
        /\ q[0] \subseteq m /\ e \subseteq q[Len(t)]
        /\ \A i \in 1..Len(t) : Allowed(q[i - 1], t[i]) /\ Leads(q[i - 1], t[i], q[i])
  BY DEF Runs
<1>3. /\ s \in Seq(Ops) /\ t \in Seq(Ops) /\ s \o t \in Seq(Ops)
      /\ Len(s) \in Nat /\ Len(t) \in Nat /\ Len(s \o t) = Len(s) + Len(t)
      /\ \A i \in 1..Len(s) + Len(t) : (s \o t)[i] = IF i <= Len(s) THEN s[i] ELSE t[i - Len(s)]
  BY ConcatProperties DEF Runs
<1> DEFINE trail == [i \in 0..Len(s) + Len(t) |-> IF i < Len(s) THEN p[i] ELSE q[i - Len(s)]]
<1>4. \A i \in 0..Len(s) - 1 : trail[i] = p[i]
  BY <1>3
<1>5. \A i \in 0..Len(t) : trail[Len(s) + i] = q[i]
  <2> SUFFICES ASSUME NEW i \in 0..Len(t) PROVE trail[Len(s) + i] = q[i]
    OBVIOUS
  <2>1. /\ Len(s) + i \in 0..Len(s) + Len(t) /\ i \in Nat /\ (Len(s) + i) - Len(s) = i
        /\ ~(Len(s) + i < Len(s))
    BY <1>3
  <2> QED BY <2>1
<1> HIDE DEF trail
<1>6. trail[0] \subseteq d /\ e \subseteq trail[Len(s \o t)]
  <2>1. trail[Len(s) + Len(t)] = q[Len(t)]
    BY <1>3, <1>5
  <2>2. CASE Len(s) = 0
    <3>1. trail[0] = q[0]
      BY <1>3, <1>5, <2>2
    <3> QED BY <1>1, <1>2, <1>3, <2>1, <2>2, <3>1
  <2>3. CASE Len(s) # 0
    <3>1. trail[0] = p[0]
      BY <1>3, <1>4, <2>3
    <3> QED BY <1>1, <1>2, <1>3, <2>1, <3>1
  <2> QED BY <2>2, <2>3
<1>7. ASSUME NEW i \in 1..Len(s \o t)
      PROVE  Allowed(trail[i - 1], (s \o t)[i]) /\ Leads(trail[i - 1], (s \o t)[i], trail[i])
  <2>1. CASE i < Len(s)
    <3>1. trail[i - 1] = p[i - 1] /\ trail[i] = p[i] /\ (s \o t)[i] = s[i] /\ i \in 1..Len(s)
      BY <1>3, <1>4, <2>1
    <3> QED BY <1>1, <3>1
  <2>2. CASE i = Len(s)
    <3>1. /\ trail[i - 1] = p[i - 1] /\ (s \o t)[i] = s[i] /\ i \in 1..Len(s)
          /\ i = Len(s) + 0 /\ 0 \in 0..Len(t)
      BY <1>3, <1>4, <2>2
    <3>2. trail[i] = q[0] /\ q[0] \subseteq p[i]
      BY <1>1, <1>2, <1>5, <2>2, <3>1
    <3>3. Leads(p[i - 1], s[i], q[0])
      BY <1>1, <3>1, <3>2 DEF Leads
    <3> QED BY <1>1, <3>1, <3>2, <3>3
  <2>3. CASE i > Len(s)
    <3>1. PICK j \in 1..Len(t) : i = Len(s) + j
      <4>1. i - Len(s) \in 1..Len(t) /\ i = Len(s) + (i - Len(s))
        BY <1>3, <2>3
      <4> QED BY <4>1
    <3>2. i - 1 = Len(s) + (j - 1) /\ j - 1 \in 0..Len(t) /\ j \in 0..Len(t)
      BY <1>3, <3>1
    <3>3. trail[i - 1] = q[j - 1] /\ trail[i] = q[j] /\ (s \o t)[i] = t[j]
      BY <1>3, <1>5, <2>3, <3>1, <3>2
    <3> QED BY <1>2, <3>3
  <2> QED BY <1>3, <2>1, <2>2, <2>3
<1> QED BY <1>3, <1>6, <1>7 DEF Runs

\* After the first operation, the rest runs on.
LEMMA RunsOn ==
  ASSUME NEW s, s # <<>>, NEW d, NEW e, Runs(s, d, e)
  PROVE  \E c \in SUBSET d : \E m :
           /\ Head(s) \in Ops
           /\ Allowed(c, Head(s)) /\ Leads(c, Head(s), m)
           /\ Runs(Tail(s), m, e)
<1>1. PICK p :
        /\ p[0] \subseteq d /\ e \subseteq p[Len(s)]
        /\ \A i \in 1..Len(s) : Allowed(p[i - 1], s[i]) /\ Leads(p[i - 1], s[i], p[i])
  BY DEF Runs
<1>2. /\ Head(s) \in Ops /\ Tail(s) \in Seq(Ops)
      /\ Head(s) = s[1] /\ Len(s) \in Nat /\ Len(s) >= 1 /\ Len(Tail(s)) = Len(s) - 1
      /\ \A i \in 1..Len(s) - 1 : Tail(s)[i] = s[i + 1]
  BY HeadAndTail DEF Runs
<1> DEFINE trail == [i \in 0..Len(s) - 1 |-> p[i + 1]]
<1>3. trail[0] = p[1] /\ trail[Len(Tail(s))] = p[Len(s)]
  BY <1>2
<1>4. ASSUME NEW i \in 1..Len(Tail(s))
      PROVE  Allowed(trail[i - 1], Tail(s)[i]) /\ Leads(trail[i - 1], Tail(s)[i], trail[i])
  <2>1. /\ i \in 1..Len(s) - 1 /\ i + 1 \in 1..Len(s) /\ (i + 1) - 1 = i /\ (i - 1) + 1 = i
        /\ i - 1 \in 0..Len(s) - 1 /\ i \in 0..Len(s) - 1
    BY <1>2
  <2>2. trail[i - 1] = p[i] /\ trail[i] = p[i + 1] /\ Tail(s)[i] = s[i + 1]
    BY <1>2, <2>1
  <2> QED BY <1>1, <2>1, <2>2
<1> HIDE DEF trail
<1>5. Runs(Tail(s), p[1], e)
  BY <1>1, <1>2, <1>3, <1>4 DEF Runs
<1>6. Allowed(p[0], Head(s)) /\ Leads(p[0], Head(s), p[1])
  <2>1. 1 \in 1..Len(s) /\ 1 - 1 = 0
    BY <1>2
  <2> QED BY <1>1, <1>2, <2>1
<1> QED BY <1>1, <1>2, <1>5, <1>6

LEMMA RunsNothing ==
  ASSUME NEW d, NEW e, Runs(<<>>, d, e)
  PROVE  e \subseteq d
<1>1. Len(<<>>) = 0
  OBVIOUS
<1> QED BY <1>1 DEF Runs

-----------------------------------------------------------------------------
(* The facts are about the state: what an operation does keeps them.       *)

PinsKnown(d) ==
  /\ \A p : On("port", p) \in d => p \in portGate
  /\ \A p \in Pins : \A x : <<"mux", p, x>> \in d => mux[p] = x
  /\ \A p \in Pins : On("output", p) \in d => gpio[p] # "in"
  /\ \A p : On("irq", p) \in d => p \in pinIrq
  /\ \A p : On("filter", p) \in d => p \in filtered
  /\ \A p : Off("filter", p) \in d => p \notin filtered

Clock(s, n) == [src |-> s, div |-> n]

\* `told': the core changes over, if it did not yet.
ClocksKnown(d) ==
  /\ \A s, n : <<"runs", s, n>> \in d => sys = Clock(s, n) /\ rccr = Clock(s, n)
  /\ \A s, n : <<"told", s, n>> \in d => rccr = Clock(s, n) /\ (sys.src = s => sys = rccr)
  /\ \A s \in Sources : \A n : <<"div1", s, n>> \in d => source[s].div1 = n
  /\ \A s \in Sources : \A n : <<"div2", s, n>> \in d => source[s].div2 = n
  /\ \A s \in Sources : \A n : <<"mult", s, n>> \in d => source[s].mult = n
  /\ \A s \in Sources : <<"state", s, "valid">> \in d => source[s].state = "valid"

RegistersKnown(d) ==
  /\ \A n : <<"saved", "SOSC", n>> \in d => saved = n
  /\ \A p \in IPs : \A s : <<"ipsrc", p, s>> \in d => ipSrc[p] = s
  /\ \A p : On("ip", p) \in d => p \in ipGate
  /\ \A p : Off("ip", p) \in d => p \notin ipGate
  /\ \A x : On("route", x) \in d => x \in routed
  /\ Off("trace", "clock") \in d => ~trace
  /\ \A n : <<"core", "clock", n>> \in d => coreClock = n

BoardKnown(d) ==
  /\ WatchdogOff \in d => ~watchdog
  /\ CacheClean \in d => cache = "clean"
  /\ KernelReady \in d => kernel = "ready"
  /\ \A x : Phy(x) \in d => phy = x
  /\ On("dma", "mpu") \in d => dma
  /\ \A i : On("prio", i) \in d => i \in prio
  /\ Recalled \in d => recalled

Known(d) == PinsKnown(d) /\ ClocksKnown(d) /\ RegistersKnown(d) /\ BoardKnown(d)

BoardTypeOK ==
  /\ mux \in [Pins -> Signals]
  /\ gpio \in [Pins -> {"in", "low", "high"}]
  /\ ipSrc \in [IPs -> Sources \cup {"none"}]

LEMMA KnownLess ==
  ASSUME NEW d, NEW c \in SUBSET d, Known(d)
  PROVE  Known(c)
  BY DEF Known, PinsKnown, ClocksKnown, RegistersKnown, BoardKnown

\* What the operations carry.
LEMMA OpTypes ==
  ASSUME NEW c \in Ops
  PROVE  /\ c.op = "write" => c.level \in {"low", "high"}
         /\ c.op \in {"gpio", "write", "mux", "config", "irq"} => c.pin \in Pins
         /\ c.op \in {"mux", "config"} => c.signal \in Signals
         /\ c.op = "gpio" => c.as \in {"in", "low", "high"}
         /\ c.op = "ipsrc" => c.ip \in IPs /\ c.src \in Sources
         /\ c.op \in {"start", "valid", "switched"} => c.src \in Sources
         /\ c.op = "switch" => c.to \in [src : Sources, div : {1, 2}]
  BY DEF Ops, PinOps, BoardOps, ClockOps, Operations

PortKinds == {"gate", "gpio", "write", "mux", "config", "irq", "filter"}

\* What an operation does to the ports.
LEMMA PortsTaken ==
  ASSUME NEW c \in Ops,
         \/ PortOp(c)
         \/ c.op \notin PortKinds /\ UNCHANGED portVars
  PROVE  /\ portGate' = IF c.op = "gate" THEN portGate \cup {c.port} ELSE portGate
         /\ mux' = IF c.op \in {"mux", "config"} THEN [mux EXCEPT ![c.pin] = c.signal] ELSE mux
         /\ gpio' = IF c.op = "gpio" THEN [gpio EXCEPT ![c.pin] = c.as]
                    ELSE IF c.op = "write" THEN [gpio EXCEPT ![c.pin] = IF @ = "in" THEN @ ELSE c.level]
                    ELSE gpio
         /\ pinIrq' = IF c.op = "irq" THEN pinIrq \cup {c.pin}
                      ELSE IF c.op = "config" THEN pinIrq \ {c.pin} ELSE pinIrq
         /\ filtered' = IF c.op = "filter" THEN IF c.on THEN filtered \cup c.pins ELSE filtered \ c.pins
                        ELSE filtered
  BY DEF PortOp, portVars, PortKinds

ClockKinds == {"start", "valid", "switch", "switched", "ipsrc", "ipgate", "divOff", "divBack", "route",
               "traceOff", "traceOn", "core"}

\* ... to the clocks, when it does not try to start the source of the core.
LEMMA ClocksTaken ==
  ASSUME NEW c \in Ops,
         \/ ClockOp(c)
         \/ c.op \notin ClockKinds /\ UNCHANGED clockVars,
         c.op = "start" => sys.src # c.src
  PROVE  /\ c.op = "start" =>
              source' = [source EXCEPT ![c.src] = [state |-> "starting", div1 |-> c.div1,
                                                   div2 |-> c.div2, mult |-> c.mult]]
         /\ c.op \in {"divOff", "divBack"} =>
              source' = [source EXCEPT !["SOSC"].div1 = IF c.op = "divOff" THEN 0 ELSE saved]
         /\ c.op \notin {"start", "divOff", "divBack"} => source' = source
         /\ c.op = "valid" => source[c.src].state = "valid"
         /\ c.op = "switched" => sys.src = c.src
         /\ sys' = sys
         /\ rccr' = IF c.op = "switch" THEN c.to ELSE rccr
         /\ refused' = refused
         /\ saved' = IF c.op = "divOff" THEN source["SOSC"].div1 ELSE saved
         /\ ipSrc' = IF c.op = "ipsrc" THEN [ipSrc EXCEPT ![c.ip] = c.src] ELSE ipSrc
         /\ ipGate' = IF c.op = "ipgate" THEN ipGate \cup {c.ip} ELSE ipGate
         /\ routed' = IF c.op = "route" THEN routed \cup {c.what} ELSE routed
         /\ trace' = IF c.op = "traceOff" THEN FALSE ELSE IF c.op = "traceOn" THEN TRUE ELSE trace
         /\ coreClock' = IF c.op = "core" THEN c.mhz ELSE coreClock
  BY DEF ClockOp, Start_, ClockKinds, clockVars

LEMMA PinsKept ==
  ASSUME BoardTypeOK, NEW c \in Ops, NEW d, NEW e, PinsKnown(d), Leads(d, c, e),
         \/ PortOp(c)
         \/ c.op \notin PortKinds /\ UNCHANGED portVars
  PROVE  PinsKnown(e)'
<1>1. \A p : On("port", p) \in e => p \in portGate'
  BY PortsTaken DEF PinsKnown, Leads, Gives, Keeps, On, Off, WatchdogOff, CacheClean, KernelReady, Phy
<1>2. \A p \in Pins : \A x : <<"mux", p, x>> \in e => mux'[p] = x
  BY PortsTaken DEF PinsKnown, Leads, Gives, Keeps, On, Off, WatchdogOff, CacheClean, KernelReady, Phy, BoardTypeOK
<1>3. \A p \in Pins : On("output", p) \in e => gpio'[p] # "in"
  <2> SUFFICES ASSUME NEW p \in Pins, On("output", p) \in e PROVE gpio'[p] # "in"
    OBVIOUS
  <2>1. \/ On("output", p) \in d /\ ~(c.op = "gpio" /\ p = c.pin)
        \/ c.op = "gpio" /\ c.as # "in" /\ p = c.pin
    BY DEF Leads, Gives, Keeps, On, Off, WatchdogOff, CacheClean, KernelReady, Phy
  <2>2. gpio \in [Pins -> {"in", "low", "high"}] /\ (On("output", p) \in d => gpio[p] # "in")
    BY DEF PinsKnown, BoardTypeOK
  <2>3. gpio' = IF c.op = "gpio" THEN [gpio EXCEPT ![c.pin] = c.as]
                ELSE IF c.op = "write" THEN [gpio EXCEPT ![c.pin] = IF @ = "in" THEN @ ELSE c.level]
                ELSE gpio
    BY PortsTaken
  <2>4. c.op = "write" => c.level # "in"
    BY OpTypes
  <2> QED BY <2>1, <2>2, <2>3, <2>4
<1>4. \A p : On("irq", p) \in e => p \in pinIrq'
  BY PortsTaken DEF PinsKnown, Leads, Gives, Keeps, On, Off, WatchdogOff, CacheClean, KernelReady, Phy
<1>5. \A p : On("filter", p) \in e => p \in filtered'
  BY PortsTaken DEF PinsKnown, Leads, Gives, Keeps, On, Off, WatchdogOff, CacheClean, KernelReady, Phy
<1>6. \A p : Off("filter", p) \in e => p \notin filtered'
  BY PortsTaken DEF PinsKnown, Leads, Gives, Keeps, On, Off, WatchdogOff, CacheClean, KernelReady, Phy
<1> QED BY <1>1, <1>2, <1>3, <1>4, <1>5, <1>6 DEF PinsKnown

LEMMA ClocksKept ==
  ASSUME ClockTypeOK, NEW c \in Ops, NEW d, NEW e, Allowed(d, c), Leads(d, c, e),
         ClocksKnown(d), RegistersKnown(d), c.op = "start" => sys.src # c.src,
         \/ ClockOp(c)
         \/ c.op \notin ClockKinds /\ UNCHANGED clockVars
  PROVE  ClocksKnown(e)'
<1> USE DEF Leads, Gives, Keeps, On, Off, WatchdogOff, CacheClean, KernelReady, Phy
<1>1. \A s, n : <<"runs", s, n>> \in e => sys' = Clock(s, n) /\ rccr' = Clock(s, n)
  <2> SUFFICES ASSUME NEW s, NEW n, <<"runs", s, n>> \in e
               PROVE  sys' = Clock(s, n) /\ rccr' = Clock(s, n)
    OBVIOUS
  <2>1. \/ <<"runs", s, n>> \in d /\ c.op # "switch"
        \/ c.op = "switched" /\ c.src = s /\ <<"told", s, n>> \in d
    OBVIOUS
  <2>2. sys' = sys /\ (c.op # "switch" => rccr' = rccr) /\ (c.op = "switched" => sys.src = c.src)
    BY ClocksTaken
  <2> QED BY <2>1, <2>2 DEF ClocksKnown
<1>2. \A s, n : <<"told", s, n>> \in e => rccr' = Clock(s, n) /\ (sys'.src = s => sys' = rccr')
  <2> SUFFICES ASSUME NEW s, NEW n, <<"told", s, n>> \in e
               PROVE  rccr' = Clock(s, n) /\ (sys'.src = s => sys' = rccr')
    OBVIOUS
  <2>1. \/ <<"told", s, n>> \in d /\ c.op # "switch"
        \/ c.op = "switch" /\ s = c.to.src /\ n = c.to.div
    OBVIOUS
  <2>2. sys' = sys /\ rccr' = IF c.op = "switch" THEN c.to ELSE rccr
    BY ClocksTaken
  <2>3. CASE c.op = "switch"
    <3>1. c.to = Clock(s, n)
      <4>1. c.to \in [src : Sources, div : {1, 2}]
        BY <2>3, OpTypes
      <4> QED BY <2>1, <2>3, <4>1 DEF Clock
    <3>2. PICK r \in Sources, k \in {1, 2} : <<"runs", r, k>> \in d /\ (c.to.src = r => c.to.div = k)
      BY <2>3 DEF Allowed
    <3>3. sys = Clock(r, k)
      BY <3>2 DEF ClocksKnown
    <3> QED BY <2>2, <2>3, <3>1, <3>2, <3>3 DEF Clock
  <2>4. CASE c.op # "switch"
    BY <2>1, <2>2, <2>4 DEF ClocksKnown
  <2> QED BY <2>3, <2>4
<1>3. \A s \in Sources : \A n :
        /\ <<"div1", s, n>> \in e => source'[s].div1 = n
        /\ <<"div2", s, n>> \in e => source'[s].div2 = n
        /\ <<"mult", s, n>> \in e => source'[s].mult = n
        /\ <<"state", s, "valid">> \in e => source'[s].state = "valid"
  <2> SUFFICES ASSUME NEW s \in Sources, NEW n
               PROVE  /\ <<"div1", s, n>> \in e => source'[s].div1 = n
                      /\ <<"div2", s, n>> \in e => source'[s].div2 = n
                      /\ <<"mult", s, n>> \in e => source'[s].mult = n
                      /\ <<"state", s, "valid">> \in e => source'[s].state = "valid"
    OBVIOUS
  <2>1. source \in [Sources -> Source] /\ source[s] \in Source
    BY DEF ClockTypeOK
  <2>2. CASE c.op = "start"
    <3>1. source' = [source EXCEPT ![c.src] = [state |-> "starting", div1 |-> c.div1,
                                               div2 |-> c.div2, mult |-> c.mult]]
      BY <2>2, ClocksTaken
    <3> QED BY <2>1, <2>2, <3>1 DEF ClocksKnown
  <2>3. CASE c.op \in {"divOff", "divBack"}
    <3>1. /\ \A r \in Sources \ {"SOSC"} : source'[r] = source[r]
          /\ source'["SOSC"] = [source["SOSC"] EXCEPT !.div1 = IF c.op = "divOff" THEN 0 ELSE saved]
          /\ source["SOSC"] \in Source
      <4>1. source' = [source EXCEPT !["SOSC"].div1 = IF c.op = "divOff" THEN 0 ELSE saved]
        BY <2>3, ClocksTaken
      <4> QED BY <2>1, <4>1 DEF Sources, ClockTypeOK
    <3>2. /\ source'["SOSC"].div1 = IF c.op = "divOff" THEN 0 ELSE saved
          /\ source'["SOSC"].div2 = source["SOSC"].div2
          /\ source'["SOSC"].mult = source["SOSC"].mult
          /\ source'["SOSC"].state = source["SOSC"].state
      BY <3>1 DEF Source
    <3>3. ASSUME <<"div1", s, n>> \in e PROVE source'[s].div1 = n
      <4>1. CASE s = "SOSC"
        <5>1. \/ c.op = "divOff" /\ n = 0
              \/ c.op = "divBack" /\ <<"saved", "SOSC", n>> \in d
          BY <2>3, <3>3, <4>1
        <5>2. <<"saved", "SOSC", n>> \in d => saved = n
          BY DEF RegistersKnown
        <5> QED BY <3>2, <4>1, <5>1, <5>2
      <4>2. CASE s # "SOSC"
        <5>1. <<"div1", s, n>> \in d
          BY <2>3, <3>3, <4>2
        <5> QED BY <3>1, <4>2, <5>1 DEF ClocksKnown
      <4> QED BY <4>1, <4>2
    <3>4. /\ <<"div2", s, n>> \in e => <<"div2", s, n>> \in d
          /\ <<"mult", s, n>> \in e => <<"mult", s, n>> \in d
          /\ <<"state", s, "valid">> \in e => <<"state", s, "valid">> \in d
      BY <2>3
    <3>5. source'[s].div2 = source[s].div2 /\ source'[s].mult = source[s].mult
          /\ source'[s].state = source[s].state
      BY <3>1, <3>2
    <3>6. /\ <<"div2", s, n>> \in d => source[s].div2 = n
          /\ <<"mult", s, n>> \in d => source[s].mult = n
          /\ <<"state", s, "valid">> \in d => source[s].state = "valid"
      BY DEF ClocksKnown
    <3> QED BY <3>3, <3>4, <3>5, <3>6
  <2>4. CASE c.op \notin {"start", "divOff", "divBack"}
    <3>1. source' = source /\ (c.op = "valid" => source[c.src].state = "valid")
      BY <2>4, ClocksTaken
    <3> QED BY <2>4, <3>1 DEF ClocksKnown
  <2> QED BY <2>2, <2>3, <2>4
<1> QED BY <1>1, <1>2, <1>3 DEF ClocksKnown, Clock

LEMMA RegistersKept ==
  ASSUME BoardTypeOK, NEW c \in Ops, NEW d, NEW e, Allowed(d, c), Leads(d, c, e),
         ClocksKnown(d), RegistersKnown(d), c.op = "start" => sys.src # c.src,
         \/ ClockOp(c)
         \/ c.op \notin ClockKinds /\ UNCHANGED clockVars
  PROVE  RegistersKnown(e)'
<1> USE DEF Leads, Gives, Keeps, On, Off, WatchdogOff, CacheClean, KernelReady, Phy, RegistersKnown
<1>1. ASSUME NEW n, <<"saved", "SOSC", n>> \in e PROVE saved' = n
  <2>1. \/ c.op # "divOff" /\ <<"saved", "SOSC", n>> \in d
        \/ c.op = "divOff" /\ <<"div1", "SOSC", n>> \in d
    BY <1>1
  <2>2. saved' = IF c.op = "divOff" THEN source["SOSC"].div1 ELSE saved
    BY ClocksTaken
  <2>3. <<"div1", "SOSC", n>> \in d => source["SOSC"].div1 = n
    BY DEF ClocksKnown, Sources
  <2> QED BY <2>1, <2>2, <2>3
<1>2. \A p \in IPs : \A s : <<"ipsrc", p, s>> \in e => ipSrc'[p] = s
  BY ClocksTaken DEF BoardTypeOK
<1>3. \A p : On("ip", p) \in e => p \in ipGate'
  BY ClocksTaken
<1>4. \A p : Off("ip", p) \in e => p \notin ipGate'
  BY ClocksTaken
<1>5. \A x : On("route", x) \in e => x \in routed'
  BY ClocksTaken
<1>6. Off("trace", "clock") \in e => ~trace'
  BY ClocksTaken
<1>7. \A n : <<"core", "clock", n>> \in e => coreClock' = n
  BY ClocksTaken
<1> QED BY <1>1, <1>2, <1>3, <1>4, <1>5, <1>6, <1>7

LEMMA BoardKept ==
  ASSUME NEW c \in Ops, NEW d, NEW e, Allowed(d, c), Leads(d, c, e),
         PinsKnown(d), BoardKnown(d), phy' = PhyAfter(c), recalled' = recalled,
         \/ BoardOp(c)
         \/ c.op \in ClockKinds \cup PortKinds /\ UNCHANGED registers
  PROVE  BoardKnown(e)'
<1> USE DEF Leads, Gives, Keeps, On, Off, WatchdogOff, CacheClean, KernelReady, Phy
<1>1. /\ watchdog' = IF c.op = "watchdogOff" THEN FALSE ELSE watchdog
      /\ dma' = IF c.op = "sysmpu" THEN TRUE ELSE dma
      /\ cache' = IF c.op = "cacheGo" THEN "busy" ELSE IF c.op = "cacheOn" THEN "on" ELSE cache
      /\ c.op = "cacheClean" => cache = "clean"
      /\ kernel' = IF c.op = "kernelInit" THEN "ready" ELSE IF c.op = "kernelStart" THEN "running" ELSE kernel
      /\ prio' = IF c.op = "prio" THEN prio \cup {c.irq} ELSE prio
  BY DEF BoardOp, Unless, registers, ClockKinds, PortKinds
<1>2. WatchdogOff \in e => ~watchdog'
  BY <1>1 DEF BoardKnown
<1>3. CacheClean \in e => cache' = "clean"
  BY <1>1 DEF BoardKnown
<1>4. KernelReady \in e => kernel' = "ready"
  BY <1>1 DEF BoardKnown
<1>5. \A x : Phy(x) \in e => phy' = x
  <2> SUFFICES ASSUME NEW x, Phy(x) \in e PROVE phy' = x
    OBVIOUS
  <2>1. CASE c.op = "write"
    <3>1. CASE c.pin = PHY_RST
      <4>1. mux[PHY_RST] = "GPIO"
        BY <2>1, <3>1 DEF Allowed, PinsKnown, PHY_RST, Pins
      <4>2. \/ c.level = "low" /\ x = "held"
            \/ c.level = "high" /\ x = "ready" /\ phy = "reset"
        BY <2>1, <3>1 DEF BoardKnown
      <4>3. PhyAfter(c) = IF c.level = "low" THEN "held" ELSE IF phy = "reset" THEN "ready" ELSE "unknown"
        BY <2>1, <3>1, <4>1 DEF PhyAfter
      <4> QED BY <4>2, <4>3
    <3>2. CASE c.pin # PHY_RST
      BY <2>1, <3>2 DEF PhyAfter, BoardKnown
    <3> QED BY <3>1, <3>2
  <2>2. CASE c.op = "delay"
    BY <2>2 DEF PhyAfter, BoardKnown
  <2>3. CASE c.op \notin {"write", "delay"}
    BY <2>3 DEF PhyAfter, BoardKnown
  <2> QED BY <2>1, <2>2, <2>3
<1>6. On("dma", "mpu") \in e => dma'
  BY <1>1 DEF BoardKnown
<1>7. \A i : On("prio", i) \in e => i \in prio'
  BY <1>1 DEF BoardKnown
<1>8. Recalled \in e => recalled'
  BY DEF BoardKnown, Recalled
<1> QED BY <1>2, <1>3, <1>4, <1>5, <1>6, <1>7, <1>8 DEF BoardKnown

-----------------------------------------------------------------------------
(* One operation.                                                          *)

\* What every moment of the board keeps, besides the facts.
Served ==
  /\ nvic \subseteq prio
  /\ "PORTA" \in nvic => "A" \in portGate
  /\ "PORTC" \in nvic => "C" \in portGate
EthernetReady == "ENET" \in ipGate => phy = "ready" /\ dma
OutputsDirected == \A p \in Outputs : mux[p] = "GPIO" => gpio[p] # "in"
WellWired == \A p \in Pins : Wired(p, mux[p])

\* The core has its clock, but for the oscillator behind the SPLL in a later call.
ClockStands == OwnSource /\ (Fed(sys.src) \/ recalled)

Standing == ClockStands /\ BoardTypeOK /\ Served /\ EthernetReady /\ OutputsDirected /\ WellWired

\* The first of `todo', executed.
Step(c) ==
  /\ \/ PortOp(c) /\ UNCHANGED <<clockVars, registers>>
     \/ ClockOp(c) /\ UNCHANGED <<portVars, registers>>
     \/ BoardOp(c) /\ UNCHANGED <<portVars, clockVars>>
  /\ phy' = PhyAfter(c)
  /\ recalled' = recalled

\* The three kinds of operations do not overlap.
LEMMA Kinds ==
  ASSUME NEW c \in Ops, Step(c)
  PROVE  /\ \/ PortOp(c)
            \/ c.op \notin PortKinds /\ UNCHANGED portVars
         /\ \/ ClockOp(c)
            \/ c.op \notin ClockKinds /\ UNCHANGED clockVars
         /\ \/ BoardOp(c)
            \/ c.op \in ClockKinds \cup PortKinds /\ UNCHANGED registers
<1>1. CASE PortOp(c) /\ UNCHANGED <<clockVars, registers>>
  <2>1. c.op \in PortKinds /\ c.op \notin ClockKinds
    BY <1>1 DEF PortOp, PortKinds, ClockKinds
  <2> QED BY <1>1, <2>1
<1>2. CASE ClockOp(c) /\ UNCHANGED <<portVars, registers>>
  <2>1. c.op \in ClockKinds /\ c.op \notin PortKinds
    BY <1>2 DEF ClockOp, PortKinds, ClockKinds
  <2> QED BY <1>2, <2>1
<1>3. CASE BoardOp(c) /\ UNCHANGED <<portVars, clockVars>>
  <2>1. c.op \notin PortKinds /\ c.op \notin ClockKinds
    BY <1>3 DEF BoardOp, PortKinds, ClockKinds
  <2> QED BY <1>3, <2>1
<1> QED BY <1>1, <1>2, <1>3 DEF Step

\* An operation that is allowed keeps the first rule of the clock tree, and both
\* until a clock function is called again.
LEMMA RulesKept ==
  ASSUME NEW c \in Ops, NEW d, Known(d), Allowed(d, c)
  PROVE  (c.op = "start" => c.src # sys.src) /\ (recalled \/ KeepsRules(c))
<1> SUFFICES ASSUME c.op = "start"
             PROVE  c.src # sys.src /\ (c.src = "SOSC" => sys.src # "SPLL" \/ recalled)
  BY DEF KeepsRules
<1>1. PICK s \in Sources, n \in {1, 2} :
        <<"runs", s, n>> \in d /\ c.src # s /\ (c.src = "SOSC" => s # "SPLL" \/ Recalled \in d)
  BY DEF Allowed
<1>2. sys.src = s
  BY <1>1 DEF Known, ClocksKnown, Clock
<1>3. Recalled \in d => recalled
  BY DEF Known, BoardKnown
<1> QED BY <1>1, <1>2, <1>3

\* What it does to the clocks is an operation of the clock tree, or nothing.
LEMMA ClocksMove ==
  ASSUME NEW c \in Ops, Step(c)
  PROVE  UNCHANGED clockVars \/ (c \in Operations /\ ClockOp(c))
<1>1. CASE ClockOp(c)
  <2>1. CASE c.op \in {"valid", "switched"}
    BY <1>1, <2>1 DEF ClockOp
  <2>2. CASE c.op \notin {"valid", "switched"}
    <3>1. c.op \in ClockKinds
      BY <1>1 DEF ClockOp, ClockKinds
    <3> QED BY <1>1, <2>2, <3>1 DEF Ops, PinOps, BoardOps, ClockOps, ClockKinds
  <2> QED BY <2>1, <2>2
<1> QED BY <1>1, Kinds

LEMMA ClocksStep ==
  ASSUME NEW c \in Ops, NEW d, Known(d), Allowed(d, c), Step(c)
  PROVE  recalled \/ [ClockNext]_clockVars
  BY RulesKept, ClocksMove DEF ClockNext

LEMMA ClocksStandStep ==
  ASSUME ClockStands, NEW c \in Ops, NEW d, Known(d), Allowed(d, c), Step(c)
  PROVE  ClockStands'
<1>1. (c.op = "start" => c.src # sys.src) /\ (recalled \/ KeepsRules(c)) /\ recalled' = recalled
  BY RulesKept DEF Step
<1>2. CASE UNCHANGED clockVars
  BY <1>1, <1>2 DEF clockVars, ClockStands, OwnSource, ClockTypeOK, Fed
<1>3. CASE c \in Operations /\ ClockOp(c)
  BY <1>1, <1>3, OperationKeeps DEF ClockStands
<1> QED BY <1>2, <1>3, ClocksMove

LEMMA FactsStep ==
  ASSUME Standing, NEW c \in Ops, NEW d, NEW e, Known(d), Allowed(d, c), Leads(d, c, e), Step(c)
  PROVE  Known(e)'
<1>1. c.op = "start" => sys.src # c.src
  BY RulesKept
<1>2. PinsKnown(e)'
  BY PinsKept, Kinds DEF Known, Standing
<1>3. ClocksKnown(e)'
  BY <1>1, ClocksKept, Kinds DEF Known, Standing, ClockStands, OwnSource
<1>4. RegistersKnown(e)'
  BY <1>1, RegistersKept, Kinds DEF Known, Standing
<1>5. BoardKnown(e)'
  BY BoardKept, Kinds DEF Known, Step
<1> QED BY <1>2, <1>3, <1>4, <1>5 DEF Known

LEMMA StandingStep ==
  ASSUME Standing, NEW c \in Ops, NEW d, Known(d), Allowed(d, c), Step(c)
  PROVE  Standing'
<1>1. ClockStands'
  BY ClocksStandStep DEF Standing
<1>2. c.op = "start" => sys.src # c.src
  BY RulesKept
<1>3. /\ portGate' = IF c.op = "gate" THEN portGate \cup {c.port} ELSE portGate
      /\ mux' = IF c.op \in {"mux", "config"} THEN [mux EXCEPT ![c.pin] = c.signal] ELSE mux
      /\ gpio' = IF c.op = "gpio" THEN [gpio EXCEPT ![c.pin] = c.as]
                 ELSE IF c.op = "write" THEN [gpio EXCEPT ![c.pin] = IF @ = "in" THEN @ ELSE c.level]
                 ELSE gpio
  BY PortsTaken, Kinds
<1>4. /\ ipSrc' = IF c.op = "ipsrc" THEN [ipSrc EXCEPT ![c.ip] = c.src] ELSE ipSrc
      /\ ipGate' = IF c.op = "ipgate" THEN ipGate \cup {c.ip} ELSE ipGate
  BY <1>2, ClocksTaken, Kinds
<1>5. /\ dma' = IF c.op = "sysmpu" THEN TRUE ELSE dma
      /\ prio' = IF c.op = "prio" THEN prio \cup {c.irq} ELSE prio
      /\ nvic' = IF c.op = "nvic" THEN nvic \cup {c.irq} ELSE nvic
  <2>1. CASE BoardOp(c)
    BY <2>1 DEF BoardOp, Unless
  <2>2. CASE c.op \in ClockKinds \cup PortKinds /\ UNCHANGED registers
    BY <2>2 DEF registers, ClockKinds, PortKinds
  <2> QED BY <2>1, <2>2, Kinds
<1>6. BoardTypeOK'
  <2>1. mux' \in [Pins -> Signals]
    BY <1>3, OpTypes DEF Standing, BoardTypeOK
  <2>2. gpio' \in [Pins -> {"in", "low", "high"}]
    BY <1>3, OpTypes DEF Standing, BoardTypeOK
  <2>3. ipSrc' \in [IPs -> Sources \cup {"none"}]
    BY <1>4, OpTypes DEF Standing, BoardTypeOK
  <2> QED BY <2>1, <2>2, <2>3 DEF BoardTypeOK
<1>7. Served'
  <2>1. c.op = "nvic" => /\ c.irq \in prio
                         /\ c.irq = "PORTA" => "A" \in portGate
                         /\ c.irq = "PORTC" => "C" \in portGate
    BY DEF Allowed, Known, BoardKnown, PinsKnown
  <2> QED BY <1>3, <1>5, <2>1 DEF Standing, Served
<1>8. EthernetReady'
  <2> SUFFICES ASSUME "ENET" \in ipGate' PROVE phy' = "ready" /\ dma'
    BY DEF EthernetReady
  <2>1. phy = "ready" /\ dma
    <3>1. CASE "ENET" \in ipGate
      BY <3>1 DEF Standing, EthernetReady
    <3>2. CASE "ENET" \notin ipGate
      <4>1. c.op = "ipgate" /\ c.ip = "ENET"
        BY <1>4, <3>2
      <4> QED BY <4>1 DEF Allowed, Known, BoardKnown
    <3> QED BY <3>1, <3>2
  <2>2. ~(c.op = "write" /\ c.pin = PHY_RST)
    <3> SUFFICES ASSUME c.op = "write", c.pin = PHY_RST PROVE FALSE
      OBVIOUS
    <3>1. "ENET" \notin ipGate
      BY DEF Allowed, Known, RegistersKnown
    <3> QED BY <1>4, <3>1
  <2>3. phy' = phy
    BY <2>1, <2>2 DEF Step, PhyAfter
  <2> QED BY <1>5, <2>1, <2>3
<1>9. OutputsDirected'
  <2> SUFFICES ASSUME NEW p \in Outputs, mux'[p] = "GPIO" PROVE gpio'[p] # "in"
    BY DEF OutputsDirected
  <2>1. p \in Pins /\ mux \in [Pins -> Signals] /\ gpio \in [Pins -> {"in", "low", "high"}]
    BY SomePins DEF Outputs, Leds, Standing, BoardTypeOK
  <2>2. gpio[p] # "in"
    <3>1. CASE mux[p] = "GPIO"
      BY <3>1 DEF Standing, OutputsDirected
    <3>2. CASE mux[p] # "GPIO"
      <4>1. c.op \in {"mux", "config"} /\ c.pin = p /\ c.signal = "GPIO"
        BY <1>3, <2>1, <3>2
      <4> QED BY <2>1, <4>1 DEF Allowed, Known, PinsKnown
    <3> QED BY <3>1, <3>2
  <2>3. c.op = "gpio" /\ c.pin = p => c.as # "in"
    BY DEF Allowed
  <2>4. c.op = "write" => c.level # "in"
    BY OpTypes
  <2> QED BY <1>3, <2>1, <2>2, <2>3, <2>4
<1>10. WellWired'
  <2> SUFFICES ASSUME NEW p \in Pins PROVE Wired(p, mux'[p])
    BY DEF WellWired
  <2>1. CASE mux'[p] = mux[p]
    BY <2>1 DEF Standing, WellWired
  <2>2. CASE mux'[p] # mux[p]
    <3>1. c.op \in {"mux", "config"} /\ c.pin = p /\ mux'[p] = c.signal
      BY <1>3, <2>2 DEF Standing, BoardTypeOK
    <3> QED BY <3>1 DEF Allowed
  <2> QED BY <2>1, <2>2
<1> QED BY <1>1, <1>6, <1>7, <1>8, <1>9, <1>10 DEF Standing

-----------------------------------------------------------------------------
(* The groups of pins.                                                     *)

GpioPins == Outputs \cup {SW2, SW3}
Wiring == Wires \cup (GpioPins \X {"GPIO"})
EnetPins == {<<"B", 4>>, <<"C", 0>>, <<"C", 1>>, <<"C", 2>>, PHY_RST, <<"C", 17>>,
             <<"D", 7>>, <<"D", 11>>, <<"D", 12>>, <<"E", 8>>}

\* What the functions do with the pins of an area: every pin has one signal, one
\* direction, and one side of the digital filter.
Proper(area) ==
  {c \in PinOps :
     /\ c.op # "write"
     /\ c.op \in {"gpio", "mux", "config", "irq"} => c.pin \in area
     /\ c.op \in {"mux", "config"} => <<c.pin, c.signal>> \in Wiring
     /\ c.op = "config" => c.pin \notin {SW2, SW3}
     /\ c.op = "irq" => c.pin \in {SW2, SW3}
     /\ c.op = "gpio" => (c.as = "in" <=> c.pin \notin Outputs)
     /\ c.op = "filter" => c.pins \subseteq area /\ (IF c.on THEN c.pins \subseteq {SW2} ELSE SW2 \notin c.pins)}

PinFacts ==
  ({"mux"} \X Pins \X Signals) \cup ({"irq", "output"} \X Pins \X {"on"})
  \cup ({"filter"} \X Pins \X {"on", "off"}) \cup ({"port"} \X Ports \X {"on"})

\* The facts that such operations establish ...
Planned ==
  {f \in PinFacts :
     /\ f[1] = "mux" => <<f[2], f[3]>> \in Wiring
     /\ f[1] = "irq" => f[2] \in {SW2, SW3}
     /\ f[1] = "output" => f[2] \in Outputs
     /\ f[1] = "filter" => (f[3] = "on" <=> f[2] = SW2)}

\* ... of which a sequence has established those.
Done(s) == {f \in PinFacts : \E c \in Calls(s) : Gives({}, c, f)}

Effects(g) == Done(Groups[g])

LEMMA OneSignal ==
  ASSUME NEW p, NEW x, NEW y, <<p, x>> \in Wiring, <<p, y>> \in Wiring
  PROVE  x = y
  BY DEF Wiring, Wires, GpioPins, Outputs, Leds, PHY_RST, SW2, SW3, LED_GREEN, LED_BLUE, LED_RED

LEMMA PinFactKinds ==
  ASSUME NEW f \in PinFacts
  PROVE  \/ \E p \in Pins, x \in Signals : f = <<"mux", p, x>>
         \/ \E p \in Pins : f \in {On("irq", p), On("output", p), On("filter", p), Off("filter", p)}
         \/ \E p \in Ports : f = On("port", p)
  BY DEF PinFacts, On, Off

\* No function undoes what one of them, itself or another, has established.
LEMMA PlansAgree ==
  ASSUME NEW area, NEW c \in Proper(area), NEW f \in Planned
  PROVE  Keeps(c, f) \/ Gives({}, c, f)
<1>1. /\ c.op \in {"gate", "gpio", "mux", "config", "irq", "filter"}
      /\ c.op \in {"mux", "config"} => <<c.pin, c.signal>> \in Wiring
      /\ c.op = "config" => c.pin \notin {SW2, SW3}
      /\ c.op = "gpio" => (c.as = "in" <=> c.pin \notin Outputs)
      /\ c.op = "filter" => IF c.on THEN c.pins \subseteq {SW2} ELSE SW2 \notin c.pins
  BY DEF Proper, PinOps
<1>2. ASSUME NEW p \in Pins, NEW x \in Signals, f = <<"mux", p, x>>
      PROVE  Keeps(c, f) \/ Gives({}, c, f)
  <2>1. CASE c.op \in {"mux", "config"} /\ c.pin = p
    <3>1. c.signal = x
      BY <1>1, <1>2, <2>1, OneSignal DEF Planned
    <3> QED BY <1>2, <2>1, <3>1 DEF Gives
  <2>2. CASE ~(c.op \in {"mux", "config"} /\ c.pin = p)
    BY <1>1, <1>2, <2>2 DEF Keeps, Phy
  <2> QED BY <2>1, <2>2
<1>3. ASSUME NEW p \in Pins, f = On("irq", p)
      PROVE  Keeps(c, f)
  BY <1>1, <1>3 DEF Keeps, Phy, On, Planned
<1>4. ASSUME NEW p \in Pins, f = On("output", p)
      PROVE  Keeps(c, f) \/ Gives({}, c, f)
  BY <1>1, <1>4 DEF Keeps, Gives, Phy, On, Planned
<1>5. ASSUME NEW p \in Pins, f \in {On("filter", p), Off("filter", p)}
      PROVE  Keeps(c, f) \/ Gives({}, c, f)
  <2>1. f[1] = "filter" /\ f[2] = p /\ (f[3] = "on" <=> p = SW2) /\ f[3] \in {"on", "off"} /\ f = <<"filter", p, f[3]>>
    BY <1>5 DEF On, Off, Planned
  <2>2. CASE c.op = "filter" /\ p \in c.pins
    <3>1. f[3] = IF c.on THEN "on" ELSE "off"
      BY <1>1, <2>1, <2>2
    <3> QED BY <2>1, <2>2, <3>1 DEF Gives
  <2>3. CASE ~(c.op = "filter" /\ p \in c.pins)
    BY <1>1, <2>1, <2>3 DEF Keeps, Phy
  <2> QED BY <2>2, <2>3
<1>6. ASSUME NEW p \in Ports, f = On("port", p)
      PROVE  Keeps(c, f)
  BY <1>1, <1>6 DEF Keeps, Phy, On
<1> QED BY <1>2, <1>3, <1>4, <1>5, <1>6, PinFactKinds DEF Planned

PinKinds == {"mux", "irq", "output", "filter"}

LEMMA OthersKept ==
  ASSUME NEW area, NEW c \in Proper(area), NEW f, f[1] \notin PinKinds
  PROVE  Keeps(c, f)
<1>1. c.op \in {"gate", "gpio", "mux", "config", "irq", "filter"}
  BY DEF Proper, PinOps
<1> QED BY <1>1 DEF Keeps, PinKinds

\* To know more does not hurt.
LEMMA MoreKnown ==
  ASSUME NEW d, NEW e, d \subseteq e, NEW c
  PROVE  /\ Allowed(d, c) => Allowed(e, c)
         /\ \A f : Gives(d, c, f) => Gives(e, c, f)
<1>1. ASSUME Allowed(d, c) PROVE Allowed(e, c)
  <2>1. c.op = "start" => \E s \in Sources, n \in {1, 2} :
          <<"runs", s, n>> \in e /\ c.src # s /\ (c.src = "SOSC" => s # "SPLL" \/ Recalled \in e)
    BY <1>1 DEF Allowed
  <2>2. c.op = "switch" => \E s \in Sources, n \in {1, 2} :
          <<"runs", s, n>> \in e /\ (c.to.src = s => c.to.div = n)
    BY <1>1 DEF Allowed
  <2>3. \A x : x \in d => x \in e
    OBVIOUS
  <2> QED BY <1>1, <2>1, <2>2, <2>3 DEF Allowed
<1>2. \A f : Gives(d, c, f) => Gives(e, c, f)
  BY DEF Gives
<1> QED BY <1>1, <1>2

LEMMA CallsJoined ==
  ASSUME NEW s \in Seq(Ops), NEW t \in Seq(Ops)
  PROVE  Calls(s \o t) = Calls(s) \cup Calls(t)
<1>1. /\ Len(s) \in Nat /\ Len(t) \in Nat /\ s \o t \in Seq(Ops) /\ Len(s \o t) = Len(s) + Len(t)
      /\ \A i \in 1..Len(s) + Len(t) : (s \o t)[i] = IF i <= Len(s) THEN s[i] ELSE t[i - Len(s)]
      /\ DOMAIN s = 1..Len(s) /\ DOMAIN t = 1..Len(t) /\ DOMAIN (s \o t) = 1..Len(s) + Len(t)
  BY ConcatProperties
<1>2. Calls(s \o t) \subseteq Calls(s) \cup Calls(t)
  <2> SUFFICES ASSUME NEW i \in 1..Len(s) + Len(t)
               PROVE  (s \o t)[i] \in Calls(s) \cup Calls(t)
    BY <1>1 DEF Calls
  <2>1. CASE i <= Len(s)
    BY <1>1, <2>1 DEF Calls
  <2>2. CASE i > Len(s)
    <3>1. i - Len(s) \in 1..Len(t) /\ (s \o t)[i] = t[i - Len(s)]
      BY <1>1, <2>2
    <3> QED BY <1>1, <3>1 DEF Calls
  <2> QED BY <1>1, <2>1, <2>2
<1>3. Calls(s) \subseteq Calls(s \o t)
  <2> SUFFICES ASSUME NEW i \in 1..Len(s) PROVE s[i] \in Calls(s \o t)
    BY <1>1 DEF Calls
  <2>1. i \in 1..Len(s) + Len(t) /\ (s \o t)[i] = s[i]
    BY <1>1
  <2> QED BY <1>1, <2>1 DEF Calls
<1>4. Calls(t) \subseteq Calls(s \o t)
  <2> SUFFICES ASSUME NEW i \in 1..Len(t) PROVE t[i] \in Calls(s \o t)
    BY <1>1 DEF Calls
  <2>1. Len(s) + i \in 1..Len(s) + Len(t) /\ ~(Len(s) + i <= Len(s)) /\ (Len(s) + i) - Len(s) = i
    BY <1>1
  <2>2. (s \o t)[Len(s) + i] = t[i]
    BY <1>1, <2>1
  <2> QED BY <1>1, <2>1, <2>2 DEF Calls
<1> QED BY <1>2, <1>3, <1>4

LEMMA DoneOne ==
  ASSUME NEW c
  PROVE  Done(<<c>>) = {f \in PinFacts : Gives({}, c, f)}
<1>1. Calls(<<c>>) = {c}
  BY DEF Calls
<1> QED BY <1>1 DEF Done

LEMMA DoneJoined ==
  ASSUME NEW s \in Seq(Ops), NEW t \in Seq(Ops)
  PROVE  Done(s \o t) = Done(s) \cup Done(t)
  BY CallsJoined DEF Done

\* What a proper operation establishes is planned.
LEMMA GivenPlanned ==
  ASSUME NEW area, NEW c \in Proper(area), NEW f \in PinFacts, Gives({}, c, f)
  PROVE  f \in Planned
<1>1. /\ c.op \in {"gate", "gpio", "mux", "config", "irq", "filter"}
      /\ c.op \in {"mux", "config"} => <<c.pin, c.signal>> \in Wiring
      /\ c.op = "irq" => c.pin \in {SW2, SW3}
      /\ c.op = "gpio" => (c.as = "in" <=> c.pin \notin Outputs)
      /\ c.op = "filter" => IF c.on THEN c.pins \subseteq {SW2} ELSE SW2 \notin c.pins
  BY DEF Proper, PinOps
<1>2. \/ c.op = "gate" /\ f = On("port", c.port)
      \/ c.op \in {"mux", "config"} /\ f = <<"mux", c.pin, c.signal>>
      \/ c.op = "gpio" /\ c.as # "in" /\ f = On("output", c.pin)
      \/ c.op = "irq" /\ f = On("irq", c.pin)
      \/ c.op = "filter" /\ \E p \in c.pins : f = <<"filter", p, IF c.on THEN "on" ELSE "off">>
  BY <1>1 DEF Gives
<1> QED BY <1>1, <1>2 DEF Planned, On

Stable(d) == \A f \in d : f \in Planned \/ f[1] \notin PinKinds

\* Such a sequence adds to what is known, and the facts `m' are known at its end.
Grows(s, d, m, area) ==
  s \in Seq(Proper(area)) /\ Runs(s, d, d \cup Done(s)) /\ m \subseteq d \cup Done(s)

LEMMA ProperOps == \A area : Proper(area) \subseteq Ops
  BY DEF Proper, Ops

LEMMA DonePlanned ==
  ASSUME NEW area, NEW s \in Seq(Proper(area))
  PROVE  Done(s) \subseteq Planned
<1>1. \A c \in Calls(s) : c \in Proper(area)
  BY DEF Calls
<1> QED BY <1>1, GivenPlanned DEF Done

LEMMA GrowsOn ==
  ASSUME NEW area, NEW s, NEW d, NEW m, Stable(d), Grows(s, d, m, area),
         NEW c \in Proper(area), Allowed(m, c)
  PROVE  Grows(s \o <<c>>, d, m, area)
<1> DEFINE k == d \cup Done(s)
           e == d \cup Done(s \o <<c>>)
<1>1. s \in Seq(Ops) /\ <<c>> \in Seq(Ops) /\ c \in Ops /\ s \in Seq(Proper(area))
  BY ProperOps, Widened, Single DEF Grows
<1>2. Done(s \o <<c>>) = Done(s) \cup {f \in PinFacts : Gives({}, c, f)}
  BY <1>1, DoneOne, DoneJoined
<1>3. Allowed(k, c)
  BY MoreKnown DEF Grows
<1>4. Leads(k, c, e)
  <2> SUFFICES ASSUME NEW f \in e PROVE (f \in k /\ Keeps(c, f)) \/ Gives(k, c, f)
    BY DEF Leads
  <2>1. CASE f \in k
    <3>1. f \in Planned \/ f[1] \notin PinKinds
      BY <1>1, <2>1, DonePlanned DEF Stable
    <3>2. Keeps(c, f) \/ Gives({}, c, f)
      BY <3>1, PlansAgree, OthersKept
    <3> QED BY <2>1, <3>2, MoreKnown
  <2>2. CASE f \notin k
    <3>1. Gives({}, c, f)
      BY <1>2, <2>2
    <3> QED BY <3>1, MoreKnown
  <2> QED BY <2>1, <2>2
<1>5. Runs(s \o <<c>>, d, e)
  <2>1. Runs(<<c>>, k, e)
    BY <1>1, <1>3, <1>4, RunsOne
  <2> QED BY <2>1, RunsJoined DEF Grows
<1>6. s \o <<c>> \in Seq(Proper(area))
  BY <1>1, Single, Joined
<1> QED BY <1>2, <1>5, <1>6 DEF Grows

LEMMA GrowsFrom ==
  ASSUME NEW area, NEW d
  PROVE  Grows(<<>>, d, {}, area)
<1> DEFINE trail == [i \in 0..0 |-> d]
<1>1. trail[0] = d /\ Len(<<>>) = 0 /\ 1..0 = {} /\ Calls(<<>>) = {}
  BY DEF Calls
<1>2. Done(<<>>) = {}
  BY <1>1 DEF Done
<1> HIDE DEF trail
<1> QED BY <1>1, <1>2 DEF Grows, Runs

\* The calls of pin_mux.c, one by one.
LEMMA GateGrows ==
  ASSUME NEW area, NEW s, NEW d, NEW m, Stable(d), Grows(s, d, m, area), NEW p \in Ports
  PROVE  Grows(s \o EnableClock(p), d, m \cup {On("port", p)}, area)
<1> DEFINE c == [op |-> "gate", port |-> p]
<1>1. c \in Proper(area)
  BY DEF Proper, PinOps
<1>2. Allowed(m, c)
  BY DEF Allowed
<1>3. On("port", p) \in Done(s \o <<c>>)
  <2>1. s \in Seq(Ops) /\ <<c>> \in Seq(Ops)
    BY <1>1, ProperOps, Widened, Single DEF Grows
  <2>2. On("port", p) \in PinFacts /\ Gives({}, c, On("port", p))
    BY DEF PinFacts, On, Gives
  <2> HIDE DEF c
  <2>3. On("port", p) \in Done(<<c>>)
    BY <2>2, DoneOne
  <2> QED BY <2>1, <2>3, DoneJoined
<1>4. EnableClock(p) = <<c>>
  BY DEF EnableClock
<1> HIDE DEF c
<1>5. Grows(s \o <<c>>, d, m, area)
  BY <1>1, <1>2, GrowsOn
<1> QED BY <1>3, <1>4, <1>5 DEF Grows

LEMMA PinInitGrows ==
  ASSUME NEW area, NEW s, NEW d, NEW m, Stable(d), Grows(s, d, m, area), NEW p \in area \cap Pins,
         NEW x \in {"in", "low", "high"}, x = "in" <=> p \notin Outputs
  PROVE  Grows(s \o PinInit(p, x), d, m \cup (IF x = "in" THEN {} ELSE {On("output", p)}), area)
<1> DEFINE c == [op |-> "gpio", pin |-> p, as |-> x]
<1>1. c \in Proper(area)
  BY DEF Proper, PinOps
<1>2. Allowed(m, c)
  BY DEF Allowed
<1>3. x # "in" => On("output", p) \in Done(s \o <<c>>)
  <2>1. s \in Seq(Ops) /\ <<c>> \in Seq(Ops)
    BY <1>1, ProperOps, Widened, Single DEF Grows
  <2>2. On("output", p) \in PinFacts /\ (x # "in" => Gives({}, c, On("output", p)))
    BY DEF PinFacts, On, Gives
  <2> HIDE DEF c
  <2>3. x # "in" => On("output", p) \in Done(<<c>>)
    BY <2>2, DoneOne
  <2> QED BY <2>1, <2>3, DoneJoined
<1>4. PinInit(p, x) = <<c>>
  BY DEF PinInit
<1> HIDE DEF c
<1>5. Grows(s \o <<c>>, d, m, area)
  BY <1>1, <1>2, GrowsOn
<1> QED BY <1>3, <1>4, <1>5 DEF Grows

WiredIn(p, x, m, area) ==
  /\ p \in area \cap Pins /\ <<p, x>> \in Wiring
  /\ On("port", p[1]) \in m
  /\ p \in Outputs => On("output", p) \in m

LEMMA WiringSignals ==
  ASSUME NEW p, NEW x, <<p, x>> \in Wiring
  PROVE  x \in Signals /\ Wired(p, x)
  BY DEF Wiring, Wires, Signals, Wired

LEMMA MuxGrows ==
  ASSUME NEW area, NEW s, NEW d, NEW m, Stable(d), Grows(s, d, m, area),
         NEW p, NEW x, WiredIn(p, x, m, area)
  PROVE  /\ Grows(s \o SetPinMux(p, x), d, m, area)
         /\ p \notin {SW2, SW3} => Grows(s \o SetPinConfig(p, x), d, m, area)
<1> DEFINE c == [op |-> "mux", pin |-> p, signal |-> x]
           b == [op |-> "config", pin |-> p, signal |-> x]
<1>1. /\ c \in Proper(area)
      /\ p \notin {SW2, SW3} => b \in Proper(area)
  BY WiringSignals DEF Proper, PinOps, WiredIn
<1>2. Allowed(m, c) /\ Allowed(m, b)
  BY WiringSignals DEF Allowed, WiredIn
<1>3. SetPinMux(p, x) = <<c>> /\ SetPinConfig(p, x) = <<b>>
  BY DEF SetPinMux, SetPinConfig
<1> HIDE DEF b, c
<1> QED BY <1>1, <1>2, <1>3, GrowsOn

LEMMA InterruptGrows ==
  ASSUME NEW area, NEW s, NEW d, NEW m, Stable(d), Grows(s, d, m, area),
         NEW p \in {SW2, SW3} \cap area, On("port", p[1]) \in m
  PROVE  Grows(s \o PinInterrupt(p), d, m, area)
<1> DEFINE c == [op |-> "irq", pin |-> p]
<1>1. c \in Proper(area)
  BY SomePins DEF Proper, PinOps
<1>2. Allowed(m, c)
  BY DEF Allowed
<1>3. PinInterrupt(p) = <<c>>
  BY DEF PinInterrupt
<1> HIDE DEF c
<1> QED BY <1>1, <1>2, <1>3, GrowsOn

LEMMA FilterGrows ==
  ASSUME NEW area, NEW s, NEW d, NEW m, Stable(d), Grows(s, d, m, area),
         NEW port \in Ports, NEW numbers, NEW on \in BOOLEAN, On("port", port) \in m,
         \A n \in numbers : <<port, n>> \in area \cap Pins /\ (on <=> <<port, n>> = SW2)
  PROVE  Grows(s \o Filter(port, numbers, on), d, m, area)
<1> DEFINE c == [op |-> "filter", port |-> port, pins |-> {<<port, n>> : n \in numbers}, on |-> on]
<1>1. c \in Proper(area)
  BY DEF Proper, PinOps
<1>2. Allowed(m, c)
  BY DEF Allowed
<1>3. Filter(port, numbers, on) = <<c>>
  BY DEF Filter
<1> HIDE DEF c
<1> QED BY <1>1, <1>2, <1>3, GrowsOn

LEMMA GatesGrow ==
  ASSUME NEW area, NEW d, Stable(d), NEW p \in Ports
  PROVE  Grows(EnableClock(p), d, {On("port", p)}, area)
<1>1. Grows(<<>>, d, {}, area)
  BY GrowsFrom
<1>2. Grows(<<>> \o EnableClock(p), d, {} \cup {On("port", p)}, area)
  BY <1>1, GateGrows
<1>3. <<>> \o EnableClock(p) = EnableClock(p) /\ {} \cup {On("port", p)} = {On("port", p)}
  BY DEF EnableClock
<1> QED BY <1>2, <1>3

\* The rest of a group, once its ports are open and its outputs have a direction.
LEMMA GrowsMore ==
  ASSUME NEW area, NEW d, NEW m, Stable(d)
  PROVE  /\ \A s, p, x : Grows(s, d, m, area) /\ WiredIn(p, x, m, area) => Grows(s \o SetPinMux(p, x), d, m, area)
         /\ \A s, p, x : Grows(s, d, m, area) /\ WiredIn(p, x, m, area) /\ p \notin {SW2, SW3} =>
              Grows(s \o SetPinConfig(p, x), d, m, area)
         /\ \A s : \A p \in {SW2, SW3} \cap area : Grows(s, d, m, area) /\ On("port", p[1]) \in m =>
              Grows(s \o PinInterrupt(p), d, m, area)
  BY MuxGrows, InterruptGrows

LEMMA BootGroup ==
  ASSUME NEW d, Stable(d)
  PROVE  \E m : Grows(Groups["BOOT"], d, m, Pins \ EnetPins)
<1> DEFINE m == {On("port", "A")}
<1>1. Grows(EnableClock("A"), d, m, Pins \ EnetPins)
  BY GatesGrow DEF Ports
<1>2. WiredIn(<<"A", 7>>, "RTC_CLKIN", m, Pins \ EnetPins)
  BY SomePins DEF WiredIn, Wiring, Wires, EnetPins, Outputs, Leds, PHY_RST, LED_RED, LED_BLUE, LED_GREEN
<1> HIDE DEF m
<1>3. Grows(EnableClock("A") \o SetPinMux(<<"A", 7>>, "RTC_CLKIN"), d, m, Pins \ EnetPins)
  BY <1>1, <1>2, GrowsMore
<1> QED BY <1>3 DEF Groups, InitPins

LEMMA EnetGroup ==
  ASSUME NEW d, Stable(d)
  PROVE  \E m : Grows(Groups["ENET"], d, m, Pins)
<1> DEFINE b == {On("port", "B")}
           c == b \cup {On("port", "C")}
           p == c \cup {On("port", "D")}
           q == p \cup {On("port", "E")}
           m == q \cup {On("output", PHY_RST)}
<1>1. Grows(ENETGates, d, q, Pins)
  <2>1. Grows(EnableClock("B"), d, b, Pins)
    BY GatesGrow DEF Ports
  <2>2. Grows(EnableClock("B") \o EnableClock("C"), d, c, Pins)
    BY <2>1, GateGrows DEF Ports
  <2>3. Grows(EnableClock("B") \o EnableClock("C") \o EnableClock("D"), d, p, Pins)
    BY <2>2, GateGrows DEF Ports
  <2>4. Grows(EnableClock("B") \o EnableClock("C") \o EnableClock("D") \o EnableClock("E"), d, q, Pins)
    BY <2>3, GateGrows DEF Ports
  <2> QED BY <2>4 DEF ENETGates
<1>2. Grows(ENETGates \o PinInit(PHY_RST, "high"), d, m, Pins)
  BY <1>1, PinInitGrows, SomePins DEF Outputs
<1>3. /\ WiredIn(<<"B", 4>>, "MDIO", m, Pins) /\ WiredIn(<<"C", 0>>, "RXD1", m, Pins)
      /\ WiredIn(<<"C", 1>>, "RXD0", m, Pins) /\ WiredIn(<<"C", 17>>, "RX_DV", m, Pins)
      /\ WiredIn(<<"C", 2>>, "TXD0", m, Pins) /\ WiredIn(PHY_RST, "GPIO", m, Pins)
      /\ WiredIn(<<"D", 11>>, "TX_CLK", m, Pins) /\ WiredIn(<<"D", 12>>, "TX_EN", m, Pins)
      /\ WiredIn(<<"D", 7>>, "TXD1", m, Pins) /\ WiredIn(<<"E", 8>>, "MDC", m, Pins)
  BY SomePins DEF WiredIn, Wiring, Wires, GpioPins, Outputs, Leds, PHY_RST, LED_RED, LED_BLUE, LED_GREEN
<1> HIDE DEF m
<1> DEFINE half == ENETGates \o PinInit(PHY_RST, "high")
                   \o SetPinMux(<<"B", 4>>, "MDIO") \o SetPinMux(<<"C", 0>>, "RXD1")
                   \o SetPinMux(<<"C", 1>>, "RXD0") \o SetPinMux(<<"C", 17>>, "RX_DV")
                   \o SetPinMux(<<"C", 2>>, "TXD0")
<1>4. Grows(half, d, m, Pins)
  BY <1>2, <1>3, GrowsMore
<1>5. InitENET = half \o SetPinMux(PHY_RST, "GPIO")
                 \o SetPinMux(<<"D", 11>>, "TX_CLK") \o SetPinMux(<<"D", 12>>, "TX_EN")
                 \o SetPinMux(<<"D", 7>>, "TXD1") \o SetPinMux(<<"E", 8>>, "MDC")
  BY DEF InitENET
<1> HIDE DEF half
<1>6. Grows(InitENET, d, m, Pins)
  BY <1>3, <1>4, <1>5, GrowsMore
<1> QED BY <1>6 DEF Groups

Elsewhere == Pins \ EnetPins

LEMMA UartGroup ==
  ASSUME NEW d, Stable(d)
  PROVE  \E m : Grows(Groups["UART"], d, m, Elsewhere)
<1> DEFINE m == {On("port", "D")} \cup {On("port", "E")}
<1>1. Grows(EnableClock("D") \o EnableClock("E"), d, m, Elsewhere)
  BY GatesGrow, GateGrows DEF Ports
<1>2. WiredIn(<<"D", 17>>, "LPUART2_RX", m, Elsewhere) /\ WiredIn(<<"E", 12>>, "LPUART2_TX", m, Elsewhere)
  BY SomePins DEF Elsewhere, WiredIn, Wiring, Wires, EnetPins, Outputs, Leds, PHY_RST, LED_RED, LED_BLUE, LED_GREEN
<1> HIDE DEF m
<1>3. Grows(InitDEBUG_UARTPins, d, m, Elsewhere)
  BY <1>1, <1>2, GrowsMore DEF InitDEBUG_UARTPins
<1> QED BY <1>3 DEF Groups

LEMMA LedsGroup ==
  ASSUME NEW d, Stable(d)
  PROVE  \E m : Grows(Groups["LEDs"], d, m, Elsewhere)
<1> DEFINE k == {On("port", "B")} \cup {On("port", "C")}
           g == k \cup {On("output", LED_GREEN)}
           b == g \cup {On("output", LED_BLUE)}
           m == b \cup {On("output", LED_RED)}
           gates == EnableClock("B") \o EnableClock("C")
<1>1. Grows(gates, d, k, Elsewhere)
  BY GatesGrow, GateGrows DEF Ports
<1>2. /\ \A p \in Leds : p \in Elsewhere \cap Pins /\ p \in Outputs
      /\ Leds = {LED_GREEN, LED_BLUE, LED_RED}
  BY SomePins DEF Elsewhere, EnetPins, Outputs, Leds, PHY_RST, LED_RED, LED_BLUE, LED_GREEN
<1>3. Grows(gates \o PinInit(LED_GREEN, "low") \o PinInit(LED_BLUE, "low") \o PinInit(LED_RED, "low"),
            d, m, Elsewhere)
  <2> HIDE DEF gates, k
  <2>1. Grows(gates \o PinInit(LED_GREEN, "low"), d, g, Elsewhere)
    BY <1>1, <1>2, PinInitGrows
  <2>2. Grows(gates \o PinInit(LED_GREEN, "low") \o PinInit(LED_BLUE, "low"), d, b, Elsewhere)
    BY <1>2, <2>1, PinInitGrows
  <2> QED BY <1>2, <2>2, PinInitGrows
<1>4. /\ WiredIn(LED_GREEN, "GPIO", m, Elsewhere) /\ WiredIn(LED_BLUE, "GPIO", m, Elsewhere)
      /\ WiredIn(LED_RED, "GPIO", m, Elsewhere)
  BY SomePins DEF Elsewhere, WiredIn, Wiring, GpioPins, EnetPins, Outputs, Leds, PHY_RST, LED_RED, LED_BLUE, LED_GREEN
<1> HIDE DEF m
<1>5. Grows(InitLEDsPins, d, m, Elsewhere)
  BY <1>3, <1>4, GrowsMore DEF InitLEDsPins
<1> QED BY <1>5 DEF Groups

LEMMA ButtonsGroup ==
  ASSUME NEW d, Stable(d)
  PROVE  \E m : Grows(Groups["BUTTONs"], d, m, Elsewhere)
<1> DEFINE k == {On("port", "A")} \cup {On("port", "C")}
           m == (k \cup {}) \cup {}
           gates == EnableClock("A") \o EnableClock("C")
<1>1. Grows(gates, d, k, Elsewhere)
  BY GatesGrow, GateGrows DEF Ports
<1>2. /\ SW2 \in Elsewhere \cap Pins /\ SW2 \notin Outputs
      /\ SW3 \in Elsewhere \cap Pins /\ SW3 \notin Outputs
  BY SomePins DEF Elsewhere, EnetPins, Outputs, Leds, SW2, SW3, PHY_RST, LED_RED, LED_BLUE, LED_GREEN
<1>3. Grows(gates \o PinInit(SW2, "in") \o PinInit(SW3, "in"), d, m, Elsewhere)
  <2> HIDE DEF gates, k
  <2>1. Grows(gates \o PinInit(SW2, "in"), d, k \cup {}, Elsewhere)
    BY <1>1, <1>2, PinInitGrows
  <2> QED BY <1>2, <2>1, PinInitGrows
<1>4. /\ WiredIn(SW2, "GPIO", m, Elsewhere) /\ WiredIn(SW3, "GPIO", m, Elsewhere)
      /\ On("port", "A") \in m /\ SW2 = <<"A", 9>>
      /\ On("port", SW2[1]) \in m /\ On("port", SW3[1]) \in m
  BY <1>2 DEF WiredIn, Wiring, GpioPins, SW2, SW3
<1> HIDE DEF m
<1>5. Grows(gates \o PinInit(SW2, "in") \o PinInit(SW3, "in") \o Filter("A", {9}, TRUE), d, m, Elsewhere)
  <2> HIDE DEF gates
  <2> QED BY <1>2, <1>3, <1>4, FilterGrows DEF Ports
<1>6. Grows(InitBUTTONsPins, d, m, Elsewhere)
  BY <1>2, <1>4, <1>5, GrowsMore DEF InitBUTTONsPins
<1> QED BY <1>6 DEF Groups

LEMMA CanGroup ==
  ASSUME NEW d, Stable(d)
  PROVE  \E m : Grows(Groups["CAN"], d, m, Elsewhere)
<1> DEFINE m == {On("port", "E")}
<1>1. Grows(EnableClock("E"), d, m, Elsewhere)
  BY GatesGrow DEF Ports
<1>2. WiredIn(<<"E", 4>>, "CAN0_RX", m, Elsewhere) /\ WiredIn(<<"E", 5>>, "CAN0_TX", m, Elsewhere)
  BY SomePins DEF Elsewhere, WiredIn, Wiring, Wires, EnetPins, Outputs, Leds, PHY_RST, LED_RED, LED_BLUE, LED_GREEN
<1> HIDE DEF m
<1>3. Grows(InitCANPins, d, m, Elsewhere)
  BY <1>1, <1>2, GrowsMore DEF InitCANPins
<1> QED BY <1>3 DEF Groups

\* The digital filter is switched off for pins that are none of the buttons.
LEMMA FilterOffGrows ==
  ASSUME NEW d, NEW m, Stable(d), NEW s, Grows(s, d, m, Elsewhere),
         NEW port \in Ports, NEW numbers, On("port", port) \in m,
         \A n \in numbers : <<port, n>> \in Elsewhere /\ <<port, n>> # SW2
  PROVE  Grows(s \o Filter(port, numbers, FALSE), d, m, Elsewhere)
  BY FilterGrows DEF Elsewhere

LEMMA I2CGroup ==
  ASSUME NEW d, Stable(d)
  PROVE  \E m : Grows(Groups["I2C"], d, m, Elsewhere)
<1> DEFINE m == {On("port", "D")}
           first == EnableClock("D") \o Filter("D", {8, 9}, FALSE)
<1>1. Grows(EnableClock("D"), d, m, Elsewhere)
  BY GatesGrow DEF Ports
<1>2. /\ WiredIn(<<"D", 8>>, "LPI2C1_SDA", m, Elsewhere) /\ WiredIn(<<"D", 9>>, "LPI2C1_SCL", m, Elsewhere)
      /\ <<"D", 8>> \notin {SW2, SW3} /\ <<"D", 9>> \notin {SW2, SW3}
      /\ \A n \in {8, 9} : <<"D", n>> \in Elsewhere /\ <<"D", n>> # SW2
      /\ On("port", "D") \in m /\ "D" \in Ports
  BY SomePins DEF Elsewhere, WiredIn, Wiring, Wires, EnetPins, Outputs, Leds, PHY_RST, SW2, SW3, LED_RED, LED_BLUE, LED_GREEN, Ports
<1> HIDE DEF m
<1>3. Grows(first, d, m, Elsewhere)
  BY <1>1, <1>2, FilterOffGrows
<1>4. Grows(InitI2CPins, d, m, Elsewhere)
  BY <1>2, <1>3, GrowsMore DEF InitI2CPins
<1> QED BY <1>4 DEF Groups

LEMMA AccelGroup ==
  ASSUME NEW d, Stable(d)
  PROVE  \E m : Grows(Groups["ACCEL"], d, m, Elsewhere)
<1> DEFINE m == {On("port", "A")}
           first == EnableClock("A") \o Filter("A", {2, 3}, FALSE)
<1>1. Grows(EnableClock("A"), d, m, Elsewhere)
  BY GatesGrow DEF Ports
<1>2. /\ WiredIn(<<"A", 2>>, "LPI2C0_SDA", m, Elsewhere) /\ WiredIn(<<"A", 3>>, "LPI2C0_SCL", m, Elsewhere)
      /\ <<"A", 2>> \notin {SW2, SW3} /\ <<"A", 3>> \notin {SW2, SW3}
      /\ \A n \in {2, 3} : <<"A", n>> \in Elsewhere /\ <<"A", n>> # SW2
      /\ On("port", "A") \in m /\ "A" \in Ports
  BY SomePins DEF Elsewhere, WiredIn, Wiring, Wires, EnetPins, Outputs, Leds, PHY_RST, SW2, SW3, LED_RED, LED_BLUE, LED_GREEN, Ports
<1> HIDE DEF m
<1>3. Grows(first, d, m, Elsewhere)
  BY <1>1, <1>2, FilterOffGrows
<1>4. Grows(InitACCELPins, d, m, Elsewhere)
  BY <1>2, <1>3, GrowsMore DEF InitACCELPins
<1> QED BY <1>4 DEF Groups

LEMMA SpiGroup ==
  ASSUME NEW d, Stable(d)
  PROVE  \E m : Grows(Groups["SPI"], d, m, Elsewhere)
<1> DEFINE m == {On("port", "B")} \cup {On("port", "E")}
           gates == EnableClock("B") \o EnableClock("E")
           first == gates \o Filter("B", {3}, FALSE) \o SetPinConfig(<<"B", 3>>, "LPSPI0_SIN")
<1>1. Grows(gates, d, m, Elsewhere)
  BY GatesGrow, GateGrows DEF Ports
<1>2. /\ WiredIn(<<"B", 3>>, "LPSPI0_SIN", m, Elsewhere) /\ WiredIn(<<"E", 0>>, "LPSPI0_SCK", m, Elsewhere)
      /\ WiredIn(<<"E", 2>>, "LPSPI0_SOUT", m, Elsewhere) /\ WiredIn(<<"E", 6>>, "LPSPI0_PCS2", m, Elsewhere)
  BY SomePins DEF Elsewhere, WiredIn, Wiring, Wires, EnetPins, Outputs, Leds, PHY_RST, LED_RED, LED_BLUE, LED_GREEN
<1>3. /\ <<"B", 3>> \notin {SW2, SW3} /\ \A n \in {0, 2, 6} : <<"E", n>> \notin {SW2, SW3}
      /\ \A n \in {3} : <<"B", n>> \in Elsewhere /\ <<"B", n>> # SW2
      /\ \A n \in {0, 2, 6} : <<"E", n>> \in Elsewhere /\ <<"E", n>> # SW2
      /\ On("port", "B") \in m /\ On("port", "E") \in m /\ "B" \in Ports /\ "E" \in Ports
  BY SomePins DEF Elsewhere, EnetPins, SW2, SW3, PHY_RST, Ports
<1> HIDE DEF m
<1>4. Grows(gates \o Filter("B", {3}, FALSE), d, m, Elsewhere)
  BY <1>1, <1>3, FilterOffGrows
<1>5. Grows(first, d, m, Elsewhere)
  BY <1>2, <1>3, <1>4, GrowsMore
<1>6. Grows(first \o Filter("E", {0, 2, 6}, FALSE), d, m, Elsewhere)
  BY <1>3, <1>5, FilterOffGrows
<1>7. Grows(InitSPIPins, d, m, Elsewhere)
  BY <1>2, <1>3, <1>6, GrowsMore DEF InitSPIPins
<1> QED BY <1>7 DEF Groups

\* A group adds its facts to what is known, and touches the pins of Ethernet only
\* if it is theirs.
LEMMA GroupsGrow ==
  ASSUME NEW d, Stable(d), NEW g \in DOMAIN Groups
  PROVE  /\ Runs(Groups[g], d, d \cup Effects(g))
         /\ Groups[g] \in Seq(Proper(IF g = "ENET" THEN Pins ELSE Elsewhere))
<1>1. DOMAIN Groups = {"BOOT", "UART", "ENET", "LEDs", "BUTTONs", "I2C", "ACCEL", "SPI", "CAN"}
  BY DEF Groups
<1>2. \E m : Grows(Groups[g], d, m, IF g = "ENET" THEN Pins ELSE Elsewhere)
  BY <1>1, BootGroup, UartGroup, EnetGroup, LedsGroup, ButtonsGroup, I2CGroup, AccelGroup, SpiGroup, CanGroup
     DEF Elsewhere
<1> QED BY <1>2 DEF Grows, Effects

LEMMA RunsThen ==
  ASSUME NEW s, NEW d, NEW e, NEW k, Runs(s, d, e), NEW c \in Ops, Allowed(e, c), Leads(e, c, k)
  PROVE  Runs(s \o <<c>>, d, k)
  BY RunsOne, RunsJoined

LEMMA EffectsPlanned ==
  ASSUME NEW g \in DOMAIN Groups
  PROVE  /\ Effects(g) \subseteq Planned
         /\ g # "ENET" => \A f \in Effects(g) : f[1] \in PinKinds => f[2] \notin EnetPins
<1>1. Groups[g] \in Seq(Proper(IF g = "ENET" THEN Pins ELSE Elsewhere))
  BY GroupsGrow DEF Stable
<1>2. Effects(g) \subseteq Planned
  BY <1>1, DonePlanned DEF Effects
<1>3. ASSUME g # "ENET", NEW f \in Effects(g), f[1] \in PinKinds
      PROVE  f[2] \in Elsewhere
  <2>1. PICK c \in Proper(Elsewhere) : Gives({}, c, f)
    BY <1>1, <1>3 DEF Effects, Done, Calls
  <2>2. /\ c.op \in {"gate", "gpio", "mux", "config", "irq", "filter"}
        /\ c.op \in {"gpio", "mux", "config", "irq"} => c.pin \in Elsewhere
        /\ c.op = "filter" => c.pins \subseteq Elsewhere
    BY DEF Proper, PinOps
  <2> QED BY <1>3, <2>1, <2>2 DEF Gives, On, PinKinds
<1> QED BY <1>2, <1>3 DEF Elsewhere

-----------------------------------------------------------------------------
(* InitENET_deinit undoes what is known of the pins of Ethernet, no more.  *)

LEMMA GateRuns ==
  ASSUME NEW s, NEW d, NEW e, Runs(s, d, e), NEW p \in Ports
  PROVE  Runs(s \o EnableClock(p), d, e \cup {On("port", p)})
<1> DEFINE c == [op |-> "gate", port |-> p]
<1>1. c \in Ops /\ Allowed(e, c) /\ Leads(e, c, e \cup {On("port", p)})
  BY DEF Ops, PinOps, Allowed, Leads, Keeps, Gives
<1>2. EnableClock(p) = <<c>>
  BY DEF EnableClock
<1> HIDE DEF c
<1> QED BY <1>1, <1>2, RunsThen

Unrelated(d, pins) == \A f \in d : f[1] \in PinKinds => f[2] \notin pins

LEMMA DisconnectRuns ==
  ASSUME NEW s, NEW d, NEW e, Runs(s, d, e), NEW pins \in SUBSET Pins, Unrelated(e, pins)
  PROVE  /\ \A p \in pins : On("port", p[1]) \in e => Runs(s \o SetPinConfig(p, "analog"), d, e)
         /\ \A port \in Ports : \A numbers :
              On("port", port) \in e /\ (\A n \in numbers : <<port, n>> \in pins) =>
              Runs(s \o Filter(port, numbers, FALSE), d, e)
<1>1. ASSUME NEW p \in pins, On("port", p[1]) \in e
      PROVE  Runs(s \o SetPinConfig(p, "analog"), d, e)
  <2> DEFINE c == [op |-> "config", pin |-> p, signal |-> "analog"]
  <2>1. c \in Ops
    BY DEF Ops, PinOps, Signals
  <2>2. Allowed(e, c)
    BY <1>1 DEF Allowed, Wired
  <2>3. Leads(e, c, e)
    BY DEF Leads, Keeps, Unrelated, PinKinds
  <2>4. SetPinConfig(p, "analog") = <<c>>
    BY DEF SetPinConfig
  <2> HIDE DEF c
  <2> QED BY <2>1, <2>2, <2>3, <2>4, RunsThen
<1>2. ASSUME NEW port \in Ports, NEW numbers, On("port", port) \in e, \A n \in numbers : <<port, n>> \in pins
      PROVE  Runs(s \o Filter(port, numbers, FALSE), d, e)
  <2> DEFINE c == [op |-> "filter", port |-> port, pins |-> {<<port, n>> : n \in numbers}, on |-> FALSE]
  <2>1. c \in Ops /\ c.pins \subseteq pins
    BY <1>2 DEF Ops, PinOps
  <2>2. Allowed(e, c)
    BY <1>2 DEF Allowed
  <2>3. Leads(e, c, e)
    BY <2>1 DEF Leads, Keeps, Unrelated, PinKinds
  <2>4. Filter(port, numbers, FALSE) = <<c>>
    BY DEF Filter
  <2> HIDE DEF c
  <2> QED BY <2>1, <2>2, <2>3, <2>4, RunsThen
<1> QED BY <1>1, <1>2

LEMMA RunsFrom ==
  ASSUME NEW d
  PROVE  Runs(<<>>, d, d)
<1> DEFINE trail == [i \in 0..0 |-> d]
<1>1. trail[0] = d /\ Len(<<>>) = 0 /\ 1..0 = {}
  OBVIOUS
<1> HIDE DEF trail
<1> QED BY <1>1 DEF Runs

LEMMA DeinitRuns ==
  ASSUME NEW d, Unrelated(d, EnetPins)
  PROVE  Runs(InitENET_deinit, d, d)
<1> DEFINE e == d \cup {On("port", "B")} \cup {On("port", "C")} \cup {On("port", "D")} \cup {On("port", "E")}
           H(s) == Runs(s, d, e)
           part == ENETGates
                   \o Filter("B", {4}, FALSE) \o SetPinConfig(<<"B", 4>>, "analog")
                   \o Filter("C", {0, 1, 2, 3, 17}, FALSE)
                   \o SetPinConfig(<<"C", 0>>, "analog") \o SetPinConfig(<<"C", 1>>, "analog")
                   \o SetPinConfig(<<"C", 17>>, "analog") \o SetPinConfig(<<"C", 2>>, "analog")
                   \o SetPinConfig(PHY_RST, "analog")
<1>1. H(ENETGates)
  <2>1. Runs(EnableClock("B"), d, d \cup {On("port", "B")})
    <3>1. Runs(<<>> \o EnableClock("B"), d, d \cup {On("port", "B")})
      BY RunsFrom, GateRuns DEF Ports
    <3>2. <<>> \o EnableClock("B") = EnableClock("B")
      BY DEF EnableClock
    <3> QED BY <3>1, <3>2
  <2>2. Runs(EnableClock("B") \o EnableClock("C"), d, d \cup {On("port", "B")} \cup {On("port", "C")})
    BY <2>1, GateRuns DEF Ports
  <2>3. Runs(EnableClock("B") \o EnableClock("C") \o EnableClock("D"), d,
             d \cup {On("port", "B")} \cup {On("port", "C")} \cup {On("port", "D")})
    BY <2>2, GateRuns DEF Ports
  <2> QED BY <2>3, GateRuns DEF Ports, ENETGates
<1>2. EnetPins \in SUBSET Pins /\ Unrelated(e, EnetPins)
  <2>1. EnetPins \in SUBSET Pins
    BY SomePins DEF EnetPins
  <2> QED BY <2>1 DEF Unrelated, On, PinKinds
<1>3. \A p \in {"B", "C", "D", "E"} : On("port", p) \in e /\ p \in Ports
  BY DEF Ports
<1>4. /\ \A n \in {4} : <<"B", n>> \in EnetPins
      /\ \A n \in {0, 1, 2, 3, 17} : <<"C", n>> \in EnetPins
      /\ \A n \in {7, 11, 12} : <<"D", n>> \in EnetPins
      /\ \A n \in {8} : <<"E", n>> \in EnetPins
      /\ PHY_RST \in EnetPins /\ PHY_RST[1] = "C"
  BY DEF EnetPins, PHY_RST
<1> HIDE DEF e
<1>5. /\ \A s : H(s) => H(s \o SetPinConfig(<<"B", 4>>, "analog"))
      /\ \A s : \A n \in {0, 1, 2, 3, 17} : H(s) => H(s \o SetPinConfig(<<"C", n>>, "analog"))
      /\ \A s : \A n \in {7, 11, 12} : H(s) => H(s \o SetPinConfig(<<"D", n>>, "analog"))
      /\ \A s : H(s) => H(s \o SetPinConfig(<<"E", 8>>, "analog"))
      /\ \A s : H(s) => H(s \o SetPinConfig(PHY_RST, "analog"))
  BY <1>2, <1>3, <1>4, DisconnectRuns
<1>6. /\ \A s : H(s) => H(s \o Filter("B", {4}, FALSE))
      /\ \A s : H(s) => H(s \o Filter("C", {0, 1, 2, 3, 17}, FALSE))
      /\ \A s : H(s) => H(s \o Filter("D", {7, 11, 12}, FALSE))
      /\ \A s : H(s) => H(s \o Filter("E", {8}, FALSE))
  BY <1>2, <1>3, <1>4, DisconnectRuns
<1> HIDE DEF H
<1>7. H(part)
  BY <1>1, <1>5, <1>6
<1>8. InitENET_deinit = part
        \o Filter("D", {7, 11, 12}, FALSE) \o SetPinConfig(<<"D", 11>>, "analog")
        \o SetPinConfig(<<"D", 12>>, "analog") \o SetPinConfig(<<"D", 7>>, "analog")
        \o Filter("E", {8}, FALSE) \o SetPinConfig(<<"E", 8>>, "analog")
  BY DEF InitENET_deinit
<1> HIDE DEF part
<1>9. H(InitENET_deinit)
  BY <1>5, <1>6, <1>7, <1>8
<1> QED BY <1>9, RunsWeaker DEF H, e

-----------------------------------------------------------------------------
(* The clocks (clock_config.c).                                            *)

SourceKinds == {"div1", "div2", "mult", "state"}
FIRC1 == <<"runs", "FIRC", 1>>
SIRC1 == <<"runs", "SIRC", 1>>
SPLL2 == <<"runs", "SPLL", 2>>

Source_(s, div1, div2, mult) ==
  {<<"div1", s, div1>>, <<"div2", s, div2>>, <<"mult", s, mult>>, <<"state", s, "valid">>}

\* The core runs from another source than `s', of which nothing is known; from
\* the SPLL, whose oscillator `s' is, in a later call only.
Initialisable(d, s) ==
  /\ \/ FIRC1 \in d /\ s # "FIRC"
     \/ SIRC1 \in d /\ s # "SIRC"
     \/ SPLL2 \in d /\ s # "SPLL" /\ (s = "SOSC" => Recalled \in d)
  /\ WatchdogOff \in d
  /\ \A f \in d : f[1] \in SourceKinds => f[2] # s

LEMMA ClockValues ==
  /\ "SOSC" \in Sources /\ "SIRC" \in Sources /\ "FIRC" \in Sources /\ "SPLL" \in Sources
  /\ 0 \in Divider /\ 1 \in Divider /\ 2 \in Divider
  /\ 0 \in {0, 16, 24} /\ 16 \in {0, 16, 24} /\ 24 \in {0, 16, 24}
  BY DEF Sources, Divider

LEMMA KindsOf ==
  /\ \A s, a, b, m : \A f \in Source_(s, a, b, m) : f[1] \in SourceKinds /\ f[2] = s
  /\ \A s, a, b, m : \A f \in Source_(s, a, b, m) : f[1] \notin {"runs", "told"}
  /\ \A r, n : <<"runs", r, n>>[1] = "runs" /\ <<"runs", r, n>>[1] \notin SourceKinds
  BY DEF Source_, SourceKinds

\* A source is initialised while the core runs from another.
LEMMA StartRuns ==
  ASSUME NEW d, NEW s \in Sources, NEW div1 \in Divider, NEW div2 \in Divider, NEW mult \in {0, 16, 24},
         Initialisable(d, s)
  PROVE  Runs(Start(s, div1, div2, mult), d, d \cup Source_(s, div1, div2, mult))
<1> DEFINE b == [op |-> "start", src |-> s, div1 |-> div1, div2 |-> div2, mult |-> mult]
           c == [op |-> "valid", src |-> s]
           e == d \cup {<<"div1", s, div1>>, <<"div2", s, div2>>, <<"mult", s, mult>>}
           k == d \cup Source_(s, div1, div2, mult)
<1>1. b \in Ops /\ c \in Ops
  BY DEF Ops, ClockOps, Operations
<1>2. Allowed(d, b)
  BY DEF Allowed, Sources, Initialisable, FIRC1, SIRC1, SPLL2
<1>3. Leads(d, b, e)
  BY DEF Leads, Keeps, Gives, SourceKinds, Initialisable
<1>4. Allowed(e, c)
  BY DEF Allowed, Initialisable
<1>5. Leads(e, c, k)
  BY DEF Leads, Keeps, Gives, Source_
<1>6. Start(s, div1, div2, mult) = <<b>> \o <<c>>
  BY DEF Start
<1> HIDE DEF b, c, e, k
<1>7. Runs(<<b>> \o <<c>>, d, k)
  BY <1>1, <1>2, <1>3, <1>4, <1>5, RunsOne, RunsThen
<1> QED BY <1>6, <1>7 DEF k

\* The core changes over, to another source or to the one it runs from.
LEMMA SwitchRuns ==
  ASSUME NEW d, NEW r \in Sources, NEW k \in {1, 2}, NEW s \in Sources, NEW n \in {1, 2}, s = r => n = k,
         WatchdogOff \in d, \A f \in d : f[1] \notin {"runs", "told"}
  PROVE  Runs(Switch(s, n), d \cup {<<"runs", r, k>>}, d \cup {<<"runs", s, n>>})
<1> DEFINE b == [op |-> "switch", to |-> [src |-> s, div |-> n]]
           c == [op |-> "switched", src |-> s]
           a == d \cup {<<"runs", r, k>>}
           e == d \cup {<<"told", s, n>>}
           z == d \cup {<<"runs", s, n>>}
<1>1. b \in Ops /\ c \in Ops
  BY DEF Ops, ClockOps, Operations
<1>2. Allowed(a, b)
  BY DEF Allowed
<1>3. Leads(a, b, e)
  BY DEF Leads, Keeps, Gives
<1>4. Allowed(e, c)
  BY DEF Allowed
<1>5. Leads(e, c, z)
  BY DEF Leads, Keeps, Gives
<1>6. Switch(s, n) = <<b>> \o <<c>>
  BY DEF Switch
<1> HIDE DEF a, b, c, e, z
<1>7. Runs(<<b>> \o <<c>>, a, z)
  BY <1>1, <1>2, <1>3, <1>4, <1>5, RunsOne, RunsThen
<1> QED BY <1>6, <1>7 DEF a, z

\* What else may be known while the sources are configured.
Beside(d) == WatchdogOff \in d /\ \A f \in d : f[1] \notin SourceKinds \cup {"runs", "told", "saved", "trace", "core"}

AllSources(a, b, m) ==
  Source_("SOSC", a, 0, 0) \cup Source_("FIRC", 0, b, 0) \cup Source_("SIRC", 0, b, 0) \cup Source_("SPLL", 0, 0, m)

\* SIRC serves while FIRC is configured; then FIRC serves again.
LEMMA FircRuns ==
  ASSUME NEW d, NEW x \in {FIRC1, SPLL2}, WatchdogOff \in d, \A f \in d : f[1] \notin {"runs", "told"},
         \A f \in d : f[1] \in SourceKinds => f[2] \notin {"SIRC", "FIRC"}, NEW b \in Divider
  PROVE  Runs(CLOCK_CONFIG_FircSafeConfig(Start("FIRC", 0, b, 0)),
              d \cup {x}, d \cup Source_("FIRC", 0, b, 0) \cup {FIRC1})
<1> DEFINE i == Source_("SIRC", 0, 2, 0)
           j == Source_("FIRC", 0, b, 0)
<1>1. Runs(Start("SIRC", 0, 2, 0), d \cup {x}, d \cup {x} \cup i)
  <2> DEFINE e == d \cup {x}
  <2>1. Initialisable(e, "SIRC")
    BY KindsOf DEF FIRC1, SPLL2, Initialisable
  <2> HIDE DEF e
  <2>2. Runs(Start("SIRC", 0, 2, 0), e, e \cup Source_("SIRC", 0, 2, 0))
    BY <2>1, StartRuns, ClockValues
  <2> QED BY <2>2 DEF e
<1>2. Runs(Switch("SIRC", 1), d \cup i \cup {x}, d \cup i \cup {SIRC1})
  <2> DEFINE e == d \cup i
  <2>1. WatchdogOff \in e /\ \A f \in e : f[1] \notin {"runs", "told"}
    BY KindsOf
  <2> HIDE DEF e
  <2>2. /\ Runs(Switch("SIRC", 1), e \cup {<<"runs", "FIRC", 1>>}, e \cup {<<"runs", "SIRC", 1>>})
        /\ Runs(Switch("SIRC", 1), e \cup {<<"runs", "SPLL", 2>>}, e \cup {<<"runs", "SIRC", 1>>})
    BY <2>1, SwitchRuns DEF Sources
  <2> QED BY <2>2 DEF e, FIRC1, SIRC1, SPLL2
<1>3. Runs(Start("FIRC", 0, b, 0), d \cup {SIRC1}, d \cup {SIRC1} \cup j)
  <2> DEFINE e == d \cup {SIRC1}
  <2>1. Initialisable(e, "FIRC")
    BY KindsOf DEF SIRC1, Initialisable
  <2> HIDE DEF e
  <2>2. Runs(Start("FIRC", 0, b, 0), e, e \cup Source_("FIRC", 0, b, 0))
    BY <2>1, StartRuns, ClockValues
  <2> QED BY <2>2 DEF e
<1>4. Runs(Switch("FIRC", 1), d \cup j \cup {SIRC1}, d \cup j \cup {FIRC1})
  <2> DEFINE e == d \cup j
  <2>1. WatchdogOff \in e /\ \A f \in e : f[1] \notin {"runs", "told"}
    BY KindsOf
  <2> HIDE DEF e
  <2>2. Runs(Switch("FIRC", 1), e \cup {<<"runs", "SIRC", 1>>}, e \cup {<<"runs", "FIRC", 1>>})
    BY <2>1, SwitchRuns DEF Sources
  <2> QED BY <2>2 DEF e, FIRC1, SIRC1
<1>5. /\ d \cup {x} \cup i = d \cup i \cup {x}
      /\ d \cup {SIRC1} \cup j = d \cup j \cup {SIRC1}
      /\ d \cup {SIRC1} \subseteq d \cup i \cup {SIRC1}
  OBVIOUS
<1> HIDE DEF i, j
<1>6. Runs(Start("SIRC", 0, 2, 0) \o Switch("SIRC", 1), d \cup {x}, d \cup {SIRC1})
  BY <1>1, <1>2, <1>5, RunsJoined, RunsWeaker
<1>7. Runs(Start("SIRC", 0, 2, 0) \o Switch("SIRC", 1) \o Start("FIRC", 0, b, 0),
           d \cup {x}, d \cup j \cup {SIRC1})
  BY <1>3, <1>5, <1>6, RunsJoined
<1>8. Runs(Start("SIRC", 0, 2, 0) \o Switch("SIRC", 1) \o Start("FIRC", 0, b, 0) \o Switch("FIRC", 1),
           d \cup {x}, d \cup j \cup {FIRC1})
  BY <1>4, <1>7, RunsJoined
<1> QED BY <1>8 DEF CLOCK_CONFIG_FircSafeConfig, j

\* The first four modules of both configurations.
LEMMA SourcesRun ==
  ASSUME NEW d, Beside(d), NEW x \in {FIRC1, SPLL2}, x = SPLL2 => Recalled \in d, NEW a \in Divider, NEW b \in Divider, NEW m \in {0, 16, 24}
  PROVE  Runs(Start("SOSC", a, 0, 0) \o CLOCK_CONFIG_FircSafeConfig(Start("FIRC", 0, b, 0))
                \o Start("SIRC", 0, b, 0) \o Start("SPLL", 0, 0, m),
              d \cup {x}, d \cup AllSources(a, b, m) \cup {FIRC1})
<1> DEFINE w == Source_("SOSC", a, 0, 0)
           v == Source_("FIRC", 0, b, 0)
           y == Source_("SIRC", 0, b, 0)
           z == Source_("SPLL", 0, 0, m)
<1>1. Runs(Start("SOSC", a, 0, 0), d \cup {x}, d \cup {x} \cup w)
  <2> DEFINE e == d \cup {x}
  <2>1. Initialisable(e, "SOSC")
    BY KindsOf DEF FIRC1, SPLL2, Beside, Initialisable
  <2> HIDE DEF e
  <2>2. Runs(Start("SOSC", a, 0, 0), e, e \cup Source_("SOSC", a, 0, 0))
    BY <2>1, StartRuns, ClockValues
  <2> QED BY <2>2 DEF e
<1>2. Runs(CLOCK_CONFIG_FircSafeConfig(Start("FIRC", 0, b, 0)), d \cup w \cup {x}, d \cup w \cup v \cup {FIRC1})
  <2>1. /\ \A f \in d \cup w : f[1] \notin {"runs", "told"}
        /\ \A f \in d \cup w : f[1] \in SourceKinds => f[2] \notin {"SIRC", "FIRC"}
        /\ WatchdogOff \in d \cup w
    BY KindsOf DEF Beside
  <2> HIDE DEF w, v
  <2>2. Runs(CLOCK_CONFIG_FircSafeConfig(Start("FIRC", 0, b, 0)), (d \cup w) \cup {x},
             (d \cup w) \cup Source_("FIRC", 0, b, 0) \cup {FIRC1})
    BY <2>1, FircRuns
  <2> QED BY <2>2 DEF v
<1>3. Runs(Start("SIRC", 0, b, 0), d \cup w \cup v \cup {FIRC1}, d \cup w \cup v \cup {FIRC1} \cup y)
  <2> DEFINE e == d \cup w \cup v \cup {FIRC1}
  <2>1. Initialisable(e, "SIRC")
    BY KindsOf DEF FIRC1, Beside, Initialisable
  <2> HIDE DEF e
  <2>2. Runs(Start("SIRC", 0, b, 0), e, e \cup Source_("SIRC", 0, b, 0))
    BY <2>1, StartRuns, ClockValues
  <2> QED BY <2>2 DEF e
<1>4. Runs(Start("SPLL", 0, 0, m), d \cup w \cup v \cup {FIRC1} \cup y, d \cup w \cup v \cup {FIRC1} \cup y \cup z)
  <2> DEFINE e == d \cup w \cup v \cup {FIRC1} \cup y
  <2>1. Initialisable(e, "SPLL")
    BY KindsOf DEF FIRC1, Beside, Initialisable
  <2> HIDE DEF e
  <2>2. Runs(Start("SPLL", 0, 0, m), e, e \cup Source_("SPLL", 0, 0, m))
    BY <2>1, StartRuns, ClockValues
  <2> QED BY <2>2 DEF e
<1>5. /\ d \cup {x} \cup w = d \cup w \cup {x}
      /\ d \cup w \cup v \cup {FIRC1} \cup y \cup z = d \cup AllSources(a, b, m) \cup {FIRC1}
  BY DEF AllSources
<1> HIDE DEF w, v, y, z
<1>6. Runs(Start("SOSC", a, 0, 0) \o CLOCK_CONFIG_FircSafeConfig(Start("FIRC", 0, b, 0)),
           d \cup {x}, d \cup w \cup v \cup {FIRC1})
  BY <1>1, <1>2, <1>5, RunsJoined
<1>7. Runs(Start("SOSC", a, 0, 0) \o CLOCK_CONFIG_FircSafeConfig(Start("FIRC", 0, b, 0)) \o Start("SIRC", 0, b, 0),
           d \cup {x}, d \cup w \cup v \cup {FIRC1} \cup y)
  BY <1>3, <1>6, RunsJoined
<1> QED BY <1>4, <1>5, <1>7, RunsJoined

LEMMA RouteRuns ==
  ASSUME NEW d, NEW s, NEW e, Runs(s, d, e)
  PROVE  /\ \A what \in {"RTC", "CLKOUT", "LPO"} : Runs(s \o Route(what), d, e)
         /\ Runs(s \o Route("RTC"), d, e \cup {On("route", "RTC")})
<1>1. ASSUME NEW what \in {"RTC", "CLKOUT", "LPO"}
      PROVE  /\ Runs(s \o Route(what), d, e)
             /\ Runs(s \o Route(what), d, e \cup {On("route", what)})
  <2> DEFINE c == [op |-> "route", what |-> what]
             k == e \cup {On("route", what)}
  <2>1. c \in Ops /\ Allowed(e, c)
    BY DEF Ops, ClockOps, Operations, Allowed
  <2>2. Leads(e, c, e) /\ Leads(e, c, k)
    BY DEF Leads, Keeps, Gives
  <2>3. Route(what) = <<c>>
    BY DEF Route
  <2> HIDE DEF c, k
  <2>4. Runs(s \o <<c>>, d, e) /\ Runs(s \o <<c>>, d, k)
    BY <2>1, <2>2, RunsThen
  <2> QED BY <2>3, <2>4 DEF k
<1> QED BY <1>1

\* The divider of the trace clock is off while the clock is routed.
LEMMA TraceRuns ==
  ASSUME NEW d, \A f \in d : f[1] # "trace"
  PROVE  Runs(CLOCK_CONFIG_SetTraceClock, d, d)
<1> DEFINE a == [op |-> "traceOff"]
           b == [op |-> "route", what |-> "TRACE"]
           c == [op |-> "traceOn"]
           e == d \cup {Off("trace", "clock")}
<1>1. a \in Ops /\ b \in Ops /\ c \in Ops
  BY DEF Ops, ClockOps, Operations
<1>2. Allowed(d, a) /\ Allowed(e, b) /\ Allowed(e, c)
  BY DEF Allowed
<1>3. Leads(d, a, e)
  BY DEF Leads, Keeps, Gives
<1>4. Leads(e, b, e)
  BY DEF Leads, Keeps, Gives
<1>5. Leads(e, c, d)
  BY DEF Leads, Keeps, Gives, Off
<1>6. CLOCK_CONFIG_SetTraceClock = <<a>> \o <<b>> \o <<c>>
  BY DEF CLOCK_CONFIG_SetTraceClock, Route
<1> HIDE DEF a, b, c, e
<1>7. Runs(<<a>> \o <<b>>, d, e)
  BY <1>1, <1>2, <1>3, <1>4, RunsOne, RunsThen
<1>8. Runs(<<a>> \o <<b>> \o <<c>>, d, d)
  BY <1>1, <1>2, <1>5, <1>7, RunsThen
<1> QED BY <1>6, <1>8

\* The divider of the SOSC is off while RMII is routed, and gets its value back.
LEMMA RmiiRuns ==
  ASSUME NEW d, NEW n, <<"div1", "SOSC", n>> \in d,
         \A f \in d : f[1] = "div1" /\ f[2] = "SOSC" => f = <<"div1", "SOSC", n>>,
         \A f \in d : f[1] # "saved"
  PROVE  Runs(CLOCK_CONFIG_SetRmiiClock, d, d)
<1> DEFINE a == [op |-> "divOff"]
           b == [op |-> "route", what |-> "RMII"]
           c == [op |-> "divBack"]
           k == {f \in d : ~(f[1] = "div1" /\ f[2] = "SOSC")}
           e == k \cup {<<"div1", "SOSC", 0>>, <<"saved", "SOSC", n>>}
<1>1. a \in Ops /\ b \in Ops /\ c \in Ops
  BY DEF Ops, ClockOps, Operations
<1>2. Allowed(d, a) /\ Allowed(e, b) /\ Allowed(e, c)
  BY DEF Allowed
<1>3. Leads(d, a, e)
  BY DEF Leads, Keeps, Gives
<1>4. Leads(e, b, e)
  BY DEF Leads, Keeps, Gives
<1>5. Leads(e, c, d)
  <2> SUFFICES ASSUME NEW f \in d PROVE (f \in e /\ Keeps(c, f)) \/ Gives(e, c, f)
    BY DEF Leads
  <2>1. CASE f[1] = "div1" /\ f[2] = "SOSC"
    BY <2>1 DEF Gives
  <2>2. CASE ~(f[1] = "div1" /\ f[2] = "SOSC")
    BY <2>2 DEF Keeps
  <2> QED BY <2>1, <2>2
<1>6. CLOCK_CONFIG_SetRmiiClock = <<a>> \o <<b>> \o <<c>>
  BY DEF CLOCK_CONFIG_SetRmiiClock, Route
<1> HIDE DEF a, b, c, e
<1>7. Runs(<<a>> \o <<b>>, d, e)
  BY <1>1, <1>2, <1>3, <1>4, RunsOne, RunsThen
<1>8. Runs(<<a>> \o <<b>> \o <<c>>, d, d)
  BY <1>1, <1>2, <1>5, <1>7, RunsThen
<1> QED BY <1>6, <1>8

\* The sources of the peripherals.
FlexIoSirc == <<"ipsrc", "FLEXIO", "SIRC">>
UartSirc == <<"ipsrc", "LPUART2", "SIRC">>

\* A peripheral chooses its source before its gate is opened, or again the same.
LEMMA IpSrcRuns ==
  ASSUME NEW d, NEW s, NEW e, Runs(s, d, e), NEW ip \in IPs,
         Off("ip", ip) \in e \/ <<"ipsrc", ip, "SIRC">> \in e,
         \A f \in e : f[1] = "ipsrc" => f \in {FlexIoSirc, UartSirc}
  PROVE  Runs(s \o IpSrc(ip, "SIRC"), d, e \cup {<<"ipsrc", ip, "SIRC">>})
<1> DEFINE c == [op |-> "ipsrc", ip |-> ip, src |-> "SIRC"]
           k == e \cup {<<"ipsrc", ip, "SIRC">>}
<1>1. c \in Ops /\ Allowed(e, c)
  BY DEF Ops, ClockOps, Operations, Allowed, Sources
<1>2. Leads(e, c, k)
  <2> SUFFICES ASSUME NEW f \in k PROVE (f \in e /\ Keeps(c, f)) \/ Gives(e, c, f)
    BY DEF Leads
  <2>1. CASE f[1] = "ipsrc" /\ f[2] = ip
    BY <2>1 DEF Gives, FlexIoSirc, UartSirc
  <2>2. CASE ~(f[1] = "ipsrc" /\ f[2] = ip)
    BY <2>2 DEF Keeps
  <2> QED BY <2>1, <2>2
<1>3. IpSrc(ip, "SIRC") = <<c>>
  BY DEF IpSrc
<1> HIDE DEF c, k
<1>4. Runs(s \o <<c>>, d, k)
  BY <1>1, <1>2, RunsThen
<1> QED BY <1>3, <1>4 DEF k

LEMMA CoreRuns ==
  ASSUME NEW d, NEW s, NEW e, Runs(s, d, e), NEW mhz \in {48, 80}, \A f \in e : f[1] # "core"
  PROVE  Runs(s \o CoreClockIs(mhz), d, e \cup {<<"core", "clock", mhz>>})
<1> DEFINE c == [op |-> "core", mhz |-> mhz]
           k == e \cup {<<"core", "clock", mhz>>}
<1>1. c \in Ops /\ Allowed(e, c)
  BY DEF Ops, ClockOps, Operations, Allowed
<1>2. Leads(e, c, k)
  BY DEF Leads, Keeps, Gives
<1>3. CoreClockIs(mhz) = <<c>>
  BY DEF CoreClockIs
<1> HIDE DEF c, k
<1>4. Runs(s \o <<c>>, d, k)
  BY <1>1, <1>2, RunsThen
<1> QED BY <1>3, <1>4 DEF k

\* The functions of clock_config.c, module by module.
LEMMA RunModules ==
  BOARD_InitBootClocks =
    Start("SOSC", 1, 0, 0) \o CLOCK_CONFIG_FircSafeConfig(Start("FIRC", 0, 1, 0))
    \o Start("SIRC", 0, 1, 0) \o Start("SPLL", 0, 0, 16) \o Switch("FIRC", 1)
    \o Route("CLKOUT") \o Route("RTC") \o CLOCK_CONFIG_SetTraceClock
    \o CLOCK_CONFIG_SetRmiiClock \o IpSrc("FLEXIO", "SIRC") \o IpSrc("LPUART2", "SIRC") \o Route("LPO")
    \o CoreClockIs(48)
<1> DEFINE M(x) == BOARD_BootClockRUN_InitClockModule(x)
<1>1. /\ ConfigRUN["SOSC"] = Start("SOSC", 1, 0, 0) /\ ConfigRUN["SIRC"] = Start("SIRC", 0, 1, 0)
      /\ ConfigRUN["FIRC"] = Start("FIRC", 0, 1, 0) /\ ConfigRUN["SPLL"] = Start("SPLL", 0, 0, 16)
      /\ ConfigRUN.sys.src = "FIRC" /\ ConfigRUN.sys.div = 1 /\ ConfigRUN.core = 48
  BY DEF ConfigRUN
<1>2. /\ M("SOSC") = Start("SOSC", 1, 0, 0) /\ M("SIRC") = Start("SIRC", 0, 1, 0)
      /\ M("SPLL") = Start("SPLL", 0, 0, 16)
      /\ M("FIRC") = CLOCK_CONFIG_FircSafeConfig(Start("FIRC", 0, 1, 0))
  BY <1>1 DEF BOARD_BootClockRUN_InitClockModule, InitModule
<1>3. /\ M("SystemClkSrc") = Switch("FIRC", 1) /\ M("SCG_CLKOUTSEL") = Route("CLKOUT") /\ M("LPO") = Route("LPO")
      /\ M("TRACEClkOut") = CLOCK_CONFIG_SetTraceClock
  BY <1>1 DEF BOARD_BootClockRUN_InitClockModule, InitModule
<1>4. /\ M("RTCClkOut") = Route("RTC") /\ M("RMIIClkOut") = CLOCK_CONFIG_SetRmiiClock
      /\ M("PCC_FlexIO") = IpSrc("FLEXIO", "SIRC") /\ M("PCC_LPUART2") = IpSrc("LPUART2", "SIRC")
  BY DEF BOARD_BootClockRUN_InitClockModule, CLOCK_CONFIG_SetRtcClock
<1>5. BOARD_InitBootClocks =
        M("SOSC") \o M("FIRC") \o M("SIRC") \o M("SPLL") \o M("SystemClkSrc")
        \o M("SCG_CLKOUTSEL") \o M("RTCClkOut") \o M("TRACEClkOut")
        \o M("RMIIClkOut") \o M("PCC_FlexIO") \o M("PCC_LPUART2") \o M("LPO")
        \o CoreClockIs(ConfigRUN.core)
  BY DEF BOARD_InitBootClocks, BOARD_BootClockRUN
<1> HIDE DEF M
<1> QED BY <1>1, <1>2, <1>3, <1>4, <1>5

LEMMA FullSpeedModules ==
  ClocksFunc_FullSpeed =
    Start("SOSC", 0, 0, 0) \o CLOCK_CONFIG_FircSafeConfig(Start("FIRC", 0, 0, 0))
    \o Start("SIRC", 0, 0, 0) \o Start("SPLL", 0, 0, 24) \o Switch("SPLL", 2)
    \o Route("CLKOUT") \o CLOCK_CONFIG_SetTraceClock \o Route("LPO") \o CoreClockIs(80)
<1> DEFINE M(x) == ClocksFunc_FullSpeed_InitClockModule(x)
<1>1. /\ ConfigFullSpeed["SOSC"] = Start("SOSC", 0, 0, 0) /\ ConfigFullSpeed["SIRC"] = Start("SIRC", 0, 0, 0)
      /\ ConfigFullSpeed["FIRC"] = Start("FIRC", 0, 0, 0) /\ ConfigFullSpeed["SPLL"] = Start("SPLL", 0, 0, 24)
      /\ ConfigFullSpeed.sys.src = "SPLL" /\ ConfigFullSpeed.sys.div = 2 /\ ConfigFullSpeed.core = 80
  BY DEF ConfigFullSpeed
<1>2. /\ M("SOSC") = Start("SOSC", 0, 0, 0) /\ M("SIRC") = Start("SIRC", 0, 0, 0)
      /\ M("SPLL") = Start("SPLL", 0, 0, 24)
      /\ M("FIRC") = CLOCK_CONFIG_FircSafeConfig(Start("FIRC", 0, 0, 0))
  BY <1>1 DEF ClocksFunc_FullSpeed_InitClockModule, InitModule
<1>3. /\ M("SystemClkSrc") = Switch("SPLL", 2) /\ M("SCG_CLKOUTSEL") = Route("CLKOUT") /\ M("LPO") = Route("LPO")
      /\ M("TRACEClkOut") = CLOCK_CONFIG_SetTraceClock
  BY <1>1 DEF ClocksFunc_FullSpeed_InitClockModule, InitModule
<1>4. ClocksFunc_FullSpeed =
        M("SOSC") \o M("FIRC") \o M("SIRC") \o M("SPLL") \o M("SystemClkSrc")
        \o M("SCG_CLKOUTSEL") \o M("TRACEClkOut") \o M("LPO") \o CoreClockIs(ConfigFullSpeed.core)
  BY DEF ClocksFunc_FullSpeed
<1> HIDE DEF M
<1> QED BY <1>1, <1>2, <1>3, <1>4

\* What is known of the clocks once a configuration was applied.
Chosen == {On("route", "RTC"), FlexIoSirc, UartSirc}
ClockFacts(config) ==
  IF config = "RUN"
    THEN AllSources(1, 1, 16) \cup {FIRC1} \cup {<<"core", "clock", 48>>}
    ELSE AllSources(0, 0, 24) \cup {<<"runs", "SPLL", 2>>} \cup {<<"core", "clock", 80>>}

LEMMA AllSourcesKinds ==
  ASSUME NEW a, NEW b, NEW m
  PROVE  /\ \A f \in AllSources(a, b, m) : f[1] \in SourceKinds
         /\ \A f \in AllSources(a, b, m) : f[1] \notin {"runs", "told", "trace", "saved", "ipsrc", "core"}
         /\ \A f \in AllSources(a, b, m) : f[1] = "div1" /\ f[2] = "SOSC" => f = <<"div1", "SOSC", a>>
         /\ <<"div1", "SOSC", a>> \in AllSources(a, b, m)
<1>1. \A f \in AllSources(a, b, m) : f[1] \in SourceKinds
  BY KindsOf DEF AllSources
<1>2. ASSUME NEW f \in AllSources(a, b, m), f[1] = "div1", f[2] = "SOSC"
      PROVE  f = <<"div1", "SOSC", a>>
  <2>1. f \in Source_("SOSC", a, 0, 0)
    BY <1>2, KindsOf DEF AllSources
  <2> QED BY <1>2, <2>1 DEF Source_
<1>3. \A f \in AllSources(a, b, m) : f[1] \notin {"runs", "told", "trace", "saved", "ipsrc", "core"}
  BY <1>1 DEF SourceKinds
<1> QED BY <1>1, <1>2, <1>3 DEF AllSources, Source_

LEMMA BootClocksRun ==
  ASSUME NEW d, Beside(d), NEW x \in {FIRC1, SPLL2}, x = SPLL2 => Recalled \in d,
         \A f \in d : f[1] = "ipsrc" => f \in {FlexIoSirc, UartSirc},
         Off("ip", "FLEXIO") \in d \/ FlexIoSirc \in d, Off("ip", "LPUART2") \in d \/ UartSirc \in d
  PROVE  Runs(BOARD_InitBootClocks, d \cup {x}, d \cup ClockFacts("RUN") \cup Chosen)
<1> DEFINE k == d \cup AllSources(1, 1, 16)
           e == k \cup {FIRC1}
           u == e \cup {On("route", "RTC")}
           g == u \cup {FlexIoSirc}
           v == g \cup {UartSirc}
           first == Start("SOSC", 1, 0, 0) \o CLOCK_CONFIG_FircSafeConfig(Start("FIRC", 0, 1, 0))
                    \o Start("SIRC", 0, 1, 0) \o Start("SPLL", 0, 0, 16)
           fifth == first \o Switch("FIRC", 1)
           eighth == fifth \o Route("CLKOUT") \o Route("RTC") \o CLOCK_CONFIG_SetTraceClock
           ninth == eighth \o CLOCK_CONFIG_SetRmiiClock
           eleventh == ninth \o IpSrc("FLEXIO", "SIRC") \o IpSrc("LPUART2", "SIRC")
<1>1. Runs(first, d \cup {x}, e)
  BY SourcesRun, ClockValues
<1>2. Runs(Switch("FIRC", 1), e, e)
  <2>1. WatchdogOff \in k /\ \A f \in k : f[1] \notin {"runs", "told"}
    BY AllSourcesKinds DEF Beside
  <2> HIDE DEF k
  <2> QED BY <2>1, SwitchRuns, ClockValues DEF FIRC1
<1>3. /\ \A f \in u : f[1] \notin {"trace", "saved"}
      /\ \A f \in u : f[1] = "ipsrc" => f \in {FlexIoSirc, UartSirc}
      /\ \A f \in u : f[1] = "div1" /\ f[2] = "SOSC" => f = <<"div1", "SOSC", 1>>
      /\ <<"div1", "SOSC", 1>> \in u
      /\ Off("ip", "FLEXIO") \in u \/ FlexIoSirc \in u
      /\ Off("ip", "LPUART2") \in u \/ UartSirc \in u
      /\ \A f \in v : f[1] # "core"
  BY AllSourcesKinds DEF Beside, FIRC1, On, FlexIoSirc, UartSirc
<1>4. v \cup {<<"core", "clock", 48>>} = d \cup ClockFacts("RUN") \cup Chosen
  BY DEF ClockFacts, Chosen
<1> HIDE DEF k, e, u, g, v, first
<1>5. Runs(fifth, d \cup {x}, e)
  BY <1>1, <1>2, RunsJoined
<1> HIDE DEF fifth
<1>6. Runs(fifth \o Route("CLKOUT") \o Route("RTC"), d \cup {x}, u)
  BY <1>5, RouteRuns DEF u
<1>7. Runs(eighth, d \cup {x}, u)
  BY <1>3, <1>6, TraceRuns, RunsJoined
<1> HIDE DEF eighth
<1>8. Runs(ninth, d \cup {x}, u)
  <2>1. Runs(CLOCK_CONFIG_SetRmiiClock, u, u)
    BY <1>3, RmiiRuns
  <2> QED BY <1>7, <2>1, RunsJoined
<1> HIDE DEF ninth
<1>9. Runs(eleventh, d \cup {x}, v)
  <2>1. Runs(ninth \o IpSrc("FLEXIO", "SIRC"), d \cup {x}, g)
    BY <1>3, <1>8, IpSrcRuns DEF IPs, FlexIoSirc, g
  <2>2. /\ \A f \in g : f[1] = "ipsrc" => f \in {FlexIoSirc, UartSirc}
        /\ Off("ip", "LPUART2") \in g \/ UartSirc \in g
    BY <1>3 DEF g
  <2>3. Runs(ninth \o IpSrc("FLEXIO", "SIRC") \o IpSrc("LPUART2", "SIRC"), d \cup {x},
             g \cup {<<"ipsrc", "LPUART2", "SIRC">>})
    BY <2>1, <2>2, IpSrcRuns DEF IPs, UartSirc
  <2> QED BY <2>3 DEF v, UartSirc
<1>10. BOARD_InitBootClocks = eleventh \o Route("LPO") \o CoreClockIs(48)
  BY RunModules DEF eleventh, ninth, eighth, fifth, first
<1> HIDE DEF eleventh
<1>11. Runs(eleventh \o Route("LPO") \o CoreClockIs(48), d \cup {x}, v \cup {<<"core", "clock", 48>>})
  <2>1. Runs(eleventh \o Route("LPO"), d \cup {x}, v)
    BY <1>9, RouteRuns
  <2> QED BY <1>3, <2>1, CoreRuns
<1> QED BY <1>4, <1>10, <1>11

LEMMA FullSpeedRuns ==
  ASSUME NEW d, Beside(d), NEW x \in {FIRC1, SPLL2}, x = SPLL2 => Recalled \in d
  PROVE  Runs(ClocksFunc_FullSpeed, d \cup {x}, d \cup ClockFacts("FullSpeed"))
<1> DEFINE k == d \cup AllSources(0, 0, 24)
           e == k \cup {<<"runs", "SPLL", 2>>}
           first == Start("SOSC", 0, 0, 0) \o CLOCK_CONFIG_FircSafeConfig(Start("FIRC", 0, 0, 0))
                    \o Start("SIRC", 0, 0, 0) \o Start("SPLL", 0, 0, 24)
           fifth == first \o Switch("SPLL", 2)
<1>1. Runs(first, d \cup {x}, k \cup {FIRC1})
  BY SourcesRun, ClockValues
<1>2. Runs(Switch("SPLL", 2), k \cup {FIRC1}, e)
  <2>1. WatchdogOff \in k /\ \A f \in k : f[1] \notin {"runs", "told"}
    BY AllSourcesKinds DEF Beside
  <2> HIDE DEF k
  <2> QED BY <2>1, SwitchRuns, ClockValues DEF FIRC1
<1>3. \A f \in e : f[1] # "trace" /\ f[1] # "core"
  <2>1. \A f \in k : f[1] # "trace" /\ f[1] # "core"
    BY AllSourcesKinds DEF Beside
  <2>2. <<"runs", "SPLL", 2>>[1] = "runs"
    OBVIOUS
  <2> HIDE DEF k
  <2> QED BY <2>1, <2>2
<1>4. e \cup {<<"core", "clock", 80>>} = d \cup ClockFacts("FullSpeed")
  BY DEF ClockFacts
<1> HIDE DEF k, e, first
<1>5. Runs(fifth, d \cup {x}, e)
  BY <1>1, <1>2, RunsJoined
<1>6. ClocksFunc_FullSpeed = fifth \o Route("CLKOUT") \o CLOCK_CONFIG_SetTraceClock \o Route("LPO") \o CoreClockIs(80)
  BY FullSpeedModules DEF first
<1> HIDE DEF fifth
<1>7. Runs(fifth \o Route("CLKOUT") \o CLOCK_CONFIG_SetTraceClock, d \cup {x}, e)
  <2>1. Runs(fifth \o Route("CLKOUT"), d \cup {x}, e)
    BY <1>5, RouteRuns
  <2>2. Runs(CLOCK_CONFIG_SetTraceClock, e, e)
    BY <1>3, TraceRuns
  <2> QED BY <2>1, <2>2, RunsJoined
<1>8. Runs(fifth \o Route("CLKOUT") \o CLOCK_CONFIG_SetTraceClock \o Route("LPO"), d \cup {x}, e)
  BY <1>7, RouteRuns
<1>9. Runs(fifth \o Route("CLKOUT") \o CLOCK_CONFIG_SetTraceClock \o Route("LPO") \o CoreClockIs(80),
           d \cup {x}, e \cup {<<"core", "clock", 80>>})
  BY <1>3, <1>8, CoreRuns
<1> QED BY <1>4, <1>6, <1>9

-----------------------------------------------------------------------------
(* The rest of the start.                                                  *)

\* An operation of the board that adds the facts `k' and overwrites none of `e'.
LEMMA DoRuns ==
  ASSUME NEW s, NEW d, NEW e, Runs(s, d, e), NEW c \in Ops, Allowed(e, c),
         NEW k, \A f \in e : Keeps(c, f), \A f \in k : Gives(e, c, f)
  PROVE  Runs(s \o <<c>>, d, e \cup k)
<1>1. Leads(e, c, e \cup k)
  BY DEF Leads
<1> QED BY <1>1, RunsThen

LEMMA SystemInitRuns ==
  ASSUME NEW d, \A f \in d : f[1] # "cache"
  PROVE  Runs(SystemInit, d, d \cup {WatchdogOff})
<1> DEFINE w == [op |-> "watchdogOff"]
           x == [op |-> "cacheGo"]
           y == [op |-> "cacheClean"]
           z == [op |-> "cacheOn"]
           e == d \cup {WatchdogOff}
           k == e \cup {CacheClean}
<1>1. w \in Ops /\ x \in Ops /\ y \in Ops /\ z \in Ops
  BY DEF Ops, BoardOps
<1>2. Allowed(d, w) /\ Allowed(e, x) /\ Allowed(e, y) /\ Allowed(k, z)
  BY DEF Allowed
<1>3. Leads(d, w, e)
  BY DEF Leads, Keeps, Gives
<1>4. Leads(e, x, e)
  BY DEF Leads, Keeps, Gives, WatchdogOff, Off
<1>5. Leads(e, y, k)
  BY DEF Leads, Keeps, Gives
<1>6. Leads(k, z, e)
  BY DEF Leads, Keeps, Gives, WatchdogOff, Off
<1>7. SystemInit = <<w>> \o <<x>> \o <<y>> \o <<z>>
  BY DEF SystemInit, Do
<1> HIDE DEF w, x, y, z, e, k
<1>8. Runs(<<w>> \o <<x>>, d, e)
  BY <1>1, <1>2, <1>3, <1>4, RunsOne, RunsThen
<1>9. Runs(<<w>> \o <<x>> \o <<y>>, d, k)
  BY <1>1, <1>2, <1>5, <1>8, RunsThen
<1>10. Runs(<<w>> \o <<x>> \o <<y>> \o <<z>>, d, e)
  BY <1>1, <1>2, <1>6, <1>9, RunsThen
<1> QED BY <1>7, <1>10 DEF e

\* The calls of the board's drivers, one by one.
LEMMA IpGateRuns ==
  ASSUME NEW s, NEW d, NEW e, Runs(s, d, e), NEW ip \in IPs, Off("ip", ip) \notin e,
         ip = "ENET" => Phy("ready") \in e /\ On("dma", "mpu") \in e
  PROVE  Runs(s \o IpGate(ip), d, e \cup {On("ip", ip)})
<1> DEFINE c == [op |-> "ipgate", ip |-> ip]
           k == {On("ip", ip)}
<1>1. c \in Ops /\ Allowed(e, c)
  BY DEF Ops, ClockOps, Operations, Allowed
<1>2. (\A f \in e : Keeps(c, f)) /\ (\A f \in k : Gives(e, c, f))
  BY DEF Keeps, Gives
<1>3. IpGate(ip) = <<c>>
  BY DEF IpGate
<1> HIDE DEF c, k
<1>4. Runs(s \o <<c>>, d, e \cup k)
  BY <1>1, <1>2, DoRuns
<1> QED BY <1>3, <1>4 DEF k

LEMMA PriorityRuns ==
  ASSUME NEW s, NEW d, NEW e, Runs(s, d, e), NEW irq \in Irqs
  PROVE  Runs(s \o SetPriority(irq), d, e \cup {On("prio", irq)})
<1> DEFINE c == [op |-> "prio", irq |-> irq]
           k == {On("prio", irq)}
<1>1. c \in Ops /\ Allowed(e, c)
  BY DEF Ops, BoardOps, Allowed
<1>2. (\A f \in e : Keeps(c, f)) /\ (\A f \in k : Gives(e, c, f))
  BY DEF Keeps, Gives
<1>3. SetPriority(irq) = <<c>>
  BY DEF SetPriority
<1> HIDE DEF c, k
<1>4. Runs(s \o <<c>>, d, e \cup k)
  BY <1>1, <1>2, DoRuns
<1> QED BY <1>3, <1>4 DEF k

LEMMA EnableRuns ==
  ASSUME NEW s, NEW d, NEW e, Runs(s, d, e), NEW irq \in Irqs, On("prio", irq) \in e,
         irq = "PORTA" => On("port", "A") \in e, irq = "PORTC" => On("port", "C") \in e
  PROVE  Runs(s \o EnableIRQ(irq), d, e)
<1> DEFINE c == [op |-> "nvic", irq |-> irq]
<1>1. c \in Ops /\ Allowed(e, c)
  BY DEF Ops, BoardOps, Allowed
<1>2. \A f \in e : Keeps(c, f)
  BY DEF Keeps
<1>3. EnableIRQ(irq) = <<c>>
  BY DEF EnableIRQ
<1> HIDE DEF c
<1>4. Runs(s \o <<c>>, d, e \cup {})
  BY <1>1, <1>2, DoRuns
<1>5. e \cup {} = e
  OBVIOUS
<1> QED BY <1>3, <1>4, <1>5

\* The UART, with its clock; the RTC, with its own.
UartReady(e) ==
  On("ip", "LPUART2") \in e /\ <<"ipsrc", "LPUART2", "SIRC">> \in e /\ <<"div2", "SIRC", 1>> \in e
RtcReady(e) ==
  On("ip", "RTC") \in e /\ On("route", "RTC") \in e /\ <<"mux", <<"A", 7>>, "RTC_CLKIN">> \in e

LEMMA PlainRuns ==
  ASSUME NEW s, NEW d, NEW e, Runs(s, d, e), NEW op \in {"uart", "rtc", "mdio", "create"},
         op = "uart" => UartReady(e), op = "rtc" => RtcReady(e),
         op = "mdio" => On("ip", "ENET") \in e, op = "create" => KernelReady \in e
  PROVE  Runs(s \o Do(op), d, e)
<1> DEFINE c == [op |-> op]
<1>1. c \in Ops
  BY DEF Ops, BoardOps
<1>2. Allowed(e, c)
  BY DEF Allowed, UartReady, RtcReady
<1>3. \A f \in e : Keeps(c, f)
  BY DEF Keeps
<1>4. Do(op) = <<c>>
  BY DEF Do
<1> HIDE DEF c
<1>5. Runs(s \o <<c>>, d, e \cup {})
  BY <1>1, <1>2, <1>3, DoRuns
<1>6. e \cup {} = e
  OBVIOUS
<1> QED BY <1>4, <1>5, <1>6

LEMMA LedRuns ==
  ASSUME NEW s, NEW d, NEW e, Runs(s, d, e), NEW p \in Leds, NEW level \in {"low", "high"}
  PROVE  Runs(s \o PinWrite(p, level), d, e)
<1> DEFINE c == [op |-> "write", pin |-> p, level |-> level]
<1>1. p \in Pins /\ p # PHY_RST
  BY SomePins DEF Leds, PHY_RST, LED_RED, LED_BLUE, LED_GREEN
<1>2. c \in Ops /\ Allowed(e, c)
  BY <1>1 DEF Ops, PinOps, Allowed
<1>3. \A f \in e : Keeps(c, f)
  BY <1>1 DEF Keeps
<1>4. PinWrite(p, level) = <<c>>
  BY DEF PinWrite
<1> HIDE DEF c
<1>5. Runs(s \o <<c>>, d, e \cup {})
  BY <1>2, <1>3, DoRuns
<1>6. e \cup {} = e
  OBVIOUS
<1> QED BY <1>4, <1>5, <1>6

\* The reset pin is held, for a while, and released.
LEMMA ResetPhyRuns ==
  ASSUME NEW d, \A f \in d : f[1] # "phy", Off("ip", "ENET") \in d, <<"mux", PHY_RST, "GPIO">> \in d
  PROVE  Runs(ResetPhy, d, d \cup {Phy("ready")})
<1> DEFINE a == [op |-> "write", pin |-> PHY_RST, level |-> "low"]
           b == [op |-> "delay"]
           c == [op |-> "write", pin |-> PHY_RST, level |-> "high"]
           x == d \cup {Phy("held")}
           y == d \cup {Phy("reset")}
           z == d \cup {Phy("ready")}
<1>1. a \in Ops /\ b \in Ops /\ c \in Ops
  BY SomePins DEF Ops, PinOps, BoardOps
<1>2. Allowed(d, a) /\ Allowed(x, b) /\ Allowed(y, c)
  BY DEF Allowed
<1>3. Leads(d, a, x)
  BY DEF Leads, Keeps, Gives
<1>4. Leads(x, b, y)
  BY DEF Leads, Keeps, Gives, Phy
<1>5. Leads(y, c, z)
  BY DEF Leads, Keeps, Gives
<1>6. ResetPhy = <<a>> \o <<b>> \o <<c>>
  BY DEF ResetPhy, PinWrite, Do
<1> HIDE DEF a, b, c, x, y, z
<1>7. Runs(<<a>> \o <<b>>, d, y)
  BY <1>1, <1>2, <1>3, <1>4, RunsOne, RunsThen
<1>8. Runs(<<a>> \o <<b>> \o <<c>>, d, z)
  BY <1>1, <1>2, <1>5, <1>7, RunsThen
<1> QED BY <1>6, <1>8 DEF z

-----------------------------------------------------------------------------
(* What the later functions need of the groups of pins.                    *)

LEMMA DoneMore ==
  ASSUME NEW s \in Seq(Ops), NEW t \in Seq(Ops), NEW f, f \in Done(s) \/ f \in Done(t)
  PROVE  s \o t \in Seq(Ops) /\ f \in Done(s \o t)
  BY DoneJoined, Joined

LEMMA DoneCalls ==
  /\ \A p \in Ports : EnableClock(p) \in Seq(Ops) /\ On("port", p) \in Done(EnableClock(p))
  /\ \A p \in Pins, x \in Signals :
       SetPinMux(p, x) \in Seq(Ops) /\ <<"mux", p, x>> \in Done(SetPinMux(p, x))
  /\ \A p \in Pins, x \in {"in", "low", "high"} : PinInit(p, x) \in Seq(Ops)
<1>1. PinOps \subseteq Ops
  BY DEF Ops
<1>2. ASSUME NEW p \in Ports PROVE On("port", p) \in Done(EnableClock(p))
  <2> DEFINE c == [op |-> "gate", port |-> p]
  <2>1. On("port", p) \in PinFacts /\ Gives({}, c, On("port", p)) /\ EnableClock(p) = <<c>>
    BY DEF PinFacts, On, Gives, EnableClock
  <2> HIDE DEF c
  <2> QED BY <2>1, DoneOne
<1>3. ASSUME NEW p \in Pins, NEW x \in Signals PROVE <<"mux", p, x>> \in Done(SetPinMux(p, x))
  <2> DEFINE c == [op |-> "mux", pin |-> p, signal |-> x]
  <2>1. <<"mux", p, x>> \in PinFacts /\ Gives({}, c, <<"mux", p, x>>) /\ SetPinMux(p, x) = <<c>>
    BY DEF PinFacts, Gives, SetPinMux
  <2> HIDE DEF c
  <2> QED BY <2>1, DoneOne
<1> QED BY <1>1, <1>2, <1>3, PinCalls, Widened

LEMMA BootEffects ==
  On("port", "A") \in Effects("BOOT") /\ <<"mux", <<"A", 7>>, "RTC_CLKIN">> \in Effects("BOOT")
<1>1. "A" \in Ports /\ <<"A", 7>> \in Pins /\ "RTC_CLKIN" \in Signals
  BY SomePins DEF Ports, Signals
<1>2. /\ On("port", "A") \in Done(EnableClock("A") \o SetPinMux(<<"A", 7>>, "RTC_CLKIN"))
      /\ <<"mux", <<"A", 7>>, "RTC_CLKIN">> \in Done(EnableClock("A") \o SetPinMux(<<"A", 7>>, "RTC_CLKIN"))
  BY <1>1, DoneCalls, DoneMore
<1> QED BY <1>2 DEF Effects, Groups, InitPins

LEMMA EnetEffects ==
  On("port", "C") \in Effects("ENET") /\ <<"mux", PHY_RST, "GPIO">> \in Effects("ENET")
<1> DEFINE C(s) == s \in Seq(Ops) /\ On("port", "C") \in Done(s)
           M(s) == C(s) /\ <<"mux", PHY_RST, "GPIO">> \in Done(s)
           half == ENETGates \o PinInit(PHY_RST, "high")
                   \o SetPinMux(<<"B", 4>>, "MDIO") \o SetPinMux(<<"C", 0>>, "RXD1")
                   \o SetPinMux(<<"C", 1>>, "RXD0") \o SetPinMux(<<"C", 17>>, "RX_DV")
                   \o SetPinMux(<<"C", 2>>, "TXD0")
<1>1. \A s \in Seq(Ops), t \in Seq(Ops) :
        /\ C(s) => C(s \o t)
        /\ M(s) => M(s \o t)
        /\ C(s) /\ <<"mux", PHY_RST, "GPIO">> \in Done(t) => M(s \o t)
  BY DoneMore
<1>2. "GPIO" \in Signals /\ \A s : M(s) => C(s)
  BY DEF Signals
<1>3. C(EnableClock("B") \o EnableClock("C"))
  BY DoneCalls, DoneMore DEF Ports
<1>4. \A s : C(s) => s \in Seq(Ops)
  OBVIOUS
<1> HIDE DEF C
<1>5. C(ENETGates)
  BY <1>1, <1>3, <1>4, DoneCalls DEF ENETGates, Ports
<1>6. {"MDIO", "MDC", "RXD0", "RXD1", "RX_DV", "TXD0", "TXD1", "TX_CLK", "TX_EN"} \subseteq Signals
  BY DEF Signals
<1>7. C(half)
  <2>1. \A p \in Pins, x \in Signals : \A s : C(s) => C(s \o SetPinMux(p, x))
    BY <1>1, <1>4, DoneCalls
  <2>2. C(ENETGates \o PinInit(PHY_RST, "high"))
    BY <1>1, <1>4, <1>5, DoneCalls, SomePins
  <2> QED BY <1>6, <2>1, <2>2, SomePins
<1>8. InitENET = half \o SetPinMux(PHY_RST, "GPIO")
                 \o SetPinMux(<<"D", 11>>, "TX_CLK") \o SetPinMux(<<"D", 12>>, "TX_EN")
                 \o SetPinMux(<<"D", 7>>, "TXD1") \o SetPinMux(<<"E", 8>>, "MDC")
  BY DEF InitENET
<1> HIDE DEF half, M
<1>9. M(InitENET)
  <2>1. \A p \in Pins, x \in Signals : \A s : M(s) => M(s \o SetPinMux(p, x))
    BY <1>1, <1>4, <1>2, DoneCalls
  <2>2. M(half \o SetPinMux(PHY_RST, "GPIO"))
    BY <1>1, <1>4, <1>7, <1>2, DoneCalls, SomePins
  <2> QED BY <1>6, <1>8, <2>1, <2>2, SomePins
<1> QED BY <1>9 DEF M, C, Effects, Groups

-----------------------------------------------------------------------------
(* The whole start.                                                        *)

\* What is known of a board at rest.
Resting(groups, config) ==
  {WatchdogOff} \cup Chosen \cup ClockFacts(config) \cup UNION {Effects(g) : g \in groups}

LEMMA RestingKinds ==
  ASSUME NEW groups \in SUBSET DOMAIN Groups, NEW config
  PROVE  /\ \A g \in groups : \A f \in Effects(g) : f[1] \in {"mux", "irq", "output", "filter", "port"}
         /\ \A f \in Resting(groups, config) :
              f[1] \notin {"ip", "phy", "kernel", "cache", "told", "saved", "trace", "prio", "dma"}
         /\ Stable(Resting(groups, config))
<1>1. ASSUME NEW g \in groups, NEW f \in Effects(g)
      PROVE  f \in Planned /\ f[1] \in {"mux", "irq", "output", "filter", "port"}
  <2>1. f \in Planned
    BY EffectsPlanned
  <2>2. f \in PinFacts
    BY <2>1 DEF Planned
  <2>3. f[1] \in {"mux", "irq", "output", "filter", "port"}
    BY <2>2, PinFactKinds DEF On, Off
  <2> QED BY <2>1, <2>3
<1>2. \A f \in ClockFacts(config) : f[1] \in SourceKinds \cup {"runs", "core"}
  <2>1. <<"runs", "SPLL", 2>>[1] = "runs" /\ FIRC1[1] = "runs"
        /\ \A n : <<"core", "clock", n>>[1] = "core"
    BY DEF FIRC1
  <2>2. \A f \in AllSources(1, 1, 16) \cup AllSources(0, 0, 24) : f[1] \in SourceKinds
    BY AllSourcesKinds
  <2>3. ASSUME NEW f \in ClockFacts(config)
        PROVE  f \in AllSources(1, 1, 16) \cup AllSources(0, 0, 24) \/ f[1] \in {"runs", "core"}
    BY <2>1 DEF ClockFacts
  <2> QED BY <2>2, <2>3
<1>3. \A f \in {WatchdogOff} \cup Chosen : f[1] \in {"watchdog", "route", "ipsrc"}
  BY DEF WatchdogOff, Off, On, Chosen, FlexIoSirc, UartSirc
<1>4. \A f \in Resting(groups, config) :
        \/ f \in Planned /\ f[1] \in {"mux", "irq", "output", "filter", "port"}
        \/ f[1] \in SourceKinds \cup {"runs", "core", "watchdog", "route", "ipsrc"}
  BY <1>1, <1>2, <1>3 DEF Resting
<1>5. \A f \in Resting(groups, config) :
        f[1] \notin {"ip", "phy", "kernel", "cache", "told", "saved", "trace", "prio", "dma"}
  BY <1>4 DEF SourceKinds
<1>6. Stable(Resting(groups, config))
  BY <1>4 DEF Stable, SourceKinds, PinKinds
<1> QED BY <1>1, <1>5, <1>6

LEMMA PeripheralsRun ==
  ASSUME NEW d, Off("ip", "LPUART2") \notin d, Off("ip", "RTC") \notin d,
         <<"ipsrc", "LPUART2", "SIRC">> \in d, <<"div2", "SIRC", 1>> \in d, On("route", "RTC") \in d,
         <<"mux", <<"A", 7>>, "RTC_CLKIN">> \in d, On("port", "A") \in d, On("port", "C") \in d
  PROVE  Runs(InitPeripherals, d, d \cup {On("ip", "LPUART2"), On("ip", "RTC"), On("prio", "LPUART2")})
<1> DEFINE a == d \cup {On("ip", "LPUART2")}
           b == a \cup {On("prio", "LPUART2")}
           p == b \cup {On("prio", "PORTA")}
           q == b \cup {On("prio", "PORTC")}
           r == b \cup {On("ip", "RTC")}
           t == r \cup {On("prio", "RTC")}
<1>1. \A s : Runs(<<>> \o IpGate(s), d, d \cup {On("ip", s)}) => Runs(IpGate(s), d, d \cup {On("ip", s)})
  BY DEF IpGate
<1>2. \A s, e, k : Runs(<<>> \o SetPriority(s), e, k) => Runs(SetPriority(s), e, k)
  BY DEF SetPriority
<1>3. Runs(LPUART2_init, d, b)
  <2>1. Runs(IpGate("LPUART2"), d, a)
    BY <1>1, RunsFrom, IpGateRuns DEF IPs
  <2>2. UartReady(a)
    BY DEF UartReady
  <2> HIDE DEF a
  <2>3. Runs(IpGate("LPUART2") \o Do("uart"), d, a)
    BY <2>1, <2>2, PlainRuns
  <2>4. Runs(IpGate("LPUART2") \o Do("uart") \o SetPriority("LPUART2"), d, b)
    BY <2>3, PriorityRuns DEF Irqs
  <2> QED BY <2>4 DEF LPUART2_init
<1>4. Runs(GPIOA_init, b, b)
  <2>1. On("prio", "PORTA") \in p /\ On("port", "A") \in p /\ b \subseteq p
    OBVIOUS
  <2>2. Runs(SetPriority("PORTA"), b, p)
    BY <1>2, RunsFrom, PriorityRuns DEF Irqs
  <2> HIDE DEF b, p
  <2>3. Runs(SetPriority("PORTA") \o EnableIRQ("PORTA"), b, p)
    BY <2>1, <2>2, EnableRuns DEF Irqs
  <2> QED BY <2>1, <2>3, RunsWeaker DEF GPIOA_init
<1>5. Runs(GPIOC_init, b, b)
  <2>1. On("prio", "PORTC") \in q /\ On("port", "C") \in q /\ b \subseteq q
    OBVIOUS
  <2>2. Runs(SetPriority("PORTC"), b, q)
    BY <1>2, RunsFrom, PriorityRuns DEF Irqs
  <2> HIDE DEF b, q
  <2>3. Runs(SetPriority("PORTC") \o EnableIRQ("PORTC"), b, q)
    BY <2>1, <2>2, EnableRuns DEF Irqs
  <2> QED BY <2>1, <2>3, RunsWeaker DEF GPIOC_init
<1>6. Runs(RTC_init, b, r)
  <2>1. On("prio", "RTC") \in t /\ r \subseteq t /\ RtcReady(r) /\ Off("ip", "RTC") \notin b
    BY DEF RtcReady, Off, On
  <2>2. Runs(<<>> \o IpGate("RTC"), b, r)
    BY <2>1, RunsFrom, IpGateRuns DEF IPs
  <2>3. <<>> \o IpGate("RTC") = IpGate("RTC")
    BY DEF IpGate
  <2> HIDE DEF b, r
  <2>4. Runs(IpGate("RTC") \o Do("rtc"), b, r)
    BY <2>1, <2>2, <2>3, PlainRuns
  <2>5. Runs(IpGate("RTC") \o Do("rtc") \o SetPriority("RTC"), b, t)
    BY <2>4, PriorityRuns DEF Irqs
  <2> HIDE DEF t
  <2>6. Runs(IpGate("RTC") \o Do("rtc") \o SetPriority("RTC") \o EnableIRQ("RTC"), b, t)
    BY <2>1, <2>5, EnableRuns DEF Irqs
  <2> QED BY <2>1, <2>6, RunsWeaker DEF RTC_init
<1>7. r = d \cup {On("ip", "LPUART2"), On("ip", "RTC"), On("prio", "LPUART2")}
  OBVIOUS
<1> HIDE DEF a, b, p, q, r, t
<1>8. Runs(LPUART2_init \o GPIOA_init \o GPIOC_init \o RTC_init, d, r)
  BY <1>3, <1>4, <1>5, <1>6, RunsJoined
<1> QED BY <1>7, <1>8 DEF InitPeripherals

LEMMA BootPinsRun ==
  ASSUME NEW d, Stable(d)
  PROVE  Runs(InitBootPins, d, d \cup Effects("BOOT") \cup Effects("UART") \cup Effects("ENET"))
<1> DEFINE x == d \cup Effects("BOOT")
           y == x \cup Effects("UART")
<1>1. {"BOOT", "UART", "ENET"} \subseteq DOMAIN Groups
  BY DEF Groups
<1>2. Stable(x) /\ Stable(y)
  BY <1>1, EffectsPlanned DEF Stable
<1>3. Groups["BOOT"] = InitPins /\ Groups["UART"] = InitDEBUG_UARTPins /\ Groups["ENET"] = InitENET
  BY DEF Groups
<1> HIDE DEF x, y
<1>4. /\ Runs(InitPins, d, d \cup Effects("BOOT")) /\ Runs(InitDEBUG_UARTPins, x, x \cup Effects("UART"))
      /\ Runs(InitENET, y, y \cup Effects("ENET"))
  BY <1>1, <1>2, <1>3, GroupsGrow
<1>5. Runs(InitPins \o InitDEBUG_UARTPins \o InitENET, d, y \cup Effects("ENET"))
  BY <1>4, RunsJoined DEF x, y
<1> QED BY <1>5 DEF InitBootPins, x, y

LEMMA CreateRuns ==
  ASSUME NEW d, KernelReady \in d
  PROVE  Runs(Do("create"), d, d)
<1>1. Runs(<<>> \o Do("create"), d, d)
  BY RunsFrom, PlainRuns
<1>2. <<>> \o Do("create") = Do("create")
  BY DEF Do
<1> QED BY <1>1, <1>2

LEMMA InitializeRuns ==
  ASSUME NEW d, KernelReady \in d, Off("ip", "ENET") \notin d, Phy("ready") \in d, On("dma", "mpu") \in d,
         RtcReady(d)
  PROVE  Runs(initialize, d, d \cup {On("ip", "ENET")})
<1> DEFINE e == d \cup {On("ip", "ENET")}
           lit == Do("create") \o Do("create")
                  \o PinWrite(LED_BLUE, "high") \o PinWrite(LED_GREEN, "high") \o PinWrite(LED_RED, "high")
<1>1. KernelReady \in e /\ On("ip", "ENET") \in e /\ RtcReady(e)
  BY DEF RtcReady
<1>2. Runs(Do("create"), d, d)
  BY CreateRuns
<1>3. Runs(lit, d, d)
  BY <1>2, PlainRuns, LedRuns DEF Leds
<1> HIDE DEF lit
<1>4. Runs(lit \o IpGate("ENET"), d, e)
  BY <1>3, IpGateRuns DEF IPs
<1> HIDE DEF e
<1>5. Runs(lit \o IpGate("ENET") \o Do("mdio") \o Do("rtc") \o Do("create"), d, e)
  BY <1>1, <1>4, PlainRuns
<1> QED BY <1>5 DEF initialize, lit, e

LEMMA MainTaskRuns ==
  ASSUME NEW d, KernelReady \in d, UartReady(d), On("prio", "LPUART2") \in d
  PROVE  Runs(mainTaskNew, d, d)
<1>1. Runs(Do("create"), d, d)
  BY CreateRuns
<1>2. Runs(Do("create") \o Do("uart"), d, d)
  BY <1>1, PlainRuns
<1>3. Runs(Do("create") \o Do("uart") \o EnableIRQ("LPUART2"), d, d)
  BY <1>2, EnableRuns DEF Irqs
<1>4. Runs(Do("create") \o Do("uart") \o EnableIRQ("LPUART2") \o Do("create"), d, d)
  BY <1>3, PlainRuns
<1> QED BY <1>4 DEF mainTaskNew

\* The groups that the start initialises.
BootGroups == {"BOOT", "UART", "ENET"}
StartGroups == BootGroups \cup {"LEDs", "BUTTONs"}

\* After reset.
AtReset == {FIRC1, Off("ip", "LPUART2"), Off("ip", "FLEXIO"), Off("ip", "ENET")}

\* The pins, then the clocks.
LEMMA PinsThenClocks ==
  Runs(InitBootPins \o BOARD_InitBootClocks, AtReset \cup {WatchdogOff},
       Resting(BootGroups, "RUN") \cup {Off("ip", "ENET")})
<1> DEFINE o == {Off("ip", "LPUART2"), Off("ip", "FLEXIO"), Off("ip", "ENET")}
           p == Effects("BOOT") \cup Effects("UART") \cup Effects("ENET")
           d == o \cup {WatchdogOff} \cup p
<1>1. \A f \in AtReset \cup {WatchdogOff} : f[1] \in {"runs", "ip", "watchdog"}
  BY DEF AtReset, FIRC1, Off, WatchdogOff
<1>2. Stable(AtReset \cup {WatchdogOff})
  BY <1>1 DEF Stable, PinKinds
<1>3. BootGroups \in SUBSET DOMAIN Groups
  BY DEF BootGroups, Groups
<1>4. \A f \in p : f[1] \in {"mux", "irq", "output", "filter", "port"}
  <2>1. \A g \in BootGroups : \A f \in Effects(g) : f[1] \in {"mux", "irq", "output", "filter", "port"}
    BY <1>3, RestingKinds
  <2> QED BY <2>1 DEF BootGroups
<1>5. Runs(InitBootPins, AtReset \cup {WatchdogOff}, AtReset \cup {WatchdogOff} \cup p)
  <2>1. AtReset \cup {WatchdogOff} \cup p
          = AtReset \cup {WatchdogOff} \cup Effects("BOOT") \cup Effects("UART") \cup Effects("ENET")
    OBVIOUS
  <2> QED BY <1>2, <2>1, BootPinsRun
<1> HIDE DEF p
<1>6. Beside(d) /\ \A f \in d : f[1] # "ipsrc"
  <2>1. \A f \in o \cup {WatchdogOff} : f[1] \in {"ip", "watchdog"}
    BY DEF Off, WatchdogOff
  <2>2. WatchdogOff \in d
    OBVIOUS
  <2> HIDE DEF o
  <2>3. \A f \in d : f[1] \in {"ip", "watchdog", "mux", "irq", "output", "filter", "port"}
    BY <1>4, <2>1
  <2> HIDE DEF d
  <2> QED BY <2>2, <2>3 DEF Beside, SourceKinds
<1>7. Runs(BOARD_InitBootClocks, d \cup {FIRC1}, d \cup ClockFacts("RUN") \cup Chosen)
  <2>1. Off("ip", "FLEXIO") \in d /\ Off("ip", "LPUART2") \in d
    OBVIOUS
  <2>2. FIRC1 \in {FIRC1, SPLL2} /\ FIRC1 # SPLL2
    BY DEF FIRC1, SPLL2
  <2> HIDE DEF d
  <2> QED BY <1>6, <2>1, <2>2, BootClocksRun
<1>8. AtReset \cup {WatchdogOff} \cup p = d \cup {FIRC1}
  BY DEF AtReset
<1>9. Resting(BootGroups, "RUN") \cup {Off("ip", "ENET")} \subseteq d \cup ClockFacts("RUN") \cup Chosen
  <2>1. UNION {Effects(g) : g \in BootGroups} \subseteq p
    BY DEF BootGroups, p
  <2> QED BY <2>1 DEF Resting
<1> HIDE DEF d
<1>10. Runs(InitBootPins \o BOARD_InitBootClocks, AtReset \cup {WatchdogOff}, d \cup ClockFacts("RUN") \cup Chosen)
  BY <1>5, <1>7, <1>8, RunsJoined
<1> QED BY <1>9, <1>10, RunsWeaker

\* What the start needs of the pins and clocks it has set up.
LEMMA RestingHas ==
  ASSUME NEW groups, BootGroups \subseteq groups
  PROVE  /\ <<"ipsrc", "LPUART2", "SIRC">> \in Resting(groups, "RUN")
         /\ On("route", "RTC") \in Resting(groups, "RUN")
         /\ <<"div2", "SIRC", 1>> \in Resting(groups, "RUN")
         /\ <<"mux", <<"A", 7>>, "RTC_CLKIN">> \in Resting(groups, "RUN")
         /\ On("port", "A") \in Resting(groups, "RUN") /\ On("port", "C") \in Resting(groups, "RUN")
         /\ <<"mux", PHY_RST, "GPIO">> \in Resting(groups, "RUN")
<1>1. Effects("BOOT") \subseteq Resting(groups, "RUN") /\ Effects("ENET") \subseteq Resting(groups, "RUN")
  BY DEF Resting, BootGroups
<1>2. <<"div2", "SIRC", 1>> \in ClockFacts("RUN")
  BY DEF ClockFacts, AllSources, Source_
<1> QED BY <1>1, <1>2, BootEffects, EnetEffects DEF Resting, Chosen, UartSirc

\* The operations of the start that change a register of the board.
LEMMA SwitchesRun ==
  /\ \A s, d, e : Runs(s, d, e) => Runs(s \o Do("sysmpu"), d, e \cup {On("dma", "mpu")})
  /\ \A s, d, e : Runs(s, d, e) => Runs(s \o Do("kernelInit"), d, e \cup {KernelReady})
  /\ \A s, d, e : Runs(s, d, e) => \A k \in SUBSET e :
       (\A f \in k : f[1] # "kernel") => Runs(s \o Do("kernelStart"), d, k)
<1>1. ASSUME NEW s, NEW d, NEW e, Runs(s, d, e), NEW op \in {"sysmpu", "kernelInit"}
      PROVE  Runs(s \o Do(op), d, e \cup (IF op = "sysmpu" THEN {On("dma", "mpu")} ELSE {KernelReady}))
  <2> DEFINE c == [op |-> op]
             k == IF op = "sysmpu" THEN {On("dma", "mpu")} ELSE {KernelReady}
  <2>1. c \in Ops /\ Allowed(e, c)
    BY DEF Ops, BoardOps, Allowed
  <2>2. (\A f \in e : Keeps(c, f)) /\ (\A f \in k : Gives(e, c, f))
    BY DEF Keeps, Gives
  <2>3. Do(op) = <<c>>
    BY DEF Do
  <2> HIDE DEF c, k
  <2>4. Runs(s \o <<c>>, d, e \cup k)
    BY <1>1, <2>1, <2>2, DoRuns
  <2> QED BY <2>3, <2>4 DEF k
<1>2. ASSUME NEW s, NEW d, NEW e, Runs(s, d, e), NEW k \in SUBSET e, \A f \in k : f[1] # "kernel"
      PROVE  Runs(s \o Do("kernelStart"), d, k)
  <2> DEFINE c == [op |-> "kernelStart"]
  <2>1. c \in Ops /\ Allowed(e, c)
    BY DEF Ops, BoardOps, Allowed
  <2>2. Leads(e, c, k)
    BY <1>2 DEF Leads, Keeps
  <2>3. Do("kernelStart") = <<c>>
    BY DEF Do
  <2> HIDE DEF c
  <2> QED BY <1>2, <2>1, <2>2, <2>3, RunsThen
<1>3. \A s, d, e : Runs(s, d, e) => Runs(s \o Do("sysmpu"), d, e \cup {On("dma", "mpu")})
  BY <1>1
<1>4. \A s, d, e : Runs(s, d, e) => Runs(s \o Do("kernelInit"), d, e \cup {KernelReady})
  BY <1>1
<1> QED BY <1>2, <1>3, <1>4

\* The clocks of the peripherals and the priority of the UART.
Peripherals == {On("ip", "LPUART2"), On("ip", "RTC"), On("prio", "LPUART2")}

\* Up to the kernel: all pins, the peripherals, the PHY out of its reset.
LEMMA PreKernelRuns ==
  Runs(initPreKernel, AtReset \cup {WatchdogOff},
       Resting(StartGroups, "RUN") \cup Peripherals \cup {Off("ip", "ENET"), On("dma", "mpu"), Phy("ready")})
<1> DEFINE o == {Off("ip", "ENET")}
           z == AtReset \cup {WatchdogOff}
           d == Resting(BootGroups, "RUN") \cup o
           e == d \cup Peripherals
           l == e \cup Effects("LEDs")
           b == l \cup Effects("BUTTONs")
           m == b \cup {On("dma", "mpu")}
           clocked == InitBootPins \o BOARD_InitBootClocks
<1>1. BootGroups \in SUBSET DOMAIN Groups /\ "LEDs" \in DOMAIN Groups /\ "BUTTONs" \in DOMAIN Groups
  BY DEF BootGroups, Groups
<1>2. \A f \in Resting(BootGroups, "RUN") :
        f[1] \notin {"ip", "phy", "kernel", "cache", "told", "saved", "trace", "prio", "dma"}
  BY <1>1, RestingKinds
<1>3. Runs(clocked, z, d)
  BY PinsThenClocks
<1>4. Runs(InitPeripherals, d, e)
  <2>1. Off("ip", "LPUART2") \notin d /\ Off("ip", "RTC") \notin d
    BY <1>2 DEF Off
  <2>2. /\ <<"ipsrc", "LPUART2", "SIRC">> \in d /\ <<"div2", "SIRC", 1>> \in d /\ On("route", "RTC") \in d
        /\ <<"mux", <<"A", 7>>, "RTC_CLKIN">> \in d /\ On("port", "A") \in d /\ On("port", "C") \in d
    BY RestingHas
  <2> HIDE DEF d
  <2> QED BY <2>1, <2>2, PeripheralsRun DEF Peripherals
<1>5. Stable(e) /\ Stable(l)
  <2>1. Stable(Resting(BootGroups, "RUN"))
    BY <1>1, RestingKinds
  <2>2. \A f \in o \cup Peripherals : f[1] \in {"ip", "prio"}
    BY DEF Off, On, Peripherals
  <2>3. Effects("LEDs") \subseteq Planned
    BY <1>1, EffectsPlanned
  <2> HIDE DEF o
  <2>4. \A f \in e : f \in Planned \/ f[1] \notin PinKinds
    BY <2>1, <2>2 DEF Stable, PinKinds
  <2> HIDE DEF e
  <2> QED BY <2>3, <2>4 DEF Stable
<1>6. Runs(InitLEDsPins, e, l) /\ Runs(InitBUTTONsPins, l, b)
  <2>1. Groups["LEDs"] = InitLEDsPins /\ Groups["BUTTONs"] = InitBUTTONsPins
    BY DEF Groups
  <2> HIDE DEF e
  <2>2. Runs(InitLEDsPins, e, l)
    BY <1>1, <1>5, <2>1, GroupsGrow
  <2> HIDE DEF l
  <2> QED BY <1>1, <1>5, <2>1, <2>2, GroupsGrow
<1>7. Runs(ResetPhy, m, m \cup {Phy("ready")})
  <2>1. Off("ip", "ENET") \in m /\ <<"mux", PHY_RST, "GPIO">> \in m
    BY RestingHas
  <2>2. \A f \in m : f[1] # "phy"
    <3>1. \A f \in o \cup Peripherals \cup {On("dma", "mpu")} : f[1] \in {"ip", "prio", "dma"}
      BY DEF Off, On, Peripherals
    <3>2. \A f \in Effects("LEDs") \cup Effects("BUTTONs") : f[1] \in {"mux", "irq", "output", "filter", "port"}
      <4>1. {"LEDs", "BUTTONs"} \in SUBSET DOMAIN Groups
        BY <1>1
      <4> QED BY <4>1, RestingKinds
    <3> HIDE DEF o
    <3> QED BY <1>2, <3>1, <3>2
  <2> HIDE DEF m
  <2> QED BY <2>1, <2>2, ResetPhyRuns
<1>8. Resting(StartGroups, "RUN") \cup Peripherals \cup {Off("ip", "ENET"), On("dma", "mpu"), Phy("ready")}
        \subseteq m \cup {Phy("ready")}
  BY DEF Resting, StartGroups
<1>9. initPreKernel = clocked \o InitPeripherals \o InitLEDsPins \o InitBUTTONsPins \o Do("sysmpu") \o ResetPhy
  BY DEF initPreKernel
<1> HIDE DEF clocked, z, d, e, l, b
<1>10. Runs(clocked \o InitPeripherals \o InitLEDsPins \o InitBUTTONsPins, z, b)
  BY <1>3, <1>4, <1>6, RunsJoined
<1>11. Runs(clocked \o InitPeripherals \o InitLEDsPins \o InitBUTTONsPins \o Do("sysmpu"), z, m)
  BY <1>10, SwitchesRun
<1> HIDE DEF m
<1>12. Runs(clocked \o InitPeripherals \o InitLEDsPins \o InitBUTTONsPins \o Do("sysmpu") \o ResetPhy,
            z, m \cup {Phy("ready")})
  BY <1>7, <1>11, RunsJoined
<1> QED BY <1>8, <1>9, <1>12, RunsWeaker DEF z

\* The board comes to rest, with what its configuration says.
LEMMA WholeStartRuns == Runs(SystemInit \o zmain, AtReset, Resting(StartGroups, "RUN"))
<1> DEFINE r == Resting(StartGroups, "RUN")
           d == r \cup Peripherals \cup {On("dma", "mpu"), Phy("ready")}
           k == d \cup {KernelReady}
           e == k \cup {On("ip", "ENET")}
           z == AtReset \cup {WatchdogOff}
<1>1. \A f \in r : f[1] \notin {"ip", "phy", "kernel", "cache", "told", "saved", "trace", "prio", "dma"}
  <2>1. StartGroups \in SUBSET DOMAIN Groups
    BY DEF StartGroups, BootGroups, Groups
  <2> QED BY <2>1, RestingKinds
<1>2. RtcReady(k) /\ UartReady(e) /\ On("prio", "LPUART2") \in e
  <2>1. BootGroups \subseteq StartGroups
    BY DEF StartGroups
  <2> QED BY <2>1, RestingHas DEF RtcReady, UartReady, Peripherals
<1>3. Off("ip", "ENET") \notin k
  <2>1. \A f \in Peripherals \cup {On("dma", "mpu"), Phy("ready"), KernelReady} : f # Off("ip", "ENET")
    BY DEF Peripherals, On, Off, Phy, KernelReady
  <2>2. Off("ip", "ENET") \notin r
    BY <1>1 DEF Off
  <2> HIDE DEF r
  <2> QED BY <2>1, <2>2
<1>4. Runs(initPreKernel, z, d)
  <2> HIDE DEF r
  <2>1. d \subseteq r \cup Peripherals \cup {Off("ip", "ENET"), On("dma", "mpu"), Phy("ready")}
    OBVIOUS
  <2> QED BY <2>1, PreKernelRuns, RunsWeaker DEF r
<1> HIDE DEF r, d
<1>5. Runs(initPreKernel \o Do("kernelInit"), z, k)
  BY <1>4, SwitchesRun
<1>6. Runs(initialize, k, e)
  <2>1. KernelReady \in k /\ Phy("ready") \in k /\ On("dma", "mpu") \in k
    BY DEF d
  <2> HIDE DEF k
  <2> QED BY <1>2, <1>3, <2>1, InitializeRuns
<1>7. Runs(mainTaskNew, e, e) /\ Runs(Do("create"), e, e)
  <2>1. KernelReady \in e
    OBVIOUS
  <2> HIDE DEF e
  <2> QED BY <1>2, <2>1, MainTaskRuns, CreateRuns
<1>8. r \in SUBSET e /\ \A f \in r : f[1] # "kernel"
  BY <1>1 DEF d
<1> HIDE DEF k, e
<1>9. Runs(initPreKernel \o Do("kernelInit") \o initialize \o mainTaskNew \o Do("create"), z, e)
  BY <1>5, <1>6, <1>7, RunsJoined
<1>10. Runs(initPreKernel \o Do("kernelInit") \o initialize \o mainTaskNew \o Do("create") \o Do("kernelStart"), z, r)
  BY <1>8, <1>9, SwitchesRun
<1>11. Runs(zmain, z, r)
  BY <1>10 DEF zmain
<1>12. Runs(SystemInit, AtReset, z)
  <2>1. \A f \in AtReset : f[1] # "cache"
    BY DEF AtReset, FIRC1, Off
  <2> QED BY <2>1, SystemInitRuns
<1> QED BY <1>11, <1>12, RunsJoined DEF r

-----------------------------------------------------------------------------
(* The inductive invariant.                                                *)
(*                                                                         *)
(* Some facts hold with which the rest of `todo' runs, and brings the      *)
(* board to rest with the groups and the configuration it was asked for.   *)

BoardInv ==
  /\ Standing
  /\ live \in SUBSET DOMAIN Groups
  /\ applied \in {"RUN", "FullSpeed"}
  /\ \E d : Known(d) /\ Runs(todo, d, Resting(live, applied))

LEMMA BoardInitially == Init => BoardInv
<1> SUFFICES ASSUME Init PROVE BoardInv
  OBVIOUS
<1>1. Standing
  <2>1. ClockStands
    BY ClocksInitially, InvParts DEF Init, ClockStands
  <2>2. BoardTypeOK
    BY DEF Init, PortsInit, ClocksInit, BoardTypeOK, Signals
  <2>3. Served /\ EthernetReady
    BY DEF Init, ClocksInit, Served, EthernetReady
  <2>4. OutputsDirected /\ WellWired
    <3>1. Outputs \subseteq Pins
      BY SomePins DEF Outputs, Leds
    <3> QED BY <3>1 DEF Init, PortsInit, OutputsDirected, WellWired, Wired
  <2> QED BY <2>1, <2>2, <2>3, <2>4 DEF Standing
<1>2. Known(AtReset)
  <2>1. AtReset = {<<"runs", "FIRC", 1>>, <<"ip", "LPUART2", "off">>, <<"ip", "FLEXIO", "off">>, <<"ip", "ENET", "off">>}
    BY DEF AtReset, FIRC1, Off
  <2>2. PinsKnown(AtReset)
    BY <2>1 DEF PinsKnown, On, Off
  <2>3. ClocksKnown(AtReset)
    BY <2>1 DEF ClocksKnown, Init, ClocksInit, Clock
  <2>4. RegistersKnown(AtReset)
    BY <2>1 DEF RegistersKnown, Init, ClocksInit, On, Off
  <2>5. BoardKnown(AtReset)
    BY <2>1 DEF BoardKnown, WatchdogOff, CacheClean, KernelReady, Phy, Recalled, On, Off
  <2> QED BY <2>2, <2>3, <2>4, <2>5 DEF Known
<1>3. Runs(todo, AtReset, Resting(live, applied))
  <2>1. live = StartGroups /\ applied = "RUN" /\ todo = SystemInit \o zmain
    BY DEF Init, StartGroups, BootGroups
  <2> QED BY <2>1, WholeStartRuns
<1>4. live \in SUBSET DOMAIN Groups /\ applied \in {"RUN", "FullSpeed"}
  BY DEF Init, Groups
<1> QED BY <1>1, <1>2, <1>3, <1>4 DEF BoardInv

\* What is executed finds what it needs.
LEMMA Ready ==
  ASSUME BoardInv, todo # <<>>
  PROVE  \E d, m : /\ Known(d) /\ Head(todo) \in Ops
                   /\ Allowed(d, Head(todo)) /\ Leads(d, Head(todo), m)
                   /\ Runs(Tail(todo), m, Resting(live, applied))
<1>1. PICK d : Known(d) /\ Runs(todo, d, Resting(live, applied))
  BY DEF BoardInv
<1>2. PICK c \in SUBSET d : \E m :
        /\ Head(todo) \in Ops
        /\ Allowed(c, Head(todo)) /\ Leads(c, Head(todo), m)
        /\ Runs(Tail(todo), m, Resting(live, applied))
  BY <1>1, RunsOn
<1>3. Known(c)
  BY <1>1, KnownLess
<1> QED BY <1>2, <1>3

LEMMA ExecuteKeeps ==
  ASSUME BoardInv, Execute
  PROVE  BoardInv'
<1>1. todo # <<>> /\ Step(Head(todo)) /\ todo' = Tail(todo) /\ UNCHANGED <<live, applied>>
  BY DEF Execute, Step
<1>2. PICK d, m : /\ Known(d) /\ Head(todo) \in Ops
                  /\ Allowed(d, Head(todo)) /\ Leads(d, Head(todo), m)
                  /\ Runs(Tail(todo), m, Resting(live, applied))
  BY <1>1, Ready
<1>3. Standing' /\ Known(m)'
  BY <1>1, <1>2, StandingStep, FactsStep DEF BoardInv
<1>4. Runs(todo', m, Resting(live', applied'))
  BY <1>1, <1>2
<1> QED BY <1>1, <1>3, <1>4 DEF BoardInv

\* The hardware changes nothing that is known.
LEMMA OscillatorKeeps ==
  ASSUME ClockTypeOK, NEW d, Known(d), UNCHANGED <<portVars, boardVars, recalled>>,
         (\E s \in Sources : OscillatorValid(s)) \/ SystemSwitches
  PROVE  Known(d)'
<1>1. PinsKnown(d)' /\ BoardKnown(d)'
  BY DEF Known, PinsKnown, BoardKnown, portVars, boardVars, registers
<1>2. UNCHANGED <<rccr, refused, ipSrc, ipGate, saved, routed, trace, coreClock>>
  BY DEF OscillatorValid, SystemSwitches
<1>3. RegistersKnown(d)'
  BY <1>2 DEF Known, RegistersKnown
<1>4. CASE \E s \in Sources : OscillatorValid(s)
  <2>1. PICK s \in Sources : OscillatorValid(s)
    BY <1>4
  <2>2. source' = [source EXCEPT ![s].state = "valid"] /\ sys' = sys
    BY <2>1 DEF OscillatorValid
  <2>3. source[s] \in Source
    BY DEF ClockTypeOK
  <2>4. \A r \in Sources : /\ source'[r].div1 = source[r].div1 /\ source'[r].div2 = source[r].div2
                           /\ source'[r].mult = source[r].mult
                           /\ source[r].state = "valid" => source'[r].state = "valid"
    BY <2>2, <2>3 DEF ClockTypeOK, Source
  <2>5. ClocksKnown(d)'
    BY <1>2, <2>2, <2>4 DEF Known, ClocksKnown, Clock
  <2> QED BY <1>1, <1>3, <2>5 DEF Known
<1>5. CASE SystemSwitches
  <2>1. sys # rccr /\ sys' = rccr /\ source' = source
    BY <1>5 DEF SystemSwitches
  <2>2. ASSUME NEW s, NEW n, <<"runs", s, n>> \in d PROVE FALSE
    <3>1. sys = Clock(s, n) /\ rccr = Clock(s, n)
      BY <2>2 DEF Known, ClocksKnown
    <3> QED BY <2>1, <3>1
  <2>3. ClocksKnown(d)'
    BY <1>2, <2>1, <2>2 DEF Known, ClocksKnown, Clock
  <2> QED BY <1>1, <1>3, <2>3 DEF Known
<1> QED BY <1>4, <1>5

LEMMA BoardHardwareKeeps ==
  ASSUME BoardInv, Hardware
  PROVE  BoardInv'
<1>1. PICK d : Known(d) /\ Runs(todo, d, Resting(live, applied))
  BY DEF BoardInv
<1>2. UNCHANGED <<portVars, todo, live, applied, recalled>> /\ UNCHANGED <<watchdog, dma, prio, nvic, phy, kernel>>
  BY DEF Hardware, CacheInvalidated, boardVars, registers
<1>3. UNCHANGED ipGate /\ UNCHANGED ipSrc
  BY DEF Hardware, CacheInvalidated, OscillatorValid, SystemSwitches, clockVars
<1>4. Known(d)' /\ ClockStands'
  <2>1. CASE CacheInvalidated
    <3>1. UNCHANGED clockVars /\ cache' = "clean"
      BY <2>1 DEF CacheInvalidated
    <3>2. ClockStands'
      BY <1>2, <3>1 DEF BoardInv, Standing, clockVars, ClockStands, OwnSource, ClockTypeOK, Fed
    <3>3. PinsKnown(d)'
      BY <1>1, <1>2 DEF portVars, Known, PinsKnown
    <3>4. ClocksKnown(d)' /\ RegistersKnown(d)'
      BY <1>1, <3>1 DEF clockVars, Known, ClocksKnown, RegistersKnown, Clock
    <3>5. BoardKnown(d)'
      BY <1>1, <1>2, <3>1 DEF Known, BoardKnown
    <3> QED BY <3>2, <3>3, <3>4, <3>5 DEF Known
  <2>2. CASE ((\E s \in Sources : OscillatorValid(s)) \/ SystemSwitches) /\ UNCHANGED boardVars
    BY <1>1, <1>2, <2>2, OscillatorKeeps, HardwareKeeps DEF BoardInv, Standing, ClockStands, OwnSource
  <2> QED BY <2>1, <2>2 DEF Hardware
<1>5. Standing'
  BY <1>2, <1>3, <1>4
     DEF BoardInv, Standing, portVars, BoardTypeOK, Served, EthernetReady, OutputsDirected, WellWired
<1> QED BY <1>1, <1>2, <1>4, <1>5 DEF BoardInv

-----------------------------------------------------------------------------
(* The calls of an application, from a board at rest.                      *)

LEMMA AtRest ==
  ASSUME BoardInv, todo = <<>>
  PROVE  Known(Resting(live, applied))
<1>1. PICK d : Known(d) /\ Runs(<<>>, d, Resting(live, applied))
  BY DEF BoardInv
<1>2. Resting(live, applied) \in SUBSET d
  BY <1>1, RunsNothing
<1> QED BY <1>1, <1>2, KnownLess

LEMMA GroupRuns ==
  ASSUME NEW groups \in SUBSET DOMAIN Groups, NEW config, NEW g \in DOMAIN Groups
  PROVE  Runs(Groups[g], Resting(groups, config), Resting(groups \cup {g}, config))
<1>1. Stable(Resting(groups, config))
  BY RestingKinds
<1>2. Runs(Groups[g], Resting(groups, config), Resting(groups, config) \cup Effects(g))
  BY <1>1, GroupsGrow
<1>3. Resting(groups \cup {g}, config) \subseteq Resting(groups, config) \cup Effects(g)
  BY DEF Resting
<1> QED BY <1>2, <1>3, RunsWeaker

LEMMA WithoutEthernetRuns ==
  ASSUME NEW groups \in SUBSET DOMAIN Groups, NEW config
  PROVE  Runs(InitENET_deinit, Resting(groups, config), Resting(groups \ {"ENET"}, config))
<1> DEFINE d == Resting(groups \ {"ENET"}, config)
<1>1. Unrelated(d, EnetPins)
  <2> SUFFICES ASSUME NEW f \in d, f[1] \in PinKinds PROVE f[2] \notin EnetPins
    BY DEF Unrelated
  <2>1. \A x \in ClockFacts(config) : x[1] \notin PinKinds
    <3>1. \A x \in AllSources(1, 1, 16) \cup AllSources(0, 0, 24) : x[1] \in SourceKinds
      BY AllSourcesKinds
    <3>2. \A x \in ClockFacts(config) :
            x \in AllSources(1, 1, 16) \cup AllSources(0, 0, 24) \/ x[1] \in {"runs", "core"}
      BY DEF ClockFacts, FIRC1
    <3> QED BY <3>1, <3>2 DEF PinKinds, SourceKinds
  <2>2. \A x \in {WatchdogOff} \cup Chosen : x[1] \notin PinKinds
    BY DEF WatchdogOff, Off, On, Chosen, FlexIoSirc, UartSirc, PinKinds
  <2>3. PICK g \in groups \ {"ENET"} : f \in Effects(g)
    BY <2>1, <2>2 DEF Resting
  <2> QED BY <2>3, EffectsPlanned
<1>2. d \subseteq Resting(groups, config)
  BY DEF Resting
<1> HIDE DEF d
<1>3. Runs(InitENET_deinit, d, d)
  BY <1>1, DeinitRuns
<1> QED BY <1>2, <1>3, RunsWeaker DEF d

\* From either configuration to either.
LEMMA ConfigRuns ==
  ASSUME NEW groups \in SUBSET DOMAIN Groups, NEW config \in {"RUN", "FullSpeed"}, NEW again,
         config = "FullSpeed" => again = {Recalled}, again \in SUBSET {Recalled}
  PROVE  /\ Runs(BOARD_InitBootClocks, Resting(groups, config) \cup again, Resting(groups, "RUN"))
         /\ Runs(ClocksFunc_FullSpeed, Resting(groups, config) \cup again, Resting(groups, "FullSpeed"))
<1> DEFINE p == UNION {Effects(g) : g \in groups}
           d == {WatchdogOff} \cup Chosen \cup p \cup again
           x == IF config = "RUN" THEN FIRC1 ELSE SPLL2
<1>1. /\ Beside(d)
      /\ \A f \in d : f[1] = "ipsrc" => f \in {FlexIoSirc, UartSirc}
  <2>1. \A f \in p : f[1] \in {"mux", "irq", "output", "filter", "port"}
    BY RestingKinds
  <2>2. \A f \in {WatchdogOff} \cup again : f[1] \in {"watchdog", "recalled"}
    BY DEF WatchdogOff, Off, On, Recalled
  <2>3. \A f \in Chosen : f[1] = "route" \/ (f[1] = "ipsrc" /\ f \in {FlexIoSirc, UartSirc})
    BY DEF Chosen, On, FlexIoSirc, UartSirc
  <2>4. WatchdogOff \in d
    OBVIOUS
  <2> HIDE DEF p
  <2>5. \A f \in d : \/ f[1] \in {"mux", "irq", "output", "filter", "port", "watchdog", "recalled", "route"}
                     \/ f[1] = "ipsrc" /\ f \in {FlexIoSirc, UartSirc}
    BY <2>1, <2>2, <2>3
  <2> HIDE DEF d
  <2> QED BY <2>4, <2>5 DEF Beside, SourceKinds
<1>2. x \in {FIRC1, SPLL2} /\ (x = SPLL2 => Recalled \in d)
  BY DEF FIRC1, SPLL2
<1>3. FlexIoSirc \in d /\ UartSirc \in d
  BY DEF Chosen
<1>4. d \cup {x} \subseteq Resting(groups, config) \cup again
  BY DEF Resting, ClockFacts, SPLL2
<1>5. /\ Resting(groups, "RUN") \subseteq d \cup ClockFacts("RUN") \cup Chosen
      /\ Resting(groups, "FullSpeed") \subseteq d \cup ClockFacts("FullSpeed")
  BY DEF Resting
<1> HIDE DEF d, x
<1>6. Runs(BOARD_InitBootClocks, d \cup {x}, d \cup ClockFacts("RUN") \cup Chosen)
  BY <1>1, <1>2, <1>3, BootClocksRun
<1>7. Runs(ClocksFunc_FullSpeed, d \cup {x}, d \cup ClockFacts("FullSpeed"))
  BY <1>1, <1>2, FullSpeedRuns
<1> QED BY <1>4, <1>5, <1>6, <1>7, RunsWeaker

LEMMA LaterKeeps ==
  ASSUME BoardInv, NEW ops, Later(ops), recalled => recalled',
         live' \in SUBSET DOMAIN Groups, applied' \in {"RUN", "FullSpeed"},
         NEW again \in SUBSET {Recalled}, again # {} => recalled',
         Runs(ops, Resting(live, applied) \cup again, Resting(live', applied'))
  PROVE  BoardInv'
<1> DEFINE d == Resting(live, applied)
<1>1. todo = <<>> /\ todo' = ops /\ UNCHANGED <<portVars, clockVars, boardVars>>
  BY DEF Later
<1>2. Standing'
  BY <1>1 DEF BoardInv, Standing, portVars, clockVars, boardVars, registers, ClockStands, OwnSource, ClockTypeOK,
              Fed, BoardTypeOK, Served, EthernetReady, OutputsDirected, WellWired
<1>3. Known(d)
  BY <1>1, AtRest
<1>4. \A k : Known(k) => Known(k \cup again)'
  <2> SUFFICES ASSUME NEW k, Known(k) PROVE Known(k \cup again)'
    OBVIOUS
  <2>1. Known(k)'
    BY <1>1 DEF portVars, clockVars, boardVars, registers, Known, PinsKnown, ClocksKnown, RegistersKnown, BoardKnown, Clock
  <2>2. \A f \in again : f[1] = "recalled"
    BY DEF Recalled, On
  <2>3. PinsKnown(k \cup again)'
    BY <2>1, <2>2 DEF Known, PinsKnown, On, Off
  <2>4. ClocksKnown(k \cup again)'
    BY <2>1, <2>2 DEF Known, ClocksKnown
  <2>5. RegistersKnown(k \cup again)'
    BY <2>1, <2>2 DEF Known, RegistersKnown, On, Off
  <2>6. BoardKnown(k \cup again)'
    BY <2>1, <2>2 DEF Known, BoardKnown, WatchdogOff, CacheClean, KernelReady, Phy, On, Off
  <2> QED BY <2>3, <2>4, <2>5, <2>6 DEF Known
<1> QED
  <2>1. PICK k : k = d
    OBVIOUS
  <2>2. Known(k \cup again)' /\ Runs(todo', k \cup again, Resting(live', applied'))
    BY <1>1, <1>3, <1>4, <2>1
  <2> QED BY <1>2, <2>2 DEF BoardInv

\* The functions of the pins need nothing more.
LEMMA PinsLaterKeep ==
  ASSUME BoardInv, NEW ops, Later(ops), recalled' = recalled, applied' = applied, live' \in SUBSET DOMAIN Groups,
         Runs(ops, Resting(live, applied), Resting(live', applied'))
  PROVE  BoardInv'
<1> DEFINE r == Resting(live, applied)
<1>1. {} \in SUBSET {Recalled} /\ r \cup {} = r /\ applied' \in {"RUN", "FullSpeed"}
  BY DEF BoardInv
<1> HIDE DEF r
<1>2. PICK k \in SUBSET {Recalled} : k = {} /\ r \cup k = r
  BY <1>1
<1> QED BY <1>1, <1>2, LaterKeeps DEF r

LEMMA ClocksLaterKeep ==
  ASSUME BoardInv, GoRUN \/ GoFullSpeed
  PROVE  BoardInv'
<1> DEFINE again == IF applied = "FullSpeed" THEN {Recalled} ELSE {}
<1>1. /\ recalled' = (recalled \/ applied = "FullSpeed") /\ live' = live
      /\ applied' \in {"RUN", "FullSpeed"} /\ live' \in SUBSET DOMAIN Groups
      /\ live \in SUBSET DOMAIN Groups /\ applied \in {"RUN", "FullSpeed"}
  BY DEF BoardInv, GoRUN, GoFullSpeed, Apply
<1>2. again \in SUBSET {Recalled} /\ (again # {} => recalled') /\ (applied = "FullSpeed" => again = {Recalled})
  BY <1>1
<1> HIDE DEF again
<1>3. /\ Runs(BOARD_InitBootClocks, Resting(live, applied) \cup again, Resting(live, "RUN"))
      /\ Runs(ClocksFunc_FullSpeed, Resting(live, applied) \cup again, Resting(live, "FullSpeed"))
  BY <1>1, <1>2, ConfigRuns
<1>4. CASE GoRUN
  <2>1. Later(BOARD_InitBootClocks) /\ applied' = "RUN"
    BY <1>4 DEF GoRUN, Apply
  <2> QED BY <1>1, <1>2, <1>3, <2>1, LaterKeeps
<1>5. CASE GoFullSpeed
  <2>1. Later(ClocksFunc_FullSpeed) /\ applied' = "FullSpeed"
    BY <1>5 DEF GoFullSpeed, Apply
  <2> QED BY <1>1, <1>2, <1>3, <2>1, LaterKeeps
<1> QED BY <1>4, <1>5

LEMMA BoardStepKeeps ==
  ASSUME BoardInv, [Next]_vars
  PROVE  BoardInv'
<1>1. CASE Execute
  BY <1>1, ExecuteKeeps
<1>2. CASE Hardware
  BY <1>2, BoardHardwareKeeps
<1>3. ASSUME NEW g \in DOMAIN Groups, InitGroup(g)
      PROVE  BoardInv'
  <2>1. live' = live \cup {g} /\ Later(Groups[g]) /\ applied' = applied /\ recalled' = recalled
    BY <1>3 DEF InitGroup
  <2> QED BY <2>1, GroupRuns, PinsLaterKeep DEF BoardInv
<1>4. CASE DeinitENET
  <2>1. live' = live \ {"ENET"} /\ Later(InitENET_deinit) /\ applied' = applied /\ recalled' = recalled
    BY <1>4 DEF DeinitENET
  <2> QED BY <2>1, WithoutEthernetRuns, PinsLaterKeep DEF BoardInv
<1>5. CASE GoRUN \/ GoFullSpeed
  BY <1>5, ClocksLaterKeep
<1>6. CASE UNCHANGED vars
  <2>1. PICK d : Known(d) /\ Runs(todo, d, Resting(live, applied))
    BY DEF BoardInv
  <2>2. Known(d)'
    BY <1>6, <2>1 DEF vars, portVars, clockVars, boardVars, registers,
                      Known, PinsKnown, ClocksKnown, RegistersKnown, BoardKnown, Clock
  <2>3. Standing'
    BY <1>6 DEF vars, BoardInv, Standing, portVars, clockVars, boardVars, registers, ClockStands, OwnSource, ClockTypeOK,
                Fed, BoardTypeOK, Served, EthernetReady, OutputsDirected, WellWired
  <2>4. todo' = todo /\ live' = live /\ applied' = applied
    BY <1>6 DEF vars
  <2> QED BY <2>1, <2>2, <2>3, <2>4 DEF BoardInv
<1> QED BY <1>1, <1>2, <1>3, <1>4, <1>5, <1>6 DEF Next

-----------------------------------------------------------------------------
(* The theorems.                                                           *)

\* Whatever is left of the start or of a later call finds what it needs, and ends
\* with every group and clock as it was asked for: any function of pin_mux.c, of a
\* group that is live or not, and either configuration of clock_config.c, from either,
\* any number of times (main.zig, pin_mux.c, clock_config.c).
THEOREM BoardInvariance == Spec => []BoardInv
<1>1. BoardInv /\ [Next]_vars => BoardInv'
  BY BoardStepKeeps
<1> QED BY <1>1, BoardInitially, PTL DEF Spec

\* Until a clock function is called with the core on the SPLL, the start and the
\* calls after it are a caller of the clock tree that keeps its two rules
\* (clock_config.c:16).
THEOREM KeepsClockRules == Spec => ClocksInit /\ [][recalled \/ ClockNext]_clockVars
<1>1. Init => ClocksInit
  BY DEF Init
<1>2. ASSUME BoardInv, [Next]_vars PROVE [recalled \/ ClockNext]_clockVars
  <2>1. CASE Execute
    <3>1. todo # <<>> /\ Step(Head(todo))
      BY <2>1 DEF Execute, Step
    <3>2. PICK d, m : /\ Known(d) /\ Head(todo) \in Ops
                      /\ Allowed(d, Head(todo)) /\ Leads(d, Head(todo), m)
                      /\ Runs(Tail(todo), m, Resting(live, applied))
      BY <1>2, <3>1, Ready
    <3> QED BY <3>1, <3>2, ClocksStep
  <2>2. CASE Hardware
    BY <2>2 DEF Hardware, CacheInvalidated, ClockNext
  <2>3. CASE Next /\ ~Execute /\ ~Hardware
    BY <2>3 DEF Next, InitGroup, DeinitENET, GoRUN, GoFullSpeed, Apply, Later
  <2>4. CASE UNCHANGED vars
    BY <2>4 DEF vars
  <2> QED BY <1>2, <2>1, <2>2, <2>3, <2>4
<1> QED BY <1>1, <1>2, BoardInvariance, PTL DEF Spec

\* No function initialises the source the core runs from; the SPLL loses its oscillator
\* in a clock function that is called with the core on the SPLL, and has it again when
\* the function returns (clock_config.c).
THEOREM CoreClockKeptHolds == Spec => []CoreClockKept
<1>1. ASSUME BoardInv PROVE CoreClockKept
  <2>1. ~refused /\ source[sys.src].state = "valid" /\ (Fed(sys.src) \/ recalled)
    BY <1>1 DEF BoardInv, Standing, ClockStands, OwnSource
  <2>2. ASSUME todo = <<>> PROVE Fed(sys.src)
    <3>1. <<"state", "SOSC", "valid">> \in Resting(live, applied)
      BY DEF Resting, ClockFacts, AllSources, Source_
    <3>2. ClocksKnown(Resting(live, applied))
      BY <1>1, <2>2, AtRest DEF Known
    <3> QED BY <3>1, <3>2 DEF ClocksKnown, Fed, Sources
  <2> QED BY <2>1, <2>2 DEF CoreClockKept
<1> QED BY <1>1, BoardInvariance, PTL

\* What is left to execute touches no register whose clock is off, and no interrupt
\* that is enabled does (peripherals.c:203).
THEOREM ClockedAccessHolds == Spec => []ClockedAccess
<1>1. ASSUME BoardInv PROVE ClockedAccess
  <2>1. \A irq \in nvic \cap {"PORTA", "PORTC"} : (IF irq = "PORTA" THEN "A" ELSE "C") \in portGate
    BY <1>1 DEF BoardInv, Standing, Served
  <2>2. ASSUME todo # <<>>, NEW c, c = Head(todo)
        PROVE  /\ c.op \in OnPin => c.pin[1] \in portGate
               /\ c.op \in OnPort => c.port \in portGate
               /\ c.op = "uart" => /\ "LPUART2" \in ipGate
                                   /\ ipSrc["LPUART2"] # "none"
                                   /\ source[ipSrc["LPUART2"]].div2 # 0
               /\ c.op = "mdio" => "ENET" \in ipGate
               /\ c.op = "rtc" => "RTC" \in ipGate /\ "RTC" \in routed /\ mux[<<"A", 7>>] = "RTC_CLKIN"
    <3>1. PICK d : Known(d) /\ Allowed(d, c)
      BY <1>1, <2>2, Ready
    <3>2. /\ \A p : On("port", p) \in d => p \in portGate
          /\ \A p : On("ip", p) \in d => p \in ipGate
      BY <3>1 DEF Known, PinsKnown, RegistersKnown
    <3>3. c.op \in OnPin => c.pin[1] \in portGate
      BY <3>1, <3>2 DEF OnPin, Allowed
    <3>4. c.op \in OnPort => c.port \in portGate
      BY <3>1, <3>2 DEF OnPort, Allowed
    <3>5. ASSUME c.op = "uart"
          PROVE  "LPUART2" \in ipGate /\ ipSrc["LPUART2"] # "none" /\ source[ipSrc["LPUART2"]].div2 # 0
      <4>1. On("ip", "LPUART2") \in d /\ <<"ipsrc", "LPUART2", "SIRC">> \in d /\ <<"div2", "SIRC", 1>> \in d
        BY <3>1, <3>5 DEF Allowed
      <4>2. ipSrc["LPUART2"] = "SIRC"
        BY <3>1, <4>1 DEF Known, RegistersKnown, IPs
      <4>3. source["SIRC"].div2 = 1
        BY <3>1, <4>1 DEF Known, ClocksKnown, Sources
      <4> QED BY <3>2, <4>1, <4>2, <4>3
    <3>6. c.op = "mdio" => "ENET" \in ipGate
      BY <3>1, <3>2 DEF Allowed
    <3>7. ASSUME c.op = "rtc"
          PROVE  "RTC" \in ipGate /\ "RTC" \in routed /\ mux[<<"A", 7>>] = "RTC_CLKIN"
      <4>1. On("ip", "RTC") \in d /\ On("route", "RTC") \in d /\ <<"mux", <<"A", 7>>, "RTC_CLKIN">> \in d
        BY <3>1, <3>7 DEF Allowed
      <4>2. "RTC" \in routed
        BY <3>1, <4>1 DEF Known, RegistersKnown
      <4>3. mux[<<"A", 7>>] = "RTC_CLKIN"
        <5>1. <<"A", 7>> \in Pins
          BY SomePins
        <5> QED BY <3>1, <4>1, <5>1 DEF Known, PinsKnown
      <4> QED BY <3>2, <4>1, <4>2, <4>3
    <3> QED BY <3>3, <3>4, <3>5, <3>6, <3>7
  <2> QED BY <2>1, <2>2 DEF ClockedAccess
<1> QED BY <1>1, BoardInvariance, PTL

LEMMA GroupKept ==
  ASSUME BoardInv, todo = <<>>, NEW g \in live, NEW c \in Calls(Groups[g])
  PROVE  /\ c.op \in {"mux", "config"} => mux[c.pin] = c.signal
         /\ c.op = "irq" => c.pin \in pinIrq
         /\ c.op = "filter" => IF c.on THEN c.pins \subseteq filtered ELSE c.pins \cap filtered = {}
<1>1. g \in DOMAIN Groups
  BY DEF BoardInv
<1>2. c \in Proper(IF g = "ENET" THEN Pins ELSE Elsewhere)
  <2>1. Groups[g] \in Seq(Proper(IF g = "ENET" THEN Pins ELSE Elsewhere))
    BY <1>1, GroupsGrow DEF Stable
  <2> QED BY <2>1 DEF Calls
<1>3. /\ c \in PinOps
      /\ c.op = "filter" => c.pins \subseteq Pins
  <2>1. Elsewhere \subseteq Pins
    BY DEF Elsewhere
  <2> QED BY <1>2, <2>1 DEF Proper
<1>4. /\ c.op \in {"mux", "config"} => c.pin \in Pins /\ c.signal \in Signals
      /\ c.op = "irq" => c.pin \in Pins
      /\ c.op = "filter" => c.on \in BOOLEAN
  BY <1>3 DEF PinOps
<1>5. \A f \in PinFacts : Gives({}, c, f) => f \in Resting(live, applied)
  BY DEF Resting, Effects, Done
<1>6. PinsKnown(Resting(live, applied))
  BY AtRest DEF Known
<1>7. c.op \in {"mux", "config"} => mux[c.pin] = c.signal
  <2> SUFFICES ASSUME c.op \in {"mux", "config"} PROVE mux[c.pin] = c.signal
    OBVIOUS
  <2>1. <<"mux", c.pin, c.signal>> \in PinFacts /\ Gives({}, c, <<"mux", c.pin, c.signal>>)
    BY <1>4 DEF PinFacts, Gives
  <2> QED BY <1>4, <1>5, <1>6, <2>1 DEF PinsKnown
<1>8. c.op = "irq" => c.pin \in pinIrq
  <2> SUFFICES ASSUME c.op = "irq" PROVE c.pin \in pinIrq
    OBVIOUS
  <2>1. On("irq", c.pin) \in PinFacts /\ Gives({}, c, On("irq", c.pin))
    BY <1>4 DEF PinFacts, Gives, On
  <2> QED BY <1>5, <1>6, <2>1 DEF PinsKnown
<1>9. ASSUME c.op = "filter", NEW p \in c.pins
      PROVE  IF c.on THEN p \in filtered ELSE p \notin filtered
  <2> DEFINE f == <<"filter", p, IF c.on THEN "on" ELSE "off">>
  <2>1. f \in PinFacts /\ Gives({}, c, f)
    BY <1>3, <1>9 DEF PinFacts, Gives
  <2>2. f = IF c.on THEN On("filter", p) ELSE Off("filter", p)
    BY DEF On, Off
  <2> HIDE DEF f
  <2> QED BY <1>5, <1>6, <2>1, <2>2 DEF PinsKnown
<1> QED BY <1>7, <1>8, <1>9

\* Between calls every live group is as its function left it, and no signal is on
\* two pins (pin_mux.c).
THEOREM GroupsIntactHolds == Spec => []GroupsIntact
<1>1. ASSUME BoardInv PROVE GroupsIntact
  <2>1. ASSUME NEW p \in Pins, NEW q \in Pins, p # q, mux[p] = mux[q]
        PROVE  mux[p] \in {"analog", "GPIO"}
    <3>1. Wired(p, mux[p]) /\ Wired(q, mux[q])
      BY <1>1 DEF BoardInv, Standing, WellWired
    <3>2. \A x : <<p, x>> \in Wires /\ <<q, x>> \in Wires => p = q
      BY DEF Wires
    <3> QED BY <2>1, <3>1, <3>2 DEF Wired
  <2> QED BY <1>1, <2>1, GroupKept DEF GroupsIntact
<1> QED BY <1>1, BoardInvariance, PTL

\* In any order of calls, outputs have their direction before they are connected, the
\* RMII and the trace clock are re-routed with their divider off, and a peripheral with
\* an open gate is given the source it has (pin_mux.c, clock_config.c).
THEOREM SafeReroutingHolds == Spec => []SafeRerouting
<1>1. ASSUME BoardInv PROVE SafeRerouting
  <2>1. \A p \in Leds \cup {PHY_RST} : mux[p] = "GPIO" => gpio[p] # "in"
    BY <1>1 DEF BoardInv, Standing, OutputsDirected, Outputs
  <2>2. ASSUME todo # <<>>, NEW c, c = Head(todo)
        PROVE  /\ c.op = "route" /\ c.what = "RMII" => source["SOSC"].div1 = 0
               /\ c.op = "route" /\ c.what = "TRACE" => ~trace
               /\ c.op = "ipsrc" => c.ip \notin ipGate \/ ipSrc[c.ip] = c.src
    <3>1. PICK d : Known(d) /\ Allowed(d, c)
      BY <1>1, <2>2, Ready
    <3>2. /\ <<"div1", "SOSC", 0>> \in d => source["SOSC"].div1 = 0
          /\ Off("trace", "clock") \in d => ~trace
          /\ \A p : Off("ip", p) \in d => p \notin ipGate
          /\ \A p \in IPs : \A s : <<"ipsrc", p, s>> \in d => ipSrc[p] = s
      BY <3>1 DEF Known, ClocksKnown, RegistersKnown, Sources
    <3>3. c.op = "ipsrc" => c.ip \in IPs
      BY <1>1, <2>2, Ready, OpTypes
    <3> QED BY <3>1, <3>2, <3>3 DEF Allowed
  <2> QED BY <2>1, <2>2 DEF SafeRerouting
<1> QED BY <1>1, BoardInvariance, PTL

\* What a configuration says of a source is known of the source.
LEMMA SourceTold ==
  ASSUME ClockTypeOK, NEW d, ClocksKnown(d), NEW s \in Sources, NEW a, NEW b, NEW m, Source_(s, a, b, m) \subseteq d
  PROVE  source[s] = [state |-> "valid", div1 |-> a, div2 |-> b, mult |-> m]
<1>1. source[s] \in Source
  BY DEF ClockTypeOK
<1>2. source[s].state = "valid" /\ source[s].div1 = a /\ source[s].div2 = b /\ source[s].mult = m
  BY DEF Source_, ClocksKnown
<1> QED BY <1>1, <1>2 DEF Source

\* Between calls the clocks are those of the configuration that was applied last,
\* and SystemCoreClock fits them; after RUN the UART's divider does, too, and after
\* FullSpeed nothing is said of it (clock_config.c, peripherals.c).
THEOREM ClocksAsConfiguredHolds == Spec => []ClocksAsConfigured
<1>1. ASSUME BoardInv, todo = <<>>
      PROVE  /\ Expected(IF applied = "RUN" THEN ConfigRUN ELSE ConfigFullSpeed)
             /\ coreClock = SystemCoreClockUpdate
             /\ applied = "RUN" => Frequency(ipSrc["LPUART2"]) = 8 * source[ipSrc["LPUART2"]].div2
  <2> DEFINE r == Resting(live, applied)
  <2>1. ClocksKnown(r) /\ RegistersKnown(r) /\ ClockTypeOK /\ applied \in {"RUN", "FullSpeed"}
    BY <1>1, AtRest DEF Known, BoardInv, Standing, ClockStands, OwnSource
  <2>2. ClockFacts(applied) \subseteq r /\ Chosen \subseteq r
    BY DEF Resting
  <2> HIDE DEF r
  <2>3. ASSUME NEW a, NEW b, NEW m, AllSources(a, b, m) \subseteq r
        PROVE  /\ source["SOSC"] = [state |-> "valid", div1 |-> a, div2 |-> 0, mult |-> 0]
               /\ source["FIRC"] = [state |-> "valid", div1 |-> 0, div2 |-> b, mult |-> 0]
               /\ source["SIRC"] = [state |-> "valid", div1 |-> 0, div2 |-> b, mult |-> 0]
               /\ source["SPLL"] = [state |-> "valid", div1 |-> 0, div2 |-> 0, mult |-> m]
    <3>1. /\ Source_("SOSC", a, 0, 0) \subseteq r /\ Source_("FIRC", 0, b, 0) \subseteq r
          /\ Source_("SIRC", 0, b, 0) \subseteq r /\ Source_("SPLL", 0, 0, m) \subseteq r
      BY <2>3 DEF AllSources
    <3> QED BY <2>1, <3>1, SourceTold, ClockValues
  <2>4. CASE applied = "RUN"
    <3>1. AllSources(1, 1, 16) \subseteq r /\ FIRC1 \in r /\ <<"core", "clock", 48>> \in r
      BY <2>2, <2>4 DEF ClockFacts
    <3>2. /\ source["SOSC"] = [state |-> "valid", div1 |-> 1, div2 |-> 0, mult |-> 0]
          /\ source["FIRC"] = [state |-> "valid", div1 |-> 0, div2 |-> 1, mult |-> 0]
          /\ source["SIRC"] = [state |-> "valid", div1 |-> 0, div2 |-> 1, mult |-> 0]
          /\ source["SPLL"] = [state |-> "valid", div1 |-> 0, div2 |-> 0, mult |-> 16]
      BY <2>3, <3>1
    <3>3. Expected(ConfigRUN)
      BY <3>2 DEF Expected, ConfigRUN, Start, Sources
    <3>4. coreClock = 48 /\ sys = Clock("FIRC", 1)
      BY <2>1, <3>1 DEF ClocksKnown, RegistersKnown, FIRC1
    <3>5. coreClock = SystemCoreClockUpdate
      BY <3>4 DEF SystemCoreClockUpdate, Frequency, Clock
    <3>6. ipSrc["LPUART2"] = "SIRC"
      BY <2>1, <2>2 DEF RegistersKnown, Chosen, UartSirc, IPs
    <3>7. Frequency("SIRC") = 8 * source["SIRC"].div2
      BY <3>2 DEF Frequency
    <3> QED BY <2>4, <3>3, <3>5, <3>6, <3>7
  <2>5. CASE applied = "FullSpeed"
    <3>1. AllSources(0, 0, 24) \subseteq r /\ <<"runs", "SPLL", 2>> \in r /\ <<"core", "clock", 80>> \in r
      BY <2>2, <2>5 DEF ClockFacts
    <3>2. /\ source["SOSC"] = [state |-> "valid", div1 |-> 0, div2 |-> 0, mult |-> 0]
          /\ source["FIRC"] = [state |-> "valid", div1 |-> 0, div2 |-> 0, mult |-> 0]
          /\ source["SIRC"] = [state |-> "valid", div1 |-> 0, div2 |-> 0, mult |-> 0]
          /\ source["SPLL"] = [state |-> "valid", div1 |-> 0, div2 |-> 0, mult |-> 24]
      BY <2>3, <3>1
    <3>3. Expected(ConfigFullSpeed)
      BY <3>2 DEF Expected, ConfigFullSpeed, Start, Sources
    <3>4. coreClock = 80 /\ sys = Clock("SPLL", 2)
      BY <2>1, <3>1 DEF ClocksKnown, RegistersKnown
    <3>5. coreClock = SystemCoreClockUpdate
      BY <3>2, <3>4 DEF SystemCoreClockUpdate, Frequency, Clock
    <3> QED BY <2>5, <3>3, <3>5
  <2> QED BY <2>1, <2>4, <2>5
<1>2. BoardInv => ClocksAsConfigured
  BY <1>1 DEF ClocksAsConfigured
<1> QED BY <1>2, BoardInvariance, PTL

\* Waits only without the watchdog, the cache after it is clean, Ethernet after the
\* PHY's reset, interrupts with the priority of the board, kernel objects in a kernel
\* that is ready (startup, hardware_init.c, main.zig).
THEOREM InOrderHolds == Spec => []InOrder
<1>1. ASSUME BoardInv PROVE InOrder
  <2>1. nvic \subseteq prio /\ ("ENET" \in ipGate => phy = "ready" /\ dma)
    BY <1>1 DEF BoardInv, Standing, Served, EthernetReady
  <2>2. ASSUME todo # <<>>, NEW c, c = Head(todo)
        PROVE  /\ c.op \in {"cacheClean", "valid", "switched"} => ~watchdog
               /\ c.op = "cacheOn" => cache = "clean"
               /\ c.op = "create" => kernel = "ready"
    <3>1. PICK d : Known(d) /\ Allowed(d, c)
      BY <1>1, <2>2, Ready
    <3>2. /\ WatchdogOff \in d => ~watchdog
          /\ CacheClean \in d => cache = "clean"
          /\ KernelReady \in d => kernel = "ready"
      BY <3>1 DEF Known, BoardKnown
    <3> QED BY <3>1, <3>2 DEF Allowed
  <2> QED BY <2>1, <2>2 DEF InOrder
<1> QED BY <1>1, BoardInvariance, PTL
=============================================================================
