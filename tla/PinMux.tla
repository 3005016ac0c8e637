------------------------------- MODULE PinMux -------------------------------
(***************************************************************************)
(* The pins of the board (board/frdmmcxe247/board/pin_mux.c).              *)
(*                                                                         *)
(* Every function of that file is a straight line of calls of the vendor's *)
(* drivers, so a function is given as the sequence of its calls, and what  *)
(* a call does to the ports is an action.  Pulls and drive strengths are   *)
(* left out.                                                               *)
(***************************************************************************)
EXTENDS Sequences, Naturals

VARIABLES
  portGate,  \* the ports whose clock gate is open (PCC)
  mux,       \* the signal each pin is connected to (PCR.MUX)
  pinIrq,    \* the pins that interrupt on an edge (PCR.IRQC)
  filtered,  \* the pins behind the digital filter (DFER)
  gpio       \* what the GPIO block does with each pin: input, or a level

portVars == <<portGate, mux, pinIrq, filtered, gpio>>

PHY_RST == <<"C", 3>>
LED_GREEN == <<"B", 11>>
LED_BLUE == <<"C", 12>>
LED_RED == <<"C", 13>>
SW2 == <<"A", 9>>
SW3 == <<"C", 10>>

Leds == {LED_GREEN, LED_BLUE, LED_RED}

-----------------------------------------------------------------------------
(* The calls.                                                              *)

EnableClock(port) == <<[op |-> "gate", port |-> port]>>
PinInit(pin, as) == <<[op |-> "gpio", pin |-> pin, as |-> as]>>
PinWrite(pin, level) == <<[op |-> "write", pin |-> pin, level |-> level]>>
SetPinMux(pin, sig) == <<[op |-> "mux", pin |-> pin, signal |-> sig]>>
SetPinConfig(pin, sig) == <<[op |-> "config", pin |-> pin, signal |-> sig]>>
PinInterrupt(pin) == <<[op |-> "irq", pin |-> pin]>>
Filter(port, numbers, on) ==
  <<[op |-> "filter", port |-> port, pins |-> {<<port, n>> : n \in numbers}, on |-> on]>>

OnPort == {"filter"}
OnPin == {"mux", "config", "irq"}

-----------------------------------------------------------------------------
(* The functions of pin_mux.c.                                             *)

InitPins == EnableClock("A") \o SetPinMux(<<"A", 7>>, "RTC_CLKIN")

InitDEBUG_UARTPins ==
  EnableClock("D") \o EnableClock("E")
  \o SetPinMux(<<"D", 17>>, "LPUART2_RX") \o SetPinMux(<<"E", 12>>, "LPUART2_TX")

InitLEDsPins ==
  EnableClock("B") \o EnableClock("C")
  \o PinInit(LED_GREEN, "low") \o PinInit(LED_BLUE, "low") \o PinInit(LED_RED, "low")
  \o SetPinMux(LED_GREEN, "GPIO") \o SetPinMux(LED_BLUE, "GPIO") \o SetPinMux(LED_RED, "GPIO")

InitBUTTONsPins ==
  EnableClock("A") \o EnableClock("C") \o PinInit(SW2, "in") \o PinInit(SW3, "in")
  \o Filter("A", {9}, TRUE)
  \o SetPinMux(SW2, "GPIO") \o PinInterrupt(SW2) \o SetPinMux(SW3, "GPIO") \o PinInterrupt(SW3)

InitI2CPins ==
  EnableClock("D") \o Filter("D", {8, 9}, FALSE)
  \o SetPinConfig(<<"D", 8>>, "LPI2C1_SDA") \o SetPinConfig(<<"D", 9>>, "LPI2C1_SCL")

\* Fault: the mask of the filter is that of the buttons.
InitACCELPins_WrongMask ==
  EnableClock("A") \o Filter("A", {2, 9}, FALSE)
  \o SetPinConfig(<<"A", 2>>, "LPI2C0_SDA") \o SetPinConfig(<<"A", 3>>, "LPI2C0_SCL")

InitACCELPins ==
  EnableClock("A") \o Filter("A", {2, 3}, FALSE)
  \o SetPinConfig(<<"A", 2>>, "LPI2C0_SDA") \o SetPinConfig(<<"A", 3>>, "LPI2C0_SCL")

InitSPIPins ==
  EnableClock("B") \o EnableClock("E")
  \o Filter("B", {3}, FALSE) \o SetPinConfig(<<"B", 3>>, "LPSPI0_SIN")
  \o Filter("E", {0, 2, 6}, FALSE) \o SetPinConfig(<<"E", 0>>, "LPSPI0_SCK")
  \o SetPinConfig(<<"E", 2>>, "LPSPI0_SOUT") \o SetPinConfig(<<"E", 6>>, "LPSPI0_PCS2")

InitCANPins ==
  EnableClock("E")
  \o SetPinMux(<<"E", 4>>, "CAN0_RX") \o SetPinMux(<<"E", 5>>, "CAN0_TX")

ENETGates == EnableClock("B") \o EnableClock("C") \o EnableClock("D") \o EnableClock("E")

\* Fault: the reset pin is connected before it has its level.
InitENET_MuxFirst ==
  ENETGates \o SetPinMux(PHY_RST, "GPIO") \o PinInit(PHY_RST, "high")
  \o SetPinMux(<<"B", 4>>, "MDIO") \o SetPinMux(<<"C", 0>>, "RXD1") \o SetPinMux(<<"C", 1>>, "RXD0")
  \o SetPinMux(<<"C", 17>>, "RX_DV") \o SetPinMux(<<"C", 2>>, "TXD0")
  \o SetPinMux(<<"D", 11>>, "TX_CLK") \o SetPinMux(<<"D", 12>>, "TX_EN")
  \o SetPinMux(<<"D", 7>>, "TXD1") \o SetPinMux(<<"E", 8>>, "MDC")

InitENET ==
  ENETGates \o PinInit(PHY_RST, "high")
  \o SetPinMux(<<"B", 4>>, "MDIO") \o SetPinMux(<<"C", 0>>, "RXD1") \o SetPinMux(<<"C", 1>>, "RXD0")
  \o SetPinMux(<<"C", 17>>, "RX_DV") \o SetPinMux(<<"C", 2>>, "TXD0") \o SetPinMux(PHY_RST, "GPIO")
  \o SetPinMux(<<"D", 11>>, "TX_CLK") \o SetPinMux(<<"D", 12>>, "TX_EN")
  \o SetPinMux(<<"D", 7>>, "TXD1") \o SetPinMux(<<"E", 8>>, "MDC")

InitENET_deinit ==
  ENETGates
  \o Filter("B", {4}, FALSE) \o SetPinConfig(<<"B", 4>>, "analog")
  \o Filter("C", {0, 1, 2, 3, 17}, FALSE)
  \o SetPinConfig(<<"C", 0>>, "analog") \o SetPinConfig(<<"C", 1>>, "analog")
  \o SetPinConfig(<<"C", 17>>, "analog") \o SetPinConfig(<<"C", 2>>, "analog")
  \o SetPinConfig(PHY_RST, "analog")
  \o Filter("D", {7, 11, 12}, FALSE) \o SetPinConfig(<<"D", 11>>, "analog")
  \o SetPinConfig(<<"D", 12>>, "analog") \o SetPinConfig(<<"D", 7>>, "analog")
  \o Filter("E", {8}, FALSE) \o SetPinConfig(<<"E", 8>>, "analog")

InitBootPins == InitPins \o InitDEBUG_UARTPins \o InitENET

-----------------------------------------------------------------------------
(* What the drivers do.                                                    *)

Pins ==
  {<<"A", n>> : n \in {2, 3, 7, 9}} \cup {<<"B", n>> : n \in {3, 4, 11}}
  \cup {<<"C", n>> : n \in {0, 1, 2, 3, 10, 12, 13, 17}}
  \cup {<<"D", n>> : n \in {7, 8, 9, 11, 12, 17}} \cup {<<"E", n>> : n \in {0, 2, 4, 5, 6, 8, 12}}

PortsInit ==
  /\ portGate = {}
  /\ mux = [p \in Pins |-> "analog"]
  /\ pinIrq = {}
  /\ filtered = {}
  /\ gpio = [p \in Pins |-> "in"]

PortOp(c) ==
  \/ /\ c.op = "gate"
     /\ portGate' = portGate \cup {c.port}
     /\ UNCHANGED <<mux, pinIrq, filtered, gpio>>
  \/ /\ c.op = "gpio"
     /\ gpio' = [gpio EXCEPT ![c.pin] = c.as]
     /\ UNCHANGED <<portGate, mux, pinIrq, filtered>>
  \/ /\ c.op = "write"
     /\ gpio' = [gpio EXCEPT ![c.pin] = IF @ = "in" THEN @ ELSE c.level]
     /\ UNCHANGED <<portGate, mux, pinIrq, filtered>>
  \/ /\ c.op = "mux"
     /\ mux' = [mux EXCEPT ![c.pin] = c.signal]
     /\ UNCHANGED <<portGate, pinIrq, filtered, gpio>>
  \/ /\ c.op = "config"   \* writes the whole of PCR
     /\ mux' = [mux EXCEPT ![c.pin] = c.signal]
     /\ pinIrq' = pinIrq \ {c.pin}
     /\ UNCHANGED <<portGate, filtered, gpio>>
  \/ /\ c.op = "irq"
     /\ pinIrq' = pinIrq \cup {c.pin}
     /\ UNCHANGED <<portGate, mux, filtered, gpio>>
  \/ /\ c.op = "filter"
     /\ filtered' = IF c.on THEN filtered \cup c.pins ELSE filtered \ c.pins
     /\ UNCHANGED <<portGate, mux, pinIrq, gpio>>
=============================================================================
