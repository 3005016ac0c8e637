------------------------------- MODULE Netif -------------------------------
(***************************************************************************)
(* The network interface as the firmware sees it: the link and DHCP state  *)
(* that lwIP keeps (external) and the callbacks of                         *)
(* board/frdmmcxe247/src/ethernet.zig that lwIP calls when they change.    *)
(* The callback registered by main.zig turns an address change into a      *)
(* thread flag of the main thread.                                         *)
(*                                                                         *)
(* Two threads run lwIP's protocol code: the tcpip thread (timers, the     *)
(* link probe) and the receive task of the driver, because the interface   *)
(* is added with ethernet_input, which processes a frame in the thread     *)
(* that calls it.  Both have priority 32 and RTX switches between them     *)
(* round-robin, so what the callbacks of one address change read and write *)
(* are steps that the other thread can come between.                       *)
(***************************************************************************)
EXTENDS ThreadFlags

CONSTANTS
  Addrs,    \* the IPv4 addresses a DHCP server may lease
  NoAddr,   \* IP4_ADDR_ANY: the interface has no address
  LeasesExpire    \* FALSE when every lease is for ever

ASSUME AddrsAssumption == NoAddr \notin Addrs
ASSUME LeasesExpireAssumption == LeasesExpire \in BOOLEAN

VARIABLES
  link,        \* netif_is_link_up
  dhcp,        \* state of lwIP's DHCP client
  addr,        \* netif_ip4_addr
  dhcp_bound,  \* Netif.dhcp_bound
  chain,       \* where each thread is in the callbacks of a change
  overlap      \* history: the last change of the address fell into the
               \* callbacks of the other thread

netifVars == <<link, dhcp, addr, dhcp_bound, chain, overlap>>

Threads == {"rx", "tcpip"}
DhcpStates == {"off", "selecting", "rebooting", "bound"}

\* An address change calls the status callback, which has read that there is
\* a lease or none before it writes, then the extended callback, which has
\* read dhcp_bound before it sets the flag.
Callbacks == {"none", "status", "leased", "unleased", "ext", "up", "down"}

NetifInit ==
  /\ link = FALSE
  /\ dhcp = "off"
  /\ addr = NoAddr
  /\ dhcp_bound = FALSE
  /\ chain = [t \in Threads |-> "none"]
  /\ overlap = FALSE

-----------------------------------------------------------------------------
(* ethernet.zig and the callback main.zig registers with set_callbacks.    *)

\* Thread t goes on from one point of its callbacks to the next.
CallNext(t, from, to) ==
  /\ chain[t] = from
  /\ chain' = [chain EXCEPT ![t] = to]
  /\ UNCHANGED <<link, dhcp, addr, overlap>>

\* dhcp_supplied_address: the client holds a lease right now.
SuppliedAddress == dhcp = "bound"

StatusCallbackReads(t) ==
  /\ CallNext(t, "status", IF SuppliedAddress THEN "leased" ELSE "unleased")
  /\ UNCHANGED <<dhcp_bound, flagVars>>

\* Fault: a loss of the address does not clear the flag.
StatusCallbackWrites_Sticky(t) ==
  /\ chain[t] \in {"leased", "unleased"}
  /\ CallNext(t, chain[t], "ext")
  /\ dhcp_bound' = (dhcp_bound \/ chain[t] = "leased")
  /\ UNCHANGED flagVars

StatusCallbackWrites(t) ==
  /\ chain[t] \in {"leased", "unleased"}
  /\ CallNext(t, chain[t], "ext")
  /\ dhcp_bound' = (chain[t] = "leased")
  /\ UNCHANGED flagVars

ExtCallbackReads(t) ==
  /\ CallNext(t, "ext", IF dhcp_bound THEN "up" ELSE "down")
  /\ UNCHANGED <<dhcp_bound, flagVars>>

\* Fault: only a new lease is reported.
DhcpUpDown_UpOnly(t) ==
  /\ chain[t] \in {"up", "down"}
  /\ CallNext(t, chain[t], "none")
  /\ IF chain[t] = "up" THEN FlagsSet({"dhcp_up"}) ELSE UNCHANGED flagVars
  /\ UNCHANGED dhcp_bound

\* main.zig dhcp_up_down: one flag for up, one for down.
DhcpUpDown(t) ==
  /\ chain[t] \in {"up", "down"}
  /\ CallNext(t, chain[t], "none")
  /\ FlagsSet({IF chain[t] = "up" THEN "dhcp_up" ELSE "dhcp_down"})
  /\ UNCHANGED dhcp_bound

Callback(t) ==
  \/ StatusCallbackReads(t) \/ StatusCallbackWrites(t)
  \/ ExtCallbackReads(t) \/ DhcpUpDown(t)

-----------------------------------------------------------------------------
(* What happens on the network, as lwIP's threads see it.                  *)

\* netif_set_addr in thread t: callbacks only for a real change.
SetAddr(t, a) ==
  /\ chain[t] = "none"
  /\ addr' = a
  /\ IF a # addr
       THEN /\ chain' = [chain EXCEPT ![t] = "status"]
            /\ overlap' = \E u \in Threads \ {t} : chain[u] # "none"
       ELSE UNCHANGED <<chain, overlap>>

\* An acknowledged lease, first or renewed, with the same or another address.
\* The receive task looks at no link state, and lwIP hears of a link change
\* only at the next probe.
DhcpBind(a) ==
  /\ dhcp # "off"
  /\ dhcp' = "bound"
  /\ SetAddr("rx", a)
  /\ UNCHANGED <<link, dhcp_bound, flagVars>>

\* A NAK in the receive task, an expired lease in the tcpip thread.
DhcpLose(t) ==
  /\ t = "tcpip" => LeasesExpire
  /\ dhcp # "off"
  /\ addr # NoAddr
  /\ dhcp' = "selecting"
  /\ SetAddr(t, NoAddr)
  /\ UNCHANGED <<link, dhcp_bound, flagVars>>

\* The rebooting client gives up on its old lease and starts over; the
\* address stays on the interface until a new one is bound.
DhcpRebootTimeout ==
  /\ chain["tcpip"] = "none"
  /\ dhcp = "rebooting"
  /\ dhcp' = "selecting"
  /\ UNCHANGED <<link, addr, dhcp_bound, chain, overlap, flagVars>>

\* link_status_callback with the link up: speed and duplex only.  lwIP
\* restarts the DHCP exchange for the address it holds.
LinkUp ==
  /\ chain["tcpip"] = "none"
  /\ ~link
  /\ link' = TRUE
  /\ dhcp' = IF dhcp = "bound" THEN "rebooting" ELSE dhcp
  /\ UNCHANGED <<addr, dhcp_bound, chain, overlap, flagVars>>

\* link_status_callback with the link down: dhcp_bound is cleared, the main
\* thread hears nothing and lwIP keeps the address.
LinkDown ==
  /\ chain["tcpip"] = "none"
  /\ link
  /\ link' = FALSE
  /\ dhcp_bound' = FALSE
  /\ UNCHANGED <<dhcp, addr, chain, overlap, flagVars>>

NetifNext ==
  \/ \E t \in Threads : Callback(t) \/ DhcpLose(t)
  \/ \E a \in Addrs : DhcpBind(a)
  \/ DhcpRebootTimeout
  \/ LinkUp
  \/ LinkDown
=============================================================================
