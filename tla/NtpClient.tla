----------------------------- MODULE NtpClient -----------------------------
(***************************************************************************)
(* One NTP exchange after another over a UDP socket: getTimeFromServer of  *)
(* src/ntp.zig on top of LwipConnection of src/simpleConnection.zig, with  *)
(* lwIP's sockets and the network they talk to (external).                 *)
(*                                                                         *)
(* Every exchange opens a new socket on the same local port 123, towards a *)
(* server that DNS picks anew from a pool, receives one datagram, and      *)
(* closes the socket.  The network may lose, delay, reorder and duplicate  *)
(* datagrams, so replies to earlier exchanges arrive at later sockets.     *)
(*                                                                         *)
(* An exchange is identified by its number.  It stands for the pair        *)
(* (RTC second, kernel tick) the code writes into the transmit timestamp   *)
(* of the request and compares with the originate timestamp of the reply.  *)
(***************************************************************************)
EXTENDS Naturals, Sequences

CONSTANTS
  Servers,   \* the addresses pool.ntp.org resolves to
  Sockets,   \* lwIP's socket descriptors (MEMP_NUM_NETCONN of them)
  MboxSize,  \* DEFAULT_UDP_RECVMBOX_SIZE
  MaxCalls,  \* bound: the number of exchanges
  None       \* INVALID_SOCKET, and "no peer"

ASSUME NoneAssumption == None \notin Servers \cup Sockets
ASSUME MboxAssumption == MboxSize \in Nat \ {0}
ASSUME CallsAssumption == MaxCalls \in Nat

VARIABLES
  step,      \* where the exchange is
  call,      \* number of the exchange: origin_timestamp_s, _frac
  sd,        \* conn.sd
  peer,      \* conn.peer
  result,    \* the outcome of the last exchange
  open,      \* lwIP: the sockets that are open,
  bound,     \*   those bound to local port 123,
  remote,    \*   the address each is connected to,
  rx,        \*   and the datagrams waiting in its mailbox
  leaked,    \* history: the sockets whose lwip_close failed
  requests,  \* network: the requests that left the device
  replies    \*   and the replies that servers sent

clientVars == <<step, call, sd, peer, result>>
lwipVars == <<open, bound, remote, rx, leaked>>
netVars == <<requests, replies>>
vars == <<clientVars, lwipVars, netVars>>

Kinds == {"valid", "bad_version", "kiss_of_death", "zero_transmit", "empty"}

Request == [call : Nat, server : Servers]
Reply == [call : Nat, server : Servers, kind : Kinds]

\* The outcome of an exchange: an error, or the reply it accepted.
Failed == [status |-> "error"]
Accepted(reply) == [status |-> "ok", reply |-> reply]

Init ==
  /\ step = "idle"
  /\ call = 0
  /\ sd = None
  /\ peer = None
  /\ result = Failed
  /\ open = {}
  /\ bound = {}
  /\ remote = [s \in Sockets |-> None]
  /\ rx = [s \in Sockets |-> <<>>]
  /\ leaked = {}
  /\ requests = {}
  /\ replies = {}

-----------------------------------------------------------------------------
(* getTimeFromServer, one action per call that can fail or block.          *)

GoTo(from, to) == step = from /\ step' = to

\* Leave the exchange with an error, through the pending defers or not.
FailTo(from, to) == GoTo(from, to) /\ result' = Failed

Begin ==
  /\ GoTo("idle", "dns")
  /\ call < MaxCalls
  /\ call' = call + 1
  /\ sd' = None
  /\ peer' = None
  /\ UNCHANGED <<result, lwipVars, netVars>>

\* netconn_gethostbyname: any server of the pool.
Resolve(server) ==
  /\ GoTo("dns", "socket")
  /\ peer' = server
  /\ UNCHANGED <<call, sd, result, lwipVars, netVars>>

ResolveFails ==
  /\ FailTo("dns", "idle")
  /\ UNCHANGED <<call, sd, peer, lwipVars, netVars>>

OpenSocket(s) ==
  /\ GoTo("socket", "bind")
  /\ s \in Sockets \ open
  /\ sd' = s
  /\ open' = open \cup {s}
  /\ UNCHANGED <<call, peer, result, bound, remote, rx, leaked, netVars>>

\* lwip_socket returns -1.
OpenSocketFails ==
  /\ FailTo("socket", "idle")
  /\ sd' = None
  /\ UNCHANGED <<call, peer, lwipVars, netVars>>

\* lwip_bind refuses a port another socket is bound to.
Bind ==
  /\ GoTo("bind", "connect")
  /\ bound = {}
  /\ bound' = {sd}
  /\ UNCHANGED <<call, sd, peer, result, open, remote, rx, leaked, netVars>>

\* Fault: the error path leaves without closing the socket.
BindFails_Leaks ==
  /\ FailTo("bind", "idle")
  /\ UNCHANGED <<call, sd, peer, lwipVars, netVars>>

BindFails ==
  /\ FailTo("bind", "abort")
  /\ UNCHANGED <<call, sd, peer, lwipVars, netVars>>

Connect ==
  /\ GoTo("connect", "send")
  /\ remote' = [remote EXCEPT ![sd] = peer]
  /\ UNCHANGED <<call, sd, peer, result, open, bound, rx, leaked, netVars>>

ConnectFails ==
  /\ FailTo("connect", "abort")
  /\ UNCHANGED <<call, sd, peer, lwipVars, netVars>>

Send ==
  /\ GoTo("send", "recv")
  /\ requests' = requests \cup {[call |-> call, server |-> peer]}
  /\ UNCHANGED <<call, sd, peer, result, lwipVars, replies>>

\* An error of lwip_sendto, or fewer bytes than the packet has.
SendFails ==
  /\ FailTo("send", "close")
  /\ UNCHANGED <<call, sd, peer, lwipVars, netVars>>

\* Fault: the originate timestamp is not compared.
Acceptable_AnyOrigin(reply) ==
  reply.kind \notin {"empty", "bad_version", "kiss_of_death", "zero_transmit"}

\* The checks of process_server_packet; a datagram without data is already
\* an error of recieve.
Acceptable(reply) ==
  /\ reply.kind \notin {"empty", "bad_version", "kiss_of_death",
                        "zero_transmit"}
  /\ reply.call = call

\* Fault: wait for another datagram after a useless one.
Receive_UntilValid ==
  /\ step = "recv"
  /\ rx[sd] # <<>>
  /\ LET reply == Head(rx[sd]) IN
       /\ peer' = reply.server
       /\ step' = IF Acceptable(reply) THEN "close" ELSE "recv"
       /\ result' = IF Acceptable(reply) THEN Accepted(reply) ELSE Failed
  /\ rx' = [rx EXCEPT ![sd] = Tail(@)]
  /\ UNCHANGED <<call, sd, open, bound, remote, leaked, netVars>>

\* lwip_recvfrom takes the first datagram of the mailbox, and overwrites
\* conn.peer with its sender.  There is no second attempt.
Receive ==
  /\ GoTo("recv", "close")
  /\ rx[sd] # <<>>
  /\ LET reply == Head(rx[sd]) IN
       /\ peer' = reply.server
       /\ result' = IF Acceptable(reply) THEN Accepted(reply) ELSE Failed
  /\ rx' = [rx EXCEPT ![sd] = Tail(@)]
  /\ UNCHANGED <<call, sd, open, bound, remote, leaked, netVars>>

\* Fault: the port stays bound after the socket is closed.
Close_KeepsPort ==
  /\ GoTo("close", "idle") \/ GoTo("abort", "idle")
  /\ sd' = None
  /\ open' = open \ {sd}
  /\ remote' = [remote EXCEPT ![sd] = None]
  /\ rx' = [rx EXCEPT ![sd] = <<>>]
  /\ UNCHANGED <<call, peer, result, bound, leaked, netVars>>

\* lwip_close: the socket, its binding and its mailbox are gone.
Close ==
  /\ GoTo("close", "idle") \/ GoTo("abort", "idle")
  /\ sd' = None
  /\ open' = open \ {sd}
  /\ bound' = bound \ {sd}
  /\ remote' = [remote EXCEPT ![sd] = None]
  /\ rx' = [rx EXCEPT ![sd] = <<>>]
  /\ UNCHANGED <<call, peer, result, leaked, netVars>>

\* lwip_close returns an error and leaves the socket as it is.  conn.sd is
\* forgotten all the same (the defer of close), both callers swallow the error
\* (catch {}), and the outcome of the exchange stands.
CloseFails ==
  /\ GoTo("close", "idle") \/ GoTo("abort", "idle")
  /\ sd' = None
  /\ leaked' = leaked \cup {sd}
  /\ UNCHANGED <<call, peer, result, open, bound, remote, rx, netVars>>

-----------------------------------------------------------------------------
(* The network.  Datagrams stay in flight for ever: one that is never      *)
(* delivered is lost, one delivered again is a duplicate.                  *)

\* A server that has the request sends its reply: right, or useless.
Serve(request, kind) ==
  /\ \A reply \in replies :
       <<reply.call, reply.server>> # <<request.call, request.server>>
  /\ replies' = replies \cup
       {[call |-> request.call, server |-> request.server, kind |-> kind]}
  /\ UNCHANGED <<clientVars, lwipVars, requests>>

\* lwIP hands a datagram to the socket bound to port 123 if that is connected
\* to the sender or not connected yet, and drops it if the mailbox is full.
Deliver(reply, s) ==
  /\ s \in bound
  /\ remote[s] \in {None, reply.server}
  /\ Len(rx[s]) < MboxSize
  /\ rx' = [rx EXCEPT ![s] = Append(@, reply)]
  /\ UNCHANGED <<clientVars, open, bound, remote, leaked, netVars>>

-----------------------------------------------------------------------------
ClientNext ==
  \/ Begin
  \/ \E server \in Servers : Resolve(server)
  \/ ResolveFails
  \/ \E s \in Sockets : OpenSocket(s)
  \/ OpenSocketFails
  \/ Bind \/ BindFails
  \/ Connect \/ ConnectFails
  \/ Send \/ SendFails
  \/ Receive
  \/ Close \/ CloseFails

NetworkNext ==
  \/ \E request \in requests, kind \in Kinds : Serve(request, kind)
  \/ \E reply \in replies, s \in bound : Deliver(reply, s)

\* The bound on the exchanges is reached.
Finished ==
  /\ step = "idle" /\ call = MaxCalls
  /\ UNCHANGED vars

Next == ClientNext \/ NetworkNext \/ Finished

Spec == Init /\ [][Next]_vars

\* The main thread runs whenever it can; nothing is promised about datagrams.
FairSpec == Spec /\ WF_vars(ClientNext)

\* The datagrams of an exchange that waits for one are answered and arrive.
Answer ==
  /\ step = "recv"
  /\ \/ \E request \in requests, kind \in Kinds :
          request.call = call /\ Serve(request, kind)
     \/ \E reply \in replies : Deliver(reply, sd)

AnsweredSpec == FairSpec /\ WF_vars(Answer)

-----------------------------------------------------------------------------
(* Properties.                                                             *)

Steps == {"idle", "dns", "socket", "bind", "connect", "send", "recv",
          "abort", "close"}

\* The type invariant.
TypeOK ==
  /\ step \in Steps
  /\ call \in 0..MaxCalls
  /\ sd \in Sockets \cup {None}
  /\ peer \in Servers \cup {None}
  /\ result \in {Failed} \cup {Accepted(reply) : reply \in replies}
  /\ open \subseteq Sockets
  /\ bound \subseteq open
  /\ remote \in [Sockets -> Servers \cup {None}]
  /\ rx \in [Sockets -> Seq(replies)]
  /\ leaked \subseteq open
  /\ requests \subseteq Request
  /\ replies \subseteq Reply

\* An accepted reply is the valid answer of the server this very exchange
\* asked, whatever replies to earlier exchanges, of whatever servers, arrive
\* at the reused port before or instead of it (ntp.zig:196-198).
AcceptedAnswersCall ==
  step \in {"close", "idle"} /\ result.status = "ok" =>
    /\ result.reply.kind = "valid"
    /\ result.reply.call = call
    /\ [call |-> call, server |-> result.reply.server] \in requests

\* Besides the sockets whose lwip_close failed, exactly one is open while an
\* exchange needs one, the one conn.sd names, and none otherwise: no other path
\* of open and getTimeFromServer leaks a socket, none uses a closed one or
\* closes one twice, and none takes up again a socket that a failed close left
\* behind (simpleConnection.zig:142,201-206; ntp.zig:243-246).
SocketDiscipline ==
  /\ sd \notin leaked
  /\ open = leaked \cup
       IF step \in {"idle", "dns", "socket"} THEN {} ELSE {sd}

\* Every exchange returns to the event loop once its datagrams are answered.
CallReturns == step # "idle" ~> step = "idle"
=============================================================================
