-------------------------- MODULE NtpClientProofs --------------------------
(***************************************************************************)
(* Proofs about the NTP exchanges, for any servers, sockets, mailbox and   *)
(* number of exchanges, and a network that loses, delays, duplicates and   *)
(* reorders as it likes.                                                   *)
(***************************************************************************)
EXTENDS NtpClient, SequenceTheorems, TLAPS

\* A reply answers a request that left the device, however late it arrives; that is
\* why comparing its number is enough to know that it is of this exchange.
RepliesAnswer ==
  \A reply \in replies : [call |-> reply.call, server |-> reply.server] \in requests

\* Past OpenSocket conn.sd names a socket, and what is sent is sent to a server.
SocketOfStep ==
  /\ step \in {"bind", "connect", "send", "recv", "abort", "close"} => sd \in Sockets
  /\ step \in {"socket", "bind", "connect", "send"} => peer \in Servers
  /\ step = "abort" => result = Failed

ExchangeInv ==
  TypeOK /\ RepliesAnswer /\ SocketOfStep /\ SocketDiscipline /\ AcceptedAnswersCall

USE DEF Steps, GoTo, FailTo, clientVars, lwipVars, netVars

LEMMA FailedIsError == Failed.status = "error" /\ Failed.status # "ok"
  BY DEF Failed

LEMMA ExchangeInitially == Init => ExchangeInv
<1> SUFFICES ASSUME Init PROVE ExchangeInv
  OBVIOUS
<1>1. TypeOK
  <2>1. rx \in [Sockets -> Seq(replies)]
    BY EmptySeq DEF Init
  <2>2. call \in 0..MaxCalls
    BY CallsAssumption DEF Init
  <2> QED BY <2>1, <2>2 DEF Init, TypeOK
<1> QED
  BY <1>1, FailedIsError
  DEF Init, ExchangeInv, RepliesAnswer, SocketOfStep, SocketDiscipline, AcceptedAnswersCall

LEMMA ClientKeeps == ExchangeInv /\ ClientNext => ExchangeInv'
<1> SUFFICES ASSUME ExchangeInv, ClientNext PROVE ExchangeInv'
  OBVIOUS
<1> USE FailedIsError, CallsAssumption, NoneAssumption
    DEF ExchangeInv, RepliesAnswer, SocketOfStep, SocketDiscipline, AcceptedAnswersCall, TypeOK
<1>1. CASE Begin
  BY <1>1 DEF Begin
<1>2. ASSUME NEW server \in Servers, Resolve(server) PROVE ExchangeInv'
  BY <1>2 DEF Resolve
<1>3. CASE ResolveFails
  BY <1>3 DEF ResolveFails
<1>4. ASSUME NEW s \in Sockets, OpenSocket(s) PROVE ExchangeInv'
  BY <1>4 DEF OpenSocket
<1>5. CASE OpenSocketFails
  BY <1>5 DEF OpenSocketFails
<1>6. CASE Bind
  BY <1>6 DEF Bind
<1>7. CASE BindFails
  BY <1>7 DEF BindFails
<1>8. CASE Connect
  BY <1>8 DEF Connect
<1>9. CASE ConnectFails
  BY <1>9 DEF ConnectFails
<1>10. CASE Send
  BY <1>10 DEF Send, Request
<1>11. CASE SendFails
  BY <1>11 DEF SendFails
<1>12. CASE Receive
  <2> DEFINE reply == Head(rx[sd])
  <2>1. sd \in Sockets /\ reply \in replies /\ Tail(rx[sd]) \in Seq(replies)
    BY <1>12, HeadTailProperties DEF Receive
  <2>2. result' = (IF Acceptable(reply) THEN Accepted(reply) ELSE Failed)
    BY <1>12 DEF Receive
  <2>3. peer' = reply.server /\ reply \in Reply
    BY <1>12, <2>1 DEF Receive
  <2>4. TypeOK'
    BY <1>12, <2>1, <2>2, <2>3 DEF Receive, Reply
  <2>5. AcceptedAnswersCall'
    <3>1. CASE Acceptable(reply)
      <4>1. reply.kind = "valid" /\ reply.call = call
        BY <2>3, <3>1 DEF Acceptable, Reply, Kinds
      <4>2. result'.reply = reply
        BY <2>2, <3>1 DEF Accepted
      <4> QED BY <1>12, <2>1, <4>1, <4>2 DEF Receive
    <3>2. CASE ~Acceptable(reply)
      BY <2>2, <3>2
    <3> QED BY <3>1, <3>2
  <2> QED BY <1>12, <2>4, <2>5 DEF Receive
<1>13. CASE Close
  <2>1. rx' \in [Sockets -> Seq(replies')]
    BY <1>13, EmptySeq DEF Close
  <2> QED BY <1>13, <2>1 DEF Close
<1>14. CASE CloseFails
  BY <1>14 DEF CloseFails
<1> QED
  BY <1>1, <1>2, <1>3, <1>4, <1>5, <1>6, <1>7, <1>8, <1>9, <1>10, <1>11, <1>12, <1>13, <1>14
  DEF ClientNext

LEMMA NetworkKeeps == ExchangeInv /\ NetworkNext => ExchangeInv'
<1> SUFFICES ASSUME ExchangeInv, NetworkNext PROVE ExchangeInv'
  OBVIOUS
<1> USE DEF ExchangeInv, RepliesAnswer, SocketOfStep, SocketDiscipline, AcceptedAnswersCall
<1>1. ASSUME NEW request \in requests, NEW kind \in Kinds, Serve(request, kind)
      PROVE  ExchangeInv'
  <2> DEFINE reply == [call |-> request.call, server |-> request.server, kind |-> kind]
  <2>1. replies' = replies \cup {reply} /\ UNCHANGED <<clientVars, lwipVars, requests>>
    BY <1>1 DEF Serve
  <2>2. /\ reply \in Reply
        /\ [call |-> reply.call, server |-> reply.server] = request
    BY DEF TypeOK, Request, Reply
  <2>3. rx' \in [Sockets -> Seq(replies')]
    <3>1. \A s \in Sockets : rx[s] \in Seq(replies')
      BY <2>1, SeqMonotonic DEF TypeOK
    <3> QED BY <2>1, <3>1 DEF TypeOK
  <2>4. TypeOK'
    BY <2>1, <2>2, <2>3 DEF TypeOK
  <2> QED BY <2>1, <2>2, <2>4
<1>2. ASSUME NEW reply \in replies, NEW s \in bound, Deliver(reply, s)
      PROVE  ExchangeInv'
  <2>1. Append(rx[s], reply) \in Seq(replies)
    BY DEF TypeOK
  <2> QED BY <1>2, <2>1 DEF Deliver, TypeOK
<1> QED BY <1>1, <1>2 DEF NetworkNext

THEOREM ExchangeInvariance == Spec => []ExchangeInv
<1>1. ExchangeInv /\ [Next]_vars => ExchangeInv'
  <2> SUFFICES ASSUME ExchangeInv, UNCHANGED vars PROVE ExchangeInv'
    BY ClientKeeps, NetworkKeeps DEF Next, Finished
  <2> QED
    BY DEF vars, ExchangeInv, TypeOK, RepliesAnswer, SocketOfStep, SocketDiscipline,
       AcceptedAnswersCall
<1> QED BY <1>1, ExchangeInitially, PTL DEF Spec

\* The types of NtpClient.
THEOREM TypeCorrectness == Spec => []TypeOK
<1>1. ExchangeInv => TypeOK
  BY DEF ExchangeInv
<1> QED BY <1>1, ExchangeInvariance, PTL

\* No path of an exchange but a failed lwip_close leaves a socket behind, and no
\* exchange uses a closed socket or one that was left behind
\* (simpleConnection.zig:142,201-206; ntp.zig:243-246).
THEOREM SocketDisciplineHolds == Spec => []SocketDiscipline
<1>1. ExchangeInv => SocketDiscipline
  BY DEF ExchangeInv
<1> QED BY <1>1, ExchangeInvariance, PTL

\* An accepted reply is the valid answer to this very exchange (ntp.zig:196-198).
THEOREM AcceptedAnswersCallHolds == Spec => []AcceptedAnswersCall
<1>1. ExchangeInv => AcceptedAnswersCall
  BY DEF ExchangeInv
<1> QED BY <1>1, ExchangeInvariance, PTL
=============================================================================
