------------------------ MODULE UdpTransportProofs ------------------------
(***************************************************************************)
(* Invariants of UdpTransport for any number of packets and retries and    *)
(* any bounds of the window.                                               *)
(*                                                                         *)
(* Typing needs to know that a packet still to be retransmitted has a      *)
(* retry left (TodoYoung).  EveryPacketAccounted needs to know that an     *)
(* acknowledgement on its way is true (AcksTrue).  InFlightCovered is      *)
(* inductive with the types.                                               *)
(***************************************************************************)
EXTENDS UdpTransport, FiniteSetTheorems, TLAPS

USE WindowAssumption, RetransmitsAssumption, SeqAssumption

-----------------------------------------------------------------------------
(* The controller *)

LEMMA NewControllerType ==
    NewController \in Controllers /\ NewController.inFlight = 0
  BY DEF NewController, Controllers, CongestionState

LEMMA PacketSent ==
    ASSUME NEW c \in Controllers
    PROVE  /\ OnPacketSent(c) \in Controllers
           /\ OnPacketSent(c).inFlight = c.inFlight + 1
  BY DEF OnPacketSent, Controllers

LEMMA HalfType ==
    ASSUME NEW c \in Controllers
    PROVE  Half(c) \in 2..MaxCwnd
<1>1. c.cwnd \in 2..MaxCwnd
  BY DEF Controllers
<1> QED
  BY <1>1 DEF Half

LEMMA PacketLost ==
    ASSUME NEW c \in Controllers
    PROVE  /\ OnLoss(c) \in Controllers
           /\ OnLoss(c).inFlight = OneLess(c.inFlight)
<1>1. Half(c) \in 2..MaxCwnd /\ OneLess(c.inFlight) \in Nat
  BY HalfType DEF Controllers, OneLess
<1>2. "FastRecovery" \in CongestionState
  BY DEF CongestionState
<1> HIDE DEF Half, OneLess
<1> QED
  BY <1>1, <1>2 DEF OnLoss, Controllers

LEMMA PacketTimedOut ==
    ASSUME NEW c \in Controllers
    PROVE  /\ OnTimeout(c) \in Controllers
           /\ OnTimeout(c).inFlight = 0
  BY HalfType DEF OnTimeout, Controllers, CongestionState

LEMMA PacketAcked ==
    ASSUME NEW c \in Controllers, NEW d \in OnAck(c)
    PROVE  /\ d \in Controllers
           /\ d.inFlight = OneLess(c.inFlight)
<1> DEFINE grown(n, s) == [c EXCEPT !.cwnd = Capped(n), !.state = s,
                                    !.inFlight = OneLess(@)]
<1>1. c.cwnd \in 2..MaxCwnd /\ c.state \in CongestionState /\ c.inFlight \in Nat
  BY DEF Controllers
<1>2. ASSUME NEW n \in {c.cwnd, c.cwnd + 1}, NEW s \in CongestionState
      PROVE  /\ grown(n, s) \in Controllers
             /\ grown(n, s).inFlight = OneLess(c.inFlight)
  <2>1. Capped(n) \in 2..MaxCwnd
    BY <1>1 DEF Capped
  <2>2. OneLess(c.inFlight) \in Nat
    BY <1>1 DEF OneLess
  <2> QED
    BY <2>1, <2>2 DEF Controllers
<1>3. StatesAt(c, c.cwnd + 1) \subseteq CongestionState
  BY <1>1 DEF StatesAt, CongestionState
<1>4. \E n \in {c.cwnd, c.cwnd + 1}, s \in CongestionState : d = grown(n, s)
  <2>1. CASE c.state = "CongestionAvoidance"
    BY <2>1, <1>1 DEF OnAck
  <2>2. CASE c.state # "CongestionAvoidance"
    BY <2>2, <1>3 DEF OnAck
  <2> QED
    BY <2>1, <2>2
<1> HIDE DEF grown
<1> QED
  BY <1>2, <1>4

-----------------------------------------------------------------------------
(* Pending packets *)

LEMMA WithPacket ==
    ASSUME NEW t, NEW n
    PROVE  DOMAIN With(t, n) = Pending \cup {t}
  BY DEF With, Pending

LEMMA WithoutPackets ==
    ASSUME NEW S
    PROVE  DOMAIN Without(S) = Pending \ S
  BY DEF Without, Pending

LEMMA NextPending ==
    /\ UNCHANGED pending => Pending' = Pending
    /\ \A f : pending' = f => Pending' = DOMAIN f
  BY DEF Pending

LEMMA WithType ==
    ASSUME pending \in [Pending -> 0..MaxRetransmits],
           NEW t, NEW n \in 0..MaxRetransmits
    PROVE  With(t, n) \in [Pending \cup {t} -> 0..MaxRetransmits]
  BY DEF With

LEMMA WithoutType ==
    ASSUME pending \in [Pending -> 0..MaxRetransmits], NEW S
    PROVE  Without(S) \in [Pending \ S -> 0..MaxRetransmits]
  BY DEF Without

LEMMA PendingFinite ==
    ASSUME TypeOK
    PROVE  IsFiniteSet(Pending)
<1>1. next \in Int /\ IsFiniteSet(1..next - 1)
  BY FS_Interval DEF TypeOK
<1>2. Pending \in SUBSET (1..next - 1)
  BY DEF TypeOK
<1> QED
  BY <1>1, <1>2, FS_Subset

-----------------------------------------------------------------------------
(* Typing *)

TodoYoung == \A s \in call.todo : s \in Pending /\ pending[s] < MaxRetransmits

Typed == TypeOK /\ TodoYoung

LEMMA NoCallFields == NoCall.active = FALSE /\ NoCall.todo = {}
  BY DEF NoCall

LEMMA TimerFields ==
    ASSUME NEW todo
    PROVE  Timer(todo).active = TRUE /\ Timer(todo).todo = todo
  BY DEF Timer

LEMMA Datagram ==
    ASSUME NEW s \in Seqs
    PROVE  Data(s) \in Datagrams /\ Ack(s) \in Datagrams /\ Nack(s) \in Datagrams
  BY DEF Data, Ack, Nack, Datagrams

LEMMA InitTyped == Init => Typed
<1> SUFFICES ASSUME Init PROVE Typed
  OBVIOUS
<1>1. Pending = {} /\ pending \in [{} -> 0..MaxRetransmits]
  BY DEF Init, Pending
<1>2. cc \in Controllers /\ next \in 1..MaxSeq + 1 /\ leaked \in Nat
  BY NewControllerType DEF Init
<1>3. net = {} /\ received = {} /\ givenUp = {} /\ unsent = {} /\ call = NoCall
  BY DEF Init
<1> QED
  BY <1>1, <1>2, <1>3, NoCallFields DEF Typed, TypeOK, TodoYoung

LEMMA TypedStep == Typed /\ [Next]_vars => Typed'
<1> SUFFICES ASSUME Typed, [Next]_vars PROVE Typed'
  OBVIOUS
<1>1. /\ cc \in Controllers
      /\ next \in 1..MaxSeq + 1
      /\ Pending \subseteq 1..next - 1
      /\ pending \in [Pending -> 0..MaxRetransmits]
      /\ call = NoCall \/ \E todo \in SUBSET Pending : call = Timer(todo)
      /\ net \subseteq Datagrams
      /\ received \subseteq Seqs /\ givenUp \subseteq Seqs /\ unsent \subseteq Seqs
      /\ leaked \in Nat
  BY DEF Typed, TypeOK
<1>2. TodoYoung
  BY DEF Typed
<1>3. ~call.active => call = NoCall
  BY <1>1, TimerFields
<1>4. next <= MaxSeq => next \in Seqs
  BY <1>1 DEF Seqs
<1> USE NextPending
<1>5. CASE SendData
  <2>1. cc' \in Controllers /\ next' \in 1..MaxSeq + 1
    BY <1>1, <1>5, PacketSent DEF SendData
  <2>2. pending' = With(next, 0) /\ DOMAIN With(next, 0) = Pending \cup {next}
    BY <1>5, WithPacket DEF SendData
  <2>3. With(next, 0) \in [Pending \cup {next} -> 0..MaxRetransmits]
    BY <1>1, WithType, 0 \in 0..MaxRetransmits
  <2>4. Pending' \subseteq 1..next' - 1
    <3>1. Pending' = Pending \cup {next} /\ next' = next + 1
      BY <1>5, <2>2 DEF SendData
    <3> QED
      BY <1>1, <3>1
  <2>5. call' = NoCall /\ net' \subseteq Datagrams
    BY <1>1, <1>3, <1>4, <1>5, Datagram DEF SendData
  <2> QED
    BY <1>1, <1>5, <2>1, <2>2, <2>3, <2>4, <2>5, NoCallFields
       DEF SendData, Typed, TypeOK, TodoYoung
<1>6. CASE SendDataFails
  <2>1. cc' \in Controllers /\ next' \in 1..MaxSeq + 1 /\ leaked' \in Nat
    BY <1>1, <1>6, PacketSent DEF SendDataFails
  <2>2. Pending' \subseteq 1..next' - 1
    <3>1. Pending' = Pending /\ next' = next + 1
      BY <1>6 DEF SendDataFails
    <3> QED
      BY <1>1, <3>1
  <2>3. call' = NoCall /\ unsent' \subseteq Seqs
    BY <1>1, <1>3, <1>4, <1>6 DEF SendDataFails
  <2> QED
    BY <1>1, <1>6, <2>1, <2>2, <2>3, NoCallFields
       DEF SendDataFails, Typed, TypeOK, TodoYoung
<1>7. ASSUME NEW s \in Seqs, ReceiveAck(s) PROVE Typed'
  <2>1. cc' \in Controllers
    BY <1>1, <1>7, PacketAcked DEF ReceiveAck
  <2>2. pending' = Without({s}) /\ DOMAIN Without({s}) = Pending \ {s}
    BY <1>7, WithoutPackets DEF ReceiveAck
  <2>3. Without({s}) \in [Pending \ {s} -> 0..MaxRetransmits]
    BY <1>1, WithoutType
  <2>4. call' = NoCall
    BY <1>3, <1>7 DEF ReceiveAck
  <2> QED
    BY <1>1, <1>7, <2>1, <2>2, <2>3, <2>4, NoCallFields
       DEF ReceiveAck, Typed, TypeOK, TodoYoung
<1>8. ASSUME NEW s \in Seqs, ReceiveNack(s) PROVE Typed'
  <2>1. net' \subseteq Datagrams
    BY <1>1, <1>8, Datagram DEF ReceiveNack
  <2> QED
    BY <1>1, <1>2, <1>8, <2>1 DEF ReceiveNack, Typed, TypeOK, TodoYoung
<1>9. ASSUME NEW due \in SUBSET Pending, BeginTimer(due) PROVE Typed'
  <2>1. call' = Timer(due) /\ call'.todo = due
    BY <1>9, TimerFields DEF BeginTimer
  <2> QED
    BY <1>1, <1>9, <2>1 DEF BeginTimer, Typed, TypeOK, TodoYoung
<1>10. ASSUME NEW s \in Seqs, Retransmit(s) PROVE Typed'
  <2>1. s \in Pending /\ pending[s] + 1 \in 0..MaxRetransmits
    <3>1. s \in Pending /\ pending[s] < MaxRetransmits
      BY <1>2, <1>10 DEF Retransmit, TodoYoung
    <3>2. pending[s] \in 0..MaxRetransmits
      BY <1>1, <3>1
    <3> QED
      BY <3>1, <3>2
  <2>2. cc' \in Controllers
    BY <1>1, <1>10, PacketLost DEF Retransmit
  <2>3. /\ pending' = With(s, pending[s] + 1)
        /\ Pending' = Pending
        /\ \A t \in Pending : t # s => pending'[t] = pending[t]
    <3>1. Pending \cup {s} = Pending
      BY <2>1
    <3>2. pending' = With(s, pending[s] + 1)
      BY <1>10 DEF Retransmit
    <3>3. pending' = [k \in Pending |-> IF k = s THEN pending[s] + 1 ELSE pending[k]]
      BY <3>1, <3>2 DEF With
    <3> QED
      BY <3>2, <3>3 DEF Pending
  <2>4. pending' \in [Pending -> 0..MaxRetransmits]
    BY <1>1, <2>1, <2>3, WithType, Pending \cup {s} = Pending
  <2>5. net' \subseteq Datagrams
    BY <1>1, <1>10, Datagram DEF Retransmit
  <2>6. call' \in {Timer(call.todo \ {s}), Timer({}), NoCall}
    BY <1>10 DEF Retransmit
  <2>7. call.todo \ {s} \in SUBSET Pending /\ {} \in SUBSET Pending
    BY <1>2 DEF TodoYoung
  <2>8. call' = NoCall \/ \E todo \in SUBSET Pending : call' = Timer(todo)
    BY <2>6, <2>7
  <2>9. \A t \in call'.todo : t \in call.todo \ {s}
    BY <2>6, NoCallFields, TimerFields
  <2>10. TypeOK'
    BY <1>1, <1>10, <2>2, <2>3, <2>4, <2>5, <2>8 DEF Retransmit, TypeOK
  <2>11. TodoYoung'
    BY <1>2, <2>3, <2>9 DEF TodoYoung
  <2> QED
    BY <2>10, <2>11 DEF Typed
<1>11. CASE Expire
  <2>1. OnTimeout(cc) \in Controllers /\ OnTimeout(OnTimeout(cc)) \in Controllers
    BY <1>1, PacketTimedOut
  <2>2. cc' \in Controllers
    BY <1>1, <1>11, <2>1 DEF Expire, TimedOut
  <2>3. pending' = Without(Expired) /\ DOMAIN Without(Expired) = Pending \ Expired
    BY <1>11, WithoutPackets DEF Expire
  <2>4. Without(Expired) \in [Pending \ Expired -> 0..MaxRetransmits]
    BY <1>1, WithoutType
  <2>5. Expired \subseteq Seqs /\ leaked' \in Nat
    <3>1. Expired \subseteq Pending
      BY DEF Expired
    <3> QED
      BY <1>1, <1>11, <3>1 DEF Expire, Seqs
  <2> QED
    BY <1>1, <1>11, <2>2, <2>3, <2>4, <2>5, NoCallFields
       DEF Expire, Typed, TypeOK, TodoYoung
<1>12. ASSUME NEW m \in net, Lose(m) PROVE Typed'
  BY <1>1, <1>2, <1>12 DEF Lose, Typed, TypeOK, TodoYoung
<1>13. ASSUME NEW s \in Seqs, PeerReceives(s) PROVE Typed'
  <2>1. net' \subseteq Datagrams /\ received' \subseteq Seqs
    BY <1>1, <1>13, Datagram DEF PeerReceives
  <2> QED
    BY <1>1, <1>2, <1>13, <2>1 DEF PeerReceives, Typed, TypeOK, TodoYoung
<1>14. ASSUME NEW s \in Seqs, PeerMisses(s) PROVE Typed'
  <2>1. net' \subseteq Datagrams
    BY <1>1, <1>14, Datagram DEF PeerMisses
  <2> QED
    BY <1>1, <1>2, <1>14, <2>1 DEF PeerMisses, Typed, TypeOK, TodoYoung
<1>15. CASE UNCHANGED vars
  BY <1>1, <1>2, <1>15 DEF vars, Typed, TypeOK, TodoYoung
<1> QED
  BY <1>5, <1>6, <1>7, <1>8, <1>9, <1>10, <1>11, <1>12, <1>13, <1>14, <1>15
     DEF Next, TimerStep

\* The window stays between two packets and its maximum, and no packet is
\* retransmitted more often than the limit allows, whatever the bounds are.
THEOREM TypeTheorem == Spec => []TypeOK
<1>1. Typed => TypeOK
  BY DEF Typed
<1> QED
  BY <1>1, InitTyped, TypedStep, PTL DEF Spec

-----------------------------------------------------------------------------
(* Accounting of packets *)

AcksTrue == \A s \in Seqs : Ack(s) \in net => s \in received

Accounted == AcksTrue /\ EveryPacketAccounted

LEMMA MessagesDiffer ==
    \A s, t : /\ Ack(s) # Data(t)
              /\ Ack(s) # Nack(t)
              /\ Ack(s) = Ack(t) => s = t
  BY DEF Ack, Data, Nack

\* No acknowledgement appears but the peer's, and nothing that was received
\* or settled is taken back.
LEMMA AccountedStep == Typed /\ Accounted /\ [Next]_vars => Accounted'
<1> SUFFICES ASSUME Typed, Accounted, [Next]_vars PROVE Accounted'
  OBVIOUS
<1>1. /\ next \in 1..MaxSeq + 1
      /\ \A s \in Seqs : Ack(s) \in net => s \in received
      /\ \A s \in 1..next - 1 :
            s \in Pending \/ s \in received \/ s \in givenUp \/ s \in unsent
  BY DEF Typed, TypeOK, Accounted, AcksTrue, EveryPacketAccounted
<1>2. ASSUME NEW t \in Seqs, net' \subseteq net \cup {Data(t), Nack(t)},
             received' = received
      PROVE  AcksTrue'
  BY <1>1, <1>2, MessagesDiffer DEF AcksTrue
<1>3. ASSUME net' \subseteq net, received' = received
      PROVE  AcksTrue'
  BY <1>1, <1>3 DEF AcksTrue
<1>4. ASSUME next' = next, received \subseteq received',
             givenUp \subseteq givenUp', unsent \subseteq unsent',
             Pending \subseteq Pending' \cup received' \cup givenUp'
      PROVE  EveryPacketAccounted'
  BY <1>1, <1>4 DEF EveryPacketAccounted
<1>5. next <= MaxSeq => next \in Seqs /\ 1..(next + 1) - 1 = (1..next - 1) \cup {next}
  BY <1>1 DEF Seqs
<1> USE NextPending
<1>6. CASE SendData
  <2>1. AcksTrue'
    BY <1>2, <1>5, <1>6 DEF SendData
  <2>2. Pending' = Pending \cup {next}
    BY <1>6, WithPacket DEF SendData
  <2>3. EveryPacketAccounted'
    BY <1>1, <1>5, <1>6, <2>2 DEF SendData, EveryPacketAccounted
  <2> QED
    BY <2>1, <2>3 DEF Accounted
<1>7. CASE SendDataFails
  <2>1. AcksTrue'
    BY <1>3, <1>7 DEF SendDataFails
  <2>2. EveryPacketAccounted'
    BY <1>1, <1>5, <1>7 DEF SendDataFails, EveryPacketAccounted
  <2> QED
    BY <2>1, <2>2 DEF Accounted
<1>8. ASSUME NEW s \in Seqs, ReceiveAck(s) PROVE Accounted'
  <2>1. AcksTrue'
    BY <1>3, <1>8 DEF ReceiveAck
  <2>2. Pending' = Pending \ {s} /\ s \in received
    BY <1>1, <1>8, WithoutPackets DEF ReceiveAck
  <2>3. EveryPacketAccounted'
    BY <1>4, <1>8, <2>2 DEF ReceiveAck
  <2> QED
    BY <2>1, <2>3 DEF Accounted
<1>9. ASSUME NEW s \in Seqs, ReceiveNack(s) PROVE Accounted'
  BY <1>2, <1>4, <1>9 DEF ReceiveNack, Accounted
<1>10. ASSUME NEW due \in SUBSET Pending, BeginTimer(due) PROVE Accounted'
  BY <1>3, <1>4, <1>10 DEF BeginTimer, Accounted
<1>11. ASSUME NEW s \in Seqs, Retransmit(s) PROVE Accounted'
  <2>1. AcksTrue'
    BY <1>2, <1>11 DEF Retransmit
  <2>2. Pending' = Pending \cup {s}
    BY <1>11, WithPacket DEF Retransmit
  <2>3. EveryPacketAccounted'
    BY <1>4, <1>11, <2>2 DEF Retransmit
  <2> QED
    BY <2>1, <2>3 DEF Accounted
<1>12. CASE Expire
  <2>1. AcksTrue'
    BY <1>3, <1>12 DEF Expire
  <2>2. Pending' = Pending \ Expired /\ givenUp' = givenUp \cup Expired
    BY <1>12, WithoutPackets DEF Expire
  <2>3. EveryPacketAccounted'
    BY <1>4, <1>12, <2>2 DEF Expire
  <2> QED
    BY <2>1, <2>3 DEF Accounted
<1>13. ASSUME NEW m \in net, Lose(m) PROVE Accounted'
  BY <1>3, <1>4, <1>13 DEF Lose, Accounted
<1>14. ASSUME NEW s \in Seqs, PeerReceives(s) PROVE Accounted'
  <2>1. AcksTrue'
    BY <1>1, <1>14, MessagesDiffer DEF PeerReceives, AcksTrue
  <2>2. EveryPacketAccounted'
    BY <1>4, <1>14 DEF PeerReceives
  <2> QED
    BY <2>1, <2>2 DEF Accounted
<1>15. ASSUME NEW s \in Seqs, PeerMisses(s) PROVE Accounted'
  BY <1>2, <1>4, <1>15 DEF PeerMisses, Accounted
<1>16. CASE UNCHANGED vars
  BY <1>3, <1>4, <1>16 DEF vars, Accounted
<1> QED
  BY <1>6, <1>7, <1>8, <1>9, <1>10, <1>11, <1>12, <1>13, <1>14, <1>15, <1>16
     DEF Next, TimerStep

\* Whatever the network does, a numbered packet that is not pending any more
\* has reached the peer, used up its retries, or failed before its caller.
THEOREM AccountedTheorem == Spec => []EveryPacketAccounted
<1>1. Init => Accounted
  BY DEF Init, Accounted, AcksTrue, EveryPacketAccounted
<1>2. Accounted => EveryPacketAccounted
  BY DEF Accounted
<1> QED
  BY <1>1, <1>2, InitTyped, TypedStep, AccountedStep, PTL DEF Spec

-----------------------------------------------------------------------------
(* Accounting of the window *)

\* Each step changes the count by no more than the number of pending packets,
\* or counts what it leaks.
LEMMA InFlightStep == Typed /\ Typed' /\ InFlightCovered /\ [Next]_vars => InFlightCovered'
<1> SUFFICES ASSUME Typed, Typed', InFlightCovered, [Next]_vars
             PROVE  InFlightCovered'
  OBVIOUS
<1> DEFINE n == Cardinality(Pending)
<1>1. /\ cc \in Controllers /\ cc.inFlight \in Nat /\ leaked \in Nat
      /\ next \in 1..MaxSeq + 1 /\ Pending \subseteq 1..next - 1
      /\ cc.inFlight <= n + leaked
  BY DEF Typed, TypeOK, InFlightCovered, Controllers
<1>2. IsFiniteSet(Pending) /\ n \in Nat
  BY PendingFinite, FS_CardinalityType DEF Typed
<1>3. OneLess(cc.inFlight) \in Nat /\ OneLess(cc.inFlight) <= cc.inFlight
      /\ (cc.inFlight > 0 => OneLess(cc.inFlight) = cc.inFlight - 1)
  BY <1>1 DEF OneLess
<1> USE NextPending
<1>4. ASSUME Pending' = Pending, cc' = cc, leaked' = leaked PROVE InFlightCovered'
  BY <1>4 DEF InFlightCovered
<1>5. CASE SendData
  <2>1. Pending' = Pending \cup {next} /\ next \notin Pending
    <3>1. Pending' = Pending \cup {next}
      BY <1>5, WithPacket DEF SendData
    <3>2. next \notin 1..next - 1
      BY <1>1
    <3> QED
      BY <1>1, <3>1, <3>2
  <2>2. Cardinality(Pending \cup {next}) = n + 1
    BY <1>2, <2>1, FS_AddElement
  <2>3. cc'.inFlight = cc.inFlight + 1 /\ leaked' = leaked
    BY <1>1, <1>5, PacketSent DEF SendData
  <2> QED
    BY <1>1, <1>2, <2>1, <2>2, <2>3 DEF InFlightCovered
<1>6. CASE SendDataFails
  <2>1. Pending' = Pending /\ leaked' = leaked + 1
    BY <1>6 DEF SendDataFails
  <2>2. cc'.inFlight = cc.inFlight + 1
    BY <1>1, <1>6, PacketSent DEF SendDataFails
  <2> QED
    BY <1>1, <1>2, <2>1, <2>2 DEF InFlightCovered
<1>7. ASSUME NEW s \in Seqs, ReceiveAck(s) PROVE InFlightCovered'
  <2>1. Pending' = Pending \ {s} /\ leaked' = leaked
    BY <1>7, WithoutPackets DEF ReceiveAck
  <2>2. cc'.inFlight = OneLess(cc.inFlight)
    BY <1>1, <1>7, PacketAcked DEF ReceiveAck
  <2>3. Cardinality(Pending \ {s}) \in {n, n - 1} /\ Cardinality(Pending \ {s}) \in Nat
    BY <1>2, FS_RemoveElement, FS_CardinalityType
  <2>4. cc.inFlight = 0 => OneLess(cc.inFlight) = 0
    BY DEF OneLess
  <2> QED
    BY <1>1, <1>2, <1>3, <2>1, <2>2, <2>3, <2>4 DEF InFlightCovered
<1>8. ASSUME NEW s \in Seqs, Retransmit(s) PROVE InFlightCovered'
  <2>1. s \in Pending
    BY <1>8 DEF Typed, TodoYoung, Retransmit
  <2>2. Pending' = Pending /\ leaked' = leaked
    <3>1. Pending' = Pending \cup {s} /\ leaked' = leaked
      BY <1>8, WithPacket DEF Retransmit
    <3> QED
      BY <2>1, <3>1
  <2>3. cc'.inFlight = OneLess(cc.inFlight)
    BY <1>1, <1>8, PacketLost DEF Retransmit
  <2> QED
    BY <1>1, <1>2, <1>3, <2>2, <2>3 DEF InFlightCovered
<1>9. CASE Expire
  <2>1. CASE Expired = {}
    <3>1. Pending' = Pending /\ leaked' = leaked
      BY <1>9, <2>1, WithoutPackets DEF Expire
    <3>2. cc' = cc
      BY <1>9, <2>1, FS_EmptySet DEF Expire, TimedOut
    <3> QED
      BY <1>4, <3>1, <3>2
  <2>2. CASE Expired # {}
    <3>1. Expired \in SUBSET Pending
      BY DEF Expired
    <3>2. Cardinality(Expired) # 0
      BY <1>2, <2>2, <3>1, FS_Subset, FS_EmptySet
    <3>3. cc' \in {OnTimeout(cc), OnTimeout(OnTimeout(cc))}
      BY <1>9, <3>2 DEF Expire, TimedOut
    <3>4. cc'.inFlight = 0
      BY <1>1, <3>3, PacketTimedOut
    <3>5. leaked' \in Nat
      BY DEF Typed, TypeOK
    <3>6. Cardinality(Pending') \in Nat
      <4>1. Pending' = Pending \ Expired
        BY <1>9, WithoutPackets DEF Expire
      <4>2. IsFiniteSet(Pending \ Expired)
        BY <1>2, FS_Subset
      <4> QED
        BY <4>1, <4>2, FS_CardinalityType
    <3> QED
      BY <3>4, <3>5, <3>6 DEF InFlightCovered
  <2> QED
    BY <2>1, <2>2
<1>10. CASE UNCHANGED vars
  BY <1>4, <1>10 DEF vars
<1>11. ASSUME NEW s \in Seqs, ReceiveNack(s) \/ PeerReceives(s) \/ PeerMisses(s)
       PROVE  InFlightCovered'
  BY <1>4, <1>11 DEF ReceiveNack, PeerReceives, PeerMisses
<1>12. ASSUME NEW due \in SUBSET Pending, BeginTimer(due) PROVE InFlightCovered'
  BY <1>4, <1>12 DEF BeginTimer
<1>13. ASSUME NEW m \in net, Lose(m) PROVE InFlightCovered'
  BY <1>4, <1>13 DEF Lose
<1> QED
  BY <1>5, <1>6, <1>7, <1>8, <1>9, <1>10, <1>11, <1>12, <1>13 DEF Next, TimerStep

\* The congestion window counts no packet that is not pending, but for those
\* whose send failed.
THEOREM InFlightTheorem == Spec => []InFlightCovered
<1>1. Init => InFlightCovered
  <2> SUFFICES ASSUME Init PROVE InFlightCovered
    OBVIOUS
  <2>1. Pending = {} /\ leaked = 0 /\ cc.inFlight = 0
    BY NewControllerType DEF Init, Pending
  <2> QED
    BY <2>1, FS_EmptySet DEF InFlightCovered
<1> QED
  BY <1>1, InitTyped, TypedStep, InFlightStep, PTL DEF Spec
=============================================================================
