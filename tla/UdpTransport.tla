--------------------------- MODULE UdpTransport ---------------------------
(***************************************************************************)
(* The sending side of the reliable UDP transport,                         *)
(* crates/qvs-transport/src/udp_stream.rs: numbered data packets, kept in  *)
(* `pending` until they are acknowledged or given up, retransmitted on a   *)
(* timeout or a negative acknowledgement, within a congestion window.      *)
(*                                                                         *)
(* Every method takes the transport by exclusive reference, so one call    *)
(* runs at a time; it may fail at a send, and its caller may drop it       *)
(* there.  The network loses, repeats and reorders.  The peer is another   *)
(* transport whose owner acknowledges what it receives and may ask again   *)
(* for what it misses.  Pings change no state and are left out.            *)
(***************************************************************************)
EXTENDS Congestion, FiniteSets

CONSTANTS
    MaxRetransmits,  \* MAX_RETRANSMITS (5)
    MaxSeq           \* bound: data packets sent in a behaviour

ASSUME RetransmitsAssumption == MaxRetransmits \in Nat \ {0}
ASSUME SeqAssumption == MaxSeq \in Nat

VARIABLES
    cc,        \* the congestion controller
    next,      \* seq_counter
    pending,   \* pending[s]: how often packet s was retransmitted
    call,      \* the call of retransmit_timeout in progress
    net,       \* datagrams on their way
    received,  \* data packets that have reached the peer
    givenUp,   \* packets dropped after their retries
    unsent,    \* packets whose first send failed; history, as the next one
    leaked     \* how many of them since the last time-out

vars == <<cc, next, pending, call, net, received, givenUp, unsent, leaked>>

Seqs == 1..MaxSeq

Data(s) == [type |-> "Data", seq |-> s]
Ack(s)  == [type |-> "Ack",  seq |-> s]
Nack(s) == [type |-> "Nack", seq |-> s]
Datagrams == [type: {"Data", "Ack", "Nack"}, seq: Seqs]

\* The call of the timer: none, or still to retransmit the packets in todo.
NoCall == [active |-> FALSE, todo |-> {}]
Timer(todo) == [active |-> TRUE, todo |-> todo]

Pending == DOMAIN pending

TypeOK ==
    /\ cc \in Controllers
    /\ next \in 1..MaxSeq + 1
    /\ Pending \subseteq 1..next - 1
    /\ pending \in [Pending -> 0..MaxRetransmits]
    /\ call = NoCall \/ \E todo \in SUBSET Pending : call = Timer(todo)
    /\ net \subseteq Datagrams
    /\ received \subseteq Seqs
    /\ givenUp \subseteq Seqs
    /\ unsent \subseteq Seqs
    /\ leaked \in Nat

Init ==
    /\ cc = NewController
    /\ next = 1
    /\ pending = [s \in {} |-> 0]
    /\ call = NoCall
    /\ net = {} /\ received = {} /\ givenUp = {} /\ unsent = {}
    /\ leaked = 0

Without(S) == [s \in Pending \ S |-> pending[s]]
With(t, n) == [s \in Pending \cup {t} |-> IF s = t THEN n ELSE pending[s]]

-----------------------------------------------------------------------------
(* send_data *)

\* The packet is counted as in flight before it is sent.
SendData ==
    /\ ~call.active
    /\ CanSend(cc)
    /\ next <= MaxSeq
    /\ next' = next + 1
    /\ cc' = OnPacketSent(cc)
    /\ pending' = With(next, 0)
    /\ net' = net \cup {Data(next)}
    /\ UNCHANGED <<call, received, givenUp, unsent, leaked>>

\* The send fails, or the caller drops the call while it waits: the number
\* and the place in the window are used up.
SendDataFails ==
    /\ ~call.active
    /\ CanSend(cc)
    /\ next <= MaxSeq
    /\ next' = next + 1
    /\ cc' = OnPacketSent(cc)
    /\ unsent' = unsent \cup {next}
    /\ leaked' = leaked + 1
    /\ UNCHANGED <<pending, call, net, received, givenUp>>

-----------------------------------------------------------------------------
(* receive *)

\* An acknowledgement is credited whether its packet is pending or not.
ReceiveAck(s) ==
    /\ ~call.active
    /\ Ack(s) \in net
    /\ cc' \in OnAck(cc)
    /\ pending' = Without({s})
    /\ UNCHANGED <<next, call, net, received, givenUp, unsent, leaked>>

\* Mutant: a negative acknowledgement settles its packet.
ReceiveNackSettles(s) ==
    /\ ~call.active
    /\ Nack(s) \in net
    /\ s \in Pending
    /\ pending' = Without({s})
    /\ UNCHANGED <<cc, next, call, net, received, givenUp, unsent, leaked>>

\* A packet asked for again is sent again; this counts neither as a retry
\* nor as a loss.  The send may fail.
ReceiveNack(s) ==
    /\ ~call.active
    /\ Nack(s) \in net
    /\ s \in Pending /\ pending[s] < MaxRetransmits
    /\ net' = net \cup {Data(s)}
    /\ UNCHANGED <<cc, next, pending, call, received, givenUp, unsent, leaked>>

-----------------------------------------------------------------------------
(* retransmit_timeout *)

\* The packets that have waited long enough are collected first.
BeginTimer(due) ==
    /\ ~call.active
    /\ due \subseteq { s \in Pending : pending[s] < MaxRetransmits }
    /\ call' = Timer(due)
    /\ UNCHANGED <<cc, next, pending, net, received, givenUp, unsent, leaked>>

\* Mutant: a retransmission is not counted.
RetransmitUncounted(s) ==
    /\ s \in call.todo
    /\ cc' = OnLoss(cc)
    /\ net' = net \cup {Data(s)}
    /\ call' = Timer(call.todo \ {s})
    /\ UNCHANGED <<next, pending, received, givenUp, unsent, leaked>>

\* Each retransmission is counted, then sent; a send that fails ends the
\* loop, and a caller that drops the call there ends the call.
Retransmit(s) ==
    /\ s \in call.todo
    /\ pending' = With(s, pending[s] + 1)
    /\ cc' = OnLoss(cc)
    /\ \/ net' = net \cup {Data(s)} /\ call' = Timer(call.todo \ {s})
       \/ UNCHANGED net /\ call' \in {Timer({}), NoCall}
    /\ UNCHANGED <<next, received, givenUp, unsent, leaked>>

Expired == { s \in Pending : pending[s] >= MaxRetransmits }

\* on_timeout() once for each of n packets; from the second on it repeats.
TimedOut(n) == IF n = 0 THEN cc
               ELSE IF n = 1 THEN OnTimeout(cc)
               ELSE OnTimeout(OnTimeout(cc))

\* The call ends with giving up what has used its retries, also the packets
\* it has just sent for the last time.
Expire ==
    /\ call = Timer({})
    /\ pending' = Without(Expired)
    /\ givenUp' = givenUp \cup Expired
    /\ cc' = TimedOut(Cardinality(Expired))
    /\ leaked' = IF Expired = {} THEN leaked ELSE 0
    /\ call' = NoCall
    /\ UNCHANGED <<next, net, received, unsent>>

-----------------------------------------------------------------------------
(* The network and the peer *)

Lose(m) ==
    /\ m \in net
    /\ net' = net \ {m}
    /\ UNCHANGED <<cc, next, pending, call, received, givenUp, unsent, leaked>>

\* The peer's owner answers a data packet with send_ack().
PeerReceives(s) ==
    /\ Data(s) \in net
    /\ received' = received \cup {s}
    /\ net' = net \cup {Ack(s)}
    /\ UNCHANGED <<cc, next, pending, call, givenUp, unsent, leaked>>

PeerMisses(s) ==
    /\ s \notin received
    /\ \E t \in received : s < t
    /\ net' = net \cup {Nack(s)}
    /\ UNCHANGED <<cc, next, pending, call, received, givenUp, unsent, leaked>>

-----------------------------------------------------------------------------
TimerCall(s) == \E due \in SUBSET Pending :
                    /\ s \in due \/ s \in Expired
                    /\ BeginTimer(due)

TimerStep == Expire \/ \E s \in Seqs : Retransmit(s)

Next ==
    \/ SendData \/ SendDataFails
    \/ \E s \in Seqs : ReceiveAck(s) \/ ReceiveNack(s)
    \/ \E due \in SUBSET Pending : BeginTimer(due)
    \/ TimerStep
    \/ \E m \in net : Lose(m)
    \/ \E s \in Seqs : PeerReceives(s) \/ PeerMisses(s)

Spec == Init /\ [][Next]_vars

\* The transport's owner calls the timer again and again, and a packet that
\* has waited long enough is due at each call until it is retransmitted.
Fairness ==
    /\ WF_vars(TimerStep)
    /\ \A s \in Seqs : SF_vars(s \in Pending /\ TimerCall(s))

FairSpec == Spec /\ Fairness
-----------------------------------------------------------------------------
(* Properties *)

\* No packet is forgotten: one that was numbered is still pending, has
\* reached the peer, was given up after its retries, or its send failed and
\* the caller was told, however datagrams are lost, repeated and reordered.
EveryPacketAccounted ==
    \A s \in 1..next - 1 :
        s \in Pending \cup received \cup givenUp \cup unsent

\* The window never counts more packets as in flight than are pending or
\* were leaked by sends that failed: duplicates, losses and late answers may
\* only make the count too small.
InFlightCovered == cc.inFlight <= Cardinality(Pending) + leaked

\* A packet does not stay pending for ever: it is acknowledged or given up.
PacketsSettle == \A s \in Seqs : s \in Pending ~> s \notin Pending

\* A window that is full opens again, unless sends have failed.
WindowReopens == []<>(CanSend(cc) \/ leaked > 0)
=============================================================================
