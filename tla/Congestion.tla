---------------------------- MODULE Congestion ----------------------------
(***************************************************************************)
(* The congestion window of the UDP transport,                             *)
(* crates/qvs-transport/src/congestion.rs.  A controller is a record and   *)
(* each method an operator on it.                                          *)
(*                                                                         *)
(* cwnd and ssthresh are floats in the code; here they are their integer   *)
(* parts, which is what can_send() looks at.  Where the fractions matter,  *)
(* in the slow growth of congestion avoidance and in the comparison with   *)
(* ssthresh, OnAck yields every outcome the fractions could give.  Round   *)
(* trip times, the loss rate and the streaming mode are left out: nothing  *)
(* but their getters reads them.                                           *)
(***************************************************************************)
EXTENDS Naturals

CONSTANTS
    InitialSsthresh,  \* 64
    MaxCwnd           \* max_cwnd (256)

ASSUME WindowAssumption ==
    /\ InitialSsthresh \in Nat /\ MaxCwnd \in Nat
    /\ 2 <= InitialSsthresh /\ InitialSsthresh <= MaxCwnd

CongestionState == {"SlowStart", "CongestionAvoidance", "FastRecovery"}

Controllers == [state: CongestionState, cwnd: 2..MaxCwnd,
                ssthresh: 2..MaxCwnd, inFlight: Nat]

NewController == [state |-> "SlowStart", cwnd |-> 2,
                  ssthresh |-> InitialSsthresh, inFlight |-> 0]

CanSend(c) == c.inFlight < c.cwnd

OnPacketSent(c) == [c EXCEPT !.inFlight = @ + 1]

OneLess(n) == IF n > 0 THEN n - 1 ELSE 0
Capped(n)  == IF n < MaxCwnd THEN n ELSE MaxCwnd

\* The states slow start or fast recovery may go to when the window has grown
\* to n packets and a fraction.
StatesAt(c, n) == (IF n >= c.ssthresh THEN {"CongestionAvoidance"} ELSE {})
                      \cup (IF n <= c.ssthresh THEN {c.state} ELSE {})

\* Mutant: the packet stays in flight.
OnAckKeeps(c) == {c}

\* An acknowledgement, of whatever packet: one packet less is in flight.
OnAck(c) ==
    LET grown(n, s) == [c EXCEPT !.cwnd = Capped(n), !.state = s,
                                 !.inFlight = OneLess(@)]
    IN  IF c.state = "CongestionAvoidance"
        THEN { grown(n, c.state) : n \in {c.cwnd, c.cwnd + 1} }
        ELSE { grown(c.cwnd + 1, s) : s \in StatesAt(c, c.cwnd + 1) }

Half(c) == IF c.cwnd \div 2 > 2 THEN c.cwnd \div 2 ELSE 2

\* Mutant: the window has no lower bound.
OnLossUnbounded(c) ==
    [c EXCEPT !.state = "FastRecovery", !.ssthresh = c.cwnd \div 2,
              !.cwnd = c.cwnd \div 2, !.inFlight = OneLess(@)]

\* A retransmission: the packet it repeats counts as out of the network.
OnLoss(c) ==
    [c EXCEPT !.state = "FastRecovery", !.ssthresh = Half(c), !.cwnd = Half(c),
              !.inFlight = OneLess(@)]

\* Mutant: the packets in flight are not forgotten.
OnTimeoutKeeps(c) ==
    [state |-> "SlowStart", cwnd |-> 2, ssthresh |-> Half(c), inFlight |-> c.inFlight]

\* A packet given up: everything counts as out of the network.
OnTimeout(c) ==
    [state |-> "SlowStart", cwnd |-> 2, ssthresh |-> Half(c), inFlight |-> 0]
=============================================================================
