------------------------------ MODULE Heartbeat ------------------------------
(***************************************************************************)
(* The keep-alive of one connection: WritePump pings every pingPeriod,     *)
(* ReadPump gives up when no pong has moved its deadline for pongWait.     *)
(* Other messages do not move the deadline.                                *)
(*                                                                         *)
(* Time passes in units that all durations are multiples of, and stops     *)
(* where something must happen first.                                      *)
(***************************************************************************)
EXTENDS Naturals

CONSTANTS
    PingPeriod, \* 54 s
    PongWait,   \* 60 s
    MaxLate     \* bound on the time from a tick of the ticker to the reading of
                \* its pong: the write before the ping, of up to 10 s (writeWait),
                \* the network, the peer, and the messages ReadPump handles first

ASSUME HeartbeatAssumption ==
    /\ PingPeriod \in Nat \ {0} /\ PongWait \in Nat /\ PingPeriod < PongWait
    /\ MaxLate \in Nat

VARIABLES
    up,         \* whether the connection is open
    tick,       \* time to the next tick
    pinging,    \* whether a tick waits in the ticker's channel
    lag,        \* for how long
    flying,     \* of the pings whose pongs are still to be read, the time since
                \* their ticks
    left,       \* time to the read deadline
    alive,      \* whether the peer answers
    silent      \* for how long it has not

heartbeatVars == <<up, tick, pinging, lag, flying, left, alive, silent>>

HeartbeatInit ==
    /\ up = TRUE
    /\ tick = PingPeriod
    /\ pinging = FALSE /\ lag = 0
    /\ flying = {}
    /\ left = PongWait
    /\ alive = TRUE /\ silent = 0

\* How late the pings are by now that are still to be written or answered.
Outstanding == flying \cup (IF pinging THEN {lag} ELSE {})

\* One unit of time, unless a timer or a bound is due.
Elapse ==
    /\ up
    /\ tick > 0 /\ left > 0
    /\ \A a \in Outstanding : a < MaxLate
    /\ tick' = tick - 1
    /\ left' = left - 1
    /\ lag' = IF pinging THEN lag + 1 ELSE 0
    /\ flying' = {a + 1 : a \in flying}
    /\ silent' = IF alive THEN 0 ELSE silent + 1
    /\ UNCHANGED <<up, pinging, alive>>

\* The channel of the ticker holds one tick; a second one is dropped.
TickerFires ==
    /\ up /\ tick = 0
    /\ tick' = PingPeriod
    /\ pinging' = TRUE
    /\ UNCHANGED <<up, lag, flying, left, alive, silent>>

\* Mutant: a ping that was written moves the deadline.
WritePingAndWait ==
    /\ up /\ pinging
    /\ pinging' = FALSE /\ lag' = 0
    /\ flying' = IF alive THEN flying \cup {lag} ELSE flying
    /\ left' = PongWait
    /\ UNCHANGED <<up, tick, alive, silent>>

WritePing ==
    /\ up /\ pinging
    /\ pinging' = FALSE /\ lag' = 0
    /\ flying' = IF alive THEN flying \cup {lag} ELSE flying
    /\ UNCHANGED <<up, tick, left, alive, silent>>

\* Mutant: there is no pong handler.
ReadPongOnly(a) ==
    /\ up /\ a \in flying
    /\ flying' = flying \ {a}
    /\ UNCHANGED <<up, tick, pinging, lag, left, alive, silent>>

\* Mutant: a pong puts the deadline off instead of setting it.
ReadPongAdds(a) ==
    /\ up /\ a \in flying
    /\ flying' = flying \ {a}
    /\ left' = left + PongWait
    /\ UNCHANGED <<up, tick, pinging, lag, alive, silent>>

ReadPong(a) ==
    /\ up /\ a \in flying
    /\ flying' = flying \ {a}
    /\ left' = PongWait
    /\ UNCHANGED <<up, tick, pinging, lag, alive, silent>>

\* The peer goes away without a close; some of its pongs may be lost.
PeerDies ==
    /\ up /\ alive
    /\ alive' = FALSE
    /\ flying' \in SUBSET flying
    /\ UNCHANGED <<up, tick, pinging, lag, left, silent>>

\* The read fails with a timeout: the client leaves and the connection closes.
DropPeer ==
    /\ up /\ left = 0
    /\ up' = FALSE
    /\ UNCHANGED <<tick, pinging, lag, flying, left, alive, silent>>

HeartbeatNext ==
    \/ Elapse \/ TickerFires \/ WritePing \/ PeerDies \/ DropPeer
    \/ \E a \in flying : ReadPong(a)

HeartbeatSpec == HeartbeatInit /\ [][HeartbeatNext]_heartbeatVars

----------------------------------------------------------------------------
(* Properties *)

HeartbeatTypeOK ==
    /\ up \in BOOLEAN /\ alive \in BOOLEAN /\ pinging \in BOOLEAN
    /\ tick \in 0..PingPeriod
    /\ left \in 0..PongWait
    /\ lag \in 0..MaxLate /\ (~pinging => lag = 0)
    /\ flying \subseteq 0..MaxLate
    /\ silent \in Nat /\ (alive => silent = 0)

\* A peer that answers is dropped only if a ping of its has used up what the
\* period leaves of the deadline, 6 s, without its pong being read: waiting
\* behind a write, on its way, or behind messages that ReadPump handles.
LiveIsKept ==
    alive /\ ~up => \E late \in Outstanding : late >= PongWait - PingPeriod

\* A peer that has gone is dropped within the read deadline and the time its
\* last pong may take; no ping written to it moves the deadline.
DeadIsDropped == up => silent <= PongWait + MaxLate
=============================================================================
