-------------------------- MODULE MCChannelMonitor --------------------------
(* Instance for TLC. *)
EXTENDS ChannelMonitor, TLC

ASSUME MonitorAssumed == MonitorAssumption

CONSTANTS w1, r1, r2
=============================================================================
