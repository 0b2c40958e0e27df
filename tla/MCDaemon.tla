------------------------------ MODULE MCDaemon ------------------------------
(***************************************************************************)
(* Two sessions for the runs of Daemon, the readings of the sensor and the *)
(* power source, and the requests of clients that occur in each run.       *)
(***************************************************************************)
EXTENDS Daemon, TLC

CONSTANTS s1, s2, r1

\* Sessions differ in nothing but their ids.
Symmetry == Permutations({s1, s2})

FarOnBattery == {[near |-> FALSE, powerSupply |-> "battery"]}

OffRequest == {[kind |-> "turn_off_display"]}

SuspendRequests ==
  {[kind |-> "disallow_suspend", id |-> r1], [kind |-> "allow_suspend", id |-> r1]}

=============================================================================
