---------------------------- MODULE MCSimulationBus ----------------------------
(* Small instances of SimulationBus for TLC. *)
EXTENDS SimulationBus, TLC

CONSTANTS b1, b2

OneSystem == [b \in Buses |-> "s1"]
TwoSystems == b1 :> "s1" @@ b2 :> "s2"

BusSymmetry == Permutations(Buses)
================================================================================
