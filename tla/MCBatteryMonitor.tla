--------------------------- MODULE MCBatteryMonitor ---------------------------
(***************************************************************************)
(* BatteryMonitor for TLC: voltages on both sides of every threshold, and  *)
(* currents that move a voltage across one (12.005 V down to 11.965 V,     *)
(* 12.495 V and 12.505 V to the other side of 12.5 V).                     *)
(***************************************************************************)
EXTENDS BatteryMonitor

Thresholds == {10500, 11800, 12500, 14500, 15500}
MCVolts == {0, 12005} \cup Thresholds \cup {10501, 11801, 12001, 12495, 14499, 15499}
MCAmperPins == {0, 2500, 3125}

=============================================================================
