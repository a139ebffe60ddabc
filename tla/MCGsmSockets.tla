----------------------------- MODULE MCGsmSockets -----------------------------
(* GsmSockets for TLC: what users ask for when they connect.               *)
EXTENDS GsmSockets

Plain == {<<FALSE, FALSE>>}
Full == {<<TRUE, TRUE>>}
Both == Plain \cup Full

=============================================================================
