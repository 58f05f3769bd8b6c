------------------------------ MODULE MCOutbound ------------------------------
(* Outbound for TLC. The ticks in flight are interchangeable.               *)
EXTENDS Outbound, TLC

TickSymmetry == Permutations(Ticks)
=============================================================================
