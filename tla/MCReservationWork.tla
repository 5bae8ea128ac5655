-------------------------- MODULE MCReservationWork --------------------------
(* Small instances of ReservationWork for TLC.  Workers and seats are model   *)
(* values that are only compared for equality, so they may be permuted in the *)
(* runs without liveness; requests are ordered by their sequence number.      *)
EXTENDS ReservationWork, TLC

WorkerSymmetry == Permutations(Workers)
Symmetry == Permutations(Workers) \cup Permutations(Seats)
=============================================================================
