------------------------- MODULE MCServiceDelivery -------------------------
(***************************************************************************)
(* Small instances of ServiceDelivery.  The clock starts in December 2025  *)
(* and crosses into January.                                               *)
(***************************************************************************)
EXTENDS ServiceDelivery, TLC

CONSTANTS r1, c1, d1, p1, p2, incident1, incident2, other, vm, otherVm

\* Two incidents of one VM, and another VM.
VmsOf == [s \in Scopes |-> IF s = other THEN otherVm ELSE vm]

\* The month of the first tick: December 2025.
December == 12 * 2025 + 11

\* Every case is of the first incident.
OneVm == [c \in Cases |-> incident1]

ProcSymmetry == Permutations(Procs)
=============================================================================
