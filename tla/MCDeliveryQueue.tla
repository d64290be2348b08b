------------------------- MODULE MCDeliveryQueue -------------------------
(* Small instances of DeliveryQueue. *)
EXTENDS DeliveryQueue

\* A file of an earlier release may be in pending; it sorts before the
\* canonical name of the event it holds.  The names after it are deliveries
\* that only this release knows.
FourNames == 1..4
LegacyAndCurrent == [n \in FourNames |-> IF n = 1 THEN 2 ELSE n]

==========================================================================
