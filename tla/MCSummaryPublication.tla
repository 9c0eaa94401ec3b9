------------------------ MODULE MCSummaryPublication ------------------------
(* Instances of SummaryPublication for TLC. *)
EXTENDS SummaryPublication, TLC

CONSTANTS w1, w2, n1, n2

\* Parallel processes with generated run ids.
OwnNames == (w1 :> {n1}) @@ (w2 :> {n2})
\* One process, whose tests use two names and repeat them.
SoloNames == (w1 :> {n1, n2})

=============================================================================
