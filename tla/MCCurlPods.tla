----------------------------- MODULE MCCurlPods -----------------------------
(* An instance of CurlPods for TLC. *)
EXTENDS CurlPods, TLC

CONSTANTS s1, s2

Modes == (s1 :> "always") @@ (s2 :> "manual")
RunIds == (s1 :> "a") @@ (s2 :> "b")

=============================================================================
