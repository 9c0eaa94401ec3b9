--------------------------- MODULE CurrentEvidence ---------------------------
(***************************************************************************)
(* What the static alias promises a gate when sessions follow each other   *)
(* (pkg/slint/session.go, invalidateStaleStaticAlias): after a run is      *)
(* reported, the slot a gate reads by default holds that run's summary or  *)
(* nothing, unless the report said otherwise; an older run's summary is    *)
(* never put back.                                                         *)
(***************************************************************************)
EXTENDS Naturals

VARIABLES
  slot,    \* the run whose summary the gate would read; 0 for none
  newest,  \* the newest run; 0 before the first
  told     \* what the newest run's caller was told

evidence == <<slot, newest, told>>

Init ==
  /\ slot = 0
  /\ newest = 0
  /\ told = "nothing"

\* A new run begins, the older evidence still in place.
Begin ==
  /\ newest' = newest + 1
  /\ told' = "nothing"
  /\ UNCHANGED slot

\* The newest run replaces whatever evidence there was.
Publish ==
  /\ newest > 0
  /\ told = "nothing"
  /\ slot' = newest
  /\ UNCHANGED <<newest, told>>

\* A report of success needs the newest run's own evidence in the slot, a
\* report of failure an empty one; "noPromise" leaves the slot as it was
\* (the process died, End was misused, no ArtifactsDir, or the error says
\* that the stale alias could not be removed).
Report ==
  /\ newest > 0
  /\ told = "nothing"
  /\ \/ told' = "published" /\ slot = newest /\ UNCHANGED slot
     \/ told' = "withdrawn" /\ slot' = 0
     \/ told' = "noPromise" /\ UNCHANGED slot
  /\ UNCHANGED newest

Next == Begin \/ Publish \/ Report

Spec == Init /\ [][Next]_evidence

=============================================================================
