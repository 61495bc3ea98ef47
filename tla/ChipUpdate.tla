------------------------------ MODULE ChipUpdate ------------------------------
(***************************************************************************)
(* What every update of a chip promises its caller, whatever it does       *)
(* inside: the chip changes only while an update is under way, an update   *)
(* ends, and one that reports success has left the chip as the installed   *)
(* file wants it.  The process may die in the middle and report nothing.   *)
(***************************************************************************)
VARIABLES
  busy,   \* an update is under way
  good,   \* the chip is what the installed file wants
  claim   \* what the last one reported

vars == <<busy, good, claim>>

TypeOK == busy \in BOOLEAN /\ good \in BOOLEAN
       /\ claim \in {"none", "success", "failure", "unsure"}

Init == busy = FALSE /\ good \in BOOLEAN /\ claim = "none"

Begin == ~busy /\ busy' = TRUE /\ claim' = "none" /\ UNCHANGED good

Work == busy /\ good' \in BOOLEAN /\ UNCHANGED <<busy, claim>>

\* "unsure" is a report the code makes where it cannot know better: README.md
\* lists the cases.
End ==
  /\ busy /\ busy' = FALSE
  /\ claim' \in {"success", "failure", "unsure"}
  /\ claim' = "success" => good
  /\ UNCHANGED good

Die == busy' = FALSE /\ claim' = "none" /\ UNCHANGED good

Next == Begin \/ Work \/ End \/ Die

Spec == Init /\ [][Next]_vars
===============================================================================
