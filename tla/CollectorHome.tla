---------------------------- MODULE CollectorHome ----------------------------
(***************************************************************************)
(* What FlowCollectorController promises about the place of the workloads,  *)
(* without saying how: they live in one namespace, which is on record, and  *)
(* the record moves only when nothing is left where it was.  Whoever knows  *)
(* the record can find, and clean up, everything.                           *)
(***************************************************************************)
CONSTANTS Namespaces, None

VARIABLES
  asked,     \* the namespace the user asks for, None without a FlowCollector
  recorded,  \* the namespace on record, None before the first install
  work       \* the namespaces where there are workloads

vars == <<asked, recorded, work>>

Init == asked = None /\ recorded = None /\ work = {}

Ask ==
  /\ asked' \in Namespaces
  /\ UNCHANGED <<recorded, work>>

Record ==
  /\ asked # None /\ work = {}
  /\ recorded' = asked
  /\ UNCHANGED <<asked, work>>

Work ==
  /\ recorded # None
  /\ work' = {recorded}
  /\ UNCHANGED <<asked, recorded>>

Lose ==
  /\ work' \subseteq work
  /\ UNCHANGED <<asked, recorded>>

Forget == asked' = None /\ recorded' = None /\ work' = {}

Next == Ask \/ Record \/ Work \/ Lose \/ Forget

Spec == Init /\ [][Next]_vars
=============================================================================
