------------------------- MODULE MCProductionRunner -------------------------
(* A scan every two hours that also runs at startup, a report every hour.   *)
EXTENDS ProductionRunner

Scan     == "scan"
Report   == "report"
TwoTasks == <<Scan, Report>>
AtStart  == {Scan}
Hours    == [t \in {Scan, Report} |-> IF t = Scan THEN 2 ELSE 1]
=============================================================================
