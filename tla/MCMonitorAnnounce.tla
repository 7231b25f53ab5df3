------------------------- MODULE MCMonitorAnnounce -------------------------
(* MonitorAnnounce for TLC: one measurement of the telemetry loop, one probe *)
(* of the health loop, the default settings and their opposites.             *)
EXTENDS MonitorAnnounce

TwoLoops == [k \in Key |-> IF k = "ram.high" THEN "telemetry" ELSE "health"]
SomeLevels == [k \in Key |-> IF k = "ram.high" THEN {"ok", "warning", "critical"}
                             ELSE {"unknown", "critical"}]
SomePolicies == {[onlyCritical |-> b, speaksRecovery |-> b] : b \in BOOLEAN}
=============================================================================
