------------------------------ MODULE MCAlerts ------------------------------
(* Small instances of Alerts: a CPU rule and an "online" rule.             *)
EXTENDS Alerts

BothRules == {"cpu", "offline"}
CpuRule == {"cpu"}
OfflineRule == {"offline"}

MetricOf == [r \in Rules |-> IF r = "cpu" THEN "cpu" ELSE "online"]
ShortDuration == [r \in Rules |-> 1]
LongDuration == [r \in Rules |-> IF r = "cpu" THEN 2 ELSE 1]
SomeCooldown == [r \in Rules |-> IF r = "cpu" THEN 2 ELSE 1]
ShortCooldown == [r \in Rules |-> 1]
=============================================================================
