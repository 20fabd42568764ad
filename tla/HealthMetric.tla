----------------------------- MODULE HealthMetric -----------------------------
(***************************************************************************)
(* run() of health_metric.py: one _cat/health request, mapped to the      *)
(* elasticsearch_cluster_health line telegraf stores.  The line is kept as *)
(* the record of its fields; its text is not modelled.                     *)
(*                                                                         *)
(* _get_health_data gives "" when the request raises or answers a status   *)
(* other than 200, else the "status node.total" text, which the model      *)
(* keeps as the pair it splits into.                                        *)
(***************************************************************************)
EXTENDS Integers

CONSTANTS
  TotalNodes,   \* ELASTICSEARCH_TOTAL_NODES_COUNT values; 0 stands for unset
  MaxNodes      \* bound on the node count the cluster reports

VARIABLES
  hpc,          \* "start" or "end"
  hout          \* what the run printed, or raised

hmVars == <<hpc, hout>>

\* _get_health_code.
HealthCode(h) == CASE h = "green" -> 0 [] h = "yellow" -> 6 [] h = "red" -> 10 [] OTHER -> -1

\* Mutant: the node count is looked at before a red health.
HealthStatusCode_nodes_first(active, healthCode, total) ==
  IF active = 0 THEN 10
  ELSE IF healthCode = 6 \/ total - active > 0 THEN 6
  ELSE IF healthCode = 10 THEN 10
  ELSE 0

\* _get_status_code; active = 0 stands for the "" of a cluster that gave no
\* answer (a cluster that answers reports at least one node).
HealthStatusCode(active, healthCode, total) ==
  IF active = 0 THEN 10
  ELSE IF healthCode = 10 THEN 10
  ELSE IF healthCode = 6 \/ total - active > 0 THEN 6
  ELSE 0

\* Lines 87-100, _collect_metrics for the answer status/active: the line's
\* fields, with number_of_nodes=0i added when there was no answer.  The
\* node count the cluster reported is kept beside them.
Metric(status, active, total) ==
  [line |-> "health",
   status_code |-> HealthStatusCode(active, HealthCode(status), total),
   health_code |-> HealthCode(status),
   total |-> total,
   zero_nodes |-> active = 0,
   active |-> active]

HMInit == hpc = "start" /\ hout = [line |-> "none"]

(***************************************************************************)
(* Lines 71-116: int() of an unset total raises, and run() re-raises.      *)
(* Otherwise the request answers 200, or fails, and the line is printed.   *)
(***************************************************************************)
HMRun ==
  /\ hpc = "start"
  /\ hpc' = "end"
  /\ \E total \in TotalNodes :
       \/ total = 0 /\ hout' = [line |-> "crashed"]
       \/ total > 0 /\ hout' = Metric("", 0, total)
       \/ total > 0 /\ \E s \in {"green", "yellow", "red"}, n \in 1..MaxNodes :
            hout' = Metric(s, n, total)

HMNext == HMRun

-----------------------------------------------------------------------------
(***************************************************************************)
(* The alarm status printed is the worse of what the cluster's health and *)
(* its node count say: 10 for a red or silent cluster, 6 for a yellow one  *)
(* or one with fewer nodes than configured, 0 only for a green cluster    *)
(* with every configured node.  The code computes it as a chain of early  *)
(* cases; the property states it as a maximum over every answer.          *)
(***************************************************************************)
HealthStatusIsWorst ==
  hout.line = "health" =>
    LET nodes == IF hout.active < hout.total THEN 6 ELSE 0
    IN hout.status_code = IF hout.active = 0 THEN 10
                          ELSE IF hout.health_code > nodes THEN hout.health_code ELSE nodes

=============================================================================
