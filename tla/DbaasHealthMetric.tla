-------------------------- MODULE DbaasHealthMetric --------------------------
(***************************************************************************)
(* run() of dbaas_health_metric.py: one GET of the DBaaS adapter's        *)
(* /health, mapped to the elasticsearch_dbaas_health line.                *)
(*                                                                         *)
(* _get_health_data returns response.json() whatever the status code, or  *)
(* "" when the request or the JSON decoding raises.  The body is a record *)
(* of the fields the script reads; a field the body lacks is absent from   *)
(* the record.                                                             *)
(***************************************************************************)
EXTENDS Integers

CONSTANTS
  Bodies,      \* the JSON bodies /health may answer with
  Configured   \* the values "host and port both set" may take

VARIABLES
  dpc,         \* "start" or "end"
  dout         \* what the run printed, or raised

dhVars == <<dpc, dout>>

\* _get_status_code.
AdapterCode(s) ==
  CASE s = "UP" -> 5 [] s = "WARNING" -> 4 [] s = "UNKNOWN" -> 3 [] s = "PROBLEM" -> 2
    [] OTHER -> 1

\* The empty JSON object.
Empty == [x \in {} |-> x]

\* dict.get.  A field the body lacks gives None, which the script treats as
\* it treats {}: both are false, and ['status'] of either raises.
Get(body, f) == IF f \in DOMAIN body THEN body[f] ELSE Empty

\* Python truth of an object.
Truthy(v) == DOMAIN v # {}

DHInit == dpc = "start" /\ dout = [line |-> "none"]

(***************************************************************************)
(* Lines 70-102.  Without the address nothing is printed.  No body, or an *)
(* empty one, prints status=1 and cluster status 3.  health['status'] of a *)
(* body without it raises KeyError; the cluster's health is opensearchHealth *)
(* when it is a non-empty object, else elasticCluster, and ['status'] of   *)
(* None raises TypeError; run() re-raises both.                           *)
(***************************************************************************)
DHRun ==
  /\ dpc = "start"
  /\ dpc' = "end"
  /\ \E configured \in Configured :
       \/ ~configured /\ dout' = [line |-> "skipped"]
       \/ configured /\ dout' = [line |-> "dbaas", status |-> 1, cluster |-> 3]
       \/ configured /\ \E body \in Bodies :
            LET cluster == IF Truthy(Get(body, "opensearchHealth"))
                           THEN Get(body, "opensearchHealth")
                           ELSE Get(body, "elasticCluster")
            IN dout' =
                 IF ~Truthy(body) THEN [line |-> "dbaas", status |-> 1, cluster |-> 3]
                 ELSE IF "status" \notin DOMAIN body \/ "status" \notin DOMAIN cluster
                 THEN [line |-> "crashed"]
                 ELSE [line |-> "dbaas", status |-> AdapterCode(body.status),
                       cluster |-> AdapterCode(cluster.status)]

DHNext == DHRun

=============================================================================
