------------------------- MODULE ReplicationMetric -------------------------
(***************************************************************************)
(* _collect_metrics of replication_metric.py: one run of the telegraf exec *)
(* script that reports cross-cluster replication.                         *)
(*                                                                         *)
(* _get_request returns the response, or '' when the request raised.  A   *)
(* requests.Response is false when its status is 400 or more, so every    *)
(* "if response:" of the helpers treats an error status like an           *)
(* exception: a request's answer is "ok" or "fail".  The lines the script *)
(* prints are kept as records; their text is not modelled.                 *)
(***************************************************************************)
EXTENDS Integers, Sequences, FiniteSets

CONSTANTS
  IndexStats,     \* follower_stats index_stats: <<[index, leader, follower]>>
  NumSyncing,     \* num_syncing_indices
  NumFailed,      \* num_failed_indices
  FailedIndices,  \* autofollow_stats failed_indices
  Rules,          \* autofollow_stats autofollow_stats: the rules' patterns
  IndicesOf,      \* pattern -> the indices _cat/indices lists for it
  StatusOf,       \* index -> the status its _status request reports
  NoStatus, NoLag

VARIABLES
  rpc,       \* the point of _collect_metrics the script is at
  status,    \* the status= field of the first line, or NoStatus
  lines,     \* the per-index lines printed after it
  rule,      \* the index of the rule the loop is at
  queue,     \* the indices of that rule still to ask the status of
  listed     \* the indices the rules' listings returned (history)

rmVars == <<rpc, status, lines, rule, queue, listed>>

Answers == {"ok", "fail"}

Line(index, st, lag) == [index |-> index, status |-> st, lag |-> lag]

\* _determine_replication_status.
ReplicationStatus(syncing, failed) ==
  IF syncing > 0 THEN IF failed = 0 THEN 1 ELSE 2
  ELSE IF failed = 0 THEN 3 ELSE 4

\* _get_status_code.
StatusCode(s) == CASE s = "BOOTSTRAPPING" -> 2 [] s = "PAUSED" -> 3 [] OTHER -> -1

\* Lines 172-177: the lag of one follower index.
Lag(e) == IF e.follower > e.leader /\ e.leader = 0 THEN 0 ELSE e.leader - e.follower

RMInit ==
  /\ rpc = "run" /\ status = NoStatus /\ lines = <<>>
  /\ rule = 0 /\ queue = <<>> /\ listed = {}

\* Lines 202-215: run() collects and prints the metrics only when
\* ELASTICSEARCH_HOST is set; without it the script prints nothing.
RMRun ==
  /\ rpc = "run"
  /\ \E hostSet \in BOOLEAN : rpc' = IF hostSet THEN "health" ELSE "end"
  /\ UNCHANGED <<status, lines, rule, queue, listed>>

\* Lines 61-66 and 144-145.
RHealth ==
  /\ rpc = "health"
  /\ \E a \in Answers :
       \/ a = "ok" /\ rpc' = "stats" /\ UNCHANGED status
       \/ a = "fail" /\ rpc' = "end" /\ status' = -2
  /\ UNCHANGED <<lines, rule, queue, listed>>

\* Lines 77-96 and 148-151: follower and autofollow stats; either '' -> -2.
RStats ==
  /\ rpc = "stats"
  /\ \E fa, aa \in Answers :
       \/ fa = "ok" /\ aa = "ok" /\ rpc' = "fetched" /\ UNCHANGED status
       \/ (fa = "fail" \/ aa = "fail") /\ rpc' = "end" /\ status' = -2
  /\ UNCHANGED <<lines, rule, queue, listed>>

(***************************************************************************)
(* Lines 69-74 and 157-161: the _status of the first follower index.  A   *)
(* failed answer reports status -1 and index_status=-1 for every follower *)
(* index, and the script returns.                                          *)
(***************************************************************************)
RFetched ==
  /\ rpc = "fetched"
  /\ \/ rpc' = "lags" /\ UNCHANGED <<status, lines>>  \* none, or it answered
     \/ /\ IndexStats # <<>> /\ rpc' = "end" /\ status' = -1
        /\ lines' = [j \in DOMAIN IndexStats |-> Line(IndexStats[j].index, -1, NoLag)]
  /\ UNCHANGED <<rule, queue, listed>>

(***************************************************************************)
(* Lines 162-185: the status line, one index_status=1 line with its lag    *)
(* per follower index, one index_status=4 line per failed autofollow      *)
(* index; then the loop over the rules.                                    *)
(***************************************************************************)
RLags ==
  /\ rpc = "lags"
  /\ status' = ReplicationStatus(NumSyncing, NumFailed)
  /\ lines' = [j \in DOMAIN IndexStats |-> Line(IndexStats[j].index, 1, Lag(IndexStats[j]))]
              \o [j \in DOMAIN FailedIndices |-> Line(FailedIndices[j], 4, NoLag)]
  /\ rpc' = IF Rules = <<>> THEN "end" ELSE "rule"
  /\ rule' = 1
  /\ UNCHANGED <<queue, listed>>

\* Lines 99-107 and 189: the indices of a rule's pattern; '' gives [].
RGetIndices ==
  /\ rpc = "rule"
  /\ \E a \in Answers :
       queue' = IF a = "ok" THEN IndicesOf[Rules[rule]] ELSE <<>>
  /\ listed' = listed \cup {queue'[j] : j \in DOMAIN queue'}
  /\ rpc' = "index"
  /\ UNCHANGED <<status, lines, rule>>

\* Mutant: an index whose status cannot be read is left out.
IndexStatus_no_default(a, idx) == IF a = "ok" THEN StatusOf[idx] ELSE "UNKNOWN"

\* Lines 110-117: the status of one index; a failed request gives FAILED.
IndexStatus(a, idx) == IF a = "ok" THEN StatusOf[idx] ELSE "FAILED"

\* Mutant: the loop over a rule's indices does not move past one it has asked about.
RIndex_no_tail ==
  /\ rpc = "index"
  /\ \/ /\ queue # <<>>
        /\ \E a \in Answers :
             LET idx == Head(queue)
                 st == IndexStatus(a, idx)
             IN lines' = CASE st \in {"BOOTSTRAPPING", "PAUSED"} ->
                                Append(lines, Line(idx, StatusCode(st), NoLag))
                           [] st = "FAILED" -> Append(lines, Line(idx, 4, NoLag))
                           [] OTHER -> lines
        /\ UNCHANGED <<rpc, rule, queue>>
     \/ /\ queue = <<>>
        /\ rule' = rule + 1
        /\ rpc' = IF rule < Len(Rules) THEN "rule" ELSE "end"
        /\ UNCHANGED <<lines, queue>>
  /\ UNCHANGED <<status, listed>>

(***************************************************************************)
(* Lines 190-198: one index of a rule.  BOOTSTRAPPING and PAUSED indices   *)
(* get their status code, FAILED ones index_status=4, others nothing.     *)
(***************************************************************************)
RIndex ==
  /\ rpc = "index"
  /\ \/ /\ queue # <<>>
        /\ \E a \in Answers :
             LET idx == Head(queue)
                 st == IndexStatus(a, idx)
             IN lines' = CASE st \in {"BOOTSTRAPPING", "PAUSED"} ->
                                Append(lines, Line(idx, StatusCode(st), NoLag))
                           [] st = "FAILED" -> Append(lines, Line(idx, 4, NoLag))
                           [] OTHER -> lines
        /\ queue' = Tail(queue)
        /\ UNCHANGED <<rpc, rule>>
     \/ /\ queue = <<>>
        /\ rule' = rule + 1
        /\ rpc' = IF rule < Len(Rules) THEN "rule" ELSE "end"
        /\ UNCHANGED <<lines, queue>>
  /\ UNCHANGED <<status, listed>>

RMNext == RMRun \/ RHealth \/ RStats \/ RFetched \/ RLags \/ RGetIndices \/ RIndex

RMSpec == RMInit /\ [][RMNext]_rmVars

-----------------------------------------------------------------------------
\* The indices a line reports, and those reported with a given status.
Reported == {lines[j].index : j \in DOMAIN lines}
ReportedAs(s) == {lines[j].index : j \in {j \in DOMAIN lines : lines[j].status = s}}

\* At most one line per follower index, failed index and index of a rule.
MaxLines ==
  LET n[k \in 0..Len(Rules)] == IF k = 0 THEN 0 ELSE n[k - 1] + Len(IndicesOf[Rules[k]])
  IN Len(IndexStats) + Len(FailedIndices) + n[Len(Rules)]

\* The shape of the state.
RMTypeOK ==
  /\ rpc \in {"run", "health", "stats", "fetched", "lags", "rule", "index", "end"}
  /\ status \in {NoStatus, -2, -1, 1, 2, 3, 4}
  /\ \A j \in DOMAIN lines : lines[j].status \in {-1, 1, 2, 3, 4}
  /\ rule \in 0..(Len(Rules) + 1)
  /\ Len(lines) <= MaxLines

(***************************************************************************)
(* When the script has printed a replication status (1 to 4), every index *)
(* a rule's listing returned whose replication has FAILED is reported with *)
(* index_status=4, whether or not its own _status request answered: a     *)
(* status that cannot be read counts as failed, and a failed index is     *)
(* never dropped from the report.                                          *)
(***************************************************************************)
RuleIndicesReported ==
  (rpc = "end" /\ status \in 1..4) =>
    \A i \in listed : StatusOf[i] = "FAILED" => i \in ReportedAs(4)

=============================================================================
