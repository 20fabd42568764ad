--------------------------- MODULE AbstractRecovery ---------------------------
(***************************************************************************)
(* What recover_users of restore.py promises, without its requests, loops *)
(* and timers (spec.md 4.4).  While the poller runs it may have the        *)
(* aggregator start a password recovery on the DBaaS adapter, and the      *)
(* adapter finishes a recovery it runs.  The poller then ends once:        *)
(*   - "disabled" only when the feature is configured off;                 *)
(*   - "done" only when a recovery it started has finished as done;        *)
(*   - "crashed" or "raised" on an error;                                  *)
(* or it waits forever on a request that is never answered.  Nothing is   *)
(* started after it has ended.                                             *)
(***************************************************************************)
CONSTANTS Configs

States == {"idle", "running", "done", "failed"}

VARIABLES
  config,   \* the configuration the poller was started in
  phase,    \* "running", "finished" or "hung"
  result,   \* how the poller ended
  adapter,  \* the adapter's restore-password state
  fresh     \* the adapter's state was reached by a recovery of this run

avars == <<config, phase, result, adapter, fresh>>

Init ==
  /\ config \in Configs
  /\ phase = "running"
  /\ result = "none"
  /\ adapter \in States
  /\ fresh = FALSE

\* The aggregator has the adapter start (or restart) a recovery.
StartRecovery ==
  /\ phase = "running"
  /\ config = "enabled"
  /\ adapter' = "running"
  /\ fresh' = FALSE
  /\ UNCHANGED <<config, phase, result>>

AdapterFinish ==
  /\ adapter = "running"
  /\ \E s \in {"done", "failed"} : adapter' = s
  /\ fresh' = TRUE
  /\ UNCHANGED <<config, phase, result>>

\* The results the poller may end with in the current state.
Allowed ==
  {"crashed", "raised"}
  \cup (IF config # "enabled" THEN {"disabled"} ELSE {})
  \cup (IF adapter = "done" /\ fresh THEN {"done"} ELSE {})

Conclude ==
  /\ phase = "running"
  /\ phase' = "finished"
  /\ \E r \in Allowed : result' = r
  /\ UNCHANGED <<config, adapter, fresh>>

Hang ==
  /\ phase = "running"
  /\ phase' = "hung"
  /\ UNCHANGED <<config, result, adapter, fresh>>

Next == StartRecovery \/ AdapterFinish \/ Conclude \/ Hang

\* The poller does not stop half-way, and a recovery the adapter runs ends.
Spec == Init /\ [][Next]_avars /\ WF_avars(Conclude \/ Hang) /\ WF_avars(AdapterFinish)

=============================================================================
