---------------------------- MODULE BackupMetric ----------------------------
(***************************************************************************)
(* _collect_metrics of backup_metric.py: one run of the telegraf exec      *)
(* script that reports the snapshots of every repository.                  *)
(*                                                                         *)
(* Each request the script makes is a step whose answer the cluster        *)
(* chooses.  _get_request_with_parameter returns the JSON body, or '' when *)
(* the request raised; a repository whose snapshot list is an error body   *)
(* is skipped.  A '' where the code indexes into the answer raises out of  *)
(* the script (the run ends "crashed").  The loop over the repositories   *)
(* and the loop over each repository's snapshots take one step per         *)
(* repository and per snapshot.  The error bodies of the repository list   *)
(* and of the storage-type request are not modelled: only their ''.        *)
(***************************************************************************)
EXTENDS Integers, Sequences, FiniteSets

CONSTANTS
  RepoLists,    \* the repository lists the cluster may answer with
  SnapshotsOf,  \* repository -> its snapshots: [name, end, state] in list order
  StorageOf,    \* repository -> its type ("fs", "s3", or another)
  Running,      \* the states the _snapshot/_status request reports, in order
  NoSnapshot, NoRepo, NoCode, NoOutput

VARIABLES
  bpc,           \* the point of _collect_metrics the script is at
  repoNames,     \* repository_names
  ri,            \* the index of the repository the loop is at
  snaps,         \* the snapshots of that repository still to visit
  count,         \* snapshots_count
  succ,          \* successful_snapshots_count
  last,          \* last_snapshot
  lastRepo,      \* last_repository_name
  lastTime,      \* last_snapshot_time
  lastSuccTime,  \* last_successful_snapshot_time
  storage,       \* the storage_type code, or NoCode when not reported
  current,       \* current_status_code
  out,           \* the printed line: metrics, unavailable (-2), or crashed
  visited        \* the <<repository, snapshot>> pairs the loop has counted

bmVars == <<bpc, repoNames, ri, snaps, count, succ, last, lastRepo, lastTime,
            lastSuccTime, storage, current, out, visited>>

\* _get_state_code and _get_storage_code.
StateCode(s) ==
  CASE s = "SUCCESS" -> 1 [] s = "STARTED" -> 2 [] s = "IN_PROGRESS" -> 3
    [] s = "PARTIAL" -> 4 [] s = "INCOMPATIBLE" -> 5 [] s = "FAILED" -> 6
    [] OTHER -> -1
StorageCode(t) == CASE t = "fs" -> 1 [] t = "s3" -> 2 [] OTHER -> -1

\* The request raised: the caller gets '' and the next use of it raises.
Crash == bpc' = "end" /\ out' = [line |-> "crashed"]

BMInit ==
  /\ bpc = "run"
  /\ repoNames = <<>> /\ ri = 0 /\ snaps = <<>>
  /\ count = 0 /\ succ = 0
  /\ last = NoSnapshot /\ lastRepo = NoRepo
  /\ lastTime = -1 /\ lastSuccTime = -1
  /\ storage = NoCode /\ current = -1
  /\ out = NoOutput /\ visited = {}

\* Lines 191-204: run() collects and prints the metrics only when
\* ELASTICSEARCH_HOST is set; without it the script prints nothing and exits
\* normally.
BMRun ==
  /\ bpc = "run"
  /\ \E hostSet \in BOOLEAN : bpc' = IF hostSet THEN "health" ELSE "end"
  /\ UNCHANGED <<repoNames, ri, snaps, count, succ, last, lastRepo, lastTime,
                 lastSuccTime, storage, current, out, visited>>

\* Lines 47-61 and 156-157: without a 200 health answer the script reports
\* current_status=-2 and stops.
Health ==
  /\ bpc = "health"
  /\ \E a \in {"200", "other", "exc"} :
       \/ a = "200" /\ bpc' = "repos" /\ UNCHANGED out
       \/ a # "200" /\ bpc' = "end" /\ out' = [line |-> "unavailable"]
  /\ UNCHANGED <<repoNames, ri, snaps, count, succ, last, lastRepo, lastTime,
                 lastSuccTime, storage, current, visited>>

\* Lines 79-82 and 126-134: list(repositories.keys()); '' has no keys().
GetRepos ==
  /\ bpc = "repos"
  /\ \/ \E rs \in RepoLists :
          /\ repoNames' = rs /\ ri' = 1 /\ UNCHANGED out
          /\ bpc' = IF Len(rs) > 0 THEN "list" ELSE "storage"
     \/ Crash /\ UNCHANGED <<repoNames, ri>>
  /\ UNCHANGED <<snaps, count, succ, last, lastRepo, lastTime, lastSuccTime,
                 storage, current, visited>>

\* On to the next repository, or past the loop.
NextRepo == ri' = ri + 1 /\ bpc' = IF ri < Len(repoNames) THEN "list" ELSE "fallback"

\* Lines 136-137: the snapshots of one repository.  An error body is
\* skipped; '' passes the 'error' test and ''['snapshots'] raises.
ListSnapshots ==
  /\ bpc = "list"
  /\ \/ snaps' = SnapshotsOf[repoNames[ri]] /\ bpc' = "visit"
        /\ UNCHANGED <<ri, out>>
     \/ NextRepo /\ UNCHANGED <<snaps, out>>
     \/ Crash /\ UNCHANGED <<snaps, ri>>
  /\ UNCHANGED <<repoNames, count, succ, last, lastRepo, lastTime, lastSuccTime,
                 storage, current, visited>>

\* Mutant: the repository of the newest snapshot is taken for every snapshot.
Visit_repo_always ==
  /\ bpc = "visit"
  /\ \/ /\ snaps # <<>>
        /\ LET s == Head(snaps) IN
           /\ count' = count + 1
           /\ lastRepo' = repoNames[ri]
           /\ IF s.end > lastTime
              THEN last' = s /\ lastTime' = s.end
              ELSE UNCHANGED <<last, lastTime>>
           /\ succ' = IF s.state = "SUCCESS" THEN succ + 1 ELSE succ
           /\ lastSuccTime' = IF s.state = "SUCCESS" /\ s.end > lastSuccTime
                              THEN s.end ELSE lastSuccTime
           /\ visited' = visited \cup {<<repoNames[ri], s>>}
        /\ snaps' = Tail(snaps)
        /\ UNCHANGED <<ri, bpc>>
     \/ /\ snaps = <<>> /\ NextRepo
        /\ UNCHANGED <<snaps, count, succ, last, lastRepo, lastTime, lastSuccTime, visited>>
  /\ UNCHANGED <<repoNames, storage, current, out>>

\* Mutant: the loop does not move past a snapshot it has counted.
Visit_no_tail ==
  /\ bpc = "visit"
  /\ \/ /\ snaps # <<>>
        /\ LET s == Head(snaps) IN
           /\ count' = count + 1
           /\ IF s.end > lastTime
              THEN lastRepo' = repoNames[ri] /\ last' = s /\ lastTime' = s.end
              ELSE UNCHANGED <<lastRepo, last, lastTime>>
           /\ succ' = IF s.state = "SUCCESS" THEN succ + 1 ELSE succ
           /\ lastSuccTime' = IF s.state = "SUCCESS" /\ s.end > lastSuccTime
                              THEN s.end ELSE lastSuccTime
           /\ visited' = visited \cup {<<repoNames[ri], s>>}
        /\ UNCHANGED <<snaps, ri, bpc>>
     \/ /\ snaps = <<>> /\ NextRepo
        /\ UNCHANGED <<snaps, count, succ, last, lastRepo, lastTime, lastSuccTime, visited>>
  /\ UNCHANGED <<repoNames, storage, current, out>>

(***************************************************************************)
(* Lines 138-147: one snapshot of the loop.  The newest one so far, by a   *)
(* strict > on end_time_in_millis, becomes last_snapshot together with its *)
(* repository; a SUCCESS one is counted and may become the newest          *)
(* successful one.  Past the last snapshot the loop moves to the next      *)
(* repository.                                                             *)
(***************************************************************************)
Visit ==
  /\ bpc = "visit"
  /\ \/ /\ snaps # <<>>
        /\ LET s == Head(snaps) IN
           /\ count' = count + 1
           /\ IF s.end > lastTime
              THEN lastRepo' = repoNames[ri] /\ last' = s /\ lastTime' = s.end
              ELSE UNCHANGED <<lastRepo, last, lastTime>>
           /\ succ' = IF s.state = "SUCCESS" THEN succ + 1 ELSE succ
           /\ lastSuccTime' = IF s.state = "SUCCESS" /\ s.end > lastSuccTime
                              THEN s.end ELSE lastSuccTime
           /\ visited' = visited \cup {<<repoNames[ri], s>>}
        /\ snaps' = Tail(snaps)
        /\ UNCHANGED <<ri, bpc>>
     \/ /\ snaps = <<>> /\ NextRepo
        /\ UNCHANGED <<snaps, count, succ, last, lastRepo, lastTime, lastSuccTime, visited>>
  /\ UNCHANGED <<repoNames, storage, current, out>>

\* Lines 148-149: with no snapshot found, the last repository is reported.
Fallback ==
  /\ bpc = "fallback"
  /\ lastRepo' = IF lastRepo = NoRepo THEN repoNames[Len(repoNames)] ELSE lastRepo
  /\ bpc' = "storage"
  /\ UNCHANGED <<repoNames, ri, snaps, count, succ, last, lastTime, lastSuccTime,
                 storage, current, out, visited>>

\* Lines 85-88 and 164-166: the type of last_repository_name, if any.
Storage ==
  /\ bpc = "storage"
  /\ \/ lastRepo = NoRepo /\ bpc' = "current" /\ UNCHANGED <<storage, out>>
     \/ /\ lastRepo # NoRepo /\ bpc' = "current" /\ UNCHANGED out
        /\ storage' = StorageCode(StorageOf[lastRepo])
     \/ lastRepo # NoRepo /\ Crash /\ UNCHANGED storage
  /\ UNCHANGED <<repoNames, ri, snaps, count, succ, last, lastRepo, lastTime,
                 lastSuccTime, current, visited>>

\* Lines 91-95 and 168-171: the state of the last snapshot in _status.
Current ==
  /\ bpc = "current"
  /\ \/ /\ current' = IF Running = <<>> THEN -1 ELSE StateCode(Running[Len(Running)])
        /\ bpc' = "last" /\ UNCHANGED out
     \/ Crash /\ UNCHANGED current
  /\ UNCHANGED <<repoNames, ri, snaps, count, succ, last, lastRepo, lastTime,
                 lastSuccTime, storage, visited>>

(***************************************************************************)
(* The state a successful _snapshot/<repo>/<snap>/_status answer gives a  *)
(* finished or running snapshot: the cluster reports PARTIAL as SUCCESS   *)
(* and a running snapshot as STARTED, and answers an error for a state it *)
(* has no status for (INCOMPATIBLE).                                       *)
(***************************************************************************)
StatusStates == [s \in {"SUCCESS", "PARTIAL", "IN_PROGRESS", "FAILED"} |->
                   CASE s = "PARTIAL" -> "SUCCESS" [] s = "IN_PROGRESS" -> "STARTED"
                     [] OTHER -> s]

\* The answers the _status request of a snapshot in state s may get: its
\* status, or '' or an error body ("fallback").
StatusAnswers(s) == {"fallback"} \cup {StatusStates[t] : t \in {s} \cap DOMAIN StatusStates}

(***************************************************************************)
(* Lines 173-188: the status of last_snapshot, from the state of its own   *)
(* _status when that answers, from the listing's state otherwise, and the *)
(* line printed.                                                           *)
(***************************************************************************)
Report ==
  /\ bpc = "last"
  /\ \E a \in IF last = NoSnapshot THEN {"none"} ELSE StatusAnswers(last.state) :
       out' = [line |-> "metrics", count |-> count, lastTime |-> lastTime, succ |-> succ,
               lastSuccTime |-> lastSuccTime, storage |-> storage,
               lastStatus |-> CASE a = "none" -> -1
                                [] a = "fallback" -> StateCode(last.state)
                                [] OTHER -> StateCode(a),
               current |-> current]
  /\ bpc' = "end"
  /\ UNCHANGED <<repoNames, ri, snaps, count, succ, last, lastRepo, lastTime,
                 lastSuccTime, storage, current, visited>>

BMNext == BMRun \/ Health \/ GetRepos \/ ListSnapshots \/ Visit \/ Fallback \/ Storage
          \/ Current \/ Report

BMSpec == BMInit /\ [][BMNext]_bmVars

-----------------------------------------------------------------------------
\* All the snapshots the cluster holds.
AllSnapshots == UNION {{<<r, SnapshotsOf[r][k]>> : k \in DOMAIN SnapshotsOf[r]} :
                       r \in DOMAIN SnapshotsOf}

Printed == out # NoOutput /\ out.line = "metrics"

\* The shape of the state.
BMTypeOK ==
  /\ bpc \in {"run", "health", "repos", "list", "visit", "fallback", "storage",
              "current", "last", "end"}
  /\ ri \in 0..(Len(repoNames) + 1)
  /\ count \in 0..Cardinality(AllSnapshots)
  /\ succ \in 0..count
  /\ visited \subseteq AllSnapshots
  /\ storage \in {NoCode, -1, 1, 2}

\* The newest of a set of <<repository, snapshot>> pairs.
NewestOf(S) == {p \in S : \A q \in S : q[2].end <= p[2].end}
MaxEnd(S) == IF S = {} THEN -1 ELSE (CHOOSE p \in NewestOf(S) : TRUE)[2].end

(***************************************************************************)
(* A printed line describes the snapshots of the repositories whose list  *)
(* answered: their number, the number of SUCCESS ones, the newest end time *)
(* of each, and the storage type and status of one newest snapshot's       *)
(* repository and snapshot (or of the last repository, when there is no    *)
(* snapshot): the snapshot's listed state, or the state its _status gives *)
(* it.  A repository that answered with an error adds nothing.            *)
(***************************************************************************)
MetricMatchesSnapshots ==
  Printed =>
    LET ok == {p \in visited : p[2].state = "SUCCESS"} IN
    /\ out.count = Cardinality(visited)
    /\ out.succ = Cardinality(ok)
    /\ out.lastTime = MaxEnd(visited)
    /\ out.lastSuccTime = MaxEnd(ok)
    /\ IF visited = {}
       THEN /\ out.lastStatus = -1
            /\ out.storage = IF repoNames = <<>> THEN NoCode
                             ELSE StorageCode(StorageOf[repoNames[Len(repoNames)]])
       ELSE \E p \in NewestOf(visited) :
              /\ out.storage = StorageCode(StorageOf[p[1]])
              /\ out.lastStatus \in {StateCode(t) : t \in StatusAnswers(p[2].state) \ {"fallback"}}
                                     \cup {StateCode(p[2].state)}

=============================================================================
