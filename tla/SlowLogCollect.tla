--------------------------- MODULE SlowLogCollect ---------------------------
(***************************************************************************)
(* run() of slow_queries_metric.py up to the call of                      *)
(* filter_slow_logs_records (modelled in SlowLogFilter): the slow log of  *)
(* each search pod is copied into one local file, read from its end back  *)
(* to the first record older than the processing interval, and the        *)
(* records found are gathered for the filter.                             *)
(*                                                                         *)
(* A line of a log is a record [pod, n, kind, time] (n its line number).  *)
(* kind is what convert_slow_log_record makes of it:                      *)
(*   "record"   - it parses into a SlowLogRecord;                          *)
(*   "skipped"  - it does not split into 11 elements, so None is returned *)
(*                (a source with ", " in it);                              *)
(*   "brackets" - 11 elements but not 13 bracketed values, so             *)
(*                SlowLogRecord raises ValueError (a source holding two   *)
(*                or more bracketed groups; SlowLogParse derives these).  *)
(* Times are whole numbers of minutes; Now is later than every line.      *)
(***************************************************************************)
EXTENDS Integers, Sequences, SequencesExt

CONSTANTS
  PodLists,    \* the pod name lists _get_search_engine_pod_names may return
  LogOf,       \* pod -> the lines of its slow log file, oldest first
  Now,         \* datetime.now()
  Intervals    \* the values PROCESSING_INTERVAL_MINUTES may hold

VARIABLES
  spc,         \* the point of run() the script is at
  pods,        \* the pod names
  stop,        \* time_to_stop
  pi,          \* the index of the pod the loop is at
  localFile,   \* the content of SLOW_LOGS_DESTINATION_PATH
  logLines,    \* the lines of the file _process_log_records has still to read
  podLogs,     \* slow_logs of the _process_log_records call in progress
  collected,   \* slow_log_objects
  handed,      \* the list passed to filter_slow_logs_records
  outcome,     \* "running", "returned", "crashed" or "sent"
  copied       \* the pods whose log was copied in this run (history)

slVars == <<spc, pods, stop, pi, localFile, logLines, podLogs, collected, handed,
            outcome, copied>>

SLInit ==
  /\ spc = "start" /\ pods = <<>> /\ stop = 0 /\ pi = 0
  /\ localFile = <<>> /\ logLines = <<>> /\ podLogs = <<>>
  /\ collected = <<>> /\ handed = <<>> /\ outcome = "running" /\ copied = {}

(***************************************************************************)
(* Lines 183-214: _get_core_v1_api loads the in-cluster or the local      *)
(* Kubernetes config, and _get_search_engine_pod_names reads the data     *)
(* service and lists the pods its selector matches.  Each call may raise; *)
(* otherwise the result is one of the name lists.                          *)
(***************************************************************************)
PodNamesResults == [ok : {FALSE}, names : {<<>>}] \cup [ok : {TRUE}, names : PodLists]

(***************************************************************************)
(* Lines 270-274 and 310-322: a negative interval raises, so does a       *)
(* failing Kubernetes call; no pods means return without sending.          *)
(***************************************************************************)
SLStart ==
  /\ spc = "start"
  /\ \E iv \in Intervals :
       \/ iv < 0 /\ spc' = "end" /\ outcome' = "crashed" /\ UNCHANGED <<pods, stop, pi>>
       \/ iv >= 0 /\ \E res \in PodNamesResults :
            CASE ~res.ok -> spc' = "end" /\ outcome' = "crashed" /\ UNCHANGED <<pods, stop, pi>>
              [] res.names = <<>> ->
                   spc' = "end" /\ outcome' = "returned" /\ UNCHANGED <<pods, stop, pi>>
              [] OTHER -> /\ pods' = res.names /\ stop' = Now - iv /\ pi' = 1
                          /\ spc' = "copy" /\ UNCHANGED outcome
  /\ UNCHANGED <<localFile, logLines, podLogs, collected, handed, copied>>

\* The loop moves to the next pod, or past the last one.
NextPod == pi' = pi + 1 /\ spc' = IF pi < Len(pods) THEN "copy" ELSE "send"

\* _process_log_records returns or raises: its locals are gone.
ProcessReturns == logLines' = <<>> /\ podLogs' = <<>>

\* Mutant: only the copy is in the try block, so a failed copy still has
\* the local file (the previous pod's log) processed.
SLCopy_stale ==
  /\ spc = "copy"
  /\ \/ localFile' = LogOf[pods[pi]] /\ copied' = copied \cup {pods[pi]}
     \/ UNCHANGED <<localFile, copied>>
  /\ logLines' = Reverse(localFile') /\ podLogs' = <<>> /\ spc' = "process"
  /\ UNCHANGED <<pods, stop, pi, collected, handed, outcome>>

(***************************************************************************)
(* Lines 217-247 and 323-327: the pod's log is streamed into a buffer and *)
(* only then written over the local file, which _process_log_records      *)
(* reads back reversed.  A copy that raises leaves the file alone; the    *)
(* except of run() logs it and goes on with the next pod.                 *)
(***************************************************************************)
SLCopy ==
  /\ spc = "copy"
  /\ \/ /\ localFile' = LogOf[pods[pi]] /\ copied' = copied \cup {pods[pi]}
        /\ logLines' = Reverse(localFile') /\ podLogs' = <<>> /\ spc' = "process"
        /\ UNCHANGED pi
     \/ NextPod /\ UNCHANGED <<localFile, copied, logLines, podLogs>>
  /\ UNCHANGED <<pods, stop, collected, handed, outcome>>

\* Mutant: the scan stops at a record of time_to_stop itself.
SLProcess_stop_inclusive ==
  /\ spc = "process"
  /\ \/ logLines = <<>> /\ collected' = collected \o podLogs /\ NextPod /\ ProcessReturns
     \/ LET l == Head(logLines) IN
        /\ logLines # <<>>
        /\ \/ l.kind = "skipped" /\ logLines' = Tail(logLines)
              /\ UNCHANGED <<podLogs, collected, pi, spc>>
           \/ l.kind = "brackets" /\ NextPod /\ ProcessReturns /\ UNCHANGED collected
           \/ l.kind = "record" /\ l.time <= stop
              /\ collected' = collected \o podLogs /\ NextPod /\ ProcessReturns
           \/ l.kind = "record" /\ l.time > stop
              /\ podLogs' = Append(podLogs, l) /\ logLines' = Tail(logLines)
              /\ UNCHANGED <<collected, pi, spc>>
  /\ UNCHANGED <<pods, stop, localFile, handed, outcome, copied>>

\* Mutant: without the None check, a line that did not convert is kept.
SLProcess_keep_unconverted ==
  /\ spc = "process"
  /\ \/ logLines = <<>> /\ collected' = collected \o podLogs /\ NextPod /\ ProcessReturns
     \/ LET l == Head(logLines) IN
        /\ logLines # <<>>
        /\ \/ l.kind = "brackets" /\ NextPod /\ ProcessReturns /\ UNCHANGED collected
           \/ l.kind \in {"record", "skipped"} /\ l.time < stop
              /\ collected' = collected \o podLogs /\ NextPod /\ ProcessReturns
           \/ l.kind \in {"record", "skipped"} /\ l.time >= stop
              /\ podLogs' = Append(podLogs, l) /\ logLines' = Tail(logLines)
              /\ UNCHANGED <<collected, pi, spc>>
  /\ UNCHANGED <<pods, stop, localFile, handed, outcome, copied>>

(***************************************************************************)
(* Lines 284-301 and 326-329, one line per step: a line that does not     *)
(* convert is skipped; the first record older than time_to_stop ends the  *)
(* scan, and the records kept are added to slow_log_objects.  A ValueError *)
(* from SlowLogRecord leaves _process_log_records, so run() catches it    *)
(* and the pod's records kept so far are lost.                             *)
(***************************************************************************)
SLProcess ==
  /\ spc = "process"
  /\ \/ logLines = <<>> /\ collected' = collected \o podLogs /\ NextPod /\ ProcessReturns
     \/ LET l == Head(logLines) IN
        /\ logLines # <<>>
        /\ \/ l.kind = "skipped" /\ logLines' = Tail(logLines)
              /\ UNCHANGED <<podLogs, collected, pi, spc>>
           \/ l.kind = "brackets" /\ NextPod /\ ProcessReturns /\ UNCHANGED collected
           \/ l.kind = "record" /\ l.time < stop
              /\ collected' = collected \o podLogs /\ NextPod /\ ProcessReturns
           \/ l.kind = "record" /\ l.time >= stop
              /\ podLogs' = Append(podLogs, l) /\ logLines' = Tail(logLines)
              /\ UNCHANGED <<collected, pi, spc>>
  /\ UNCHANGED <<pods, stop, localFile, handed, outcome, copied>>

\* Lines 329-332: the local file is emptied and the records go to the filter.
SLSend ==
  /\ spc = "send"
  /\ localFile' = <<>> /\ handed' = collected
  /\ spc' = "end" /\ outcome' = "sent"
  /\ UNCHANGED <<pods, stop, pi, logLines, podLogs, collected, copied>>

SLNext == SLStart \/ SLCopy \/ SLProcess \/ SLSend

SLSpec == SLInit /\ [][SLNext]_slVars

-----------------------------------------------------------------------------
\* A log's records are in time order.
InTimeOrder(log) ==
  \A i, j \in DOMAIN log :
    i < j /\ log[i].kind = "record" /\ log[j].kind = "record" => log[i].time <= log[j].time

\* A log has a record that SlowLogRecord rejects.
HasBadBrackets(log) == \E i \in DOMAIN log : log[i].kind = "brackets"

\* The shape of the state.
SLTypeOK ==
  /\ spc \in {"start", "copy", "process", "send", "end"}
  /\ outcome \in {"running", "returned", "crashed", "sent"}
  /\ pi \in 0..(Len(pods) + 1)
  /\ Len(logLines) <= Len(localFile)
  /\ \A j \in DOMAIN collected : collected[j].kind = "record"

(***************************************************************************)
(* The records handed to the filter are records of pods whose log was     *)
(* copied in this run, none older than time_to_stop, and no line of a log *)
(* is handed twice: one pod's failure never makes another pod's log, left *)
(* in the shared local file, count again.                                  *)
(***************************************************************************)
SentWithinWindow ==
  outcome = "sent" =>
    /\ IsInjective(handed)
    /\ \A j \in DOMAIN handed :
         /\ handed[j].time >= stop
         /\ handed[j].pod \in copied
         /\ handed[j] \in Range(LogOf[handed[j].pod])

(***************************************************************************)
(* Every record of the processing interval (not older than time_to_stop)  *)
(* in the log of a pod that was copied reaches the filter, when that log  *)
(* is in time order and has no record SlowLogRecord rejects: the scan     *)
(* from the end stops at the right line and keeps what it read.           *)
(***************************************************************************)
RecentRecordsSent ==
  outcome = "sent" =>
    \A p \in copied :
      InTimeOrder(LogOf[p]) /\ ~HasBadBrackets(LogOf[p]) =>
        \A k \in DOMAIN LogOf[p] :
          LogOf[p][k].kind = "record" /\ LogOf[p][k].time >= stop =>
            LogOf[p][k] \in Range(handed)

=============================================================================
