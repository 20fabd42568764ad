-------------------------------- MODULE Evict --------------------------------
(***************************************************************************)
(* evict.py: the backup daemon removes an old backup by running          *)
(* Evict.evict for its folder, once per folder, one after another.         *)
(*                                                                         *)
(* The snapshot of a folder is named extract_snapshot_name(folder), the    *)
(* basename lowercased.  Names are sequences of characters.  evict selects *)
(* the repository's snapshots with curator's filter_by_regex, kind        *)
(* "regex": re.search of the name as a pattern, so for a name without     *)
(* regex metacharacters a snapshot is selected when the name occurs in it. *)
(* curator raises NoSnapshots when it filters or deletes an empty list;   *)
(* any of its requests may fail.                                           *)
(***************************************************************************)
EXTENDS Integers, Sequences, SequencesExt, FiniteSets

CONSTANTS
  InitFolders,    \* the backup folders on the storage at the start
  InitSnapshots,  \* the snapshot names in the repository at the start
  MaxEvictions,   \* bound on the evictions the daemon runs
  ClientEnvs      \* the environments the daemon may run evict.py in

VARIABLES
  folders,        \* the backup folders on the storage
  snapshots,      \* the snapshots in SNAPSHOT_REPOSITORY_NAME
  epc,            \* the point of evict() the run is at
  target,         \* the folder being evicted
  selected,       \* snapshot_list after the filter
  lastResult,     \* how the last run ended: "none", "done" or "crashed"
  evictions,      \* evictions started so far
  deleted,        \* the snapshots each run deleted: folder -> names (history)
  clientEnv       \* ES_HOST, ES_USERNAME, ES_PASSWORD: "" when unset or empty

evVars == <<folders, snapshots, epc, target, selected, lastResult, evictions, deleted,
            clientEnv>>

\* The upper-case letters of the names, with their lower case.
LowerOf == ("T" :> "t") @@ ("Z" :> "z")

\* utils.extract_snapshot_name: the basename, lowercased.
extract_snapshot_name(f) ==
  [i \in DOMAIN f |-> IF f[i] \in DOMAIN LowerOf THEN LowerOf[f[i]] ELSE f[i]]

\* filter_by_regex(kind="regex", value=name, exclude=False).
FilterByRegex(names, name) ==
  {s \in names : \E suffix \in Suffixes(s) : IsPrefix(name, suffix)}

(***************************************************************************)
(* utils.py, lines 29-55: the client evict() builds first.                *)
(* create_elasticsearch_url raises RuntimeError without a host (the       *)
(* https/http prefix is data).  get_credentials returns (user, password)  *)
(* when both are set and (user, None) otherwise, as the conditional binds *)
(* to the password alone; opensearch-py joins a tuple http_auth with ':'  *)
(* when it builds its connection, a TypeError on None.  No certificate is *)
(* None, which opensearch-py accepts.                                      *)
(***************************************************************************)
create_elasticsearch_url(e) == IF e.host = "" THEN "RuntimeError" ELSE e.host

get_credentials(e) == <<e.user, IF e.user # "" /\ e.password # "" THEN e.password ELSE "None">>

prepare_elasticsearch_client(e) ==
  CASE create_elasticsearch_url(e) = "RuntimeError" -> "RuntimeError"
    [] "None" \in ToSet(get_credentials(e)) -> "TypeError"
    [] OTHER -> "client"

EvInit ==
  /\ folders = InitFolders /\ snapshots = InitSnapshots
  /\ epc = "idle" /\ target = <<>> /\ selected = {}
  /\ lastResult = "none" /\ evictions = 0
  /\ deleted = [f \in InitFolders |-> {}]
  /\ clientEnv \in ClientEnvs

EvCrash == epc' = "idle" /\ lastResult' = "crashed"

\* Mutant: the filter with exclude=True keeps the other snapshots.
EvStart_exclude ==
  /\ epc = "idle" /\ evictions < MaxEvictions
  /\ \E f \in InitFolders :
       /\ target' = f
       /\ \/ prepare_elasticsearch_client(clientEnv) # "client" /\ EvCrash /\ UNCHANGED selected
          \/ EvCrash /\ UNCHANGED selected
          \/ snapshots = {} /\ EvCrash /\ UNCHANGED selected
          \/ /\ prepare_elasticsearch_client(clientEnv) = "client" /\ snapshots # {}
             /\ selected' = snapshots \ FilterByRegex(snapshots, extract_snapshot_name(f))
             /\ epc' = "listed" /\ UNCHANGED lastResult
  /\ evictions' = evictions + 1
  /\ UNCHANGED <<folders, snapshots, deleted, clientEnv>>

(***************************************************************************)
(* Lines 37-39: a client, the repository's snapshot list and the filter.  *)
(* The list request may fail, and the filter raises NoSnapshots on an     *)
(* empty repository.  The daemon may evict any folder it knows, also one  *)
(* an earlier run already removed.                                         *)
(***************************************************************************)
EvStart ==
  /\ epc = "idle" /\ evictions < MaxEvictions
  /\ \E f \in InitFolders :
       /\ target' = f
       /\ \/ prepare_elasticsearch_client(clientEnv) # "client" /\ EvCrash /\ UNCHANGED selected
          \/ EvCrash /\ UNCHANGED selected
          \/ snapshots = {} /\ EvCrash /\ UNCHANGED selected
          \/ /\ prepare_elasticsearch_client(clientEnv) = "client" /\ snapshots # {}
             /\ selected' = FilterByRegex(snapshots, extract_snapshot_name(f))
             /\ epc' = "listed" /\ UNCHANGED lastResult
  /\ evictions' = evictions + 1
  /\ UNCHANGED <<folders, snapshots, deleted, clientEnv>>

\* Lines 40-43: rmtree of the folder; a missing folder is not an error.
EvRemoveFolder ==
  /\ epc = "listed"
  /\ folders' = folders \ {target}
  /\ epc' = "removed"
  /\ UNCHANGED <<snapshots, target, selected, lastResult, evictions, deleted, clientEnv>>

(***************************************************************************)
(* Lines 45-47: DeleteSnapshots of the selected list.  An empty list      *)
(* raises NoSnapshots; the delete request may fail.                        *)
(***************************************************************************)
EvDelete ==
  /\ epc = "removed"
  /\ \/ selected = {} /\ EvCrash /\ UNCHANGED <<snapshots, deleted>>
     \/ selected # {} /\ EvCrash /\ UNCHANGED <<snapshots, deleted>>
     \/ /\ selected # {}
        /\ snapshots' = snapshots \ selected
        /\ deleted' = [deleted EXCEPT ![target] = @ \cup selected]
        /\ epc' = "idle" /\ lastResult' = "done"
  /\ UNCHANGED <<folders, target, selected, evictions, clientEnv>>

EvNext == EvStart \/ EvRemoveFolder \/ EvDelete

-----------------------------------------------------------------------------
(***************************************************************************)
(* A run of evict.py that ends without an error has removed both the      *)
(* folder and the snapshot of the backup it was given.                     *)
(***************************************************************************)
EvictRemovesOwnBackup ==
  (epc = "idle" /\ lastResult = "done") =>
    /\ target \notin folders
    /\ extract_snapshot_name(target) \notin snapshots

=============================================================================
