# TLA+ models of the OpenSearch backup, restore and monitoring scripts

This directory holds TLA+ models of the Python scripts in this repository that
carry control logic, and the TLC configurations that check them. Every
definition is translated from the source. `PROJECT.json` maps each definition
to the lines it models.

## The system's parts

`src/opensearch-curator/docker/backup-docker/scripts/` holds the scripts that the
backup daemon runs for each backup folder:

* **backup.py** writes the manifest of a backup and takes the snapshot.
  * A granular backup (`-d a,b`) selects indices with curator's regex filter.
    It writes `databases.txt`, `indices.txt` and `aliases.json`, and the three
    template files filtered by tenant prefix.
  * A full backup snapshots every non-system index.
* **restore.py** reads a folder back.
  * A granular restore validates the tenants and may rename each to a new
    prefix (`-m`). With `-clean` it first deletes the destination's templates
    and indices. It then puts component, index and legacy templates (renamed),
    closes the target indices, restores them from the snapshot and puts the
    aliases.
  * A full restore closes and restores everything.
  * Each of these is a sequence of cluster requests, and any of them may fail.
* **recover_users** (restore.py, with dbaas_client.py) is the poller that asks
  the DBaaS aggregator to restore user passwords after a restore. It then
  follows the adapter's recovery state.
* **evict.py**, **list_instances_in_vault.py** and **utils.py** delete a
  folder, print one and build clients.

`src/monitoring/exec-scripts/` holds telegraf exec scripts that print metrics:
slow queries, backups, health and replication.
`src/opensearch-curator/opensearch_indices_cleaner` is a scheduled
curator delete. `src/integration-tests` holds a pods readiness checker and the
robot test libraries.

The backup, the cluster's users and the restore interact through the cluster
and the folder. What a restore does depends on:
* what the backup wrote;
* what the cluster's users changed in between;
* the restore's arguments;
* which of its requests fail.

## Modules

| module | models | state and actions |
|---|---|---|
| `TenantRename` | `rename`, `rename_template`, `rename_index_aliases`, `rename_templates` of restore.py | Pure operators. Names are sequences of characters, so `re.sub` without an anchor is `ReplaceFirstSubSeq`. |
| `Cluster` | the opensearch-py/curator calls the scripts make | The cluster record (indices, three template namespaces, snapshots) and `Apply(cluster, request)`. This is the collaborator, modelled from the cluster's documented behaviour, not from code here (see below). |
| `Backup` | backup.py `granular_backup`, `full_backup`, `backup_templates` | Operators that return the manifest files and the snapshot. |
| `Restore` | restore.py `Restore` class | Variables `cluster`, `manifest`, `snapshot`, `dbs`, `renames`, `clean`, `pc`, `calls`, `err`. Each block of the script (validate, clean, component/index/legacy templates, indices, aliases) computes its list of requests into `calls`. `Call` then sends them one per step, with the outcome ok, not found, or a cluster fault. It follows the script's try blocks: a not found on a clean delete drops the rest of that prefix's block, and any other error aborts. |
| `BackupRestore` | both `__main__`s, and list_instances_in_vault.py | `RunBackup`, then the environment actions `CreateIndex`, `DeleteIndex` and `CreateTemplate` (bounded by `MaxDrift`; `CreateIndex` also between the restore's requests), then `StartRestore` and `RestoreStep`. `ListInstances` is the listing script run on the folder at any time after the backup: it prints databases.txt, or else the snapshot's indices, or fails on the snapshot request. It also holds the reference definitions of the design (`SpecRename`, `Dest`, `ExpectedDoc`) that the properties use. |
| `UsersRecovery` | `recover_users` and the dbaas clients | The environment `env` (the two service addresses and the database id) read through `get_url`, the poller's program counter `ppc`, its locals `state`, `restore_failed` and elapsed time, and the adapter's recovery state. The actions are `Entry`, `InitialGet`, `LoopHead`, `Post`, `CheckState` and `AdapterFinish`. Each request answers 200, another status, `ConnectionError`, another request error (which escapes `except requests.ConnectionError or requests.HTTPError` and ends the script), or never. |
| `BackupMetric` | backup_metric.py `run`, `_collect_metrics` and helpers | `bpc` walks through the script's requests, after `BMRun`: with ELASTICSEARCH_HOST unset the script prints nothing. The snapshot loop is one step per repository listing and one per snapshot, with the locals `count`, `succ`, `last`, `lastRepo`, `lastTime` and `lastSuccTime`. `out` is the printed line, `unavailable`, or `crashed`. The ghost `visited` records the snapshots counted. |
| `ReplicationMetric` | replication_metric.py `run`, `_collect_metrics` and helpers | `rpc` walks through the requests, after `RMRun`: with ELASTICSEARCH_HOST unset the script prints nothing. `lines` holds the per-index lines as records. The loop over autofollow rules is one step per listing and one per index status. A `Response` with status 400 or more is falsy, so every request answers `ok` or `fail`. |
| `SlowLogFilter` | `filter_slow_logs_records` | `Visit` handles one record per step. `Return` does the sort and the cut. `took_millis` is a digit string, so `<` on it is `StrLess` (lexicographic) and `int()` is `ToInt`. |
| `SlowLogCollect` | slow_queries_metric.py `run`, `_copy_slow_log_file_from_opensearch_pod`, `_process_log_records` | `spc` walks through run(). `SLStart` reads the interval and the pods. `SLCopy` writes a pod's log over the one shared `localFile`, or fails and goes to the next pod. `SLProcess` reads one line per step from the end (`logLines`) into `podLogs`: skipped lines, a ValueError that loses the pod's records, or the first older record that ends the scan. `SLSend` hands `collected` to the filter. A log line is a record `[pod, n, kind, time]`. |
| `SlowLogParse` | slow_queries_metric.py `SlowLogRecord.__str__`, `convert_slow_log_record`, `_extract_values_from_brackets` | Text is a sequence of characters. `Format` writes a record's line, `SplitSep`/`StripSep` are `split(', ')`/`strip(', ')`, and `BracketValues` is the bracket loop, cursor bugs included (the next search starts at the `]` just found; with no `]` it starts at the last character, which can loop). `SPConvert` converts the line of the record chosen in Init, giving a record, None, ValueError or a hang. `SPSend` prints a parsed record as `convert_to_metric_line` writes it (only ',' of the query replaced by ';'). |
| `HealthMetric` | health_metric.py | One step `HMRun`. An unset total raises, the request fails, or the cluster answers a health and a node count. `Metric` keeps the printed fields (status_code, health_code, the number_of_nodes=0i flag). |
| `DbaasHealthMetric` | dbaas_health_metric.py | One step `DHRun` over the adapter's JSON bodies. A missing `status` field raises KeyError or TypeError. |
| `Evict` | evict.py, utils.py | `EvStart` first builds the client from `clientEnv` (host, user and password, each set or not, chosen in Init): no host raises RuntimeError, and a missing credential gives `(user, None)`, which opensearch-py's join of `http_auth` rejects with TypeError. The daemon runs `Evict.evict` repeatedly (`MaxEvictions`) for any folder it knows. `EvStart` lists and filters, `EvRemoveFolder` is the rmtree, `EvDelete` deletes the selection. Any request may fail. Names are character sequences, and the regex filter is an infix test. `deleted` records what each folder's runs removed. |
| `PodsChecker` | opensearch_pods_checker.py | `kpc` is the point of the script. `turns` counts the 10-second turns against `Deadline`. The readiness of the stateful sets and the cluster's health are chosen afresh each turn. The health request may never return (`hung`). |
| `IndicesCleaner` | indices_cleaner.py | `schedEnv` holds the pod's scheduler unit and count, the same at every restart. `ICSchedule` registers the job when `schedule_cleaning` passes: the script's unit and count checks, then what the `schedule` library's `every(n).<unit>` and `at(t)` accept, modelled from that library's interface. Otherwise it raises, and the restarted pod raises again. `ICJob` is a run of `delete_indices`, which re-reads and checks the configuration and then builds its client from `esEnv` (ELASTICSEARCH_HOST and ES_AUTH): no host, an unset ES_AUTH, one without ':' or with an empty part raises. `ICDelete` needs `Authorized`: ES_AUTH is split on every ':', so a password holding ':' is cut and the cluster refuses every request. `ICDelete` handles one configuration per step. Any exception (`Die`) ends the process, which the pod restarts. |
| `OpenSearchUtils` | OpenSearchUtils.py (robot library) | The HA tests' shard helpers. `rows` are the index's _cat/shards rows in the order listed (every order of an index of two shards with up to two replicas is an input). `HPick` picks the copy to corrupt (`get_primary_shard_description_to_corrupt` or `get_replica_shard_description_to_corrupt`), `HFailOver` is the cluster failing it over in any way it may (any replica promoted; a replica reallocated to a node without a copy, or left unassigned), `HCheck` is the test's oracle. |
| `AbstractRecovery` | what a recovery run promises | A phase (running, finished, hung) and a result that may be "done" only for an adapter recovery finished in this run. `UsersRecovery` maps onto it with `Phase`. |

The `MC*` modules hold the constants: small names such as `<<"a">>`, a source
cluster, and the argument choices.

## Runs

| run | cfg | expect | what it shows |
|---|---|---|---|
| backup_restore | MCBackupRestore.cfg | pass | A full or granular backup of tenants a,b, drift, then a restore with `-d` a / a,b / b,a / c, with or without the rename a→n and `-clean`, with faults anywhere, and a user creating an index before or while the restore runs. The run checks: `IndicesRestored`, `TemplatesRestored` and `AliasesRestored` on success (each backed-up object lands under its destination name with renamed patterns, composed_of and aliases); `NoSelfInflictedAbort` (the script's own requests are never rejected: an abort comes from a fault, from invalid tenants, or from an open index a user created after the close and before the restore request); `NoCollateralRestore` (nothing outside the destination prefixes changes, whatever step fails, except the indices users created during the restore). |
| overlap_tenants | MCOverlap.cfg | violation | With tenants a and ab, the shared template dicts are renamed in place, so one tenant's template is never restored (restore.py:163). |
| clean_not_found | MCCleanNotFound.cfg | violation | A 404 on the index-template delete skips the component and legacy deletes (restore.py:270). |
| no_template_section | MCNoSection.cfg | violation | A template without a `template` section gets a top-level `aliases` field and is rejected (restore.py:251). |
| backup_scope | MCBackupScope.cfg | violation | `^a\|b.*$` anchors only the first tenant (backup.py:44). |
| empty_renamed_tenant | MCEmptyRenamed.cfg | violation | A renamed tenant without indices restores the whole snapshot (restore.py:130). |
| users_recovery | MCUsersRecovery.cfg | pass | `DoneMeansRecovered`: "done" is reported only for a recovery that finished during this run. `PollerEndsUnlessHung`: the poller ends unless a request is never answered. `RecoveryRefined`: the poller implements `AbstractRecovery` under the mapping `Phase` (ppc finished / hung / otherwise running). |
| poller_hang | MCPollerHang.cfg | violation | With no request timeout, the poller may never end (dbaas_client.py:48). |
| poller_no_url | MCPollerNoUrl.cfg | violation | An unset address is `None`, not `""`, so the poller does not skip: it crashes on the first request to that service, a TypeError from `None + path` (restore.py:289). `MaxErrors = 0` here, so every request is answered and the trace shows that crash. |
| slow_log_filter | MCSlowLogFilter.cfg | pass | One input record per key, sorted descending, cut to top_number. |
| monitoring | MCMonitoring.cfg | pass | Runs each monitoring script, evict.py, the cleaner, the pods checker, the slow-log line parser and the HA tests' shard helpers on its own (a `script` chosen in Init), with every request free to fail. `MetricMatchesSnapshots`: a printed backup line gives the count, the success count and the newest end times of the snapshots of the repositories that answered, plus the storage type of a newest snapshot's repository and that snapshot's status: its listed state, or the state its own `_status` answer gives it, PARTIAL as SUCCESS and a running snapshot as STARTED. `RuleIndicesReported`: every listed rule index whose replication FAILED is reported with index_status=4, even when its status request fails. `SentWithinWindow`: the slow-log records handed to the filter come from logs copied in this run, within the interval, none twice. `RecentRecordsSent`: every recent record of a copied in-order log with no bad line is handed on. `HealthStatusIsWorst`: the health status code is the worse of the health and the node count. `EvictRemovesOwnBackup`: a successful eviction removes its folder and its snapshot. `InvalidConfigDeletesNothing`: a cleaner run with an invalid entry deletes no index. `CheckerEndsUnlessHung`: the pods checker exits unless its health request hangs. `PlainLinesRoundTrip`: the line of a record with no separator or bracket in any field is read back as that record. `SourceConfined`: whatever the query source holds, the line is dropped, rejected, or read with every other field in its place. `PromotionSeen`: for a shard with one replica, the primary-failover oracle sees the failover. |
| slow_log_order | MCSlowLogOrder.cfg | violation | `took_millis` compared as strings keeps 5 over 12 (slow_queries_metric.py:171). |

Every property of a passing run has a mutant in `PROJECT.json`: a plausible bug
in the mapped code that TLC finds.

## Bounds

* **Backup and restore.** The source cluster has:
  * indices of tenants a and b, one index outside every tenant, and a system
    index;
  * index, component and legacy templates of both tenants;
  * aliases on one index and one component template.

  These bounds are enough for the cases that matter:
  * Restore orders `<<A,B>>` and `<<B,A>>` exercise the per-tenant partitions.
  * The tenant c has no data, which reaches the validation error.
  * `MaxDrift = 2` lets a user create a target index (n1) and a template,
    or delete an index, before the restore, and create an index between
    any two of the restore's requests.
  * Each request may fault, which reaches every partial failure.

  The violation runs change only the constant that produces their case.
* **Users recovery.** `Timeout = 2` and `Interval = 1` let the retry loop
  time out after three tries. `MaxErrors = 4` allows an error in each phase.
  The environment gives each service address and the database id set or
  empty: all eight combinations.
* **Monitoring.**
  * Two repositories, fs and s3, with two snapshots each. The newest end time
    is tied across the repositories, and the newest snapshot is not in the
    last repository.
  * An empty repository list is also possible.
  * Two follower indices: one lagging, one ahead of a leader at 0.
  * Two rules listing a failed, a paused and a syncing index.
* **Monitoring, the other scripts.**
  * Slow log: pods o1 and o2, or none, and intervals -1, 0, 1 and 2 at
    `Now = 3`. o1 has a skipped line and records of times 1 and 2. o2 is out
    of time order and has a line that raises ValueError. So a failed copy
    after a successful one, the stop at an older record, and the lost pod
    all happen.
  * Health: a total of 0 (unset) or 2, and up to 3 nodes reported, so a
    cluster has fewer, as many or more nodes than configured.
  * DBaaS health: five bodies, from empty to one whose cluster object lacks
    `status`.
  * Evict: folders 1T1, 1T2 and 1T3 and snapshots 1t1, 1t2 and an unrelated
    0t9, with `MaxEvictions = 2`. This reaches a second eviction of a
    removed folder, and an empty repository. The client environment takes
    each of host, user and password set or not (8 environments).
  * Cleaner: configurations that are empty, valid, or with one invalid entry
    after a valid one; indices of two patterns, old and new; `MaxJobs = 2`;
    a host set or not, and ES_AUTH unset, `u`, `:p`, `u:p` or `u:p:q`.
    Scheduler settings: eight units (the tests' `day` and `days`, `hours`,
    `minute`, `minutes`, `seconds`, `monday`, the empty one) with thirteen
    counts (integers, each malformed count of the unit tests, and times
    such as `:` or `1:30` that the script passes but `at()` refuses). In
    the monitoring run, a script that is not chosen gets one fixed input,
    so the state space is a sum over the scripts, not a product.
  * Pods checker: `Deadline = 3` turns, internal or external cluster.
  * Shard helpers: nodes a, b, c; shard 1 with its primary on b and a
    replica on c, shard 0 with its primary on any node and zero, one or two
    replicas, the rows in every order. This is the smallest index in which
    the first primary row, the last replica row and a second shard all
    matter.
  * Slow-log parser: records whose fields are all "a" except one, which
    holds up to two of the characters `a , space [ ]`, or ends in " hits";
    the source also holds every text of three such characters. So a ", "
    in a field, one or two bracket groups in the source, a lone `[` and a
    " hits" outside total_hits all occur, and every outcome (record, None,
    ValueError, loop) is reached.
* **Slow-query filter.** Three records over two keys and three values (5, 12
  and 100), with `TopNumber = 2`, reach replacement, the cut, and ties.

## Fairness

`UsersRecovery` assumes weak fairness of the poller's steps and of the
adapter's job. The poller is one sequential Python process that keeps running
while a step is enabled. The adapter runs the recovery job it has started.
Hangs and failed answers are not restricted by fairness. `MaxErrors` bounds
only the failed answers, and a hang stays possible. The liveness property that
passes therefore excludes hung requests by name.

`PodsChecker` assumes weak fairness of its steps (`PCFairness`), for the
same reason: it is one sequential script. The monitoring run's specification
carries it. Its property starts with `kpc # "init"`, so it says nothing of the
runs where another script was chosen. `AbstractRecovery` carries the same weak
fairness as `UsersRecovery`. Its concluding step may also be a hang, so the
refinement holds with hangs allowed.

The backup and restore runs check safety only. They set `CHECK_DEADLOCK FALSE`
because the scripts end: a restore stops in `done` or `failed`.

## Not modelled

* The cluster itself (`Cluster`) is the environment, written from the
  OpenSearch API behaviour the scripts rely on:
  * a wildcard delete that matches nothing answers 404;
  * composable templates reject unknown fields;
  * restore onto an open index fails.

  Overlapping index-template priorities are not modelled.
* Also not modelled:
  * users deleting indices or changing templates during a restore (only
    index creation is interleaved with the script's requests);
  * a crash of backup.py between the manifest and the snapshot (the folder
    it leaves, with no snapshot, is one of Evict's initial folders);
  * argument parsing;
  * building the OpenSearch client from the environment in backup.py and
    list_instances_in_vault.py: those models start with a
    working client (Evict models utils.py's construction);
  * the robot library's test-data file helpers, tesst.py and
    JsonpathLibrary (file and string handling with no state), and the unit
    tests;
* backup_metric.py raises instead of reporting -2 when the cluster fails
  after the health check (line 137). The model reaches this crash, and no
  property states the intent yet. The printed lag of replication_metric.py
  may be negative.
* Findings without a violation run:
  * OpenSearchUtils: with two replicas, `get_primary_shard_description_to_corrupt`
    names the last listed one, which the cluster need not promote, and
    `is_replica_shard_relocated` already holds before any relocation (an
    unassigned replica counts too). The model reaches both.
  * utils.get_credentials returns `(user, None)` when a credential is
    missing, and opensearch-py cannot build a client from it: Evict reaches a
    crash before any request in every environment without both credentials,
    so a cluster without authentication cannot be evicted (or backed up).
  * evict.py removes the folder before it deletes the snapshot.
  * evict.py uses the snapshot name as an unanchored regex. The MC folder
    names are all the same length, so none is an infix of another, and the
    bad selection is not exercised; no run states a property of it.
  * A slow-log line that raises ValueError loses that pod's records.
  * A /health body without `status` prints no line at all.
  * The slow-log parser resumes its '[' search at the ']' it just found. A
    source holding one JSON array is cut at its first ']'. Two or more bracket
    groups give a ValueError. An element ending in '[' (only the time field
    can) loops forever. `SourceConfined` holds: a source never shifts
    another field.
  * convert_to_metric_line escapes only ','. A query with a space (a phrase)
    ends the tag set inside the query tag; the model reaches such lines
    (`SPSend`), and no run states a property of them.
  * backup_metric.py takes last_backup_status from the newest snapshot's
    `_status` answer, which reports a PARTIAL snapshot as SUCCESS. With a
    PARTIAL snapshot newest, the line gives last_backup_status=1 while
    count_of_successful_snapshots leaves that snapshot out. The listed
    state (4) is printed only when `_status` fails.

  The hazards list in `PROJECT.json` records each of them at its line.
