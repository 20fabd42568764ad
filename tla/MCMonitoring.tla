---------------------------- MODULE MCMonitoring ----------------------------
(***************************************************************************)
(* The scripts that run on their own, each started by telegraf, a cron   *)
(* or a daemon, against a small cluster.  They share nothing, so one run  *)
(* of the model is one run of one script: Init chooses which, and the     *)
(* other scripts' variables stay at their initial values.                 *)
(***************************************************************************)
EXTENDS BackupMetric, ReplicationMetric, SlowLogCollect, HealthMetric,
        DbaasHealthMetric, Evict, PodsChecker, IndicesCleaner, SlowLogParse, OpenSearchUtils,
        TLC

\* Repository r1 (fs) holds a SUCCESS and a FAILED snapshot, r2 (s3) a
\* SUCCESS one and a PARTIAL one that ends at the same time as r1's newest.
Snap(n, e, st) == [name |-> n, end |-> e, state |-> st]

MCRepoLists == {<<"r1", "r2">>, <<>>}
MCSnapshotsOf == ("r1" :> <<Snap("s1", 2, "SUCCESS"), Snap("s2", 3, "FAILED")>>)
              @@ ("r2" :> <<Snap("s3", 1, "SUCCESS"), Snap("s4", 3, "PARTIAL")>>)
MCStorageOf == ("r1" :> "fs") @@ ("r2" :> "s3")
MCRunning == <<"SUCCESS", "STARTED">>

\* f1 is syncing behind its leader, f2 ahead of a leader at checkpoint 0;
\* rule p1 matches f1 and the failed h1, rule p2 the paused h2.
MCIndexStats == << [index |-> "f1", leader |-> 5, follower |-> 3],
                   [index |-> "f2", leader |-> 0, follower |-> 2] >>
MCFailedIndices == <<"g1">>
MCRules == <<"p1", "p2">>
MCIndicesOf == ("p1" :> <<"f1", "h1">>) @@ ("p2" :> <<"h2">>)
MCStatusOf == ("f1" :> "SYNCING") @@ ("h1" :> "FAILED") @@ ("h2" :> "PAUSED")

\* Pod o1 logs in time order, with a line that does not convert; pod o2
\* has a record out of order and one with a JSON array in its source.
L(p, n, k, t) == [pod |-> p, n |-> n, kind |-> k, time |-> t]
MCPodLists == {<<"o1", "o2">>, <<>>}
MCLogOf ==
  ("o1" :> <<L("o1", 1, "record", 1), L("o1", 2, "skipped", 2),
             L("o1", 3, "record", 2), L("o1", 4, "record", 2)>>)
  @@ ("o2" :> <<L("o2", 1, "record", 2), L("o2", 2, "record", 1),
                L("o2", 3, "brackets", 2), L("o2", 4, "record", 2)>>)
MCIntervals == {-1, 0, 1, 2}

\* Adapter /health bodies: the current field, the legacy field behind an
\* empty current one, a body without the cluster, and an error body.
MCBodies == { Empty,
              [status |-> "UP", opensearchHealth |-> [status |-> "WARNING"]],
              [status |-> "PROBLEM", opensearchHealth |-> Empty,
               elasticCluster |-> [status |-> "UP"]],
              [status |-> "UP"],
              [error |-> "Not Found"] }

\* Backups named as timestamps.  1T3 has no snapshot (its backup failed
\* before the snapshot), 0t9 no folder.
MCFolders == {<<"1", "T", "1">>, <<"1", "T", "2">>, <<"1", "T", "3">>}
MCSnapshots == {<<"1", "t", "1">>, <<"1", "t", "2">>, <<"0", "t", "9">>}
MCClusterEnvs ==
  [host : {"", "h"},
   auth : {[set |-> FALSE, text |-> <<>>]}
          \cup [set : {TRUE}, text : {<<"u">>, <<":", "p">>, <<"u", ":", "p">>,
                                       <<"u", ":", "p", ":", "q">>}]]
\* An index of two shards on nodes a, b, c: shard 1 has its primary on b and
\* a replica on c; shard 0 has its primary on any node and up to two
\* replicas; the rows in every order.
ShardRow(s, k, n) == [shard |-> s, prirep |-> k, node |-> n]
MCShardNodes == {"a", "b", "c"}
MCShardTables ==
  UNION {UNION {SetToSeqs({ShardRow("1", "p", "b"), ShardRow("1", "r", "c"), ShardRow("0", "p", p)}
                          \cup {ShardRow("0", "r", n) : n \in R}) :
                  R \in SUBSET (MCShardNodes \ {p})} :
         p \in MCShardNodes}
MCClientEnvs == [host : {"", "h"}, user : {"", "u"}, password : {"", "p"}]

\* Cleaner configurations: none, one valid, and a valid one followed by
\* one with a missing key; the cluster's indices of both patterns.
Cfg(p, v) == [pattern |-> p, valid |-> v]
Ix(n, p, o) == [name |-> n, pattern |-> p, old |-> o]
MCConfigLists == {<<>>, <<Cfg("p1", TRUE)>>, <<Cfg("p1", TRUE), Cfg("p2", FALSE)>>}
MCIndices == {Ix("i1", "p1", TRUE), Ix("i2", "p1", FALSE), Ix("i3", "p2", TRUE)}

\* Scheduler settings: the units of the unit tests and of each at() format,
\* a singular one and an unknown one; counts that are integers, each of the
\* unit tests' malformed ones, and times the script passes but at() refuses.
Chars(str) == [i \in 1..Len(str) |-> SubSeq(str, i, i)]
MCSchedulerEnvs ==
  [unit : {"", "day", "days", "hours", "minute", "minutes", "seconds", "monday"},
   count : {Chars(x) : x \in {"", "1", "2", "hour", "10:30", "24:00", "1:30", ":30",
                              "1:", ":", "a:22", ":aa", "11:22:33"}}]

\* Slow-log records: every field "a" but one, which holds a text of up to
\* two characters of a , space [ ], or ends in " hits"; the source also
\* every text of three such characters.
MCAlphabet == {"a", ",", " ", "[", "]"}
MCBase == [k \in 1..13 |-> <<"a">>]
MCLogged ==
  {[MCBase EXCEPT ![k] = v] : k \in 1..13,
                              v \in BoundedSeq(MCAlphabet, 2) \cup {Hits, <<"a">> \o Hits}}
  \cup {[MCBase EXCEPT ![12] = v] : v \in BoundedSeq(MCAlphabet, 3)}

VARIABLE script   \* the script this run of the model runs

vars == <<script, bmVars, rmVars, slVars, hmVars, dhVars, evVars, pcVars, icVars, plVars, osVars>>

Init ==
  /\ script \in {"backup", "replication", "slowlog", "health", "dbaas", "evict", "pods", "cleaner",
                 "parse", "failover"}
  \* The inputs of a script that does not run are fixed to one value.
  /\ IF script = "cleaner" THEN TRUE ELSE schedEnv = [unit |-> "days", count |-> <<"1">>]
  /\ IF script = "cleaner" THEN TRUE ELSE esEnv = [host |-> "h", auth |-> [set |-> TRUE, text |-> <<"u", ":", "p">>]]
  /\ IF script = "parse" THEN TRUE ELSE plRec = MCBase
  /\ IF script = "evict" THEN TRUE ELSE clientEnv = [host |-> "h", user |-> "u", password |-> "p"]
  /\ IF script = "failover" THEN TRUE
     ELSE rows = <<ShardRow("1", "p", "b"), ShardRow("1", "r", "c"), ShardRow("0", "p", "a")>>
          /\ test = "primary"
  /\ BMInit /\ RMInit /\ SLInit /\ HMInit /\ DHInit /\ EvInit /\ PCInit /\ ICInit /\ SPInit
  /\ HInit

\* A step of the script that runs; the others' variables stay as they are.
Next ==
  /\ UNCHANGED script
  /\ \/ script = "backup" /\ BMNext /\ UNCHANGED <<rmVars, slVars, hmVars, dhVars, evVars, pcVars, icVars, plVars, osVars>>
     \/ script = "replication" /\ RMNext /\ UNCHANGED <<bmVars, slVars, hmVars, dhVars, evVars, pcVars, icVars, plVars, osVars>>
     \/ script = "slowlog" /\ SLNext /\ UNCHANGED <<bmVars, rmVars, hmVars, dhVars, evVars, pcVars, icVars, plVars, osVars>>
     \/ script = "health" /\ HMNext /\ UNCHANGED <<bmVars, rmVars, slVars, dhVars, evVars, pcVars, icVars, plVars, osVars>>
     \/ script = "dbaas" /\ DHNext /\ UNCHANGED <<bmVars, rmVars, slVars, hmVars, evVars, pcVars, icVars, plVars, osVars>>
     \/ script = "evict" /\ EvNext /\ UNCHANGED <<bmVars, rmVars, slVars, hmVars, dhVars, pcVars, icVars, plVars, osVars>>
     \/ script = "pods" /\ PCNext /\ UNCHANGED <<bmVars, rmVars, slVars, hmVars, dhVars, evVars, icVars, plVars, osVars>>
     \/ script = "cleaner" /\ ICNext
        /\ UNCHANGED <<bmVars, rmVars, slVars, hmVars, dhVars, evVars, pcVars, plVars, osVars>>
     \/ script = "parse" /\ SPNext
        /\ UNCHANGED <<bmVars, rmVars, slVars, hmVars, dhVars, evVars, pcVars, icVars, osVars>>
     \/ script = "failover" /\ HNext
        /\ UNCHANGED <<bmVars, rmVars, slVars, hmVars, dhVars, evVars, pcVars, icVars, plVars>>

\* Only the pods checker is checked for liveness, so only it is assumed fair.
Spec == Init /\ [][Next]_vars /\ PCFairness

=============================================================================
