--------------------------- MODULE OpenSearchUtils ---------------------------
(***************************************************************************)
(* The shard helpers of the robot library OpenSearchUtils.py, used by the *)
(* high-availability tests: one picks the shard copy to corrupt from the  *)
(* _cat/shards rows of an index, the cluster fails that copy over, and    *)
(* the test polls the rows until its oracle says the failover happened.   *)
(*                                                                         *)
(* A row is [shard, prirep, node]; the rows come in the order the cluster *)
(* lists them, which the helpers depend on.  What the cluster does with a *)
(* corrupted copy is its own choice: a corrupted primary is replaced by   *)
(* any of the shard's replicas (the shard goes red without one), and a    *)
(* corrupted replica is dropped and allocated again on a node without a   *)
(* copy of the shard, or left unassigned (node "none").                    *)
(***************************************************************************)
EXTENDS Integers, Sequences, SequencesExt, FiniteSets

CONSTANTS
  ShardTables,   \* the _cat/shards row lists the index may have
  Nodes          \* the cluster's nodes

VARIABLES
  test,          \* "primary" or "replica": the copy the test corrupts
  rows,          \* the index's rows as the cluster lists them now
  picked,        \* the description of the copy the test corrupted
  firstRows,     \* the rows as the test first listed them (history)
  fpc,           \* "pick", "corrupted", "failed_over" or "done"
  verdict        \* the oracle's answer at the poll

osVars == <<test, rows, firstRows, picked, fpc, verdict>>

NoCopy == [found |-> FALSE, shard |-> "none", node |-> "none", replica_service |-> "none"]

(***************************************************************************)
(* get_primary_shard_description_to_corrupt, lines 30-42: the first       *)
(* primary row, with replica_service the node of the LAST replica row of  *)
(* its shard; a primary without replicas has no replica_service, which   *)
(* the test's lookup of it raises on ("missing").                          *)
(***************************************************************************)
\* Mutant: the replica loop does not look at prirep.
get_primary_shard_description_to_corrupt_any(info) ==
  LET i == SelectInSeq(info, LAMBDA r : r.prirep = "p")
      j == SelectLastInSeq(info, LAMBDA r : r.shard = info[i].shard)
  IN IF i = 0 THEN NoCopy
     ELSE [found |-> TRUE, shard |-> info[i].shard, node |-> info[i].node,
           replica_service |-> IF j = 0 THEN "missing" ELSE info[j].node]

get_primary_shard_description_to_corrupt(info) ==
  LET i == SelectInSeq(info, LAMBDA r : r.prirep = "p")
      j == SelectLastInSeq(info, LAMBDA r : r.shard = info[i].shard /\ r.prirep = "r")
  IN IF i = 0 THEN NoCopy
     ELSE [found |-> TRUE, shard |-> info[i].shard, node |-> info[i].node,
           replica_service |-> IF j = 0 THEN "missing" ELSE info[j].node]

\* get_replica_shard_description_to_corrupt, lines 44-48: the first replica row.
get_replica_shard_description_to_corrupt(info) ==
  LET i == SelectInSeq(info, LAMBDA r : r.prirep = "r")
  IN IF i = 0 THEN NoCopy
     ELSE [found |-> TRUE, shard |-> info[i].shard, node |-> info[i].node,
           replica_service |-> "none"]

\* replica_shard_become_primary, lines 50-62.
replica_shard_become_primary(info, shard, expected) ==
  \E i \in DOMAIN info : info[i] = [shard |-> shard, prirep |-> "p", node |-> expected]

\* is_replica_shard_relocated, lines 64-76: a replica row of the shard on
\* another node, an unassigned one included.
is_replica_shard_relocated(info, shard, expected) ==
  \E i \in DOMAIN info : info[i].shard = shard /\ info[i].prirep = "r" /\ info[i].node # expected

\* The nodes that hold a copy of the shard.
CopyNodes(info, shard) == {info[i].node : i \in {i \in DOMAIN info : info[i].shard = shard}}

\* The replica rows of a shard.
ReplicaRows(info, shard) == {i \in DOMAIN info : info[i].shard = shard /\ info[i].prirep = "r"}

HInit ==
  /\ test \in {"primary", "replica"} /\ rows \in ShardTables /\ firstRows = rows
  /\ picked = NoCopy /\ fpc = "pick" /\ verdict = FALSE

\* The test picks the copy to corrupt and corrupts it; the lookup of a
\* missing replica_service fails the test here.
HPick ==
  /\ fpc = "pick"
  /\ picked' = IF test = "primary" THEN get_primary_shard_description_to_corrupt(rows)
               ELSE get_replica_shard_description_to_corrupt(rows)
  /\ fpc' = IF picked'.found /\ picked'.replica_service # "missing" THEN "corrupted" ELSE "done"
  /\ UNCHANGED <<test, rows, firstRows, verdict>>

(***************************************************************************)
(* The cluster fails the corrupted copy over.  A primary: the row of one  *)
(* of the shard's replicas becomes the primary row, and the failed copy's *)
(* row goes.  A replica: it is allocated again on a node without a copy  *)
(* of the shard, or stays unassigned.                                      *)
(***************************************************************************)
HFailOver ==
  /\ fpc = "corrupted"
  /\ LET k == SelectInSeq(rows, LAMBDA r : r.shard = picked.shard /\ r.node = picked.node)
     IN \/ /\ test = "primary"
           /\ \E j \in ReplicaRows(rows, picked.shard) :
                rows' = RemoveAt([rows EXCEPT ![j].prirep = "p"], k)
        \/ /\ test = "replica"
           /\ \E n \in (Nodes \ CopyNodes(rows, picked.shard)) \cup {"none"} :
                rows' = [rows EXCEPT ![k].node = n]
  /\ fpc' = "failed_over"
  /\ UNCHANGED <<test, firstRows, picked, verdict>>

\* The test polls the rows and asks its oracle.
HCheck ==
  /\ fpc = "failed_over"
  /\ verdict' = IF test = "primary"
                THEN replica_shard_become_primary(rows, picked.shard, picked.replica_service)
                ELSE is_replica_shard_relocated(rows, picked.shard, picked.node)
  /\ fpc' = "done"
  /\ UNCHANGED <<test, rows, firstRows, picked>>

HNext == HPick \/ HFailOver \/ HCheck

-----------------------------------------------------------------------------
(***************************************************************************)
(* The primary-failover test's oracle sees the failover it waits for: when *)
(* the corrupted primary's shard had a single replica, the poll after the *)
(* failover finds the primary on the node replica_service names.  (With   *)
(* two replicas the cluster may promote the other one, and the test       *)
(* waits in vain.)                                                         *)
(***************************************************************************)
PromotionSeen ==
  (test = "primary" /\ fpc = "done" /\ picked.found /\ picked.replica_service # "missing"
     /\ Cardinality(ReplicaRows(firstRows, picked.shard)) = 1) => verdict

=============================================================================
