------------------------------- MODULE Restore -------------------------------
(***************************************************************************)
(* The restore script (class Restore of restore.py): granular_restore,     *)
(* full_restore, clean_restore, restore_templates and restore_indices.     *)
(*                                                                         *)
(* The script runs one code block after the other.  Each block first       *)
(* computes the cluster requests it will send (the comprehensions of the   *)
(* code, including the in-place renaming of template documents), which     *)
(* the model stores in calls; Call then sends them one at a time, so that  *)
(* a request that fails leaves the cluster with the effect of the earlier  *)
(* ones.  pc names the next block to run.  A failed request raises out of  *)
(* the script, except a 404 inside clean_restore's try block, which skips  *)
(* the rest of that block.                                                 *)
(***************************************************************************)
EXTENDS Backup

VARIABLES
  cluster,    \* the cluster the script restores into
  manifest,   \* the files of the storage folder (read only)
  snapshot,   \* the snapshot of the folder (read only)
  dbs,        \* self._dbs: a sequence of tenants, or NoDbs
  renames,    \* self._renames: tenant -> replacement prefix
  clean,      \* self._clean_recovery
  pc,         \* the next block of the script
  calls,      \* the requests the current block has still to send
  err         \* the error the script raised, or "none"

restoreVars == <<cluster, manifest, snapshot, dbs, renames, clean, pc, calls, err>>

Renamed(p) == p \in DOMAIN renames

\* The tenants in the order of self._dbs.
DbsInOrder == IF dbs = NoDbs THEN <<>> ELSE dbs

Concat(seqs) == FoldLeft(\o, <<>>, seqs)

\* A deterministic order for the members of a set (the code's list order).
Listed(S) == SetToSeq(S)

(***************************************************************************)
(* Requests.  grp tags the three deletes of one clean_restore try block.   *)
(***************************************************************************)
PutReq(op, name, doc)  == [op |-> op, grp |-> 0, name |-> name, doc |-> doc]
DeleteTplReq(op, prefix, all, grp) ==
  [op |-> op, grp |-> grp, prefix |-> prefix, all |-> all]
DeleteIndicesReq(prefixes, all) ==
  [op |-> "delete_indices", grp |-> 0, prefixes |-> prefixes, all |-> all]
CloseReq(names) == [op |-> "close", grp |-> 0, names |-> names]
RestoreReq(names, prefix, repl, withAliases) ==
  [op |-> "restore", grp |-> 0, names |-> names, prefix |-> prefix,
   repl |-> repl, withAliases |-> withAliases]
AliasReq(index, name) == [op |-> "put_alias", grp |-> 0, index |-> index, name |-> name]

-----------------------------------------------------------------------------
(***************************************************************************)
(* granular_restore, lines 59-68: every requested tenant must be listed in *)
(* a non-empty databases.txt; no check when the file is absent or empty.   *)
(***************************************************************************)
StoredDatabases == IF manifest.databases = NoFile THEN <<>> ELSE manifest.databases

DbsValid ==
  \/ StoredDatabases = <<>>
  \/ \A k \in DOMAIN dbs : \E j \in DOMAIN StoredDatabases : dbs[k] = StoredDatabases[j]

ValidateDatabases ==
  /\ pc = "validate" /\ calls = <<>>
  /\ IF DbsValid
     THEN pc' = "clean" /\ UNCHANGED err
     ELSE pc' = "failed" /\ err' = "invalid_dbs"
  /\ UNCHANGED <<cluster, manifest, snapshot, dbs, renames, clean, calls>>

(***************************************************************************)
(* clean_restore: with -clean, a granular restore deletes, for each        *)
(* destination prefix p (the replacement of a renamed tenant, else the     *)
(* tenant), the index, component and legacy templates p* in one try block  *)
(* that ignores NotFoundError, then the indices p1*,p2*,...,-.* ; a full   *)
(* restore deletes every template and every non-system index.              *)
(***************************************************************************)
\* Mutant: the clean pattern ignores -m and always uses the tenant itself.
DestPrefix_ignore_dbmap(d) == d

DestPrefix(d) == IF Renamed(d) THEN renames[d] ELSE d

CleanCalls ==
  IF dbs = NoDbs
  THEN << DeleteTplReq("delete_index_template", <<>>, TRUE, 0),
          DeleteTplReq("delete_component", <<>>, TRUE, 0),
          DeleteTplReq("delete_legacy", <<>>, TRUE, 0),
          DeleteIndicesReq({}, TRUE) >>
  ELSE Concat([k \in DOMAIN dbs |->
                 << DeleteTplReq("delete_index_template", DestPrefix(dbs[k]), FALSE, k),
                    DeleteTplReq("delete_component", DestPrefix(dbs[k]), FALSE, k),
                    DeleteTplReq("delete_legacy", DestPrefix(dbs[k]), FALSE, k) >>])
       \o << DeleteIndicesReq({DestPrefix(dbs[k]) : k \in DOMAIN dbs}, FALSE) >>

clean_restore ==
  /\ pc = "clean" /\ calls = <<>>
  /\ calls' = IF clean THEN CleanCalls ELSE <<>>
  /\ pc' = "components"
  /\ UNCHANGED <<cluster, manifest, snapshot, dbs, renames, clean, err>>

-----------------------------------------------------------------------------
(***************************************************************************)
(* restore_templates.  In a granular restore the entries of a file are     *)
(* first partitioned by tenant (by their names as read from the file);     *)
(* then every partition of a renamed tenant goes through rename_templates, *)
(* which renames the entry objects in place.  An entry that starts with    *)
(* two requested tenants sits in both partitions as the same object, so    *)
(* the document sent for it is the one left after every rename in the     *)
(* order of self._dbs (InPlace), and it is sent once per partition.        *)
(***************************************************************************)
InPlace(entry, origName, legacy) ==
  LET Ren(x, d) == IF legacy THEN rename_template(x, d, renames[d])
                   ELSE RenameEntry(x, d, renames[d])
      step(acc, d) == IF Renamed(d) /\ StartsWith(origName, d)
                      THEN Ren(acc, d) ELSE acc
  IN FoldLeft(step, entry, DbsInOrder)

Partition(entries, d) == {e \in entries : StartsWith(e.name, d)}

\* The entries of templates.json or component_templates.json to send.
TemplateEntriesSent(entries) ==
  IF dbs = NoDbs THEN Listed(entries)
  ELSE Concat([k \in DOMAIN dbs |->
         LET part == Listed(Partition(entries, dbs[k])) IN
         [j \in DOMAIN part |-> InPlace(part[j], part[j].name, FALSE)]])

PutTemplateCalls(op, file) ==
  IF file = NoFile THEN <<>>
  ELSE LET sent == TemplateEntriesSent(file) IN
       [j \in DOMAIN sent |-> PutReq(op, sent[j].name, sent[j].doc)]

restore_component_templates ==
  /\ pc = "components" /\ calls = <<>>
  /\ calls' = PutTemplateCalls("put_component", manifest.components)
  /\ pc' = "index_templates"
  /\ UNCHANGED <<cluster, manifest, snapshot, dbs, renames, clean, err>>

restore_index_templates ==
  /\ pc = "index_templates" /\ calls = <<>>
  /\ calls' = PutTemplateCalls("put_index_template", manifest.templates)
  /\ pc' = "legacy"
  /\ UNCHANGED <<cluster, manifest, snapshot, dbs, renames, clean, err>>

(***************************************************************************)
(* Obsolete (legacy) templates: the name of a renamed tenant's template is *)
(* a fresh renamed string, but its body is renamed in place and shared     *)
(* between partitions.  "tenant_template" is skipped by its sent name.     *)
(***************************************************************************)
LegacySent ==
  LET f == manifest.legacy IN
  IF dbs = NoDbs
  THEN [j \in DOMAIN Listed(DOMAIN f) |-> <<Listed(DOMAIN f)[j], f[Listed(DOMAIN f)[j]]>>]
  ELSE Concat([k \in DOMAIN dbs |->
         LET d == dbs[k]
             part == Listed({n \in DOMAIN f : StartsWith(n, d)})
         IN [j \in DOMAIN part |->
               << IF Renamed(d) THEN rename(part[j], d, renames[d]) ELSE part[j],
                  InPlace(f[part[j]], part[j], TRUE) >>]])

\* Mutant: legacy templates sent under an unknown request kind.
restore_legacy_templates_bad_op ==
  /\ pc = "legacy" /\ calls = <<>>
  /\ calls' = IF manifest.legacy = NoFile THEN <<>>
              ELSE LET sent == SelectSeq(LegacySent, LAMBDA x : x[1] # TenantTemplate)
                   IN [j \in DOMAIN sent |-> PutReq("put_template", sent[j][1], sent[j][2])]
  /\ pc' = IF dbs = NoDbs THEN "full_indices" ELSE "indices"
  /\ UNCHANGED <<cluster, manifest, snapshot, dbs, renames, clean, err>>

restore_legacy_templates ==
  /\ pc = "legacy" /\ calls = <<>>
  /\ calls' = IF manifest.legacy = NoFile THEN <<>>
              ELSE LET sent == SelectSeq(LegacySent, LAMBDA x : x[1] # TenantTemplate)
                   IN [j \in DOMAIN sent |-> PutReq("put_legacy", sent[j][1], sent[j][2])]
  /\ pc' = IF dbs = NoDbs THEN "full_indices" ELSE "indices"
  /\ UNCHANGED <<cluster, manifest, snapshot, dbs, renames, clean, err>>

-----------------------------------------------------------------------------
(***************************************************************************)
(* restore_indices: with a non-empty index list, close the indices the     *)
(* restore will write (their renamed names when a rename is asked for) and *)
(* restore the list with the rename pattern prefix + '(.+)' (.+ standing *)
(* for the code's dot-star) and replacement + '$1'.                    *)
(* With an empty (falsy) list the rename arguments are never set: every    *)
(* index of the snapshot is closed and curator restores the whole          *)
(* snapshot under its own names.                                           *)
(***************************************************************************)
SnapshotIndices == IF snapshot = NoSnapshot THEN {} ELSE DOMAIN snapshot

\* Mutant: the indices closed are the backed-up names, not the renamed ones.
restore_indices_close_source(indices, prefix, repl, withAliases) ==
  IF indices # {}
  THEN << CloseReq(indices),
          RestoreReq(indices, IF prefix # NoRename THEN prefix ELSE NoRename,
                     repl, withAliases) >>
  ELSE << CloseReq(SnapshotIndices),
          RestoreReq(SnapshotIndices, NoRename, NoRename, withAliases) >>

restore_indices(indices, prefix, repl, withAliases) ==
  IF indices # {}
  THEN IF prefix # NoRename
       THEN << CloseReq({rename(i, prefix, repl) : i \in indices}),
               RestoreReq(indices, prefix, repl, withAliases) >>
       ELSE << CloseReq(indices), RestoreReq(indices, NoRename, NoRename, withAliases) >>
  ELSE << CloseReq(SnapshotIndices),
          RestoreReq(SnapshotIndices, NoRename, NoRename, withAliases) >>

(***************************************************************************)
(* granular_restore, lines 73-95: the indices of each tenant are those of  *)
(* indices.txt that start with it, or the tenant's own name when the file  *)
(* is absent.  A folder with a databases.txt and no indices.txt has no     *)
(* indices or aliases to restore and the method returns.  Each renamed     *)
(* tenant is restored on its own, then all the others in one call, when    *)
(* there are any.                                                          *)
(***************************************************************************)
IndicesByDbs(d) ==
  IF manifest.indices = NoFile THEN {d}
  ELSE {i \in manifest.indices : StartsWith(i, d)}

\* Mutant: the not-renamed indices are taken from the first tenant only.
GranularIndexCalls_first_tenant ==
  LET renamedDbs == SelectSeq(dbs, Renamed)
      plain == IF Renamed(dbs[1]) THEN {} ELSE IndicesByDbs(dbs[1])
  IN Concat([k \in DOMAIN renamedDbs |->
              restore_indices(IndicesByDbs(renamedDbs[k]), renamedDbs[k],
                              renames[renamedDbs[k]], FALSE)])
     \o (IF plain # {} THEN restore_indices(plain, NoRename, NoRename, FALSE) ELSE <<>>)

GranularIndexCalls ==
  LET renamedDbs == SelectSeq(dbs, Renamed)
      plain == UNION {IndicesByDbs(dbs[k]) : k \in {k \in DOMAIN dbs : ~Renamed(dbs[k])}}
  IN Concat([k \in DOMAIN renamedDbs |->
              restore_indices(IndicesByDbs(renamedDbs[k]), renamedDbs[k],
                              renames[renamedDbs[k]], FALSE)])
     \o (IF plain # {} THEN restore_indices(plain, NoRename, NoRename, FALSE) ELSE <<>>)

granular_restore_indices ==
  /\ pc = "indices" /\ calls = <<>>
  /\ IF StoredDatabases # <<>> /\ manifest.indices = NoFile
     THEN pc' = "done" /\ calls' = <<>>
     ELSE pc' = "aliases" /\ calls' = GranularIndexCalls
  /\ UNCHANGED <<cluster, manifest, snapshot, dbs, renames, clean, err>>

(***************************************************************************)
(* granular_restore, lines 97-115: aliases.json partitioned by tenant; a   *)
(* renamed tenant's index and alias names are renamed; one put_alias per   *)
(* (index, alias) pair.                                                    *)
(***************************************************************************)
\* Mutant: aliases are put on the backed-up index name even when renamed.
AliasPairs_source_index(d) ==
  LET f == manifest.aliases
      idx == Listed({i \in DOMAIN f : StartsWith(i, d)})
  IN Concat([j \in DOMAIN idx |->
       LET i == idx[j]
           names == IF Renamed(d) THEN rename_index_aliases(f[i], d, renames[d]) ELSE f[i]
           ns == Listed(names)
       IN [m \in DOMAIN ns |-> AliasReq(i, ns[m])]])

AliasPairs(d) ==
  LET f == manifest.aliases
      idx == Listed({i \in DOMAIN f : StartsWith(i, d)})
  IN Concat([j \in DOMAIN idx |->
       LET i == idx[j]
           names == IF Renamed(d) THEN rename_index_aliases(f[i], d, renames[d]) ELSE f[i]
           index == IF Renamed(d) THEN rename(i, d, renames[d]) ELSE i
           ns == Listed(names)
       IN [m \in DOMAIN ns |-> AliasReq(index, ns[m])]])

granular_restore_aliases ==
  /\ pc = "aliases" /\ calls = <<>>
  /\ calls' = IF manifest.aliases = NoFile THEN <<>>
              ELSE Concat([k \in DOMAIN dbs |-> AliasPairs(dbs[k])])
  /\ pc' = "done"
  /\ UNCHANGED <<cluster, manifest, snapshot, dbs, renames, clean, err>>

(***************************************************************************)
(* full_restore, line 120: restore_indices(include_aliases=True).          *)
(***************************************************************************)
full_restore_indices ==
  /\ pc = "full_indices" /\ calls = <<>>
  /\ calls' = restore_indices({}, NoRename, NoRename, TRUE)
  /\ pc' = "done"
  /\ UNCHANGED <<cluster, manifest, snapshot, dbs, renames, clean, err>>

-----------------------------------------------------------------------------
(***************************************************************************)
(* Sending the next request.  The cluster answers with the result of the   *)
(* call, or with a transport error or a 5xx (a fault) that the client      *)
(* raises.  A 404 inside clean_restore's try block skips the block's       *)
(* remaining deletes; any other error propagates out of the script, which  *)
(* stops.                                                                  *)
(***************************************************************************)
Call ==
  /\ calls # <<>>
  /\ LET r == Head(calls) IN
     \E res \in {Apply(cluster, snapshot, r), Fail(cluster, "fault")} :
        \/ /\ res.ok
           /\ cluster' = res.cluster
           /\ calls' = Tail(calls)
           /\ UNCHANGED <<pc, err>>
        \/ /\ ~res.ok /\ res.err = "not_found" /\ r.grp # 0
           /\ calls' = SelectSeq(Tail(calls), LAMBDA q : q.grp # r.grp)
           /\ UNCHANGED <<cluster, pc, err>>
        \/ /\ ~res.ok /\ ~(res.err = "not_found" /\ r.grp # 0)
           /\ pc' = "failed" /\ err' = res.err /\ calls' = <<>>
           /\ UNCHANGED cluster
  /\ UNCHANGED <<manifest, snapshot, dbs, renames, clean>>

RestoreStep ==
  \/ ValidateDatabases
  \/ clean_restore
  \/ restore_component_templates
  \/ restore_index_templates
  \/ restore_legacy_templates
  \/ granular_restore_indices
  \/ granular_restore_aliases
  \/ full_restore_indices
  \/ Call

RestoreFinished == pc \in {"done", "failed"} /\ calls = <<>>

=============================================================================
