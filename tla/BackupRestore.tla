---------------------------- MODULE BackupRestore ----------------------------
(***************************************************************************)
(* One backup and one restore of its folder, as the backup daemon runs the *)
(* two scripts: backup.py writes the manifest and takes the snapshot, the  *)
(* cluster changes meanwhile (indices and templates created or deleted by  *)
(* its users), then restore.py runs with the arguments of the restore      *)
(* request.  The arguments are chosen in Init: a granular backup is        *)
(* restored granularly (with -d), a full one fully, as the script's folder *)
(* check demands.                                                          *)
(***************************************************************************)
EXTENDS Restore

CONSTANTS
  Source,          \* the cluster when the backup runs
  BackupChoices,   \* the -d argument of the backup: sequences of tenants, or NoDbs
  RestoreChoices,  \* the -d argument of a granular restore
  Replacements,    \* the replacement prefixes of -m/--dbmap
  DriftIndices,    \* indices the cluster's users may create before the restore
  DriftTemplates,  \* templates they may create: [kind, name, doc]
  MaxDrift         \* bound on the number of such changes

VARIABLES
  backupDbs,       \* the -d argument of the backup
  drift,           \* changes made since the backup
  before,          \* the cluster when the restore started (history)
  usersDuring,     \* indices users created while the restore ran (history)
  raced,           \* of those, the targets of a restore request created after
                   \* its close request was sent (history)
  listed           \* what list_instances_in_vault.py printed for the folder

vars == <<restoreVars, backupDbs, drift, before, usersDuring, raced, listed>>
envVars == <<backupDbs, drift, before, usersDuring, raced, listed>>

NoManifest == [databases |-> NoFile, indices |-> NoFile, aliases |-> NoFile,
               templates |-> NoFile, legacy |-> NoFile, components |-> NoFile]


\* -m/--dbmap: a partial map of the requested tenants to distinct replacements.
DbMaps(ds) ==
  UNION {{m \in [D -> Replacements] : \A x, y \in D : x # y => m[x] # m[y]} :
         D \in SUBSET Range(ds)}

Init ==
  /\ cluster = Source
  /\ manifest = NoManifest
  /\ snapshot = NoSnapshot
  /\ backupDbs \in BackupChoices
  /\ dbs \in IF backupDbs = NoDbs THEN {NoDbs} ELSE RestoreChoices
  /\ renames \in IF dbs = NoDbs THEN {<<>>} ELSE DbMaps(dbs)
  /\ clean \in BOOLEAN
  /\ pc = "backup"
  /\ calls = <<>>
  /\ err = "none"
  /\ drift = 0
  /\ before = Source
  /\ usersDuring = {} /\ raced = {}
  /\ listed = [kind |-> "none", names |-> {}]

(***************************************************************************)
(* Backup.granular_backup / Backup.full_backup.                            *)
(***************************************************************************)
RunBackup ==
  /\ pc = "backup"
  /\ LET out == IF backupDbs = NoDbs THEN full_backup(cluster)
                ELSE granular_backup(cluster, backupDbs)
     IN /\ manifest' = out.manifest
        /\ snapshot' = out.snapshot
  /\ pc' = "drift"
  /\ UNCHANGED <<cluster, dbs, renames, clean, calls, err, envVars>>

(***************************************************************************)
(* The cluster's users between the backup and the restore.  Indices may    *)
(* also be created while restore.py runs, between any two of its requests *)
(* (the script takes no lock): in particular after restore_indices closed *)
(* the targets and before curator's restore request (lines 141-150).       *)
(***************************************************************************)
\* The restore request that is next to be sent, its close already sent.
PendingRestore == calls # <<>> /\ Head(calls).op = "restore"

PendingTargets ==
  {RestoreTarget(i, Head(calls).prefix, Head(calls).repl) : i \in Head(calls).names}

CreateIndex(n) ==
  /\ pc # "backup" /\ ~RestoreFinished /\ drift < MaxDrift
  /\ n \notin DOMAIN cluster.indices
  /\ cluster' = [cluster EXCEPT !.indices =
                   Put(@, n, [open |-> TRUE, data |-> n, aliases |-> {}])]
  /\ drift' = drift + 1
  /\ usersDuring' = IF pc = "drift" THEN usersDuring ELSE usersDuring \cup {n}
  /\ raced' = IF PendingRestore /\ n \in PendingTargets THEN raced \cup {n} ELSE raced
  /\ UNCHANGED <<manifest, snapshot, dbs, renames, clean, pc, calls, err, backupDbs, before,
                 listed>>

DeleteIndex(n) ==
  /\ pc = "drift" /\ drift < MaxDrift
  /\ n \in DOMAIN cluster.indices /\ ~IsSystem(n)
  /\ cluster' = [cluster EXCEPT !.indices = Drop(@, {n})]
  /\ drift' = drift + 1
  /\ UNCHANGED <<manifest, snapshot, dbs, renames, clean, pc, calls, err, backupDbs, before,
                 usersDuring, raced, listed>>

CreateTemplate(t) ==
  /\ pc = "drift" /\ drift < MaxDrift
  /\ cluster' = CASE t.kind = "index"     -> [cluster EXCEPT !.itpl = Put(@, t.name, t.doc)]
                  [] t.kind = "component" -> [cluster EXCEPT !.ctpl = Put(@, t.name, t.doc)]
                  [] t.kind = "legacy"    -> [cluster EXCEPT !.ltpl = Put(@, t.name, t.doc)]
  /\ drift' = drift + 1
  /\ UNCHANGED <<manifest, snapshot, dbs, renames, clean, pc, calls, err, backupDbs, before,
                 usersDuring, raced, listed>>

(***************************************************************************)
(* restore.py's main: granular_restore with -d, else full_restore.         *)
(***************************************************************************)
StartRestore ==
  /\ pc = "drift"
  /\ pc' = IF dbs = NoDbs THEN "clean" ELSE "validate"
  /\ before' = cluster
  /\ UNCHANGED <<cluster, manifest, snapshot, dbs, renames, clean, calls, err, backupDbs, drift,
                 usersDuring, raced, listed>>

(***************************************************************************)
(* list_instances_in_vault.py on the folder, run by the daemon at any time *)
(* after the backup (once here: a second run prints the same).  It prints  *)
(* databases.txt when the folder has one; otherwise, with a client of its  *)
(* own, the indices of the snapshots named extract_snapshot_name(folder),  *)
(* of which the repository holds the folder's one or none.  The snapshot   *)
(* listing is a request, so it may fail and end the script.                *)
(***************************************************************************)
ListInstances ==
  /\ pc # "backup" /\ listed.kind = "none"
  /\ listed' \in
       IF manifest.databases # NoFile
       THEN {[kind |-> "tenants", names |-> Range(manifest.databases)]}
       ELSE {[kind |-> "indices",
              names |-> IF snapshot = NoSnapshot THEN {} ELSE DOMAIN snapshot],
             [kind |-> "fault", names |-> {}]}
  /\ UNCHANGED <<restoreVars, backupDbs, drift, before, usersDuring, raced>>

Next ==
  \/ RunBackup
  \/ \E n \in DriftIndices : CreateIndex(n)
  \/ \E n \in DOMAIN cluster.indices : DeleteIndex(n)
  \/ \E t \in DriftTemplates : CreateTemplate(t)
  \/ StartRestore
  \/ ListInstances
  \/ RestoreStep /\ UNCHANGED envVars

Spec == Init /\ [][Next]_vars

-----------------------------------------------------------------------------
(***************************************************************************)
(* Reference definitions of the design (spec.md section 2 and 4.1), used   *)
(* only by the properties: rename replaces the leading prefix.             *)
(***************************************************************************)
SpecRename(s, p, r) == IF StartsWith(s, p) THEN r \o SubSeq(s, Len(p) + 1, Len(s)) ELSE s

SpecRenameSet(S, p, r) == {SpecRename(a, p, r) : a \in S}

\* The document a renamed tenant's template should be restored with.
ExpectedDoc(doc, p, r, legacy) ==
  [doc EXCEPT
     !.patterns   = [i \in DOMAIN @ |-> SpecRename(@[i], p, r)],
     !.composedOf = [i \in DOMAIN @ |-> SpecRename(@[i], p, r)],
     !.template   = IF @ = NoSection THEN @
                    ELSE [aliases |-> SpecRenameSet(@.aliases, p, r)],
     !.aliases    = IF legacy THEN SpecRenameSet(AliasesOf(doc), p, r) ELSE @]

\* Where the object n of the backup should land for tenant d.
Dest(n, d) == IF Renamed(d) THEN SpecRename(n, d, renames[d]) ELSE n
DestDoc(doc, d, legacy) ==
  IF Renamed(d) THEN ExpectedDoc(doc, d, renames[d], legacy) ELSE doc

FileSet(f)  == IF f = NoFile THEN {} ELSE f
FileMap(f)  == IF f = NoFile THEN <<>> ELSE f

\* The requested tenants an object of the backup belongs to.
Owners(n) == IF dbs = NoDbs THEN {<<>>}
             ELSE {dbs[k] : k \in {k \in DOMAIN dbs : StartsWith(n, dbs[k])}}

\* Restored(f, n, d, doc, legacy): f holds the template n of tenant d as the design demands.
Restored(f, n, d, doc, legacy) ==
  /\ Dest(n, d) \in DOMAIN f
  /\ f[Dest(n, d)] = DestDoc(doc, d, legacy)

Done == pc = "done" /\ calls = <<>>

\* Names the restore may change: under a destination prefix, or any
\* non-system name in a full restore.
Touched(n, isIndex) ==
  IF dbs = NoDbs THEN ~(isIndex /\ IsSystem(n))
  ELSE \E k \in DOMAIN dbs : StartsWith(n, DestPrefix(dbs[k]))

Same(f, g, n) == /\ (n \in DOMAIN f) = (n \in DOMAIN g)
                 /\ n \in DOMAIN f => f[n] = g[n]

Untouched(f, g, isIndex) ==
  \A n \in DOMAIN f \cup DOMAIN g : ~Touched(n, isIndex) => Same(f, g, n)

-----------------------------------------------------------------------------
(***************************************************************************)
(* Properties.                                                             *)
(***************************************************************************)

\* The shape of the state.
TypeOK ==
  /\ pc \in {"backup", "drift", "validate", "clean", "components", "index_templates",
             "legacy", "indices", "full_indices", "aliases", "done", "failed"}
  /\ err \in {"none", "invalid_dbs", "fault", "not_found", "rejected",
              "missing_in_snapshot", "open_index_exists"}
  /\ clean \in BOOLEAN
  /\ drift \in 0..MaxDrift
  /\ \A i \in DOMAIN cluster.indices : cluster.indices[i].open \in BOOLEAN
  /\ \A j \in DOMAIN calls : calls[j].op \in
       {"put_component", "put_index_template", "put_legacy", "delete_index_template",
        "delete_component", "delete_legacy", "delete_indices", "close", "restore",
        "put_alias"}

(***************************************************************************)
(* Every index of the backup that belongs to a requested tenant is, after  *)
(* a successful restore, open under its destination name and holds the     *)
(* snapshot's documents (granular_restore / restore_indices close the      *)
(* destination names and restore with the rename pattern); a full restore  *)
(* brings back every index of the snapshot with its aliases.               *)
(***************************************************************************)
IndicesRestored ==
  Done =>
    \A i \in SnapshotIndices : \A d \in Owners(i) :
       /\ Dest(i, d) \in DOMAIN cluster.indices
       /\ cluster.indices[Dest(i, d)].open
       /\ cluster.indices[Dest(i, d)].data = snapshot[i].data
       /\ dbs = NoDbs => cluster.indices[i].aliases = snapshot[i].aliases

(***************************************************************************)
(* Every template of the three backed-up collections that belongs to a     *)
(* requested tenant is, after a successful restore, in the cluster under   *)
(* its destination name, with its index patterns, composed_of references   *)
(* and alias names renamed by the leading prefix and nothing else          *)
(* (restore_templates with rename_template); tenant_template is skipped.  *)
(***************************************************************************)
TemplatesRestored ==
  Done =>
    /\ \A e \in FileSet(manifest.templates) : \A d \in Owners(e.name) :
         Restored(cluster.itpl, e.name, d, e.doc, FALSE)
    /\ \A e \in FileSet(manifest.components) : \A d \in Owners(e.name) :
         Restored(cluster.ctpl, e.name, d, e.doc, FALSE)
    /\ \A n \in DOMAIN FileMap(manifest.legacy) \ {TenantTemplate} :
         \A d \in Owners(n) : Restored(cluster.ltpl, n, d, manifest.legacy[n], TRUE)

(***************************************************************************)
(* After a successful granular restore every alias of aliases.json of a    *)
(* requested tenant's index is set, renamed, on the index's destination    *)
(* (the put_alias loop of granular_restore).                               *)
(***************************************************************************)
AliasesRestored ==
  (Done /\ dbs # NoDbs) =>
    \A i \in DOMAIN FileMap(manifest.aliases) : \A d \in Owners(i) :
       /\ Dest(i, d) \in DOMAIN cluster.indices
       /\ \A a \in manifest.aliases[i] :
            SpecRename(a, d, IF Renamed(d) THEN renames[d] ELSE d)
              \in cluster.indices[Dest(i, d)].aliases

(***************************************************************************)
(* The script only aborts for a request that fails on the cluster's side, *)
(* for a tenant list the backup does not have, or because a user created  *)
(* one of the restore's target indices after restore_indices closed them   *)
(* and before the restore request; no request it sends is refused because *)
(* of the script's own doing (an index it left open, a template body the  *)
(* cluster rejects, an alias on a missing index).                          *)
(***************************************************************************)
NoSelfInflictedAbort ==
  pc = "failed" =>
    \/ err \in {"fault", "invalid_dbs"}
    \/ err = "open_index_exists" /\ raced # {}

(***************************************************************************)
(* A restore, successful or not, changes no index and no template outside  *)
(* the destination prefixes of the requested tenants (a full restore: no   *)
(* system index), compared with the cluster when it started; indices the  *)
(* cluster's users created meanwhile are theirs, not the restore's doing.  *)
(***************************************************************************)
NoCollateralRestore ==
  pc \notin {"backup", "drift"} =>
    /\ Untouched(Drop(before.indices, usersDuring), Drop(cluster.indices, usersDuring), TRUE)
    /\ Untouched(before.itpl, cluster.itpl, FALSE)
    /\ Untouched(before.ctpl, cluster.ctpl, FALSE)
    /\ Untouched(before.ltpl, cluster.ltpl, FALSE)


(***************************************************************************)
(* A granular backup snapshots only indices whose name starts with one of  *)
(* the requested tenants (spec.md, granular backup; the filter_by_regex    *)
(* call of granular_backup).                                               *)
(***************************************************************************)
BackupWithinTenants ==
  (snapshot # NoSnapshot /\ backupDbs # NoDbs) =>
    \A i \in DOMAIN snapshot : \E k \in DOMAIN backupDbs : StartsWith(i, backupDbs[k])

(***************************************************************************)
(* After a successful clean granular restore, the templates under the      *)
(* destination prefixes are exactly the ones restored from the backup:     *)
(* clean_restore removed every earlier one in each of the three template   *)
(* namespaces (spec.md, restore step 2).                                   *)
(***************************************************************************)
DestNames(entries) ==
  UNION {{Dest(e.name, d) : d \in Owners(e.name)} : e \in entries}

LegacyEntries == {[name |-> n, doc |-> manifest.legacy[n]] :
                    n \in DOMAIN FileMap(manifest.legacy)}

OnlyBackedUp(f, entries) ==
  \A n \in DOMAIN f : Touched(n, FALSE) => n \in DestNames(entries)

CleanLeavesOnlyBackup ==
  (Done /\ clean /\ dbs # NoDbs) =>
    /\ OnlyBackedUp(cluster.itpl, FileSet(manifest.templates))
    /\ OnlyBackedUp(cluster.ctpl, FileSet(manifest.components))
    /\ OnlyBackedUp(cluster.ltpl, LegacyEntries)

=============================================================================
