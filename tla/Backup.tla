------------------------------- MODULE Backup -------------------------------
(***************************************************************************)
(* The backup script (backup.py): what a full or a granular backup writes  *)
(* to the storage folder (the manifest) and which indices its snapshot     *)
(* holds, as functions of the cluster it reads.                            *)
(*                                                                         *)
(* The manifest is a record of the six files of the folder, each NoFile    *)
(* when the script does not write it:                                      *)
(*   databases  : databases.txt, the requested tenants (a sequence)        *)
(*   indices    : indices.txt, a set of index names                        *)
(*   aliases    : aliases.json, index name -> set of alias names           *)
(*   templates  : templates.json, a set of [name, doc] entries             *)
(*   legacy     : obsolete_templates.json, template name -> doc            *)
(*   components : component_templates.json, a set of [name, doc] entries   *)
(* The snapshot is index name -> [data, aliases], or NoSnapshot.           *)
(***************************************************************************)
EXTENDS Cluster

CONSTANTS
  NoDbs,          \* no -d/--dbs argument: a full backup or restore
  NoFile,         \* a file of the manifest that was not written
  NoSnapshot,     \* no snapshot was taken
  TenantTemplate  \* the reserved legacy template name "tenant_template"

\* any(name.startswith(prefix) for prefix in self._dbs), or no filter at all.
Kept(name, dbs) == dbs = NoDbs \/ \E k \in DOMAIN dbs : StartsWith(name, dbs[k])

(***************************************************************************)
(* curator's IndexList.filter_by_regex(kind="prefix", value) searches the  *)
(* regular expression ^{value}.*$ in every index name.  With the value     *)
(* "|".join(dbs) the anchor ^ binds to the first alternative only, so the  *)
(* first tenant must start the name and every other tenant need only occur *)
(* somewhere in it.                                                        *)
(***************************************************************************)
CuratorPrefixFilter(names, dbs) ==
  {n \in names : \/ StartsWith(n, dbs[1])
                 \/ \E k \in 2..Len(dbs) : dbs[k] \in SubSeqs(n)}

\* filter_by_regex(kind="prefix", value="\\.", exclude=True)
NonSystem(names) == {n \in names : ~IsSystem(n)}

Written(content, nonEmpty) == IF nonEmpty THEN content ELSE NoFile

Entries(f, dbs) == {[name |-> n, doc |-> f[n]] : n \in {m \in DOMAIN f : Kept(m, dbs)}}

(***************************************************************************)
(* backup_templates: the three template collections, filtered to the       *)
(* tenants in a granular backup, each written only when non-empty.  The    *)
(* reserved legacy template is removed after the emptiness test, so a      *)
(* collection holding only it is written as an empty map.                  *)
(***************************************************************************)
backup_templates(c, dbs) ==
  LET legacy == Drop(c.ltpl, {n \in DOMAIN c.ltpl : ~Kept(n, dbs)}) IN
  [templates  |-> Written(Entries(c.itpl, dbs), Entries(c.itpl, dbs) # {}),
   legacy     |-> Written(Drop(legacy, {TenantTemplate}), DOMAIN legacy # {}),
   components |-> Written(Entries(c.ctpl, dbs), Entries(c.ctpl, dbs) # {})]

SnapshotOf(c, names) == [i \in names |-> [data |-> c.indices[i].data,
                                          aliases |-> c.indices[i].aliases]]

(***************************************************************************)
(* granular_backup: with no matching index only databases.txt is written   *)
(* (after the templates) and no snapshot is taken; otherwise aliases.json  *)
(* (the alias map of every selected index, written when non-empty),        *)
(* indices.txt, databases.txt and a snapshot of the selected indices.      *)
(***************************************************************************)
GranularIndices(c, dbs) == CuratorPrefixFilter(DOMAIN c.indices, dbs)

granular_backup(c, dbs) ==
  LET t   == backup_templates(c, dbs)
      sel == GranularIndices(c, dbs)
  IN [manifest |-> [databases  |-> dbs,
                    indices    |-> Written(sel, sel # {}),
                    aliases    |-> Written([i \in sel |-> c.indices[i].aliases], sel # {}),
                    templates  |-> t.templates,
                    legacy     |-> t.legacy,
                    components |-> t.components],
      snapshot |-> IF sel = {} THEN NoSnapshot ELSE SnapshotOf(c, sel)]

(***************************************************************************)
(* full_backup: all templates, and a snapshot of every non-system index.   *)
(***************************************************************************)
full_backup(c) ==
  LET t == backup_templates(c, NoDbs) IN
  [manifest |-> [databases |-> NoFile, indices |-> NoFile, aliases |-> NoFile,
                 templates |-> t.templates, legacy |-> t.legacy,
                 components |-> t.components],
   snapshot |-> SnapshotOf(c, NonSystem(DOMAIN c.indices))]

=============================================================================
