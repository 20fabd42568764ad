------------------------------- MODULE Cluster -------------------------------
(***************************************************************************)
(* The search cluster the backup and restore scripts talk to, at the       *)
(* interface the scripts use (the opensearch-py client and curator).  This *)
(* is the external collaborator, not code of the repository: its behaviour *)
(* is the documented behaviour of the cluster's REST API.                  *)
(*                                                                         *)
(* A cluster is a record of four maps with dynamic domains:                *)
(*   indices : index name -> [open, data, aliases]  (data: the name of the *)
(*             index whose documents it holds, to follow copies)           *)
(*   itpl    : index (composable) template name -> document                *)
(*   ctpl    : component template name -> document                         *)
(*   ltpl    : legacy template name -> document                            *)
(* A request is a record whose op field names the API call.  Apply(c, r)   *)
(* is [ok, err, cluster]: the cluster after the call, or the error the     *)
(* client raises (err is "not_found" for an HTTP 404, "rejected" for a     *)
(* 400 the call provokes itself).                                          *)
(***************************************************************************)
EXTENDS TenantRename, TLC

CONSTANTS
  NoRename   \* restore without rename_pattern / rename_replacement

Put(f, k, v) == (k :> v) @@ f
Drop(f, ks)  == [k \in DOMAIN f \ ks |-> f[k]]

\* A name is a system index when it starts with "." (excluded by "-.*").
IsSystem(n) == Len(n) > 0 /\ n[1] = "."

\* Names of DOMAIN f matched by the wildcard pattern prefix*; All is "*".
Matching(f, prefix) == {k \in DOMAIN f : StartsWith(k, prefix)}

Ok(c)       == [ok |-> TRUE, err |-> "none", cluster |-> c]
Fail(c, e)  == [ok |-> FALSE, err |-> e, cluster |-> c]

(***************************************************************************)
(* Deleting templates by a wildcard pattern answers 404 when the pattern   *)
(* matches nothing and is not the match-all pattern "*".                   *)
(***************************************************************************)
DeleteTemplates(f, prefix, all) ==
  IF all THEN Drop(f, DOMAIN f) ELSE Drop(f, Matching(f, prefix))

NoneMatch(f, prefix, all) == ~all /\ Matching(f, prefix) = {}

(***************************************************************************)
(* A composable template is parsed strictly: a top-level 'aliases' field   *)
(* is an unknown field (400), and every composed_of entry must name an     *)
(* existing component template (400).                                     *)
(***************************************************************************)
IndexTemplateAccepted(c, doc) ==
  /\ doc.aliases = NoKey
  /\ \A i \in DOMAIN doc.composedOf : doc.composedOf[i] \in DOMAIN c.ctpl

ComponentTemplateAccepted(doc) == doc.aliases = NoKey

(***************************************************************************)
(* Restoring index i of the snapshot, renamed by the engine's own          *)
(* replaceAll of "prefix(.+)" when a rename is asked for.  An existing open *)
(* index of the target name makes the restore fail; an existing closed one *)
(* is replaced, keeping its aliases unless the snapshot's are included.    *)
(***************************************************************************)
RestoreTarget(i, prefix, repl) ==
  IF prefix = NoRename THEN i ELSE rename(i, prefix, repl)

RestoredIndex(c, snap, i, prefix, repl, withAliases) ==
  LET t == RestoreTarget(i, prefix, repl) IN
  [open    |-> TRUE,
   data    |-> snap[i].data,
   aliases |-> IF withAliases THEN snap[i].aliases
               ELSE IF t \in DOMAIN c.indices THEN c.indices[t].aliases ELSE {}]

RestoreSnapshot(c, snap, names, prefix, repl, withAliases) ==
  LET targets == {RestoreTarget(i, prefix, repl) : i \in names} IN
  IF \E i \in names : i \notin DOMAIN snap
  THEN Fail(c, "missing_in_snapshot")
  ELSE IF \E t \in targets : t \in DOMAIN c.indices /\ c.indices[t].open
  THEN Fail(c, "open_index_exists")
  ELSE Ok([c EXCEPT !.indices =
             [t \in DOMAIN c.indices \cup targets |->
                IF \E i \in names : RestoreTarget(i, prefix, repl) = t
                THEN RestoredIndex(c, snap,
                       CHOOSE i \in names : RestoreTarget(i, prefix, repl) = t,
                       prefix, repl, withAliases)
                ELSE c.indices[t]]])

Apply(c, snap, r) ==
  CASE r.op = "put_component" ->
         IF ComponentTemplateAccepted(r.doc)
         THEN Ok([c EXCEPT !.ctpl = Put(@, r.name, r.doc)]) ELSE Fail(c, "rejected")
    [] r.op = "put_index_template" ->
         IF IndexTemplateAccepted(c, r.doc)
         THEN Ok([c EXCEPT !.itpl = Put(@, r.name, r.doc)]) ELSE Fail(c, "rejected")
    [] r.op = "put_legacy" ->
         Ok([c EXCEPT !.ltpl = Put(@, r.name, r.doc)])
    [] r.op = "delete_index_template" ->
         IF NoneMatch(c.itpl, r.prefix, r.all) THEN Fail(c, "not_found")
         ELSE Ok([c EXCEPT !.itpl = DeleteTemplates(@, r.prefix, r.all)])
    [] r.op = "delete_component" ->
         IF NoneMatch(c.ctpl, r.prefix, r.all) THEN Fail(c, "not_found")
         ELSE Ok([c EXCEPT !.ctpl = DeleteTemplates(@, r.prefix, r.all)])
    [] r.op = "delete_legacy" ->
         IF NoneMatch(c.ltpl, r.prefix, r.all) THEN Fail(c, "not_found")
         ELSE Ok([c EXCEPT !.ltpl = DeleteTemplates(@, r.prefix, r.all)])
    [] r.op = "delete_indices" ->
         Ok([c EXCEPT !.indices =
               Drop(@, {i \in DOMAIN @ : ~IsSystem(i) /\
                        (r.all \/ \E p \in r.prefixes : StartsWith(i, p))})])
    [] r.op = "close" ->
         Ok([c EXCEPT !.indices =
               [i \in DOMAIN @ |-> IF i \in r.names THEN [@[i] EXCEPT !.open = FALSE]
                                  ELSE @[i]]])
    [] r.op = "restore" ->
         RestoreSnapshot(c, snap, r.names, r.prefix, r.repl, r.withAliases)
    [] r.op = "put_alias" ->
         IF r.index \notin DOMAIN c.indices THEN Fail(c, "not_found")
         ELSE Ok([c EXCEPT !.indices[r.index].aliases = @ \cup {r.name}])

=============================================================================
