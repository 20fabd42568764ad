--------------------------- MODULE MCBackupRestore ---------------------------
(***************************************************************************)
(* A small cluster for BackupRestore: two tenants a and b with an index,   *)
(* an alias, a component template, an index template composed of it and   *)
(* (for a) a legacy template, an unrelated index x1, a system index .s and *)
(* the reserved legacy template.  A granular restore may rename one of the *)
(* tenants to n, whose index n1 users may create before the restore.       *)
(***************************************************************************)
EXTENDS BackupRestore

A  == <<"a">>
B  == <<"b">>
C  == <<"c">>
N  == <<"n">>

Index(data, aliases) == [open |-> TRUE, data |-> data, aliases |-> aliases]

CompDoc(aliases) ==
  [patterns |-> <<>>, composedOf |-> <<>>, template |-> [aliases |-> aliases],
   aliases |-> NoKey]
IdxDoc(pattern, composedOf, aliases) ==
  [patterns |-> <<pattern>>, composedOf |-> composedOf,
   template |-> [aliases |-> aliases], aliases |-> NoKey]
LegDoc(pattern, aliases) ==
  [patterns |-> <<pattern>>, composedOf |-> <<>>, template |-> NoSection,
   aliases |-> aliases]

MCTenantTemplate == <<"t", "t">>

MCSource ==
  [indices |-> (<<"a","1">> :> Index(<<"a","1">>, {<<"a","r">>}))
               @@ (<<"b","1">> :> Index(<<"b","1">>, {}))
               @@ (<<"x","1">> :> Index(<<"x","1">>, {}))
               @@ (<<".","s">> :> Index(<<".","s">>, {})),
   itpl |-> (<<"a","t">> :> IdxDoc(<<"a","*">>, <<<<"a","c">>>>, {<<"a","r">>}))
            @@ (<<"b","t">> :> IdxDoc(<<"b","*">>, <<<<"b","c">>>>, {})),
   ctpl |-> (<<"a","c">> :> CompDoc({<<"a","s">>}))
            @@ (<<"b","c">> :> CompDoc({})),
   ltpl |-> (<<"a","l">> :> LegDoc(<<"a","*">>, {<<"a","r">>}))
            @@ (MCTenantTemplate :> LegDoc(<<"*">>, {}))]

MCBackupChoices  == {NoDbs, <<A, B>>}
MCRestoreChoices == {<<A>>, <<A, B>>, <<B, A>>, <<C>>}
MCReplacements   == {N}
MCDriftIndices   == {<<"n","1">>, <<"a","2">>}
MCDriftTemplates ==
  {[kind |-> "component", name |-> <<"n","c">>, doc |-> CompDoc({})],
   [kind |-> "index", name |-> <<"a","t">>, doc |-> IdxDoc(<<"a","*">>, <<>>, {})]}


-----------------------------------------------------------------------------
(***************************************************************************)
(* Scenarios of the violation runs.                                        *)
(***************************************************************************)
EmptyMap == [x \in {} |-> x]
AB == <<"a", "b">>
NoDrift == {}

\* Overlapping tenants a and ab: the index template abt belongs to both.
MCSourceOverlap ==
  [indices |-> (<<"a","1">> :> Index(<<"a","1">>, {}))
               @@ (<<"a","b","1">> :> Index(<<"a","b","1">>, {})),
   itpl |-> (<<"a","b","t">> :> IdxDoc(<<"a","b","*">>, <<>>, {})),
   ctpl |-> EmptyMap, ltpl |-> EmptyMap]
MCOverlapChoices == {<<A, AB>>}

\* A component template left under the destination prefix n by an earlier restore.
MCStaleTemplates ==
  {[kind |-> "component", name |-> <<"n","x">>, doc |-> CompDoc({})]}
MCTenantA  == {<<A>>}
MCTenantsAB == {<<A, B>>}

\* An index template whose document has no 'template' section.
MCSourceNoSection ==
  [MCSource EXCEPT !.itpl = (<<"a","t">> :> [patterns |-> <<<<"a","*">>>>,
                                            composedOf |-> <<>>,
                                            template |-> NoSection,
                                            aliases |-> NoKey])]

\* An index of no tenant whose name contains the second tenant b.
MCSourceScope ==
  [MCSource EXCEPT !.indices = Put(@, <<"x","b">>, Index(<<"x","b">>, {}))]

\* Tenant b has templates but no index.
MCSourceNoIndexOfB ==
  [MCSource EXCEPT !.indices = Drop(@, {<<"b","1">>})]
MCTenantB == {<<B>>}

=============================================================================
