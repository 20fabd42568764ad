---------------------------- MODULE TenantRename ----------------------------
(***************************************************************************)
(* The tenant-prefix rename engine of the restore script (Restore.rename,  *)
(* rename_template, rename_index_aliases, rename_templates and             *)
(* rename_component_templates in restore.py), as pure operators.           *)
(*                                                                         *)
(* A name (of a template, an index, an alias or an index pattern) is a     *)
(* sequence of characters, so that the prefix test and the regular-        *)
(* expression substitution of the code are modelled by what they do.       *)
(*                                                                         *)
(* A template document is a record                                         *)
(*   [patterns   |-> index_patterns (a sequence of names),                 *)
(*    composedOf |-> composed_of (a sequence of names),                    *)
(*    template   |-> the inner 'template' section: NoSection when it is    *)
(*                   absent or empty (falsy), else [aliases |-> names],    *)
(*    aliases    |-> a top-level 'aliases' key: NoKey, or a set of names]. *)
(* Alias bodies, settings and mappings are never touched by the code and   *)
(* are left out.  A template entry of templates.json or                    *)
(* component_templates.json is [name |-> name, doc |-> document].          *)
(***************************************************************************)
EXTENDS Sequences, SequencesExt, FiniteSets

CONSTANTS
  NoSection,   \* the document has no (or an empty) 'template' section
  NoKey        \* the document has no top-level 'aliases' key

StartsWith(s, p) == IsPrefix(p, s)

(***************************************************************************)
(* Restore.rename: re.sub(prefix + '(.+)', replacement + group 1, name),     *)
(* where .+ stands for the code's dot-star (which matches to the end).    *)
(* The pattern is not anchored: the leftmost occurrence of prefix, wherever *)
(* it is in name, is replaced and the text before it is kept; a name that  *)
(* does not contain prefix is returned unchanged.                           *)
(***************************************************************************)
rename(name, prefix, replacement) == ReplaceFirstSubSeq(replacement, prefix, name)

RenameEach(names, prefix, replacement) ==
  [i \in DOMAIN names |-> rename(names[i], prefix, replacement)]

(***************************************************************************)
(* rename_index_aliases: a new alias map whose keys are the renamed keys   *)
(* of the old one; a missing 'aliases' key gives an empty map.  Two keys   *)
(* that rename to the same key collapse into one.                          *)
(***************************************************************************)
rename_index_aliases(aliases, prefix, replacement) ==
  {rename(a, prefix, replacement) : a \in aliases}

AliasesOf(doc) == IF doc.aliases = NoKey THEN {} ELSE doc.aliases

(***************************************************************************)
(* rename_template on the inner document: index patterns and composed_of   *)
(* entries are renamed; the aliases are renamed inside the 'template'      *)
(* section when that section is truthy, and otherwise written to a         *)
(* top-level 'aliases' key of the document, which the code creates when    *)
(* it was absent.                                                           *)
(***************************************************************************)
\* Mutant: composed_of references keep the old prefix.
rename_template_keep_composed_of(doc, prefix, replacement) ==
  [doc EXCEPT
     !.patterns   = RenameEach(@, prefix, replacement),
     !.template   = IF @ = NoSection THEN @
                    ELSE [aliases |-> rename_index_aliases(@.aliases, prefix, replacement)],
     !.aliases    = IF doc.template = NoSection
                    THEN rename_index_aliases(AliasesOf(doc), prefix, replacement)
                    ELSE @]

rename_template(doc, prefix, replacement) ==
  [doc EXCEPT
     !.patterns   = RenameEach(@, prefix, replacement),
     !.composedOf = RenameEach(@, prefix, replacement),
     !.template   = IF @ = NoSection THEN @
                    ELSE [aliases |-> rename_index_aliases(@.aliases, prefix, replacement)],
     !.aliases    = IF doc.template = NoSection
                    THEN rename_index_aliases(AliasesOf(doc), prefix, replacement)
                    ELSE @]

(***************************************************************************)
(* rename_templates / rename_component_templates: the 'name' field of an   *)
(* entry is renamed and its inner document (index_template or              *)
(* component_template) goes through rename_template.                       *)
(***************************************************************************)
RenameEntry(entry, prefix, replacement) ==
  [name |-> rename(entry.name, prefix, replacement),
   doc  |-> rename_template(entry.doc, prefix, replacement)]

=============================================================================
