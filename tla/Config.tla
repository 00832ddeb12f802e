------------------------------- MODULE Config -------------------------------
(***************************************************************************)
(* Loading the configuration (healthagent/config.py): the defaults of the  *)
(* package, the file of the user merged over them, and the validation of   *)
(* the result.  A YAML mapping is a node with children, anything else a    *)
(* leaf.  Two levels are enough to merge a section of the defaults, to add *)
(* one, to replace one and to remove one.                                  *)
(***************************************************************************)
EXTENDS Sequences

CONSTANTS
    Sections,      \* keys of the configuration ...
    Typed,         \* ... of which this section is validated
    SectionFields, \* keys of a section
    DefaultLeaf,   \* values that are not mappings: of the defaults,
    UserLeaves,    \* of the user's file,
    BadLeaves      \* and those of the file that no field of Typed takes

(* Leaves are told from mappings and from what is not there (see below). *)
ASSUME ConfigAssumption ==
    /\ Typed \in Sections /\ BadLeaves \subseteq UserLeaves
    /\ {"mapping", "absent"} \cap ({DefaultLeaf} \cup UserLeaves) = {}

VARIABLES
    files,   \* the defaults and the user's file while they are being loaded
    merged,  \* what they make
    phase    \* "start", "merged", then "running" or "refused"

configVars == <<files, merged, phase>>

Leaf(v) == [value |-> v, child |-> <<>>]
Null == Leaf("null")
Mapping(child) == [value |-> "mapping", child |-> child]
IsMapping(node) == node.value = "mapping"

(* The mappings from any of the keys to the nodes. *)
MappingsOf(keys, nodes) == {Mapping(f) : f \in UNION {[K -> nodes] : K \in SUBSET keys}}

Trees(leaves) == MappingsOf(Sections, leaves \cup MappingsOf(SectionFields, leaves))

-----------------------------------------------------------------------------
(* Variant: a section of the file replaces the section of the defaults. *)
ShallowMerge(base, override) ==
    Mapping([key \in {k \in DOMAIN base.child \cup DOMAIN override.child :
                          k \in DOMAIN override.child => override.child[k] # Null} |->
                (IF key \in DOMAIN override.child THEN override ELSE base).child[key]])

(* Keys with a mapping in both: deep_merge calls itself on them. *)
Both(base, override) ==
    {k \in DOMAIN base.child \cap DOMAIN override.child :
        IsMapping(base.child[k]) /\ IsMapping(override.child[k])}

(* One level, with the mappings merged below it: a null removes a key,     *)
(* anything else replaces.                                                 *)
MergeKeys(base, override, below) ==
    LET over == override.child
    IN  Mapping([k \in {n \in DOMAIN base.child \cup DOMAIN over :
                            n \in DOMAIN over => over[n] # Null} |->
            IF k \in DOMAIN below THEN below[k]
            ELSE IF k \in DOMAIN over THEN over[k] ELSE base.child[k]])

(* deep_merge of two sections, none of whose keys is a mapping here. *)
MergeSection(base, override) == MergeKeys(base, override, <<>>)

DeepMerge(base, override) ==
    MergeKeys(base, override,
        [k \in Both(base, override) |-> MergeSection(base.child[k], override.child[k])])

(* The section must be a mapping if it is there, of fields with values of  *)
(* their types; what the models do not name is allowed or ignored.         *)
Valid(tree) ==
    Typed \in DOMAIN tree.child =>
        LET section == tree.child[Typed]
        IN  /\ IsMapping(section)
            /\ \A f \in DOMAIN section.child :
                   section.child[f] \notin {Leaf(v) : v \in BadLeaves} \cup {Null}

-----------------------------------------------------------------------------
ConfigInit ==
    /\ files \in [defaults : Trees({Leaf(DefaultLeaf)}),
                  user : Trees({Leaf(v) : v \in UserLeaves} \cup {Null})]
    /\ merged = Null
    /\ phase = "start"

LoadConfig ==
    /\ phase = "start"
    /\ merged' = DeepMerge(files.defaults, files.user)
    /\ phase' = "merged"
    /\ UNCHANGED files

(* Without an error the module is created from the validated section.      *)
Validate ==
    /\ phase = "merged"
    /\ IF Valid(merged)
       THEN phase' = "running" /\ files' = [defaults |-> Null, user |-> Null] /\ merged' = Null
       ELSE phase' = "refused" /\ UNCHANGED <<files, merged>>

(* The error ends the process, and systemd starts it on the same files.    *)
StartAgain ==
    /\ phase = "refused"
    /\ phase' = "start" /\ merged' = Null
    /\ UNCHANGED files

ConfigNext == LoadConfig \/ Validate \/ StartAgain

-----------------------------------------------------------------------------
Absent == Leaf("absent")
Get(node, key) == IF IsMapping(node) /\ key \in DOMAIN node.child THEN node.child[key] ELSE Absent
Paths == {<<s>> : s \in Sections} \cup (Sections \X SectionFields)
NodeAt(tree, path) ==
    IF Len(path) = 1 THEN Get(tree, path[1]) ELSE Get(Get(tree, path[1]), path[2])
Above(tree, path) == IF Len(path) = 1 THEN tree ELSE Get(tree, path[1])

LeavesOf(tree) == {path \in Paths : NodeAt(tree, path) # Absent /\ ~IsMapping(NodeAt(tree, path))}

(* The nulls of the user's file in a section the defaults do not have as a *)
(* mapping, which deep_merge takes over as it is, nulls included.          *)
NullsTakenOver == {p \in LeavesOf(files.user) : /\ NodeAt(files.user, p) = Null
                                                /\ ~IsMapping(Above(files.defaults, p))}

(* The user's file decides wherever it says something, the defaults        *)
(* everywhere else, down to the single value: no value of the defaults is  *)
(* lost beside one the file sets, and a null removes the key, with what    *)
(* was below it.  Nothing is said of NullsTakenOver: there the docstring   *)
(* promises the same, and the code leaves the key with a null.             *)
MergedByPath ==
    phase = "merged" =>
        LET user == files.user
            base == files.defaults
            set == {p \in LeavesOf(user) : NodeAt(user, p) # Null}
            kept == {p \in LeavesOf(base) : /\ NodeAt(user, p) = Absent
                                            /\ Above(user, p) = Absent \/ IsMapping(Above(user, p))}
        IN  /\ LeavesOf(merged) \ NullsTakenOver = set \cup kept
            /\ \A p \in set : NodeAt(merged, p) = NodeAt(user, p)
            /\ \A p \in kept : NodeAt(merged, p) = NodeAt(base, p)
=============================================================================
