------------------------------ MODULE MCLibrary ------------------------------
(* Model-checking instance of the library: source groups and lineups in one *)
(* part of the behaviours, playlist refreshes in another.                   *)
EXTENDS SourceGroups, PlaylistImport, TLC

VARIABLE part
libraryVars == <<part, sgvars, importVars>>

(* Where the first behaviours stand: a group that holds the two channels of *)
(* a source group, either copied from it or synchronised with it; another   *)
(* source group may have a row with the guide id of the first.  Which group *)
(* it is makes no difference, nor which playlist's entry is imported below. *)
(* The second group is there; where it is yet to come or shares a channel,  *)
(* a first change was made unless the link has told a row by its id.        *)
HeldInit ==
    \E o \in Sources, x \in Tvgs, y \in Tvgs \cup {Nothing}, managed \in BOOLEAN, other \in {"new", "present", "shares"} :
        LET s == CHOOSE t \in Sources : TRUE
            g == CHOOSE h \in StudioGroups : TRUE
        IN
        /\ row = (1 :> [group |-> s, tvg |-> x]) @@ (2 :> [group |-> s, tvg |-> y])
                 @@ (IF o = s THEN <<>> ELSE 3 :> [group |-> o, tvg |-> x])
        /\ source = [t \in Sources |-> IF t \in {s, o} THEN "enabled" ELSE "absent"]
        /\ studio = [h \in StudioGroups |-> IF h = g THEN "present" ELSE IF other = "new" THEN "new" ELSE "present"]
        /\ lineup = IF other = "new" THEN <<g>> ELSE <<g>> \o SetToSeq(StudioGroups \ {g})
        /\ link = [h \in StudioGroups |->
                      IF h = g /\ managed THEN [LinkTo(s) EXCEPT !.status = "active"] ELSE NoLink]
        /\ channel = [c \in 1..2 |-> row[c].tvg]
        /\ place = [h \in StudioGroups |-> IF h = g THEN [c \in 1..2 |-> c] ELSE IF other = "shares" THEN 2 :> 1 ELSE <<>>]
        /\ member = IF managed THEN {[group |-> g, channel |-> c, row |-> c, identity |-> Identity(c)] : c \in 1..2} ELSE {}
        /\ variant = {[channel |-> c, row |-> c, method |-> IF managed THEN "sync" ELSE "manual"] : c \in 1..2}
        /\ sync = [j \in Syncs |-> NoSync]
        /\ edit = NoEdit
        /\ next = [row |-> IF o = s THEN 3 ELSE 4, channel |-> 3, changes |-> IF other = "present" \/ (y = Nothing /\ managed) THEN 0 ELSE 1]
        /\ lagging = {}

(* A playlist of one entry was imported; a short one beside it has the same *)
(* group, or is yet to be created.  The long one may list a second entry,   *)
(* and may have the first one twice, as overlapping refreshes leave it.     *)
HeldImport ==
    \E short \in Lists \ LongLists, long \in LongLists, twice \in BOOLEAN :
        LET n == CHOOSE x \in GroupNames : TRUE
            k == CHOOSE x \in Keys : TRUE
        IN
        /\ known \in {{long}, {short, long}}
        /\ upstream \in {(short :> (k :> n)) @@ (long :> [m \in Keys |-> x]) : x \in GroupNames}
                    \cup {(long :> (k :> n)) @@ (short :> [m \in Keys |-> IF m = k THEN n ELSE x]) : x \in GroupNames}
        /\ listGroup = (1 :> [list |-> long, name |-> n, enabled |-> TRUE])
                       @@ (IF short \in known THEN 2 :> [list |-> short, name |-> n, enabled |-> TRUE] ELSE <<>>)
        /\ entryRow = [i \in DOMAIN listGroup \cup (IF twice THEN {3} ELSE {}) |->
                           [key |-> k, gid |-> IF i = 3 THEN 1 ELSE i, stamp |-> 0, url |-> "listed"]]
        /\ import = [j \in ImportJobs |-> NotImporting]
        /\ isUpdating = FALSE
        /\ clock = IF short \in known THEN 0 ELSE MaxRefreshes - 1
        /\ counted = [group |-> 2, row |-> 3, edits |-> IF short \in known THEN MaxEdits ELSE 0]

NoLibrary ==
    /\ row = <<>> /\ source = [t \in Sources |-> "absent"]
    /\ studio = [h \in StudioGroups |-> "new"] /\ lineup = <<>>
    /\ link = [h \in StudioGroups |-> NoLink] /\ channel = <<>> /\ place = [h \in StudioGroups |-> <<>>]
    /\ member = {} /\ variant = {} /\ sync = [j \in Syncs |-> NoSync] /\ edit = NoEdit
    /\ next = [row |-> 1, channel |-> 1, changes |-> 0] /\ lagging = {}

NoImport ==
    /\ known = {} /\ upstream = [l \in Lists |-> <<>>] /\ listGroup = <<>> /\ entryRow = <<>>
    /\ import = [j \in ImportJobs |-> NotImporting] /\ isUpdating = FALSE /\ clock = MaxRefreshes
    /\ counted = [group |-> 0, row |-> 0, edits |-> MaxEdits]

LibraryInit ==
    \/ part = "groups" /\ HeldInit /\ NoImport
    \/ part = "import" /\ NoLibrary /\ HeldImport

LibraryNext ==
    \/ part = "groups" /\ SourceGroupsNext /\ UNCHANGED <<part, importVars>>
    \/ part = "import" /\ ImportNext /\ UNCHANGED <<part, sgvars>>

LibrarySpec == LibraryInit /\ [][LibraryNext]_libraryVars

Interchangeable == Permutations(ImportJobs) \cup Permutations(Syncs)
=============================================================================
