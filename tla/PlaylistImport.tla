--------------------------- MODULE PlaylistImport ---------------------------
(***************************************************************************)
(* The refresh of playlists: M3uParser (m3u_parser.go), its callers        *)
(* UpdatePlaylists, RefreshPlaylist, V2RefreshSource and CreatePlaylist,   *)
(* CleanPlaylist (cron.go), and the triggers of playlistchannel.           *)
(*                                                                         *)
(* Abstractions: the guide id, name and title of an entry are one key that *)
(* no other entry of its group has; the row of the playlist itself, logos  *)
(* and the matching queued after a batch are left out; time is a counter   *)
(* of started refreshes, so that what a refresh writes is never earlier    *)
(* than its start.                                                         *)
(***************************************************************************)
EXTENDS Naturals, Sequences, FiniteSets, SequencesExt, FiniteSetsExt, Filtering

CONSTANTS
    Lists,       \* playlists
    LongLists,   \* those of more than a hundred lines, parsed in several chunks
    Keys,        \* what identifies an entry
    Guided,      \* the keys of the entries that carry a guide id
    GroupNames,  \* group-title values
    ImportJobs,  \* goroutines that refresh
    Workers,     \* chunks parsed at the same time (the code: 3)
    BatchSize,   \* channel pairs of one transaction (the code: 25)
    MaxRefreshes, MaxEdits  \* bounds

VARIABLES
    known,      \* playlists that exist
    upstream,   \* what the providers list: list -> (key -> group name)
    listGroup,  \* playlistgroup: id -> [list, name, enabled]
    entryRow,   \* playlistchannel and channelurl: id -> [key, gid, stamp, url]
    import,     \* refreshes under way
    isUpdating, \* cron's flag
    clock,      \* refreshes started
    counted     \* the last group and row ids, and the edits made

importVars == <<known, upstream, listGroup, entryRow, import, isUpdating, clock, counted>>

NotImporting == [pc |-> "idle"]

ImportInit ==
    /\ known = {} /\ upstream \in [Lists -> UNION {[ks -> GroupNames] : ks \in SUBSET Keys}]
    /\ listGroup = <<>> /\ entryRow = <<>>
    /\ import = [j \in ImportJobs |-> NotImporting]
    /\ isUpdating = FALSE /\ clock = 0
    /\ counted = [group |-> 0, row |-> 0, edits |-> 0]

ListOf(j) == Head(import[j].queue)
Importing(l) == {j \in ImportJobs : import[j] # NotImporting /\ ListOf(j) = l}
GroupsNamed(l, name) == {g \in DOMAIN listGroup : listGroup[g].list = l /\ listGroup[g].name = name}
RowsOfList(l) == {r \in DOMAIN entryRow : listGroup[entryRow[r].gid].list = l}

-----------------------------------------------------------------------------
\* The provider adds, moves or drops an entry.
UpstreamChanges(l, k, name) ==
    /\ counted.edits < MaxEdits /\ counted' = [counted EXCEPT !.edits = @ + 1]
    /\ \/ upstream' = [upstream EXCEPT ![l] = With(@, k, name)]
       \/ k \in DOMAIN upstream[l] /\ upstream' = [upstream EXCEPT ![l] = [m \in DOMAIN @ \ {k} |-> @[m]]]
    /\ upstream' # upstream
    /\ UNCHANGED <<known, listGroup, entryRow, import, isUpdating, clock>>

\* An administrator enables or disables a group.
ToggleGroup(g) ==
    /\ counted.edits < MaxEdits /\ counted' = [counted EXCEPT !.edits = @ + 1]
    /\ listGroup' = [listGroup EXCEPT ![g].enabled = ~@]
    /\ import' = [j \in ImportJobs |->
                     IF j \in Importing(listGroup[g].list) THEN [import[j] EXCEPT !.calm = FALSE] ELSE import[j]]
    /\ UNCHANGED <<known, upstream, entryRow, isUpdating, clock>>

-----------------------------------------------------------------------------
(***************************************************************************)
(* A refresh notes its start, then parses.  calm: nobody else refreshed    *)
(* the list or switched its groups meanwhile; saved: no batch was dropped; *)
(* before: the last row id when it began.                                  *)
(***************************************************************************)
Opens(j, kind, queue) ==
    LET others == Importing(Head(queue)) \ {j}
    IN /\ clock < MaxRefreshes /\ clock' = clock + 1
       /\ import' = [k \in ImportJobs |->
             IF k = j THEN [pc |-> "fetch", kind |-> kind, queue |-> queue, start |-> clock + 1, before |-> counted.row, listed |-> {},
                            todo |-> {}, doing |-> <<>>, batch |-> <<>>, stale |-> {}, calm |-> others = {}, saved |-> TRUE]
             ELSE IF k \in others THEN [import[k] EXCEPT !.calm = FALSE] ELSE import[k]]

CreatePlaylist(j, l) ==
    /\ import[j] = NotImporting /\ l \notin known
    /\ known' = known \cup {l} /\ Opens(j, "create", <<l>>)
    /\ UNCHANGED <<upstream, listGroup, entryRow, isUpdating, counted>>

\* RefreshPlaylist and V2RefreshSource take no flag.
RefreshPlaylist(j, l) ==
    /\ import[j] = NotImporting /\ l \in known /\ Opens(j, "manual", <<l>>)
    /\ UNCHANGED <<known, upstream, listGroup, entryRow, isUpdating, counted>>

\* UpdatePlaylists: every playlist in turn, unless such an update is running.
UpdatePlaylists(j) ==
    /\ import[j] = NotImporting /\ known # {} /\ ~isUpdating
    /\ isUpdating' = TRUE /\ Opens(j, "scheduled", SetToSeq(known))
    /\ UNCHANGED <<known, upstream, listGroup, entryRow, counted>>

\* The list is done, refreshed or not: the next one, or the end.
EndList(j) ==
    LET rest == Tail(import[j].queue)
    IN IF rest # <<>> THEN Opens(j, import[j].kind, rest) /\ UNCHANGED isUpdating
       ELSE /\ import' = [import EXCEPT ![j] = NotImporting]
            /\ isUpdating' = (isUpdating /\ import[j].kind # "scheduled")
            /\ UNCHANGED clock

\* The download fails, or holds no entry: the previous snapshot stays.
FetchFails(j) ==
    /\ import[j].pc = "fetch" /\ EndList(j)
    /\ UNCHANGED <<known, upstream, listGroup, entryRow, counted>>

\* parseLines cuts a long list into chunks; an entry whose URL is the first line
\* of the next chunk is in none of them.
Fetched(j) ==
    LET entries == {<<k, upstream[ListOf(j)][k]>> : k \in DOMAIN upstream[ListOf(j)]}
    IN /\ import[j].pc = "fetch" /\ entries # {}
       /\ \E lost \in {{}} \cup (IF ListOf(j) \in LongLists THEN {{e} : e \in entries} ELSE {}) :
              import' = [import EXCEPT ![j].pc = "parse", ![j].listed = entries \ lost, ![j].todo = entries \ lost]
       /\ UNCHANGED <<known, upstream, listGroup, entryRow, isUpdating, clock, counted>>

-----------------------------------------------------------------------------
(***************************************************************************)
(* parseLine, statement by statement: the group of the entry, its rows,    *)
(* and its pairs in the batch.  Step "group": the group is to be created;  *)
(* "row": its rows are to be looked up; "flush": the batch is full.        *)
(***************************************************************************)
Goes(j, e, step) == import' = [import EXCEPT ![j].todo = @ \ {e}, ![j].doing = With(@, e, step)]
Free(j) == Cardinality(DOMAIN import[j].doing) < (IF ListOf(j) \in LongLists THEN Workers ELSE 1)

LookUpGroup(j, e) ==
    LET named == GroupsNamed(ListOf(j), e[2])
    IN /\ import[j].pc = "parse" /\ e \in import[j].todo /\ Free(j)
       /\ \/ named = {} /\ Goes(j, e, [at |-> "group"])
          \/ named # {} /\ (named # {} => listGroup[Min(named)].enabled) /\ Goes(j, e, [at |-> "row", gid |-> Min(named)])
          \/ named # {} /\ (named # {} => ~listGroup[Min(named)].enabled)
             /\ import' = [import EXCEPT ![j].todo = @ \ {e}]
       /\ UNCHANGED <<known, upstream, listGroup, entryRow, isUpdating, clock, counted>>

\* createGroupWithLimit: no constraint keeps two groups from having one name.
CreateGroup(j, e) ==
    LET g == counted.group + 1
    IN /\ import[j].doing[e].at = "group"
       /\ listGroup' = With(listGroup, g, [list |-> ListOf(j), name |-> e[2], enabled |-> TRUE])
       /\ counted' = [counted EXCEPT !.group = g]
       /\ Goes(j, e, [at |-> "row", gid |-> g])
       /\ UNCHANGED <<known, upstream, entryRow, isUpdating, clock>>

\* A pair inserts (id 0) or updates a row and the URL of its channel.
Pair(r, e, g, url) == [id |-> r, entry |-> e, gid |-> g, stamp |-> clock, url |-> url]

Leaves(j, e, pairs) ==
    import' = [import EXCEPT ![j].batch = @ \o pairs, ![j].doing = [f \in DOMAIN @ \ {e} |-> @[f]]]

\* Rows found, else a new one.  An entry without a guide id gets the id of its row
\* for one, by a second pair that has no URL.
AddToBatch(j, e) ==
    LET g == import[j].doing[e].gid
        found == {r \in DOMAIN entryRow : entryRow[r].gid = g /\ entryRow[r].key = e[1]}
        pairs == IF found = {} THEN <<Pair(0, e, g, "listed")>>
                 ELSE [i \in 1..Cardinality(found) |-> Pair(Ascending(found)[i], e, g, "listed")]
        second == IF found = {} \/ e[1] \in Guided THEN <<>> ELSE <<Pair(Max(found), e, g, "empty")>>
    IN /\ import[j].doing[e].at = "row"
       /\ IF Len(import[j].batch \o pairs) >= BatchSize
          THEN import' = [import EXCEPT ![j].batch = @ \o pairs, ![j].doing = With(@, e, [at |-> "flush", second |-> second])]
          ELSE Leaves(j, e, pairs \o second)
       /\ UNCHANGED <<known, upstream, listGroup, entryRow, isUpdating, clock, counted>>

(***************************************************************************)
(* flushBatches, one transaction.  A pair whose group or row is gone fails *)
(* a foreign key and with it the batch, which stays for the next flush.    *)
(***************************************************************************)
Saveable(j) ==
    \A i \in DOMAIN import[j].batch :
        LET p == import[j].batch[i]
        IN IF p.id = 0 THEN p.gid \in DOMAIN listGroup ELSE p.id \in DOMAIN entryRow

Written_KeepsStamp(r, p) == [r EXCEPT !.url = p.url]
Written(r, p) == [r EXCEPT !.stamp = p.stamp, !.url = p.url]

\* New rows get the next ids in the order of the batch; a row is left as the last
\* pair that names it says.
NewPairs(batch) == {i \in DOMAIN batch : batch[i].id = 0}
NewId(batch, i) == counted.row + Cardinality({k \in NewPairs(batch) : k <= i})

Saved(batch, r) ==
    LET naming == {i \in DOMAIN batch : batch[i].id = r}
        p == batch[CHOOSE i \in NewPairs(batch) : NewId(batch, i) = r]
    IN IF r \notin DOMAIN entryRow THEN [key |-> p.entry[1], gid |-> p.gid, stamp |-> p.stamp, url |-> p.url]
       ELSE IF naming = {} THEN entryRow[r] ELSE Written(entryRow[r], batch[Max(naming)])

Saves(j) ==
    LET batch == import[j].batch
    IN /\ entryRow' = [r \in DOMAIN entryRow \cup {NewId(batch, i) : i \in NewPairs(batch)} |-> Saved(batch, r)]
       /\ counted' = [counted EXCEPT !.row = @ + Cardinality(NewPairs(batch))]

Flush(j, e) ==
    LET second == import[j].doing[e].second
    IN /\ import[j].doing[e].at = "flush"
       /\ \/ Saveable(j) /\ Saves(j)
             /\ import' = [import EXCEPT ![j].batch = second, ![j].doing = [f \in DOMAIN @ \ {e} |-> @[f]]]
          \/ ~Saveable(j) /\ Leaves(j, e, second) /\ UNCHANGED <<entryRow, counted>>
       /\ UNCHANGED <<known, upstream, listGroup, isUpdating, clock>>

\* The last flush, and the end of the parse; a batch it cannot save is dropped.
FinishParse(j) ==
    LET next == IF import[j].kind = "create" THEN "end" ELSE "clean"
    IN /\ import[j].pc = "parse" /\ import[j].todo = {} /\ import[j].doing = <<>>
       /\ \/ Saveable(j) /\ Saves(j) /\ import' = [import EXCEPT ![j].pc = next, ![j].batch = <<>>]
          \/ ~Saveable(j) /\ UNCHANGED <<entryRow, counted>>
             /\ import' = [import EXCEPT ![j].pc = next, ![j].batch = <<>>, ![j].saved = FALSE]
       /\ UNCHANGED <<known, upstream, listGroup, isUpdating, clock>>

-----------------------------------------------------------------------------
\* CleanPlaylist: the rows of enabled groups that the refresh did not write.
ListStale(j) ==
    /\ import[j].pc = "clean"
    /\ import' = [import EXCEPT ![j].pc = "delete",
                     ![j].stale = {r \in RowsOfList(ListOf(j)) : listGroup[entryRow[r].gid].enabled
                                                                 /\ entryRow[r].stamp < import[j].start}]
    /\ UNCHANGED <<known, upstream, listGroup, entryRow, isUpdating, clock, counted>>

\* One row at a time; the trigger delete_playlistchannel then deletes every enabled
\* group without rows, of any playlist.
DeleteStale(j) ==
    LET r == Min(import[j].stale)
        left == [q \in DOMAIN entryRow \ {r} |-> entryRow[q]]
    IN /\ import[j].pc = "delete" /\ import[j].stale # {}
       /\ entryRow' = left
       /\ listGroup' = IF r \notin DOMAIN entryRow THEN listGroup
                       ELSE [g \in {h \in DOMAIN listGroup : ~listGroup[h].enabled \/ \E q \in DOMAIN left : left[q].gid = h} |->
                                listGroup[g]]
       /\ import' = [import EXCEPT ![j].stale = @ \ {r}]
       /\ UNCHANGED <<known, upstream, isUpdating, clock, counted>>

\* The refresh is complete; the lineup groups that follow the playlist are
\* synchronised next (SourceGroups).
FinishList(j) ==
    /\ import[j].pc \in {"end", "delete"} /\ import[j].stale = {}
    /\ EndList(j)
    /\ UNCHANGED <<known, upstream, listGroup, entryRow, counted>>

ImportStep(j) ==
    \/ \E l \in Lists : CreatePlaylist(j, l) \/ RefreshPlaylist(j, l)
    \/ UpdatePlaylists(j)
    \/ /\ import[j] # NotImporting
       /\ \/ FetchFails(j) \/ Fetched(j)
          \/ \E e \in import[j].todo : LookUpGroup(j, e)
          \/ \E e \in DOMAIN import[j].doing : CreateGroup(j, e) \/ AddToBatch(j, e) \/ Flush(j, e)
          \/ FinishParse(j) \/ ListStale(j) \/ DeleteStale(j) \/ FinishList(j)

ImportNext ==
    \/ \E l \in Lists, k \in Keys, name \in GroupNames : UpstreamChanges(l, k, name)
    \/ \E g \in DOMAIN listGroup : ToggleGroup(g)
    \/ \E j \in ImportJobs : ImportStep(j)

ImportSpec == ImportInit /\ [][ImportNext]_importVars

-----------------------------------------------------------------------------
\* The entries a refresh should show: those of groups that are not disabled.
Shown(j) ==
    {e \in import[j].listed :
        LET named == GroupsNamed(ListOf(j), e[2])
        IN named = {} \/ listGroup[Min(named)].enabled}

\* The entry a row stands for.
EntryOf(r) == <<entryRow[r].key, listGroup[entryRow[r].gid].name>>

(***************************************************************************)
(* A complete refresh nobody interfered with leaves the enabled groups of  *)
(* the playlist with a row for each entry it listed and none for any other *)
(* (m3u_parser.go:281, cron.go:233), and it doubles no entry: two rows of  *)
(* one entry were there when it began (no constraint forbids them, and     *)
(* overlapping refreshes leave them).                                      *)
(***************************************************************************)
RefreshMirrorsFeed ==
    [][\A j \in ImportJobs :
          (/\ import[j].pc = "delete" /\ import[j].calm /\ import[j].saved
           /\ import'[j].pc # "delete")
          => LET rows == {r \in RowsOfList(ListOf(j)) : listGroup[entryRow[r].gid].enabled}
             IN /\ \A e \in Shown(j) : \E r \in rows : EntryOf(r) = e
                /\ \A r \in rows : EntryOf(r) \in Shown(j)
                /\ \A r, q \in rows : EntryOf(r) = EntryOf(q) /\ r # q => {r, q} \subseteq 1..import[j].before
      ]_importVars

=============================================================================
