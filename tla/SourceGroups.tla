---------------------------- MODULE SourceGroups ----------------------------
(***************************************************************************)
(* The studio's lineup groups and their subscriptions to the groups of a   *)
(* playlist: the tables templategroup, templatechannel,                    *)
(* template_group_item, template_group_channel, templatechannelitem,       *)
(* lineup_group_source_link and lineup_group_source_member, the operations *)
(* of source_group_sync_query.go and experience_query.go on them, and the  *)
(* triggers and cascades of the schema.                                    *)
(*                                                                         *)
(* Abstractions: one playlist and one lineup; the rows of a source group   *)
(* are ordered by id (the code: by name, then id); names and logos are     *)
(* left out, with the two follow flags.                                    *)
(***************************************************************************)
EXTENDS Naturals, Sequences, FiniteSets, SequencesExt, FiniteSetsExt, Filtering

CONSTANTS
    Sources,       \* the source groups a playlist may have, by name
    Tvgs,          \* guide ids
    StudioGroups,  \* lineup groups
    Syncs,         \* synchronisations in flight
    MaxRow,        \* bound on the ids of playlistchannel
    MaxChannel,    \* bound on the ids of templatechannel
    MaxChanges,    \* bound on the changes of refreshes and of administrators
    MaxSelected,   \* bound on the ids of one selection
    Nothing        \* NULL

ASSUME LibraryConstants == Nothing \notin Sources /\ IsFiniteSet(StudioGroups) /\ {MaxRow, MaxChanges, MaxSelected} \subseteq Nat

VARIABLES
    row,       \* playlistchannel: id -> [group, tvg]
    source,    \* playlistgroup: absent, enabled or disabled
    studio,    \* templategroup: new (not created yet), present or deleted
    lineup,    \* template_group_item: the groups of the lineup in order
    link,      \* lineup_group_source_link
    channel,   \* templatechannel: id -> tvgid
    place,     \* template_group_channel: group -> (channel -> orderr)
    member,    \* lineup_group_source_member
    variant,   \* templatechannelitem
    sync,      \* synchronisations between their statements
    edit,      \* an edit between the check of the link and its transaction
    next,      \* the next row and channel ids, and the changes made
    lagging    \* groups of the synchronisations in flight when their source was disabled

sgvars == <<row, source, studio, lineup, link, channel, place, member, variant, sync, edit, next, lagging>>

NoLink == [source |-> Nothing, name |-> Nothing, status |-> "none"]
NoSync == [pc |-> "idle", group |-> Nothing, source |-> Nothing, status |-> "none"]
NoEdit == [op |-> "none"]

SourceGroupsInit ==
    \E s \in Sources, x, y \in Tvgs \cup {Nothing} :
        /\ row = [r \in 1..2 |-> [group |-> s, tvg |-> IF r = 1 THEN x ELSE y]]
        /\ source = [t \in Sources |-> IF t = s THEN "enabled" ELSE "absent"]
        /\ studio = [g \in StudioGroups |-> "new"]
        /\ lineup = <<>>
        /\ link = [g \in StudioGroups |-> NoLink]
        /\ channel = <<>>
        /\ place = [g \in StudioGroups |-> <<>>]
        /\ member = {} /\ variant = {}
        /\ sync = [j \in Syncs |-> NoSync]
        /\ edit = NoEdit
        /\ next = [row |-> 3, channel |-> 1, changes |-> 0]
        /\ lagging = {}

Linked(g) == link[g] # NoLink
RowsOf(s) == {r \in DOMAIN row : row[r].group = s}
Members(g) == {m \in member : m.group = g}

\* workspaceGroupOrder: ORDER BY orderr, channel_id.
Before(order, c, d) == order[c] < order[d] \/ (order[c] = order[d] /\ c < d)

\* reindexWorkspaceGroup, and the UPDATE loops of the moves: positions 1, 2, ...
Numbered(order) == [c \in DOMAIN order |-> 1 + Cardinality({d \in DOMAIN order : Before(order, d, c)})]

\* The trigger template_group_channel_order: after the last position of any group.
LastPosition == Max({0} \cup UNION {Range(place[g]) : g \in StudioGroups})

\* sourceChannelIdentities: the guide id, told apart by the row when it is missing
\* or shared in the group.
Identity(r) ==
    LET t == row[r].tvg
    IN <<t, IF t = Nothing \/ \E q \in RowsOf(row[r].group) \ {r} : row[q].tvg = t THEN r ELSE 0>>

-----------------------------------------------------------------------------
(***************************************************************************)
(* What a refresh of the playlist does to its rows (m3u_parser.go,         *)
(* CleanPlaylist), with the cascades: a deleted row takes its variants,    *)
(* is forgotten by its members, and its group goes with its last row.      *)
(***************************************************************************)
Emptied(rows) == {s \in Sources : source[s] = "enabled" /\ \A r \in DOMAIN rows : rows[r].group # s}

RowsBecome(rows) ==
    /\ row' = rows
    /\ next.changes < MaxChanges
    /\ UNCHANGED <<studio, lineup, channel, place, sync, edit, lagging>>

RowAppears(s, t) ==
    /\ next.row <= MaxRow /\ source[s] # "disabled"
    /\ RowsBecome(With(row, next.row, [group |-> s, tvg |-> t]))
    /\ source' = [source EXCEPT ![s] = "enabled"]
    /\ next' = [next EXCEPT !.row = @ + 1, !.changes = @ + 1]
    /\ UNCHANGED <<link, member, variant>>

\* parseLine: a row found again, by its guide id or by its name, may be given
\* another guide id; its group is the one it was found in.
RowChanges(r, t) ==
    /\ row[r].tvg # t /\ source[row[r].group] # "disabled"
    /\ RowsBecome([row EXCEPT ![r].tvg = t])
    /\ next' = [next EXCEPT !.changes = @ + 1]
    /\ UNCHANGED <<source, link, member, variant>>

RowDeleted(r) ==
    /\ source[row[r].group] # "disabled"
    /\ LET left == [q \in DOMAIN row \ {r} |-> row[q]]
       IN /\ RowsBecome(left)
          /\ source' = [s \in Sources |-> IF s \in Emptied(left) THEN "absent" ELSE source[s]]
          /\ link' = [g \in StudioGroups |->
                         IF link[g].source \in Emptied(left) THEN [link[g] EXCEPT !.source = Nothing] ELSE link[g]]
    /\ member' = {IF m.row = r THEN [m EXCEPT !.row = 0] ELSE m : m \in member}
    /\ variant' = {v \in variant : v.row # r}
    /\ next' = [next EXCEPT !.changes = @ + 1]

\* Deleting the playlist: its rows, groups and links go by cascade.
PlaylistDeleted ==
    /\ row # <<>> /\ RowsBecome(<<>>)
    /\ source' = [s \in Sources |-> "absent"]
    /\ link' = [g \in StudioGroups |-> NoLink]
    /\ member' = {} /\ variant' = {}
    /\ next' = [next EXCEPT !.changes = MaxChanges, !.row = MaxRow + 1]

(***************************************************************************)
(* SetSourceGroupEnabled: linked groups keep their snapshot and are paused *)
(* while the source group is disabled.                                     *)
(***************************************************************************)
Paused_ActiveOnly(s, l) == l.source = s /\ l.status = "active"
Paused(s, l) == l.source = s

SetSourceGroupEnabled(s, enabled) ==
    /\ source[s] = (IF enabled THEN "disabled" ELSE "enabled")
    /\ next.changes < MaxChanges /\ next' = [next EXCEPT !.changes = @ + 1]
    /\ source' = [source EXCEPT ![s] = IF enabled THEN "enabled" ELSE "disabled"]
    /\ link' = [g \in StudioGroups |->
                   IF enabled /\ link[g].source = s /\ link[g].status = "paused"
                   THEN [link[g] EXCEPT !.status = "pending"]
                   ELSE IF ~enabled /\ Paused(s, link[g]) THEN [link[g] EXCEPT !.status = "paused"]
                   ELSE link[g]]
    /\ lagging' = IF enabled THEN lagging ELSE lagging \cup {sync[j].group : j \in {k \in Syncs : sync[k] # NoSync}}
    /\ UNCHANGED <<row, studio, lineup, channel, place, member, variant, sync, edit>>

-----------------------------------------------------------------------------
(***************************************************************************)
(* Operations of the studio on groups and links, each one transaction.     *)
(***************************************************************************)
Edits == next.changes < MaxChanges /\ next' = [next EXCEPT !.changes = @ + 1]

LinkTo(s) == [source |-> s, name |-> s, status |-> "pending"]

\* CreateStudioGroup, with a link to s or (Nothing) without one.
CreateStudioGroup(g, s) ==
    /\ studio[g] = "new" /\ Edits
    /\ s # Nothing => source[s] = "enabled"
    /\ studio' = [studio EXCEPT ![g] = "present"]
    /\ lineup' = Append(lineup, g)
    /\ link' = [link EXCEPT ![g] = IF s = Nothing THEN NoLink ELSE LinkTo(s)]
    /\ UNCHANGED <<row, source, channel, place, member, variant, sync, edit, lagging>>

\* setSourceGroupLinkTx: the members of an earlier link are kept.
SetSourceGroupLink(g, s) ==
    /\ studio[g] = "present" /\ source[s] = "enabled" /\ Edits
    /\ link' = [link EXCEPT ![g] = LinkTo(s)]
    /\ UNCHANGED <<row, source, studio, lineup, channel, place, member, variant, sync, edit, lagging>>

\* Channels cs are deleted, with their placements, members and variants.
WithoutChannels(order, cs) == [c \in DOMAIN order \ cs |-> order[c]]
KeptMembers(ms, cs) == {m \in ms : m.channel \notin cs}
KeptVariants(vs, cs) == {v \in vs : v.channel \notin cs}

\* DeleteStudioGroup: its channels go unless another group has them; the trigger
\* delete_template_group then deletes every channel no group has.
DeleteStudioGroup(g) ==
    /\ studio[g] = "present" /\ Edits
    /\ LET lost == DOMAIN channel \ UNION {DOMAIN place[h] : h \in StudioGroups \ {g}}
       IN /\ channel' = WithoutChannels(channel, lost)
          /\ place' = [place EXCEPT ![g] = <<>>]
          /\ member' = KeptMembers(member \ Members(g), lost)
          /\ variant' = KeptVariants(variant, lost)
    /\ studio' = [studio EXCEPT ![g] = "deleted"]
    /\ lineup' = SelectSeq(lineup, LAMBDA h : h # g)
    /\ link' = [link EXCEPT ![g] = NoLink]
    /\ UNCHANGED <<row, source, sync, edit, lagging>>

\* MoveWorkspaceGroup: before or after any other group.
MoveWorkspaceGroup(g, at) ==
    LET others == SelectSeq(lineup, LAMBDA h : h # g)
    IN /\ g \in ToSet(lineup) /\ at \in 0..Len(others) /\ others # <<>> /\ Edits
       /\ lineup' = SubSeq(others, 1, at) \o <<g>> \o SubSeq(others, at + 1, Len(others))
       /\ UNCHANGED <<row, source, studio, link, channel, place, member, variant, sync, edit, lagging>>

ManualFrom(v) == IF v.method = "sync" THEN [v EXCEPT !.method = "manual"] ELSE v

Unshared(g, cs) == {c \in cs : \A h \in StudioGroups \ {g} : c \notin DOMAIN place[h]}

DisconnectSourceGroup(g, retain) ==
    /\ Linked(g) /\ Edits
    /\ LET managed == {m.channel : m \in Members(g)}
           lost == IF retain THEN {} ELSE Unshared(g, managed)
           left == WithoutChannels(place[g], IF retain THEN {} ELSE managed)
       IN /\ channel' = WithoutChannels(channel, lost)
          /\ place' = [h \in StudioGroups |-> IF h = g THEN Numbered(left) ELSE WithoutChannels(place[h], lost)]
          /\ member' = KeptMembers(member \ Members(g), lost)
          /\ variant' = KeptVariants({IF v.channel \in managed THEN ManualFrom(v) ELSE v : v \in variant}, lost)
    /\ link' = [link EXCEPT ![g] = NoLink]
    /\ UNCHANGED <<row, source, studio, lineup, sync, edit, lagging>>

-----------------------------------------------------------------------------
(***************************************************************************)
(* Channels taken from rows as the user's own, after the last position     *)
(* (BatchAddWorkspaceChannels, importSourceGroupChannels).                 *)
(***************************************************************************)
Imports(g, ids) ==
    LET made == [i \in 1..Len(ids) |-> next.channel + i - 1]
    IN /\ next.channel + Len(ids) <= MaxChannel + 1
       /\ channel' = Beside(channel, [c \in ToSet(made) |-> row[ids[c - next.channel + 1]].tvg])
       /\ place' = [place EXCEPT ![g] = Beside(@, [c \in ToSet(made) |-> LastPosition + 1 + c - next.channel])]
       /\ variant' = variant \cup {[channel |-> made[i], row |-> ids[i], method |-> "manual"] : i \in 1..Len(ids)}
       /\ next' = [next EXCEPT !.channel = @ + Len(ids), !.changes = @ + 1]
       /\ UNCHANGED <<row, source, link, member, sync, lagging>>

\* CopySourceGroupToLineup: a new group from the snapshot, without a link.
CopySourceGroupToLineup(g, s) ==
    /\ studio[g] = "new" /\ source[s] = "enabled" /\ RowsOf(s) # {} /\ next.changes < MaxChanges
    /\ studio' = [studio EXCEPT ![g] = "present"]
    /\ lineup' = Append(lineup, g)
    /\ Imports(g, Ascending(RowsOf(s)))
    /\ UNCHANGED edit

\* AddSourceGroupToStudioGroup: the rows the group has no variant of yet.
AddSourceGroupToStudioGroup(g, s) ==
    /\ studio[g] = "present" /\ ~Linked(g)
    /\ source[s] = "enabled" /\ RowsOf(s) # {} /\ next.changes < MaxChanges
    /\ Imports(g, Ascending({r \in RowsOf(s) : \A v \in variant : v.row = r => v.channel \notin DOMAIN place[g]}))
    /\ UNCHANGED <<studio, lineup, edit>>

\* The controllers of channel edits first ask whether a group is linked, in a
\* statement of its own.
BeginEdit(op, g, h, ids) ==
    /\ edit = NoEdit /\ next.changes < MaxChanges
    /\ ~Linked(g) /\ ~Linked(h)
    /\ edit' = [op |-> op, from |-> g, to |-> h, ids |-> ids]
    /\ UNCHANGED <<row, source, studio, lineup, link, channel, place, member, variant, sync, next, lagging>>

BatchAdd ==
    /\ edit.op = "add" /\ studio[edit.from] = "present"
    /\ ToSet(edit.ids) \subseteq DOMAIN row
    /\ Imports(edit.from, edit.ids)
    /\ edit' = NoEdit /\ UNCHANGED <<studio, lineup>>

\* BatchRemoveWorkspaceChannels: from every group, and each is numbered again.
BatchRemove ==
    LET cs == ToSet(edit.ids)
        touched == {edit.from} \cup {h \in StudioGroups : cs \cap DOMAIN place[h] # {}}
    IN /\ edit.op = "remove" /\ cs \subseteq DOMAIN place[edit.from]
       /\ channel' = WithoutChannels(channel, cs)
       /\ place' = [h \in StudioGroups |->
                       IF h \in touched THEN Numbered(WithoutChannels(place[h], cs)) ELSE place[h]]
       /\ member' = KeptMembers(member, cs) /\ variant' = KeptVariants(variant, cs)
       /\ edit' = NoEdit /\ next' = [next EXCEPT !.changes = @ + 1]
       /\ UNCHANGED <<row, source, studio, lineup, link, sync, lagging>>

\* BatchMoveWorkspaceChannels, and MoveWorkspaceChannel when both groups are one:
\* the block goes before or after any other channel of the destination, or last.
BatchMove(at) ==
    LET g == edit.from
        h == edit.to
        cs == ToSet(edit.ids)
        others == Numbered(WithoutChannels(place[h], cs))
        final == [c \in DOMAIN others \cup cs |->
                     IF c \in cs THEN at + (CHOOSE i \in DOMAIN edit.ids : edit.ids[i] = c)
                     ELSE IF others[c] <= at THEN others[c] ELSE others[c] + Len(edit.ids)]
    IN /\ edit.op = "move" /\ studio[h] = "present" /\ cs \subseteq DOMAIN place[g] /\ at \in 0..Cardinality(DOMAIN others)
       /\ place' = [f \in StudioGroups |-> IF f = h THEN final
                                           ELSE IF f = g THEN Numbered(WithoutChannels(place[g], cs))
                                           ELSE place[f]]
       /\ edit' = NoEdit /\ next' = [next EXCEPT !.changes = @ + 1]
       /\ UNCHANGED <<row, source, studio, lineup, link, channel, member, variant, sync, lagging>>

\* The transaction finds that what it was asked for is gone.
EditFails ==
    /\ edit # NoEdit
    /\ \/ edit.op = "add" /\ (studio[edit.from] # "present" \/ ~(ToSet(edit.ids) \subseteq DOMAIN row))
       \/ edit.op # "add" /\ (studio[edit.to] # "present" \/ ~(ToSet(edit.ids) \subseteq DOMAIN place[edit.from]))
    /\ edit' = NoEdit
    /\ UNCHANGED <<row, source, studio, lineup, link, channel, place, member, variant, sync, next, lagging>>

-----------------------------------------------------------------------------
(***************************************************************************)
(* resolveLinkedSourceGroup: by id, by name, else by the overlap of the    *)
(* identities: at least half, and a tenth better than any other group.     *)
(***************************************************************************)
Overlap(g, s) ==
    LET wanted == {m.identity : m \in Members(g)}
    IN [matches |-> Cardinality({r \in RowsOf(s) : Identity(r) \in wanted}),
        size |-> Max({Cardinality(wanted), Cardinality(RowsOf(s))})]

Replaces(g, s) ==
    LET best == Overlap(g, s)
    IN /\ source[s] = "enabled" /\ Members(g) # {} /\ best.matches > 0 /\ 2 * best.matches >= best.size
       /\ \A t \in Sources \ {s} : source[t] = "enabled" =>
              LET other == Overlap(g, t)
              IN 10 * (best.matches * other.size - other.matches * best.size) >= best.size * other.size

Named(l) == IF l.source # Nothing THEN l.source ELSE l.name

\* SyncSourceGroup up to its transaction: the link is read and its source resolved.
SyncReads(j, g) ==
    /\ sync[j] = NoSync /\ Linked(g)
    /\ LET s == Named(link[g])
           Turns(pc, t, status) == sync' = [sync EXCEPT ![j] = [pc |-> pc, group |-> g, source |-> t, status |-> status]]
       IN \/ source[s] = "enabled" /\ Turns("commit", s, "active")
          \/ source[s] = "disabled" /\ Turns("mark", Nothing, "paused")
          \/ \E t \in Sources : source[s] = "absent" /\ Replaces(g, t) /\ Turns("commit", t, "active")
          \/ source[s] = "absent" /\ (\A t \in Sources : ~Replaces(g, t)) /\ Turns("mark", Nothing, "disconnected")
    /\ UNCHANGED <<row, source, studio, lineup, link, channel, place, member, variant, edit, next, lagging>>

\* markSourceGroupLinkFailure, a statement of its own.
SyncMarks(j) ==
    LET g == sync[j].group
    IN /\ sync[j].pc = "mark"
       /\ link' = [link EXCEPT ![g] = IF Linked(g) THEN [@ EXCEPT !.status = sync[j].status] ELSE @]
       /\ lagging' = IF sync[j].status = "paused" /\ \A k \in Syncs \ {j} : sync[k].group # g THEN lagging \ {g} ELSE lagging
       /\ sync' = [sync EXCEPT ![j] = NoSync]
       /\ UNCHANGED <<row, source, studio, lineup, channel, place, member, variant, edit, next>>

(***************************************************************************)
(* syncResolvedSourceGroup, one transaction.  A row is carried by the      *)
(* member that has it, else by the member with its identity, else by a     *)
(* channel of the group nobody claimed with its guide id or variant, else  *)
(* by a new channel.  Members and channels are looked up as they were      *)
(* before the first row.                                                   *)
(***************************************************************************)
Carrying(g, r) ==
    LET mine == {m \in Members(g) : m.row = r}
    IN IF mine # {} THEN mine ELSE {m \in Members(g) : m.identity = Identity(r)}

Adoptable(g, r, claimed, variants) ==
    {c \in DOMAIN place[g] \ claimed :
        \/ row[r].tvg # Nothing /\ channel[c] = row[r].tvg
        \/ \E v \in variants : v.channel = c /\ v.row = r}

First(order, cs) == CHOOSE c \in cs : \A d \in cs \ {c} : Before(order, c, d)

Carrier(g, acc, r) ==
    LET known == Carrying(g, r)
        adopted == Adoptable(g, r, acc.claimed, acc.variant)
    IN IF known # {} THEN (CHOOSE m \in known : TRUE).channel
       ELSE IF adopted # {} THEN First(place[g], adopted) ELSE acc.next

OthersOf(g, acc, c) == {m \in acc.member : ~(m.group = g /\ m.channel = c)}

\* One row, the i-th, by channel c; UNIQUE(group_id, source_identity) fails the
\* transaction.
CarryBy(g, acc, r, i, c) ==
    [channel |-> IF c = acc.next THEN With(acc.channel, c, row[r].tvg) ELSE acc.channel,
     next |-> IF c = acc.next THEN c + 1 ELSE acc.next,
     order |-> With(acc.order, c, i),
     member |-> OthersOf(g, acc, c) \cup {[group |-> g, channel |-> c, row |-> r, identity |-> Identity(r)]},
     variant |-> KeptVariants(acc.variant, {c}) \cup {[channel |-> c, row |-> r, method |-> "sync"]},
     claimed |-> acc.claimed \cup {c},
     seen |-> acc.seen \cup {c},
     failed |-> acc.failed \/ \E m \in OthersOf(g, acc, c) : m.group = g /\ m.identity = Identity(r)]

Carry(g, acc, r, i) == CarryBy(g, acc, r, i, Carrier(g, acc, r))

CarriedUpTo(g, rows) ==
    LET acc[i \in 0..Len(rows)] ==
          IF i = 0 THEN [channel |-> channel, next |-> next.channel, order |-> place[g], member |-> member, variant |-> variant,
                         claimed |-> {m.channel : m \in Members(g)}, seen |-> {}, failed |-> FALSE]
          ELSE Carry(g, acc[i - 1], rows[i], i)
    IN acc

Carried(g, s) == CarriedUpTo(g, Ascending(RowsOf(s)))[Cardinality(RowsOf(s))]

\* The managed channels no row is carried by leave the group.
Unseen_None(g, acc) == {}
Unseen(g, acc) == {m.channel : m \in Members(g)} \ acc.seen

SyncCommits(j) ==
    LET g == sync[j].group
        s == sync[j].source
        acc == Carried(g, s)
        gone == Unseen(g, acc)
        lost == Unshared(g, gone)
    IN /\ sync[j].pc = "commit" /\ Linked(g) /\ RowsOf(s) # {} /\ ~acc.failed
       /\ acc.next <= MaxChannel + 1
       /\ channel' = WithoutChannels(acc.channel, lost)
       /\ place' = [h \in StudioGroups |->
                       IF h = g THEN WithoutChannels(acc.order, gone) ELSE place[h]]
       /\ member' = KeptMembers({m \in acc.member : ~(m.group = g /\ m.channel \in gone)}, lost)
       /\ variant' = KeptVariants({IF v.channel \in gone THEN ManualFrom(v) ELSE v : v \in acc.variant}, lost)
       /\ link' = [link EXCEPT ![g] = [source |-> s, name |-> s, status |-> "active"]]
       /\ next' = [next EXCEPT !.channel = acc.next]
       /\ sync' = [sync EXCEPT ![j] = NoSync]
       /\ UNCHANGED <<row, source, studio, lineup, edit, lagging>>

\* The transaction rolls back: no row, a link or a group that is gone (the foreign
\* keys of lineup_group_source_member), or an identity another member still has.
SyncFails(j) ==
    LET g == sync[j].group
    IN /\ sync[j].pc = "commit"
       /\ ~Linked(g) \/ RowsOf(sync[j].source) = {} \/ Carried(g, sync[j].source).failed
       /\ sync' = [sync EXCEPT ![j] = [@ EXCEPT !.pc = "mark", !.status = "error"]]
       /\ UNCHANGED <<row, source, studio, lineup, link, channel, place, member, variant, edit, next, lagging>>

-----------------------------------------------------------------------------
\* The selections of an edit: distinct ids, in the order they were chosen.
Selections(ids) == {p \in UNION {[1..n -> ids] : n \in 1..MaxSelected} : IsInjective(p)}

SourceGroupsNext ==
    \/ \E s \in Sources, t \in Tvgs \cup {Nothing} : RowAppears(s, t)
    \/ \E r \in DOMAIN row, t \in Tvgs : RowChanges(r, t)
    \/ \E r \in DOMAIN row : RowDeleted(r)
    \/ PlaylistDeleted
    \/ \E s \in Sources, enabled \in BOOLEAN : SetSourceGroupEnabled(s, enabled)
    \/ \E g \in StudioGroups, s \in Sources \cup {Nothing} : CreateStudioGroup(g, s)
    \/ \E g \in StudioGroups, s \in Sources : SetSourceGroupLink(g, s)
    \/ \E g \in StudioGroups : DeleteStudioGroup(g)
    \/ \E g \in StudioGroups, at \in 0..Cardinality(StudioGroups) : MoveWorkspaceGroup(g, at)
    \/ \E g \in StudioGroups, retain \in BOOLEAN : DisconnectSourceGroup(g, retain)
    \/ \E g \in StudioGroups, s \in Sources : CopySourceGroupToLineup(g, s)
    \/ \E g \in StudioGroups, s \in Sources : AddSourceGroupToStudioGroup(g, s)
    \/ \E g \in StudioGroups : \E ids \in Selections(DOMAIN row) : BeginEdit("add", g, g, ids)
    \/ \E g \in StudioGroups : \E ids \in Selections(DOMAIN place[g]) : BeginEdit("remove", g, g, ids)
    \/ \E g, h \in StudioGroups : \E ids \in Selections(DOMAIN place[g]) : BeginEdit("move", g, h, ids)
    \/ BatchAdd \/ BatchRemove \/ EditFails
    \/ \E at \in 0..MaxChannel : BatchMove(at)
    \/ \E j \in Syncs, g \in StudioGroups : SyncReads(j, g)
    \/ \E j \in Syncs : SyncMarks(j) \/ SyncCommits(j) \/ SyncFails(j)

SourceGroupsSpec == SourceGroupsInit /\ [][SourceGroupsNext]_sgvars

-----------------------------------------------------------------------------
\* A row has the identity of another row's member, and both rows are there, or the
\* row has a member of its own beside it.
Contested(g, s) ==
    \E r \in RowsOf(s) : \E m \in Members(g) :
        m.row # r /\ m.identity = Identity(r) /\ (m.row \in RowsOf(s) \/ \E n \in Members(g) : n.row = r)

(***************************************************************************)
(* After a synchronisation every row of the source group is carried by a   *)
(* channel of its own, in the order of the source, and no channel the link *)
(* manages stays without a row.  It fails only when the source has no row  *)
(* or the link is gone.  The exception is the code's: an identity that     *)
(* moved between rows since the last synchronisation may be carried twice  *)
(* or fail it (source_group_sync_query.go:797, 846).                       *)
(***************************************************************************)
SyncFollowsSource ==
    [][\A j \in Syncs : sync[j].pc = "commit" /\ sync'[j] # sync[j] =>
          LET g == sync[j].group
              s == sync[j].source
          IN \/ Contested(g, s)
             \/ sync'[j].pc = "mark" /\ (~Linked(g) \/ RowsOf(s) = {})
             \/ /\ sync'[j] = NoSync
                /\ {m.row : m \in {n \in member' : n.group = g}} = RowsOf(s)
                /\ \A m, n \in member' : m.group = g /\ n.group = g /\ m.row < n.row =>
                       m.channel # n.channel /\ place'[g][m.channel] < place'[g][n.channel]
                /\ \A m \in member' : m.group = g => [channel |-> m.channel, row |-> m.row, method |-> "sync"] \in variant'
      ]_sgvars

(***************************************************************************)
(* A group linked to a disabled source group shows that it is paused,      *)
(* unless a synchronisation was under way when it was disabled: its        *)
(* transaction does not look at the flag again                             *)
(* (source_group_sync_query.go:900).                                       *)
(***************************************************************************)
PausedUnlessOverlapped ==
    \A g \in StudioGroups :
        link[g].source # Nothing /\ source[link[g].source] = "disabled" =>
            link[g].status = "paused" \/ g \in lagging

=============================================================================
