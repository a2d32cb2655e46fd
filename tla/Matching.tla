------------------------------- MODULE Matching -------------------------------
(***************************************************************************)
(* The sources of lineup channels: automatic matching (matching_tools.go,  *)
(* channelmatch/matcher.go), the manual decisions about it (template_query *)
(* .go, experience_query.go) and the merge of channels that have one guide *)
(* id (duplicate_tvg_query.go).                                            *)
(*                                                                         *)
(* Abstractions: a name is what ParseName makes of it; the similarity of   *)
(* two bases is a constant; orderr is the place in a sequence (the insert  *)
(* trigger puts a new source last); both passes are switched on; groups    *)
(* are enabled and all channels are in one lineup.                         *)
(***************************************************************************)
EXTENDS Naturals, Sequences, FiniteSets, SequencesExt, FiniteSetsExt, Filtering

CONSTANTS
    Canonical,    \* channels of lineups
    PlRows,       \* channels of playlists
    PlaylistOf,   \* PlRows -> playlist
    Renames,      \* those of Titles a change may give (a bound)
    Titles,       \* parsed names: [canonical, base, numbers, locales, regions, feeds]
    GuideIds,     \* normalised guide ids
    NoGuideId,
    Similarity,   \* Titles -> Titles -> percent, of bases that differ
    NameScore,    \* settings: playlist.name_score, of 10000
    PoolSize,     \* goroutines of the pool (the code: 3)
    MatchAttempts,\* tries of a row's pass (the code: 3)
    MaxDecisions  \* bound on what people and providers do

ASSUME FinitelyManyChannels == IsFiniteSet(Canonical) /\ IsFiniteSet(PlRows)

VARIABLES
    canon,     \* Canonical -> [name, tvg, managed], or what it is instead
    plrow,     \* existing rows: -> [name, tvg, enabled]
    stack,     \* Canonical -> sequence of [row, auto], primary first
    rejection, \* channelmatchrejection: {[channel, list, tvg, name]}
    asked,     \* match requests nobody has taken
    matching,  \* requests the pool is working on
    accepting, \* AddChannelMatch calls that still have to clear a rejection
    merging,   \* a merge that has read its review
    decisions, \* counts what people and providers did
    removed    \* history: sources people removed and nobody accepted since

mvars == <<canon, plrow, stack, rejection, asked, matching, accepting, merging, decisions, removed>>

Unborn == [is |-> "unborn"]
Gone == [is |-> "gone"]
NoMerge == [dups |-> {}]
Exists(c) == canon[c] \notin {Unborn, Gone}
Live == {c \in Canonical : Exists(c)}

-----------------------------------------------------------------------------
(* matcher.go.  Scores are of 10000.                                        *)

OneMissing(a, b) == (a = {}) # (b = {})
Conflicts(a, b) == a # {} /\ b # {} /\ a # b

Compatible(q, t) ==
    /\ ~Conflicts(q.numbers, t.numbers) /\ ~Conflicts(q.locales, t.locales)
    /\ ~Conflicts(q.regions, t.regions) /\ ~Conflicts(q.feeds, t.feeds)

Percent(s, p) == (s * p) \div 100
MissingAttributes(q, t, s) ==
    LET n == IF OneMissing(q.numbers, t.numbers) THEN Percent(s, 90) ELSE s
        l == IF OneMissing(q.locales, t.locales) THEN Percent(n, 97) ELSE n
        r == IF OneMissing(q.regions, t.regions) THEN Percent(l, 85) ELSE l
    IN IF OneMissing(q.feeds, t.feeds) THEN Percent(r, 85) ELSE r

\* 0: not a result at all.
Score(q, t) ==
    IF q.canonical = t.canonical THEN 10000
    ELSE IF ~Compatible(q, t) THEN 0
    ELSE MissingAttributes(q, t, IF q.base = t.base THEN 9900 ELSE Percent(10000, Similarity[q][t]))

\* The results for q, best first; candidates is a set of [id, name].
Rank(q, candidates) ==
    SetToSortSeq({c \in candidates : Score(q, c.name) > 0},
                 LAMBDA c, d : Score(q, c.name) > Score(q, d.name) \/ (Score(q, c.name) = Score(q, d.name) /\ c.id < d.id))

Automatic(q, candidates) ==
    LET results == Rank(q, candidates)
        score(i) == IF i \in DOMAIN results THEN Score(q, results[i].name) ELSE 0
    IN IF results = <<>> THEN {}
       ELSE IF results[1].name.canonical = q.canonical
            THEN IF Cardinality({i \in DOMAIN results : results[i].name.canonical = q.canonical}) = 1
                 THEN {results[1].id} ELSE {}
       ELSE IF score(1) < NameScore \/ score(1) - score(2) < 500 THEN {} ELSE {results[1].id}

-----------------------------------------------------------------------------
IdentityOf(r) == [tvg |-> plrow[r].tvg, name |-> plrow[r].name]
Matches(a, b) == (a.tvg # NoGuideId /\ a.tvg = b.tvg) \/ a.name.canonical = b.name.canonical

\* ChannelMatchRejected: people removed this identity from the channel before.
Rejected_ByGuideId(c, list, id) ==
    \E j \in rejection : j.channel = c /\ j.list = list /\ j.id.tvg # NoGuideId /\ j.id.tvg = id.tvg

Rejected(c, list, id) == \E j \in rejection : j.channel = c /\ j.list = list /\ Matches(j.id, id)

\* TmplChannelExists and the trigger one_automatic_source_per_playlist.
HasSource(c, r) == \E i \in DOMAIN stack[c] : PlaylistOf[stack[c][i].row] = PlaylistOf[r]

Has(c, r) == \E i \in DOMAIN stack[c] : stack[c][i].row = r
Without(sources, r) == Omitting(sources, {s \in ToSet(sources) : s.row = r})
Accepted(c, r, marks) == {m \in marks : ~(m.channel = c /\ m.list = PlaylistOf[r] /\ Matches(m.id, IdentityOf(r)))}
Mark(c, r) == [channel |-> c, list |-> PlaylistOf[r], id |-> IdentityOf(r)]

ForRow(r) == [kind |-> "row", id |-> r, copy |-> plrow[r]]
ForChannel(c, name, tvg) == [kind |-> "channel", id |-> c, copy |-> [name |-> name, tvg |-> tvg]]

-----------------------------------------------------------------------------
(***************************************************************************)
(* What people and providers do.                                           *)
(***************************************************************************)
Decides == decisions < MaxDecisions /\ decisions' = decisions + 1

\* CreateTemplateChannel; ConvertPlChannel, which attaches the row it copies.
CreateChannel(c, r, attached) ==
    /\ Decides /\ canon[c] = Unborn /\ r \in DOMAIN plrow
    /\ canon' = [canon EXCEPT ![c] = [name |-> plrow[r].name, tvg |-> plrow[r].tvg, managed |-> FALSE]]
    /\ stack' = [stack EXCEPT ![c] = IF attached THEN <<[row |-> r, auto |-> FALSE]>> ELSE <<>>]
    /\ asked' = asked \cup {ForChannel(c, plrow[r].name, plrow[r].tvg)}
    /\ UNCHANGED <<plrow, rejection, matching, accepting, merging, removed>>

\* UpdateTemplateChannel asks for matches, UpdateWorkspaceChannel does not.
EditChannel(c, name, tvg, asks) ==
    /\ Decides /\ Exists(c)
    /\ canon' = [canon EXCEPT ![c].name = name, ![c].tvg = tvg]
    /\ asked' = IF asks THEN asked \cup {ForChannel(c, name, tvg)} ELSE asked
    /\ UNCHANGED <<plrow, stack, rejection, matching, accepting, merging, removed>>

\* A source group takes the channel over, or lets it go.
ManageChannel(c) ==
    /\ Decides /\ Exists(c)
    /\ canon' = [canon EXCEPT ![c].managed = ~@]
    /\ UNCHANGED <<plrow, stack, rejection, asked, matching, accepting, merging, removed>>

\* A refresh writes the row, found by its guide id or by its name, and asks.
RefreshRow(r, name, tvg) ==
    /\ Decides /\ r \in DOMAIN plrow /\ (name = plrow[r].name \/ (tvg = plrow[r].tvg /\ tvg # NoGuideId))
    /\ plrow' = [plrow EXCEPT ![r].name = name, ![r].tvg = tvg]
    /\ asked' = asked \cup {[kind |-> "row", id |-> r, copy |-> plrow'[r]]}
    /\ UNCHANGED <<canon, stack, rejection, matching, accepting, merging, removed>>

\* The row and, by cascade, its places in the stacks.
DeleteRow(r) ==
    /\ Decides /\ r \in DOMAIN plrow
    /\ plrow' = [q \in DOMAIN plrow \ {r} |-> plrow[q]]
    /\ stack' = [c \in Canonical |-> Without(stack[c], r)]
    /\ accepting' = {a \in accepting : a.row # r}
    /\ UNCHANGED <<canon, rejection, asked, matching, merging, removed>>

SetSourceChannelsEnabled(r) ==
    /\ Decides /\ r \in DOMAIN plrow
    /\ plrow' = [plrow EXCEPT ![r].enabled = ~@]
    /\ UNCHANGED <<canon, stack, rejection, asked, matching, accepting, merging, removed>>

\* One transaction: attach last or lock in place, and forget the rejection.
AttachManualMatch(c, r) ==
    /\ Decides /\ Exists(c) /\ r \in DOMAIN plrow
    /\ stack' = [stack EXCEPT ![c] =
          IF Has(c, r) THEN [i \in DOMAIN @ |-> IF @[i].row = r THEN [@[i] EXCEPT !.auto = FALSE] ELSE @[i]]
          ELSE Append(@, [row |-> r, auto |-> FALSE])]
    /\ rejection' = Accepted(c, r, rejection) /\ removed' = Accepted(c, r, removed)
    /\ UNCHANGED <<canon, plrow, asked, matching, accepting, merging>>

\* AddChannelMatch: the same as two transactions, and nothing for a source that
\* is attached already.
AddChannelMatch(c, r) ==
    /\ Decides /\ Exists(c) /\ r \in DOMAIN plrow /\ ~Has(c, r)
    /\ stack' = [stack EXCEPT ![c] = Append(@, [row |-> r, auto |-> FALSE])]
    /\ accepting' = accepting \cup {[channel |-> c, row |-> r]}
    /\ removed' = Accepted(c, r, removed)
    /\ UNCHANGED <<canon, plrow, rejection, asked, matching, merging>>

\* Its second transaction.  A removal in between is forgotten with it.
ClearChannelMatchRejection(a) ==
    /\ accepting' = accepting \ {a}
    /\ rejection' = Accepted(a.channel, a.row, rejection) /\ removed' = Accepted(a.channel, a.row, removed)
    /\ UNCHANGED <<canon, plrow, stack, asked, matching, merging, decisions>>

\* DeleteTmplChannelItem: the source goes, its identity is remembered.
RemoveSource(c, r) ==
    /\ Decides /\ Exists(c) /\ Has(c, r)
    /\ stack' = [stack EXCEPT ![c] = Without(@, r)]
    /\ rejection' = rejection \cup {Mark(c, r)} /\ removed' = removed \cup {Mark(c, r)}
    /\ UNCHANGED <<canon, plrow, asked, matching, accepting, merging>>

DeleteMatchRejection(j) ==
    /\ Decides
    /\ rejection' = rejection \ {j} /\ removed' = removed \ {j}
    /\ UNCHANGED <<canon, plrow, stack, asked, matching, accepting, merging>>

\* Before or after any other source.
MoveMatchVariant(c, r, at) ==
    LET others == Without(stack[c], r)
        moved == CHOOSE s \in ToSet(stack[c]) : s.row = r
    IN /\ Decides /\ Exists(c) /\ Has(c, r) /\ others # <<>> /\ at \in 1..Len(others) + 1
       /\ stack' = [stack EXCEPT ![c] = InsertAt(others, at, moved)]
       /\ UNCHANGED <<canon, plrow, rejection, asked, matching, accepting, merging, removed>>

-----------------------------------------------------------------------------
(***************************************************************************)
(* MergeDuplicateTVGIDChannels: the review is read before the transaction, *)
(* which then moves what it finds.                                         *)
(***************************************************************************)
MergeReads(keep) ==
    LET same == {c \in Live : canon[c].tvg = canon[keep].tvg}
    IN /\ Decides /\ merging = NoMerge /\ canon[keep].tvg # NoGuideId
       /\ Cardinality(same) > 1 /\ \A c \in same : ~canon[c].managed
       /\ merging' = [keep |-> keep, dups |-> same \ {keep}, tvg |-> canon[keep].tvg]
       /\ UNCHANGED <<canon, plrow, stack, rejection, asked, matching, accepting, removed>>

\* INSERT OR IGNORE: the sources of another channel follow as manual ones, but
\* for the rows that are there already.
Joined(kept, others) ==
    LET fresh == Omitting(others, {s \in ToSet(others) : \E i \in DOMAIN kept : kept[i].row = s.row})
    IN kept \o [i \in 1..Len(fresh) |-> [row |-> fresh[i].row, auto |-> FALSE]]

MovedUpTo(keep, dups) ==
    LET moved[i \in 0..Cardinality(dups)] ==
          IF i = 0 THEN stack[keep] ELSE Joined(moved[i - 1], stack[SetToSeq(dups)[i]])
    IN moved

Moved(keep, dups) == MovedUpTo(keep, dups)[Cardinality(dups)]

Inherits(keep, dups, marks) == {IF m.channel \in dups THEN [m EXCEPT !.channel = keep] ELSE m : m \in marks}

MergeCommits ==
    LET keep == merging.keep
        dups == merging.dups \cap Live
    IN /\ Exists(keep)
       /\ stack' = [c \in Canonical |-> IF c = keep THEN Moved(keep, dups) ELSE IF c \in dups THEN <<>> ELSE stack[c]]
       /\ rejection' = Inherits(keep, dups, rejection)
       /\ removed' = {IF m.channel \in dups THEN [m EXCEPT !.channel = keep] ELSE m : m \in removed}
       /\ canon' = [c \in Canonical |-> IF c \in dups THEN Gone ELSE canon[c]]
       /\ accepting' = {a \in accepting : a.channel \notin dups}
       /\ merging' = NoMerge
       /\ UNCHANGED <<plrow, asked, matching, decisions>>

-----------------------------------------------------------------------------
(***************************************************************************)
(* The pool.  A request carries the copy its sender had.  Choices are made *)
(* before the transaction, which is one step; channel names alone are      *)
(* ranked inside it.  chosen: {[channel, row, seen]}, empty until a choice. *)
(***************************************************************************)
Becomes(m, v) == matching' = (matching \ {m}) \cup {v}
Ends(m) == matching' = matching \ {m}
Chooses(m, pairs) ==
    IF pairs = {} THEN IF m.pass = "tvg" THEN Becomes(m, [m EXCEPT !.pass = "name", !.attempts = 1]) ELSE Ends(m)
    ELSE Becomes(m, [m EXCEPT !.chosen = pairs])

Take(q) ==
    /\ asked' = asked \ {q}
    /\ \/ q.kind = "row" /\ (q.kind = "row" => ~q.copy.enabled) /\ UNCHANGED matching
       \/ (q.kind = "row" => q.copy.enabled) /\ Cardinality(matching) < PoolSize
          /\ matching' = matching \cup {[of |-> q, pass |-> "tvg", chosen |-> {}, attempts |-> 1]}
    /\ UNCHANGED <<canon, plrow, stack, rejection, accepting, merging, decisions, removed>>

ChannelsNamed(cs) == {[id |-> c, name |-> canon[c].name] : c \in cs}
RowsNamed(rs) == {[id |-> r, name |-> plrow[r].name] : r \in rs}

\* executeMatchPlaylistTvgid and executeMatchPlaylistChannelName, first halves.
RowChooses(m) ==
    LET q == m.of
        withId == IF q.copy.tvg = NoGuideId THEN {} ELSE {c \in Live : canon[c].tvg = q.copy.tvg}
        byId == IF Cardinality(withId) < 2 THEN withId ELSE Automatic(q.copy.name, ChannelsNamed(withId))
        best == IF m.pass = "tvg" THEN byId ELSE Automatic(q.copy.name, ChannelsNamed(Live))
    IN /\ q.kind = "row" /\ m.chosen = {}
       /\ Chooses(m, {[channel |-> c, row |-> q.id, seen |-> [tvg |-> q.copy.tvg, name |-> q.copy.name]] : c \in best})
       /\ UNCHANGED <<canon, plrow, stack, rejection, asked, accepting, merging, decisions, removed>>

\* matchTemplateTvgid, first half: one row of each playlist.
ChannelChooses(m) ==
    LET q == m.of
        rows == {r \in DOMAIN plrow : plrow[r].enabled /\ plrow[r].tvg = q.copy.tvg /\ q.copy.tvg # NoGuideId}
        ofList(p) == {r \in rows : PlaylistOf[r] = p}
        best(p) == IF Cardinality(ofList(p)) < 2 THEN ofList(p) ELSE Automatic(q.copy.name, RowsNamed(ofList(p)))
    IN /\ q.kind = "channel" /\ m.pass = "tvg" /\ m.chosen = {}
       /\ Chooses(m, {[channel |-> q.id, row |-> r, seen |-> IdentityOf(r)] : r \in UNION {best(PlaylistOf[s]) : s \in rows}})
       /\ UNCHANGED <<canon, plrow, stack, rejection, asked, accepting, merging, decisions, removed>>

Attaches(pairs) ==
    LET new(c) == {p \in pairs : p.channel = c}
    IN stack' = [c \in Canonical |->
                    stack[c] \o [i \in 1..Cardinality(new(c)) |-> [row |-> SetToSeq(new(c))[i].row, auto |-> TRUE]]]

\* The transaction, for what is neither rejected nor has a source.  A row or
\* channel that is gone breaks a foreign key; rows are then tried again.
Commit(m) ==
    LET wanted == {p \in m.chosen : ~Rejected(p.channel, PlaylistOf[p.row], p.seen) /\ ~HasSource(p.channel, p.row)}
        sound == \A p \in wanted : Exists(p.channel) /\ p.row \in DOMAIN plrow
    IN /\ m.chosen # {}
       /\ \/ /\ sound /\ Attaches(wanted)
             /\ IF m.of.kind = "channel" THEN Becomes(m, [m EXCEPT !.pass = "name", !.chosen = {}]) ELSE Ends(m)
          \/ /\ ~sound /\ UNCHANGED stack
             /\ IF m.of.kind = "row" /\ m.attempts < MatchAttempts
                THEN Becomes(m, [m EXCEPT !.chosen = {}, !.attempts = @ + 1]) ELSE Ends(m)
       /\ UNCHANGED <<canon, plrow, rejection, asked, accepting, merging, decisions, removed>>

\* matchTemplateChannelName: one source of each playlist that has none yet.
ChannelNames(m) ==
    LET q == m.of
        rows(p) == {r \in DOMAIN plrow : plrow[r].enabled /\ PlaylistOf[r] = p}
        best == UNION {Automatic(q.copy.name, RowsNamed(rows(PlaylistOf[r]))) : r \in DOMAIN plrow}
        wanted == {r \in best : ~HasSource(q.id, r) /\ ~Rejected(q.id, PlaylistOf[r], IdentityOf(r))}
    IN /\ q.kind = "channel" /\ m.pass = "name"
       /\ IF Exists(q.id) THEN Attaches({[channel |-> q.id, row |-> r] : r \in wanted}) ELSE UNCHANGED stack
       /\ Ends(m)
       /\ UNCHANGED <<canon, plrow, rejection, asked, accepting, merging, decisions, removed>>

-----------------------------------------------------------------------------
MatchingInit ==
    /\ canon = [c \in Canonical |-> Unborn]
    /\ plrow \in [PlRows -> [name : Titles, tvg : GuideIds \cup {NoGuideId}, enabled : {TRUE}]]
    /\ stack = [c \in Canonical |-> <<>>] /\ rejection = {} /\ asked = {ForRow(r) : r \in PlRows}
    /\ matching = {} /\ accepting = {} /\ merging = NoMerge
    /\ decisions = 0 /\ removed = {}

MatchStep(m) == RowChooses(m) \/ ChannelChooses(m) \/ Commit(m) \/ ChannelNames(m)

PeopleDecide ==
    \/ \E c \in Canonical, name \in Renames, tvg \in GuideIds \cup {NoGuideId}, asks \in BOOLEAN : EditChannel(c, name, tvg, asks)
    \/ \E c \in Canonical, r \in PlRows :
          \/ \E attached \in BOOLEAN : CreateChannel(c, r, attached)
          \/ AttachManualMatch(c, r) \/ AddChannelMatch(c, r) \/ RemoveSource(c, r)
          \/ \E at \in 1..Cardinality(PlRows) : MoveMatchVariant(c, r, at)
    \/ \E c \in Live : ManageChannel(c) \/ MergeReads(c)
    \/ \E j \in rejection : DeleteMatchRejection(j)
    \/ \E r \in PlRows :
          \/ \E name \in Renames, tvg \in GuideIds \cup {NoGuideId} : RefreshRow(r, name, tvg)
          \/ DeleteRow(r) \/ SetSourceChannelsEnabled(r)

MatchingNext ==
    \/ PeopleDecide
    \/ \E a \in accepting : ClearChannelMatchRejection(a)
    \/ merging # NoMerge /\ MergeCommits
    \/ \E q \in asked : Take(q)
    \/ \E m \in matching : MatchStep(m)

MatchingSpec == MatchingInit /\ [][MatchingNext]_mvars

-----------------------------------------------------------------------------
NewSources(c) == {s \in ToSet(stack'[c]) \ ToSet(stack[c]) : s.auto}

\* The row the pool attaches is not the row it looked at any more.
Outdated(c, r) ==
    \E m \in matching \ matching' : \E p \in m.chosen : p.channel = c /\ p.row = r /\ p.seen # IdentityOf(r)

(***************************************************************************)
(* A source people removed from a channel is not matched to it again, by   *)
(* its guide id or by its name, whatever was merged or asked meanwhile,    *)
(* until they accept it; only a row that changed since the matcher read it *)
(* may slip through (template_query.go:594, :732).                         *)
(***************************************************************************)
RemovedStaysOut ==
    [][\A c \in Canonical : \A s \in NewSources(c) :
          \A m \in removed : m.channel = c /\ m.list = PlaylistOf[s.row] =>
              ~Matches(m.id, IdentityOf(s.row)) \/ Outdated(c, s.row)]_mvars

=============================================================================
