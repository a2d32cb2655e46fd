------------------------------ MODULE GuideImport ------------------------------
(* The programme guide.  An import reads an XMLTV document, adds or updates *)
(* the channels it lists and then its programmes, by two workers, rebuilds  *)
(* the guide file of every lineup and removes old programmes                *)
(* (ParseEpgWithProgress and the functions it calls, UpdateEpgs,            *)
(* RefreshEpg, V2RefreshGuideSource); only scheduled imports exclude one    *)
(* another.  A guide file holds the programmes of a window, with            *)
(* placeholders where the lineup asks for them (CreateEpgXMLWithProgress).  *)
(*                                                                          *)
(* Times are hours.  A time is stored as text in the configured timezone,   *)
(* so that equal instants written in two timezones differ, and a window is  *)
(* compared with the text: a timezone is its offset.  One lineup, whose     *)
(* channels are those of the guide with a programme.                        *)
EXTENDS Integers, Sequences, FiniteSets, SequencesExt

CONSTANTS
    GuideNames,     \* channel names of the guide
    Showing,        \* the one with programmes
    Labels,         \* titles and display names
    Zones,          \* offsets of the timezones that may be configured
    Horizon,        \* last hour of the guide
    History,        \* hours of the past that are kept, and published
    Future,         \* hours ahead that are published
    SlotLength,     \* length of a placeholder (4 hours in the code)
    GuideJobs,      \* imports and rebuilds that may run at once
    GuideWorkers,   \* workers of an import (2 in the code)
    MaxGuideEdits,  \* changes of the document, of the timezone, of the clock and of the choice: bounds the state
    MaxRuns         \* imports and rebuilds in a behaviour: bounds the state

ASSUME GuideAssumption ==
    /\ {Horizon, History, Future, MaxGuideEdits, MaxRuns} \subseteq Nat
    /\ SlotLength \in Nat \ {0} /\ GuideWorkers \in Nat \ {0} /\ Zones \subseteq Nat
    /\ Showing \in GuideNames

VARIABLES
    epgDocument,   \* what the guide source serves: its channels and programmes
    epgChannel,    \* rows of epgchannel: name -> identifier and display name
    epgProgramme,  \* rows of epgprogramme: identifier -> instants, timezone of the text, title
    zone,          \* configured timezone
    hour,          \* the clock
    fillMissing,   \* whether the lineup fills the gaps of its guide
    guideJob,      \* imports and rebuilds
    xmltv,         \* guide file of the lineup
    guideTally          \* identifiers and changes so far
guideVars == <<epgDocument, epgChannel, epgProgramme, zone, hour, fillMissing, guideJob, xmltv, guideTally>>

Programmes == [start : 0..Horizon, stop : 0..Horizon, title : Labels]
Lasting == {p \in Programmes : p.start < p.stop}
NoGuideJob == [at |-> "idle"]
NoGuideFile == [from |-> 0, to |-> 0, fill |-> FALSE, entries |-> {}]
GuideImporting == {j \in GuideJobs : guideJob[j].at \notin {"idle", "render", "replace"}}
GuideExpired(p) == p.stop < hour - History

(* The rows found by the text of their times, in the timezone of today.     *)
SameSlot(p) == {i \in DOMAIN epgProgramme :
                    epgProgramme[i].start = p.start /\ epgProgramme[i].stop = p.stop /\ epgProgramme[i].zone = zone}
StoredAs(p) == [start |-> p.start, stop |-> p.stop, zone |-> zone, title |-> p.title]

---------------------------------------------------------------------------
(* Imports.  guideUpdating is isUpdating, which only a scheduled import     *)
(* takes.  Expired programmes are not imported.                             *)
guideUpdating == \E j \in GuideImporting : guideJob[j].scheduled

Disturbed == [j \in GuideJobs |-> IF j \in GuideImporting THEN [guideJob[j] EXCEPT !.undisturbed = FALSE] ELSE guideJob[j]]

BeginGuideImport(j, scheduled) ==
    /\ guideJob[j].at = "idle" /\ guideTally.runs < MaxRuns
    /\ scheduled => ~guideUpdating
    /\ guideJob' = [Disturbed EXCEPT ![j] =
                       [at |-> "sort", scheduled |-> scheduled, undisturbed |-> GuideImporting = {},
                        channels |-> epgDocument.channels,
                        todo |-> {p \in epgDocument.programmes : ~GuideExpired(p)},
                        listed |-> {p \in epgDocument.programmes : ~GuideExpired(p)},
                        new |-> {}, changed |-> {}, doing |-> {}, fill |-> FALSE, output |-> NoGuideFile]]
    /\ guideTally' = [guideTally EXCEPT !.runs = @ + 1]
    /\ UNCHANGED <<epgDocument, epgChannel, epgProgramme, zone, hour, fillMissing, xmltv>>

(* processChannels: the channels are compared with the rows read once.      *)
SortChannels(j) ==
    /\ guideJob[j].at = "sort"
    /\ LET q == guideJob[j]
           rows == DOMAIN epgChannel
           kept == DOMAIN q.channels \cap rows IN
        guideJob' = [guideJob EXCEPT ![j].at = "channels", ![j].new = DOMAIN q.channels \ rows,
                        ![j].changed = {<<n, epgChannel[n].id>> : n \in {m \in kept : epgChannel[m].display # q.channels[m]}}]
    /\ UNCHANGED <<epgDocument, epgChannel, epgProgramme, zone, hour, fillMissing, xmltv, guideTally>>

AddChannels(names, q) ==
    [n \in DOMAIN epgChannel \cup names |->
        IF n \in names THEN [id |-> guideTally.id, display |-> q.channels[n]] ELSE epgChannel[n]]

(* The new channels go in together; one that has a row by then undoes the   *)
(* transaction, and they are added one by one.                              *)
CreateChannels(j) ==
    LET q == guideJob[j] IN
    /\ q.at = "channels"
    /\ IF q.new \cap DOMAIN epgChannel = {}
       THEN /\ epgChannel' = AddChannels(q.new, q)
            /\ guideJob' = [guideJob EXCEPT ![j].at = "update", ![j].new = {}]
            /\ guideTally' = [guideTally EXCEPT !.id = @ + 1]
       ELSE guideJob' = [guideJob EXCEPT ![j].at = "one by one"] /\ UNCHANGED <<epgChannel, guideTally>>
    /\ UNCHANGED <<epgDocument, epgProgramme, zone, hour, fillMissing, xmltv>>

CreateGuideChannel(j, n) ==
    LET q == guideJob[j] IN
    /\ q.at = "one by one" /\ n \in q.new
    /\ epgChannel' = IF n \in DOMAIN epgChannel THEN [epgChannel EXCEPT ![n].display = q.channels[n]]
                     ELSE AddChannels({n}, q)
    /\ guideJob' = [guideJob EXCEPT ![j].new = @ \ {n}, ![j].at = IF q.new = {n} THEN "update" ELSE @]
    /\ guideTally' = [guideTally EXCEPT !.id = @ + 1]
    /\ UNCHANGED <<epgDocument, epgProgramme, zone, hour, fillMissing, xmltv>>

(* A row is updated by the identifier read with it: one that was removed    *)
(* since stays removed.                                                     *)
UpdateChannel(j) ==
    LET q == guideJob[j] IN
    /\ q.at = "update"
    /\ IF q.changed = {}
       THEN guideJob' = [guideJob EXCEPT ![j].at = "programmes"] /\ UNCHANGED epgChannel
       ELSE \E c \in q.changed :
            /\ epgChannel' = [n \in DOMAIN epgChannel |->
                                 IF n = c[1] /\ epgChannel[n].id = c[2] THEN [epgChannel[n] EXCEPT !.display = q.channels[n]]
                                 ELSE epgChannel[n]]
            /\ guideJob' = [guideJob EXCEPT ![j].changed = @ \ {c}]
    /\ UNCHANGED <<epgDocument, epgProgramme, zone, hour, fillMissing, xmltv, guideTally>>

(* processProgrammeWorker: a programme is looked up, then its row is        *)
(* updated, or one is added, by another statement.                          *)
LookUpProgramme(j, p) ==
    LET q == guideJob[j] IN
    /\ q.at = "programmes" /\ p \in q.todo /\ Cardinality(q.doing) < GuideWorkers
    /\ guideJob' = [guideJob EXCEPT ![j].todo = @ \ {p}, ![j].doing = @ \cup {[p |-> p, row |-> SameSlot(p)]}]
    /\ UNCHANGED <<epgDocument, epgChannel, epgProgramme, zone, hour, fillMissing, xmltv, guideTally>>

(* The unique index on channel, start and stop refuses a second row for the *)
(* same text, whether it is added or moved there.                           *)
StoreProgramme(j, d) ==
    LET taken == SameSlot(d.p) \ d.row IN
    /\ guideJob[j].at = "programmes"
    /\ IF d.row = {} /\ taken = {}
       THEN /\ epgProgramme' = [i \in DOMAIN epgProgramme \cup {guideTally.id} |-> IF i = guideTally.id THEN StoredAs(d.p) ELSE epgProgramme[i]]
            /\ guideTally' = [guideTally EXCEPT !.id = @ + 1]
       ELSE /\ epgProgramme' = [i \in DOMAIN epgProgramme |-> IF taken = {} /\ i \in d.row THEN StoredAs(d.p) ELSE epgProgramme[i]]
            /\ UNCHANGED guideTally
    /\ guideJob' = [guideJob EXCEPT ![j].doing = @ \ {d}]
    /\ UNCHANGED <<epgDocument, epgChannel, zone, hour, fillMissing, xmltv>>

(* The database stays locked for every retry, or fails: the programme is    *)
(* left out with a log message.                                             *)
ProgrammeIsLost(j, d) ==
    /\ guideJob[j].at = "programmes"
    /\ guideJob' = [guideJob EXCEPT ![j].doing = @ \ {d}, ![j].undisturbed = FALSE]
    /\ UNCHANGED <<epgDocument, epgChannel, epgProgramme, zone, hour, fillMissing, xmltv, guideTally>>

(* All programmes are in; the lineup is read for its guide file.            *)
ImportProgrammes_NotAwaited(j) ==
    /\ guideJob[j].at = "programmes" /\ guideJob[j].todo = {}
    /\ guideJob' = [guideJob EXCEPT ![j].at = "render", ![j].fill = fillMissing]
    /\ UNCHANGED <<epgDocument, epgChannel, epgProgramme, zone, hour, fillMissing, xmltv, guideTally>>

ImportProgrammes(j) ==
    LET q == guideJob[j] IN
    /\ q.at = "programmes" /\ q.todo = {} /\ q.doing = {}
    /\ guideJob' = [guideJob EXCEPT ![j].at = "render", ![j].fill = fillMissing]
    /\ UNCHANGED <<epgDocument, epgChannel, epgProgramme, zone, hour, fillMissing, xmltv, guideTally>>

---------------------------------------------------------------------------
(* Guide files.                                                             *)
GuideEntry(from, to, kind) == [start |-> from, stop |-> to, kind |-> kind]
Sooner(a, b) == IF a < b THEN a ELSE b

(* appendPlaceholderProgrammes: slots of the same length, the last one      *)
(* shorter.                                                                 *)
Placeholders(from, to) ==
    {GuideEntry(t, Sooner(t + SlotLength, to), "placeholder") :
        t \in {from + SlotLength * k : k \in 0..(IF from < to THEN to - from ELSE 0)} \cap from..(to - 1)}

(* programmesForXMLTV: programmes by their start, those of one start in any *)
(* order.                                                                   *)
InOrder(rows) == {s \in SetToSeqs(rows) : \A i, k \in DOMAIN s : i < k => s[i].start <= s[k].start}

Cursor_LastEnd(s, from, i) == IF i = 1 THEN from ELSE s[i - 1].stop

(* The latest end before the i-th programme, the window's start at first.   *)
Cursor(s, from, i) == Max({from} \cup {s[k].stop : k \in 1..(i - 1)})

(* A gap before a programme, and one after the last, is filled.  Once the   *)
(* cursor is past the window the rest is left out.                          *)
Gap(s, from, to, i) ==
    Placeholders(Cursor(s, from, i), IF i > Len(s) THEN to ELSE Sooner(s[i].start, to))

Render(s, from, to, fill) ==
    LET shown == {i \in 1..Len(s) : fill => Cursor(s, from, i) < to} IN
    {GuideEntry(s[i].start, s[i].stop, "real") : i \in shown}
        \cup (IF fill THEN UNION {Gap(s, from, to, i) : i \in 1..(Len(s) + 1)} ELSE {})

(* GetProgrammesByTVGIDsWindow compares the text of the times.              *)
InWindow(from, to) ==
    {epgProgramme[i] : i \in {k \in DOMAIN epgProgramme : /\ epgProgramme[k].start + epgProgramme[k].zone < to + zone
                                                          /\ epgProgramme[k].stop + epgProgramme[k].zone > from + zone}}

RenderGuide(j) ==
    LET q == guideJob[j]
        from == hour - History
        to == hour + Future IN
    /\ q.at = "render"
    /\ \E s \in InOrder(InWindow(from, to)) :
        guideJob' = [guideJob EXCEPT ![j].at = "replace",
                       ![j].output = [from |-> from, to |-> to, fill |-> q.fill, entries |-> Render(s, from, to, q.fill)]]
    /\ UNCHANGED <<epgDocument, epgChannel, epgProgramme, zone, hour, fillMissing, xmltv, guideTally>>

(* The file is replaced by a rename.  An import then removes old            *)
(* programmes, a rebuild is done.                                           *)
ReplaceGuide(j) ==
    /\ guideJob[j].at = "replace"
    /\ xmltv' = guideJob[j].output
    /\ guideJob' = [guideJob EXCEPT ![j] = NoGuideJob]
    /\ UNCHANGED <<epgDocument, epgChannel, epgProgramme, zone, hour, fillMissing, guideTally>>

ChooseFill(j) ==
    /\ guideJob[j].at = "idle" /\ guideTally.runs < MaxRuns
    /\ fillMissing' = ~fillMissing
    /\ guideJob' = [guideJob EXCEPT ![j] = [at |-> "render", fill |-> ~fillMissing, output |-> NoGuideFile]]
    /\ guideTally' = [guideTally EXCEPT !.runs = @ + 1]
    /\ UNCHANGED <<epgDocument, epgChannel, epgProgramme, zone, hour, xmltv>>

(* CleanOldEpgProgrammes and retention: the delete trigger of the table     *)
(* also removes every channel without an entry in epgchannelitem, which     *)
(* nothing fills.                                                           *)
CleanOldProgrammes ==
    LET old == {i \in DOMAIN epgProgramme : GuideExpired(epgProgramme[i])} IN
    /\ old # {}
    /\ epgProgramme' = [i \in DOMAIN epgProgramme \ old |-> epgProgramme[i]]
    /\ epgChannel' = <<>>
    /\ UNCHANGED <<epgDocument, zone, hour, fillMissing, guideJob, xmltv, guideTally>>

---------------------------------------------------------------------------
(* The world: the source changes a programme or lists another channel, the  *)
(* clock moves, an administrator configures another timezone.               *)
MayEdit == guideTally.edits < MaxGuideEdits
Edited == guideTally' = [guideTally EXCEPT !.edits = @ + 1]

ProgrammeChanges(p) == \E q \in Lasting :
    /\ MayEdit /\ Edited
    /\ q \in {[p EXCEPT !.title = t] : t \in Labels \ {p.title}} \cup {[p EXCEPT !.start = h] : h \in 0..(p.stop - 1) \ {p.start}}
             \cup {[p EXCEPT !.stop = h] : h \in (p.start + 1)..Horizon \ {p.stop}}
    /\ epgDocument' = [epgDocument EXCEPT !.programmes = (@ \ {p}) \cup {q}]
    /\ UNCHANGED <<epgChannel, epgProgramme, zone, hour, fillMissing, guideJob, xmltv>>

ChannelChanges(n, label) ==
    /\ MayEdit /\ Edited /\ (n \in DOMAIN epgDocument.channels => label # epgDocument.channels[n])
    /\ epgDocument' = [epgDocument EXCEPT !.channels = [m \in DOMAIN @ \cup {n} |-> IF m = n THEN label ELSE @[m]]]
    /\ UNCHANGED <<epgChannel, epgProgramme, zone, hour, fillMissing, guideJob, xmltv>>

HourPasses ==
    /\ MayEdit /\ Edited
    /\ hour' = hour + 1
    /\ UNCHANGED <<epgDocument, epgChannel, epgProgramme, zone, fillMissing, guideJob, xmltv>>

ZoneChanges(z) ==
    /\ MayEdit /\ Edited /\ z # zone
    /\ zone' = z /\ guideJob' = Disturbed
    /\ UNCHANGED <<epgDocument, epgChannel, epgProgramme, hour, fillMissing, xmltv>>

GuideInit ==
    /\ \E label \in Labels, p \in Lasting :
        epgDocument = [channels |-> [n \in {Showing} |-> label], programmes |-> {p}]
    /\ epgChannel = <<>> /\ epgProgramme = <<>>
    /\ zone \in Zones /\ hour = History + 1
    /\ fillMissing = FALSE /\ guideJob = [j \in GuideJobs |-> NoGuideJob]
    /\ xmltv = NoGuideFile
    /\ guideTally = [id |-> 1, edits |-> 0, runs |-> 0]

GuideNext ==
    \/ CleanOldProgrammes \/ HourPasses
    \/ \E z \in Zones : ZoneChanges(z)
    \/ \E p \in epgDocument.programmes : ProgrammeChanges(p)
    \/ \E n \in GuideNames, label \in Labels : ChannelChanges(n, label)
    \/ \E j \in GuideJobs :
        \/ \E scheduled \in BOOLEAN : BeginGuideImport(j, scheduled)
        \/ SortChannels(j) \/ CreateChannels(j) \/ UpdateChannel(j) \/ ImportProgrammes(j)
        \/ \E n \in GuideNames : CreateGuideChannel(j, n)
        \/ guideJob[j].at = "programmes" /\ \E p \in guideJob[j].todo : LookUpProgramme(j, p)
        \/ guideJob[j].at = "programmes" /\ \E d \in guideJob[j].doing : StoreProgramme(j, d) \/ ProgrammeIsLost(j, d)
        \/ RenderGuide(j) \/ ReplaceGuide(j) \/ ChooseFill(j)
GuideSpec == GuideInit /\ [][GuideNext]_guideVars

---------------------------------------------------------------------------
(* When an import has stored the last programme, each programme it read has *)
(* exactly one row at its times in today's timezone, with a title the       *)
(* document gives for these times.  Not so when another import ran beside   *)
(* it, the timezone changed, or a programme was lost.  Nothing is said of   *)
(* the rows of earlier documents, which an import never removes: a          *)
(* programme that moved upstream stays at both times.                       *)
GuideImported ==
    [][\A j \in GuideJobs :
        guideJob[j].at = "programmes" /\ guideJob'[j].at = "render" /\ guideJob[j].undisturbed =>
            \A p \in {q \in guideJob[j].listed : ~GuideExpired(q)} :
                \E i \in SameSlot(p) :
                    /\ SameSlot(p) = {i}
                    /\ \E q \in guideJob[j].listed : q.start = p.start /\ q.stop = p.stop /\ q.title = epgProgramme[i].title]_guideVars

(* A guide file that fills the gaps has an entry for every hour of its      *)
(* window, and no placeholder overlaps another entry, whichever programmes  *)
(* of old and new documents and of other timezones the window holds.        *)
GuideFilled ==
    xmltv.fill =>
        /\ \A h \in xmltv.from..(xmltv.to - 1) : \E e \in xmltv.entries : e.start <= h /\ h < e.stop
        /\ \A e \in xmltv.entries, f \in xmltv.entries :
              e.kind = "placeholder" /\ e # f => e.stop <= f.start \/ f.stop <= e.start

=============================================================================
